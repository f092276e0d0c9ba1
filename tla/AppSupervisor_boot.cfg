\* A boot phase with every kind of dependency, no process id used twice.
SPECIFICATION FairSpec
CONSTANTS
  N = 4
  Names <- MCNames
  NoName = NoName
  Name <- MCBootName
  AfterExited <- MCBootExited
  AfterStarted <- MCBootStarted
  HasFolder = {2, 4}
  Pids = {p1, p2, p3}
  ExitCodes = {0, 1}
  PidReuse = FALSE
INVARIANTS TypeOK NoLostExit ChainsResolved PrereqHonoured ShortLivedSeen TableMatchesKernel
PROPERTIES ExitRecorded EveryExitReaped KeepsOrderFairly
\* The supervisor sleeps for good once no application is left to end.
CHECK_DEADLOCK FALSE
