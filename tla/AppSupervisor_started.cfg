\* An application that waits for another one to be running.
SPECIFICATION Spec
CONSTANTS
  N = 4
  Names <- MCNames
  NoName = NoName
  Name <- MCBootName
  AfterExited <- MCBootExited
  AfterStarted <- MCBootStarted
  HasFolder = {2, 4}
  Pids = {p1, p2, p3}
  ExitCodes = {0, 1}
  PidReuse = FALSE
SYMMETRY PidSymmetry
PROPERTIES StartedAfterRunning
\* The supervisor sleeps for good once no application is left to end.
CHECK_DEADLOCK FALSE
