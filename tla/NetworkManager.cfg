\* Two submissions with two failing calls and two power losses, at any moment.
SPECIFICATION FairSpec
CONSTANTS
  home = home
  office = office
  Creds = {home, office}
  Invalid = Invalid
  MaxSubmits = 2
  MaxFaults = 2
  MaxReboots = 2
INVARIANTS TypeOK OneConfiguration ModeIsApplied ClientsKnow
PROPERTIES FollowsFile
\* After a first switch that failed the program has ended.
CHECK_DEADLOCK FALSE
