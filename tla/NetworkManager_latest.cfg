\* The user corrects the credentials; nothing fails.
SPECIFICATION FairSpec
CONSTANTS
  home = home
  office = office
  Creds = {home, office}
  Invalid = Invalid
  MaxSubmits = 2
  MaxFaults = 0
  MaxReboots = 0
PROPERTIES LatestIsUsed
\* At rest after the last submission the system stops.
CHECK_DEADLOCK FALSE
