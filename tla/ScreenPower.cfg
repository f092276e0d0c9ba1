SPECIFICATION FairSpec
CONSTANTS
  MaxFaults = 2
INVARIANTS TypeOK NothingLost
PROPERTIES TouchLights GoesDark
CHECK_DEADLOCK FALSE
