SPECIFICATION FairSpec
CONSTANTS
  MaxRetries = 1
  MaxChanges = 1
  MaxSubmits = 1
  MaxFaults = 0
PROPERTIES
  ShowsArrivals
CHECK_DEADLOCK FALSE
