SPECIFICATION Spec
CONSTANTS
  MaxRetries = 1
  MaxChanges = 1
  MaxSubmits = 1
  MaxFaults = 1
INVARIANTS
  TypeOK
  RecordIsTrue
  RefusalHasCause
  UpdateWakes
  UpdateOnItsWay
CHECK_DEADLOCK FALSE
CONSTRAINT OneDisturbance
