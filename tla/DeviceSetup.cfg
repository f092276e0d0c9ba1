SPECIFICATION Spec
CONSTANTS
  MaxSubmits = 2
  MaxFaults = 2
  MaxBoots = 2
INVARIANTS TypeOK SetupSurvives LoadedIsStored
CHECK_DEADLOCK FALSE
