\* Two clients of one place ask for different components.
SPECIFICATION FairSpec
CONSTANTS
  main = main
  bar = bar
  STATUS = STATUS
  TABLE = TABLE
  INFO_BAR = INFO_BAR
  listener = listener
  worker = worker
  None = None
  Clients <- MCClients
  Components <- MCComponents
  Slots <- MCSlots
  SlotOf <- MCSlotOf
  SlotOrder <- MCSlotOrder
  Uses <- MCUses
  KeepsWidget <- MCKeepsWidget
  ResetsLabels <- MCResetsLabels
  ZeroComponent = INFO_BAR
  MaxAlive = 2
  MaxEvents = 1
  Mortal <- MCMortal
  TurnsPerRequest = 1
PROPERTIES EveryCallReturns
CHECK_DEADLOCK TRUE
