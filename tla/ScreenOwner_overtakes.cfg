\* The server thread overtakes a turn of the alive timer.
SPECIFICATION Spec
CONSTANTS
  main = main
  bar = bar
  STATUS = STATUS
  TABLE = TABLE
  INFO_BAR = INFO_BAR
  listener = listener
  worker = worker
  None = None
  Clients <- MCClients
  Components <- MCComponents
  Slots <- MCSlots
  SlotOf <- MCSlotOf
  SlotOrder <- MCSlotOrder
  Uses <- MCUses
  KeepsWidget <- MCKeepsWidget
  ResetsLabels <- MCResetsLabels
  ZeroComponent = INFO_BAR
  MaxAlive = 2
  MaxEvents = 1
  Mortal <- MCMortal
  TurnsPerRequest = 1
INVARIANTS ExpiringIsCleanedUp
CHECK_DEADLOCK TRUE
