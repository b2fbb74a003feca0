SPECIFICATION FairSpec
CONSTANTS
  p1 = p1
  p2 = p2
  Peripherals = {p1, p2}
  Dead = {p2}
  NoPeripheral = none
  QueueCap = 1
  RescanAfter = 3
  MinBackoff = 1
  MaxBackoff = 4
  MaxFaults = 3
  MaxLost = 0
  MaxLate = 1
  MaxCommands = 0
  HelperMayDie = TRUE
CHECK_DEADLOCK FALSE
PROPERTIES
  KeptUp
  StopsWhenAsked
