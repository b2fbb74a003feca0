SPECIFICATION Spec
CONSTANTS
  p1 = p1
  p2 = p2
  Peripherals = {p1, p2}
  Dead = {}
  NoPeripheral = none
  QueueCap = 1
  RescanAfter = 2
  MinBackoff = 1
  MaxBackoff = 2
  MaxFaults = 3
  MaxLost = 0
  MaxLate = 0
  MaxCommands = 0
  HelperMayDie = FALSE
CHECK_DEADLOCK FALSE
INVARIANT ServesItsPeripheral
