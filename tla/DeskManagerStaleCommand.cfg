SPECIFICATION Spec
CONSTANTS
  p1 = p1
  Peripherals = {p1}
  Dead = {}
  NoPeripheral = none
  QueueCap = 1
  RescanAfter = 3
  MinBackoff = 1
  MaxBackoff = 2
  MaxFaults = 1
  MaxLost = 0
  MaxLate = 0
  MaxCommands = 1
  HelperMayDie = FALSE
CHECK_DEADLOCK FALSE
INVARIANT NoCommandCarriedOver
