SPECIFICATION Spec
CONSTANTS
  p1 = p1
  p2 = p2
  Peripherals = {p1, p2}
  Dead = {}
  NoPeripheral = none
  QueueCap = 1
  RescanAfter = 2
  MinBackoff = 1
  MaxBackoff = 4
  MaxFaults = 3
  MaxLost = 1
  MaxLate = 1
  MaxCommands = 2
  HelperMayDie = FALSE
SYMMETRY Alike
CHECK_DEADLOCK FALSE
INVARIANTS
  TypeOK
  SessionSetUp
  DropIsSignalled
  BackoffPaced
PROPERTIES
  EndsForItsOwnLoss
  SupervisesLink
