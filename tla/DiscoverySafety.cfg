SPECIFICATION Spec
CONSTANTS
  p1 = p1
  p2 = p2
  None = none
  N = 2
  Peripherals = {p1, p2}
  Matches <- OwnNames
  MaxForgets = 1
  MaxFaults = 0
  MaxPowerOffs = 1
CHECK_DEADLOCK FALSE
INVARIANTS
  TypeOK
  HandoverNeverLost
  RoutingAgrees
  ScanFollowsNeed
