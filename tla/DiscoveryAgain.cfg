SPECIFICATION FairSpec
CONSTANTS
  p1 = p1
  p2 = p2
  None = none
  N = 1
  Peripherals = {p1}
  Matches <- Alone
  MaxForgets = 2
  MaxFaults = 1
  MaxPowerOffs = 1
CHECK_DEADLOCK FALSE
PROPERTIES
  KeepsPromise
  ScanSettles
