SPECIFICATION FairSpec
CONSTANTS
  Heights = {1, 2}
  None = none
  MinInterval = 1
  MaxReadings = 4
  MaxDrops = 1
  MaxConnects = 2
CHECK_DEADLOCK FALSE
INVARIANTS
  TypeOK
  LatestIsKept
  NoRepeatPending
  ShowsTheHeight
PROPERTY PendingGetsOut
