SPECIFICATION Spec
CONSTANTS
  Heights = {1, 2, 3}
  None = none
  MinInterval = 2
  MaxReadings = 5
  MaxDrops = 0
  MaxConnects = 0
CHECK_DEADLOCK FALSE
INVARIANT SettlesOnLatest
