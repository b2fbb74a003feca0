SPECIFICATION FairSpec
CONSTANTS
  N = 2
  MaxAttempts = 2
  MaxFaults = 1
  MaxKills = 1
CHECK_DEADLOCK FALSE
INVARIANTS
  TypeOK
  ShowsTheDesks
  ShowsTheBridge
  NotLeftOnline
PROPERTY ShutsDown
