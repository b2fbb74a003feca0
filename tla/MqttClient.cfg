SPECIFICATION FairSpec
CONSTANTS
  t1 = t1
  t2 = t2
  Topics = {t1, t2}
  MinBackoff = 1
  MaxBackoff = 4
  MaxFaults = 3
  MaxRefusals = 1
CHECK_DEADLOCK FALSE
INVARIANTS
  TypeOK
  LossIsSeen
  NoFalseAlarm
  RetriesArePaced
  ServedOrOnTheWay
PROPERTIES
  SupervisesLink
  ComesBack
  RunReturns
