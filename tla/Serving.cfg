SPECIFICATION Spec
CONSTANTS
  Text <- MCText
  Trim <- MCTrim
  Fold <- MCFold
  Prefix <- MCPrefix
  Absent = absent
  None = none
  Wild = {"+", "#"}
  Slashed = {"a/b"}
  Hour = 6
  Files <- MCFiles
  Envs <- MCEnvs
  Adverts <- MCAdverts
  MinInt <- MCMinInt
  MaxInt = 70000
  Payloads <- MCPayloads
  QueueCap = 1
  MaxLag = 1
  MaxFailures = 3
CHECK_DEADLOCK FALSE
INVARIANTS
  TypeOK
  TopicsKeptApart
  ListsWhatWasHeard
  CopiedEntryMatches
  CommandsMeanWhatWasSent
  NeverSilentTooLong
