SPECIFICATION FairSpec
CONSTANTS
  Writers = {"mongodb", "elasticsearch", "clickhouse"}
  Limit = 2
  BulkLimit = 3
  OptionType <- MCMixed
  Unmapped = {1}
  Unsplit = {2}
  MaxEmpty = 0
  MaxLate = 1
INVARIANTS
  TypeOK
  BatchesPartition
  CacheBelowLimit
  FailuresCounted
  OnlyLateGoWrong
PROPERTIES
  InOrder
  TickersFlush
CHECK_DEADLOCK FALSE
