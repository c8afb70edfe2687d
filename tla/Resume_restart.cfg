SPECIFICATION FairSpec
CONSTANTS
  Confs <- MCAll
  NRows = 2
  RowOf <- MCRowOf
  InitLog = 2
  InitOldest = 1
  MaxTry = 2
  MaxLog = 3
  MaxTroubles = 2
INVARIANTS
  TypeOK
  NoGap
  FileNotAhead
  LossPerCrash
PROPERTIES
  CatchesUp
  StopReturns
CHECK_DEADLOCK FALSE
