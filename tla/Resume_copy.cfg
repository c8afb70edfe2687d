SPECIFICATION Spec
CONSTANTS
  Confs <- MCMongo
  NRows = 2
  RowOf <- MCRowOf
  InitLog = 2
  InitOldest = 1
  MaxTry = 2
  MaxLog = 4
  MaxTroubles = 0
INVARIANTS
  ReplicaIsComplete
CHECK_DEADLOCK FALSE
