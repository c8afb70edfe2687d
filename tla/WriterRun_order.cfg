SPECIFICATION FairSpec
CONSTANTS
  MaxOps = 3
  DdlOps = {2}
INVARIANTS
  TypeOK
  OnlyLateOverlap
  FailuresCounted
PROPERTIES
  InOrder
  ReceivesAgain
CHECK_DEADLOCK FALSE
