SPECIFICATION FairSpec
CONSTANTS
  r1 = r1  r2 = r2  w1 = w1  w2 = w2  a1 = a1  a2 = a2  a3 = a3
  NoReader = NoReader
  Readers = {r1}
  Direct = {r1}
  Writers = {w1, w2}
  Aliases = {a1, a2, a3}
  MaxOps = 2
  TargetIndex <- MCTargetIndex
  DocumentSet <- MCDisjoint
  FlowResults <- MCFlowResults
INVARIANTS
  RightTarget
PROPERTIES
  SourceOrder
  StopReturns
  ImplementsTransfer
CHECK_DEADLOCK FALSE
