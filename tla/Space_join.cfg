SPECIFICATION FairSpec
CONSTANTS
  a = a
  c = c
  m = m
  n = n
  r = r
  d = d
  A = A
  R = R
  Spaces = {a, c}
  Tasks <- MCTasks
  Ops = {m, n, r, d}
  DocumentSet <- MCDocumentSet
  Skipped = {d}
  MainSet <- MCMainSet
  Wheres <- MCWheres
  NoLifetime = {c}
INVARIANTS
  TypeOK
  OnePlace
PROPERTIES
  PipeReturns
  JoinsLeave
  EmptySpaceStops
  StopReturns
CHECK_DEADLOCK FALSE
