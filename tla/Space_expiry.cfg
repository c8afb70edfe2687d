SPECIFICATION Spec
CONSTANTS
  a = a
  c = c
  m = m
  n = n
  r = r
  d = d
  A = A
  R = R
  Spaces = {a, c}
  Tasks <- MCTasks
  Ops = {m, n, r, d}
  DocumentSet <- MCDocumentSet
  Skipped = {d}
  MainSet <- MCMainSet
  Wheres <- MCWheres
  NoLifetime = {c}
INVARIANTS
  OnlyExpiredTimeOut
CHECK_DEADLOCK FALSE
