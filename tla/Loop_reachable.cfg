SPECIFICATION Spec
CONSTANTS
  t1 = t1  t2 = t2  t3 = t3  s1 = s1  Boot = Boot  NoId = NoId
  Ids = {t1}
  Saved = {t1}
  AutoSaved = {}
  Stream = {t1}
  Http = {1}
  Sock = {}
  MaxObjects = 4
  MaxRequests = 2
  MaxCrashes = 0
INVARIANTS
  Reachable
CHECK_DEADLOCK FALSE
