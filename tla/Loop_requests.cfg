SPECIFICATION FairSpec
CONSTANTS
  t1 = t1  t2 = t2  t3 = t3  s1 = s1  Boot = Boot  NoId = NoId
  Ids = {t1, t2, t3}
  Saved = {t1}
  AutoSaved = {t1, t2}
  Stream = {t1, t2}
  Http = {1, 2}
  Sock = {s1}
  MaxObjects = 3
  MaxRequests = 2
  MaxCrashes = 1
INVARIANTS
  TypeOK
  Durable
  StopRemembered
PROPERTIES
  RemovedForGood
  RequestsEnd
CHECK_DEADLOCK FALSE
