SPECIFICATION PgFairSpec
CONSTANTS
  t1 = t1
  t2 = t2
  None = None
  Task = {t1, t2}
  Root = {t1}
  Worker = {w1, w2}
  StrayHeartbeats = TRUE
  Session = {s1, s2}
  MaxTries = 2
  MaxLog = 6
INVARIANTS
  PgTypeOK
  VersionCountsLog
  StatusFollowsLog
  PgInv
PROPERTIES
  ImplementsAtomicStore
  CallsEnd
CHECK_DEADLOCK FALSE
