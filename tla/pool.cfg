SPECIFICATION FairSpec
CONSTANTS
  s1 = s1
  s2 = s2
  s3 = s3
  shared = shared
  own = own
  Slot = {s1, s2, s3}
  Worker = {shared, own}
  WorkerID <- TwoPools
  None = None
  Attempts = 3
INVARIANTS
  PoolTypeOK
PROPERTIES
  StrayReportsAreShared
  LostLeaseNoticed
CHECK_DEADLOCK FALSE
