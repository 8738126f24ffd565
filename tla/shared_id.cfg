SPECIFICATION Spec
CONSTANTS
  s1 = s1
  s2 = s2
  s3 = s3
  shared = shared
  own = own
  Slot = {s1, s2}
  Worker = {shared, own}
  WorkerID <- OnePool
  None = None
  Attempts = 3
PROPERTIES
  ReportsAreOwn
CHECK_DEADLOCK FALSE
