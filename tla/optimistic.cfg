SPECIFICATION OptimisticFairSpec
CONSTANTS
  a = a
  c = c
  None = None
  NoQueue = "none"
  Step = {a, c}
  Deps <- NoDeps
  Timer = {c}
  Compensable = {a, c}
  MaxAttempts <- TwoAttempts
  Queue <- TimerWithoutQueue
  CompQueue <- DefaultQueue
  Worker = {w1}
  WorkerQueue <- WorkersOnDefault
  MaxHeartbeats = 1
  Client = {api}
  Sweeper = sweeper
  MaxTries = 2
INVARIANTS
  OptimisticTypeOK
  VersionCountsHistory
  FreshLoadsAreCurrent
PROPERTIES
  ImplementsRunEngine
  EventuallySettled
CHECK_DEADLOCK FALSE
