SPECIFICATION Spec
CONSTANTS
  a = a
  b = b
  c = c
  d = d
  None = None
  NoQueue = "none"
  Step = {a, b, c}
  Deps <- NoDeps
  Timer = {}
  Compensable = {a, b}
  MaxAttempts <- OneAttempt
  Queue <- DefaultQueue
  CompQueue <- DefaultQueue
  Worker = {w1}
  WorkerQueue <- WorkersOnDefault
  MaxHeartbeats = 0
INVARIANTS
  EndedRunUnwound
CHECK_DEADLOCK FALSE
