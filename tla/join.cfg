SPECIFICATION Spec
CONSTANTS
  a = a
  b = b
  c = c
  d = d
  None = None
  NoQueue = "none"
  Step = {a, b, c}
  Deps <- DiamondDeps
  Timer = {c}
  Compensable = {a, c}
  MaxAttempts <- DiamondAttempts
  Queue <- DiamondQueue
  CompQueue <- DiamondCompQueue
  Worker = {w1, w2}
  WorkerQueue <- WorkersOnDefault
  MaxHeartbeats = 1
INVARIANTS
  TypeOK
  ReplayDerivesState
  ViewsAgree
  TaskLifeCycle
  LeasesBounded
  DependenciesRespected
  NoStuckRun
  CompletedMeansAllDone
  UnwindOrder
  CancelStopsForwardWork
  CancelledMeansUnwinding
  IInv
  HistoryAgrees
PROPERTIES
  TasksKeepLeases
  ImplementsSaga
  SettledRunIsFinal
SYMMETRY SymWorkers
CHECK_DEADLOCK FALSE
