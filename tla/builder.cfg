SPECIFICATION FairSpec
CONSTANTS
  a = a
  b = b
  c = c
  ID = {a, b, c}
  Input <- Inputs
  NoQueue = "none"
  DefaultInitial = 1
  DefaultMax = 20
INVARIANTS
  TypeOK
  OrderListsSteps
  BuiltIsWellFormed
  RefusedIsIllFormed
  RetriesSlowDown
PROPERTIES
  BuildReturns
CHECK_DEADLOCK FALSE
