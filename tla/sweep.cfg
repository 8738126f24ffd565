SPECIFICATION FairSpec
CONSTANTS
  act = act
  timer = timer
  timer2 = timer2
  gone = gone
  Task = {act, timer, timer2, gone}
  Timer = {timer, timer2, gone}
  Poison = {gone}
  Worker = {w1, w2}
  None = None
  Limit = 2
  Attempts = 2
  LeaseTTL = 3
  Delay = 5
  Base = 2
  Digits = 2
  Horizon = 12
INVARIANTS
  TypeOK
PROPERTIES
  SweptWasOverdue
  LeasedEarlyBySubsecond
  OverdueAreSwept
CHECK_DEADLOCK FALSE
