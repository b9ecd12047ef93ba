SPECIFICATION SwitchingSpec
CONSTANTS
  NTHREAD = 3
  MAX_THRD_NUM = 3
  STEPS = 2
  DELAY = 2
  Thread = {t1, t2, t3}
  Task = {k1, k2, k3}
  NULL = NULL
\* The process of MP3 ends.
CHECK_DEADLOCK FALSE
INVARIANTS ListsWhole ResumedWhereStopped
PROPERTIES TakesTurns EveryThreadRuns
