SPECIFICATION MCSpec
CONSTANTS
  Threads = {t1, t2, t3}
  NoThread = NoThread
  MaxCalls = 3
INVARIANTS
  LockInv
  TruthfulAnswer
PROPERTIES
  ImplementsMonitor
  SleeperIsWoken
  TillEndsWait
CHECK_DEADLOCK FALSE
