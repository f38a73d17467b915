SPECIFICATION MCFairSpec
CONSTANTS
  p = p
  q = q
  r = r
  a = a
  b = b
  Threads = {p, q, r}
  NoThread = NoThread
  Items = {a, b}
  STOP = STOP
  None = None
  Limit = 1
  Silent = TRUE
  Unique = FALSE
  AllowAddAfterClose = FALSE
  Requests <- WaitingRequests
  LongestBatch = 2
  MaxCalls <- OneEach
PROPERTIES
  CloseEndsPop
  NoLostWakeup
  DeadlineEndsProducer
CHECK_DEADLOCK FALSE
