SPECIFICATION MCSpec
CONSTANTS
  p = p
  q = q
  r = r
  a = a
  b = b
  Threads = {p, q, r}
  NoThread = NoThread
  Items = {a, b}
  STOP = STOP
  None = None
  Limit = 1
  Silent = FALSE
  Unique = FALSE
  AllowAddAfterClose = FALSE
  Requests <- MixedRequests
  LongestBatch = 2
  MaxCalls <- TwoOneOne
INVARIANTS
  QueueInv
  LimitRespected
PROPERTIES
  ImplementsChannel
CHECK_DEADLOCK FALSE
