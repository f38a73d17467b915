SPECIFICATION AllFairSpec
CONSTANTS
  Threads = {t1, t2, t3}
  NoThread = NoThread
  Jobs = {j1, j2}
  Fragile = {j2}
  Deps = {a, b, c}
  NoDep = NoDep
  Builder = builder
  Other = other
INVARIANTS
  SignalInv
  AndInv
  OrInv
PROPERTIES
  ImplementsEvent
  GoFreesWaiters
  GoRunsJobs
  FiresWhenAll
  DependencyGoes
CHECK_DEADLOCK FALSE
