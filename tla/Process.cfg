SPECIFICATION FairSpec
CONSTANTS
  Timeout = 0
  Startup = 1
  Closing = {"stderr"}
  PipeMax = 1
  MaxStdin = 1
INVARIANTS
  ProcessInv
PROPERTIES
  JoinEnds
  SilentIsKilled
CHECK_DEADLOCK FALSE
