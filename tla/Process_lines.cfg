SPECIFICATION Spec
CONSTANTS
  Timeout = 1
  Startup = 1
  Closing = {}
  PipeMax = 1
  MaxStdin = 0
INVARIANTS
  LastLinesArrive
CHECK_DEADLOCK FALSE
