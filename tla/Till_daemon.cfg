SPECIFICATION Spec
CONSTANTS
  Timers = {x, y}
  Seconds = {1, 6}
  INTERVAL = 2
  Slack = 1
  MaxTime = 8
SYMMETRY Symmetry
INVARIANTS
  TillInv
  Punctual
CHECK_DEADLOCK FALSE
