SPECIFICATION FairSpec
CONSTANTS
  BatchSize = 2
  MaxSize = 2
  MaxItems = 4
  MaxFailures = 1
INVARIANTS
  
  StopDelivers
PROPERTIES
  Delivered
  StopReturns
CHECK_DEADLOCK FALSE
