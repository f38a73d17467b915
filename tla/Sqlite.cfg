SPECIFICATION FairSpec
CONSTANTS
  a = a
  b = b
  Clients = {a, b}
  NoClient = NoClient
  Owner = b
  MaxTx = 3
  MaxNesting <- NestingOfA
  MaxCommands <- TwoOneNone
  MaxPlain <- PlainOfA
  MaxFailures = 1
INVARIANTS
  SqliteInv
  AllOrNothing
PROPERTIES
  ImplementsSerial
  CallsReturn
CHECK_DEADLOCK FALSE
