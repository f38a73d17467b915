SPECIFICATION FairSpec
CONSTANTS
  Main = Main
  Workers = {a, b}
  Calls = {"join", "join_till", "stop", "release", "fail", "answer"}
INVARIANTS
  ThreadInv
  FailureNotLost
  ChildrenStopFirst
PROPERTIES
  ShutdownEndsUnlessJoining
CHECK_DEADLOCK FALSE
