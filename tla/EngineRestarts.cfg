CONSTANTS
  Callers = {"main"}
  Launched <- AllFour
  Clients = {"e1", "e2"}
  SinkCap = 1
  MaxStarts = 2
SPECIFICATION FairSpec
INVARIANTS
  RunsDoNotMix
PROPERTIES
  CloseReturns
  AcceptedIsEvaluated
CHECK_DEADLOCK FALSE
