SPECIFICATION ServiceSpec
CONSTANTS
  r1 = r1
  r2 = r2
  Callers = {r1, r2}
  Paths <- MCPaths
  MaxLeft = 1
INVARIANTS
  ServiceTypeOK
  ReadyMeansUsable
  HeadersShowTheTightest
PROPERTIES
  EveryRequestEnds
CHECK_DEADLOCK FALSE
