SPECIFICATION Spec
CONSTANTS
  p1 = p1
  p2 = p2
  t1 = t1
  t2 = t2
  t3 = t3
  k1 = k1
  Processes = {p1, p2}
  Tasks = {t1, t2, t3}
  Home <- MCHome
  Keys = {k1}
  Calls <- MCCalls
  Requests <- MCRequests
  Expiry = 1
  Limit = 1
  Capacity = 1
  RefillRate = 3
  MaxCalls = 3
  MaxCrashes = 1
  MaxClock = 1
INVARIANTS
  TypeOK
  ReadsAreOneCallAhead
PROPERTIES
  KeepsThePromise
  EveryCallEnds
CHECK_DEADLOCK FALSE
