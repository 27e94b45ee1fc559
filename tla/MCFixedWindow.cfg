CONSTANTS
  Tasks = {t1, t2}
  Key = key
  Limit = 2
  Seconds = 1
  TicksPerSecond = 3
  Costs <- MCCosts
  MaxClock = 7
  MaxCount = 4
SPECIFICATION Spec
SYMMETRY MCSymmetry
INVARIANTS
  TypeOK
  AtMostLimitPerWindow
  AtMostTwiceTheLimit
  ResetCoversTheWindow
  RetryAfterIsNear
CHECK_DEADLOCK FALSE
