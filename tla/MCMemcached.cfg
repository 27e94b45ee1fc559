SPECIFICATION MCSpec
CONSTANTS
  t1 = t1
  t2 = t2
  Tasks = {t1, t2}
  Amount = 1
  Seconds = 1
  Burst = 2
  Costs <- MCCosts
  MaxDelay = 1
  TicksPerSecond = 1
  NoBucket = NoBucket
  Retries = 3
  MaxClock = 2
  CounterTasks = {t1, t2}
  Limit = 1
  Expiry = 2
  HitCosts = {1}
  MaxCalls = 5
  SetDelay = 1
  MaxTime = 2
SYMMETRY MCSymmetry
INVARIANTS
  TypeOK
  BurstIsBounded
  GivesUpOnlyWhenOvertaken
  CountersTypeOK
  AdmittedInAWindow
  ResetTimeCoversTheCount
PROPERTY
  KeepsThePromise
CHECK_DEADLOCK FALSE
