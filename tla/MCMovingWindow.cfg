CONSTANTS
  Tasks = {r1, r2, r3}
  Limit = 2
  Seconds = 2
  Costs <- MCCosts
  MaxDelay = 1
  TicksPerSecond = 2
  MaxClock = 6
SPECIFICATION Spec
SYMMETRY MCSymmetry
INVARIANTS
  TypeOK
  AtMostLimitInAnyWindow
PROPERTY
  AnswersWithTheNextFreeSlot
CHECK_DEADLOCK FALSE
