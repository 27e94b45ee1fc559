CONSTANTS
  Tasks = {t1, t2}
  Limit = 2
  Seconds = 2
  MaxCost = 2
  TicksPerSecond = 1
  MaxClock = 5
SPECIFICATION Spec
SYMMETRY MCSymmetry
INVARIANTS
  TypeOK
  CountsAreKept
  OvershootIsBounded
