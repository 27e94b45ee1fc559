CONSTANTS
  CounterKeys = {c1, c2}
  LogKeys = {l1, l2}
  BucketKeys = {b1}
  MaxEntries = 2
  PruneInterval = 2
  Window = 2
  Limit = 2
  Capacity = 2
  Rate = 1
  Costs <- MCCosts
  MaxClock = 4
  MaxCount = 4
SPECIFICATION Spec
SYMMETRY MCSymmetry
INVARIANTS
  TypeOK
  IndexCoversEntries
  StoreBounded
PROPERTY
  LosesOnlyLeastRecent
