CONSTANTS
  Requests = {r1, r2}
  api = api
  Rules <- MCRules
  Threshold = 2
  TrackSeconds = 2
  BanSeconds = 2
  Penalties <- MCPenalties
  NoPenalty = NoPenalty
  NoScope = NoScope
  Costs <- MCCosts
  Failures = TRUE
  ClearTimes <- MCClearTimes
  MaxClock = 3
  MaxCount = 2
  MaxBreaches = 3
SPECIFICATION Spec
SYMMETRY MCSymmetry
INVARIANTS
  TypeOK
  ServedWithinEveryLimit
  BannedForBreaches
  BanLasts
CHECK_DEADLOCK FALSE
