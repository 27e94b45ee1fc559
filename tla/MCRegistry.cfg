SPECIFICATION RegistrySpec
CONSTANTS
  r1 = r1
  r2 = r2
  LimitRules = {r1, r2}
  Decorated = {r1}
  Threads = {t1, t2}
  Limits <- MCLimits
  FirstLimit <- MCFirst
  MaxEdits = 2
INVARIANTS
  RegistryTypeOK
  AnswersTheLimit
  ManagedUntilRemoved
CHECK_DEADLOCK FALSE
