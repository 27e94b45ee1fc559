----------------------------- MODULE MCRegistry -----------------------------
(***************************************************************************)
(* A rule of Limiter.limit and one of the module's limit, under one name.  *)
(* A callable has a value that parses, and so has one of the others.       *)
(***************************************************************************)
EXTENDS Registry

CONSTANTS r1, r2

MCFirst == LimitValue(FALSE, <<Rate(5, 1, "minute"), Blank, Rate(100, 2, "hour")>>)

MCLimits ==
  {MCFirst,
   LimitValue(TRUE, <<Ready([amount |-> 2, multiples |-> 1, granularity_seconds |-> 60])>>),
   LimitValue(FALSE, <<Rate(0, 1, "day")>>),
   LimitValue(FALSE, <<Rate(1, 1, "parsec"), Junk>>)}
=============================================================================
