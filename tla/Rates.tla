------------------------------- MODULE Rates --------------------------------
(***************************************************************************)
(* rate.py: from the value of a limit to its items.  A limit is written as *)
(* the sequence of its parts, those between ; and , and those of a list.   *)
(* A part is an expression that was read as amount, multiples and unit, a  *)
(* RateLimitItem, a blank, or something that is no rate.                   *)
(***************************************************************************)
EXTENDS Integers, Sequences

\* _GRANULARITIES, of the units without their short forms.
Granularity ==
  [second |-> 1, minute |-> 60, hour |-> 3600, day |-> 86400,
   week |-> 604800, month |-> 2592000, year |-> 31536000]

RateItem == [amount : Nat, multiples : Nat, granularity_seconds : Nat]

\* An item with a positive amount and window.
Proper(item) == item \in RateItem /\ \A f \in DOMAIN item : item[f] > 0

Rate(amount, multiples, unit) ==
  [kind |-> "rate", amount |-> amount, multiples |-> multiples, unit |-> unit]
Ready(item) == [kind |-> "item", item |-> item]
Blank == [kind |-> "blank"]
Junk == [kind |-> "junk"]

\* The parts of limits.  Items that were made by hand are taken as they are: that
\* they are proper is up to who made them.
Parts ==
  [kind : {"rate"}, amount : Nat, multiples : Nat, unit : STRING]
    \cup [kind : {"item"}, item : {item \in RateItem : Proper(item)}]
    \cup {Blank, Junk}

\* (Mutant of Parses: amounts and multiples of zero are let through.)
ParsesZero(part) ==
  \/ part.kind = "item"
  \/ part.kind = "rate" /\ part.unit \in DOMAIN Granularity

\* parse raises nothing.
Parses(part) ==
  \/ part.kind = "item"
  \/ /\ part.kind = "rate"
     /\ part.unit \in DOMAIN Granularity
     /\ part.amount > 0 /\ part.multiples > 0

Parsed(part) ==
  IF part.kind = "item" THEN part.item
  ELSE [amount |-> part.amount, multiples |-> part.multiples,
        granularity_seconds |-> Granularity[part.unit]]

\* The items of a limit, each at the place of its part; none stands for the
\* ConfigurationError of a part that does not parse and of a limit without parts.
ParseMany(parts) ==
  LET written == {i \in DOMAIN parts : parts[i].kind # "blank"}
  IN  IF \A i \in written : Parses(parts[i])
      THEN [i \in written |-> Parsed(parts[i])]
      ELSE <<>>
=============================================================================
