--------------------------- MODULE MCEnforcement ----------------------------
(***************************************************************************)
(* Enforcement with two overlapping requests and two rules of one scope.   *)
(* The rules share a counter (the same item in the same scope), the second *)
(* has an item of its own as well, and a ban can begin, be renewed by a    *)
(* breach of the other request, or be cleared and come back.  A banned     *)
(* client is blocked, and clear() may be called at any time, or is held to *)
(* a penalty limit.                                                        *)
(***************************************************************************)
EXTENDS Enforcement, TLC

CONSTANT api

Amount(n, seconds) == [amount |-> n, expiry |-> seconds]

MCRules == << [scope |-> api, items |-> <<Amount(1, 2)>>],
              [scope |-> api, items |-> <<Amount(1, 2), Amount(1, 1)>>] >>
MCPenalties == {NoPenalty, Amount(1, 2)}
MCClearTimes == [p \in MCPenalties |-> IF p = NoPenalty THEN 0..MaxClock ELSE {}]
MCCosts == {1}

MCSymmetry == Permutations(Requests)
=============================================================================
