-------------------------- MODULE MCSQLiteStorage ---------------------------
(***************************************************************************)
(* Two processes, one with two tasks, share one key.                       *)
(***************************************************************************)
EXTENDS SQLiteStorage, TLC

CONSTANTS p1, p2, t1, t2, t3, k1

MCHome == t1 :> p1 @@ t2 :> p1 @@ t3 :> p2

Call(op) == [op |-> op, key |-> k1, amount |-> 1]

MCRequests == t1 :> {Call("incr"), Call("take")}
           @@ t2 :> {Call("acquire"), Call("prune")}
           @@ t3 :> {Call("incr"), Call("acquire"), Call("reset")}

MCCalls == UNION {MCRequests[t] : t \in Tasks}
=============================================================================
