------------------------------ MODULE Counters ------------------------------
(***************************************************************************)
(* Expiring counters: the part of a storage that the fixed window, the     *)
(* sliding window and the escalation policy are built on.  A store is a    *)
(* function from the keys it holds to entries; an entry whose reset time   *)
(* has come is still held (nothing removes it in the background) but reads *)
(* as absent.  The operators below are the four primitives of              *)
(* backends/base.py as MemoryStorage writes them; the Lua script and the   *)
(* TTLs of RedisStorage give the same results for positive amounts.  (A    *)
(* counter of value 0, left by amounts of 0, starts its window anew there  *)
(* with each further call until it counts something.)                      *)
(*                                                                         *)
(* Times and expiries are integers of one unit, chosen by the user module. *)
(***************************************************************************)
EXTENDS Integers, Dicts

\* What a store can hold for a key: (value, reset_at).
Entry == [value : Nat, reset_at : Int]

\* The entry of key is present and its window is still open at time t.
Live(store, key, t) == key \in DOMAIN store /\ store[key].reset_at > t

\* get: the value of a live counter, 0 otherwise.
Value(store, key, t) == IF Live(store, key, t) THEN store[key].value ELSE 0

\* (Mutant of ExpiryOf: a store that does not know the reset time of what it
\* holds and answers the current time.)
UnknownExpiryOf(store, key, t) == t

\* get_expiry: the reset time of a live counter, the current time otherwise.
ExpiryOf(store, key, t) == IF Live(store, key, t) THEN store[key].reset_at ELSE t

\* incr: a live counter keeps its reset time, any other one starts a window.
Incremented(store, key, t, expiry, amount) ==
  [value    |-> Value(store, key, t) + amount,
   reset_at |-> IF Live(store, key, t) THEN store[key].reset_at ELSE t + expiry]

\* incr with an elastic expiry: every increment starts the window anew.
ElasticallyIncremented(store, key, t, expiry, amount) ==
  [value |-> Value(store, key, t) + amount, reset_at |-> t + expiry]
=============================================================================
