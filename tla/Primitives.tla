----------------------------- MODULE Primitives -----------------------------
(***************************************************************************)
(* The primitives of a storage, backends/base.py, as functions of what the *)
(* storage holds: what a call that is stamped with a time leaves behind    *)
(* and what it answers.  The counters and the logs are those of the        *)
(* modules Counters and EntryLogs; a bucket holds whole tokens.            *)
(*                                                                         *)
(* A key belongs to one limit: all calls for it have the same expiry,      *)
(* limit, capacity and refill rate.                                        *)
(***************************************************************************)
EXTENDS Counters, EntryLogs

CONSTANTS Keys,
          Expiry,     \* of a counter, and the window of a log
          Limit,      \* of a log
          Capacity,   \* of a bucket, in tokens
          RefillRate, \* in tokens per unit of time
          Calls       \* the calls made

\* "prune" stands for get_num_acquired and get_oldest_entry: what they change.
AllCalls == [op : {"incr", "elastic", "acquire", "take", "reset", "prune"},
             key : Keys, amount : Nat]

ASSUME PrimitivesAssumption ==
  /\ {Expiry, Limit, Capacity, RefillRate} \subseteq Nat
  /\ Calls \subseteq AllCalls

Bucket == [tokens : 0..Capacity, ts : Int]

IsDatabase(d) ==
  /\ DOMAIN d = {"counters", "logs", "buckets"}
  /\ IsDict(d.counters, Keys, Entry)
  /\ d.logs \in [Keys -> SUBSET (Int \X Nat)]
  /\ IsDict(d.buckets, Keys, Bucket)

EmptyDatabase ==
  [counters |-> EmptyDict, logs |-> [k \in Keys |-> {}], buckets |-> EmptyDict]

-----------------------------------------------------------------------------
(* take_token.                                                             *)

\* (Mutant of Refilled: a bucket gains more than it can hold.)
Overfilled(d, key, s) ==
  IF key \in DOMAIN d.buckets
  THEN d.buckets[key].tokens + (s - d.buckets[key].ts) * RefillRate
  ELSE Capacity

\* The tokens at time s, before any is taken: a bucket never used is full.
Refilled(d, key, s) ==
  IF key \in DOMAIN d.buckets
  THEN LET gained == d.buckets[key].tokens + (s - d.buckets[key].ts) * RefillRate
       IN  IF gained < Capacity THEN gained ELSE Capacity
  ELSE Capacity

Enough(d, c, s) == Refilled(d, c.key, s) >= c.amount

TokensLeft(d, c, s) == Refilled(d, c.key, s) - IF Enough(d, c, s) THEN c.amount ELSE 0

-----------------------------------------------------------------------------
(* What a call c stamped s does to d, and what it answers.                 *)

\* incr.
CounterAfter(d, c, s) ==
  IF c.op = "elastic"
  THEN ElasticallyIncremented(d.counters, c.key, s, Expiry, c.amount)
  ELSE Incremented(d.counters, c.key, s, Expiry, c.amount)

\* acquire_entry.
LogAfter(d, c, s) == Acquired(d.logs[c.key], s, Limit, Expiry, c.amount)

\* take_token.
BucketAfter(d, c, s) == [tokens |-> TokensLeft(d, c, s), ts |-> s]

\* reset.
Wiped(d, key) ==
  [counters |-> Without(d.counters, {key}),
   logs     |-> [d.logs EXCEPT ![key] = {}],
   buckets  |-> Without(d.buckets, {key})]

\* What get_num_acquired and get_oldest_entry delete.
Pruned(d, key, s) == [d EXCEPT !.logs[key] = InWindow(@, s, Expiry)]

Effect(d, c, s) ==
  CASE c.op \in {"incr", "elastic"} ->
         [d EXCEPT !.counters = With(@, c.key, CounterAfter(d, c, s))]
    [] c.op = "acquire" -> [d EXCEPT !.logs[c.key] = LogAfter(d, c, s)]
    [] c.op = "take"    -> [d EXCEPT !.buckets = With(@, c.key, BucketAfter(d, c, s))]
    [] c.op = "reset"   -> Wiped(d, c.key)
    [] c.op = "prune"   -> Pruned(d, c.key, s)

Answer == [op : {"none", "incr", "elastic", "acquire", "take", "reset"},
           ok : BOOLEAN, value : Nat]

NoAnswer == [op |-> "none", ok |-> TRUE, value |-> 0]

AnswerOf(d, c, s) ==
  CASE c.op \in {"incr", "elastic"} ->
         [op |-> c.op, ok |-> TRUE, value |-> CounterAfter(d, c, s).value]
    [] c.op = "acquire" ->
         [op |-> c.op, ok |-> Admits(d.logs[c.key], s, Limit, Expiry, c.amount), value |-> 0]
    [] c.op = "take" ->
         [op |-> c.op, ok |-> Enough(d, c, s), value |-> TokensLeft(d, c, s)]
    [] c.op = "reset" -> [op |-> c.op, ok |-> TRUE, value |-> 0]

-----------------------------------------------------------------------------
(* What the readers answer at time t, when they see d.                     *)

\* get and get_expiry.
CounterReading(d, key, t) ==
  [value |-> Value(d.counters, key, t), expiry |-> ExpiryOf(d.counters, key, t)]

\* get_num_acquired and get_oldest_entry, of what they have not deleted.
LogReading(d, key, t) ==
  LET live == InWindow(d.logs[key], t, Expiry)
  IN  [count |-> Cardinality(live), oldest |-> IF live = {} THEN {} ELSE {Oldest(live)}]

Reading(d, key, t) ==
  [counter |-> CounterReading(d, key, t), log |-> LogReading(d, key, t)]
=============================================================================
