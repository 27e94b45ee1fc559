--------------------------- MODULE MemoryStorage ----------------------------
(***************************************************************************)
(* backends/memory.py: the in-process storage.                             *)
(*                                                                         *)
(* Three dictionaries hold the state of the strategies (_counters, _logs,  *)
(* _buckets); an OrderedDict, _index, remembers in which order the keys    *)
(* were last used, so that the least recently used ones can be evicted     *)
(* once there are more than MaxEntries.  Every method runs under one       *)
(* asyncio.Lock and awaits nothing while it holds it, so each is one       *)
(* action.                                                                 *)
(*                                                                         *)
(* _index is modelled by the function that gives, for each key it holds,   *)
(* the set of the keys used after it: a key's distance from the most       *)
(* recent end is the cardinality of that set.  The three kinds of keys     *)
(* are disjoint because every strategy puts its own prefix on its keys.    *)
(* get_expiry changes nothing and has no action.                           *)
(***************************************************************************)
EXTENDS Dicts, Counters, EntryLogs

CONSTANTS CounterKeys, LogKeys, BucketKeys,  \* the three kinds of keys
          MaxEntries, PruneInterval,         \* the constructor's arguments
          Window, Limit,                     \* of the rate of a key
          Capacity, Rate,                    \* of a bucket, in tokens per tick
          Costs,                             \* the amounts callers ask for
          MaxClock, MaxCount                 \* bounds of the model

Keys == CounterKeys \cup LogKeys \cup BucketKeys

\* __init__ refuses max_entries <= 0; a prune interval of 0 would divide by 0.
ASSUME ParametersAssumption ==
  /\ MaxEntries \in Nat \ {0}
  /\ PruneInterval \in Nat \ {0}
  /\ Window \in Nat \ {0} /\ Limit \in Nat
  /\ Capacity \in Nat /\ Rate \in Nat
  /\ Costs \subseteq Nat
  /\ MaxClock \in Nat /\ MaxCount \in Nat

ASSUME DisjointKeysAssumption ==
  /\ CounterKeys \cap LogKeys = {}
  /\ CounterKeys \cap BucketKeys = {}
  /\ LogKeys \cap BucketKeys = {}

VARIABLES clock,     \* now()
          counters,  \* _counters
          logs,      \* _logs
          buckets,   \* _buckets
          index,     \* _index
          ops        \* _ops, modulo PruneInterval

vars == <<clock, counters, logs, buckets, index, ops>>
store == <<counters, logs, buckets, index, ops>>

\* The times kept in logs and buckets are past readings of a clock that does
\* not go back.
LogType    == {log \in SUBSET ((0..clock) \X (Nat \ {0})) : IsFiniteSet(log)}
BucketType == [tokens : 0..Capacity, last : 0..clock]

TypeOK ==
  /\ clock \in 0..MaxClock
  /\ IsDict(counters, CounterKeys, Entry)
  /\ IsDict(logs, LogKeys, LogType)
  /\ IsDict(buckets, BucketKeys, BucketType)
  /\ IsDict(index, Keys, SUBSET Keys)
  /\ ops \in 0..(PruneInterval - 1)

Init ==
  /\ clock = 0
  /\ counters = EmptyDict
  /\ logs = EmptyDict
  /\ buckets = EmptyDict
  /\ index = EmptyDict
  /\ ops = 0

-----------------------------------------------------------------------------
(* The index.                                                              *)

\* move_to_end, of a key that is in order or is being added to it.
MovedToEnd(order, key) ==
  [k \in DOMAIN order \cup {key} |-> IF k = key THEN {} ELSE order[k] \cup {key}]

\* pop, of every key of Gone.
Dropped(order, Gone) == [k \in DOMAIN order \ Gone |-> order[k] \ Gone]

\* (Mutant of Overflow: one key too many is kept.)
OverflowByTwo(order) == {k \in DOMAIN order : Cardinality(order[k]) > MaxEntries}

\* The keys that popitem(last=False) takes until MaxEntries are left.
Overflow(order) == {k \in DOMAIN order : Cardinality(order[k]) >= MaxEntries}

\* (Mutant of Expired: windows that end with the current tick are swept early.)
ExpiredEarly(cs, ls) ==
  {k \in DOMAIN cs : cs[k].reset_at <= clock + 1} \cup {k \in DOMAIN ls : ls[k] = {}}

\* The keys that _prune_expired takes out of cs and ls.
Expired(cs, ls) ==
  {k \in DOMAIN cs : cs[k].reset_at <= clock} \cup {k \in DOMAIN ls : ls[k] = {}}

\* _touch: the method has written cs, ls and bs, and has used key.
Touch(key, cs, ls, bs) ==
  LET moved   == MovedToEnd(index, key)
      pruned  == IF (ops + 1) % PruneInterval = 0 THEN Expired(cs, ls) ELSE {}
      evicted == Overflow(Dropped(moved, pruned))
      gone    == pruned \cup evicted
  IN  /\ index' = Dropped(moved, gone)
      /\ counters' = Without(cs, gone)
      /\ logs' = Without(ls, gone)
      /\ buckets' = Without(bs, gone)
      /\ ops' = (ops + 1) % PruneInterval

-----------------------------------------------------------------------------
(* The methods.                                                            *)

\* incr
Increment(key, amount, elastic) ==
  LET entry == IF elastic THEN ElasticallyIncremented(counters, key, clock, Window, amount)
                          ELSE Incremented(counters, key, clock, Window, amount)
  IN  /\ entry.value <= MaxCount
      /\ Touch(key, With(counters, key, entry), logs, buckets)
      /\ UNCHANGED clock

\* get: of a live counter it renews the recency, which fails when the index
\* does not hold the key.
Get(key) ==
  /\ Live(counters, key, clock)
  /\ index' = MovedToEnd(index, key)
  /\ UNCHANGED <<clock, counters, logs, buckets, ops>>

LogOf(key) == IF key \in DOMAIN logs THEN logs[key] ELSE {}

\* acquire_entry
Acquire(key, amount) ==
  /\ Touch(key, counters,
           With(logs, key, Acquired(LogOf(key), clock, Limit, Window, amount)), buckets)
  /\ UNCHANGED clock

\* get_num_acquired and get_oldest_entry: both store the pruned log back and
\* neither touches the index.
ReadLog(key) ==
  /\ logs' = With(logs, key, InWindow(LogOf(key), clock, Window))
  /\ UNCHANGED <<clock, counters, buckets, index, ops>>

\* (Mutant of Refilled: the refill is not capped.)
RefilledPastCapacity(key) ==
  IF key \in DOMAIN buckets
  THEN buckets[key].tokens + (clock - buckets[key].last) * Rate
  ELSE Capacity

\* The tokens of a bucket at this moment, before any is taken.
Refilled(key) ==
  IF key \in DOMAIN buckets
  THEN LET filled == buckets[key].tokens + (clock - buckets[key].last) * Rate
       IN  IF filled < Capacity THEN filled ELSE Capacity
  ELSE Capacity

\* take_token
TakeToken(key, amount) ==
  LET left == IF Refilled(key) >= amount THEN Refilled(key) - amount ELSE Refilled(key)
  IN  /\ Touch(key, counters, logs,
               With(buckets, key, [tokens |-> left, last |-> clock]))
      /\ UNCHANGED clock

\* (Mutant of Reset: only counters are popped with their index entry.)
ResetOfCounters(key) ==
  /\ counters' = Without(counters, {key})
  /\ index' = Dropped(index, {key})
  /\ UNCHANGED <<clock, logs, buckets, ops>>

\* reset
Reset(key) ==
  /\ counters' = Without(counters, {key})
  /\ logs' = Without(logs, {key})
  /\ buckets' = Without(buckets, {key})
  /\ index' = Dropped(index, {key})
  /\ UNCHANGED <<clock, ops>>

\* close: the storage stays usable, and the write counter goes on.
Close ==
  /\ counters' = EmptyDict
  /\ logs' = EmptyDict
  /\ buckets' = EmptyDict
  /\ index' = EmptyDict
  /\ UNCHANGED <<clock, ops>>

Tick ==
  /\ clock < MaxClock
  /\ clock' = clock + 1
  /\ UNCHANGED store

Next ==
  \/ \E key \in CounterKeys :
       \/ \E amount \in Costs, elastic \in BOOLEAN : Increment(key, amount, elastic)
       \/ Get(key)
  \/ \E key \in LogKeys :
       \/ \E amount \in Costs : Acquire(key, amount)
       \/ ReadLog(key)
  \/ \E key \in BucketKeys, amount \in Costs : TakeToken(key, amount)
  \/ \E key \in Keys : Reset(key)
  \/ Close
  \/ Tick

Spec == Init /\ [][Next]_vars

-----------------------------------------------------------------------------
(* Properties.                                                             *)

\* The keys under which a dictionary holds something other than an empty log.
HeldKeys ==
  DOMAIN counters \cup DOMAIN buckets \cup {k \in DOMAIN logs : logs[k] # {}}

\* Every counter, bucket and non-empty log has its key in the index, so it can
\* be evicted, and get() can move the key of a counter it found without the
\* KeyError of OrderedDict.move_to_end.  Only empty logs escape the index.
IndexCoversEntries == HeldKeys \subseteq DOMAIN index

\* The eviction loop of _touch keeps the limit state within max_entries: no
\* call leaves more than MaxEntries keys that hold a counter, a bucket or a
\* log entry, whatever a sweep removed before.
StoreBounded == Cardinality(HeldKeys) <= MaxEntries

\* The keys whose state would still decide a request.
DecidingKeys ==
  {k \in DOMAIN counters : counters[k].reset_at > clock}
    \cup {k \in DOMAIN logs : InWindow(logs[k], clock, Window) # {}}
    \cup DOMAIN buckets

\* Apart from reset() and close(), a call forgets state that still counts only
\* when the storage is full, and then that of keys less recently used than
\* every key it keeps: neither the sweep of expired entries nor the eviction
\* takes anything else.
LosesOnlyLeastRecent ==
  [][~(Close \/ \E key \in Keys : Reset(key)) /\ clock' = clock =>
       \A k \in DecidingKeys \ DecidingKeys' :
         /\ Cardinality(DOMAIN index') = MaxEntries
         /\ \A j \in DOMAIN index' : j \in index[k] \/ index'[j] = {}]_vars
=============================================================================
