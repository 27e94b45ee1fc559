------------------------ MODULE SQLiteStorageProofs -------------------------
(***************************************************************************)
(* Proofs that SQLiteStorage keeps its types, that what a reader sees of a *)
(* counter or a log is never more than one call ahead of the database, and *)
(* that the database implements Storage, for every value of the constants. *)
(* The invariant says what a transaction holds after each statement of its *)
(* call, and what of that a reader can tell from the database.             *)
(***************************************************************************)
EXTENDS SQLiteStorage, StoreLemmas

-----------------------------------------------------------------------------
(* The inductive invariant.                                                *)

Holding == {"locked", "begun", "read"}
Writing == {"begun", "read"}

\* The task that is past the lock holds it, and nobody else does.
LockIsHeld ==
  /\ \A t \in Tasks : pc[t] \in Holding <=> lock[Home[t]] = t
  /\ \A p \in Processes : lock[p] # NoTask => Home[lock[p]] = p

\* Two connections are never in a transaction.
OneTransaction ==
  \A p, q \in Processes : view[p] # NoView /\ view[q] # NoView => p = q

\* What the first n statements of c make of d.
After(d, c, s, n) ==
  IF n = 0 THEN d
  ELSE IF n = Statements(c) THEN Effect(d, c, s)
  ELSE IF c.op = "acquire" THEN Pruned(d, c.key, s)
  ELSE [counters |-> Without(d.counters, {c.key}),
        logs     |-> IF n = 1 THEN d.logs ELSE [d.logs EXCEPT ![c.key] = {}],
        buckets  |-> d.buckets]

\* Where a call is, and what its transaction is by then.
CallIsOnItsWay ==
  \A t \in Tasks :
    /\ stamp[t] <= clock
    /\ pc[t] # "idle" => call[t] \in Calls
    /\ pc[t] # "read" => done[t] = 0
    /\ pc[t] \in Writing =>
         /\ call[t].op # "prune"
         /\ view[Home[t]] = After(db, call[t], stamp[t], done[t])
    /\ pc[t] = "read" =>
         /\ last <= stamp[t] /\ (call[t].op = "reset" => stamp[t] = last)
         /\ done[t] <= Statements(call[t])

\* Two databases that a reader cannot tell apart at time t or later.
ReadAlike(d, e, t) ==
  /\ d.counters = e.counters
  /\ \A k \in Keys : InWindow(d.logs[k], t, Expiry) = InWindow(e.logs[k], t, Expiry)

\* Of v a reader sees each part at time t as it is in d, or as it is in e.
Between(v, d, e, t) ==
  /\ v.counters \in {d.counters, e.counters}
  /\ \A k \in Keys : InWindow(v.logs[k], t, Expiry) \in
                       {InWindow(d.logs[k], t, Expiry), InWindow(e.logs[k], t, Expiry)}

\* The database, and what one call would make of it.
OneAhead == {db} \cup {Effect(db, c, s) : c \in Calls, s \in 0..clock}

\* What an open transaction, left behind or not, reads like.
ViewsAreOneAhead ==
  \A p \in Processes :
    view[p] # NoView => \E e \in OneAhead : Between(view[p], db, e, clock)

\* The logs are finite, and no bucket was filled after the last call.
Stamped(d, s) ==
  /\ \A k \in Keys : IsFiniteSet(d.logs[k])
  /\ \A k \in DOMAIN d.buckets : d.buckets[k].ts <= s

IInv ==
  /\ TypeOK
  /\ LockIsHeld
  /\ OneTransaction
  /\ CallIsOnItsWay
  /\ ViewsAreOneAhead
  /\ Stamped(db, last)
  /\ last <= clock

-----------------------------------------------------------------------------
(* What a call makes of a database.                                        *)

\* What a call does to the counters.
LEMMA EffectOnCounters ==
  ASSUME NEW d, IsDatabase(d), NEW c \in Calls, NEW s
  PROVE  /\ DOMAIN Effect(d, c, s) = {"counters", "logs", "buckets"}
         /\ c.op \notin {"incr", "elastic", "reset"} =>
              Effect(d, c, s).counters = d.counters
         /\ c.op \in {"incr", "elastic"} =>
              Effect(d, c, s).counters = With(d.counters, c.key, CounterAfter(d, c, s))
         /\ c.op = "reset" =>
              Effect(d, c, s).counters = Without(d.counters, {c.key})
<1>1. c.op \in {"incr", "elastic", "acquire", "take", "reset", "prune"}
  BY PrimitivesAssumption DEF AllCalls
<1>2. DOMAIN d = {"counters", "logs", "buckets"}
  BY DEF IsDatabase
<1>3. CASE c.op \in {"incr", "elastic"}
  <2>1. Effect(d, c, s) = [d EXCEPT !.counters = With(@, c.key, CounterAfter(d, c, s))]
    BY <1>3 DEF Effect
  <2> QED  BY <1>2, <1>3, <2>1
<1>4. CASE c.op = "acquire"
  <2>1. Effect(d, c, s) = [d EXCEPT !.logs[c.key] = LogAfter(d, c, s)]
    BY <1>4 DEF Effect
  <2> QED  BY <1>2, <1>4, <2>1
<1>5. CASE c.op = "take"
  <2>1. Effect(d, c, s) = [d EXCEPT !.buckets = With(@, c.key, BucketAfter(d, c, s))]
    BY <1>5 DEF Effect
  <2> QED  BY <1>2, <1>5, <2>1
<1>6. CASE c.op = "reset"
  <2>1. Effect(d, c, s) = Wiped(d, c.key)
    BY <1>6 DEF Effect
  <2> QED  BY <1>2, <1>6, <2>1 DEF Wiped
<1>7. CASE c.op = "prune"
  <2>1. Effect(d, c, s) = [d EXCEPT !.logs[c.key] = InWindow(@, s, Expiry)]
    BY <1>7 DEF Effect, Pruned
  <2> QED  BY <1>2, <1>7, <2>1
<1> QED  BY <1>1, <1>3, <1>4, <1>5, <1>6, <1>7

\* The logs of d, with another one for a key.
Relogged(d, key, log) == [d.logs EXCEPT ![key] = log]

\* What a call does to the logs.
LEMMA EffectOnLogs ==
  ASSUME NEW d, IsDatabase(d), NEW c \in Calls, NEW s
  PROVE  /\ c.op \notin {"acquire", "prune", "reset"} =>
              Effect(d, c, s).logs = d.logs
         /\ c.op = "acquire" =>
              Effect(d, c, s).logs = Relogged(d, c.key, LogAfter(d, c, s))
         /\ c.op = "prune" =>
              Effect(d, c, s).logs =
                Relogged(d, c.key, InWindow(d.logs[c.key], s, Expiry))
         /\ c.op = "reset" =>
              Effect(d, c, s).logs = Relogged(d, c.key, {})
<1>1. c.op \in {"incr", "elastic", "acquire", "take", "reset", "prune"}
  BY PrimitivesAssumption DEF AllCalls
<1>2. DOMAIN d = {"counters", "logs", "buckets"}
  BY DEF IsDatabase
<1>3. CASE c.op \in {"incr", "elastic"}
  <2>1. Effect(d, c, s) = [d EXCEPT !.counters = With(@, c.key, CounterAfter(d, c, s))]
    BY <1>3 DEF Effect
  <2> QED  BY <1>2, <1>3, <2>1
<1>4. CASE c.op = "acquire"
  <2>1. Effect(d, c, s) = [d EXCEPT !.logs[c.key] = LogAfter(d, c, s)]
    BY <1>4 DEF Effect
  <2> QED  BY <1>2, <1>4, <2>1 DEF Relogged
<1>5. CASE c.op = "take"
  <2>1. Effect(d, c, s) = [d EXCEPT !.buckets = With(@, c.key, BucketAfter(d, c, s))]
    BY <1>5 DEF Effect
  <2> QED  BY <1>2, <1>5, <2>1
<1>6. CASE c.op = "reset"
  <2>1. Effect(d, c, s) = Wiped(d, c.key)
    BY <1>6 DEF Effect
  <2> QED  BY <1>2, <1>6, <2>1 DEF Wiped, Relogged
<1>7. CASE c.op = "prune"
  <2>1. Effect(d, c, s) = [d EXCEPT !.logs[c.key] = InWindow(@, s, Expiry)]
    BY <1>7 DEF Effect, Pruned
  <2> QED  BY <1>2, <1>7, <2>1 DEF Relogged
<1> QED  BY <1>1, <1>3, <1>4, <1>5, <1>6, <1>7

\* What a call does to the buckets.
LEMMA EffectOnBuckets ==
  ASSUME NEW d, IsDatabase(d), NEW c \in Calls, NEW s
  PROVE  /\ c.op \notin {"take", "reset"} =>
              Effect(d, c, s).buckets = d.buckets
         /\ c.op = "take" =>
              Effect(d, c, s).buckets = With(d.buckets, c.key, BucketAfter(d, c, s))
         /\ c.op = "reset" =>
              Effect(d, c, s).buckets = Without(d.buckets, {c.key})
<1>1. c.op \in {"incr", "elastic", "acquire", "take", "reset", "prune"}
  BY PrimitivesAssumption DEF AllCalls
<1>2. DOMAIN d = {"counters", "logs", "buckets"}
  BY DEF IsDatabase
<1>3. CASE c.op \in {"incr", "elastic"}
  <2>1. Effect(d, c, s) = [d EXCEPT !.counters = With(@, c.key, CounterAfter(d, c, s))]
    BY <1>3 DEF Effect
  <2> QED  BY <1>2, <1>3, <2>1
<1>4. CASE c.op = "acquire"
  <2>1. Effect(d, c, s) = [d EXCEPT !.logs[c.key] = LogAfter(d, c, s)]
    BY <1>4 DEF Effect
  <2> QED  BY <1>2, <1>4, <2>1
<1>5. CASE c.op = "take"
  <2>1. Effect(d, c, s) = [d EXCEPT !.buckets = With(@, c.key, BucketAfter(d, c, s))]
    BY <1>5 DEF Effect
  <2> QED  BY <1>2, <1>5, <2>1
<1>6. CASE c.op = "reset"
  <2>1. Effect(d, c, s) = Wiped(d, c.key)
    BY <1>6 DEF Effect
  <2> QED  BY <1>2, <1>6, <2>1 DEF Wiped
<1>7. CASE c.op = "prune"
  <2>1. Effect(d, c, s) = [d EXCEPT !.logs[c.key] = InWindow(@, s, Expiry)]
    BY <1>7 DEF Effect, Pruned
  <2> QED  BY <1>2, <1>7, <2>1
<1> QED  BY <1>1, <1>3, <1>4, <1>5, <1>6, <1>7

\* A prune needs no order: whatever its time, it leaves a database, and one
\* that was filled no later.
LEMMA PrunedType ==
  ASSUME NEW d, IsDatabase(d), NEW c \in Calls, c.op = "prune", NEW s, NEW l
  PROVE  /\ IsDatabase(Effect(d, c, s))
         /\ Stamped(d, l) => Stamped(Effect(d, c, s), l)
<1> DEFINE e == Effect(d, c, s)
<1>1. c.key \in Keys
  BY PrimitivesAssumption DEF AllCalls
<1>2. /\ DOMAIN e = {"counters", "logs", "buckets"}
      /\ e.counters = d.counters
      /\ e.logs = Relogged(d, c.key, InWindow(d.logs[c.key], s, Expiry))
      /\ e.buckets = d.buckets
  <2>1. e.counters = d.counters /\ DOMAIN e = {"counters", "logs", "buckets"}
    BY EffectOnCounters
  <2>2. e.logs = Relogged(d, c.key, InWindow(d.logs[c.key], s, Expiry))
    BY EffectOnLogs
  <2>3. e.buckets = d.buckets
    BY EffectOnBuckets
  <2> QED  BY <2>1, <2>2, <2>3
<1> HIDE DEF e
<1>3. \A k \in Keys : e.logs[k] \subseteq d.logs[k]
  BY <1>2 DEF IsDatabase, InWindow, Relogged
<1>4. IsDatabase(e)
  BY <1>1, <1>2, <1>3 DEF IsDatabase, InWindow, Relogged
<1>5. ASSUME Stamped(d, l)  PROVE Stamped(e, l)
  BY <1>2, <1>3, <1>5, FS_Subset DEF Stamped
<1> QED  BY <1>4, <1>5 DEF e

\* The tokens of a bucket that was filled in the past stay within its capacity.
LEMMA BucketAfterType ==
  ASSUME NEW d, IsDatabase(d), NEW c \in Calls, NEW s \in Nat,
         \A k \in DOMAIN d.buckets : d.buckets[k].ts <= s
  PROVE  BucketAfter(d, c, s) \in Bucket /\ BucketAfter(d, c, s).ts = s
<1> USE PrimitivesAssumption
<1>1. c.key \in Keys /\ c.amount \in Nat
  BY DEF AllCalls
<1>2. Refilled(d, c.key, s) \in 0..Capacity
  <2>1. CASE c.key \notin DOMAIN d.buckets
    BY <2>1 DEF Refilled
  <2>2. CASE c.key \in DOMAIN d.buckets
    <3> DEFINE b == d.buckets[c.key]
    <3>1. b \in Bucket
      BY <2>2, ElementType DEF IsDatabase
    <3>2. b.tokens \in Nat /\ b.ts \in Int /\ s - b.ts \in Nat
      BY <2>2, <3>1 DEF Bucket
    <3> HIDE DEF b
    <3>3. \A x \in Nat, y \in Nat : x * y \in Nat
      OBVIOUS
    <3>4. (s - b.ts) * RefillRate \in Nat
      BY <3>2, <3>3
    <3>5. Refilled(d, c.key, s) = LET gained == b.tokens + (s - b.ts) * RefillRate
                                  IN  IF gained < Capacity THEN gained ELSE Capacity
      BY <2>2 DEF Refilled, b
    <3>6. b.tokens + (s - b.ts) * RefillRate \in Nat
      BY <3>2, <3>4
    <3> HIDE DEF b
    <3> QED  BY <3>5, <3>6
  <2> QED  BY <2>1, <2>2
<1>3. TokensLeft(d, c, s) \in 0..Capacity
  BY <1>1, <1>2 DEF TokensLeft, Enough
<1> QED  BY <1>3 DEF BucketAfter, Bucket

\* A call leaves finite logs, whenever it is made.
LEMMA EffectLogsType ==
  ASSUME NEW d, IsDatabase(d), \A k \in Keys : IsFiniteSet(d.logs[k]),
         NEW c \in Calls, NEW s \in Nat
  PROVE  /\ Effect(d, c, s).logs \in [Keys -> SUBSET (Int \X Nat)]
         /\ \A k \in Keys : IsFiniteSet(Effect(d, c, s).logs[k])
<1> USE PrimitivesAssumption
<1> DEFINE e == Effect(d, c, s)
<1>1. /\ c.key \in Keys /\ c.amount \in Nat
      /\ c.op \in {"incr", "elastic", "acquire", "take", "reset", "prune"}
  BY DEF AllCalls
<1>2. LogAfter(d, c, s) \subseteq Int \X Nat /\ IsFiniteSet(LogAfter(d, c, s))
  <2> DEFINE log == d.logs[c.key]
             old == InWindow(log, s, Expiry)
             same == {x \in old : Ts(x) = s}
             new == NewEntries(s, Cardinality(same), c.amount)
  <2>1. log \subseteq Int \X Nat /\ IsFiniteSet(log)
    BY <1>1 DEF IsDatabase
  <2>2. old \subseteq log /\ IsFiniteSet(old)
    BY <2>1, InWindowFinite
  <2>3. Cardinality(same) \in Nat
    <3>1. same \subseteq old  OBVIOUS
    <3> QED  BY <2>2, <3>1, FS_Subset, FS_CardinalityType
  <2>4. IsFiniteSet(new) /\ new \subseteq Int \X Nat
    <3>1. IsFiniteSet(new) /\ \A x \in new : x \in {s} \X (Nat \ {0})
      BY <1>1, <2>3, NewEntriesType
    <3> QED  BY <3>1
  <2>5. IsFiniteSet(old \cup new)
    BY <2>2, <2>4, FS_Union
  <2>6. LogAfter(d, c, s) \in {old, old \cup new}
    BY DEF LogAfter, Acquired, Extended
  <2> HIDE DEF log, old, new
  <2> QED  BY <2>1, <2>2, <2>4, <2>5, <2>6
<1>3. /\ e.logs \in [Keys -> SUBSET (Int \X Nat)]
      /\ \A k \in Keys : IsFiniteSet(e.logs[k])
  <2>1. /\ InWindow(d.logs[c.key], s, Expiry) \subseteq Int \X Nat
        /\ IsFiniteSet(InWindow(d.logs[c.key], s, Expiry))
    <3>1. d.logs[c.key] \subseteq Int \X Nat /\ IsFiniteSet(d.logs[c.key])
      BY <1>1 DEF IsDatabase
    <3> QED  BY <3>1, InWindowFinite
  <2>2. IsFiniteSet({})
    BY FS_EmptySet
  <2>3. \E log \in SUBSET (Int \X Nat) :
          IsFiniteSet(log) /\ e.logs \in {d.logs, Relogged(d, c.key, log)}
    <3>1. CASE c.op = "acquire"
      BY <1>2, <3>1, EffectOnLogs
    <3>2. CASE c.op = "reset"
      <4>1. e.logs = Relogged(d, c.key, {})
        BY <3>2, EffectOnLogs
      <4> QED  BY <2>2, <4>1
    <3>3. CASE c.op = "prune"
      <4>1. e.logs = Relogged(d, c.key, InWindow(d.logs[c.key], s, Expiry))
        BY <3>3, EffectOnLogs
      <4> QED  BY <2>1, <4>1
    <3>4. CASE c.op \in {"incr", "elastic", "take"}
      <4>1. e.logs = d.logs
        BY <3>4, EffectOnLogs
      <4> QED  BY <2>2, <4>1
    <3> QED  BY <1>1, <3>1, <3>2, <3>3, <3>4
  <2> HIDE DEF e
  <2>4. d.logs \in [Keys -> SUBSET (Int \X Nat)] /\ \A k \in Keys : IsFiniteSet(d.logs[k])
    BY DEF IsDatabase
  <2> QED  BY <1>1, <2>3, <2>4 DEF Relogged
<1> QED  BY <1>3

\* A call stamped no earlier than the last one leaves a database, filled no
\* later than its stamp.
LEMMA EffectType ==
  ASSUME NEW d, IsDatabase(d), NEW l \in Nat, Stamped(d, l),
         NEW c \in Calls, NEW s \in Nat, l <= s
  PROVE  IsDatabase(Effect(d, c, s)) /\ Stamped(Effect(d, c, s), s)
<1> USE PrimitivesAssumption
<1> DEFINE e == Effect(d, c, s)
<1>1. /\ c.key \in Keys /\ c.amount \in Nat
      /\ c.op \in {"incr", "elastic", "acquire", "take", "reset", "prune"}
  BY DEF AllCalls
<1>2. Expiry \in Int /\ Limit \in Int
  OBVIOUS
<1>3. \A k \in DOMAIN d.buckets : d.buckets[k] \in Bucket /\ d.buckets[k].ts <= s
  <2> TAKE k \in DOMAIN d.buckets
  <2>1. d.buckets[k] \in Bucket
    BY ElementType DEF IsDatabase
  <2> QED  BY <2>1 DEF Stamped, Bucket
<1>4. CounterAfter(d, c, s) \in Entry
  BY <1>1, <1>2, IncrementedType DEF CounterAfter, IsDatabase
<1>5. IsDict(e.counters, Keys, Entry)
  <2>1. e.counters \in {d.counters, With(d.counters, c.key, CounterAfter(d, c, s)),
                        Without(d.counters, {c.key})}
    BY <1>1, EffectOnCounters
  <2> HIDE DEF e
  <2> QED  BY <1>1, <1>4, <2>1, WithType, WithoutType DEF IsDatabase
<1>6. /\ e.logs \in [Keys -> SUBSET (Int \X Nat)]
      /\ \A k \in Keys : IsFiniteSet(e.logs[k])
  BY EffectLogsType DEF Stamped
<1>7. /\ IsDict(e.buckets, Keys, Bucket)
      /\ \A k \in DOMAIN e.buckets : e.buckets[k].ts <= s
  <2>1. CASE c.op = "take"
    <3>1. e.buckets = With(d.buckets, c.key, BucketAfter(d, c, s))
      BY <2>1, EffectOnBuckets
    <3>2. BucketAfter(d, c, s) \in Bucket /\ BucketAfter(d, c, s).ts = s
      BY <1>3, BucketAfterType
    <3> HIDE DEF e
    <3>3. IsDict(e.buckets, Keys, Bucket)
      BY <1>1, <3>1, <3>2, WithType DEF IsDatabase
    <3>4. \A k \in DOMAIN e.buckets : e.buckets[k].ts <= s
      BY <1>3, <3>1, <3>2 DEF With
    <3> QED  BY <3>3, <3>4
  <2>2. CASE c.op = "reset"
    <3>1. e.buckets = Without(d.buckets, {c.key})
      BY <2>2, EffectOnBuckets
    <3> HIDE DEF e
    <3>2. IsDict(e.buckets, Keys, Bucket)
      BY <3>1, WithoutType DEF IsDatabase
    <3>3. \A k \in DOMAIN e.buckets : e.buckets[k].ts <= s
      BY <1>3, <3>1 DEF Without
    <3> QED  BY <3>2, <3>3
  <2>3. CASE c.op \notin {"take", "reset"}
    <3>1. e.buckets = d.buckets
      BY <2>3, EffectOnBuckets
    <3> HIDE DEF e
    <3> QED  BY <1>3, <3>1 DEF IsDatabase
  <2> QED  BY <2>1, <2>2, <2>3
<1>8. DOMAIN e = {"counters", "logs", "buckets"}
  BY EffectOnCounters
<1> HIDE DEF e
<1>9. IsDatabase(e) /\ Stamped(e, s)
  BY <1>5, <1>6, <1>7, <1>8 DEF IsDatabase, Stamped
<1> QED  BY <1>9 DEF e

\* What a call answers has the type of an answer.
LEMMA AnswerType ==
  ASSUME NEW d, IsDatabase(d), NEW c \in Calls, c.op # "prune", NEW s \in Nat,
         \A k \in DOMAIN d.buckets : d.buckets[k].ts <= s
  PROVE  AnswerOf(d, c, s) \in Answer
<1> USE PrimitivesAssumption
<1>1. /\ c.key \in Keys /\ c.amount \in Nat
      /\ c.op \in {"incr", "elastic", "acquire", "take", "reset"}
  BY DEF AllCalls
<1>2. CASE c.op \in {"incr", "elastic"}
  <2>1. CounterAfter(d, c, s) \in Entry
    BY <1>1, IncrementedType DEF CounterAfter, IsDatabase
  <2>2. AnswerOf(d, c, s) = [op |-> c.op, ok |-> TRUE, value |-> CounterAfter(d, c, s).value]
    BY <1>2 DEF AnswerOf
  <2> QED  BY <1>2, <2>1, <2>2 DEF Answer, Entry
<1>3. CASE c.op = "acquire"
  <2>1. AnswerOf(d, c, s) = [op |-> c.op, value |-> 0,
                             ok |-> Admits(d.logs[c.key], s, Limit, Expiry, c.amount)]
    BY <1>3 DEF AnswerOf
  <2>2. Admits(d.logs[c.key], s, Limit, Expiry, c.amount) \in BOOLEAN
    BY DEF Admits
  <2> QED  BY <1>3, <2>1, <2>2 DEF Answer
<1>4. CASE c.op = "take"
  <2>1. AnswerOf(d, c, s) =
          [op |-> c.op, ok |-> Enough(d, c, s), value |-> TokensLeft(d, c, s)]
    BY <1>4 DEF AnswerOf
  <2>2. Enough(d, c, s) \in BOOLEAN
    BY DEF Enough
  <2>3. TokensLeft(d, c, s) \in Nat
    BY BucketAfterType DEF BucketAfter, Bucket
  <2> QED  BY <1>4, <2>1, <2>2, <2>3 DEF Answer
<1>5. CASE c.op = "reset"
  BY <1>5 DEF AnswerOf, Answer
<1> QED  BY <1>1, <1>2, <1>3, <1>4, <1>5

-----------------------------------------------------------------------------
(* The statements of a call.                                               *)

\* A call that begins a transaction writes with one, two or three statements.
LEMMA StatementsType ==
  ASSUME NEW c \in Calls
  PROVE  /\ Statements(c) \in {1, 2, 3}
         /\ c.op = "reset" => Statements(c) = 3
         /\ c.op = "acquire" => Statements(c) = 2
         /\ c.op \notin {"reset", "acquire"} => Statements(c) = 1
BY DEF Statements

\* After some statements every table is as it was, as the call leaves it or, a
\* log, without what has left the window.
LEMMA AfterParts ==
  ASSUME NEW d, IsDatabase(d), NEW c \in Calls, c.op # "prune", NEW s,
         NEW n \in 0..Statements(c)
  PROVE  /\ DOMAIN After(d, c, s, n) = {"counters", "logs", "buckets"}
         /\ After(d, c, s, n).counters \in {d.counters, Effect(d, c, s).counters}
         /\ \/ After(d, c, s, n).logs \in {d.logs, Effect(d, c, s).logs}
            \/ /\ c.op = "acquire"
               /\ After(d, c, s, n).logs =
                    Relogged(d, c.key, InWindow(d.logs[c.key], s, Expiry))
         /\ After(d, c, s, n).buckets \in {d.buckets, Effect(d, c, s).buckets}
<1>1. DOMAIN d = {"counters", "logs", "buckets"}
  BY DEF IsDatabase
<1>2. CASE n = 0
  BY <1>1, <1>2 DEF After
<1>3. CASE n # 0 /\ n = Statements(c)
  <2>1. After(d, c, s, n) = Effect(d, c, s)
    BY <1>3 DEF After
  <2>2. DOMAIN Effect(d, c, s) = {"counters", "logs", "buckets"}
    BY EffectOnCounters
  <2> QED  BY <2>1, <2>2
<1>4. CASE n # 0 /\ n # Statements(c) /\ c.op = "acquire"
  <2>1. After(d, c, s, n) = [d EXCEPT !.logs[c.key] = InWindow(@, s, Expiry)]
    BY <1>4 DEF After, Pruned
  <2> QED  BY <1>1, <1>4, <2>1 DEF Relogged
<1>5. CASE n # 0 /\ n # Statements(c) /\ c.op # "acquire"
  <2>1. c.op = "reset"
    BY <1>5, StatementsType
  <2>2. /\ Effect(d, c, s).counters = Without(d.counters, {c.key})
        /\ Effect(d, c, s).logs = [d.logs EXCEPT ![c.key] = {}]
    <3>1. Effect(d, c, s) = Wiped(d, c.key)
      BY <2>1 DEF Effect
    <3> QED  BY <3>1 DEF Wiped
  <2>3. After(d, c, s, n) =
          [counters |-> Without(d.counters, {c.key}),
           logs     |-> IF n = 1 THEN d.logs ELSE [d.logs EXCEPT ![c.key] = {}],
           buckets  |-> d.buckets]
    BY <1>5 DEF After
  <2> QED  BY <2>2, <2>3
<1> QED  BY <1>2, <1>3, <1>4, <1>5

\* It is a database after each of them.
LEMMA AfterType ==
  ASSUME NEW d, IsDatabase(d), NEW l \in Nat, Stamped(d, l), NEW c \in Calls,
         c.op # "prune", NEW s \in Nat, l <= s, NEW n \in 0..Statements(c)
  PROVE  IsDatabase(After(d, c, s, n))
<1> DEFINE v == After(d, c, s, n)
           e == Effect(d, c, s)
<1>1. IsDatabase(e)
  BY EffectType
<1>2. c.key \in Keys
  BY PrimitivesAssumption DEF AllCalls
<1>3. /\ DOMAIN v = {"counters", "logs", "buckets"}
      /\ v.counters \in {d.counters, e.counters}
      /\ v.buckets \in {d.buckets, e.buckets}
      /\ v.logs \in {d.logs, e.logs, Relogged(d, c.key, InWindow(d.logs[c.key], s, Expiry))}
  BY AfterParts
<1> HIDE DEF v, e
<1>4. v.logs \in [Keys -> SUBSET (Int \X Nat)]
  <2>1. d.logs \in [Keys -> SUBSET (Int \X Nat)] /\ e.logs \in [Keys -> SUBSET (Int \X Nat)]
    BY <1>1 DEF IsDatabase
  <2>2. InWindow(d.logs[c.key], s, Expiry) \in SUBSET (Int \X Nat)
    BY <1>2, <2>1 DEF InWindow
  <2> QED  BY <1>2, <1>3, <2>1, <2>2 DEF Relogged
<1>5. IsDict(v.counters, Keys, Entry) /\ IsDict(v.buckets, Keys, Bucket)
  BY <1>1, <1>3 DEF IsDatabase
<1> QED  BY <1>3, <1>4, <1>5 DEF IsDatabase, v

\* The next statement leads from each of them to the following one.
LEMMA AfterNext ==
  ASSUME NEW d, IsDatabase(d), NEW c \in Calls, c.op # "prune", NEW s \in Int,
         NEW n \in 0..Statements(c), n # Statements(c)
  PROVE  Executed(After(d, c, s, n), c, s, n + 1) = After(d, c, s, n + 1)
<1>1. /\ c.key \in Keys
      /\ c.op \in {"incr", "elastic", "acquire", "take", "reset"}
  BY PrimitivesAssumption DEF AllCalls
<1>2. /\ DOMAIN d = {"counters", "logs", "buckets"}
      /\ d.logs \in [Keys -> SUBSET (Int \X Nat)]
  BY DEF IsDatabase
<1>3. CASE c.op \in {"incr", "elastic", "take"}
  <2>1. Statements(c) = 1 /\ n = 0
    BY <1>3, StatementsType
  <2> QED  BY <1>3, <2>1 DEF Executed, After
<1>4. CASE c.op = "acquire" /\ n = 0
  <2>1. Statements(c) = 2
    BY <1>4, StatementsType
  <2>2. Executed(d, c, s, 1) = Pruned(d, c.key, s)
    BY <1>4 DEF Executed
  <2> QED  BY <1>4, <2>1, <2>2 DEF After
<1>5. CASE c.op = "acquire" /\ n # 0
  <2>1. Statements(c) = 2 /\ n = 1
    BY <1>5, StatementsType
  <2> DEFINE e == Pruned(d, c.key, s)
             log == d.logs[c.key]
  <2>2. After(d, c, s, 1) = e /\ After(d, c, s, 2) = Effect(d, c, s)
    BY <1>5, <2>1 DEF After
  <2>3. Executed(e, c, s, 2) = Effect(e, c, s)
    BY <1>5 DEF Executed
  <2>4. e = [d EXCEPT !.logs[c.key] = InWindow(log, s, Expiry)]
    BY DEF Pruned
  <2>5. /\ e.logs = [d.logs EXCEPT ![c.key] = InWindow(log, s, Expiry)]
        /\ DOMAIN e = {"counters", "logs", "buckets"}
        /\ e.counters = d.counters /\ e.buckets = d.buckets
    BY <1>2, <2>4
  <2>6. InWindow(InWindow(log, s, Expiry), s, Expiry) = InWindow(log, s, Expiry)
    BY DEF InWindow
  <2>7. e.logs[c.key] = InWindow(log, s, Expiry)
    BY <1>1, <1>2, <2>5
  <2> HIDE DEF e
  <2>8. LogAfter(e, c, s) = LogAfter(d, c, s)
    BY <2>6, <2>7 DEF LogAfter, Acquired, Admits
  <2>9. /\ Effect(e, c, s) = [e EXCEPT !.logs[c.key] = LogAfter(d, c, s)]
        /\ Effect(d, c, s) = [d EXCEPT !.logs[c.key] = LogAfter(d, c, s)]
    BY <1>5, <2>8 DEF Effect
  <2>10. [e.logs EXCEPT ![c.key] = LogAfter(d, c, s)] =
         [d.logs EXCEPT ![c.key] = LogAfter(d, c, s)]
    BY <1>1, <1>2, <2>5
  <2>11. Effect(e, c, s) = Effect(d, c, s)
    BY <1>2, <2>5, <2>9, <2>10
  <2> QED  BY <2>1, <2>2, <2>3, <2>11
<1>6. CASE c.op = "reset"
  <2>1. Statements(c) = 3 /\ n \in {0, 1, 2}
    BY <1>6, StatementsType
  <2>2. Effect(d, c, s) =
          [counters |-> Without(d.counters, {c.key}),
           logs     |-> [d.logs EXCEPT ![c.key] = {}],
           buckets  |-> Without(d.buckets, {c.key})]
    BY <1>6 DEF Effect, Wiped
  <2>3. CASE n = 0
    <3>1. Executed(d, c, s, 1) = [d EXCEPT !.counters = Without(@, {c.key})]
      BY <1>6 DEF Executed
    <3>2. After(d, c, s, 1) =
            [counters |-> Without(d.counters, {c.key}), logs |-> d.logs, buckets |-> d.buckets]
      BY <1>6, <2>1 DEF After
    <3> QED  BY <1>2, <2>3, <3>1, <3>2 DEF After
  <2>4. CASE n = 1
    <3> DEFINE e == After(d, c, s, 1)
    <3>1. e = [counters |-> Without(d.counters, {c.key}), logs |-> d.logs,
               buckets |-> d.buckets]
      BY <1>6, <2>1 DEF After
    <3>2. Executed(e, c, s, 2) = [e EXCEPT !.logs[c.key] = {}]
      BY <1>6 DEF Executed
    <3>3. After(d, c, s, 2) =
            [counters |-> Without(d.counters, {c.key}),
             logs |-> [d.logs EXCEPT ![c.key] = {}], buckets |-> d.buckets]
      BY <1>6, <2>1 DEF After
    <3> HIDE DEF e
    <3>4. Executed(e, c, s, 2) = After(d, c, s, 2)
      BY <3>1, <3>2, <3>3
    <3> QED  BY <2>4, <3>4 DEF e
  <2>5. CASE n = 2
    <3> DEFINE e == After(d, c, s, 2)
    <3>1. e = [counters |-> Without(d.counters, {c.key}),
               logs |-> [d.logs EXCEPT ![c.key] = {}], buckets |-> d.buckets]
      BY <1>6, <2>1 DEF After
    <3>2. Executed(e, c, s, 3) = [e EXCEPT !.buckets = Without(@, {c.key})]
      BY <1>6 DEF Executed
    <3>3. After(d, c, s, 3) = Effect(d, c, s)
      BY <2>1 DEF After
    <3> HIDE DEF e
    <3>4. Executed(e, c, s, 3) = After(d, c, s, 3)
      BY <2>2, <3>1, <3>2, <3>3
    <3> QED  BY <2>5, <3>4 DEF e
  <2> QED  BY <2>1, <2>3, <2>4, <2>5
<1> QED  BY <1>1, <1>3, <1>4, <1>5, <1>6

-----------------------------------------------------------------------------
(* What the invariant says of a state.                                     *)

\* A database is not the mark of a connection without a transaction.
LEMMA DatabaseIsAView ==
  ASSUME NEW d, IsDatabase(d)
  PROVE  d # NoView
<1>1. DOMAIN d = {"counters", "logs", "buckets"}
  BY DEF IsDatabase
<1>2. DOMAIN NoView = {"open"}
  BY DEF NoView
<1> QED  BY <1>1, <1>2

\* The parts of a call.
LEMMA CallTypes ==
  ASSUME NEW c \in Calls
  PROVE  /\ c.key \in Keys /\ c.amount \in Nat
         /\ c.op \in {"incr", "elastic", "acquire", "take", "reset", "prune"}
BY PrimitivesAssumption DEF AllCalls

\* The connection of a task that is writing is in a transaction, and no other
\* one is.
LEMMA WritersView ==
  ASSUME IInv, NEW t \in Tasks, pc[t] \in Writing
  PROVE  /\ IsDatabase(view[Home[t]])
         /\ view[Home[t]] # NoView
         /\ \A p \in Processes : view[p] # NoView => p = Home[t]
<1>1. Home[t] \in Processes
  BY SQLiteAssumption
<1>2. stamp[t] \in Nat /\ last \in Nat /\ IsDatabase(db)
  BY SQLiteAssumption DEF IInv, TypeOK
<1>3. /\ call[t] \in Calls /\ call[t].op # "prune"
      /\ view[Home[t]] = After(db, call[t], stamp[t], done[t])
      /\ pc[t] # "read" => done[t] = 0
      /\ pc[t] = "read" => last <= stamp[t] /\ done[t] <= Statements(call[t])
  BY DEF IInv, CallIsOnItsWay, Writing
<1>4. IsDatabase(view[Home[t]])
  <2>1. CASE pc[t] = "begun"
    BY <1>2, <1>3, <2>1 DEF After
  <2>2. CASE pc[t] = "read"
    <3>1. done[t] \in 0..Statements(call[t])
      BY <1>3, <2>2, StatementsType DEF IInv, TypeOK
    <3> QED  BY <1>2, <1>3, <2>2, <3>1, AfterType DEF IInv
  <2> QED  BY <2>1, <2>2 DEF Writing
<1>5. view[Home[t]] # NoView
  BY <1>4, DatabaseIsAView
<1> QED  BY <1>1, <1>4, <1>5 DEF IInv, OneTransaction

\* Two tasks are never writing, nor past the lock of one process.
LEMMA OneWriter ==
  ASSUME IInv, NEW t \in Tasks, NEW u \in Tasks,
         \/ pc[t] \in Writing /\ pc[u] \in Writing
         \/ pc[t] \in Holding /\ pc[u] \in Holding /\ Home[t] = Home[u]
  PROVE  t = u
<1>1. Home[t] \in Processes /\ Home[u] \in Processes
  BY SQLiteAssumption
<1>2. pc[t] \in Holding /\ pc[u] \in Holding /\ Home[t] = Home[u]
  BY <1>1, WritersView DEF Holding, Writing
<1> QED  BY <1>1, <1>2 DEF IInv, LockIsHeld

\* Nobody is writing while no connection is in a transaction.
LEMMA NoWriter ==
  ASSUME IInv, NEW p \in Processes, CanBegin(p), NEW t \in Tasks
  PROVE  pc[t] \notin Writing
BY WritersView, SQLiteAssumption DEF CanBegin

\* What a reader sees of a log now decides what it will see of it later.
LEMMA InWindowLater ==
  ASSUME NEW log \in SUBSET (Int \X Nat), NEW other \in SUBSET (Int \X Nat),
         NEW t \in Int, NEW u \in Int, t <= u,
         InWindow(log, t, Expiry) = InWindow(other, t, Expiry)
  PROVE  InWindow(log, u, Expiry) = InWindow(other, u, Expiry)
<1>1. \A x \in SUBSET (Int \X Nat) :
        InWindow(x, u, Expiry) = InWindow(InWindow(x, t, Expiry), u, Expiry)
  BY PrimitivesAssumption DEF InWindow, Ts
<1> QED  BY <1>1

\* What is between two databases now will be later.
LEMMA BetweenLater ==
  ASSUME NEW v, NEW d, NEW e, NEW t \in Int, NEW u \in Int, t <= u, Between(v, d, e, t),
         v.logs \in [Keys -> SUBSET (Int \X Nat)], d.logs \in [Keys -> SUBSET (Int \X Nat)],
         e.logs \in [Keys -> SUBSET (Int \X Nat)]
  PROVE  Between(v, d, e, u)
<1> SUFFICES ASSUME NEW k \in Keys
             PROVE  InWindow(v.logs[k], u, Expiry) \in
                      {InWindow(d.logs[k], u, Expiry), InWindow(e.logs[k], u, Expiry)}
  BY DEF Between
<1>1. /\ v.logs[k] \in SUBSET (Int \X Nat) /\ d.logs[k] \in SUBSET (Int \X Nat)
      /\ e.logs[k] \in SUBSET (Int \X Nat)
  OBVIOUS
<1>2. CASE InWindow(v.logs[k], t, Expiry) = InWindow(d.logs[k], t, Expiry)
  BY <1>1, <1>2, InWindowLater
<1>3. CASE InWindow(v.logs[k], t, Expiry) = InWindow(e.logs[k], t, Expiry)
  BY <1>1, <1>3, InWindowLater
<1> QED  BY <1>2, <1>3 DEF Between

\* What a reader cannot tell from something between two databases is between them.
LEMMA BetweenAlike ==
  ASSUME NEW w, NEW v, NEW d, NEW e, NEW t, ReadAlike(w, v, t), Between(v, d, e, t)
  PROVE  Between(w, d, e, t)
BY DEF ReadAlike, Between

\* A prune stamped no later than now is nothing a reader can see.
LEMMA AlikePruned ==
  ASSUME NEW d, IsDatabase(d), NEW c \in Calls, c.op = "prune", NEW s \in Int,
         NEW t \in Int, s <= t
  PROVE  ReadAlike(Effect(d, c, s), d, t)
<1>1. Effect(d, c, s).counters = d.counters
  BY EffectOnCounters
<1>2. Effect(d, c, s).logs = Relogged(d, c.key, InWindow(d.logs[c.key], s, Expiry))
  BY EffectOnLogs
<1> SUFFICES ASSUME NEW k \in Keys
             PROVE  InWindow(Effect(d, c, s).logs[k], t, Expiry) =
                        InWindow(d.logs[k], t, Expiry)
  BY <1>1 DEF ReadAlike
<1>3. d.logs \in [Keys -> SUBSET (Int \X Nat)] /\ c.key \in Keys
  BY CallTypes DEF IsDatabase
<1>4. \A log \in SUBSET (Int \X Nat) :
        InWindow(InWindow(log, s, Expiry), t, Expiry) = InWindow(log, t, Expiry)
  BY PrimitivesAssumption DEF InWindow, Ts
<1>5. d.logs[k] \in SUBSET (Int \X Nat)
  BY <1>3
<1>6. CASE k = c.key
  <2>1. Effect(d, c, s).logs[k] = InWindow(d.logs[k], s, Expiry)
    BY <1>2, <1>3, <1>6 DEF Relogged
  <2> QED  BY <1>4, <1>5, <2>1
<1>7. CASE k # c.key
  <2>1. Effect(d, c, s).logs[k] = d.logs[k]
    BY <1>2, <1>3, <1>7 DEF Relogged
  <2> QED  BY <2>1
<1> QED  BY <1>6, <1>7

\* A log without what has left the window by time s reads like the log from s on.
LEMMA AlikeDropped ==
  ASSUME NEW log \in SUBSET (Int \X Nat), NEW s \in Int, NEW t \in Int, s <= t
  PROVE  InWindow(InWindow(log, s, Expiry), t, Expiry) = InWindow(log, t, Expiry)
BY PrimitivesAssumption DEF InWindow, Ts

\* After some statements of a call, each part reads as before it or as after it.
LEMMA AfterIsBetween ==
  ASSUME NEW d, IsDatabase(d), NEW c \in Calls, c.op # "prune", NEW s \in Int,
         NEW n \in 0..Statements(c), NEW t \in Int, s <= t
  PROVE  Between(After(d, c, s, n), d, Effect(d, c, s), t)
<1> DEFINE v == After(d, c, s, n)
           e == Effect(d, c, s)
           pruned == Relogged(d, c.key, InWindow(d.logs[c.key], s, Expiry))
<1>1. v.counters \in {d.counters, e.counters} /\ v.logs \in {d.logs, e.logs, pruned}
  BY AfterParts
<1>2. ASSUME NEW k \in Keys
      PROVE  InWindow(pruned[k], t, Expiry) = InWindow(d.logs[k], t, Expiry)
  <2>1. d.logs \in [Keys -> SUBSET (Int \X Nat)] /\ c.key \in Keys
    BY CallTypes DEF IsDatabase
  <2>2. d.logs[k] \in SUBSET (Int \X Nat)
    BY <2>1
  <2>3. CASE k = c.key
    <3>1. pruned[k] = InWindow(d.logs[k], s, Expiry)
      BY <2>1, <2>3 DEF Relogged
    <3> QED  BY <2>2, <3>1, AlikeDropped
  <2>4. CASE k # c.key
    <3>1. pruned[k] = d.logs[k]
      BY <2>1, <2>4 DEF Relogged
    <3> QED  BY <3>1
  <2> QED  BY <2>3, <2>4
<1> HIDE DEF v, e, pruned
<1>3. ASSUME NEW k \in Keys
      PROVE  InWindow(v.logs[k], t, Expiry) \in
               {InWindow(d.logs[k], t, Expiry), InWindow(e.logs[k], t, Expiry)}
  BY <1>1, <1>2
<1>4. Between(v, d, e, t)
  BY <1>1, <1>3 DEF Between
<1> QED  BY <1>4 DEF v, e

-----------------------------------------------------------------------------
(* The steps.                                                              *)

\* The parts of the invariant hold at the start.
LEMMA InitIInv == Init => IInv
<1> SUFFICES ASSUME Init  PROVE IInv
  OBVIOUS
<1> USE SQLiteAssumption DEF Init
<1>1. IsDatabase(EmptyDatabase) /\ Stamped(EmptyDatabase, 0)
  <2>1. IsDict(EmptyDict, Keys, Entry) /\ IsDict(EmptyDict, Keys, Bucket)
    BY EmptyType
  <2>2. IsFiniteSet({})
    BY FS_EmptySet
  <2> QED  BY <2>1, <2>2 DEF EmptyDatabase, IsDatabase, Stamped, EmptyDict
<1>2. TypeOK
  BY <1>1 DEF TypeOK, Answer, NoAnswer, PCs
<1>3. LockIsHeld
  BY DEF LockIsHeld, Holding
<1>4. OneTransaction /\ ViewsAreOneAhead
  BY DEF OneTransaction, ViewsAreOneAhead
<1>5. CallIsOnItsWay
  BY DEF CallIsOnItsWay, Writing
<1> QED  BY <1>1, <1>2, <1>3, <1>4, <1>5 DEF IInv

\* A call that leaves gives the lock back.
LEMMA LeavesLock ==
  ASSUME IInv, NEW t \in Tasks, Leaves(t)
  PROVE  LockIsHeld'
<1>1. /\ pc \in [Tasks -> PCs] /\ Home \in [Tasks -> Processes]
      /\ lock \in [Processes -> Tasks \cup {NoTask}] /\ NoTask \notin Tasks
  BY SQLiteAssumption DEF IInv, TypeOK
<1>2. LockIsHeld
  BY DEF IInv
<1> QED  BY <1>1, <1>2 DEF LockIsHeld, Leaves, Holding

\* What else a call that leaves does not disturb.
LEMMA LeavesCalls ==
  ASSUME IInv, NEW t \in Tasks, Leaves(t),
         \/ UNCHANGED <<db, view, last>>
         \/ \A u \in Tasks \ {t} : pc[u] \notin Writing
  PROVE  CallIsOnItsWay'
<1>1. /\ pc \in [Tasks -> PCs] /\ call \in [Tasks -> Calls \cup {NoCall}]
      /\ stamp \in [Tasks -> 0..MaxClock] /\ clock \in 0..MaxClock
      /\ done \in [Tasks -> 0..3] /\ Home \in [Tasks -> Processes] /\ MaxClock \in Nat
  BY SQLiteAssumption DEF IInv, TypeOK
<1>2. CallIsOnItsWay
  BY DEF IInv
<1> SUFFICES ASSUME NEW u \in Tasks
             PROVE  /\ stamp'[u] <= clock'
                    /\ pc'[u] # "idle" => call'[u] \in Calls
                    /\ pc'[u] # "read" => done'[u] = 0
                    /\ pc'[u] \in Writing =>
                         /\ call'[u].op # "prune"
                         /\ view'[Home[u]] = After(db', call'[u], stamp'[u], done'[u])
                    /\ pc'[u] = "read" =>
                         /\ last' <= stamp'[u] /\ (call'[u].op = "reset" => stamp'[u] = last')
                         /\ done'[u] <= Statements(call'[u])
  BY DEF CallIsOnItsWay
<1>3. CASE u = t
  BY <1>1, <1>3 DEF Leaves, Writing
<1>4. CASE u # t
  <2>1. /\ pc'[u] = pc[u] /\ call'[u] = call[u] /\ stamp'[u] = stamp[u]
        /\ clock' = clock /\ done'[u] = done[u]
    BY <1>1, <1>4 DEF Leaves
  <2>2. CASE UNCHANGED <<db, view, last>>
    BY <1>2, <2>1, <2>2 DEF CallIsOnItsWay
  <2>3. CASE pc[u] \notin Writing
    BY <1>2, <2>1, <2>3 DEF CallIsOnItsWay, Writing
  <2> QED  BY <1>4, <2>2, <2>3
<1> QED  BY <1>3, <1>4

\* The types of what a call that leaves writes.
LEMMA LeavesType ==
  ASSUME IInv, NEW t \in Tasks, Leaves(t), IsDatabase(db'), answer' \in Answer,
         last' \in 0..MaxClock, DOMAIN view' = Processes,
         \A p \in Processes : view'[p] = NoView \/ IsDatabase(view'[p])
  PROVE  TypeOK'
BY SQLiteAssumption DEF IInv, TypeOK, Leaves, PCs

\* A call leaves and neither the database nor a transaction changes.
LEMMA LeavesQuietly ==
  ASSUME IInv, NEW t \in Tasks, Leaves(t), UNCHANGED <<db, last, view, answer>>
  PROVE  IInv'
<1>1. TypeOK'
  BY LeavesType DEF IInv, TypeOK
<1>2. LockIsHeld' /\ CallIsOnItsWay'
  BY LeavesLock, LeavesCalls
<1>3. clock' = clock
  BY DEF Leaves
<1>4. OneTransaction' /\ ViewsAreOneAhead' /\ Stamped(db, last)' /\ (last <= clock)'
  BY <1>3 DEF IInv, OneTransaction, ViewsAreOneAhead, OneAhead, Stamped, Between
<1> QED  BY <1>1, <1>2, <1>4 DEF IInv

\* A call leaves and its transaction is rolled back.
LEMMA LeavesRolledBack ==
  ASSUME IInv, NEW t \in Tasks, Fail(t)
  PROVE  IInv'
<1>1. /\ Leaves(t) /\ UNCHANGED <<db, answer, last>> /\ clock' = clock
      /\ pc[t] \in Writing /\ view' = [view EXCEPT ![Home[t]] = NoView]
  BY DEF Fail, Leaves, Writing
<1>2. Home[t] \in Processes /\ DOMAIN view = Processes
  BY SQLiteAssumption DEF IInv, TypeOK
<1>3. \A u \in Tasks \ {t} : pc[u] \notin Writing
  BY <1>1, OneWriter
<1>4. \A p \in Processes : view'[p] = NoView
  BY <1>1, <1>2, WritersView
<1>5. TypeOK'
  BY <1>1, <1>2, <1>4, LeavesType DEF IInv, TypeOK
<1>6. LockIsHeld' /\ CallIsOnItsWay'
  BY <1>1, <1>3, LeavesLock, LeavesCalls
<1>7. OneTransaction' /\ ViewsAreOneAhead'
  BY <1>4 DEF OneTransaction, ViewsAreOneAhead
<1>8. Stamped(db, last)' /\ (last <= clock)'
  BY <1>1 DEF IInv, Stamped
<1> QED  BY <1>5, <1>6, <1>7, <1>8 DEF IInv

\* A call that has written holds what it does in its transaction.
LEMMA WrittenView ==
  ASSUME IInv, NEW t \in Tasks, HasWritten(t)
  PROVE  /\ call[t] \in Calls /\ call[t].op # "prune" /\ pc[t] \in Writing
         /\ stamp[t] \in 0..MaxClock /\ stamp[t] \in Nat /\ stamp[t] <= clock
         /\ last \in Nat /\ last <= stamp[t]
         /\ call[t].op = "reset" => stamp[t] = last
         /\ view[Home[t]] = Effect(db, call[t], stamp[t])
         /\ IsDatabase(db) /\ Stamped(db, last)
<1>1. /\ call[t] \in Calls /\ call[t].op # "prune" /\ pc[t] \in Writing
      /\ view[Home[t]] = After(db, call[t], stamp[t], done[t])
      /\ done[t] = Statements(call[t]) /\ stamp[t] <= clock
      /\ last <= stamp[t] /\ (call[t].op = "reset" => stamp[t] = last)
  BY DEF HasWritten, IInv, CallIsOnItsWay, Writing
<1>2. stamp[t] \in 0..MaxClock /\ last \in Nat /\ IsDatabase(db) /\ Stamped(db, last)
  BY SQLiteAssumption DEF IInv, TypeOK
<1>3. After(db, call[t], stamp[t], done[t]) = Effect(db, call[t], stamp[t])
  BY <1>1, StatementsType DEF After
<1> QED  BY <1>1, <1>2, <1>3

\* A call leaves and its transaction is committed.
LEMMA LeavesCommitted ==
  ASSUME IInv, NEW t \in Tasks, HasWritten(t), Leaves(t), Committed(t),
         answer' \in Answer
  PROVE  IInv'
<1>1. /\ call[t] \in Calls /\ stamp[t] \in 0..MaxClock /\ stamp[t] <= clock
      /\ last <= stamp[t] /\ last \in Nat /\ stamp[t] \in Nat /\ clock' = clock
      /\ view[Home[t]] = Effect(db, call[t], stamp[t]) /\ pc[t] \in Writing
      /\ IsDatabase(db) /\ Stamped(db, last)
  BY SQLiteAssumption, WrittenView DEF Leaves
<1>2. Home[t] \in Processes /\ DOMAIN view = Processes
  BY SQLiteAssumption DEF IInv, TypeOK
<1>3. \A u \in Tasks \ {t} : pc[u] \notin Writing
  BY <1>1, OneWriter
<1>4. \A p \in Processes : view'[p] = NoView
  BY <1>1, <1>2, WritersView DEF Committed
<1>5. db' = Effect(db, call[t], stamp[t]) /\ last' = stamp[t]
  BY <1>1 DEF Committed
<1>6. IsDatabase(db') /\ Stamped(db, last)'
  <2>1. /\ IsDatabase(Effect(db, call[t], stamp[t]))
        /\ Stamped(Effect(db, call[t], stamp[t]), stamp[t])
    BY <1>1, EffectType
  <2> QED  BY <1>5, <2>1 DEF Stamped
<1>7. TypeOK'
  <2>1. DOMAIN view' = Processes
    BY <1>2 DEF Committed
  <2> QED  BY <1>1, <1>4, <1>5, <1>6, <2>1, LeavesType
<1>8. LockIsHeld' /\ CallIsOnItsWay'
  BY <1>3, LeavesLock, LeavesCalls
<1>9. OneTransaction' /\ ViewsAreOneAhead'
  BY <1>4 DEF OneTransaction, ViewsAreOneAhead
<1>10. (last <= clock)'
  BY <1>1, <1>5
<1> QED  BY <1>6, <1>7, <1>8, <1>9, <1>10 DEF IInv

\* The next statement of a call leaves a database between what is committed and
\* what the call will make of it.
LEMMA WriteIsBetween ==
  ASSUME IInv, NEW t \in Tasks, Writes(t)
  PROVE  /\ AfterWrite(t) = After(db, call[t], stamp[t], done[t] + 1)
         /\ IsDatabase(AfterWrite(t))
         /\ \E e \in OneAhead : Between(AfterWrite(t), db, e, clock)
         /\ done[t] \in Nat /\ done[t] + 1 \in 0..3 /\ done[t] + 1 <= Statements(call[t])
<1>1. /\ call[t] \in Calls /\ call[t].op # "prune" /\ stamp[t] <= clock
      /\ view[Home[t]] = After(db, call[t], stamp[t], done[t])
      /\ last <= stamp[t] /\ done[t] < Statements(call[t])
  BY DEF Writes, IInv, CallIsOnItsWay, Writing
<1>2. /\ stamp[t] \in Nat /\ last \in Nat /\ clock \in Nat /\ done[t] \in Nat
      /\ IsDatabase(db) /\ Stamped(db, last)
  BY SQLiteAssumption DEF IInv, TypeOK
<1>3. /\ Statements(call[t]) \in {1, 2, 3}
      /\ done[t] \in 0..Statements(call[t]) /\ done[t] # Statements(call[t])
      /\ done[t] + 1 \in 0..Statements(call[t])
  BY <1>1, <1>2, StatementsType
<1>4. AfterWrite(t) = After(db, call[t], stamp[t], done[t] + 1)
  BY <1>1, <1>2, <1>3, AfterNext DEF AfterWrite
<1>5. IsDatabase(AfterWrite(t))
  BY <1>1, <1>2, <1>3, <1>4, AfterType
<1>6. Between(AfterWrite(t), db, Effect(db, call[t], stamp[t]), clock)
  BY <1>1, <1>2, <1>3, <1>4, AfterIsBetween
<1>7. Effect(db, call[t], stamp[t]) \in OneAhead
  BY <1>1, <1>2 DEF OneAhead
<1> QED  BY <1>2, <1>3, <1>4, <1>5, <1>6, <1>7

\* A call leaves a transaction behind that it has just begun, or written to.
LEMMA LeavesOpen ==
  ASSUME IInv, NEW t \in Tasks, Leaves(t), UNCHANGED <<db, last, answer>>,
         \/ CanBegin(Home[t]) /\ view' = [view EXCEPT ![Home[t]] = db]
         \/ Writes(t) /\ view' = [view EXCEPT ![Home[t]] = AfterWrite(t)]
  PROVE  IInv'
<1>1. Home[t] \in Processes /\ DOMAIN view = Processes
  BY SQLiteAssumption DEF IInv, TypeOK
<1>2. \A u \in Tasks \ {t} : pc[u] \notin Writing
  BY <1>1, OneWriter, NoWriter DEF Writes, Writing
<1>3. \A p \in Processes \ {Home[t]} : view'[p] = NoView
  <2>1. \A p \in Processes \ {Home[t]} : view[p] = NoView
    BY WritersView DEF CanBegin, Writes, Writing
  <2> QED  BY <1>1, <2>1
<1>4. /\ IsDatabase(view'[Home[t]])
      /\ \E e \in OneAhead : Between(view'[Home[t]], db, e, clock)
  <2>1. CASE view' = [view EXCEPT ![Home[t]] = db]
    BY <1>1, <2>1 DEF OneAhead, Between, IInv, TypeOK
  <2>2. CASE Writes(t) /\ view' = [view EXCEPT ![Home[t]] = AfterWrite(t)]
    BY <1>1, <2>2, WriteIsBetween
  <2> QED  BY <2>1, <2>2
<1>5. clock' = clock /\ db' = db /\ last' = last
  BY DEF Leaves
<1>6. TypeOK'
  <2>1. DOMAIN view' = Processes
    BY <1>1
  <2> QED  BY <1>3, <1>4, <1>5, <2>1, LeavesType DEF IInv, TypeOK
<1>7. LockIsHeld' /\ CallIsOnItsWay'
  BY <1>2, LeavesLock, LeavesCalls
<1>8. OneTransaction'
  BY <1>3 DEF OneTransaction
<1>9. ViewsAreOneAhead'
  <2>1. OneAhead' = OneAhead
    BY <1>5 DEF OneAhead
  <2> QED  BY <1>3, <1>4, <1>5, <2>1 DEF ViewsAreOneAhead
<1>10. Stamped(db, last)' /\ (last <= clock)'
  BY <1>5 DEF IInv, Stamped
<1> QED  BY <1>6, <1>7, <1>8, <1>9, <1>10 DEF IInv

\* A call that prunes leaves: the database was pruned, or the transaction that
\* was left open on its connection.
LEMMA LeavesPruned ==
  ASSUME IInv, NEW t \in Tasks, pc[t] = "locked", call[t].op = "prune",
         PrunedBy(t), Leaves(t), UNCHANGED <<answer, last>>
  PROVE  IInv'
<1>1. Home[t] \in Processes /\ DOMAIN view = Processes
  BY SQLiteAssumption DEF IInv, TypeOK
<1>2. /\ call[t] \in Calls /\ stamp[t] \in 0..MaxClock /\ stamp[t] <= clock
      /\ clock \in Nat /\ stamp[t] \in Nat /\ last \in Nat
      /\ clock' = clock /\ last' = last
      /\ IsDatabase(db) /\ Stamped(db, last) /\ last <= clock
  BY SQLiteAssumption DEF IInv, TypeOK, CallIsOnItsWay, Leaves
<1>3. \A u \in Tasks \ {t} : pc[u] \notin Writing
  <2>1. CASE view[Home[t]] = NoView
    BY <1>1, <2>1, NoWriter DEF PrunedBy
  <2>2. CASE view[Home[t]] # NoView
    <3> SUFFICES ASSUME NEW u \in Tasks, pc[u] \in Writing  PROVE u = t
      OBVIOUS
    <3>1. Home[u] = Home[t]
      BY <1>1, <2>2, WritersView
    <3> QED  BY <3>1, OneWriter DEF Holding, Writing
  <2> QED  BY <2>1, <2>2
<1>4. IsDatabase(db') /\ Stamped(db, last)'
  <2>1. db' \in {db, Effect(db, call[t], stamp[t])}
    BY DEF PrunedBy
  <2>2. \A d \in {db, Effect(db, call[t], stamp[t])} : IsDatabase(d) /\ Stamped(d, last)
    BY <1>2, PrunedType
  <2> QED  BY <1>2, <2>1, <2>2 DEF Stamped
<1>5. /\ \A p \in Processes : view'[p] = NoView \/ IsDatabase(view'[p])
      /\ OneTransaction' /\ ViewsAreOneAhead' /\ DOMAIN view' = Processes
  <2>1. CASE view[Home[t]] = NoView
    BY <1>1, <2>1 DEF PrunedBy, CanBegin, OneTransaction, ViewsAreOneAhead
  <2>2. CASE view[Home[t]] # NoView
    <3> DEFINE v == view[Home[t]]
               w == Effect(v, call[t], stamp[t])
    <3>1. view' = [view EXCEPT ![Home[t]] = w] /\ db' = db
      BY <2>2 DEF PrunedBy
    <3>2. IsDatabase(v) /\ IsDatabase(w)
      BY <1>1, <1>2, <2>2, PrunedType DEF IInv, TypeOK
    <3>3. view'[Home[t]] = w /\ \A p \in Processes \ {Home[t]} : view'[p] = NoView
      BY <1>1, <2>2, <3>1 DEF IInv, OneTransaction
    <3>4. PICK e \in OneAhead : Between(v, db, e, clock)
      BY <1>1, <2>2 DEF IInv, ViewsAreOneAhead
    <3>5. ReadAlike(w, v, clock)
      BY <1>2, <3>2, AlikePruned
    <3>6. Between(w, db, e, clock)
      BY <3>4, <3>5, BetweenAlike
    <3>7. OneAhead' = OneAhead
      BY <1>2, <3>1 DEF OneAhead
    <3>8. ViewsAreOneAhead'
      BY <1>2, <3>1, <3>3, <3>6, <3>7 DEF ViewsAreOneAhead
    <3> QED  BY <1>1, <3>1, <3>2, <3>3, <3>8 DEF OneTransaction
  <2> QED  BY <2>1, <2>2
<1>6. TypeOK'
  BY <1>4, <1>5, LeavesType DEF IInv, TypeOK
<1>7. LockIsHeld' /\ CallIsOnItsWay'
  BY <1>3, LeavesLock, LeavesCalls
<1> QED  BY <1>2, <1>4, <1>5, <1>6, <1>7 DEF IInv

\* A step of a call that goes on changes neither the database nor what the
\* views are compared with.
LEMMA GoesOn ==
  ASSUME IInv, UNCHANGED <<clock, db, last>>, TypeOK', LockIsHeld', OneTransaction',
         CallIsOnItsWay',
         \A p \in Processes :
           \/ view'[p] \in {view[p], NoView}
           \/ \E e \in OneAhead : Between(view'[p], db, e, clock)
  PROVE  IInv'
<1>1. OneAhead' = OneAhead
  BY DEF OneAhead
<1>2. ViewsAreOneAhead'
  BY <1>1 DEF IInv, ViewsAreOneAhead
<1> QED  BY <1>2 DEF IInv, Stamped

\* A call starts, and waits for the lock.
LEMMA StartPreserves ==
  ASSUME IInv, NEW t \in Tasks, NEW c \in Requests[t], Start(t, c)
  PROVE  IInv'
<1> USE SQLiteAssumption DEF Start
<1>1. c \in Calls
  OBVIOUS
<1>2. TypeOK'
  BY <1>1 DEF IInv, TypeOK, PCs
<1>3. LockIsHeld' /\ OneTransaction'
  BY DEF IInv, TypeOK, LockIsHeld, OneTransaction, Holding
<1>4. CallIsOnItsWay'
  BY <1>1 DEF IInv, TypeOK, CallIsOnItsWay, Writing
<1> QED  BY <1>2, <1>3, <1>4, GoesOn

\* A call takes the lock.
LEMMA LockPreserves ==
  ASSUME IInv, NEW t \in Tasks, Lock(t)
  PROVE  IInv'
<1> USE SQLiteAssumption
<1> DEFINE at == IF call[t].op = "prune" THEN clock ELSE 0
<1>1. /\ pc[t] = "waiting" /\ lock[Home[t]] = NoTask
      /\ lock' = [lock EXCEPT ![Home[t]] = t]
      /\ pc' = [pc EXCEPT ![t] = "locked"] /\ stamp' = [stamp EXCEPT ![t] = at]
      /\ UNCHANGED <<clock, db, answer, last, connected, view, call, done, calls, crashes>>
  BY DEF Lock
<1>2. at \in 0..MaxClock /\ at <= clock
  BY DEF IInv, TypeOK
<1> HIDE DEF at
<1>3. TypeOK'
  BY <1>1, <1>2 DEF IInv, TypeOK, PCs
<1>4. LockIsHeld' /\ OneTransaction'
  BY <1>1 DEF IInv, TypeOK, LockIsHeld, OneTransaction, Holding
<1>5. CallIsOnItsWay'
  BY <1>1, <1>2 DEF IInv, TypeOK, CallIsOnItsWay, Writing
<1> QED  BY <1>1, <1>3, <1>4, <1>5, GoesOn

\* A call begins its transaction.
LEMMA BeginPreserves ==
  ASSUME IInv, NEW t \in Tasks, Begin(t)
  PROVE  IInv'
<1> USE SQLiteAssumption
<1>1. /\ Home[t] \in Processes /\ DOMAIN view = Processes /\ IsDatabase(db)
      /\ pc[t] = "locked" /\ call[t].op # "prune" /\ CanBegin(Home[t])
      /\ pc' = [pc EXCEPT ![t] = "begun"] /\ view' = [view EXCEPT ![Home[t]] = db]
      /\ UNCHANGED <<clock, db, answer, last, connected, lock, call, stamp, done, calls,
                     crashes>>
  BY DEF Begin, IInv, TypeOK, CanBegin, Seen
<1>2. /\ view'[Home[t]] = db
      /\ \A p \in Processes \ {Home[t]} : view'[p] = NoView
  BY <1>1 DEF CanBegin
<1>3. TypeOK'
  BY <1>1, <1>2 DEF IInv, TypeOK, PCs
<1>4. LockIsHeld'
  BY <1>1 DEF IInv, TypeOK, LockIsHeld, Holding
<1>5. OneTransaction'
  BY <1>2 DEF OneTransaction
<1>6. \A u \in Tasks : pc[u] \notin Writing
  BY <1>1, NoWriter
<1>7. CallIsOnItsWay'
  BY <1>1, <1>2, <1>6 DEF IInv, TypeOK, CallIsOnItsWay, Writing, After
<1>8. \A p \in Processes \ {Home[t]} : view'[p] \in {view[p], NoView}
  BY <1>2
<1>9. Between(view'[Home[t]], db, db, clock) /\ db \in OneAhead
  BY <1>2 DEF Between, OneAhead
<1> QED  BY <1>1, <1>3, <1>4, <1>5, <1>7, <1>8, <1>9, GoesOn

\* A call reads the clock and the database.
LEMMA ReadPreserves ==
  ASSUME IInv, NEW t \in Tasks, Read(t)
  PROVE  IInv'
<1> USE SQLiteAssumption
<1> DEFINE at == IF call[t].op = "reset" THEN last ELSE clock
<1>1. /\ pc[t] = "begun" /\ pc' = [pc EXCEPT ![t] = "read"] /\ stamp' = [stamp EXCEPT ![t] = at]
      /\ UNCHANGED <<clock, db, answer, last, connected, lock, view, call, done, calls, crashes>>
  BY DEF Read
<1>2. at \in 0..MaxClock /\ last <= at /\ at <= clock /\ (call[t].op = "reset" => at = last)
  BY DEF IInv, TypeOK
<1> HIDE DEF at
<1>3. TypeOK'
  BY <1>1, <1>2 DEF IInv, TypeOK, PCs
<1>4. LockIsHeld' /\ OneTransaction'
  BY <1>1 DEF IInv, TypeOK, LockIsHeld, OneTransaction, Holding
<1>5. CallIsOnItsWay'
  <2>1. call[t] \in Calls /\ done[t] = 0
    BY <1>1 DEF IInv, CallIsOnItsWay
  <2>2. done[t] <= Statements(call[t])
    BY <2>1, StatementsType
  <2> QED  BY <1>1, <1>2, <2>1, <2>2 DEF IInv, TypeOK, CallIsOnItsWay, Writing, After
<1> QED  BY <1>1, <1>3, <1>4, <1>5, GoesOn

\* A call writes to its transaction.
LEMMA WritePreserves ==
  ASSUME IInv, NEW t \in Tasks, Write(t)
  PROVE  IInv'
<1> USE SQLiteAssumption
<1>1. /\ Home[t] \in Processes /\ DOMAIN view = Processes /\ pc[t] = "read" /\ Writes(t)
      /\ view' = [view EXCEPT ![Home[t]] = AfterWrite(t)]
      /\ done' = [done EXCEPT ![t] = @ + 1]
      /\ UNCHANGED <<clock, db, answer, last, connected, lock, pc, call, stamp, calls, crashes>>
  BY DEF Write, Writes, IInv, TypeOK
<1>2. /\ AfterWrite(t) = After(db, call[t], stamp[t], done[t] + 1)
      /\ IsDatabase(AfterWrite(t))
      /\ \E e \in OneAhead : Between(AfterWrite(t), db, e, clock)
      /\ done[t] + 1 \in 0..3 /\ done[t] + 1 <= Statements(call[t])
  BY <1>1, WriteIsBetween
<1>3. /\ view'[Home[t]] = AfterWrite(t)
      /\ \A p \in Processes \ {Home[t]} : view'[p] = NoView
  BY <1>1, WritersView DEF Writing
<1>4. TypeOK'
  BY <1>1, <1>2, <1>3 DEF IInv, TypeOK
<1>5. LockIsHeld' /\ OneTransaction'
  BY <1>1, <1>3 DEF IInv, LockIsHeld, OneTransaction
<1>6. \A u \in Tasks \ {t} : pc[u] \notin Writing
  BY <1>1, OneWriter DEF Writing
<1>7. CallIsOnItsWay'
  <2> SUFFICES ASSUME NEW u \in Tasks
               PROVE  /\ pc[u] # "read" => done'[u] = 0
                      /\ pc[u] \in Writing =>
                           /\ call[u].op # "prune"
                           /\ view'[Home[u]] = After(db, call[u], stamp[u], done'[u])
                      /\ pc[u] = "read" => done'[u] <= Statements(call[u])
    BY <1>1 DEF IInv, CallIsOnItsWay
  <2>1. done \in [Tasks -> 0..3]
    BY DEF IInv, TypeOK
  <2>2. CASE u = t
    <3>1. done'[u] = done[t] + 1 /\ call[u].op # "prune"
      BY <1>1, <2>1, <2>2 DEF IInv, CallIsOnItsWay, Writing
    <3> QED  BY <1>1, <1>2, <1>3, <2>2, <3>1
  <2>3. CASE u # t
    BY <1>1, <1>6, <2>1, <2>3 DEF IInv, CallIsOnItsWay, Writing
  <2> QED  BY <2>2, <2>3
<1> QED  BY <1>1, <1>2, <1>3, <1>4, <1>5, <1>7, GoesOn

\* A call is cancelled at the await it is at.
LEMMA CancelPreserves ==
  ASSUME IInv, NEW t \in Tasks, Cancel(t)
  PROVE  IInv'
<1>1. Leaves(t) /\ UNCHANGED answer /\ answer \in Answer
  BY DEF Cancel, IInv, TypeOK
<1>2. CASE UNCHANGED <<db, last, view>>
  BY <1>1, <1>2, LeavesQuietly
<1>3. CASE /\ pc[t] = "locked" /\ call[t].op # "prune" /\ CanBegin(Home[t])
           /\ view' = [view EXCEPT ![Home[t]] = db]
           /\ UNCHANGED <<db, last>>
  BY <1>1, <1>3, LeavesOpen
<1>4. CASE pc[t] = "locked" /\ call[t].op = "prune" /\ PrunedBy(t) /\ UNCHANGED last
  BY <1>1, <1>4, LeavesPruned
<1>5. CASE /\ Writes(t)
           /\ view' = [view EXCEPT ![Home[t]] = AfterWrite(t)]
           /\ UNCHANGED <<db, last>>
  BY <1>1, <1>5, LeavesOpen
<1>6. CASE HasWritten(t) /\ Committed(t)
  BY <1>1, <1>6, LeavesCommitted
<1> QED  BY <1>2, <1>3, <1>4, <1>5, <1>6 DEF Cancel

\* Where a call commits, its answer has a type.
LEMMA CommitPreserves ==
  ASSUME IInv, NEW t \in Tasks, Commit(t)
  PROVE  IInv'
<1>1. /\ HasWritten(t) /\ Committed(t) /\ Leaves(t)
      /\ answer' = AnswerOf(db, call[t], stamp[t])
  BY DEF Commit
<1>2. /\ call[t] \in Calls /\ call[t].op # "prune" /\ stamp[t] \in Nat
      /\ last \in Nat /\ last <= stamp[t] /\ IsDatabase(db) /\ Stamped(db, last)
  BY <1>1, WrittenView
<1>3. \A k \in DOMAIN db.buckets : db.buckets[k].ts <= stamp[t]
  <2> TAKE k \in DOMAIN db.buckets
  <2>1. db.buckets[k] \in Bucket
    BY <1>2, ElementType DEF IsDatabase
  <2> QED  BY <1>2, <2>1 DEF Stamped, Bucket
<1>4. answer' \in Answer
  BY <1>1, <1>2, <1>3, AnswerType
<1> QED  BY <1>1, <1>4, LeavesCommitted

\* A connection is set up.
LEMMA SetupPreserves ==
  ASSUME IInv, NEW p \in Processes, Setup(p)
  PROVE  IInv'
<1>1. /\ connected' = [connected EXCEPT ![p] = TRUE]
      /\ UNCHANGED <<clock, db, answer, last, lock, view, pc, call, stamp, done, calls, crashes>>
  BY DEF Setup
<1>2. TypeOK'
  BY <1>1 DEF IInv, TypeOK
<1>3. LockIsHeld' /\ OneTransaction' /\ CallIsOnItsWay'
  BY <1>1 DEF IInv, LockIsHeld, OneTransaction, CallIsOnItsWay
<1> QED  BY <1>1, <1>2, <1>3, GoesOn

\* A connection is closed, or its process killed: the calls that used it end.
LEMMA DisconnectPreserves ==
  ASSUME IInv, NEW p \in Processes, Disconnects(p), crashes' \in 0..MaxCrashes,
         NEW Ended \in SUBSET Tasks, Ends(Ended),
         \A t \in Ended : Home[t] = p, \A t \in Tasks : lock[p] = t => t \in Ended
  PROVE  IInv'
<1> USE SQLiteAssumption
<1>1. /\ connected' = [connected EXCEPT ![p] = FALSE]
      /\ view' = [view EXCEPT ![p] = NoView] /\ lock' = [lock EXCEPT ![p] = NoTask]
      /\ UNCHANGED <<clock, db, answer, last, calls>>
  BY DEF Disconnects
<1>2. /\ DOMAIN view = Processes /\ clock \in Nat
      /\ lock \in [Processes -> Tasks \cup {NoTask}]
  BY DEF IInv, TypeOK
<1>3. \A q \in Processes : view'[q] = IF q = p THEN NoView ELSE view[q]
  BY <1>1, <1>2
<1>4. \A t \in Ended : pc'[t] = "idle" /\ call'[t] = NoCall /\ stamp'[t] = 0 /\ done'[t] = 0
  BY DEF Ends
<1>5. \A t \in Tasks \ Ended : /\ pc'[t] = pc[t] /\ call'[t] = call[t]
                               /\ stamp'[t] = stamp[t] /\ done'[t] = done[t]
  BY DEF Ends
<1>6. TypeOK'
  <2>1. DOMAIN view' = Processes /\ \A q \in Processes : view'[q] = NoView \/ IsDatabase(view'[q])
    BY <1>1, <1>2, <1>3 DEF IInv, TypeOK
  <2>2. /\ pc' \in [Tasks -> PCs] /\ call' \in [Tasks -> Calls \cup {NoCall}]
        /\ stamp' \in [Tasks -> 0..MaxClock] /\ done' \in [Tasks -> 0..3]
    BY DEF Ends, IInv, TypeOK, PCs
  <2> QED  BY <1>1, <2>1, <2>2 DEF IInv, TypeOK
<1>7. \A t \in Tasks : Home[t] = p /\ t \notin Ended => pc[t] \notin Holding
  BY DEF IInv, LockIsHeld
<1>8. LockIsHeld'
  <2>1. \A t \in Tasks : pc'[t] \in Holding <=> lock'[Home[t]] = t
    <3> SUFFICES ASSUME NEW t \in Tasks  PROVE pc'[t] \in Holding <=> lock'[Home[t]] = t
      OBVIOUS
    <3>1. CASE Home[t] = p
      <4>1. lock'[Home[t]] # t
        BY <1>1, <1>2, <3>1
      <4>2. pc'[t] \notin Holding
        BY <1>4, <1>5, <1>7, <3>1 DEF Holding
      <4> QED  BY <4>1, <4>2
    <3>2. CASE Home[t] # p
      BY <1>1, <1>2, <1>5, <3>2 DEF IInv, LockIsHeld
    <3> QED  BY <3>1, <3>2
  <2>2. \A q \in Processes : lock'[q] # NoTask => Home[lock'[q]] = q
    BY <1>1, <1>2 DEF IInv, LockIsHeld
  <2> QED  BY <2>1, <2>2 DEF LockIsHeld
<1>9. OneTransaction'
  BY <1>3 DEF IInv, OneTransaction
<1>10. CallIsOnItsWay'
  <2> SUFFICES ASSUME NEW t \in Tasks
               PROVE  /\ stamp'[t] <= clock
                      /\ pc'[t] # "idle" => call'[t] \in Calls
                      /\ pc'[t] # "read" => done'[t] = 0
                      /\ pc'[t] \in Writing =>
                           /\ call'[t].op # "prune"
                           /\ view'[Home[t]] = After(db, call'[t], stamp'[t], done'[t])
                      /\ pc'[t] = "read" =>
                           /\ last <= stamp'[t] /\ (call'[t].op = "reset" => stamp'[t] = last)
                           /\ done'[t] <= Statements(call'[t])
    BY <1>1 DEF CallIsOnItsWay
  <2>1. CASE t \in Ended
    BY <1>2, <1>4, <2>1 DEF Writing
  <2>2. CASE t \notin Ended /\ Home[t] = p
    <3>1. pc'[t] = pc[t] /\ pc[t] \notin Holding
      BY <1>5, <1>7, <2>2
    <3> QED  BY <1>5, <2>2, <3>1 DEF IInv, CallIsOnItsWay, Writing, Holding
  <2>3. CASE t \notin Ended /\ Home[t] # p
    <3>1. view'[Home[t]] = view[Home[t]]
      BY <1>3, <2>3
    <3> QED  BY <1>5, <2>3, <3>1 DEF IInv, CallIsOnItsWay
  <2> QED  BY <2>1, <2>2, <2>3
<1> QED  BY <1>1, <1>3, <1>6, <1>8, <1>9, <1>10, GoesOn

\* The connections come and go.
LEMMA ConnectionPreserves ==
  ASSUME IInv, NEW p \in Processes, Setup(p) \/ Close(p) \/ Crash(p)
  PROVE  IInv'
<1>1. /\ crashes \in 0..MaxCrashes /\ MaxCrashes \in Nat
      /\ \A t \in Tasks : lock[p] = t => Home[t] = p
  BY SQLiteAssumption DEF IInv, TypeOK, LockIsHeld
<1>2. CASE Setup(p)
  BY <1>2, SetupPreserves
<1>3. CASE Close(p)
  <2> DEFINE Ended == {t \in Tasks : lock[p] = t}
  <2>1. Disconnects(p) /\ Ends(Ended) /\ crashes' \in 0..MaxCrashes
    BY <1>1, <1>3 DEF Close
  <2>2. Ended \in SUBSET Tasks /\ \A t \in Ended : Home[t] = p
    BY <1>1
  <2>3. \A t \in Tasks : lock[p] = t => t \in Ended
    OBVIOUS
  <2> HIDE DEF Ended
  <2> QED  BY <2>1, <2>2, <2>3, DisconnectPreserves
<1>4. CASE Crash(p)
  <2> DEFINE Ended == {t \in Tasks : Home[t] = p}
  <2>1. Disconnects(p) /\ Ends(Ended) /\ crashes' \in 0..MaxCrashes
    BY <1>1, <1>4 DEF Crash
  <2>2. Ended \in SUBSET Tasks /\ \A t \in Ended : Home[t] = p
    OBVIOUS
  <2>3. \A t \in Tasks : lock[p] = t => t \in Ended
    BY <1>1
  <2> HIDE DEF Ended
  <2> QED  BY <2>1, <2>2, <2>3, DisconnectPreserves
<1> QED  BY <1>2, <1>3, <1>4

\* Time passes.
LEMMA TickPreserves ==
  ASSUME IInv, Tick
  PROVE  IInv'
<1> USE SQLiteAssumption DEF Tick
<1>1. clock \in Nat /\ clock' = clock + 1 /\ db' = db /\ view' = view /\ last' = last
  BY DEF IInv, TypeOK
<1>2. TypeOK'
  BY DEF IInv, TypeOK
<1>3. LockIsHeld' /\ OneTransaction'
  BY DEF IInv, LockIsHeld, OneTransaction
<1>4. CallIsOnItsWay'
  BY DEF IInv, TypeOK, CallIsOnItsWay
<1>5. ViewsAreOneAhead'
  <2> SUFFICES ASSUME NEW p \in Processes, view[p] # NoView
               PROVE  \E e \in OneAhead' : Between(view[p], db, e, clock')
    BY <1>1 DEF ViewsAreOneAhead, Between
  <2>1. PICK e \in OneAhead : Between(view[p], db, e, clock)
    BY DEF IInv, ViewsAreOneAhead
  <2>2. e \in OneAhead'
    BY <1>1 DEF OneAhead
  <2>3. db.logs \in [Keys -> SUBSET (Int \X Nat)] /\ e.logs \in [Keys -> SUBSET (Int \X Nat)]
    <3>1. IsDatabase(db) /\ \A k \in Keys : IsFiniteSet(db.logs[k])
      BY DEF IInv, TypeOK, Stamped
    <3>2. \A c \in Calls, s \in 0..clock :
            Effect(db, c, s).logs \in [Keys -> SUBSET (Int \X Nat)]
      BY <3>1, EffectLogsType
    <3> QED  BY <3>1, <3>2 DEF OneAhead, IsDatabase
  <2>4. view[p].logs \in [Keys -> SUBSET (Int \X Nat)]
    BY DEF IInv, TypeOK, IsDatabase
  <2>5. Between(view[p], db, e, clock')
    BY <1>1, <2>1, <2>3, <2>4, BetweenLater
  <2> QED  BY <2>2, <2>5
<1>6. Stamped(db, last)' /\ (last <= clock)'
  BY <1>1 DEF IInv, TypeOK, Stamped
<1> QED  BY <1>2, <1>3, <1>4, <1>5, <1>6 DEF IInv

\* Every step preserves the invariant.
LEMMA NextIInv == IInv /\ [Next]_vars => IInv'
<1> SUFFICES ASSUME IInv, [Next]_vars  PROVE IInv'
  OBVIOUS
<1>1. CASE UNCHANGED vars
  <2>1. UNCHANGED <<clock, db, answer, last, connected, lock, view, pc, call, stamp,
                      done, calls, crashes>>
    BY <1>1 DEF vars
  <2>2. TypeOK' /\ LockIsHeld' /\ OneTransaction' /\ CallIsOnItsWay'
    BY <2>1 DEF IInv, TypeOK, LockIsHeld, OneTransaction, CallIsOnItsWay
  <2> QED  BY <2>1, <2>2, GoesOn
<1>2. ASSUME NEW t \in Tasks, NEW c \in Requests[t], Start(t, c)  PROVE IInv'
  BY <1>2, StartPreserves
<1>3. ASSUME NEW t \in Tasks, Lock(t)  PROVE IInv'
  BY <1>3, LockPreserves
<1>4. ASSUME NEW t \in Tasks, Proceed(t)  PROVE IInv'
  <2>1. CASE Begin(t)
    BY <2>1, BeginPreserves
  <2>2. CASE BeginFails(t) \/ PruneFails(t)
    BY <2>2, LeavesQuietly DEF BeginFails, PruneFails
  <2>3. CASE Read(t)
    BY <2>3, ReadPreserves
  <2>4. CASE Write(t)
    BY <2>4, WritePreserves
  <2>5. CASE Commit(t)
    BY <2>5, CommitPreserves
  <2>6. CASE Prune(t)
    BY <2>6, LeavesPruned DEF Prune
  <2> QED  BY <1>4, <2>1, <2>2, <2>3, <2>4, <2>5, <2>6 DEF Proceed
<1>5. ASSUME NEW t \in Tasks, Fail(t)  PROVE IInv'
  BY <1>5, LeavesRolledBack
<1>6. ASSUME NEW t \in Tasks, Cancel(t)  PROVE IInv'
  BY <1>6, CancelPreserves
<1>7. ASSUME NEW p \in Processes, Setup(p) \/ Close(p) \/ Crash(p)  PROVE IInv'
  BY <1>7, ConnectionPreserves
<1>8. CASE Tick
  BY <1>8, TickPreserves
<1> QED  BY <1>1, <1>2, <1>3, <1>4, <1>5, <1>6, <1>7, <1>8 DEF Next

-----------------------------------------------------------------------------
(* The theorems.                                                           *)

\* The invariant holds in every state of every behaviour.
LEMMA Invariant == Spec => []IInv
BY InitIInv, NextIInv, PTL DEF Spec

\* The database and the transactions keep their types whatever is cancelled,
\* fails or crashes: no bucket holds more than its capacity, or less than nothing.
THEOREM SQLiteTypes == Spec => []TypeOK
BY Invariant, PTL DEF IInv

\* A reader of what is between two databases is answered as by one of them.
LEMMA BetweenReading ==
  ASSUME NEW v, NEW d, NEW e, NEW t, Between(v, d, e, t), NEW k \in Keys
  PROVE  /\ CounterReading(v, k, t) \in {CounterReading(d, k, t), CounterReading(e, k, t)}
         /\ LogReading(v, k, t) \in {LogReading(d, k, t), LogReading(e, k, t)}
<1>1. /\ v.counters \in {d.counters, e.counters}
      /\ InWindow(v.logs[k], t, Expiry) \in
           {InWindow(d.logs[k], t, Expiry), InWindow(e.logs[k], t, Expiry)}
  BY DEF Between
<1>2. CounterReading(v, k, t) \in {CounterReading(d, k, t), CounterReading(e, k, t)}
  BY <1>1 DEF CounterReading
<1>3. LogReading(v, k, t) \in {LogReading(d, k, t), LogReading(e, k, t)}
  BY <1>1 DEF LogReading
<1> QED  BY <1>2, <1>3

\* get, get_expiry and the readings of the log, which begin no transaction, see
\* a counter and a log as they are committed or as one and the same call would
\* leave them, also in the middle of its statements and on a connection whose
\* transaction a cancelled call left open.
THEOREM SQLiteReads == Spec => []ReadsAreOneCallAhead
<1>1. IInv => ReadsAreOneCallAhead
  <2> SUFFICES ASSUME IInv, NEW p \in Processes, NEW k \in Keys,
                      Reading(Seen(p), k, clock) # Reading(db, k, clock)
               PROVE  \E c \in Calls, s \in 0..clock :
                        /\ CounterReading(Seen(p), k, clock) \in
                             {CounterReading(db, k, clock),
                              CounterReading(Effect(db, c, s), k, clock)}
                        /\ LogReading(Seen(p), k, clock) \in
                             {LogReading(db, k, clock), LogReading(Effect(db, c, s), k, clock)}
    BY DEF ReadsAreOneCallAhead
  <2>1. view[p] # NoView
    BY DEF Seen
  <2>2. PICK e \in OneAhead : Between(view[p], db, e, clock)
    BY <2>1 DEF IInv, ViewsAreOneAhead
  <2>3. /\ CounterReading(Seen(p), k, clock) \in
             {CounterReading(db, k, clock), CounterReading(e, k, clock)}
        /\ LogReading(Seen(p), k, clock) \in
             {LogReading(db, k, clock), LogReading(e, k, clock)}
    BY <2>1, <2>2, BetweenReading DEF Seen
  <2>4. CASE e = db
    <3>1. Reading(Seen(p), k, clock) = Reading(db, k, clock)
      BY <2>3, <2>4 DEF Reading
    <3> QED  BY <3>1
  <2>5. CASE e # db
    <3>1. PICK c \in Calls, s \in 0..clock : e = Effect(db, c, s)
      BY <2>5 DEF OneAhead
    <3> QED  BY <2>3, <3>1
  <2> QED  BY <2>4, <2>5
<1> QED  BY <1>1, Invariant, PTL

-----------------------------------------------------------------------------
(* The database implements Storage.                                        *)

\* The definitions of Primitives mean in Storage what they mean here.
LEMMA SamePrimitives ==
  /\ Promised!EmptyDatabase = EmptyDatabase /\ Promised!NoAnswer = NoAnswer
  /\ \A d, c, s : /\ Promised!Effect(d, c, s) = Effect(d, c, s)
                  /\ Promised!AnswerOf(d, c, s) = AnswerOf(d, c, s)
<1>1. /\ Promised!EmptyDatabase = EmptyDatabase /\ Promised!NoAnswer = NoAnswer
  BY DEF Promised!EmptyDatabase, EmptyDatabase, Promised!NoAnswer, NoAnswer,
         Promised!EmptyDict, EmptyDict
<1> SUFFICES ASSUME NEW d, NEW c, NEW s
             PROVE  /\ Promised!Effect(d, c, s) = Effect(d, c, s)
                    /\ Promised!AnswerOf(d, c, s) = AnswerOf(d, c, s)
  BY <1>1
<1>2. /\ \A f, k, x : Promised!With(f, k, x) = With(f, k, x)
      /\ \A f, g : Promised!Without(f, g) = Without(f, g)
  BY DEF Promised!With, With, Promised!Without, Without
<1>3. Promised!CounterAfter(d, c, s) = CounterAfter(d, c, s)
  BY DEF Promised!CounterAfter, CounterAfter, Promised!Incremented, Incremented,
         Promised!ElasticallyIncremented, ElasticallyIncremented,
         Promised!Value, Value, Promised!Live, Live
<1>4. \A log : Promised!InWindow(log, s, Expiry) = InWindow(log, s, Expiry)
  BY DEF Promised!InWindow, InWindow, Promised!Ts, Ts
<1>5. \A S : Promised!Cardinality(S) = Cardinality(S)
  BY DEF Promised!Cardinality, Cardinality
<1>6. \A log : Promised!Admits(log, s, Limit, Expiry, c.amount) =
          Admits(log, s, Limit, Expiry, c.amount)
  BY <1>4, <1>5 DEF Promised!Admits, Admits
<1>7. \A log : Promised!Extended(log, s, c.amount) = Extended(log, s, c.amount)
  BY <1>5 DEF Promised!Extended, Extended, Promised!NewEntries, NewEntries, Promised!Ts, Ts
<1>8. Promised!LogAfter(d, c, s) = LogAfter(d, c, s)
  BY <1>4, <1>6, <1>7 DEF Promised!LogAfter, LogAfter, Promised!Acquired, Acquired
<1>9. /\ Promised!Enough(d, c, s) = Enough(d, c, s)
      /\ Promised!TokensLeft(d, c, s) = TokensLeft(d, c, s)
  BY DEF Promised!Enough, Enough, Promised!TokensLeft, TokensLeft, Promised!Refilled, Refilled
<1>10. Promised!BucketAfter(d, c, s) = BucketAfter(d, c, s)
  BY <1>9 DEF Promised!BucketAfter, BucketAfter
<1>11. Promised!Wiped(d, c.key) = Wiped(d, c.key)
  BY <1>2 DEF Promised!Wiped, Wiped
<1>12. Promised!Pruned(d, c.key, s) = Pruned(d, c.key, s)
  BY <1>4 DEF Promised!Pruned, Pruned
<1>13. Promised!Effect(d, c, s) = Effect(d, c, s)
  BY <1>2, <1>3, <1>8, <1>10, <1>11, <1>12 DEF Promised!Effect, Effect
<1>14. Promised!AnswerOf(d, c, s) = AnswerOf(d, c, s)
  BY <1>3, <1>6, <1>9 DEF Promised!AnswerOf, AnswerOf
<1> QED  BY <1>13, <1>14

\* A commit is the call of the task, applied at once.
LEMMA CommitApplies ==
  ASSUME IInv, NEW t \in Tasks, HasWritten(t), Committed(t), clock' = clock,
         answer' \in {AnswerOf(db, call[t], stamp[t]), answer}
  PROVE  Promised!Next
<1>1. /\ call[t] \in Calls /\ call[t].op # "prune" /\ stamp[t] \in 0..clock
      /\ last <= stamp[t] /\ stamp[t] <= clock
      /\ call[t].op = "reset" => stamp[t] = last
      /\ view[Home[t]] = Effect(db, call[t], stamp[t])
  <2>1. clock \in Nat
    BY DEF IInv, TypeOK
  <2> QED  BY <2>1, WrittenView
<1>2. Promised!Apply(call[t], stamp[t])
  BY <1>1, SamePrimitives DEF Promised!Apply, Committed
<1> QED  BY <1>1, <1>2 DEF Promised!Next

\* A prune outside a transaction takes effect at once, one in a transaction
\* that was left open never reaches the database.
LEMMA PruneApplies ==
  ASSUME IInv, NEW t \in Tasks, pc[t] = "locked", call[t].op = "prune", PrunedBy(t),
         UNCHANGED <<clock, answer, last>>
  PROVE  [Promised!Next]_<<clock, db, answer, last>>
<1>1. call[t] \in Calls /\ stamp[t] \in 0..clock /\ stamp[t] <= clock
  <2>1. stamp[t] \in Nat /\ clock \in Nat
    BY DEF IInv, TypeOK
  <2> QED  BY <2>1 DEF IInv, CallIsOnItsWay
<1>2. CASE db' = Effect(db, call[t], stamp[t])
  <2>1. Promised!Prune(call[t], stamp[t])
    BY <1>1, <1>2, SamePrimitives DEF Promised!Prune
  <2> QED  BY <1>1, <2>1 DEF Promised!Next
<1>3. CASE db' = db
  BY <1>3
<1> QED  BY <1>2, <1>3 DEF PrunedBy

\* base.py, "Atomically": whatever is cancelled, fails or crashes, the database
\* goes from one state to the next by whole calls, in the order of their times.
THEOREM SQLiteKeepsThePromise == Spec => KeepsThePromise
<1>1. Init => Promised!Init
  BY SamePrimitives DEF Init, Promised!Init
<1>2. IInv /\ [Next]_vars => [Promised!Next]_Promised!vars
  <2> SUFFICES ASSUME IInv, [Next]_vars  PROVE [Promised!Next]_<<clock, db, answer, last>>
    BY DEF Promised!vars
  <2>1. CASE UNCHANGED vars
    BY <2>1 DEF vars
  <2>2. ASSUME NEW t \in Tasks, NEW c \in Requests[t], Start(t, c)
        PROVE  UNCHANGED <<clock, db, answer, last>>
    BY <2>2 DEF Start
  <2>3. ASSUME NEW t \in Tasks, Lock(t) \/ Fail(t)
        PROVE  UNCHANGED <<clock, db, answer, last>>
    BY <2>3 DEF Lock, Fail, Leaves
  <2>4. ASSUME NEW t \in Tasks, Proceed(t)
        PROVE  [Promised!Next]_<<clock, db, answer, last>>
    <3>1. CASE Begin(t) \/ BeginFails(t) \/ Read(t) \/ Write(t) \/ PruneFails(t)
      BY <3>1 DEF Begin, BeginFails, Read, Write, PruneFails, Leaves
    <3>2. CASE Commit(t)
      BY <3>2, CommitApplies DEF Commit, Leaves
    <3>3. CASE Prune(t)
      BY <3>3, PruneApplies DEF Prune, Leaves
    <3> QED  BY <2>4, <3>1, <3>2, <3>3 DEF Proceed
  <2>5. ASSUME NEW t \in Tasks, Cancel(t)
        PROVE  [Promised!Next]_<<clock, db, answer, last>>
    <3>1. UNCHANGED <<clock, answer>>
      BY <2>5 DEF Cancel, Leaves
    <3>2. CASE UNCHANGED <<db, last>>
      BY <3>1, <3>2
    <3>3. CASE pc[t] = "locked" /\ call[t].op = "prune" /\ PrunedBy(t) /\ UNCHANGED last
      BY <3>1, <3>3, PruneApplies
    <3>4. CASE HasWritten(t) /\ Committed(t)
      BY <3>1, <3>4, CommitApplies
    <3> QED  BY <2>5, <3>2, <3>3, <3>4 DEF Cancel
  <2>6. ASSUME NEW p \in Processes, Setup(p) \/ Close(p) \/ Crash(p)
        PROVE  UNCHANGED <<clock, db, answer, last>>
    BY <2>6 DEF Setup, Close, Crash, Disconnects
  <2>7. CASE Tick
    <3>1. Promised!Tick
      BY <2>7 DEF Tick, Promised!Tick
    <3> QED  BY <3>1 DEF Promised!Next
  <2> QED  BY <2>1, <2>2, <2>3, <2>4, <2>5, <2>6, <2>7 DEF Next
<1> QED  BY <1>1, <1>2, Invariant, PTL DEF Spec, KeepsThePromise, Promised!Spec
=============================================================================
