------------------------ MODULE MemoryStorageProofs -------------------------
(***************************************************************************)
(* Proofs that MemoryStorage keeps its types, that its index covers what   *)
(* it holds, and that it never holds more than MaxEntries keys, for every  *)
(* value of the constants.                                                 *)
(***************************************************************************)
EXTENDS MemoryStorage, StoreLemmas

USE DEF Keys

-----------------------------------------------------------------------------
(* The index as an order.                                                  *)

\* The order of an OrderedDict: of two keys exactly one was used after the other,
\* and what was used after the later one was used after the earlier one.
IsOrder(order) ==
  /\ \A k \in DOMAIN order : k \notin order[k] /\ order[k] \subseteq DOMAIN order
  /\ \A j, k \in DOMAIN order :
       j # k => /\ j \in order[k] \/ k \in order[j]
                /\ j \in order[k] => k \notin order[j] /\ order[j] \subseteq order[k]

\* No key has MaxEntries or more used after it.
IndexIsAnOrder ==
  /\ IsOrder(index)
  /\ \A k \in DOMAIN index : Cardinality(index[k]) < MaxEntries

\* Moving a key to the end of an order, or adding it there, gives an order.
LEMMA MovedIsOrder ==
  ASSUME NEW order, NEW key, IsOrder(order)
  PROVE  IsOrder(MovedToEnd(order, key))
BY DEF IsOrder, MovedToEnd

\* Popping keys from an order gives an order.
LEMMA DroppedIsOrder ==
  ASSUME NEW order, NEW Gone, IsOrder(order)
  PROVE  IsOrder(Dropped(order, Gone))
BY DEF IsOrder, Dropped

\* Moving a key to the end keeps the type of the index.
LEMMA MovedType ==
  ASSUME NEW order, NEW key \in Keys, IsDict(order, Keys, SUBSET Keys)
  PROVE  IsDict(MovedToEnd(order, key), Keys, SUBSET Keys)
<1>1. PICK Held \in SUBSET Keys : order \in [Held -> SUBSET Keys]  BY DEF IsDict
<1>2. MovedToEnd(order, key) \in [Held \cup {key} -> SUBSET Keys]
  BY <1>1 DEF MovedToEnd
<1> QED  BY <1>2 DEF IsDict

\* Popping keys keeps the type of the index.
LEMMA DroppedType ==
  ASSUME NEW order, NEW Gone, IsDict(order, Keys, SUBSET Keys)
  PROVE  IsDict(Dropped(order, Gone), Keys, SUBSET Keys)
<1>1. PICK Held \in SUBSET Keys : order \in [Held -> SUBSET Keys]  BY DEF IsDict
<1>2. Dropped(order, Gone) \in [Held \ Gone -> SUBSET Keys]
  BY <1>1 DEF Dropped
<1> QED  BY <1>2 DEF IsDict

\* The position of a key from the recent end tells it from every other key,
\* so an order in which all positions are below MaxEntries is no longer than
\* that.
LEMMA OrderBounded ==
  ASSUME NEW order, IsOrder(order), IsFiniteSet(DOMAIN order),
         \A k \in DOMAIN order : Cardinality(order[k]) < MaxEntries
  PROVE  Cardinality(DOMAIN order) <= MaxEntries
<1> DEFINE rank == [k \in DOMAIN order |-> Cardinality(order[k])]
<1> USE ParametersAssumption
<1>1. \A k \in DOMAIN order : IsFiniteSet(order[k]) /\ Cardinality(order[k]) \in Nat
  <2> TAKE k \in DOMAIN order
  <2>1. order[k] \subseteq DOMAIN order  BY DEF IsOrder
  <2> QED  BY <2>1, FS_Subset, FS_CardinalityType
<1>2. \A j, k \in DOMAIN order : j # k /\ j \in order[k] => rank[j] # rank[k]
  <2> SUFFICES ASSUME NEW j \in DOMAIN order, NEW k \in DOMAIN order,
                      j # k, j \in order[k]
               PROVE  Cardinality(order[j]) # Cardinality(order[k])
    OBVIOUS
  <2>1. order[j] \subseteq order[k] /\ j \notin order[j]
    BY DEF IsOrder
  <2>2. order[j] # order[k]
    BY <2>1
  <2> QED  BY <1>1, <2>1, <2>2, FS_Subset
<1>3. rank \in Injection(DOMAIN order, 0..(MaxEntries - 1))
  <2>1. rank \in [DOMAIN order -> 0..(MaxEntries - 1)]
    BY <1>1
  <2>2. \A j, k \in DOMAIN order : rank[j] = rank[k] => j = k
    BY <1>2 DEF IsOrder
  <2> HIDE DEF rank
  <2> QED  BY <2>1, <2>2 DEF Injection, IsInjective
<1>4. /\ IsFiniteSet(0..(MaxEntries - 1))
      /\ Cardinality(0..(MaxEntries - 1)) = MaxEntries
  BY FS_Interval
<1> QED  BY <1>3, <1>4, FS_Injection

-----------------------------------------------------------------------------
(* The inductive invariant.                                                *)

\* What every step preserves: the types, the cover, the order, and that the
\* index is finite (it starts empty and a call adds at most one key).
IInv ==
  /\ TypeOK
  /\ IndexCoversEntries
  /\ IndexIsAnOrder
  /\ IsFiniteSet(DOMAIN index)

\* _touch, after a method has written its own key only, re-establishes the
\* invariant: what the sweep or the eviction pops, it pops everywhere.
LEMMA TouchPreserves ==
  ASSUME IInv, NEW key \in Keys, NEW cs, NEW ls, NEW bs,
         IsDict(cs, CounterKeys, Entry), IsDict(ls, LogKeys, LogType),
         IsDict(bs, BucketKeys, BucketType),
         DOMAIN cs \subseteq DOMAIN counters \cup {key},
         DOMAIN bs \subseteq DOMAIN buckets \cup {key},
         \A k \in DOMAIN ls : ls[k] # {} => k = key \/ k \in HeldKeys,
         Touch(key, cs, ls, bs), UNCHANGED clock
  PROVE  IInv'
<1> DEFINE moved   == MovedToEnd(index, key)
           pruned  == IF (ops + 1) % PruneInterval = 0 THEN Expired(cs, ls) ELSE {}
           evicted == Overflow(Dropped(moved, pruned))
           gone    == pruned \cup evicted
<1>1. /\ index' = Dropped(moved, gone)
      /\ counters' = Without(cs, gone)
      /\ logs' = Without(ls, gone)
      /\ buckets' = Without(bs, gone)
      /\ ops' = (ops + 1) % PruneInterval
  BY DEF Touch
<1>2. TypeOK'
  <2>1. IsDict(moved, Keys, SUBSET Keys)
    BY MovedType DEF IInv, TypeOK
  <2>2. IsDict(index', Keys, SUBSET Keys)
    BY <1>1, <2>1, DroppedType
  <2>3. /\ IsDict(counters', CounterKeys, Entry)
        /\ IsDict(logs', LogKeys, LogType)
        /\ IsDict(buckets', BucketKeys, BucketType)
    BY <1>1, WithoutType
  <2>4. LogType' = LogType /\ BucketType' = BucketType
    BY DEF LogType, BucketType
  <2>5. ops' \in 0..(PruneInterval - 1)
    BY <1>1, ParametersAssumption DEF IInv, TypeOK
  <2> QED  BY <2>2, <2>3, <2>4, <2>5 DEF IInv, TypeOK
<1>3. IndexCoversEntries'
  <2>1. DOMAIN index' = (DOMAIN index \cup {key}) \ gone
    BY <1>1 DEF Dropped, MovedToEnd
  <2>2. /\ DOMAIN counters' = DOMAIN cs \ gone
        /\ DOMAIN buckets' = DOMAIN bs \ gone
        /\ DOMAIN logs' = DOMAIN ls \ gone
        /\ \A k \in DOMAIN logs' : logs'[k] = ls[k]
    BY <1>1 DEF Without
  <2> HIDE DEF gone
  <2> QED  BY <2>1, <2>2 DEF IInv, IndexCoversEntries, HeldKeys
<1>4. IsOrder(index')
  BY <1>1, MovedIsOrder, DroppedIsOrder DEF IInv, IndexIsAnOrder
<1>5. IsFiniteSet(DOMAIN moved) /\ IsFiniteSet(DOMAIN index')
  <2>1. DOMAIN moved = DOMAIN index \cup {key} /\ DOMAIN index' \subseteq DOMAIN moved
    BY <1>1 DEF Dropped, MovedToEnd
  <2> QED  BY <2>1, FS_AddElement, FS_Subset DEF IInv
<1>6. \A k \in DOMAIN index' : Cardinality(index'[k]) < MaxEntries
  <2> SUFFICES ASSUME NEW k \in DOMAIN index'
               PROVE  Cardinality(index'[k]) < MaxEntries
    OBVIOUS
  <2>1. k \in DOMAIN Dropped(moved, pruned) /\ k \notin evicted
    BY <1>1 DEF Dropped
  <2>2. ~(Cardinality(Dropped(moved, pruned)[k]) >= MaxEntries)
    BY <2>1 DEF Overflow
  <2>3. index'[k] \subseteq Dropped(moved, pruned)[k]
    BY <1>1 DEF Dropped
  <2>4. Dropped(moved, pruned)[k] \subseteq DOMAIN moved
    <3>1. IsOrder(moved)
      BY MovedIsOrder DEF IInv, IndexIsAnOrder
    <3> QED  BY <2>1, <3>1 DEF Dropped, IsOrder
  <2>5. /\ IsFiniteSet(Dropped(moved, pruned)[k])
        /\ Cardinality(index'[k]) <= Cardinality(Dropped(moved, pruned)[k])
        /\ Cardinality(index'[k]) \in Nat
        /\ Cardinality(Dropped(moved, pruned)[k]) \in Nat
    BY <1>5, <2>3, <2>4, FS_Subset, FS_CardinalityType
  <2> QED  BY <2>2, <2>5, ParametersAssumption
<1> QED  BY <1>2, <1>3, <1>4, <1>5, <1>6 DEF IInv, IndexIsAnOrder

\* The log of a key that has none is empty.
LEMMA LogOfType ==
  ASSUME TypeOK, NEW key
  PROVE  LogOf(key) \in LogType
BY ElementType, FS_EmptySet DEF LogOf, TypeOK, LogType

\* What is read back from a log, cut to its window, is a log.
LEMMA InWindowType ==
  ASSUME NEW log \in LogType
  PROVE  InWindow(log, clock, Window) \in LogType
BY InWindowFinite DEF LogType

\* A bucket never holds more than its capacity, nor less than nothing.
LEMMA RefilledType ==
  ASSUME TypeOK, NEW key
  PROVE  Refilled(key) \in 0..Capacity
<1> USE ParametersAssumption
<1>1. CASE key \in DOMAIN buckets
  <2>1. buckets[key] \in BucketType /\ clock \in Nat
    BY <1>1, ElementType DEF TypeOK
  <2> DEFINE passed == clock - buckets[key].last
  <2>2. passed \in Nat
    BY <2>1 DEF BucketType
  <2>3. passed * Rate \in Nat
    <3> HIDE DEF passed
    <3> QED  BY <2>2
  <2>4. buckets[key].tokens \in 0..Capacity
    BY <2>1 DEF BucketType
  <2> QED  BY <1>1, <2>3, <2>4 DEF Refilled
<1>2. CASE key \notin DOMAIN buckets
  BY <1>2 DEF Refilled
<1> QED  BY <1>1, <1>2

-----------------------------------------------------------------------------
(* One lemma for each method.                                              *)

\* incr keeps the invariant.
LEMMA IncrementPreserves ==
  ASSUME IInv, NEW key \in CounterKeys, NEW amount \in Costs, NEW elastic \in BOOLEAN,
         Increment(key, amount, elastic)
  PROVE  IInv'
<1> DEFINE entry ==
             IF elastic THEN ElasticallyIncremented(counters, key, clock, Window, amount)
                        ELSE Incremented(counters, key, clock, Window, amount)
           cs == With(counters, key, entry)
<1>1. Touch(key, cs, logs, buckets) /\ UNCHANGED clock
  BY DEF Increment
<1>2. entry \in Entry
  BY IncrementedType, ParametersAssumption DEF IInv, TypeOK
<1>3. IsDict(cs, CounterKeys, Entry)
  BY <1>2, WithType DEF IInv, TypeOK
<1>4. DOMAIN cs \subseteq DOMAIN counters \cup {key}
  BY DEF With
<1> HIDE DEF cs
<1> QED  BY <1>1, <1>3, <1>4, TouchPreserves DEF IInv, TypeOK, HeldKeys

\* get keeps the invariant: it only moves a key the index holds.
LEMMA GetPreserves ==
  ASSUME IInv, NEW key \in CounterKeys, Get(key)
  PROVE  IInv'
<1>1. /\ index' = MovedToEnd(index, key)
      /\ UNCHANGED <<clock, counters, logs, buckets, ops>>
  BY DEF Get
<1>2. key \in DOMAIN index
  BY DEF Get, Live, IInv, IndexCoversEntries, HeldKeys
<1>3. DOMAIN index' = DOMAIN index
  BY <1>1, <1>2 DEF MovedToEnd
<1>4. IsDict(index', Keys, SUBSET Keys)
  BY <1>1, MovedType DEF IInv, TypeOK
<1>5. TypeOK'
  BY <1>1, <1>4 DEF IInv, TypeOK, LogType, BucketType
<1>6. IndexCoversEntries'
  BY <1>1, <1>3 DEF IInv, IndexCoversEntries, HeldKeys
<1>7. IsOrder(index')
  BY <1>1, MovedIsOrder DEF IInv, IndexIsAnOrder
<1>8. ASSUME NEW k \in DOMAIN index PROVE Cardinality(index'[k]) < MaxEntries
  <2>1. CASE k = key
    BY <1>1, <1>3, <2>1, FS_EmptySet, ParametersAssumption DEF MovedToEnd
  <2>2. CASE k # key
    <3>1. index'[k] = index[k] \cup {key}
      BY <1>1, <1>3, <2>2 DEF MovedToEnd
    <3>2. CASE key \in index[k]
      BY <3>1, <3>2 DEF IInv, IndexIsAnOrder
    <3>3. CASE key \notin index[k]
      \* then k was used after key, and key had at least one key more after it
      <4>1. k \in index[key] /\ index[k] \subseteq index[key] /\ k \notin index[k]
        BY <1>2, <2>2, <3>3 DEF IInv, IndexIsAnOrder, IsOrder
      <4>2. index[k] \cup {k} \subseteq index[key] /\ index[key] \subseteq DOMAIN index
        BY <1>2, <4>1 DEF IInv, IndexIsAnOrder, IsOrder
      <4>3. IsFiniteSet(index[key]) /\ IsFiniteSet(index[k])
        BY <4>2, FS_Subset DEF IInv
      <4>4. /\ Cardinality(index[k] \cup {k}) = Cardinality(index[k]) + 1
            /\ Cardinality(index[k] \cup {key}) = Cardinality(index[k]) + 1
        BY <3>3, <4>1, <4>3, FS_AddElement
      <4>5. Cardinality(index[k] \cup {k}) <= Cardinality(index[key])
        BY <4>2, <4>3, FS_Subset
      <4>6. Cardinality(index[k]) \in Nat /\ Cardinality(index[key]) \in Nat
        BY <4>3, FS_CardinalityType
      <4>7. Cardinality(index[key]) < MaxEntries
        BY <1>2 DEF IInv, IndexIsAnOrder
      <4> QED  BY <3>1, <4>4, <4>5, <4>6, <4>7, ParametersAssumption
    <3> QED  BY <3>2, <3>3
  <2> QED  BY <2>1, <2>2
<1> QED  BY <1>3, <1>5, <1>6, <1>7, <1>8 DEF IInv, IndexIsAnOrder

\* acquire_entry keeps the invariant.
LEMMA AcquirePreserves ==
  ASSUME IInv, NEW key \in LogKeys, NEW amount \in Costs, Acquire(key, amount)
  PROVE  IInv'
<1> DEFINE log == Acquired(LogOf(key), clock, Limit, Window, amount)
           ls == With(logs, key, log)
<1>1. Touch(key, counters, ls, buckets) /\ UNCHANGED clock
  BY DEF Acquire
<1>2. log \in LogType
  <2>1. IsFiniteSet(LogOf(key)) /\ LogOf(key) \subseteq (0..clock) \X (Nat \ {0})
    BY LogOfType DEF IInv, LogType
  <2>2. clock \in Nat /\ amount \in Nat
    BY ParametersAssumption DEF IInv, TypeOK
  <2> QED  BY <2>1, <2>2, AcquiredType, ParametersAssumption DEF LogType
<1>3. IsDict(ls, LogKeys, LogType)
  BY <1>2, WithType DEF IInv, TypeOK
<1>4. \A k \in DOMAIN ls : ls[k] # {} => k = key \/ k \in HeldKeys
  BY DEF With, HeldKeys
<1> HIDE DEF ls
<1> QED  BY <1>1, <1>3, <1>4, TouchPreserves DEF IInv, TypeOK

\* The readings of a log keep the invariant: they make no log longer.
LEMMA ReadLogPreserves ==
  ASSUME IInv, NEW key \in LogKeys, ReadLog(key)
  PROVE  IInv'
<1>1. /\ logs' = With(logs, key, InWindow(LogOf(key), clock, Window))
      /\ UNCHANGED <<clock, counters, buckets, index, ops>>
  BY DEF ReadLog
<1>2. InWindow(LogOf(key), clock, Window) \in LogType
  BY LogOfType, InWindowType DEF IInv
<1>3. TypeOK'
  BY <1>1, <1>2, WithType DEF IInv, TypeOK, LogType, BucketType
<1>4. \A k \in DOMAIN logs' : logs'[k] # {} => k \in DOMAIN logs /\ logs[k] # {}
  \* cutting the log of key to its window cannot make an empty log non-empty
  BY <1>1 DEF With, LogOf, InWindow
<1>5. IndexCoversEntries'
  BY <1>1, <1>4 DEF IInv, IndexCoversEntries, HeldKeys
<1> QED  BY <1>1, <1>3, <1>5 DEF IInv, IndexIsAnOrder

\* What take_token writes back is a bucket.
LEMMA BucketWritten ==
  ASSUME IInv, NEW key \in BucketKeys, NEW amount \in Costs
  PROVE  [tokens |-> IF Refilled(key) >= amount THEN Refilled(key) - amount ELSE Refilled(key),
          last   |-> clock] \in BucketType
<1> DEFINE left == IF Refilled(key) >= amount THEN Refilled(key) - amount ELSE Refilled(key)
<1>1. Refilled(key) \in 0..Capacity
  BY RefilledType DEF IInv
<1>2. left \in 0..Capacity
  BY <1>1, ParametersAssumption
<1>3. clock \in 0..clock
  BY DEF IInv, TypeOK
<1> HIDE DEF left
<1>4. [tokens |-> left, last |-> clock] \in BucketType
  BY <1>2, <1>3 DEF BucketType
<1> QED  BY <1>4 DEF left

\* take_token keeps the invariant.
LEMMA TakeTokenPreserves ==
  ASSUME IInv, NEW key \in BucketKeys, NEW amount \in Costs, TakeToken(key, amount)
  PROVE  IInv'
<1> DEFINE left == IF Refilled(key) >= amount THEN Refilled(key) - amount ELSE Refilled(key)
           bs == With(buckets, key, [tokens |-> left, last |-> clock])
<1>1. Touch(key, counters, logs, bs) /\ UNCHANGED clock
  BY DEF TakeToken
<1>2. [tokens |-> left, last |-> clock] \in BucketType
  BY BucketWritten
<1>3. IsDict(bs, BucketKeys, BucketType)
  BY <1>2, WithType DEF IInv, TypeOK
<1>4. DOMAIN bs \subseteq DOMAIN buckets \cup {key}
  BY DEF With
<1> HIDE DEF bs
<1> QED  BY <1>1, <1>3, <1>4, TouchPreserves DEF IInv, TypeOK, HeldKeys

\* reset() and close() pop keys from every dictionary and from the index.
LEMMA PopPreserves ==
  ASSUME IInv, NEW Gone,
         /\ counters' = Without(counters, Gone)
         /\ logs' = Without(logs, Gone)
         /\ buckets' = Without(buckets, Gone)
         /\ index' = Dropped(index, Gone)
         /\ UNCHANGED <<clock, ops>>
  PROVE  IInv'
<1>1. TypeOK'
  BY WithoutType, DroppedType DEF IInv, TypeOK, LogType, BucketType
<1>2. IndexCoversEntries'
  BY DEF IInv, IndexCoversEntries, HeldKeys, Without, Dropped
<1>3. IsOrder(index')
  BY DroppedIsOrder DEF IInv, IndexIsAnOrder
<1>4. DOMAIN index' \subseteq DOMAIN index /\ IsFiniteSet(DOMAIN index')
  BY FS_Subset DEF IInv, Dropped
<1>5. ASSUME NEW k \in DOMAIN index' PROVE Cardinality(index'[k]) < MaxEntries
  <2>1. k \in DOMAIN index /\ index'[k] \subseteq index[k] /\ index[k] \subseteq DOMAIN index
    BY DEF IInv, IndexIsAnOrder, IsOrder, Dropped
  <2>2. /\ Cardinality(index'[k]) <= Cardinality(index[k])
        /\ Cardinality(index'[k]) \in Nat
        /\ Cardinality(index[k]) \in Nat
    BY <2>1, FS_Subset, FS_CardinalityType DEF IInv
  <2>3. Cardinality(index[k]) < MaxEntries
    BY <2>1 DEF IInv, IndexIsAnOrder
  <2> QED  BY <2>2, <2>3, ParametersAssumption
<1> QED  BY <1>1, <1>2, <1>3, <1>4, <1>5 DEF IInv, IndexIsAnOrder

\* close() pops every key.
LEMMA ClosePreserves ==
  ASSUME IInv, Close
  PROVE  IInv'
<1> DEFINE Gone == DOMAIN counters \cup DOMAIN logs \cup DOMAIN buckets \cup DOMAIN index
<1>1. /\ Without(counters, Gone) = EmptyDict
      /\ Without(logs, Gone) = EmptyDict
      /\ Without(buckets, Gone) = EmptyDict
      /\ Dropped(index, Gone) = EmptyDict
  BY DEF Without, Dropped, EmptyDict
<1> HIDE DEF Gone
<1> QED  BY <1>1, PopPreserves DEF Close

\* Time passing only widens the types of stamps.
LEMMA TickPreserves ==
  ASSUME IInv, Tick
  PROVE  IInv'
<1>1. clock' = clock + 1 /\ clock' \in 0..MaxClock /\ UNCHANGED store
  BY ParametersAssumption DEF Tick, IInv, TypeOK
<1>2. LogType \subseteq LogType' /\ BucketType \subseteq BucketType'
  <2>1. 0..clock \subseteq 0..clock'
    BY <1>1 DEF IInv, TypeOK
  <2>2. \A S \in SUBSET ((0..clock) \X (Nat \ {0})) : S \in SUBSET ((0..clock') \X (Nat \ {0}))
    BY <2>1
  <2> QED  BY <2>1, <2>2 DEF LogType, BucketType
<1>3. TypeOK'
  BY <1>1, <1>2, WiderType DEF IInv, TypeOK, store
<1> QED  BY <1>1, <1>3 DEF IInv, IndexCoversEntries, HeldKeys, IndexIsAnOrder, store

-----------------------------------------------------------------------------
(* What a call may forget.                                                 *)

\* The keys that would decide a request if the dictionaries were cs, ls, bs.
Decides(cs, ls, bs) ==
  {k \in DOMAIN cs : cs[k].reset_at > clock}
    \cup {k \in DOMAIN ls : InWindow(ls[k], clock, Window) # {}}
    \cup DOMAIN bs

\* When the eviction takes anything, it leaves the index full: the most recent
\* of the keys it takes has at least MaxEntries keys after it, which all stay.
LEMMA EvictionLeavesItFull ==
  ASSUME NEW order, IsOrder(order), IsFiniteSet(DOMAIN order), Overflow(order) # {}
  PROVE  Cardinality(DOMAIN order \ Overflow(order)) >= MaxEntries
<1> DEFINE ranks == {Cardinality(order[k]) : k \in Overflow(order)}
<1> USE ParametersAssumption
<1>1. \A k \in DOMAIN order : /\ order[k] \subseteq DOMAIN order
                              /\ IsFiniteSet(order[k]) /\ Cardinality(order[k]) \in Nat
  <2> TAKE k \in DOMAIN order
  <2>1. order[k] \subseteq DOMAIN order  BY DEF IsOrder
  <2> QED  BY <2>1, FS_Subset, FS_CardinalityType
<1>2. Overflow(order) \subseteq DOMAIN order
  BY DEF Overflow
<1>3. \E least \in ranks : \A n \in ranks : least <= n
  <2>1. ranks \subseteq Nat /\ ranks # {}
    BY <1>1, <1>2
  <2> HIDE DEF ranks
  <2> QED  BY <2>1, HasLeast
<1>4. PICK m \in Overflow(order) :
             \A k \in Overflow(order) : Cardinality(order[m]) <= Cardinality(order[k])
  BY <1>3
<1>5. ASSUME NEW j \in order[m] PROVE j \notin Overflow(order)
  <2>1. j \in DOMAIN order /\ m \in DOMAIN order
    BY <1>1, <1>2
  <2>2. order[j] \subseteq order[m] /\ j \notin order[j] /\ j # m
    BY <2>1 DEF IsOrder
  <2>3. order[j] # order[m]
    BY <2>2
  <2>4. /\ Cardinality(order[j]) < Cardinality(order[m])
        /\ Cardinality(order[j]) \in Nat /\ Cardinality(order[m]) \in Nat
    BY <1>1, <2>1, <2>2, <2>3, FS_Subset
  <2> QED  BY <1>4, <2>4
<1>6. order[m] \subseteq DOMAIN order \ Overflow(order)
  BY <1>1, <1>2, <1>5
<1>7. Cardinality(order[m]) >= MaxEntries /\ Cardinality(order[m]) \in Nat
  BY <1>1, <1>2 DEF Overflow
<1>8. /\ Cardinality(order[m]) <= Cardinality(DOMAIN order \ Overflow(order))
      /\ Cardinality(DOMAIN order \ Overflow(order)) \in Nat
  BY <1>6, FS_Subset, FS_Difference, FS_CardinalityType
<1> QED  BY <1>7, <1>8

\* Of two keys of an order, the eviction takes the one with more keys after it
\* first: a key that stays was used after every key that goes.
LEMMA EvictionTakesTheOldest ==
  ASSUME NEW order, IsOrder(order), IsFiniteSet(DOMAIN order),
         NEW k \in Overflow(order), NEW j \in DOMAIN order \ Overflow(order)
  PROVE  j \in order[k]
<1>1. k \in DOMAIN order /\ j \in DOMAIN order /\ j # k
  BY DEF Overflow
<1>2. SUFFICES ASSUME k \in order[j] PROVE FALSE
  BY <1>1 DEF IsOrder
<1>3. order[k] \subseteq order[j] /\ order[j] \subseteq DOMAIN order
  BY <1>1, <1>2 DEF IsOrder
<1>4. /\ Cardinality(order[k]) <= Cardinality(order[j])
      /\ Cardinality(order[k]) \in Nat /\ Cardinality(order[j]) \in Nat
  BY <1>3, FS_Subset, FS_CardinalityType
<1>5. Cardinality(order[k]) >= MaxEntries /\ ~(Cardinality(order[j]) >= MaxEntries)
  BY <1>1 DEF Overflow
<1> QED  BY <1>4, <1>5, ParametersAssumption

\* _touch, after a method has written nothing that makes a key decide less:
\* the sweep takes no key that decides, and what the eviction takes was used
\* before everything it leaves.
LEMMA TouchLoses ==
  ASSUME IInv, IInv', NEW key \in Keys, NEW cs, NEW ls, NEW bs,
         IsDict(cs, CounterKeys, Entry), IsDict(ls, LogKeys, LogType),
         IsDict(bs, BucketKeys, BucketType),
         DecidingKeys \subseteq Decides(cs, ls, bs),
         Touch(key, cs, ls, bs), UNCHANGED clock,
         NEW k \in DecidingKeys \ DecidingKeys'
  PROVE  /\ Cardinality(DOMAIN index') = MaxEntries
         /\ \A j \in DOMAIN index' : j \in index[k] \/ index'[j] = {}
<1> DEFINE moved   == MovedToEnd(index, key)
           pruned  == IF (ops + 1) % PruneInterval = 0 THEN Expired(cs, ls) ELSE {}
           left    == Dropped(moved, pruned)
           evicted == Overflow(left)
           gone    == pruned \cup evicted
<1>1. /\ index' = Dropped(moved, gone)
      /\ counters' = Without(cs, gone)
      /\ logs' = Without(ls, gone)
      /\ buckets' = Without(bs, gone)
  BY DEF Touch
<1>2. k \in Decides(cs, ls, bs)
  OBVIOUS
<1>3. k \in gone
  <2> HIDE DEF gone
  <2>1. \A x \in Decides(cs, ls, bs) \ gone :
          \/ x \in DOMAIN counters' /\ counters'[x].reset_at > clock
          \/ x \in DOMAIN logs' /\ InWindow(logs'[x], clock, Window) # {}
          \/ x \in DOMAIN buckets'
    BY <1>1 DEF Decides, Without
  <2>2. Decides(cs, ls, bs) \ gone \subseteq DecidingKeys'
    BY <2>1 DEF DecidingKeys
  <2> QED  BY <1>2, <2>2
<1>4. k \notin pruned
  <2>1. CASE k \in DOMAIN cs /\ cs[k].reset_at > clock
    <3>1. k \in CounterKeys /\ k \notin DOMAIN ls
      BY <2>1, ElementType, DisjointKeysAssumption DEF IsDict
    <3>2. cs[k] \in Entry /\ clock \in Nat
      BY <2>1, ElementType, ParametersAssumption DEF IInv, TypeOK
    <3>3. ~(cs[k].reset_at <= clock)
      BY <2>1, <3>2 DEF Entry
    <3> QED  BY <3>1, <3>3 DEF Expired
  <2>2. CASE k \in DOMAIN ls /\ InWindow(ls[k], clock, Window) # {}
    <3>1. k \in LogKeys /\ k \notin DOMAIN cs
      BY <2>2, ElementType, DisjointKeysAssumption DEF IsDict
    <3>2. ls[k] # {}
      BY <2>2 DEF InWindow
    <3> QED  BY <3>1, <3>2 DEF Expired
  <2>3. CASE k \in DOMAIN bs
    <3>1. k \in BucketKeys /\ k \notin DOMAIN cs /\ k \notin DOMAIN ls
      BY <2>3, ElementType, DisjointKeysAssumption DEF IsDict
    <3> QED  BY <3>1 DEF Expired
  <2> QED  BY <1>2, <2>1, <2>2, <2>3 DEF Decides
<1>5. k \in evicted
  BY <1>3, <1>4
<1>6. IsOrder(moved) /\ IsOrder(left) /\ IsFiniteSet(DOMAIN left)
  <2>1. IsOrder(moved) /\ IsOrder(left)
    BY MovedIsOrder, DroppedIsOrder DEF IInv, IndexIsAnOrder
  <2>2. DOMAIN moved = DOMAIN index \cup {key} /\ DOMAIN left \subseteq DOMAIN moved
    BY DEF Dropped, MovedToEnd
  <2>3. IsFiniteSet(DOMAIN index)
    BY DEF IInv
  <2> HIDE DEF moved, left
  <2>4. IsFiniteSet(DOMAIN moved)
    BY <2>2, <2>3, FS_AddElement
  <2> QED  BY <2>1, <2>2, <2>4, FS_Subset
<1>7. DOMAIN index' = DOMAIN left \ evicted
  BY <1>1 DEF Dropped
<1>8. k \in DOMAIN index /\ k # key
  <2>1. k \in DOMAIN moved /\ k \in DOMAIN left
    BY <1>5 DEF Overflow, Dropped
  <2>2. Cardinality(left[k]) >= MaxEntries
    BY <1>5 DEF Overflow
  <2>3. ASSUME k = key PROVE FALSE
    <3>1. left[k] = {}
      BY <2>1, <2>3 DEF Dropped, MovedToEnd
    <3>2. Cardinality(left[k]) = 0
      BY <3>1, FS_EmptySet
    <3> HIDE DEF left
    <3> QED  BY <2>2, <3>2, ParametersAssumption
  <2> QED  BY <2>1, <2>3 DEF MovedToEnd
<1>9. Cardinality(DOMAIN index') = MaxEntries
  <2>1. Cardinality(DOMAIN index') >= MaxEntries
    BY <1>5, <1>6, <1>7, EvictionLeavesItFull
  <2>2. Cardinality(DOMAIN index') <= MaxEntries
    <3>1. /\ IsOrder(index') /\ IsFiniteSet(DOMAIN index')
          /\ \A x \in DOMAIN index' : Cardinality(index'[x]) < MaxEntries
      BY DEF IInv, IndexIsAnOrder
    <3> QED  BY <3>1, OrderBounded
  <2>3. Cardinality(DOMAIN index') \in Nat
    BY FS_CardinalityType DEF IInv
  <2> QED  BY <2>1, <2>2, <2>3, ParametersAssumption
<1>10. ASSUME NEW j \in DOMAIN index' PROVE j \in index[k] \/ index'[j] = {}
  <2>1. CASE j = key
    BY <1>1, <1>10, <2>1 DEF Dropped, MovedToEnd
  <2>2. CASE j # key
    <3>1. j \in left[k]
      BY <1>5, <1>6, <1>7, EvictionTakesTheOldest
    <3>2. left[k] \subseteq index[k] \cup {key}
      BY <1>8, <1>5 DEF Dropped, MovedToEnd, Overflow
    <3> QED  BY <2>2, <3>1, <3>2
  <2> QED  BY <2>1, <2>2
<1> QED  BY <1>9, <1>10

\* What LosesOnlyLeastRecent says of a step that loses something.
Forgets ==
  \A k \in DecidingKeys \ DecidingKeys' :
    /\ Cardinality(DOMAIN index') = MaxEntries
    /\ \A j \in DOMAIN index' : j \in index[k] \/ index'[j] = {}

\* incr leaves the counter it writes live.
LEMMA IncrementForgets ==
  ASSUME IInv, IInv', NEW key \in CounterKeys, NEW amount \in Costs,
         NEW elastic \in BOOLEAN, Increment(key, amount, elastic)
  PROVE  Forgets
<1> DEFINE entry ==
             IF elastic THEN ElasticallyIncremented(counters, key, clock, Window, amount)
                        ELSE Incremented(counters, key, clock, Window, amount)
           cs == With(counters, key, entry)
<1>1. Touch(key, cs, logs, buckets) /\ UNCHANGED clock
  BY DEF Increment
<1>2. entry \in Entry /\ clock \in Nat
  BY IncrementedType, ParametersAssumption DEF IInv, TypeOK
<1>3. IsDict(cs, CounterKeys, Entry)
  BY <1>2, WithType DEF IInv, TypeOK
<1>4. entry.reset_at > clock
  BY <1>2, ParametersAssumption DEF Incremented, ElasticallyIncremented, Live
<1> HIDE DEF entry
<1>5. DecidingKeys \subseteq Decides(cs, logs, buckets)
  <2>1. \A k \in DOMAIN counters :
          counters[k].reset_at > clock => k \in DOMAIN cs /\ cs[k].reset_at > clock
    BY <1>4 DEF With
  <2> HIDE DEF cs
  <2> QED  BY <2>1 DEF DecidingKeys, Decides
<1> HIDE DEF cs
<1> QED  BY <1>1, <1>3, <1>5, TouchLoses DEF IInv, TypeOK, Forgets

\* acquire_entry cuts the log to what still counts and may extend it.
LEMMA AcquireForgets ==
  ASSUME IInv, IInv', NEW key \in LogKeys, NEW amount \in Costs, Acquire(key, amount)
  PROVE  Forgets
<1> DEFINE log == Acquired(LogOf(key), clock, Limit, Window, amount)
           ls == With(logs, key, log)
<1>1. Touch(key, counters, ls, buckets) /\ UNCHANGED clock
  BY DEF Acquire
<1>2. log \in LogType
  <2>1. IsFiniteSet(LogOf(key)) /\ LogOf(key) \subseteq (0..clock) \X (Nat \ {0})
    BY LogOfType DEF IInv, LogType
  <2>2. clock \in Nat /\ amount \in Nat
    BY ParametersAssumption DEF IInv, TypeOK
  <2> QED  BY <2>1, <2>2, AcquiredType, ParametersAssumption DEF LogType
<1>3. IsDict(ls, LogKeys, LogType)
  BY <1>2, WithType DEF IInv, TypeOK
<1>4. InWindow(LogOf(key), clock, Window) \subseteq InWindow(log, clock, Window)
  BY DEF Acquired, Extended, InWindow
<1> HIDE DEF log
<1>5. DecidingKeys \subseteq Decides(counters, ls, buckets)
  <2>1. ASSUME NEW k \in DOMAIN logs, InWindow(logs[k], clock, Window) # {}
        PROVE  k \in DOMAIN ls /\ InWindow(ls[k], clock, Window) # {}
    <3>1. CASE k = key
      BY <1>4, <2>1, <3>1 DEF With, LogOf
    <3>2. CASE k # key
      BY <2>1, <3>2 DEF With
    <3> QED  BY <3>1, <3>2
  <2> HIDE DEF ls
  <2> QED  BY <2>1 DEF DecidingKeys, Decides
<1> HIDE DEF ls
<1> QED  BY <1>1, <1>3, <1>5, TouchLoses DEF IInv, TypeOK, Forgets

\* take_token leaves the bucket it writes where it was.
LEMMA TakeTokenForgets ==
  ASSUME IInv, IInv', NEW key \in BucketKeys, NEW amount \in Costs, TakeToken(key, amount)
  PROVE  Forgets
<1> DEFINE left == IF Refilled(key) >= amount THEN Refilled(key) - amount ELSE Refilled(key)
           bs == With(buckets, key, [tokens |-> left, last |-> clock])
<1>1. Touch(key, counters, logs, bs) /\ UNCHANGED clock
  BY DEF TakeToken
<1>2. [tokens |-> left, last |-> clock] \in BucketType
  BY BucketWritten
<1>3. IsDict(bs, BucketKeys, BucketType)
  BY <1>2, WithType DEF IInv, TypeOK
<1>4. DecidingKeys \subseteq Decides(counters, logs, bs)
  BY DEF DecidingKeys, Decides, With
<1> HIDE DEF bs
<1> QED  BY <1>1, <1>3, <1>4, TouchLoses DEF IInv, TypeOK, Forgets

\* get_num_acquired and get_oldest_entry cut a log to what still counts.
LEMMA ReadLogForgets ==
  ASSUME NEW key \in LogKeys, ReadLog(key)
  PROVE  DecidingKeys \subseteq DecidingKeys'
<1>1. /\ logs' = With(logs, key, InWindow(LogOf(key), clock, Window))
      /\ UNCHANGED <<clock, counters, buckets>>
  BY DEF ReadLog
<1>2. ASSUME NEW k \in DOMAIN logs, InWindow(logs[k], clock, Window) # {}
      PROVE  k \in DOMAIN logs' /\ InWindow(logs'[k], clock, Window) # {}
  <2>1. CASE k = key
    BY <1>1, <1>2, <2>1 DEF With, LogOf, InWindow
  <2>2. CASE k # key
    BY <1>1, <1>2, <2>2 DEF With
  <2> QED  BY <2>1, <2>2
<1>3. \A k \in DOMAIN counters :
        counters[k].reset_at > clock => k \in DOMAIN counters' /\ counters'[k].reset_at > clock'
  BY <1>1
<1>4. \A k \in DOMAIN logs :
        InWindow(logs[k], clock, Window) # {} =>
          k \in DOMAIN logs' /\ InWindow(logs'[k], clock', Window) # {}
  BY <1>1, <1>2
<1> QED  BY <1>1, <1>3, <1>4 DEF DecidingKeys

-----------------------------------------------------------------------------
(* The theorems.                                                           *)

\* The invariant holds initially.
LEMMA InitIInv == Init => IInv
<1> SUFFICES ASSUME Init PROVE IInv
  OBVIOUS
<1>1. TypeOK
  BY EmptyType, ParametersAssumption DEF Init, TypeOK
<1>2. DOMAIN EmptyDict = {}
  BY DEF EmptyDict
<1> QED
  BY <1>1, <1>2, FS_EmptySet
  DEF Init, IInv, IndexCoversEntries, HeldKeys, IndexIsAnOrder, IsOrder

\* Every step preserves the invariant.
LEMMA NextIInv == IInv /\ [Next]_vars => IInv'
<1> SUFFICES ASSUME IInv, [Next]_vars PROVE IInv'
  OBVIOUS
<1>1. ASSUME NEW key \in CounterKeys, NEW amount \in Costs, NEW elastic \in BOOLEAN,
             Increment(key, amount, elastic)
      PROVE  IInv'
  BY <1>1, IncrementPreserves
<1>2. ASSUME NEW key \in CounterKeys, Get(key) PROVE IInv'
  BY <1>2, GetPreserves
<1>3. ASSUME NEW key \in LogKeys, NEW amount \in Costs, Acquire(key, amount) PROVE IInv'
  BY <1>3, AcquirePreserves
<1>4. ASSUME NEW key \in LogKeys, ReadLog(key) PROVE IInv'
  BY <1>4, ReadLogPreserves
<1>5. ASSUME NEW key \in BucketKeys, NEW amount \in Costs, TakeToken(key, amount) PROVE IInv'
  BY <1>5, TakeTokenPreserves
<1>6. ASSUME NEW key \in Keys, Reset(key) PROVE IInv'
  BY <1>6, PopPreserves DEF Reset
<1>7. CASE Close
  BY <1>7, ClosePreserves
<1>8. CASE Tick
  BY <1>8, TickPreserves
<1>9. CASE UNCHANGED vars
  BY <1>9 DEF vars, IInv, TypeOK, LogType, BucketType, IndexCoversEntries, HeldKeys,
              IndexIsAnOrder
<1> QED
  BY <1>1, <1>2, <1>3, <1>4, <1>5, <1>6, <1>7, <1>8, <1>9 DEF Next

\* The invariant bounds what the storage holds: every held key is one of the
\* at most MaxEntries keys of the index.
LEMMA BoundedByIndex == IInv => StoreBounded
<1> SUFFICES ASSUME IInv PROVE StoreBounded
  OBVIOUS
<1>1. Cardinality(DOMAIN index) <= MaxEntries
  BY OrderBounded DEF IInv, IndexIsAnOrder
<1>2. /\ Cardinality(HeldKeys) <= Cardinality(DOMAIN index)
      /\ Cardinality(HeldKeys) \in Nat
      /\ Cardinality(DOMAIN index) \in Nat
  BY FS_Subset, FS_CardinalityType DEF IInv, IndexCoversEntries
<1> QED  BY <1>1, <1>2, ParametersAssumption DEF StoreBounded

\* Every reachable state of the storage has the types of TypeOK: in
\* particular no bucket ever holds more than its capacity or a negative number
\* of tokens (take_token), and the logs are finite.
THEOREM TypeCorrect == Spec => []TypeOK
<1>1. IInv => TypeOK
  BY DEF IInv
<1> QED  BY InitIInv, NextIInv, <1>1, PTL DEF Spec

\* Whatever the methods called, every counter, bucket and non-empty log of the
\* storage is known to its index, so get() never moves a missing key and
\* everything that is held can be evicted.
THEOREM EntriesAreIndexed == Spec => []IndexCoversEntries
<1>1. IInv => IndexCoversEntries
  BY DEF IInv
<1> QED  BY InitIInv, NextIInv, <1>1, PTL DEF Spec

\* The storage never holds limit state under more than max_entries keys,
\* whatever the keys, the costs and the sweep interval.
THEOREM HoldsAtMostMaxEntries == Spec => []StoreBounded
BY InitIInv, NextIInv, BoundedByIndex, PTL DEF Spec

\* A call other than reset() and close() forgets state that still counts only
\* when the storage is full, and then only that of keys less recently used
\* than every key it keeps: neither the sweep nor the eviction takes more.
THEOREM ForgetsOnlyLeastRecent == Spec => LosesOnlyLeastRecent
<1> DEFINE Step == ~(Close \/ \E key \in Keys : Reset(key)) /\ clock' = clock => Forgets
<1>1. IInv /\ IInv' /\ [Next]_vars => [Step]_vars
  <2> SUFFICES ASSUME IInv, IInv', Next, ~Close, ~(\E key \in Keys : Reset(key)), clock' = clock
               PROVE  Forgets
    OBVIOUS
  <2>1. ASSUME NEW key \in CounterKeys, NEW amount \in Costs, NEW elastic \in BOOLEAN,
               Increment(key, amount, elastic)
        PROVE  Forgets
    BY <2>1, IncrementForgets
  <2>2. ASSUME NEW key \in CounterKeys, Get(key) PROVE Forgets
    BY <2>2 DEF Get, Forgets, DecidingKeys
  <2>3. ASSUME NEW key \in LogKeys, NEW amount \in Costs, Acquire(key, amount) PROVE Forgets
    BY <2>3, AcquireForgets
  <2>4. ASSUME NEW key \in LogKeys, ReadLog(key) PROVE Forgets
    BY <2>4, ReadLogForgets DEF Forgets
  <2>5. ASSUME NEW key \in BucketKeys, NEW amount \in Costs, TakeToken(key, amount)
        PROVE  Forgets
    BY <2>5, TakeTokenForgets
  <2>6. ~Tick
    BY ParametersAssumption DEF Tick, IInv, TypeOK
  <2> QED  BY <2>1, <2>2, <2>3, <2>4, <2>5, <2>6 DEF Next
<1> QED  BY InitIInv, NextIInv, <1>1, PTL DEF Spec, LosesOnlyLeastRecent, Forgets
=============================================================================
