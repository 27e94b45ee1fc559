---------------------------- MODULE StoreLemmas -----------------------------
(***************************************************************************)
(* Facts about dictionaries, expiring counters and timestamp logs that the *)
(* proofs about the storages and the strategies share.                     *)
(***************************************************************************)
EXTENDS Dicts, Counters, EntryLogs, FiniteSetTheorems, NaturalsInduction,
        WellFoundedInduction, TLAPS

\* Popping keys from a dictionary leaves a dictionary of the same type.
LEMMA WithoutType ==
  ASSUME NEW d, NEW Keys, NEW Values, NEW Gone, IsDict(d, Keys, Values)
  PROVE  IsDict(Without(d, Gone), Keys, Values)
<1>1. PICK Held \in SUBSET Keys : d \in [Held -> Values]  BY DEF IsDict
<1>2. Without(d, Gone) \in [Held \ Gone -> Values]  BY <1>1 DEF Without
<1> QED  BY <1>2 DEF IsDict

\* Assigning a value of the right type to a key leaves a dictionary of the
\* same type.
LEMMA WithType ==
  ASSUME NEW d, NEW Keys, NEW Values, NEW key \in Keys, NEW value \in Values,
         IsDict(d, Keys, Values)
  PROVE  IsDict(With(d, key, value), Keys, Values)
<1>1. PICK Held \in SUBSET Keys : d \in [Held -> Values]  BY DEF IsDict
<1>2. With(d, key, value) \in [Held \cup {key} -> Values]  BY <1>1 DEF With
<1> QED  BY <1>2 DEF IsDict

\* The empty dictionary has every dictionary type.
LEMMA EmptyType ==
  ASSUME NEW Keys, NEW Values
  PROVE  IsDict(EmptyDict, Keys, Values)
<1>1. EmptyDict \in [{} -> Values]  BY DEF EmptyDict
<1> QED  BY <1>1 DEF IsDict

\* A dictionary type may be widened.
LEMMA WiderType ==
  ASSUME NEW d, NEW Keys, NEW Values, NEW Wider, Values \subseteq Wider,
         IsDict(d, Keys, Values)
  PROVE  IsDict(d, Keys, Wider)
<1>1. PICK Held \in SUBSET Keys : d \in [Held -> Values]  BY DEF IsDict
<1>2. d \in [Held -> Wider]  BY <1>1
<1> QED  BY <1>2 DEF IsDict

\* A held value has the type of the values.
LEMMA ElementType ==
  ASSUME NEW d, NEW Keys, NEW Values, IsDict(d, Keys, Values), NEW k \in DOMAIN d
  PROVE  k \in Keys /\ d[k] \in Values
BY DEF IsDict

-----------------------------------------------------------------------------

\* Incrementing a counter gives an entry, and never a smaller value.
LEMMA IncrementedType ==
  ASSUME NEW d, NEW Keys, IsDict(d, Keys, Entry), NEW key, NEW t \in Int,
         NEW expiry \in Int, NEW amount \in Nat
  PROVE  /\ Incremented(d, key, t, expiry, amount) \in Entry
         /\ ElasticallyIncremented(d, key, t, expiry, amount) \in Entry
<1>1. CASE Live(d, key, t)
  <2>1. d[key] \in Entry  BY <1>1, ElementType DEF Live
  <2> QED  BY <1>1, <2>1 DEF Incremented, ElasticallyIncremented, Value, Entry
<1>2. CASE ~Live(d, key, t)
  BY <1>2 DEF Incremented, ElasticallyIncremented, Value, Entry
<1> QED  BY <1>1, <1>2

-----------------------------------------------------------------------------

\* A set of natural numbers that is not empty has a least member.
LEMMA HasLeast ==
  ASSUME NEW S, S \subseteq Nat, S # {}
  PROVE  \E least \in S : \A n \in S : least <= n
<1> DEFINE before == OpToRel(<, Nat)
<1>1. PICK least \in S : \A n \in S : ~(<<n, least>> \in before)
  <2> HIDE DEF before
  <2> QED  BY NatLessThanWellFounded, WFMin DEF before
<1>2. \A n \in S : ~(n < least)
  BY <1>1 DEF OpToRel
<1> QED  BY <1>2

\* Cutting a log to its window gives a finite part of it.
LEMMA InWindowFinite ==
  ASSUME NEW log, IsFiniteSet(log), NEW t, NEW expiry
  PROVE  /\ InWindow(log, t, expiry) \subseteq log
         /\ IsFiniteSet(InWindow(log, t, expiry))
<1>1. InWindow(log, t, expiry) \subseteq log  BY DEF InWindow
<1> QED  BY <1>1, FS_Subset

\* The entries one call makes: one for each unit, each with the time of the
\* call and a positive number.
LEMMA NewEntriesType ==
  ASSUME NEW t, NEW n \in Nat, NEW amount \in Nat
  PROVE  /\ IsFiniteSet(NewEntries(t, n, amount))
         /\ Cardinality(NewEntries(t, n, amount)) = amount
         /\ \A e \in NewEntries(t, n, amount) : e \in {t} \X (Nat \ {0}) /\ e[2] > n
<1> DEFINE new == NewEntries(t, n, amount)
           f == [i \in 1..amount |-> <<t, n + i>>]
<1>1. f \in Surjection(1..amount, new)
  BY DEF Surjection, NewEntries
<1>2. f \in Injection(1..amount, new)
  BY DEF Injection, IsInjective, NewEntries
<1>3. IsFiniteSet(1..amount) /\ Cardinality(1..amount) = amount
  BY FS_Interval
<1>4. IsFiniteSet(new) /\ Cardinality(new) = amount
  BY <1>1, <1>2, <1>3, FS_Surjection
<1>5. \A e \in new : e \in {t} \X (Nat \ {0}) /\ e[2] > n
  BY DEF NewEntries
<1> QED  BY <1>4, <1>5

\* acquire_entry leaves a finite log whose times are not in the future.
LEMMA AcquiredType ==
  ASSUME NEW log, NEW t \in Nat, NEW limit \in Int, NEW expiry \in Int,
         NEW amount \in Nat, IsFiniteSet(log), log \subseteq (0..t) \X (Nat \ {0})
  PROVE  /\ IsFiniteSet(Acquired(log, t, limit, expiry, amount))
         /\ Acquired(log, t, limit, expiry, amount) \subseteq (0..t) \X (Nat \ {0})
<1> DEFINE old == InWindow(log, t, expiry)
           same == {e \in old : Ts(e) = t}
           before == Cardinality(same)
           new == NewEntries(t, before, amount)
<1>1. IsFiniteSet(old) /\ old \subseteq log
  BY InWindowFinite
<1>2. before \in Nat
  <2>1. same \subseteq old  OBVIOUS
  <2> QED  BY <1>1, <2>1, FS_Subset, FS_CardinalityType
<1>3. IsFiniteSet(new) /\ new \subseteq (0..t) \X (Nat \ {0})
  <2>1. IsFiniteSet(new) /\ \A e \in new : e \in {t} \X (Nat \ {0})
    BY <1>2, NewEntriesType
  <2> QED  BY <2>1
<1>4. IsFiniteSet(old \cup new)
  BY <1>1, <1>3, FS_Union
<1>5. Acquired(log, t, limit, expiry, amount) \in {old, old \cup new}
  BY DEF Acquired, Extended
<1> HIDE DEF old, new
<1> QED  BY <1>1, <1>3, <1>4, <1>5
=============================================================================
