------------------------- MODULE MovingWindowProofs -------------------------
(***************************************************************************)
(* Proof that the moving window never admits more than its limit in any    *)
(* interval shorter than the window by the delay of the calls, for any     *)
(* number of requests, limit, window, costs and delay.                     *)
(*                                                                         *)
(* The argument: an entry is cut from the log only by a call stamped a     *)
(* window after it, and a stamp is not in the future, so the log still     *)
(* holds every entry stamped within the last window.  An entry admitted in *)
(* an interval that ends now is stamped within the last window, so         *)
(* acquire_entry counts it before it admits more.                          *)
(***************************************************************************)
EXTENDS MovingWindow, StoreLemmas

\* A rate of at least a second has a window of at least a tick.
LEMMA WindowType == Window \in Nat \ {0}
BY MovingWindowAssumption DEF Window

-----------------------------------------------------------------------------
(* The inductive invariant.                                                *)

\* Entries are stamped no later than they are logged, and not much earlier.
StampedBeforeLogged ==
  \A g \in granted : /\ Stamp(g) <= LoggedAt(g)
                     /\ LoggedAt(g) <= Stamp(g) + MaxDelay
                     /\ LoggedAt(g) <= clock

\* The log has lost no entry stamped within the last window.
LogKeepsTheWindow ==
  \A g \in granted : Stamp(g) > clock - Window => g \in log

\* The serial numbers go up to the number of entries: a new entry is new.
SerialNumbers ==
  \A g \in granted : g[2] <= Cardinality(granted)

\* The bound, for every interval.
IntervalsBounded ==
  \A a \in Int : Cardinality(LoggedIn(a, Window - MaxDelay)) <= Limit

\* acquire_entry never lets the log grow past the limit.
LogWithinLimit == Cardinality(log) <= Limit

IInv ==
  /\ TypeOK
  /\ LogWithinLimit
  /\ StampedBeforeLogged
  /\ LogKeepsTheWindow
  /\ SerialNumbers
  /\ IntervalsBounded

-----------------------------------------------------------------------------

\* What an entry is made of.
LEMMA EntryType ==
  ASSUME IInv, NEW g \in granted
  PROVE  /\ g = <<g[1], g[2], g[3]>>
         /\ g[1] \in Nat /\ g[2] \in Nat /\ g[3] \in Nat
         /\ Stamp(g) = g[1] /\ LoggedAt(g) = g[3]
BY DEF IInv, TypeOK, Stamp, Ts, LoggedAt

\* The invariant holds initially.
LEMMA InitIInv == Init => IInv
<1> SUFFICES ASSUME Init PROVE IInv
  OBVIOUS
<1>1. \A a \in Int : LoggedIn(a, Window - MaxDelay) = {}
  BY DEF Init, LoggedIn
<1>2. TypeOK
  BY FS_EmptySet, MovingWindowAssumption DEF Init, TypeOK, NoAnswer
<1> QED
  BY <1>1, <1>2, FS_EmptySet, MovingWindowAssumption
  DEF Init, IInv, LogWithinLimit, StampedBeforeLogged, LogKeepsTheWindow, SerialNumbers,
      IntervalsBounded

\* An admitted call makes one entry for each unit of its cost, all new.
LEMMA NewType ==
  ASSUME IInv, NEW s \in Stamps, NEW cost \in Nat
  PROVE  /\ IsFiniteSet(New(s, cost))
         /\ Cardinality(New(s, cost)) = cost
         /\ New(s, cost) \cap granted = {}
         /\ \A e \in New(s, cost) : /\ e \in Nat \X Nat \X Nat
                                    /\ Stamp(e) = s /\ LoggedAt(e) = clock
                                    /\ e[2] <= Cardinality(granted) + cost
<1> DEFINE n == Cardinality(granted)
           f == [i \in 1..cost |-> <<s, n + i, clock>>]
<1>1. n \in Nat /\ clock \in Nat /\ s \in Nat
  BY FS_CardinalityType, MovingWindowAssumption DEF IInv, TypeOK, Stamps
<1> HIDE DEF n
<1>2. New(s, cost) = {<<s, n + i, clock>> : i \in 1..cost}
  BY DEF New, n
<1>3. f \in Surjection(1..cost, New(s, cost))
  BY <1>2 DEF Surjection
<1>4. f \in Injection(1..cost, New(s, cost))
  BY <1>1, <1>2 DEF Injection, IsInjective
<1>5. IsFiniteSet(1..cost) /\ Cardinality(1..cost) = cost
  BY FS_Interval
<1>6. IsFiniteSet(New(s, cost)) /\ Cardinality(New(s, cost)) = cost
  BY <1>3, <1>4, <1>5, FS_Surjection
<1>7. \A e \in New(s, cost) : /\ e \in Nat \X Nat \X Nat
                              /\ Stamp(e) = s /\ LoggedAt(e) = clock
                              /\ e[2] <= n + cost /\ e[2] > n
  BY <1>1, <1>2 DEF Stamp, Ts, LoggedAt
<1>8. \A g \in granted : g[2] <= n /\ g[2] \in Nat
  BY EntryType DEF IInv, SerialNumbers, n
<1>9. New(s, cost) \cap granted = {}
  BY <1>1, <1>7, <1>8
<1> QED  BY <1>6, <1>7, <1>9 DEF n

\* Cutting the log at the stamp of a call that takes effect now loses nothing
\* of the last window.
LEMMA CutKeepsTheWindow ==
  ASSUME IInv, NEW s \in Stamps
  PROVE  /\ InWindow(log, s, Window) \subseteq granted
         /\ IsFiniteSet(InWindow(log, s, Window))
         /\ Cardinality(InWindow(log, s, Window)) <= Limit
         /\ \A g \in granted : Stamp(g) > clock - Window => g \in InWindow(log, s, Window)
<1>1. InWindow(log, s, Window) \subseteq granted /\ IsFiniteSet(InWindow(log, s, Window))
  BY FS_Subset DEF InWindow, IInv, TypeOK
<1>2. s \in Nat /\ s <= clock /\ clock \in Nat
  BY MovingWindowAssumption DEF Stamps, IInv, TypeOK
<1>3. ASSUME NEW g \in granted, Stamp(g) > clock - Window
      PROVE  g \in InWindow(log, s, Window)
  <2>1. g \in log
    BY <1>3 DEF IInv, LogKeepsTheWindow
  <2>2. Stamp(g) \in Nat /\ Ts(g) = Stamp(g)
    BY EntryType DEF Stamp
  <2> QED  BY <1>2, <1>3, <2>1, <2>2, WindowType DEF InWindow
<1>4. Cardinality(InWindow(log, s, Window)) <= Limit
  <2>1. InWindow(log, s, Window) \subseteq log /\ IsFiniteSet(log)
    BY FS_Subset DEF InWindow, IInv, TypeOK
  <2>2. /\ Cardinality(InWindow(log, s, Window)) <= Cardinality(log)
        /\ Cardinality(InWindow(log, s, Window)) \in Nat /\ Cardinality(log) \in Nat
    BY <2>1, FS_Subset, FS_CardinalityType
  <2> QED  BY <2>2, MovingWindowAssumption DEF IInv, LogWithinLimit
<1> QED  BY <1>1, <1>3, <1>4

\* A step that only cuts the log preserves the invariant.
LEMMA CutPreserves ==
  ASSUME IInv, NEW s \in Stamps, log' = InWindow(log, s, Window),
         UNCHANGED <<clock, granted>>, TypeOK'
  PROVE  IInv'
<1>1. LogKeepsTheWindow'
  BY CutKeepsTheWindow DEF LogKeepsTheWindow
<1>2. LogWithinLimit'
  BY CutKeepsTheWindow DEF LogWithinLimit
<1> QED
  BY <1>1, <1>2 DEF IInv, StampedBeforeLogged, SerialNumbers, IntervalsBounded, LoggedIn

\* acquire_entry keeps the invariant: an entry is admitted only beside those
\* the log keeps.
LEMMA AcquirePreserves ==
  ASSUME IInv, NEW t \in Tasks, NEW cost \in Costs, NEW s \in Stamps, Acquire(t, cost, s)
  PROVE  IInv'
<1> DEFINE kept == InWindow(log, s, Window)
           fits == Admits(log, s, Limit, Window, cost)
           new  == IF fits THEN New(s, cost) ELSE {}
           length == Window - MaxDelay
<1> USE MovingWindowAssumption, WindowType
<1>1. /\ log' = kept \cup new
      /\ granted' = granted \cup new
      /\ allowed' = [allowed EXCEPT ![t] = fits]
      /\ pc' = [pc EXCEPT ![t] = "acquired"]
      /\ UNCHANGED <<clock, count, answer>>
  BY DEF Acquire
<1>2. cost \in Nat /\ clock \in Nat /\ s \in Nat /\ s <= clock /\ clock <= s + MaxDelay
  BY DEF IInv, TypeOK, Stamps
<1>3. /\ IsFiniteSet(new)
      /\ new \cap granted = {}
      /\ Cardinality(new) = IF fits THEN cost ELSE 0
      /\ \A e \in new : /\ e \in Nat \X Nat \X Nat
                        /\ Stamp(e) = s /\ LoggedAt(e) = clock
                        /\ e[2] <= Cardinality(granted) + Cardinality(new)
  <2>1. CASE fits
    BY <1>2, <2>1, NewType
  <2>2. CASE ~fits
    BY <2>2, FS_EmptySet
  <2> QED  BY <2>1, <2>2
<1>4. /\ kept \subseteq granted /\ IsFiniteSet(kept) /\ Cardinality(kept) <= Limit
      /\ \A g \in granted : Stamp(g) > clock - Window => g \in kept
  BY CutKeepsTheWindow
<1>5. fits => Cardinality(kept) + cost <= Limit
  BY DEF Admits
<1>6. fits \in BOOLEAN
  BY DEF Admits
<1> HIDE DEF kept, fits, new
<1>7. IsFiniteSet(granted') /\ Cardinality(granted') = Cardinality(granted) + Cardinality(new)
  <2>1. IsFiniteSet(granted) /\ granted \cap new = {}
    BY <1>3 DEF IInv, TypeOK
  <2>2. Cardinality(granted) \in Nat /\ Cardinality(new) \in Nat
    BY <1>3, <2>1, FS_CardinalityType
  <2> QED  BY <1>1, <1>3, <2>1, <2>2, FS_Union, FS_EmptySet
<1>8. TypeOK'
  <2>1. granted' \subseteq Nat \X Nat \X Nat /\ log' \subseteq granted'
    BY <1>1, <1>3, <1>4 DEF IInv, TypeOK
  <2> QED  BY <1>1, <1>6, <1>7, <2>1 DEF IInv, TypeOK
<1>9. StampedBeforeLogged'
  BY <1>1, <1>2, <1>3 DEF IInv, StampedBeforeLogged
<1>10. LogKeepsTheWindow'
  BY <1>1, <1>4 DEF LogKeepsTheWindow
<1>11. SerialNumbers'
  <2>1. ASSUME NEW g \in granted PROVE g[2] <= Cardinality(granted')
    <3>1. g[2] \in Nat /\ g[2] <= Cardinality(granted)
      BY EntryType DEF IInv, SerialNumbers
    <3>2. Cardinality(granted) \in Nat /\ Cardinality(new) \in Nat
      BY <1>3, FS_CardinalityType DEF IInv, TypeOK
    <3> QED  BY <1>7, <3>1, <3>2
  <2> QED  BY <1>1, <1>3, <1>7, <2>1 DEF SerialNumbers
<1>12. ASSUME NEW a \in Int
       PROVE  Cardinality(LoggedIn(a, length)') <= Limit
  <2> DEFINE old == LoggedIn(a, length)
  <2>1. IsFiniteSet(old) /\ old \subseteq granted
    BY FS_Subset DEF LoggedIn, IInv, TypeOK
  <2>2. Cardinality(old) <= Limit
    BY <1>12 DEF IInv, IntervalsBounded
  <2>3. CASE ~fits \/ ~(a < clock /\ clock <= a + length)
    <3>1. LoggedIn(a, length)' = old
      BY <1>1, <1>3, <2>3 DEF LoggedIn, new
    <3> QED  BY <2>2, <3>1
  <2>4. CASE fits /\ a < clock /\ clock <= a + length
    <3>1. LoggedIn(a, length)' \subseteq old \cup new
      BY <1>1, <1>3 DEF LoggedIn
    <3>2. old \subseteq kept
      <4> SUFFICES ASSUME NEW g \in old PROVE g \in kept
        OBVIOUS
      <4>1. /\ g \in granted /\ Stamp(g) \in Nat /\ LoggedAt(g) \in Nat
            /\ a < LoggedAt(g) /\ LoggedAt(g) <= Stamp(g) + MaxDelay
        BY EntryType DEF LoggedIn, IInv, StampedBeforeLogged
      <4>2. Stamp(g) > clock - Window
        BY <1>2, <2>4, <4>1
      <4> QED  BY <1>4, <4>1, <4>2
    <3> HIDE DEF old
    <3>3. /\ IsFiniteSet(old \cup new)
          /\ Cardinality(old \cup new) =
               Cardinality(old) + Cardinality(new) - Cardinality(old \cap new)
      BY <1>3, <2>1, FS_Union
    <3>4. /\ Cardinality(old) <= Cardinality(kept)
          /\ Cardinality(old) \in Nat /\ Cardinality(kept) \in Nat
          /\ Cardinality(old \cap new) \in Nat
      BY <1>4, <2>1, <3>2, FS_Subset, FS_CardinalityType, FS_Intersection
    <3>5. Cardinality(new) = cost
      BY <1>3, <2>4
    <3>6. /\ Cardinality(LoggedIn(a, length)') <= Cardinality(old \cup new)
          /\ Cardinality(LoggedIn(a, length)') \in Nat
      BY <3>1, <3>3, FS_Subset, FS_CardinalityType
    <3> QED  BY <1>2, <1>5, <2>4, <3>3, <3>4, <3>5, <3>6
  <2> QED  BY <2>3, <2>4
<1>13. IntervalsBounded'
  BY <1>12 DEF IntervalsBounded, LoggedIn
<1>14. LogWithinLimit'
  <2>1. Cardinality(kept \cup new) = Cardinality(kept) + Cardinality(new)
    <3>1. IsFiniteSet(kept) /\ IsFiniteSet(new) /\ kept \cap new = {}
      BY <1>3, <1>4
    <3>2. Cardinality(kept) \in Nat /\ Cardinality(new) \in Nat
      BY <1>3, <1>4, FS_CardinalityType
    <3> QED  BY <3>1, <3>2, FS_Union, FS_EmptySet
  <2>2. Cardinality(kept) \in Nat
    BY <1>4, FS_CardinalityType
  <2> QED  BY <1>1, <1>2, <1>3, <1>4, <1>5, <2>1, <2>2 DEF LogWithinLimit
<1> QED  BY <1>8, <1>9, <1>10, <1>11, <1>13, <1>14 DEF IInv

\* get_num_acquired keeps the invariant.
LEMMA CountEntriesPreserves ==
  ASSUME IInv, NEW t \in Tasks, NEW s \in Stamps, CountEntries(t, s)
  PROVE  IInv'
<1>1. /\ log' = InWindow(log, s, Window)
      /\ count' = [count EXCEPT ![t] = Cardinality(log')]
      /\ pc' = [pc EXCEPT ![t] = "counted"]
      /\ UNCHANGED <<clock, allowed, answer, granted>>
  BY DEF CountEntries
<1>2. log' \subseteq granted' /\ Cardinality(log') \in Nat
  BY <1>1, CutKeepsTheWindow, FS_CardinalityType
<1>3. TypeOK'
  BY <1>1, <1>2 DEF IInv, TypeOK
<1> QED  BY <1>1, <1>3, CutPreserves

\* A log that is not empty has an oldest entry: there is a least stamp.
LEMMA OldestType ==
  ASSUME NEW cut, cut # {}, \A e \in cut : Ts(e) \in Nat
  PROVE  /\ Oldest(cut) \in Nat
         /\ \A e \in cut : Oldest(cut) <= Ts(e)
         /\ \E e \in cut : Oldest(cut) = Ts(e)
<1> DEFINE times == {Ts(e) : e \in cut}
<1>1. times \subseteq Nat /\ times # {}
  OBVIOUS
<1>2. \E first \in times : \A ts \in times : first <= ts
  <2> HIDE DEF times
  <2> QED  BY <1>1, HasLeast
<1>3. \E ts \in times : \A e \in cut : ts <= Ts(e)
  BY <1>2
<1>4. Oldest(cut) \in times /\ \A e \in cut : Oldest(cut) <= Ts(e)
  BY <1>3 DEF Oldest
<1> QED  BY <1>4

\* What hit returns about a key has the types of WindowStats.
LEMMA StatsType ==
  ASSUME IInv, NEW fits \in BOOLEAN, NEW number \in Nat, NEW reset_at \in Nat
  PROVE  Stats(fits, number, reset_at) \in
           [remaining : 0..Limit, reset_at : Nat, retry_after : Nat]
<1> DEFINE left == IF number < Limit THEN Limit - number ELSE 0
           wait == IF left = 0 THEN CeilToSeconds(reset_at - clock) ELSE 0
<1> USE MovingWindowAssumption
<1>1. left \in 0..Limit
  OBVIOUS
<1>2. CeilToSeconds(reset_at - clock) \in Nat
  <2>1. reset_at - clock \in Int
    BY DEF IInv, TypeOK
  <2>2. ASSUME NEW ticks \in Nat PROVE ticks \div TicksPerSecond \in Nat
    OBVIOUS
  <2>3. CASE reset_at - clock <= 0
    BY <2>3 DEF CeilToSeconds
  <2>4. CASE ~(reset_at - clock <= 0)
    <3>1. reset_at - clock + TicksPerSecond - 1 \in Nat
      BY <2>1, <2>4
    <3>2. (reset_at - clock + TicksPerSecond - 1) \div TicksPerSecond \in Nat
      BY <2>2, <3>1
    <3> QED  BY <2>4, <3>2 DEF CeilToSeconds
  <2> QED  BY <2>3, <2>4
<1>3. wait \in Nat
  BY <1>2
<1>4. /\ (IF fits THEN left ELSE 0) \in 0..Limit
      /\ (IF ~fits /\ wait = 0 THEN 1 ELSE wait) \in Nat
  BY <1>1, <1>3
<1> HIDE DEF wait, left
<1> QED  BY <1>4 DEF Stats, left, wait

\* get_oldest_entry and the answer keep the invariant.
LEMMA RespondPreserves ==
  ASSUME IInv, NEW t \in Tasks, NEW s \in Stamps, Respond(t, s)
  PROVE  IInv'
<1> DEFINE given == Stats(allowed[t], count[t], ResetAt(log'))
<1>1. /\ log' = InWindow(log, s, Window)
      /\ answer' = [answer EXCEPT ![t] = given]
      /\ pc' = [pc EXCEPT ![t] = "done"]
      /\ UNCHANGED <<clock, allowed, count, granted>>
  BY DEF Respond
<1>2. log' \subseteq granted
  BY <1>1, CutKeepsTheWindow
<1>3. ResetAt(log') \in Nat
  <2>1. clock \in Nat
    BY MovingWindowAssumption DEF IInv, TypeOK
  <2>2. ASSUME log' # {} PROVE Oldest(log') \in Nat
    <3>1. \A e \in log' : Ts(e) \in Nat
      BY <1>2, EntryType DEF Stamp
    <3> QED  BY <2>2, <3>1, OldestType
  <2> QED  BY <2>1, <2>2, WindowType DEF ResetAt
<1>4. given \in [remaining : 0..Limit, reset_at : Nat, retry_after : Nat]
  BY <1>3, StatsType DEF IInv, TypeOK
<1> HIDE DEF given
<1>5. TypeOK'
  BY <1>1, <1>2, <1>4 DEF IInv, TypeOK
<1> QED  BY <1>1, <1>5, CutPreserves

\* peek keeps the invariant.
LEMMA PeekPreserves ==
  ASSUME IInv, NEW s \in Stamps, Peek(s)
  PROVE  IInv'
<1>1. /\ log' = InWindow(log, s, Window)
      /\ UNCHANGED <<clock, pc, allowed, count, answer, granted>>
  BY DEF Peek
<1>2. TypeOK'
  BY <1>1, CutKeepsTheWindow DEF IInv, TypeOK
<1> QED  BY <1>1, <1>2, CutPreserves

\* Time passing only moves the last window on.
LEMMA TickPreserves ==
  ASSUME IInv, Tick
  PROVE  IInv'
<1>1. /\ clock' = clock + 1 /\ clock' \in 0..MaxClock /\ clock \in Nat
      /\ UNCHANGED <<log, pc, allowed, count, answer, granted>>
  BY MovingWindowAssumption DEF Tick, IInv, TypeOK
<1>2. TypeOK'
  BY <1>1 DEF IInv, TypeOK
<1>3. StampedBeforeLogged' /\ LogKeepsTheWindow'
  <2>1. ASSUME NEW g \in granted
        PROVE  /\ LoggedAt(g) <= clock'
               /\ Stamp(g) > clock' - Window => g \in log
    <3>1. /\ Stamp(g) \in Nat /\ LoggedAt(g) \in Nat
          /\ LoggedAt(g) <= clock
          /\ Stamp(g) > clock - Window => g \in log
      BY EntryType DEF IInv, StampedBeforeLogged, LogKeepsTheWindow
    <3> QED  BY <1>1, <3>1, WindowType
  <2> QED  BY <1>1, <2>1 DEF IInv, StampedBeforeLogged, LogKeepsTheWindow
<1> QED
  BY <1>1, <1>2, <1>3 DEF IInv, LogWithinLimit, SerialNumbers, IntervalsBounded, LoggedIn

\* Every step preserves the invariant.
LEMMA NextIInv == IInv /\ [Next]_vars => IInv'
<1> SUFFICES ASSUME IInv, [Next]_vars PROVE IInv'
  OBVIOUS
<1>1. ASSUME NEW s \in Stamps, NEW t \in Tasks, NEW cost \in Costs, Acquire(t, cost, s)
      PROVE  IInv'
  BY <1>1, AcquirePreserves
<1>2. ASSUME NEW s \in Stamps, NEW t \in Tasks, CountEntries(t, s) PROVE IInv'
  BY <1>2, CountEntriesPreserves
<1>3. ASSUME NEW s \in Stamps, NEW t \in Tasks, Respond(t, s) PROVE IInv'
  BY <1>3, RespondPreserves
<1>4. ASSUME NEW s \in Stamps, Peek(s) PROVE IInv'
  BY <1>4, PeekPreserves
<1>5. CASE Tick
  BY <1>5, TickPreserves
<1>6. CASE UNCHANGED vars
  BY <1>6 DEF vars, IInv, TypeOK, LogWithinLimit, StampedBeforeLogged, LogKeepsTheWindow,
              SerialNumbers, IntervalsBounded, LoggedIn
<1> QED  BY <1>1, <1>2, <1>3, <1>4, <1>5, <1>6 DEF Next

-----------------------------------------------------------------------------
(* What an answer promises.                                                *)

\* Whole seconds are waited for at least the ticks they stand for.
LEMMA CeilCovers ==
  ASSUME NEW ticks \in Int
  PROVE  /\ CeilToSeconds(ticks) \in Nat
         /\ CeilToSeconds(ticks) * TicksPerSecond >= ticks
         /\ ticks > 0 => CeilToSeconds(ticks) > 0
<1> DEFINE d == TicksPerSecond
           q == (ticks + d - 1) \div d
           r == (ticks + d - 1) % d
<1> USE MovingWindowAssumption
<1>1. CASE ticks <= 0
  BY <1>1 DEF CeilToSeconds
<1>2. CASE ticks > 0
  <2>1. /\ q \in Int /\ ticks + d - 1 = d * q + r /\ r \in 0..(d - 1)
    BY <1>2
  <2>2. CeilToSeconds(ticks) = q
    BY <1>2 DEF CeilToSeconds
  <2> HIDE DEF q, r
  <2>3. d * q \in Int /\ d * q >= ticks
    BY <2>1
  <2>4. q > 0
    <3> SUFFICES ASSUME q <= 0 PROVE FALSE
      BY <2>1
    <3>1. d * q <= 0
      BY <2>1
    <3> QED  BY <1>2, <2>3, <3>1
  <2>5. d * q = q * d
    BY <2>1
  <2> QED  BY <2>1, <2>2, <2>3, <2>4, <2>5
<1> QED  BY <1>1, <1>2

\* Until its oldest entry leaves, a log stays as it is; from then on it is
\* shorter.
LEMMA OldestDecides ==
  ASSUME NEW cut, cut # {}, IsFiniteSet(cut), \A e \in cut : Ts(e) \in Nat, NEW T \in Int
  PROVE  /\ T < Oldest(cut) + Window => InWindow(cut, T, Window) = cut
         /\ T >= Oldest(cut) + Window =>
              Cardinality(InWindow(cut, T, Window)) < Cardinality(cut)
<1> USE WindowType
<1>1. /\ Oldest(cut) \in Nat
      /\ \A e \in cut : Oldest(cut) <= Ts(e)
      /\ \E e \in cut : Oldest(cut) = Ts(e)
  BY OldestType
<1>2. ASSUME T < Oldest(cut) + Window PROVE InWindow(cut, T, Window) = cut
  BY <1>1, <1>2 DEF InWindow
<1>3. ASSUME T >= Oldest(cut) + Window
      PROVE  Cardinality(InWindow(cut, T, Window)) < Cardinality(cut)
  <2>1. InWindow(cut, T, Window) \subseteq cut /\ InWindow(cut, T, Window) # cut
    BY <1>1, <1>3 DEF InWindow
  <2>2. /\ Cardinality(InWindow(cut, T, Window)) \in Nat /\ Cardinality(cut) \in Nat
        /\ Cardinality(InWindow(cut, T, Window)) <= Cardinality(cut)
        /\ Cardinality(InWindow(cut, T, Window)) # Cardinality(cut)
    BY <2>1, FS_Subset, FS_CardinalityType
  <2> QED  BY <2>2
<1> QED  BY <1>2, <1>3

\* What the property says of the answer to a task.
RightAnswer(t) ==
  /\ \A T \in clock..(answer'[t].reset_at - 1) : InWindow(log', T, Window) = log'
  /\ count[t] >= Limit =>
       LET back == clock + answer'[t].retry_after * TicksPerSecond
       IN  Cardinality(InWindow(log', back, Window)) < Limit

\* Nothing leaves the log before reset_at, and at reset_at its oldest entry
\* does.
LEMMA ResetAtIsRight ==
  ASSUME NEW cut, IsFiniteSet(cut), Cardinality(cut) <= Limit,
         \A e \in cut : Ts(e) \in Nat, clock \in Nat
  PROVE  /\ ResetAt(cut) \in Nat
         /\ \A T \in clock..(ResetAt(cut) - 1) : InWindow(cut, T, Window) = cut
         /\ \A T \in Nat : T >= ResetAt(cut) => Cardinality(InWindow(cut, T, Window)) < Limit
<1> USE WindowType
<1>1. CASE cut = {}
  <2>1. \A T : InWindow(cut, T, Window) = {}
    BY <1>1 DEF InWindow
  <2> QED  BY <1>1, <2>1, FS_EmptySet, MovingWindowAssumption DEF ResetAt
<1>2. CASE cut # {}
  <2>1. ResetAt(cut) = Oldest(cut) + Window /\ Oldest(cut) \in Nat
    BY <1>2, OldestType DEF ResetAt
  <2>2. \A T \in Int : /\ T < ResetAt(cut) => InWindow(cut, T, Window) = cut
                       /\ T >= ResetAt(cut) =>
                            Cardinality(InWindow(cut, T, Window)) < Cardinality(cut)
    BY <1>2, <2>1, OldestDecides
  <2>3. /\ Cardinality(cut) \in Nat
        /\ \A T \in Int : Cardinality(InWindow(cut, T, Window)) \in Nat
    BY FS_CardinalityType, InWindowFinite
  <2> QED  BY <2>1, <2>2, <2>3, MovingWindowAssumption
<1> QED  BY <1>1, <1>2

\* The answer a task gets is right for the log it was made from.
LEMMA RespondIsRight ==
  ASSUME IInv, NEW t \in Tasks, NEW s \in Stamps, Respond(t, s)
  PROVE  RightAnswer(t)
<1> DEFINE reset == ResetAt(log')
           given == Stats(allowed[t], count[t], reset)
           back  == clock + given.retry_after * TicksPerSecond
<1> USE MovingWindowAssumption
<1>1. log' = InWindow(log, s, Window) /\ answer' = [answer EXCEPT ![t] = given]
  BY DEF Respond
<1>2. answer'[t] = given
  BY <1>1 DEF IInv, TypeOK
<1>3. /\ IsFiniteSet(log') /\ Cardinality(log') <= Limit /\ clock \in Nat
      /\ \A e \in log' : Ts(e) \in Nat
  <2>1. log' \subseteq granted /\ IsFiniteSet(log') /\ Cardinality(log') <= Limit
    BY <1>1, CutKeepsTheWindow
  <2> QED  BY <2>1, EntryType DEF Stamp, IInv, TypeOK
<1>4. /\ reset \in Nat
      /\ \A T \in clock..(reset - 1) : InWindow(log', T, Window) = log'
      /\ \A T \in Nat : T >= reset => Cardinality(InWindow(log', T, Window)) < Limit
  BY <1>3, ResetAtIsRight
<1> HIDE DEF reset
<1>5. given.reset_at = reset
  BY DEF Stats
<1>6. ASSUME count[t] >= Limit PROVE Cardinality(InWindow(log', back, Window)) < Limit
  <2> DEFINE wait == CeilToSeconds(reset - clock)
  <2>1. count[t] \in Nat
    BY DEF IInv, TypeOK
  <2>2. given.retry_after = IF ~allowed[t] /\ wait = 0 THEN 1 ELSE wait
    BY <1>6, <2>1 DEF Stats
  <2>3. /\ wait \in Nat /\ wait * TicksPerSecond >= reset - clock
        /\ reset - clock > 0 => wait > 0
    BY <1>3, <1>4, CeilCovers
  <2> HIDE DEF wait, given
  <2>4. CASE given.retry_after = wait
    <3>1. wait * TicksPerSecond \in Nat
      BY <2>3
    <3>2. back \in Nat /\ back >= reset
      BY <1>3, <1>4, <2>3, <2>4, <3>1
    <3> QED  BY <1>4, <3>2
  <2>5. CASE given.retry_after = 1 /\ wait = 0
    <3>1. back \in Nat /\ back >= reset
      BY <1>3, <1>4, <2>3, <2>5
    <3> QED  BY <1>4, <3>1
  <2> QED  BY <2>2, <2>4, <2>5
<1> HIDE DEF given
<1> QED  BY <1>2, <1>4, <1>5, <1>6 DEF RightAnswer

-----------------------------------------------------------------------------
(* The theorems.                                                           *)

\* Every reachable state has the types of TypeOK: in particular the log holds
\* nothing that was not admitted.
THEOREM TypeCorrect == Spec => []TypeOK
<1>1. IInv => TypeOK
  BY DEF IInv
<1> QED  BY InitIInv, NextIInv, <1>1, PTL DEF Spec

\* The strategy's promise, with the proviso the delay of the calls puts on it:
\* no interval shorter than the window by that delay sees more than the limit
\* admitted, however the calls of the requests interleave.
THEOREM NeverMoreThanLimit == Spec => []AtMostLimitInAnyWindow
<1>1. IInv => AtMostLimitInAnyWindow
  BY MovingWindowAssumption DEF IInv, IntervalsBounded, AtMostLimitInAnyWindow
<1> QED  BY InitIInv, NextIInv, <1>1, PTL DEF Spec

\* The promise as the docstring makes it, for a storage that reads the clock
\* when the call takes effect: MemoryStorage and SQLiteStorage.
THEOREM ExactWithoutDelay ==
  ASSUME MaxDelay = 0
  PROVE  Spec => []NeverMoreThanLimitInAnyWindow
<1>1. Window - MaxDelay = Window
  BY WindowType
<1>2. IInv => NeverMoreThanLimitInAnyWindow
  BY <1>1, MovingWindowAssumption DEF IInv, IntervalsBounded, NeverMoreThanLimitInAnyWindow
<1> QED  BY InitIInv, NextIInv, <1>2, PTL DEF Spec

\* The reset time and the waiting time of every answer are right for the log
\* the answer was made from, whatever other requests did between its reads: no
\* entry leaves before reset_at, and a request that found the limit reached
\* has room for a unit when it comes back as told.
THEOREM AnswersAreRight == Spec => AnswersWithTheNextFreeSlot
<1> DEFINE Step == \A t \in Tasks : pc[t] = "counted" /\ pc'[t] = "done" => RightAnswer(t)
<1>1. IInv /\ [Next]_vars => [Step]_vars
  <2> SUFFICES ASSUME IInv, Next, NEW u \in Tasks, pc[u] = "counted", pc'[u] = "done"
               PROVE  RightAnswer(u)
    OBVIOUS
  <2>1. pc \in [Tasks -> {"idle", "acquired", "counted", "done"}]
    BY DEF IInv, TypeOK
  <2>2. ASSUME NEW s \in Stamps, NEW t \in Tasks, NEW cost \in Costs, Acquire(t, cost, s)
        PROVE  FALSE
    BY <2>1, <2>2 DEF Acquire
  <2>3. ASSUME NEW s \in Stamps, NEW t \in Tasks, CountEntries(t, s) PROVE FALSE
    BY <2>1, <2>3 DEF CountEntries
  <2>4. ASSUME NEW s \in Stamps, NEW t \in Tasks, Respond(t, s) PROVE RightAnswer(u)
    <3>1. t = u
      BY <2>1, <2>4 DEF Respond
    <3> QED  BY <2>4, <3>1, RespondIsRight
  <2>5. ASSUME NEW s \in Stamps, Peek(s) PROVE FALSE
    BY <2>5 DEF Peek
  <2>6. CASE Tick
    BY <2>6 DEF Tick
  <2> QED  BY <2>2, <2>3, <2>4, <2>5, <2>6 DEF Next
<1> QED
  BY InitIInv, NextIInv, <1>1, PTL DEF Spec, AnswersWithTheNextFreeSlot, RightAnswer
=============================================================================
