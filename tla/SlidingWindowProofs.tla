------------------------ MODULE SlidingWindowProofs -------------------------
(***************************************************************************)
(* Proofs about SlidingWindow.                                             *)
(*                                                                         *)
(* That counts are kept needs two facts about the storage and the samples  *)
(* (CountersAreWhole, SamplesArePast).  The bound of the overshoot needs   *)
(* an account of the future: every task that has read the counter of a     *)
(* window, and was not ruled out by what it read, may still add MaxCost to *)
(* it whatever the others do meanwhile.  WindowsBounded and BlendBounded   *)
(* keep that much in reserve for each of them, from the moment the first   *)
(* one reads a count that leaves room; an admission then spends a reserve  *)
(* that was there (ReserveSpent), and everything else can only shrink what *)
(* has to be reserved (ReserveShrinks).                                    *)
(***************************************************************************)
EXTENDS SlidingWindow, StoreLemmas

\* A rate of at least a second has a window of at least a tick.
LEMMA WindowType == Window \in Nat \ {0}
BY SlidingWindowAssumption DEF Window

-----------------------------------------------------------------------------
(* Arithmetic.                                                             *)

\* A product of natural numbers is one.
LEMMA ProductType ==
  ASSUME NEW a \in Nat, NEW b \in Nat
  PROVE  a * b \in Nat
OBVIOUS

\* Multiplication keeps the order.
LEMMA ProductOrder ==
  ASSUME NEW a \in Int, NEW b \in Int, NEW c \in Nat, a <= b
  PROVE  a * c <= b * c
<1>1. (b - a) * c >= 0
  OBVIOUS
<1>2. (b - a) * c = b * c - a * c
  OBVIOUS
<1> QED  BY <1>1, <1>2

\* A positive factor cancels.
LEMMA ProductCancels ==
  ASSUME NEW a \in Int, NEW b \in Int, NEW c \in Nat \ {0}, a * c <= b * c
  PROVE  a <= b
<1> SUFFICES ASSUME a >= b + 1 PROVE FALSE
  OBVIOUS
<1>1. (b + 1) * c <= a * c
  BY ProductOrder
<1>2. (b + 1) * c = b * c + c
  OBVIOUS
<1> QED  BY <1>1, <1>2

\* Division with remainder.
LEMMA Division ==
  ASSUME NEW c \in Nat, NEW w \in Nat \ {0}
  PROVE  /\ c \div w \in Nat
         /\ c % w \in 0..(w - 1)
         /\ c = (c \div w) * w + (c % w)
OBVIOUS

\* Quotient and remainder are unique.
LEMMA DivisionUnique ==
  ASSUME NEW c \in Nat, NEW w \in Nat \ {0}, NEW q \in Nat, NEW r \in 0..(w - 1),
         c = q * w + r
  PROVE  c \div w = q /\ c % w = r
<1>1. c \div w \in Nat /\ c % w \in 0..(w - 1) /\ c = (c \div w) * w + (c % w)
  BY Division
<1>2. CASE c \div w <= q - 1
  <2>1. (c \div w) * w <= (q - 1) * w
    BY <1>1, <1>2, ProductOrder
  <2>2. (q - 1) * w = q * w - w
    OBVIOUS
  <2> QED  BY <1>1, <2>1, <2>2, ProductType
<1>3. CASE c \div w >= q + 1
  <2>1. (q + 1) * w <= (c \div w) * w
    BY <1>1, <1>3, ProductOrder
  <2>2. (q + 1) * w = q * w + w
    OBVIOUS
  <2> QED  BY <1>1, <2>1, <2>2, ProductType
<1> QED  BY <1>1, <1>2, <1>3

\* Division keeps the order.
LEMMA DivisionOrder ==
  ASSUME NEW a \in Nat, NEW b \in Nat, NEW w \in Nat \ {0}, a <= b
  PROVE  a \div w <= b \div w
<1>1. /\ a \div w \in Nat /\ a % w \in 0..(w - 1) /\ a = (a \div w) * w + (a % w)
      /\ b \div w \in Nat /\ b % w \in 0..(w - 1) /\ b = (b \div w) * w + (b % w)
  BY Division
<1> SUFFICES ASSUME a \div w >= b \div w + 1 PROVE FALSE
  BY <1>1
<1>2. (b \div w + 1) * w <= (a \div w) * w
  BY <1>1, ProductOrder
<1>3. (b \div w + 1) * w = (b \div w) * w + w
  BY <1>1
<1> QED  BY <1>1, <1>2, <1>3, ProductType

\* Of a number kept below a bound with a reserve of C for every member of a
\* finite set: it stays so when the set shrinks and the number does not grow.
LEMMA ReserveShrinks ==
  ASSUME NEW S, IsFiniteSet(S), NEW T, T \subseteq S, NEW C \in Nat, NEW w \in Nat,
         NEW a \in Int, NEW b \in Int, NEW B \in Int, b <= a,
         a + (C * Cardinality(S)) * w <= B * w
  PROVE  b + (C * Cardinality(T)) * w <= B * w
<1>1. /\ Cardinality(S) \in Nat /\ Cardinality(T) \in Nat
      /\ Cardinality(T) <= Cardinality(S)
  BY FS_Subset, FS_CardinalityType
<1>2. C * Cardinality(T) <= C * Cardinality(S)
  <2>1. Cardinality(T) * C <= Cardinality(S) * C
    BY <1>1, ProductOrder
  <2> QED  BY <1>1, <2>1
<1>3. C * Cardinality(T) \in Nat /\ C * Cardinality(S) \in Nat
  BY <1>1, ProductType
<1>4. (C * Cardinality(T)) * w <= (C * Cardinality(S)) * w
  BY <1>2, <1>3, ProductOrder
<1>5. (C * Cardinality(T)) * w \in Nat /\ (C * Cardinality(S)) * w \in Nat
  BY <1>3, ProductType
<1> QED  BY <1>4, <1>5

\* And when one member spends at most its reserve.
LEMMA ReserveSpent ==
  ASSUME NEW S, IsFiniteSet(S), NEW x \in S, NEW T, T \subseteq S \ {x},
         NEW C \in Nat, NEW w \in Nat, NEW c \in Nat, c <= C,
         NEW a \in Int, NEW b \in Int, NEW B \in Int, b <= a + c * w,
         a + (C * Cardinality(S)) * w <= B * w
  PROVE  b + (C * Cardinality(T)) * w <= B * w
<1>1. /\ Cardinality(S) \in Nat /\ Cardinality(T) \in Nat
      /\ Cardinality(T) + 1 <= Cardinality(S)
  <2>1. IsFiniteSet(S \ {x}) /\ Cardinality(S \ {x}) = Cardinality(S) - 1
    BY FS_RemoveElement
  <2>2. Cardinality(T) <= Cardinality(S \ {x}) /\ IsFiniteSet(T)
    BY <2>1, FS_Subset
  <2> QED  BY <2>1, <2>2, FS_CardinalityType
<1>2. C * Cardinality(T) + c <= C * Cardinality(S)
  <2>1. (Cardinality(T) + 1) * C <= Cardinality(S) * C
    BY <1>1, ProductOrder
  <2>2. (Cardinality(T) + 1) * C = C * Cardinality(T) + C
    BY <1>1
  <2> QED  BY <1>1, <2>1, <2>2, ProductType
<1>3. C * Cardinality(T) \in Nat /\ C * Cardinality(S) \in Nat
  BY <1>1, ProductType
<1>4. (C * Cardinality(T) + c) * w <= (C * Cardinality(S)) * w
  BY <1>2, <1>3, ProductOrder
<1>5. (C * Cardinality(T) + c) * w = (C * Cardinality(T)) * w + c * w
  BY <1>3
<1>6. /\ (C * Cardinality(T)) * w \in Nat /\ (C * Cardinality(S)) * w \in Nat
      /\ c * w \in Nat
  BY <1>3, ProductType
<1> QED  BY <1>4, <1>5, <1>6

\* A weighted count grows with its counts and falls with the time elapsed.
LEMMA BlendOrder ==
  ASSUME NEW p \in Nat, NEW q \in Nat, p <= q, NEW c \in Nat, NEW d \in Nat, c <= d,
         NEW e \in 0..(Window - 1), NEW f \in 0..(Window - 1), f <= e
  PROVE  /\ Blend(p, e, c) \in Nat /\ Blend(q, f, d) \in Nat
         /\ Blend(p, e, c) <= Blend(q, f, d)
         /\ c * Window <= Blend(p, e, c)
<1>1. Window \in Nat \ {0}
  BY WindowType
<1>2. p * (Window - e) <= q * (Window - e)
  BY <1>1, ProductOrder
<1>3. q * (Window - e) <= q * (Window - f)
  <2>1. (Window - e) * q <= (Window - f) * q
    BY <1>1, ProductOrder
  <2> QED  BY <1>1, <2>1
<1>4. c * Window <= d * Window
  BY <1>1, ProductOrder
<1>5. /\ p * (Window - e) \in Nat /\ q * (Window - e) \in Nat /\ q * (Window - f) \in Nat
      /\ c * Window \in Nat /\ d * Window \in Nat
  BY <1>1, ProductType
<1> QED  BY <1>2, <1>3, <1>4, <1>5 DEF Blend

\* What c more units add to it.
LEMMA BlendGrowth ==
  ASSUME NEW p \in Nat, NEW c \in Nat, NEW n \in Nat, NEW e \in 0..(Window - 1)
  PROVE  /\ Blend(p, e, n + c) = Blend(p, e, n) + c * Window
         /\ Blend(p + c, e, n) <= Blend(p, e, n) + c * Window
<1>1. Window \in Nat \ {0}
  BY WindowType
<1>2. (n + c) * Window = n * Window + c * Window
  BY <1>1
<1>3. (p + c) * (Window - e) = p * (Window - e) + c * (Window - e)
  BY <1>1
<1>4. c * (Window - e) <= c * Window
  <2>1. (Window - e) * c <= Window * c
    BY <1>1, ProductOrder
  <2> QED  BY <1>1, <2>1
<1>5. /\ p * (Window - e) \in Nat /\ c * (Window - e) \in Nat
      /\ c * Window \in Nat /\ n * Window \in Nat
  BY <1>1, ProductType
<1> QED  BY <1>2, <1>3, <1>4, <1>5 DEF Blend

-----------------------------------------------------------------------------
(* The inductive invariant.                                                *)

CurrentIndex == clock \div Window
Elapsed == clock % Window

\* What may be admitted in a window, and what it may weigh.
Bound == Limit - 1 + MaxCost * Cardinality(Tasks)

\* What was admitted in window i, which may be the one before the first.
Given(i) == IF i \in Indices THEN granted[i] ELSE 0

SamplesArePast ==
  \A t \in Tasks :
    pc[t] # "idle" => /\ hit[t].index * Window + hit[t].elapsed <= clock
                      /\ hit[t].cost >= 1

CountersAreWhole ==
  \A i \in Indices :
    clock < (i + 2) * Window =>
      \/ i \notin DOMAIN counters /\ granted[i] = 0
      \/ /\ i \in DOMAIN counters
         /\ counters[i].value = granted[i]
         /\ counters[i].reset_at >= (i + 2) * Window

NothingAhead ==
  \A i \in Indices : clock < i * Window => granted[i] = 0

\* The tasks between the first read of a window's counter and their verdict,
\* unless what they read rules them out.
Readers(i) ==
  {t \in Tasks : /\ pc[t] \in {"current", "previous"}
                 /\ hit[t].index = i
                 /\ hit[t].current + hit[t].cost <= Limit}

\* While its counter is read at all, a window holds a reserve for every reader.
WindowsBounded ==
  \A i \in Indices :
    clock < (i + 2) * Window =>
      /\ granted[i] <= Bound
      /\ Readers(i) # {} => granted[i] + MaxCost * Cardinality(Readers(i)) <= Bound

\* The previous count that a task has read, or would read now.
Seen(t) == IF pc[t] = "previous" THEN hit[t].previous ELSE Given(hit[t].index - 1)

MayFit(t) ==
  Blend(Seen(t), hit[t].elapsed, hit[t].current) + hit[t].cost * Window <= Limit * Window

\* The tasks that may still add to the window under way, and to the one before.
Hopefuls ==
  {t \in Tasks : /\ pc[t] \in {"current", "previous"}
                 /\ hit[t].index = CurrentIndex
                 /\ MayFit(t)}
Latecomers == {t \in Tasks : pc[t] # "idle" /\ hit[t].index = CurrentIndex - 1}

\* From the first read that can lead to an admission on, the weighted count
\* holds a reserve for every task that may still add to it.
BlendBounded ==
  \/ granted[CurrentIndex] = 0 /\ Hopefuls = {}
  \/ Blend(Given(CurrentIndex - 1), Elapsed, granted[CurrentIndex])
        + (MaxCost * Cardinality(Hopefuls \cup Latecomers)) * Window <= Bound * Window

IInv ==
  /\ TypeOK
  /\ SamplesArePast
  /\ CountersAreWhole
  /\ NothingAhead
  /\ WindowsBounded
  /\ BlendBounded

-----------------------------------------------------------------------------

\* The bound is a natural number.
LEMMA BoundType ==
  Bound \in Nat /\ Limit - 1 <= Bound /\ Cardinality(Tasks) \in Nat
<1>1. Cardinality(Tasks) \in Nat
  BY FS_CardinalityType, SlidingWindowAssumption
<1>2. MaxCost * Cardinality(Tasks) \in Nat
  BY <1>1, ProductType, SlidingWindowAssumption
<1> QED  BY <1>1, <1>2, SlidingWindowAssumption DEF Bound

\* Where the clock stands.
LEMMA Current ==
  ASSUME TypeOK
  PROVE  /\ CurrentIndex \in Indices /\ CurrentIndex \in Nat
         /\ Elapsed \in 0..(Window - 1)
         /\ clock = CurrentIndex * Window + Elapsed
         /\ CurrentIndex * Window \in Nat
         /\ clock < (CurrentIndex + 1) * Window
         /\ clock < (CurrentIndex + 2) * Window
<1>1. clock \in Nat /\ clock <= MaxClock /\ MaxClock \in Nat
  BY SlidingWindowAssumption DEF TypeOK
<1>2. /\ CurrentIndex \in Nat /\ Elapsed \in 0..(Window - 1)
      /\ clock = CurrentIndex * Window + Elapsed
  BY <1>1, Division, WindowType DEF CurrentIndex, Elapsed
<1>3. CurrentIndex \in Indices
  <2>1. CurrentIndex <= MaxClock \div Window
    BY <1>1, DivisionOrder, WindowType DEF CurrentIndex
  <2>2. MaxClock \div Window \in Nat
    BY <1>1, Division, WindowType
  <2> QED  BY <1>2, <2>1, <2>2 DEF Indices
<1>4. /\ (CurrentIndex + 1) * Window = CurrentIndex * Window + Window
      /\ (CurrentIndex + 2) * Window = CurrentIndex * Window + 2 * Window
  BY <1>2, WindowType
<1> QED  BY <1>2, <1>3, <1>4, WindowType, ProductType

\* A time that has come belongs to the window under way or to one before.
LEMMA Behind ==
  ASSUME TypeOK, NEW i \in Nat, NEW e \in Nat, i * Window + e <= clock
  PROVE  /\ i <= CurrentIndex
         /\ i = CurrentIndex => e <= Elapsed
<1>1. i <= CurrentIndex
  <2> SUFFICES ASSUME i >= CurrentIndex + 1 PROVE FALSE
    BY Current
  <2>1. (CurrentIndex + 1) * Window <= i * Window
    BY Current, ProductOrder, WindowType
  <2>2. i * Window \in Nat /\ (CurrentIndex + 1) * Window \in Nat
    BY Current, ProductType, WindowType
  <2> QED  BY <2>1, <2>2, Current
<1> QED  BY <1>1, Current

\* The indices of windows are natural numbers.
LEMMA IndicesType == Indices \subseteq Nat
BY DEF Indices

\* What a get returns, of a window whose counter can still be read.
LEMMA ValueIsGiven ==
  ASSUME TypeOK, CountersAreWhole, NEW i \in Int,
         i \in Indices => clock < (i + 2) * Window
  PROVE  /\ Given(i) \in Nat
         /\ Value(counters, i, clock) = Given(i)
<1>1. CASE i \notin Indices
  <2>1. i \notin DOMAIN counters
    BY <1>1, ElementType DEF TypeOK
  <2> QED  BY <1>1, <2>1 DEF Value, Live, Given
<1>2. CASE i \in Indices /\ i \notin DOMAIN counters
  BY <1>2 DEF CountersAreWhole, Value, Live, Given, TypeOK
<1>3. CASE i \in Indices /\ i \in DOMAIN counters
  <2>1. /\ counters[i].value = granted[i]
        /\ counters[i].reset_at >= (i + 2) * Window
    BY <1>3 DEF CountersAreWhole
  <2>2. counters[i].reset_at \in Nat /\ clock \in Nat
    <3>1. IsDict(counters, Indices, CounterEntry)
      BY DEF TypeOK
    <3>2. counters[i] \in CounterEntry
      BY <1>3, <3>1, ElementType
    <3> QED  BY <3>2, SlidingWindowAssumption DEF CounterEntry, TypeOK
  <2>3. (i + 2) * Window \in Int
    BY WindowType
  <2>4. counters[i].reset_at > clock
    BY <1>3, <2>1, <2>2, <2>3
  <2> QED  BY <1>3, <2>1, <2>4 DEF Value, Live, Given, TypeOK
<1> QED  BY <1>1, <1>2, <1>3

\* The counters of the window under way and of the one before can be read.
LEMMA Readable ==
  ASSUME TypeOK
  PROVE  /\ clock < (CurrentIndex + 2) * Window
         /\ clock < ((CurrentIndex - 1) + 2) * Window
<1>1. (CurrentIndex - 1) + 2 = CurrentIndex + 1
  BY Current
<1> QED  BY <1>1, Current

\* What was given in a window is a natural number.
LEMMA GivenType ==
  ASSUME TypeOK, NEW i \in Int
  PROVE  Given(i) \in Nat
BY DEF Given, TypeOK

\* What a task holds during a hit.
LEMMA HitType ==
  ASSUME TypeOK, NEW t \in Tasks
  PROVE  /\ hit[t] \in Sample
         /\ hit[t].index \in Indices /\ hit[t].index \in Nat
         /\ hit[t].elapsed \in 0..(Window - 1)
         /\ hit[t].cost \in 0..MaxCost /\ hit[t].cost \in Nat /\ hit[t].cost <= MaxCost
         /\ hit[t].current \in Nat /\ hit[t].previous \in Nat
<1>1. hit[t] \in Sample
  BY DEF TypeOK
<1>2. /\ hit[t].index \in Indices /\ hit[t].elapsed \in 0..(Window - 1)
      /\ hit[t].cost \in 0..MaxCost
      /\ hit[t].current \in Nat /\ hit[t].previous \in Nat
  BY <1>1 DEF Sample
<1>3. hit[t].index \in Nat
  BY <1>2, IndicesType
<1>4. hit[t].cost \in Nat /\ hit[t].cost <= MaxCost
  BY <1>2, SlidingWindowAssumption
<1> QED  BY <1>1, <1>2, <1>3, <1>4, Zenon

\* What fits has room for its cost beside the current count alone.
LEMMA FitsCurrent ==
  ASSUME NEW p \in Nat, NEW e \in 0..(Window - 1), NEW n \in Nat, NEW c \in Nat,
         Blend(p, e, n) + c * Window <= Limit * Window
  PROVE  n + c <= Limit
<1>1. n * Window <= Blend(p, e, n) /\ Blend(p, e, n) \in Nat
  BY BlendOrder
<1>2. (n + c) * Window = n * Window + c * Window
  BY WindowType
<1>3. /\ n * Window \in Nat /\ c * Window \in Nat /\ Limit * Window \in Nat
      /\ (n + c) * Window \in Nat
  BY ProductType, WindowType, SlidingWindowAssumption
<1>4. (n + c) * Window <= Limit * Window
  BY <1>1, <1>2, <1>3
<1> QED  BY <1>4, ProductCancels, WindowType, SlidingWindowAssumption

\* A set of tasks has a number of members.
LEMMA TasksFinite ==
  ASSUME NEW S \in SUBSET Tasks
  PROVE  IsFiniteSet(S) /\ Cardinality(S) \in Nat /\ Cardinality(S) <= Cardinality(Tasks)
BY FS_Subset, FS_CardinalityType, SlidingWindowAssumption

\* The invariant holds initially.
LEMMA InitIInv == Init => IInv
<1> SUFFICES ASSUME Init PROVE IInv
  OBVIOUS
<1>1. 0 \in Indices
  BY Division, WindowType, SlidingWindowAssumption DEF Indices
<1>2. TypeOK
  <2>1. IsDict(counters, Indices, CounterEntry)
    BY EmptyType DEF Init
  <2>2. NoHit \in Sample
    BY <1>1, WindowType, SlidingWindowAssumption DEF NoHit, Sample
  <2>3. NoAnswer \in Answer
    BY SlidingWindowAssumption DEF NoAnswer, Answer
  <2> QED  BY <2>1, <2>2, <2>3, SlidingWindowAssumption DEF Init, TypeOK
<1>3. \A i \in Indices : granted[i] = 0 /\ i \notin DOMAIN counters
  BY DEF Init, EmptyDict
<1>4. \A t \in Tasks : pc[t] = "idle"
  BY DEF Init
<1>5. WindowsBounded
  <2>1. \A i \in Indices : Readers(i) = {}
    BY <1>4 DEF Readers
  <2> QED  BY <1>3, <2>1, BoundType DEF WindowsBounded
<1>6. BlendBounded
  <2>1. Hopefuls = {}
    BY <1>4 DEF Hopefuls
  <2> QED  BY <1>2, <1>3, <2>1, Current DEF BlendBounded
<1> QED
  BY <1>2, <1>3, <1>4, <1>5, <1>6
  DEF IInv, SamplesArePast, CountersAreWhole, NothingAhead

-----------------------------------------------------------------------------
(* The steps of a hit.                                                     *)

\* A hit that begins has read nothing yet and so counts nowhere.
LEMMA BeginStep ==
  ASSUME IInv, NEW t \in Tasks, NEW cost \in 1..MaxCost, Begin(t, cost)
  PROVE  IInv'
<1> USE DEF IInv
<1>1. /\ pc[t] = "idle" /\ pc' = [pc EXCEPT ![t] = "sampled"]
      /\ hit' = [hit EXCEPT ![t] =
           [index |-> CurrentIndex, elapsed |-> Elapsed, cost |-> cost,
            current |-> 0, previous |-> 0]]
      /\ answer' = [answer EXCEPT ![t] = NoAnswer]
      /\ clock' = clock /\ counters' = counters /\ granted' = granted
  BY DEF Begin, CurrentIndex, Elapsed
<1>2. /\ CurrentIndex \in Indices /\ CurrentIndex \in Nat /\ Elapsed \in 0..(Window - 1)
      /\ clock = CurrentIndex * Window + Elapsed
  BY Current
<1>3. /\ CurrentIndex' = CurrentIndex /\ Elapsed' = Elapsed
      /\ \A i : Given(i)' = Given(i)
  BY <1>1 DEF CurrentIndex, Elapsed, Given
<1>4. TypeOK'
  <2>1. [index |-> CurrentIndex, elapsed |-> Elapsed, cost |-> cost,
         current |-> 0, previous |-> 0] \in Sample
    BY <1>2, SlidingWindowAssumption DEF Sample
  <2>2. NoAnswer \in Answer
    BY SlidingWindowAssumption DEF NoAnswer, Answer
  <2> QED  BY <1>1, <2>1, <2>2 DEF TypeOK
<1>5. /\ pc'[t] = "sampled" /\ hit'[t].index = CurrentIndex
      /\ hit'[t].elapsed = Elapsed /\ hit'[t].cost = cost
      /\ \A u \in Tasks \ {t} : pc'[u] = pc[u] /\ hit'[u] = hit[u]
  BY <1>1 DEF TypeOK
<1>6. SamplesArePast'
  <2>1. cost >= 1 /\ hit'[t].index * Window + hit'[t].elapsed <= clock'
    BY <1>1, <1>2, <1>5, WindowType, ProductType
  <2>2. \A u \in Tasks \ {t} :
          pc'[u] # "idle" => /\ hit'[u].index * Window + hit'[u].elapsed <= clock'
                             /\ hit'[u].cost >= 1
    BY <1>1, <1>5 DEF SamplesArePast
  <2> QED  BY <1>5, <2>1, <2>2 DEF SamplesArePast
<1>7. \A i : Readers(i)' = Readers(i)
  BY <1>1, <1>5 DEF Readers
<1>8. WindowsBounded'
  BY <1>1, <1>7 DEF WindowsBounded
<1>9. Hopefuls' = Hopefuls /\ Latecomers' = Latecomers
  <2>1. \A u \in Tasks \ {t} : MayFit(u)' = MayFit(u)
    BY <1>3, <1>5 DEF MayFit, Seen
  <2>2. t \notin Hopefuls' /\ t \notin Hopefuls /\ t \notin Latecomers
    BY <1>1, <1>5 DEF Hopefuls, Latecomers
  <2>3. t \notin Latecomers'
    BY <1>2, <1>3, <1>5 DEF Latecomers
  <2>4. Hopefuls' = Hopefuls
    BY <1>3, <1>5, <2>1, <2>2 DEF Hopefuls
  <2>5. Latecomers' = Latecomers
    BY <1>3, <1>5, <2>2, <2>3 DEF Latecomers
  <2> QED  BY <2>4, <2>5
<1>10. BlendBounded'
  BY <1>1, <1>3, <1>9 DEF BlendBounded
<1> QED
  BY <1>1, <1>4, <1>6, <1>8, <1>10 DEF CountersAreWhole, NothingAhead

\* A task joins the readers of its window only when the window has room for it,
\* and then the reserve of all tasks is there.
LEMMA ReadCurrentStep ==
  ASSUME IInv, NEW t \in Tasks, ReadCurrent(t)
  PROVE  IInv'
<1> USE DEF IInv
<1> DEFINE i == hit[t].index
<1> DEFINE v == Value(counters, i, clock)
<1>1. /\ pc[t] = "sampled" /\ pc' = [pc EXCEPT ![t] = "current"]
      /\ hit' = [hit EXCEPT ![t].current = v]
      /\ clock' = clock /\ counters' = counters /\ granted' = granted /\ answer' = answer
  BY DEF ReadCurrent
<1>2. /\ i \in Indices /\ i \in Nat /\ hit[t] \in Sample
      /\ hit[t].elapsed \in 0..(Window - 1)
      /\ hit[t].cost \in Nat
  BY HitType
<1>3. /\ CurrentIndex' = CurrentIndex /\ Elapsed' = Elapsed
      /\ \A j : Given(j)' = Given(j)
  BY <1>1 DEF CurrentIndex, Elapsed, Given
<1>4. v \in Nat
  <2>1. IsDict(counters, Indices, CounterEntry) /\ clock \in Nat
    BY SlidingWindowAssumption DEF TypeOK
  <2>2. i \in DOMAIN counters => counters[i] \in CounterEntry
    BY <2>1, ElementType
  <2> QED  BY <2>2 DEF Value, Live, CounterEntry
<1>5. clock < (i + 2) * Window => v = granted[i]
  <2>1. i \in Int /\ Given(i) = granted[i]
    BY <1>2 DEF Given
  <2> QED  BY <2>1, ValueIsGiven
<1>6. /\ pc'[t] = "current" /\ hit'[t] = [hit[t] EXCEPT !.current = v]
      /\ hit'[t] \in Sample
      /\ hit'[t].index = i /\ hit'[t].elapsed = hit[t].elapsed
      /\ hit'[t].cost = hit[t].cost /\ hit'[t].current = v
      /\ \A u \in Tasks \ {t} : pc'[u] = pc[u] /\ hit'[u] = hit[u]
  BY <1>1, <1>2, <1>4 DEF TypeOK, Sample
<1> HIDE DEF v
<1>7. TypeOK'
  BY <1>1, <1>6 DEF TypeOK
<1>8. SamplesArePast'
  BY <1>1, <1>6 DEF SamplesArePast
<1>9. hit[t].cost >= 1 /\ i * Window + hit[t].elapsed <= clock
  BY <1>1 DEF SamplesArePast
<1>10. WindowsBounded'
  <2> SUFFICES ASSUME NEW j \in Indices, clock < (j + 2) * Window
               PROVE  /\ granted[j] <= Bound
                      /\ Readers(j)' # {} =>
                           granted[j] + MaxCost * Cardinality(Readers(j)') <= Bound
    BY <1>1 DEF WindowsBounded
  <2>1. granted[j] <= Bound /\ granted[j] \in Nat
    BY DEF WindowsBounded, TypeOK
  <2>2. CASE t \notin Readers(j)'
    <3>1. Readers(j)' = Readers(j)
      BY <1>1, <1>6, <2>2 DEF Readers
    <3> QED  BY <2>1, <3>1 DEF WindowsBounded
  <2>3. CASE t \in Readers(j)'
    <3>1. j = i /\ v + hit[t].cost <= Limit
      BY <1>6, <2>3 DEF Readers
    <3>2. granted[j] <= Limit - 1
      BY <1>2, <1>5, <1>9, <2>1, <3>1, SlidingWindowAssumption
    <3>3. Readers(j)' \in SUBSET Tasks
      BY DEF Readers
    <3>4. /\ Cardinality(Readers(j)') \in Nat
          /\ Cardinality(Readers(j)') <= Cardinality(Tasks)
          /\ Cardinality(Tasks) \in Nat
      BY <3>3, TasksFinite, BoundType
    <3>5. Cardinality(Readers(j)') * MaxCost <= Cardinality(Tasks) * MaxCost
      BY <3>4, ProductOrder, SlidingWindowAssumption
    <3>6. MaxCost * Cardinality(Readers(j)') <= MaxCost * Cardinality(Tasks)
      BY <3>4, <3>5, SlidingWindowAssumption
    <3>7. MaxCost * Cardinality(Readers(j)') \in Nat /\ MaxCost * Cardinality(Tasks) \in Nat
      BY <3>4, ProductType, SlidingWindowAssumption
    <3> QED  BY <2>1, <3>2, <3>6, <3>7, SlidingWindowAssumption DEF Bound
  <2> QED  BY <2>2, <2>3
<1>11. BlendBounded'
  <2>1. \A u \in Tasks \ {t} : MayFit(u)' = MayFit(u)
    BY <1>3, <1>6 DEF MayFit, Seen
  <2>2. Latecomers' = Latecomers
    BY <1>1, <1>3, <1>6 DEF Latecomers
  <2>3. CASE t \notin Hopefuls'
    <3>1. t \notin Hopefuls
      BY <1>1 DEF Hopefuls
    <3>2. Hopefuls' = Hopefuls
      BY <1>3, <1>6, <2>1, <2>3, <3>1 DEF Hopefuls
    <3> QED  BY <1>1, <1>3, <2>2, <3>2 DEF BlendBounded
  <2>4. CASE t \in Hopefuls'
    <3> DEFINE p == Given(CurrentIndex - 1)
    <3> DEFINE n == granted[CurrentIndex]
    <3>1. i = CurrentIndex /\ MayFit(t)'
      BY <1>3, <1>6, <2>4 DEF Hopefuls
    <3>2. v = n /\ n \in Nat /\ p \in Nat
      BY <1>5, <3>1, Readable, Current, GivenType DEF TypeOK
    <3>3. Blend(p, hit[t].elapsed, v) + hit[t].cost * Window <= Limit * Window
      BY <1>3, <1>6, <3>1 DEF MayFit, Seen
    <3>4. hit[t].elapsed <= Elapsed
      <4>1. hit[t].elapsed \in Nat
        BY <1>2, WindowType
      <4> QED  BY <1>2, <1>9, <3>1, <4>1, Behind
    <3>5. /\ Blend(p, Elapsed, n) <= Blend(p, hit[t].elapsed, n)
          /\ Blend(p, Elapsed, n) \in Nat /\ Blend(p, hit[t].elapsed, n) \in Nat
      <4>1. Elapsed \in 0..(Window - 1) /\ p <= p /\ n <= n
        BY <3>2, Current
      <4> HIDE DEF p, n
      <4> QED  BY <1>2, <3>2, <3>4, <4>1, BlendOrder
    <3>6. 1 * Window <= hit[t].cost * Window
      BY <1>2, <1>9, ProductOrder, WindowType
    <3>7. Blend(p, Elapsed, n) <= (Limit - 1) * Window
      <4>1. (Limit - 1) * Window = Limit * Window - Window
        BY WindowType, SlidingWindowAssumption
      <4>2. Limit * Window \in Nat /\ hit[t].cost * Window \in Nat /\ 1 * Window = Window
        BY <1>2, ProductType, WindowType, SlidingWindowAssumption
      <4> QED  BY <3>2, <3>3, <3>5, <3>6, <4>1, <4>2, WindowType
    <3>8. /\ (Hopefuls \cup Latecomers)' \in SUBSET Tasks
          /\ IsFiniteSet(Tasks)
      BY SlidingWindowAssumption DEF Hopefuls, Latecomers
    <3>9. (Limit - 1) * Window + (MaxCost * Cardinality(Tasks)) * Window <= Bound * Window
      <4>1. MaxCost * Cardinality(Tasks) \in Nat
        BY ProductType, BoundType, SlidingWindowAssumption
      <4> QED  BY <4>1, WindowType, SlidingWindowAssumption DEF Bound
    <3>10. Blend(p, Elapsed, n)
             + (MaxCost * Cardinality((Hopefuls \cup Latecomers)')) * Window <= Bound * Window
      <4>1. Window \in Nat /\ (Limit - 1) * Window \in Int /\ Bound \in Int /\ MaxCost \in Nat
        BY WindowType, BoundType, SlidingWindowAssumption
      <4>2. (MaxCost * Cardinality(Tasks)) * Window \in Nat
        BY ProductType, BoundType, WindowType, SlidingWindowAssumption
      <4> DEFINE T == (Hopefuls \cup Latecomers)'
      <4> DEFINE a == (Limit - 1) * Window
      <4> DEFINE b == Blend(p, Elapsed, n)
      <4>3. T \subseteq Tasks /\ IsFiniteSet(Tasks)
        BY <3>8
      <4>4. /\ a \in Int /\ b \in Int /\ b <= a
            /\ a + (MaxCost * Cardinality(Tasks)) * Window <= Bound * Window
        BY <3>5, <3>7, <3>9, <4>1
      <4> HIDE DEF a, b, T
      <4>5. b + (MaxCost * Cardinality(T)) * Window <= Bound * Window
        BY <4>1, <4>3, <4>4, ReserveShrinks
      <4> QED  BY <4>5 DEF b, T
    <3> QED  BY <1>1, <1>3, <3>10 DEF BlendBounded
  <2> QED  BY <2>3, <2>4
<1> QED
  BY <1>1, <1>7, <1>8, <1>10, <1>11 DEF CountersAreWhole, NothingAhead

\* A get answers a count.
LEMMA ValueType ==
  ASSUME TypeOK, NEW i
  PROVE  Value(counters, i, clock) \in Nat
<1>1. IsDict(counters, Indices, CounterEntry)
  BY DEF TypeOK
<1>2. i \in DOMAIN counters => counters[i] \in CounterEntry
  BY <1>1, ElementType
<1> QED  BY <1>2 DEF Value, Live, CounterEntry

\* The second read is of what a reader of the window under way was already
\* reckoned with: the count of the window before, as it is now.
LEMMA ReadPreviousStep ==
  ASSUME IInv, NEW t \in Tasks, ReadPrevious(t)
  PROVE  IInv'
<1> USE DEF IInv
<1> DEFINE i == hit[t].index
<1> DEFINE v == Value(counters, i - 1, clock)
<1>1. /\ pc[t] = "current" /\ pc' = [pc EXCEPT ![t] = "previous"]
      /\ hit' = [hit EXCEPT ![t].previous = v]
      /\ clock' = clock /\ counters' = counters /\ granted' = granted /\ answer' = answer
  BY DEF ReadPrevious
<1>2. i \in Nat /\ hit[t] \in Sample
  BY HitType
<1>3. /\ CurrentIndex' = CurrentIndex /\ Elapsed' = Elapsed
      /\ \A j : Given(j)' = Given(j)
  BY <1>1 DEF CurrentIndex, Elapsed, Given
<1>4. v \in Nat
  BY ValueType
<1>5. i = CurrentIndex => v = Given(i - 1)
  BY <1>2, Readable, Current, ValueIsGiven
<1>6. /\ pc'[t] = "previous" /\ hit'[t] = [hit[t] EXCEPT !.previous = v]
      /\ hit'[t] \in Sample
      /\ hit'[t].index = i /\ hit'[t].elapsed = hit[t].elapsed
      /\ hit'[t].cost = hit[t].cost /\ hit'[t].current = hit[t].current
      /\ hit'[t].previous = v
      /\ \A u \in Tasks \ {t} : pc'[u] = pc[u] /\ hit'[u] = hit[u]
  BY <1>1, <1>2, <1>4 DEF TypeOK, Sample
<1> HIDE DEF v
<1>7. TypeOK'
  BY <1>1, <1>6 DEF TypeOK
<1>8. SamplesArePast'
  BY <1>1, <1>6 DEF SamplesArePast
<1>9. \A j : Readers(j)' = Readers(j)
  BY <1>1, <1>6 DEF Readers
<1>10. WindowsBounded'
  BY <1>1, <1>9 DEF WindowsBounded
<1>11. Latecomers' = Latecomers
  BY <1>1, <1>3, <1>6 DEF Latecomers
<1>12. Hopefuls' = Hopefuls
  <2>1. \A u \in Tasks \ {t} : MayFit(u)' = MayFit(u)
    BY <1>3, <1>6 DEF MayFit, Seen
  <2>2. CASE i = CurrentIndex
    <3>1. MayFit(t)' = MayFit(t)
      BY <1>1, <1>5, <1>6, <2>2 DEF MayFit, Seen
    <3> QED  BY <1>1, <1>3, <1>6, <2>1, <3>1 DEF Hopefuls
  <2>3. CASE i # CurrentIndex
    BY <1>1, <1>3, <1>6, <2>1, <2>3 DEF Hopefuls
  <2> QED  BY <2>2, <2>3
<1>13. BlendBounded'
  BY <1>1, <1>3, <1>11, <1>12 DEF BlendBounded
<1> QED
  BY <1>1, <1>7, <1>8, <1>10, <1>13 DEF CountersAreWhole, NothingAhead

\* A hit that ends gives up its place among the readers, and no task that was
\* ruled out is ruled in by what it admitted.
LEMMA EndLeaves ==
  ASSUME TypeOK, NEW t \in Tasks, End(t), clock' = clock,
         \A j \in Int : Given(j)' \in Nat /\ Given(j) <= Given(j)'
  PROVE  /\ \A j : Readers(j)' \subseteq Readers(j) \ {t}
         /\ Hopefuls' \subseteq Hopefuls \ {t}
         /\ Latecomers' \subseteq Latecomers \ {t}
<1>1. /\ pc'[t] = "idle"
      /\ \A u \in Tasks \ {t} : pc'[u] = pc[u] /\ hit'[u] = hit[u]
      /\ CurrentIndex' = CurrentIndex
  BY DEF End, TypeOK, CurrentIndex
<1>2. \A j : Readers(j)' \subseteq Readers(j) \ {t}
  BY <1>1 DEF Readers
<1>3. Latecomers' \subseteq Latecomers \ {t}
  BY <1>1 DEF Latecomers
<1>4. ASSUME NEW u \in Hopefuls' PROVE u \in Hopefuls \ {t}
  <2>1. u \in Tasks \ {t} /\ pc[u] \in {"current", "previous"} /\ hit[u].index = CurrentIndex
    BY <1>1, <1>4 DEF Hopefuls
  <2>2. MayFit(u)'
    BY <1>4 DEF Hopefuls
  <2> DEFINE p == Seen(u)
  <2> DEFINE q == Seen(u)'
  <2> DEFINE e == hit[u].elapsed
  <2> DEFINE n == hit[u].current
  <2> DEFINE c == hit[u].cost
  <2>3. /\ hit[u].index \in Nat /\ hit[u].previous \in Nat
        /\ e \in 0..(Window - 1) /\ n \in Nat /\ c \in Nat
    BY <2>1, HitType
  <2>4. p \in Nat /\ q \in Nat /\ p <= q
    BY <1>1, <2>1, <2>3, GivenType DEF Seen
  <2>5. Blend(q, e, n) + c * Window <= Limit * Window
    BY <1>1, <2>1, <2>2 DEF MayFit
  <2>6. Blend(p, e, n) + c * Window <= Limit * Window
    <3>1. /\ c * Window \in Nat /\ Limit * Window \in Nat
          /\ n <= n /\ e <= e
      BY <2>3, ProductType, WindowType, SlidingWindowAssumption
    <3> HIDE DEF p, q, e, n, c
    <3>2. /\ Blend(p, e, n) \in Nat /\ Blend(q, e, n) \in Nat
          /\ Blend(p, e, n) <= Blend(q, e, n)
      BY <2>3, <2>4, <3>1, BlendOrder
    <3> QED  BY <2>5, <3>1, <3>2
  <2> QED  BY <2>1, <2>6 DEF MayFit, Hopefuls
<1> QED  BY <1>2, <1>3, <1>4

\* The answers, of an admission and of a refusal.
LEMMA AnswersType ==
  ASSUME TypeOK, NEW t \in Tasks, NEW weighted \in Nat
  PROVE  /\ [allowed |-> TRUE, remaining |-> Remaining(weighted),
             reset_at |-> ResetAt(hit[t]), retry_after |-> 0] \in Answer
         /\ [allowed |-> FALSE, remaining |-> Remaining(weighted),
             reset_at |-> ResetAt(hit[t]), retry_after |-> RetryAfter(hit[t])] \in Answer
<1>1. Remaining(weighted) \in 0..Limit
  <2>1. CASE ~(weighted <= Limit * Window)
    BY <2>1, SlidingWindowAssumption DEF Remaining
  <2>2. CASE weighted <= Limit * Window
    <3> DEFINE up == weighted + Window - 1
    <3> DEFINE full == Limit * Window + (Window - 1)
    <3>1. up \in Nat /\ full \in Nat /\ up <= full
      BY <2>2, WindowType, ProductType, SlidingWindowAssumption
    <3>2. full \div Window = Limit
      BY <3>1, DivisionUnique, WindowType, SlidingWindowAssumption
    <3>3. up \div Window \in Nat
      BY <3>1, Division, WindowType
    <3>4. up \div Window <= Limit
      <4> HIDE DEF up, full
      <4> QED  BY <3>1, <3>2, DivisionOrder, WindowType
    <3>5. Remaining(weighted) = Limit - (up \div Window)
      BY <2>2 DEF Remaining
    <3> HIDE DEF up
    <3> QED  BY <3>3, <3>4, <3>5, SlidingWindowAssumption
  <2> QED  BY <2>1, <2>2
<1>2. ResetAt(hit[t]) \in Nat
  BY HitType, WindowType, ProductType DEF ResetAt
<1>3. RetryAfter(hit[t]) \in Nat
  <2>1. clock \in Nat /\ TicksPerSecond \in Nat \ {0}
    BY SlidingWindowAssumption DEF TypeOK
  <2>2. CASE ResetAt(hit[t]) <= clock
    BY <2>2 DEF RetryAfter
  <2>3. CASE ~(ResetAt(hit[t]) <= clock)
    <3>1. ResetAt(hit[t]) - clock + TicksPerSecond - 1 \in Nat
      BY <1>2, <2>1, <2>3
    <3> QED  BY <2>1, <2>3, <3>1, Division DEF RetryAfter
  <2> QED  BY <2>2, <2>3
<1> QED  BY <1>1, <1>2, <1>3 DEF Answer

\* The weighted count of what a task knows.
LEMMA WeightedType ==
  ASSUME TypeOK, NEW t \in Tasks
  PROVE  /\ Weighted(hit[t]) \in Nat
         /\ Weighted(hit[t]) + hit[t].cost * Window \in Nat
<1> DEFINE p == hit[t].previous
<1> DEFINE e == hit[t].elapsed
<1> DEFINE n == hit[t].current
<1>1. p \in Nat /\ n \in Nat /\ e \in 0..(Window - 1) /\ hit[t].cost \in Nat
  BY HitType
<1>2. Blend(p, e, n) \in Nat
  <2>1. p <= p /\ n <= n /\ e <= e
    BY <1>1, WindowType
  <2> HIDE DEF p, e, n
  <2> QED  BY <1>1, <2>1, BlendOrder
<1>3. hit[t].cost * Window \in Nat
  BY <1>1, ProductType, WindowType
<1> QED  BY <1>2, <1>3 DEF Weighted

\* The reserve is kept when the set it is held for shrinks.
LEMMA BlendKept ==
  ASSUME TypeOK, NEW S \in SUBSET Tasks, NEW T, T \subseteq S,
         NEW a \in Int, NEW b \in Int, b <= a,
         a + (MaxCost * Cardinality(S)) * Window <= Bound * Window
  PROVE  b + (MaxCost * Cardinality(T)) * Window <= Bound * Window
<1>1. IsFiniteSet(S)
  BY TasksFinite
<1>2. Window \in Nat /\ MaxCost \in Nat /\ Bound \in Int
  BY WindowType, BoundType, SlidingWindowAssumption
<1> QED  BY <1>1, <1>2, ReserveShrinks

\* The weighted count of the key now.
LEMMA BlendType ==
  ASSUME TypeOK
  PROVE  /\ Given(CurrentIndex - 1) \in Nat
         /\ granted[CurrentIndex] \in Nat
         /\ Blend(Given(CurrentIndex - 1), Elapsed, granted[CurrentIndex]) \in Nat
<1> DEFINE p == Given(CurrentIndex - 1)
<1> DEFINE n == granted[CurrentIndex]
<1>1. p \in Nat /\ n \in Nat /\ Elapsed \in 0..(Window - 1)
  BY Current, GivenType DEF TypeOK
<1>2. p <= p /\ n <= n /\ Elapsed <= Elapsed
  BY <1>1, WindowType
<1>3. Blend(p, Elapsed, n) \in Nat
  <2> HIDE DEF p, n
  <2> QED  BY <1>1, <1>2, BlendOrder
<1> QED  BY <1>1, <1>3

\* A refused hit writes nothing.
LEMMA RefuseStep ==
  ASSUME IInv, NEW t \in Tasks, Refuse(t)
  PROVE  IInv'
<1> USE DEF IInv
<1>1. /\ End(t)
      /\ pc' = [pc EXCEPT ![t] = "idle"] /\ hit' = [hit EXCEPT ![t] = NoHit]
      /\ answer' = [answer EXCEPT ![t] =
           [allowed |-> FALSE, remaining |-> Remaining(Weighted(hit[t])),
            reset_at |-> ResetAt(hit[t]), retry_after |-> RetryAfter(hit[t])]]
      /\ clock' = clock /\ counters' = counters /\ granted' = granted
  BY DEF Refuse, End
<1>2. /\ CurrentIndex' = CurrentIndex /\ Elapsed' = Elapsed
      /\ \A j : Given(j)' = Given(j)
  BY <1>1 DEF CurrentIndex, Elapsed, Given
<1>3. /\ \A j : Readers(j)' \subseteq Readers(j) \ {t}
      /\ Hopefuls' \subseteq Hopefuls \ {t}
      /\ Latecomers' \subseteq Latecomers \ {t}
  <2>1. \A j \in Int : Given(j)' \in Nat /\ Given(j) <= Given(j)'
    BY <1>2, GivenType
  <2> QED  BY <1>1, <2>1, EndLeaves
<1>4. TypeOK'
  <2>1. NoHit \in Sample
    BY Division, WindowType, SlidingWindowAssumption DEF NoHit, Sample, Indices
  <2>2. answer'[t] \in Answer /\ \A u \in Tasks \ {t} : answer'[u] = answer[u]
    BY <1>1, WeightedType, AnswersType DEF TypeOK
  <2> QED  BY <1>1, <2>1, <2>2 DEF TypeOK
<1>5. SamplesArePast'
  BY <1>1 DEF SamplesArePast, TypeOK
<1>6. WindowsBounded'
  <2> SUFFICES ASSUME NEW j \in Indices, clock < (j + 2) * Window
               PROVE  /\ granted[j] <= Bound
                      /\ Readers(j)' # {} =>
                           granted[j] + MaxCost * Cardinality(Readers(j)') <= Bound
    BY <1>1 DEF WindowsBounded
  <2>1. granted[j] <= Bound /\ granted[j] \in Nat
    BY DEF WindowsBounded, TypeOK
  <2>2. ASSUME Readers(j)' # {}
        PROVE  granted[j] + MaxCost * Cardinality(Readers(j)') <= Bound
    <3>1. /\ Readers(j) # {} /\ Readers(j)' \subseteq Readers(j)
          /\ Readers(j) \in SUBSET Tasks
      BY <1>3, <2>2 DEF Readers
    <3>2. granted[j] + MaxCost * Cardinality(Readers(j)) <= Bound
      BY <3>1 DEF WindowsBounded
    <3>3. /\ Cardinality(Readers(j)) \in Nat /\ Cardinality(Readers(j)') \in Nat
          /\ Cardinality(Readers(j)') <= Cardinality(Readers(j))
      BY <3>1, TasksFinite, FS_Subset, FS_CardinalityType
    <3>4. Cardinality(Readers(j)') * MaxCost <= Cardinality(Readers(j)) * MaxCost
      BY <3>3, ProductOrder, SlidingWindowAssumption
    <3> QED  BY <2>1, <3>2, <3>3, <3>4, BoundType, SlidingWindowAssumption
  <2> QED  BY <2>1, <2>2
<1>7. BlendBounded'
  <2> DEFINE S == Hopefuls \cup Latecomers
  <2> DEFINE T == (Hopefuls \cup Latecomers)'
  <2> DEFINE a == Blend(Given(CurrentIndex - 1), Elapsed, granted[CurrentIndex])
  <2>1. S \in SUBSET Tasks /\ T \subseteq S /\ a \in Int /\ a <= a
    BY <1>3, BlendType DEF Hopefuls, Latecomers
  <2>2. CASE granted[CurrentIndex] = 0 /\ Hopefuls = {}
    BY <1>1, <1>2, <1>3, <2>2 DEF BlendBounded
  <2>3. CASE a + (MaxCost * Cardinality(S)) * Window <= Bound * Window
    <3>1. a + (MaxCost * Cardinality(T)) * Window <= Bound * Window
      <4> HIDE DEF a, S, T
      <4> QED  BY <2>1, <2>3, BlendKept
    <3> QED  BY <1>1, <1>2, <3>1 DEF BlendBounded
  <2> QED  BY <2>2, <2>3 DEF BlendBounded
<1> QED
  BY <1>1, <1>4, <1>5, <1>6, <1>7 DEF CountersAreWhole, NothingAhead

\* As time passes the window before weighs less; and a window begins empty.
LEMMA TickStep ==
  ASSUME IInv, Tick
  PROVE  IInv'
<1> USE DEF IInv
<1>1. /\ clock < MaxClock /\ clock' = clock + 1
      /\ counters' = counters /\ pc' = pc /\ hit' = hit
      /\ answer' = answer /\ granted' = granted
  BY DEF Tick
<1>2. clock \in Nat /\ clock' \in Nat /\ clock' <= MaxClock /\ MaxClock \in Nat
  BY <1>1, SlidingWindowAssumption DEF TypeOK
<1>3. TypeOK'
  BY <1>1, <1>2 DEF TypeOK
<1>4. SamplesArePast'
  <2> SUFFICES ASSUME NEW t \in Tasks, pc[t] # "idle"
               PROVE  /\ hit[t].index * Window + hit[t].elapsed <= clock + 1
                      /\ hit[t].cost >= 1
    BY <1>1 DEF SamplesArePast
  <2>1. hit[t].index * Window \in Nat /\ hit[t].elapsed \in Nat
    BY HitType, ProductType, WindowType
  <2> QED  BY <1>2, <2>1 DEF SamplesArePast
<1>5. \A i \in Indices : (i + 2) * Window \in Int /\ i * Window \in Int
  BY IndicesType, WindowType
<1>6. CountersAreWhole'
  BY <1>1, <1>2, <1>5 DEF CountersAreWhole
<1>7. NothingAhead'
  BY <1>1, <1>2, <1>5 DEF NothingAhead
<1>8. \A j : Readers(j)' = Readers(j)
  BY <1>1 DEF Readers
<1>9. WindowsBounded'
  BY <1>1, <1>2, <1>5, <1>8 DEF WindowsBounded
<1>10. \A u \in Tasks : MayFit(u)' = MayFit(u)
  BY <1>1 DEF MayFit, Seen, Given
<1>11. /\ CurrentIndex \in Nat /\ Elapsed \in 0..(Window - 1)
       /\ clock = CurrentIndex * Window + Elapsed
       /\ clock < (CurrentIndex + 1) * Window
  BY Current
<1>12. BlendBounded'
  <2>1. CASE Elapsed + 1 <= Window - 1
    <3>1. Elapsed + 1 \in 0..(Window - 1) /\ clock' = CurrentIndex * Window + (Elapsed + 1)
      BY <1>1, <1>11, <2>1, WindowType, ProductType
    <3>2. CurrentIndex' = CurrentIndex /\ Elapsed' = Elapsed + 1
      <4>1. clock' \div Window = CurrentIndex /\ clock' % Window = Elapsed + 1
        BY <1>2, <1>11, <3>1, DivisionUnique, WindowType
      <4> QED  BY <4>1 DEF CurrentIndex, Elapsed
    <3>3. Given(CurrentIndex - 1)' = Given(CurrentIndex - 1)
      BY <1>1, <3>2 DEF Given
    <3>4. Hopefuls' = Hopefuls /\ Latecomers' = Latecomers
      BY <1>1, <1>10, <3>2 DEF Hopefuls, Latecomers
    <3> DEFINE p == Given(CurrentIndex - 1)
    <3> DEFINE n == granted[CurrentIndex]
    <3> DEFINE S == Hopefuls \cup Latecomers
    <3>5. p \in Nat /\ n \in Nat /\ p <= p /\ n <= n
      BY BlendType
    <3>6. /\ Blend(p, Elapsed + 1, n) \in Nat /\ Blend(p, Elapsed, n) \in Nat
          /\ Blend(p, Elapsed + 1, n) <= Blend(p, Elapsed, n)
      <4>1. Elapsed <= Elapsed + 1
        BY <1>11, WindowType
      <4> HIDE DEF p, n
      <4> QED  BY <1>11, <3>1, <3>5, <4>1, BlendOrder
    <3>7. CASE n = 0 /\ Hopefuls = {}
      BY <1>1, <3>2, <3>4, <3>7 DEF BlendBounded
    <3>8. CASE Blend(p, Elapsed, n) + (MaxCost * Cardinality(S)) * Window <= Bound * Window
      <4>1. S \in SUBSET Tasks /\ S \subseteq S
        BY DEF Hopefuls, Latecomers
      <4> DEFINE a == Blend(p, Elapsed, n)
      <4> DEFINE b == Blend(p, Elapsed + 1, n)
      <4>2. a \in Int /\ b \in Int /\ b <= a
        BY <3>6
      <4>3. b + (MaxCost * Cardinality(S)) * Window <= Bound * Window
        <5>1. a + (MaxCost * Cardinality(S)) * Window <= Bound * Window
          BY <3>8
        <5> HIDE DEF a, b, S
        <5> QED  BY <4>1, <4>2, <5>1, BlendKept
      <4> QED  BY <1>1, <3>2, <3>3, <3>4, <4>3 DEF BlendBounded
    <3> QED  BY <3>7, <3>8 DEF BlendBounded
  <2>2. CASE Elapsed + 1 > Window - 1
    <3>1. clock' = (CurrentIndex + 1) * Window + 0
      <4>1. Elapsed = Window - 1
        BY <1>11, <2>2, WindowType
      <4>2. (CurrentIndex + 1) * Window = CurrentIndex * Window + Window
        BY <1>11, WindowType
      <4> QED  BY <1>1, <1>11, <4>1, <4>2, WindowType, ProductType
    <3>2. CurrentIndex' = CurrentIndex + 1
      <4>1. CurrentIndex + 1 \in Nat /\ 0 \in 0..(Window - 1)
        BY <1>11, WindowType
      <4>2. clock' \div Window = CurrentIndex + 1
        BY <1>2, <3>1, <4>1, DivisionUnique, WindowType
      <4> QED  BY <4>2 DEF CurrentIndex
    <3>3. CurrentIndex + 1 \in Indices
      <4>1. clock' \div Window <= MaxClock \div Window /\ MaxClock \div Window \in Nat
        BY <1>2, Division, DivisionOrder, WindowType
      <4> QED  BY <1>11, <3>2, <4>1 DEF Indices, CurrentIndex
    <3>4. granted[CurrentIndex + 1] = 0
      BY <1>11, <3>3 DEF NothingAhead
    <3>5. ASSUME NEW u \in Hopefuls' PROVE FALSE
      <4>1. u \in Tasks /\ pc[u] # "idle" /\ hit[u].index = CurrentIndex + 1
        BY <1>1, <3>2, <3>5 DEF Hopefuls
      <4>2. hit[u].index * Window + hit[u].elapsed <= clock
        BY <4>1 DEF SamplesArePast
      <4>3. hit[u].index <= CurrentIndex
        <5>1. hit[u].index \in Nat /\ hit[u].elapsed \in Nat
          BY <4>1, HitType, WindowType
        <5> QED  BY <4>2, <5>1, Behind
      <4> QED  BY <1>11, <4>1, <4>3
    <3> QED  BY <1>1, <3>2, <3>4, <3>5 DEF BlendBounded
  <2> QED  BY <1>11, <2>1, <2>2, WindowType
<1> QED
  BY <1>3, <1>4, <1>6, <1>7, <1>9, <1>12

\* And when one task spends its reserve.
LEMMA BlendSpent ==
  ASSUME TypeOK, NEW S \in SUBSET Tasks, NEW t \in S, NEW T, T \subseteq S \ {t},
         NEW c \in Nat, c <= MaxCost, NEW a \in Int, NEW b \in Int, b <= a + c * Window,
         a + (MaxCost * Cardinality(S)) * Window <= Bound * Window
  PROVE  b + (MaxCost * Cardinality(T)) * Window <= Bound * Window
<1>1. IsFiniteSet(S)
  BY TasksFinite
<1>2. Window \in Nat /\ MaxCost \in Nat /\ Bound \in Int
  BY WindowType, BoundType, SlidingWindowAssumption
<1> QED  BY <1>1, <1>2, ReserveSpent

\* An admission spends the reserve of the task that admits: on its own window,
\* and on the weighted count if that window still weighs.
LEMMA AdmitStep ==
  ASSUME IInv, NEW t \in Tasks, Admit(t)
  PROVE  IInv'
<1> USE DEF IInv
<1> DEFINE i == hit[t].index
<1> DEFINE c == hit[t].cost
<1> DEFINE entry == Incremented(counters, i, clock, Lifetime, c)
<1> DEFINE given == [allowed |-> TRUE, remaining |-> Remaining(Weighted(hit[t]) + c * Window),
                     reset_at |-> ResetAt(hit[t]), retry_after |-> 0]
<1>1. /\ pc[t] = "previous" /\ Fits(hit[t]) /\ End(t)
      /\ pc' = [pc EXCEPT ![t] = "idle"] /\ hit' = [hit EXCEPT ![t] = NoHit]
      /\ counters' = With(counters, i, entry)
      /\ granted' = [granted EXCEPT ![i] = @ + c]
      /\ answer' = [answer EXCEPT ![t] = given]
      /\ clock' = clock
  BY DEF Admit, End
<1>2. /\ i \in Indices /\ i \in Nat /\ c \in Nat /\ c <= MaxCost
      /\ hit[t].elapsed \in 0..(Window - 1) /\ hit[t].elapsed \in Nat
      /\ hit[t].current \in Nat /\ hit[t].previous \in Nat
  BY HitType, WindowType
<1>3. clock \in Nat /\ i * Window + hit[t].elapsed <= clock /\ i * Window \in Nat
  BY <1>1, <1>2, ProductType, WindowType, SlidingWindowAssumption DEF SamplesArePast, TypeOK
<1>4. hit[t].current + c <= Limit
  BY <1>1, <1>2, FitsCurrent DEF Fits, Weighted
<1>5. /\ granted' \in [Indices -> Nat]
      /\ granted'[i] = granted[i] + c
      /\ \A j \in Indices \ {i} : granted'[j] = granted[j]
      /\ \A j \in Indices : granted[j] \in Nat
  BY <1>1, <1>2 DEF TypeOK
<1>6. /\ CurrentIndex' = CurrentIndex /\ Elapsed' = Elapsed
      /\ CurrentIndex \in Indices /\ CurrentIndex \in Nat /\ Elapsed \in 0..(Window - 1)
  BY <1>1, Current DEF CurrentIndex, Elapsed
<1>7. \A j : /\ j = i => Given(j)' = Given(j) + c
            /\ j # i => Given(j)' = Given(j)
  BY <1>2, <1>5 DEF Given
<1>8. /\ \A j : Readers(j)' \subseteq Readers(j) \ {t}
      /\ Hopefuls' \subseteq Hopefuls \ {t}
      /\ Latecomers' \subseteq Latecomers \ {t}
  <2>1. ASSUME NEW j \in Int PROVE Given(j)' \in Nat /\ Given(j) <= Given(j)'
    <3>1. Given(j) \in Nat
      BY GivenType
    <3>2. Given(j)' = Given(j) \/ Given(j)' = Given(j) + c
      BY <1>5 DEF Given
    <3> QED  BY <1>2, <3>1, <3>2
  <2> QED  BY <1>1, <2>1, EndLeaves
<1>9. /\ entry.value = Value(counters, i, clock) + c
      /\ entry.reset_at = IF Live(counters, i, clock) THEN counters[i].reset_at
                                                      ELSE clock + 2 * Window
      /\ entry = [value |-> entry.value, reset_at |-> entry.reset_at]
  BY DEF Incremented, Lifetime
<1>10. IsDict(counters, Indices, CounterEntry)
  BY DEF TypeOK
<1>11. entry \in CounterEntry
  <2>1. entry.value \in Nat
    BY <1>2, <1>9, ValueType
  <2>2. entry.reset_at \in Nat
    <3>1. i \in DOMAIN counters => counters[i] \in CounterEntry
      BY <1>10, ElementType
    <3> QED  BY <1>3, <1>9, <3>1, WindowType DEF Live, CounterEntry
  <2> QED  BY <1>9, <2>1, <2>2 DEF CounterEntry
<1>12. TypeOK'
  <2>1. NoHit \in Sample
    BY Division, WindowType, SlidingWindowAssumption DEF NoHit, Sample, Indices
  <2>2. IsDict(counters', Indices, CounterEntry)
    <3> HIDE DEF entry
    <3> QED  BY <1>1, <1>2, <1>10, <1>11, WithType
  <2>3. given \in Answer
    BY WeightedType, AnswersType
  <2> HIDE DEF given
  <2> QED  BY <1>1, <1>5, <2>1, <2>2, <2>3 DEF TypeOK
<1>13. SamplesArePast'
  BY <1>1 DEF SamplesArePast, TypeOK
<1>14. CountersAreWhole'
  <2> SUFFICES ASSUME NEW j \in Indices, clock < (j + 2) * Window
               PROVE  \/ j \notin DOMAIN counters' /\ granted'[j] = 0
                      \/ /\ j \in DOMAIN counters'
                         /\ counters'[j].value = granted'[j]
                         /\ counters'[j].reset_at >= (j + 2) * Window
    BY <1>1 DEF CountersAreWhole
  <2>1. CASE j # i
    <3>1. /\ j \in DOMAIN counters' <=> j \in DOMAIN counters
          /\ j \in DOMAIN counters => counters'[j] = counters[j]
      BY <1>1, <2>1 DEF With
    <3> QED  BY <1>5, <2>1, <3>1 DEF CountersAreWhole
  <2>2. CASE j = i
    <3>1. i \in DOMAIN counters' /\ counters'[i] = entry
      BY <1>1 DEF With
    <3>2. Value(counters, i, clock) = granted[i]
      BY <1>2, <2>2, ValueIsGiven DEF Given
    <3>3. entry.reset_at >= (i + 2) * Window
      <4>1. CASE Live(counters, i, clock)
        <5>1. counters[i].reset_at >= (i + 2) * Window
          BY <1>2, <2>2, <4>1 DEF CountersAreWhole, Live
        <5> QED  BY <1>9, <4>1, <5>1
      <4>2. CASE ~Live(counters, i, clock)
        <5>1. (i + 2) * Window = i * Window + 2 * Window
          BY <1>2, WindowType
        <5> QED  BY <1>2, <1>3, <1>9, <4>2, <5>1, WindowType
      <4> QED  BY <4>1, <4>2
    <3>4. entry.value = granted'[i]
      BY <1>5, <1>9, <3>2
    <3> HIDE DEF entry
    <3> QED  BY <2>2, <3>1, <3>3, <3>4
  <2> QED  BY <2>1, <2>2
<1>15. NothingAhead'
  <2> SUFFICES ASSUME NEW j \in Indices, clock < j * Window PROVE granted'[j] = 0
    BY <1>1 DEF NothingAhead
  <2>1. j # i
    BY <1>2, <1>3
  <2> QED  BY <1>5, <2>1 DEF NothingAhead
<1> HIDE DEF entry, given
<1>16. WindowsBounded'
  <2> SUFFICES ASSUME NEW j \in Indices, clock < (j + 2) * Window
               PROVE  /\ granted'[j] <= Bound
                      /\ Readers(j)' # {} =>
                           granted'[j] + MaxCost * Cardinality(Readers(j)') <= Bound
    BY <1>1 DEF WindowsBounded
  <2>1. /\ granted[j] <= Bound /\ granted[j] \in Nat
        /\ Readers(j) # {} => granted[j] + MaxCost * Cardinality(Readers(j)) <= Bound
    BY DEF WindowsBounded, TypeOK
  <2>2. /\ Readers(j) \in SUBSET Tasks /\ Readers(j)' \subseteq Readers(j)
        /\ IsFiniteSet(Readers(j))
    BY <1>8, TasksFinite DEF Readers
  <2>3. /\ Cardinality(Readers(j)) \in Nat /\ Cardinality(Readers(j)') \in Nat
        /\ Cardinality(Readers(j)') <= Cardinality(Readers(j))
    BY <2>2, FS_Subset, FS_CardinalityType
  <2>4. /\ MaxCost * Cardinality(Readers(j)) \in Nat
        /\ MaxCost * Cardinality(Readers(j)') \in Nat
    BY <2>3, ProductType, SlidingWindowAssumption
  <2>5. CASE j # i
    <3>1. granted'[j] = granted[j]
      BY <1>5, <2>5
    <3>2. Cardinality(Readers(j)') * MaxCost <= Cardinality(Readers(j)) * MaxCost
      BY <2>3, ProductOrder, SlidingWindowAssumption
    <3>3. MaxCost * Cardinality(Readers(j)') <= MaxCost * Cardinality(Readers(j))
      BY <2>3, <3>2, SlidingWindowAssumption
    <3>4. Readers(j)' # {} => Readers(j) # {}
      BY <2>2
    <3> QED  BY <2>1, <2>4, <3>1, <3>3, <3>4, BoundType
  <2>6. CASE j = i
    <3>1. t \in Readers(j)
      BY <1>1, <1>4, <2>6 DEF Readers
    <3> DEFINE S == Readers(j)
    <3> DEFINE T == Readers(j)'
    <3> DEFINE a == granted[j]
    <3> DEFINE b == granted'[j]
    <3>2. /\ t \in S /\ IsFiniteSet(S) /\ T \subseteq S \ {t}
          /\ a \in Int /\ b \in Int /\ b <= a + c * 1
      BY <1>2, <1>5, <1>8, <2>2, <2>6, <3>1
    <3>3. a + (MaxCost * Cardinality(S)) * 1 <= Bound * 1
      BY <2>1, <2>4, <3>1, BoundType
    <3>4. MaxCost \in Nat /\ Bound \in Int
      BY BoundType, SlidingWindowAssumption
    <3>5. b + (MaxCost * Cardinality(T)) * 1 <= Bound * 1
      <4> HIDE DEF a, b, c, S, T
      <4> QED  BY <1>2, <3>2, <3>3, <3>4, ReserveSpent
    <3>6. granted'[j] \in Nat
      BY <1>5
    <3> QED  BY <2>4, <3>5, <3>6, BoundType
  <2> QED  BY <2>5, <2>6
<1>17. BlendBounded'
  <2> DEFINE P == Given(CurrentIndex - 1)
  <2> DEFINE n == granted[CurrentIndex]
  <2> DEFINE S == Hopefuls \cup Latecomers
  <2> DEFINE T == (Hopefuls \cup Latecomers)'
  <2> DEFINE a == Blend(P, Elapsed, n)
  <2> DEFINE b == Blend(Given(CurrentIndex - 1), Elapsed, granted[CurrentIndex])'
  <2>1. /\ P \in Nat /\ n \in Nat /\ a \in Nat
        /\ S \in SUBSET Tasks /\ T \subseteq S \ {t} /\ T \subseteq S
    BY <1>8, BlendType DEF Hopefuls, Latecomers
  <2>2. b = Blend(Given(CurrentIndex - 1)', Elapsed, granted'[CurrentIndex])
    BY <1>6
  <2>3. i <= CurrentIndex
    BY <1>2, <1>3, Behind
  <2>4. CASE i = CurrentIndex
    <3>1. MayFit(t)
      BY <1>1 DEF Fits, Weighted, MayFit, Seen
    <3>2. t \in Hopefuls
      BY <1>1, <2>4, <3>1 DEF Hopefuls
    <3>3. a + (MaxCost * Cardinality(S)) * Window <= Bound * Window
      BY <3>2 DEF BlendBounded
    <3>4. b = Blend(P, Elapsed, n + c)
      BY <1>5, <1>6, <1>7, <2>2, <2>4
    <3>5. b = a + c * Window
      <4> HIDE DEF P, n, c, b
      <4> QED  BY <1>2, <1>6, <2>1, <3>4, BlendGrowth
    <3>6. c * Window \in Nat
      BY <1>2, ProductType, WindowType
    <3>7. a \in Int /\ b \in Int /\ b <= a + c * Window /\ t \in S
      BY <2>1, <3>2, <3>5, <3>6
    <3>8. b + (MaxCost * Cardinality(T)) * Window <= Bound * Window
      <4> HIDE DEF a, b, c, S, T
      <4> QED  BY <1>2, <2>1, <3>3, <3>7, BlendSpent
    <3> QED  BY <3>8 DEF BlendBounded
  <2>5. CASE i = CurrentIndex - 1
    <3>1. t \in Latecomers
      BY <1>1, <2>5 DEF Latecomers
    <3>2. granted'[CurrentIndex] = n
      BY <1>5, <1>6, <2>5
    <3>3. CASE n = 0 /\ Hopefuls = {}
      BY <1>6, <1>8, <3>2, <3>3 DEF BlendBounded
    <3>4. CASE a + (MaxCost * Cardinality(S)) * Window <= Bound * Window
      <4>1. b = Blend(P + c, Elapsed, n)
        <5>1. Given(CurrentIndex - 1)' = P + c
          BY <1>2, <1>5, <1>6, <2>5 DEF Given
        <5> QED  BY <2>2, <3>2, <5>1
      <4>2. b <= a + c * Window /\ b \in Nat
        <5>1. P + c \in Nat /\ P + c <= P + c /\ n <= n /\ Elapsed <= Elapsed
          BY <1>2, <1>6, <2>1, WindowType
        <5> HIDE DEF P, n, c, b
        <5> QED  BY <1>2, <1>6, <2>1, <4>1, <5>1, BlendGrowth, BlendOrder
      <4>3. a \in Int /\ b \in Int /\ b <= a + c * Window /\ t \in S
        BY <2>1, <3>1, <4>2
      <4>4. b + (MaxCost * Cardinality(T)) * Window <= Bound * Window
        <5> HIDE DEF a, b, c, S, T
        <5> QED  BY <1>2, <2>1, <3>4, <4>3, BlendSpent
      <4> QED  BY <4>4 DEF BlendBounded
    <3> QED  BY <3>3, <3>4 DEF BlendBounded
  <2>6. CASE i < CurrentIndex - 1
    <3>1. granted'[CurrentIndex] = n /\ Given(CurrentIndex - 1)' = P
      BY <1>2, <1>5, <1>6, <1>7, <2>6
    <3>2. CASE n = 0 /\ Hopefuls = {}
      BY <1>6, <1>8, <3>1, <3>2 DEF BlendBounded
    <3>3. CASE a + (MaxCost * Cardinality(S)) * Window <= Bound * Window
      <4>1. b = a
        BY <2>2, <3>1
      <4>2. a \in Int /\ b \in Int /\ b <= a
        BY <2>1, <4>1
      <4>3. b + (MaxCost * Cardinality(T)) * Window <= Bound * Window
        <5> HIDE DEF a, b, S, T
        <5> QED  BY <2>1, <3>3, <4>2, BlendKept
      <4> QED  BY <4>3 DEF BlendBounded
    <3> QED  BY <3>2, <3>3 DEF BlendBounded
  <2> QED  BY <1>2, <1>6, <2>3, <2>4, <2>5, <2>6
<1> QED
  BY <1>12, <1>13, <1>14, <1>15, <1>16, <1>17, Zenon

-----------------------------------------------------------------------------
(* The theorems.                                                           *)

\* Every step preserves the invariant.
LEMMA NextIInv == IInv /\ [Next]_vars => IInv'
<1> SUFFICES ASSUME IInv, [Next]_vars PROVE IInv'
  OBVIOUS
<1>1. ASSUME NEW t \in Tasks, NEW cost \in 1..MaxCost, Begin(t, cost) PROVE IInv'
  BY <1>1, BeginStep
<1>2. ASSUME NEW t \in Tasks, ReadCurrent(t) PROVE IInv'
  BY <1>2, ReadCurrentStep
<1>3. ASSUME NEW t \in Tasks, ReadPrevious(t) PROVE IInv'
  BY <1>3, ReadPreviousStep
<1>4. ASSUME NEW t \in Tasks, Admit(t) PROVE IInv'
  BY <1>4, AdmitStep
<1>5. ASSUME NEW t \in Tasks, Refuse(t) PROVE IInv'
  BY <1>5, RefuseStep
<1>6. CASE Tick
  BY <1>6, TickStep
<1>7. CASE UNCHANGED vars
  BY <1>7
  DEF vars, IInv, TypeOK, SamplesArePast, CountersAreWhole, NothingAhead,
      WindowsBounded, BlendBounded, Readers, Hopefuls, Latecomers, MayFit, Seen,
      Given, CurrentIndex, Elapsed
<1> QED  BY <1>1, <1>2, <1>3, <1>4, <1>5, <1>6, <1>7 DEF Next

\* The invariant holds in every reachable state.
LEMMA Inductive == Spec => []IInv
BY InitIInv, NextIInv, PTL DEF Spec

\* Every state of the sliding window has the declared types; among them, that a
\* remaining count is never negative and never more than the limit.
THEOREM TypeCorrect == Spec => []TypeOK
<1>1. IInv => TypeOK
  BY DEF IInv
<1> QED  BY <1>1, Inductive, PTL

\* However the reads and increments of any number of tasks interleave, and
\* however late an increment comes, no counter drops a unit while the window it
\* counts is still read.
THEOREM NothingForgotten == Spec => []CountsAreKept
<1>1. IInv => CountsAreKept
  <2> SUFFICES ASSUME IInv, NEW i \in Indices, clock < (i + 2) * Window
               PROVE  Value(counters, i, clock) = granted[i]
    BY DEF CountsAreKept
  <2>1. i \in Int /\ Given(i) = granted[i]
    BY IndicesType DEF Given
  <2> QED  BY <2>1, ValueIsGiven DEF IInv
<1> QED  BY <1>1, Inductive, PTL

\* With any number of tasks, the weighted count of the key never passes the
\* limit by more than MaxCost a task, less one.
THEOREM Overshoot == Spec => []OvershootIsBounded
<1>1. IInv => OvershootIsBounded
  <2> SUFFICES ASSUME IInv PROVE OvershootIsBounded
    OBVIOUS
  <2> USE DEF IInv
  <2> DEFINE p == Given(CurrentIndex - 1)
  <2> DEFINE n == granted[CurrentIndex]
  <2> DEFINE a == Blend(p, Elapsed, n)
  <2>1. BlendAt(clock) = a
    <3>1. Value(counters, CurrentIndex - 1, clock) = p
      BY ValueIsGiven, Readable, Current
    <3>2. Value(counters, CurrentIndex, clock) = n
      <4>1. CurrentIndex \in Int /\ Given(CurrentIndex) = n
        BY Current DEF Given
      <4> QED  BY <4>1, ValueIsGiven, Readable
    <3> QED  BY <3>1, <3>2 DEF BlendAt, CurrentIndex, Elapsed
  <2>2. /\ p \in Nat /\ n \in Nat /\ a \in Nat /\ Elapsed \in 0..(Window - 1)
        /\ Bound \in Nat /\ MaxCost \in Nat
    BY BlendType, Current, BoundType, SlidingWindowAssumption
  <2>3. a <= Bound * Window
    <3>1. CASE n = 0 /\ Hopefuls = {}
      <4>1. p <= Bound
        BY <2>2, Readable, GivenType DEF WindowsBounded, Given
      <4>2. p * (Window - Elapsed) <= Bound * Window
        <5>1. p * (Window - Elapsed) <= Bound * (Window - Elapsed)
          <6> HIDE DEF p
          <6> QED  BY <2>2, <4>1, ProductOrder, WindowType
        <5>2. (Window - Elapsed) * Bound <= Window * Bound
          BY <2>2, ProductOrder, WindowType
        <5>3. /\ p * (Window - Elapsed) \in Nat
              /\ Bound * (Window - Elapsed) = (Window - Elapsed) * Bound
              /\ (Window - Elapsed) * Bound \in Nat
              /\ Window * Bound = Bound * Window /\ Bound * Window \in Nat
          <6> HIDE DEF p
          <6> QED  BY <2>2, WindowType, ProductType
        <5> HIDE DEF p
        <5> QED  BY <5>1, <5>2, <5>3
      <4>3. a = p * (Window - Elapsed) + 0 * Window
        BY <3>1 DEF Blend
      <4>4. p * (Window - Elapsed) \in Nat /\ 0 * Window = 0
        BY <2>2, ProductType, WindowType
      <4> HIDE DEF a
      <4> QED  BY <4>2, <4>3, <4>4
    <3>2. CASE a + (MaxCost * Cardinality(Hopefuls \cup Latecomers)) * Window <= Bound * Window
      <4>1. Hopefuls \cup Latecomers \in SUBSET Tasks
        BY DEF Hopefuls, Latecomers
      <4>2. MaxCost * Cardinality(Hopefuls \cup Latecomers) \in Nat
        BY <2>2, <4>1, TasksFinite, ProductType
      <4>3. (MaxCost * Cardinality(Hopefuls \cup Latecomers)) * Window \in Nat
        BY <4>2, WindowType, ProductType
      <4>4. Bound * Window \in Nat
        BY <2>2, WindowType, ProductType
      <4> HIDE DEF a
      <4> QED  BY <2>2, <3>2, <4>3, <4>4
    <3> QED  BY <3>1, <3>2 DEF BlendBounded
  <2> QED  BY <2>1, <2>3 DEF OvershootIsBounded, Bound
<1> QED  BY <1>1, Inductive, PTL
=============================================================================
