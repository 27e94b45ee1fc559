------------------------- MODULE FixedWindowProofs --------------------------
(***************************************************************************)
(* Proofs that a fixed window never admits more than its limit, and that   *)
(* no interval of a window's length ever sees more than twice the limit,   *)
(* for any number of tasks, limit, window and costs.                       *)
(*                                                                         *)
(* The argument: a unit of admitted cost is identified by its window and   *)
(* the counter value it accounts for; values lie in 1..Limit and no two    *)
(* units of a window have the same one.  Windows end at least a window's   *)
(* length apart, so an interval of that length touches two at most.        *)
(***************************************************************************)
EXTENDS FixedWindow, StoreLemmas

\* A rate of at least a second has a window of at least a tick.
LEMMA WindowType == Window \in Nat \ {0}
BY FixedWindowAssumption DEF Window

-----------------------------------------------------------------------------
(* The inductive invariant.                                                *)

\* The end of the last window opened, and the count in it.
LastWindow == IF Key \in DOMAIN counters THEN counters[Key].reset_at ELSE 0
LastCount  == IF Key \in DOMAIN counters THEN counters[Key].value ELSE 0

\* Every unit was counted in its window, which the counter had not left
\* behind, and within the limit.
UnitsInTheirWindows ==
  \A g \in granted :
    /\ g.number \in 1..Limit
    /\ g.at <= clock /\ g.at < g.window /\ g.window <= g.at + Window
    /\ Key \in DOMAIN counters
    /\ g.window <= LastWindow
    /\ g.window # LastWindow => g.window + Window <= LastWindow
    /\ g.window = LastWindow => g.number <= LastCount

\* A unit is identified by its window and its number.
UnitsDiffer ==
  \A g, h \in granted : g.window = h.window /\ g.number = h.number => g = h

\* Different windows end at least a window's length apart.
WindowsApart ==
  \A g, h \in granted :
    g.window < h.window => g.window + Window <= h.window

\* What a task was told by incr is about a window not later than the last.
HitsBehind ==
  /\ LastWindow <= clock + Window
  /\ \A t \in Tasks : hit[t].window <= LastWindow

IInv ==
  /\ TypeOK
  /\ UnitsInTheirWindows
  /\ UnitsDiffer
  /\ WindowsApart
  /\ HitsBehind
  /\ ResetCoversTheWindow
  /\ RetryAfterIsNear

-----------------------------------------------------------------------------

\* The invariant holds initially.
LEMMA InitIInv == Init => IInv
<1> SUFFICES ASSUME Init PROVE IInv
  OBVIOUS
<1>1. TypeOK
  <2>1. IsDict(counters, {Key}, CounterType)
    BY EmptyType DEF Init
  <2> QED  BY <2>1, FixedWindowAssumption DEF Init, TypeOK, NoHit, NoAnswer
<1>2. LastWindow = 0
  BY DEF Init, LastWindow, EmptyDict
<1> QED
  BY <1>1, <1>2, WindowType
  DEF Init, IInv, UnitsInTheirWindows, UnitsDiffer, WindowsApart, HitsBehind,
      ResetCoversTheWindow, RetryAfterIsNear, NoHit, NoAnswer

\* What incr makes of the counter: a window that is still open is counted up,
\* one that has ended is replaced by a new one that ends later by at least its
\* length.
LEMMA NextEntry ==
  ASSUME IInv, NEW cost \in Nat
  PROVE  LET entry == Incremented(counters, Key, clock, Window, cost)
         IN
         /\ entry \in CounterType
         /\ entry.reset_at > clock /\ entry.reset_at <= clock + Window
         /\ entry.value >= cost
         /\ \/ /\ Key \in DOMAIN counters
               /\ entry.reset_at = LastWindow
               /\ entry.value = LastCount + cost
            \/ LastWindow + Window <= entry.reset_at
            \/ Key \notin DOMAIN counters
<1> DEFINE entry == Incremented(counters, Key, clock, Window, cost)
<1> USE WindowType
<1>1. clock \in Nat
  BY DEF IInv, TypeOK
<1>2. CASE Live(counters, Key, clock)
  <2>1. Key \in DOMAIN counters /\ counters[Key].reset_at > clock
    BY <1>2 DEF Live
  <2>2. counters[Key] \in CounterType
    BY <2>1, ElementType DEF IInv, TypeOK
  <2>3. counters[Key].value \in Nat /\ counters[Key].reset_at \in Nat
    BY <2>2 DEF CounterType
  <2>4. LastWindow = counters[Key].reset_at /\ LastCount = counters[Key].value
    BY <2>1 DEF LastWindow, LastCount
  <2>5. entry = [value |-> LastCount + cost, reset_at |-> LastWindow]
    BY <1>2, <2>4 DEF Incremented, Value
  <2>6. entry.value = LastCount + cost /\ entry.reset_at = LastWindow /\ entry \in CounterType
    BY <2>3, <2>4, <2>5 DEF CounterType
  <2>7. LastWindow <= clock + Window
    BY DEF IInv, HitsBehind
  <2> QED  BY <1>1, <2>1, <2>3, <2>4, <2>6, <2>7
<1>3. CASE ~Live(counters, Key, clock)
  <2>1. entry = [value |-> 0 + cost, reset_at |-> clock + Window]
    BY <1>3 DEF Incremented, Value
  <2>2. entry.value = cost /\ entry.reset_at = clock + Window /\ entry \in CounterType
    BY <1>1, <2>1 DEF CounterType
  <2>3. Key \in DOMAIN counters => LastWindow <= clock /\ LastWindow \in Nat
    <3> SUFFICES ASSUME Key \in DOMAIN counters
                 PROVE  LastWindow <= clock /\ LastWindow \in Nat
      OBVIOUS
    <3>1. counters[Key] \in CounterType
      BY ElementType DEF IInv, TypeOK
    <3>2. LastWindow = counters[Key].reset_at /\ LastWindow \in Nat
      BY <3>1 DEF LastWindow, CounterType
    <3>3. ~(LastWindow > clock)
      BY <1>3, <3>2 DEF Live
    <3> QED  BY <1>1, <3>2, <3>3
  <2> QED  BY <1>1, <2>2, <2>3
<1> QED  BY <1>2, <1>3

\* round() of a number of ticks that is not negative gives whole seconds.
LEMMA RoundType ==
  ASSUME NEW ticks \in Nat
  PROVE  RoundToSeconds(ticks) \in Nat
<1>1. ticks \div TicksPerSecond \in Nat
  BY FixedWindowAssumption
<1> QED  BY <1>1 DEF RoundToSeconds

\* It loses no more than half a second.
LEMMA RoundIsNear ==
  ASSUME NEW ticks \in Nat
  PROVE  2 * (RoundToSeconds(ticks) * TicksPerSecond) + TicksPerSecond >= 2 * ticks
<1> DEFINE w == ticks \div TicksPerSecond
           r == ticks % TicksPerSecond
           p == w * TicksPerSecond
<1> USE FixedWindowAssumption
<1>1. w \in Nat /\ r \in 0..(TicksPerSecond - 1) /\ ticks = TicksPerSecond * w + r
  BY SMTT(30)
<1> HIDE DEF w, r
<1>2. p \in Nat /\ ticks = p + r /\ (w + 1) * TicksPerSecond = p + TicksPerSecond
  BY <1>1
<1>3. RoundToSeconds(ticks) =
        IF 2 * r < TicksPerSecond \/ (2 * r = TicksPerSecond /\ w % 2 = 0) THEN w ELSE w + 1
  BY DEF RoundToSeconds, w, r
<1>4. RoundToSeconds(ticks) * TicksPerSecond
        \in {q \in {p, p + TicksPerSecond} : q = p => 2 * r <= TicksPerSecond}
  <2>1. CASE 2 * r < TicksPerSecond \/ (2 * r = TicksPerSecond /\ w % 2 = 0)
    BY <1>1, <1>3, <2>1
  <2>2. CASE ~(2 * r < TicksPerSecond \/ (2 * r = TicksPerSecond /\ w % 2 = 0))
    <3>1. RoundToSeconds(ticks) = w + 1
      BY <1>3, <2>2
    <3>2. RoundToSeconds(ticks) * TicksPerSecond = p + TicksPerSecond
      BY <1>2, <3>1
    <3> HIDE DEF p
    <3> QED  BY <1>2, <3>2
  <2> QED  BY <2>1, <2>2
<1> HIDE DEF p
<1> QED  BY <1>1, <1>2, <1>4

\* incr preserves the invariant: the units it admits are numbered after every
\* unit of the window they are counted in, or open a window of their own.
LEMMA CountPreserves ==
  ASSUME IInv, NEW t \in Tasks, NEW cost \in Costs, Count(t, cost)
  PROVE  IInv'
<1> DEFINE entry == Incremented(counters, Key, clock, Window, cost)
           new == Grant(entry, cost)
<1> USE WindowType
<1>1. /\ counters' = With(counters, Key, entry)
      /\ hit' = [hit EXCEPT ![t] = [value |-> entry.value, window |-> entry.reset_at]]
      /\ granted' = granted \cup new
      /\ pc' = [pc EXCEPT ![t] = "counted"]
      /\ UNCHANGED <<clock, answer>>
  BY DEF Count
<1>2. cost \in Nat /\ clock \in Nat
  BY FixedWindowAssumption DEF IInv, TypeOK
<1>3. /\ entry \in CounterType
      /\ entry.value \in Nat /\ entry.reset_at \in Nat
      /\ entry.reset_at > clock /\ entry.reset_at <= clock + Window
      /\ entry.value >= cost
      /\ \/ /\ Key \in DOMAIN counters
            /\ entry.reset_at = LastWindow
            /\ entry.value = LastCount + cost
         \/ LastWindow + Window <= entry.reset_at
         \/ Key \notin DOMAIN counters
  BY <1>2, NextEntry DEF CounterType
<1>4. Key \in DOMAIN counters' /\ LastWindow' = entry.reset_at /\ LastCount' = entry.value
  BY <1>1 DEF With, LastWindow, LastCount
<1>5. LastWindow <= entry.reset_at /\ LastWindow \in Nat
  <2>1. CASE Key \in DOMAIN counters
    <3>1. counters[Key] \in CounterType
      BY <2>1, ElementType DEF IInv, TypeOK
    <3> QED  BY <1>3, <2>1, <3>1 DEF LastWindow, CounterType
  <2>2. CASE Key \notin DOMAIN counters
    BY <1>3, <2>2 DEF LastWindow
  <2> QED  BY <2>1, <2>2
<1>6. \A g \in new :
        /\ g \in Unit
        /\ g.at = clock /\ g.window = entry.reset_at
        /\ g.number \in 1..Limit
        /\ g.number > entry.value - cost /\ g.number <= entry.value
        /\ g = [at |-> clock, window |-> entry.reset_at, number |-> g.number]
  BY <1>2, <1>3, FixedWindowAssumption DEF Grant, Allowed, Unit
<1>7. \A g \in granted :
        g \in Unit /\ g.window \in Nat /\ g.number \in Nat /\ g.at \in Nat
  BY DEF IInv, TypeOK, Unit
<1> HIDE DEF entry, new
<1>8. TypeOK'
  <2>1. IsDict(counters', {Key}, CounterType)
    BY <1>1, <1>3, WithType DEF IInv, TypeOK
  <2>2. hit' \in [Tasks -> [value : Nat, window : Nat]]
    BY <1>1, <1>3 DEF IInv, TypeOK
  <2>3. pc' \in [Tasks -> {"idle", "counted"}]
    BY <1>1 DEF IInv, TypeOK
  <2>4. granted' \subseteq Unit
    BY <1>1, <1>6 DEF IInv, TypeOK
  <2> QED  BY <1>1, <2>1, <2>2, <2>3, <2>4 DEF IInv, TypeOK
<1>9. UnitsInTheirWindows'
  <2>1. ASSUME NEW g \in granted
        PROVE  /\ g.number \in 1..Limit
               /\ g.at <= clock /\ g.at < g.window /\ g.window <= g.at + Window
               /\ g.window <= entry.reset_at
               /\ g.window # entry.reset_at => g.window + Window <= entry.reset_at
               /\ g.window = entry.reset_at => g.number <= entry.value
    <3>1. /\ g.number \in 1..Limit
          /\ g.at <= clock /\ g.at < g.window /\ g.window <= g.at + Window
          /\ Key \in DOMAIN counters
          /\ g.window <= LastWindow
          /\ g.window # LastWindow => g.window + Window <= LastWindow
          /\ g.window = LastWindow => g.number <= LastCount
      BY DEF IInv, UnitsInTheirWindows
    <3>2. LastCount \in Nat
      <4>1. counters[Key] \in CounterType
        BY <3>1, ElementType DEF IInv, TypeOK
      <4> QED  BY <3>1, <4>1 DEF LastCount, CounterType
    <3>3. CASE entry.reset_at = LastWindow /\ entry.value = LastCount + cost
      BY <1>2, <1>3, <1>5, <1>7, <3>1, <3>2, <3>3
    <3>4. CASE LastWindow + Window <= entry.reset_at
      BY <1>3, <1>5, <1>7, <3>1, <3>4
    <3> QED  BY <1>3, <3>1, <3>3, <3>4
  <2>2. ASSUME NEW g \in new
        PROVE  /\ g.number \in 1..Limit
               /\ g.at <= clock /\ g.at < g.window /\ g.window <= g.at + Window
               /\ g.window <= entry.reset_at
               /\ g.window # entry.reset_at => g.window + Window <= entry.reset_at
               /\ g.window = entry.reset_at => g.number <= entry.value
    BY <1>2, <1>3, <1>6
  <2> QED  BY <1>1, <1>4, <2>1, <2>2 DEF UnitsInTheirWindows
<1>10. UnitsDiffer'
  <2>1. ASSUME NEW g \in granted, NEW h \in new, g.window = h.window
        PROVE  g.number < h.number
    <3>1. /\ Key \in DOMAIN counters /\ g.window <= LastWindow
          /\ g.window = LastWindow => g.number <= LastCount
      BY DEF IInv, UnitsInTheirWindows
    <3>2. g.window = entry.reset_at /\ h.number > entry.value - cost /\ h.number \in Nat
      BY <1>6, <2>1
    <3>3. entry.reset_at = LastWindow /\ entry.value = LastCount + cost
      BY <1>3, <1>5, <1>7, <3>1, <3>2
    <3>4. LastCount \in Nat
      <4>1. counters[Key] \in CounterType
        BY <3>1, ElementType DEF IInv, TypeOK
      <4> QED  BY <4>1, <3>1 DEF LastCount, CounterType
    <3> QED  BY <1>2, <1>7, <3>1, <3>2, <3>3, <3>4
  <2>2. ASSUME NEW g \in granted, NEW h \in new, g.window = h.window
        PROVE  g.number # h.number
    <3>1. g.number < h.number /\ g.number \in Nat /\ h.number \in Nat
      BY <1>6, <1>7, <2>1, <2>2
    <3> QED  BY <3>1
  <2>3. ASSUME NEW g \in new, NEW h \in new, g.number = h.number
        PROVE  g = h
    BY <1>6, <2>3
  <2> QED  BY <1>1, <2>2, <2>3 DEF IInv, UnitsDiffer
<1>11. WindowsApart'
  <2>1. \A g \in granted : /\ g.window <= entry.reset_at
                           /\ g.window # entry.reset_at => g.window + Window <= entry.reset_at
    BY <1>3, <1>5, <1>7 DEF IInv, UnitsInTheirWindows
  <2>2. \A h \in new : h.window = entry.reset_at
    BY <1>6
  <2>3. ASSUME NEW g \in granted', NEW h \in granted', g.window < h.window
        PROVE  g.window + Window <= h.window
    <3>1. CASE g \in granted /\ h \in granted
      BY <2>3, <3>1 DEF IInv, WindowsApart
    <3>2. CASE g \in granted /\ h \in new
      BY <1>3, <1>7, <2>1, <2>2, <2>3, <3>2
    <3>3. CASE g \in new
      BY <1>1, <1>3, <1>7, <2>1, <2>2, <2>3, <3>3
    <3> QED  BY <1>1, <3>1, <3>2, <3>3
  <2> QED  BY <2>3 DEF WindowsApart
<1>12. HitsBehind'
  <2>1. ASSUME NEW u \in Tasks PROVE hit'[u].window <= entry.reset_at
    <3>1. hit[u].window \in Nat /\ hit[u].window <= LastWindow
      BY DEF IInv, TypeOK, HitsBehind
    <3>2. CASE u = t
      BY <1>1, <1>3, <3>2 DEF IInv, TypeOK
    <3>3. CASE u # t
      BY <1>1, <1>3, <1>5, <3>1, <3>3 DEF IInv, TypeOK
    <3> QED  BY <3>2, <3>3
  <2> QED  BY <1>1, <1>3, <1>4, <2>1 DEF HitsBehind
<1>13. ResetCoversTheWindow' /\ RetryAfterIsNear'
  BY <1>1 DEF IInv, ResetCoversTheWindow, RetryAfterIsNear, TypeOK
<1> QED  BY <1>8, <1>9, <1>10, <1>11, <1>12, <1>13 DEF IInv

\* What get_expiry returns is not before the end of any window a task's hit
\* was counted in.
LEMMA RespondPreserves ==
  ASSUME IInv, NEW t \in Tasks, Respond(t)
  PROVE  IInv'
<1> DEFINE reset_at == ExpiryOf(counters, Key, clock)
           allowed == Allowed(hit[t].value)
           given == [allowed     |-> allowed,
                     remaining   |-> IF allowed THEN Limit - hit[t].value ELSE 0,
                     reset_at    |-> reset_at,
                     retry_after |-> IF allowed THEN 0 ELSE RoundToSeconds(reset_at - clock),
                     given_at    |-> clock]
<1>1. /\ answer' = [answer EXCEPT ![t] = given]
      /\ pc' = [pc EXCEPT ![t] = "idle"]
      /\ UNCHANGED <<clock, counters, hit, granted>>
  BY DEF Respond
<1>2. /\ clock \in 0..MaxClock /\ clock \in Nat
      /\ hit[t].value \in Nat /\ hit[t].window \in Nat
  BY FixedWindowAssumption DEF IInv, TypeOK
<1>3. /\ reset_at \in Nat /\ reset_at >= clock
      /\ \A u \in Tasks : hit[u].window <= reset_at
  <2>1. CASE Live(counters, Key, clock)
    <3>1. Key \in DOMAIN counters /\ counters[Key].reset_at > clock /\ reset_at = LastWindow
      BY <2>1 DEF Live, ExpiryOf, LastWindow
    <3>2. counters[Key] \in CounterType
      BY <3>1, ElementType DEF IInv, TypeOK
    <3>3. LastWindow = counters[Key].reset_at /\ LastWindow \in Nat
      BY <3>1, <3>2 DEF LastWindow, CounterType
    <3> QED  BY <1>2, <3>1, <3>3 DEF IInv, HitsBehind
  <2>2. CASE ~Live(counters, Key, clock)
    <3>1. reset_at = clock
      BY <2>2 DEF ExpiryOf
    <3>2. LastWindow <= clock /\ LastWindow \in Nat
      <4>1. CASE Key \in DOMAIN counters
        <5>1. counters[Key] \in CounterType
          BY <4>1, ElementType DEF IInv, TypeOK
        <5>2. LastWindow = counters[Key].reset_at /\ LastWindow \in Nat
          BY <4>1, <5>1 DEF LastWindow, CounterType
        <5>3. ~(LastWindow > clock)
          BY <2>2, <4>1, <5>2 DEF Live
        <5> QED  BY <1>2, <5>2, <5>3
      <4>2. CASE Key \notin DOMAIN counters
        BY <1>2, <4>2 DEF LastWindow
      <4> QED  BY <4>1, <4>2
    <3>3. ASSUME NEW u \in Tasks PROVE hit[u].window <= clock
      <4>1. hit[u].window \in Nat /\ hit[u].window <= LastWindow
        BY DEF IInv, TypeOK, HitsBehind
      <4> QED  BY <1>2, <3>2, <4>1
    <3> QED  BY <1>2, <3>1, <3>3
  <2> QED  BY <2>1, <2>2
<1>4. RoundToSeconds(reset_at - clock) \in Nat
  <2>1. reset_at - clock \in Nat
    BY <1>2, <1>3
  <2> HIDE DEF reset_at
  <2> QED  BY <2>1, RoundType
<1>5. /\ allowed \in BOOLEAN
      /\ (IF allowed THEN Limit - hit[t].value ELSE 0) \in 0..Limit
  BY <1>2, FixedWindowAssumption DEF Allowed
<1> HIDE DEF reset_at, allowed
<1>6. TypeOK'
  <2>1. given \in [allowed : BOOLEAN, remaining : 0..Limit, reset_at : Nat,
                   retry_after : Nat, given_at : 0..MaxClock]
    BY <1>2, <1>3, <1>4, <1>5
  <2> HIDE DEF given
  <2> QED  BY <1>1, <2>1 DEF IInv, TypeOK
<1>7. ResetCoversTheWindow'
  BY <1>1, <1>3 DEF IInv, ResetCoversTheWindow, TypeOK
<1>8. ~allowed =>
        2 * (given.given_at + given.retry_after * TicksPerSecond) + TicksPerSecond
          >= 2 * hit[t].window
  <2> SUFFICES ASSUME ~allowed
               PROVE  2 * (clock + RoundToSeconds(reset_at - clock) * TicksPerSecond)
                        + TicksPerSecond >= 2 * hit[t].window
    OBVIOUS
  <2> DEFINE waited == RoundToSeconds(reset_at - clock) * TicksPerSecond
  <2>1. reset_at - clock \in Nat /\ hit[t].window <= reset_at
    BY <1>2, <1>3
  <2>2. 2 * waited + TicksPerSecond >= 2 * (reset_at - clock)
    BY <2>1, RoundIsNear
  <2>3. waited \in Int
    BY <1>4, FixedWindowAssumption
  <2> HIDE DEF waited
  <2>4. 2 * (clock + waited) + TicksPerSecond >= 2 * hit[t].window
    BY <1>2, <1>3, <2>1, <2>2, <2>3, FixedWindowAssumption
  <2> QED  BY <2>4 DEF waited
<1>9. given.allowed = allowed
  OBVIOUS
<1> HIDE DEF given
<1>10. RetryAfterIsNear'
  <2> SUFFICES ASSUME NEW u \in Tasks, pc'[u] = "idle", ~answer'[u].allowed
               PROVE  2 * (answer'[u].given_at + answer'[u].retry_after * TicksPerSecond)
                        + TicksPerSecond >= 2 * hit[u].window
    BY <1>1 DEF RetryAfterIsNear
  <2>1. CASE u = t
    <3>1. answer'[u] = given
      BY <1>1, <2>1 DEF IInv, TypeOK
    <3> QED  BY <1>8, <1>9, <2>1, <3>1
  <2>2. CASE u # t
    BY <1>1, <2>2 DEF IInv, TypeOK, RetryAfterIsNear
  <2> QED  BY <2>1, <2>2
<1> QED
  BY <1>1, <1>6, <1>7, <1>10
  DEF IInv, UnitsInTheirWindows, UnitsDiffer, WindowsApart, HitsBehind, LastWindow, LastCount

\* Time passing ends no window early.
LEMMA TickPreserves ==
  ASSUME IInv, Tick
  PROVE  IInv'
<1>1. /\ clock' = clock + 1 /\ clock' \in 0..MaxClock /\ clock \in Nat
      /\ UNCHANGED <<counters, pc, hit, answer, granted>>
  BY FixedWindowAssumption DEF Tick, IInv, TypeOK
<1>2. TypeOK'
  BY <1>1 DEF IInv, TypeOK
<1>3. UnitsInTheirWindows'
  <2>1. \A g \in granted : g.at \in Nat
    BY DEF IInv, TypeOK, Unit
  <2> QED  BY <1>1, <2>1 DEF IInv, UnitsInTheirWindows, LastWindow, LastCount
<1>4. HitsBehind'
  <2>1. LastWindow \in Nat
    <3>1. CASE Key \in DOMAIN counters
      <4>1. counters[Key] \in CounterType
        BY <3>1, ElementType DEF IInv, TypeOK
      <4> QED  BY <3>1, <4>1 DEF LastWindow, CounterType
    <3>2. CASE Key \notin DOMAIN counters
      BY <3>2 DEF LastWindow
    <3> QED  BY <3>1, <3>2
  <2>2. LastWindow' = LastWindow
    BY <1>1 DEF LastWindow
  <2> QED  BY <1>1, <2>1, <2>2, WindowType DEF IInv, HitsBehind
<1> QED
  BY <1>1, <1>2, <1>3, <1>4
  DEF IInv, UnitsDiffer, WindowsApart, ResetCoversTheWindow, RetryAfterIsNear

\* Every step preserves the invariant.
LEMMA NextIInv == IInv /\ [Next]_vars => IInv'
<1> SUFFICES ASSUME IInv, [Next]_vars PROVE IInv'
  OBVIOUS
<1>1. ASSUME NEW t \in Tasks, NEW cost \in Costs, Count(t, cost) PROVE IInv'
  BY <1>1, CountPreserves
<1>2. ASSUME NEW t \in Tasks, Respond(t) PROVE IInv'
  BY <1>2, RespondPreserves
<1>3. CASE Tick
  BY <1>3, TickPreserves
<1>4. CASE UNCHANGED vars
  BY <1>4 DEF vars, IInv, TypeOK, UnitsInTheirWindows, UnitsDiffer, WindowsApart,
              HitsBehind, ResetCoversTheWindow, RetryAfterIsNear, LastWindow, LastCount
<1> QED  BY <1>1, <1>2, <1>3, <1>4 DEF Next

-----------------------------------------------------------------------------
(* From the units to the limits.                                           *)

UnitsOf(w) == {g \in granted : g.window = w}

\* The units of one window have different numbers among 1..Limit.
LEMMA WindowBounded ==
  ASSUME IInv, NEW w
  PROVE  IsFiniteSet(UnitsOf(w)) /\ Cardinality(UnitsOf(w)) <= Limit
<1> DEFINE number == [g \in UnitsOf(w) |-> g.number]
<1>1. number \in [UnitsOf(w) -> 1..Limit]
  BY DEF IInv, UnitsInTheirWindows, UnitsOf
<1>2. \A g, h \in UnitsOf(w) : number[g] = number[h] => g = h
  BY DEF IInv, UnitsDiffer, UnitsOf
<1>3. number \in Injection(UnitsOf(w), 1..Limit)
  <2> HIDE DEF number
  <2> QED  BY <1>1, <1>2 DEF Injection, IsInjective
<1>4. IsFiniteSet(1..Limit) /\ Cardinality(1..Limit) = Limit
  BY FS_Interval, FixedWindowAssumption
<1> QED  BY <1>3, <1>4, FS_Injection

\* Three windows cannot all have units in an interval of a window's length:
\* their ends would be two windows apart.
LEMMA TwoWindows ==
  ASSUME IInv, NEW t \in Nat
  PROVE  \E v, w : AdmittedSince(t) \subseteq UnitsOf(v) \cup UnitsOf(w)
<1> USE WindowType
<1>1. \A g \in AdmittedSince(t) :
        g \in granted /\ g.window \in Nat /\ t < g.window /\ g.window < t + 2 * Window
  <2> TAKE g \in AdmittedSince(t)
  <2>1. /\ g \in granted /\ g.at \in Nat /\ g.window \in Nat
        /\ t <= g.at /\ g.at < t + Window
        /\ g.at < g.window /\ g.window <= g.at + Window
    BY DEF AdmittedSince, IInv, TypeOK, UnitsInTheirWindows, Unit
  <2> QED  BY <2>1
<1>2. \A g, h \in AdmittedSince(t) : g.window < h.window => g.window + Window <= h.window
  BY <1>1 DEF IInv, WindowsApart
<1>3. CASE \E g, h \in AdmittedSince(t) : g.window < h.window
  <2>1. PICK g, h \in AdmittedSince(t) : g.window < h.window
    BY <1>3
  <2>2. ASSUME NEW k \in AdmittedSince(t)
        PROVE  k.window = g.window \/ k.window = h.window
    BY <1>1, <1>2, <2>1
  <2>3. AdmittedSince(t) \subseteq UnitsOf(g.window) \cup UnitsOf(h.window)
    BY <1>1, <2>2 DEF UnitsOf
  <2> QED  BY <2>3
<1>4. CASE ~\E g, h \in AdmittedSince(t) : g.window < h.window
  <2>1. CASE AdmittedSince(t) = {}
    BY <2>1
  <2>2. CASE AdmittedSince(t) # {}
    <3>1. PICK g \in AdmittedSince(t) : TRUE
      BY <2>2
    <3>2. \A k \in AdmittedSince(t) : k.window = g.window
      BY <1>1, <1>4, <3>1
    <3>3. AdmittedSince(t) \subseteq UnitsOf(g.window) \cup UnitsOf(g.window)
      BY <1>1, <3>2 DEF UnitsOf
    <3> QED  BY <3>3
  <2> QED  BY <2>1, <2>2
<1> QED  BY <1>3, <1>4

\* An interval of the length of a window meets at most two windows.
LEMMA IntervalBounded == IInv => AtMostTwiceTheLimit
<1> SUFFICES ASSUME IInv, NEW t \in 0..MaxClock
             PROVE  Cardinality(AdmittedSince(t)) <= 2 * Limit
  BY DEF AtMostTwiceTheLimit
<1>1. PICK v, w : AdmittedSince(t) \subseteq UnitsOf(v) \cup UnitsOf(w)
  BY TwoWindows, FixedWindowAssumption
<1>2. /\ IsFiniteSet(UnitsOf(v)) /\ Cardinality(UnitsOf(v)) <= Limit
      /\ IsFiniteSet(UnitsOf(w)) /\ Cardinality(UnitsOf(w)) <= Limit
  BY WindowBounded
<1>3. /\ IsFiniteSet(UnitsOf(v) \cup UnitsOf(w))
      /\ Cardinality(UnitsOf(v) \cup UnitsOf(w)) =
           Cardinality(UnitsOf(v)) + Cardinality(UnitsOf(w))
             - Cardinality(UnitsOf(v) \cap UnitsOf(w))
  BY <1>2, FS_Union
<1>4. IsFiniteSet(UnitsOf(v) \cap UnitsOf(w))
  BY <1>2, FS_Intersection
<1>5. /\ Cardinality(UnitsOf(v)) \in Nat /\ Cardinality(UnitsOf(w)) \in Nat
      /\ Cardinality(UnitsOf(v) \cap UnitsOf(w)) \in Nat
      /\ Cardinality(AdmittedSince(t)) \in Nat
      /\ Cardinality(AdmittedSince(t)) <= Cardinality(UnitsOf(v) \cup UnitsOf(w))
  BY <1>1, <1>2, <1>3, <1>4, FS_CardinalityType, FS_Subset
<1> QED  BY <1>2, <1>3, <1>5, FixedWindowAssumption

-----------------------------------------------------------------------------
(* The theorems.                                                           *)

\* Every reachable state has the types of TypeOK: in particular an answer
\* never reports a negative number of requests left.
THEOREM TypeCorrect == Spec => []TypeOK
<1>1. IInv => TypeOK
  BY DEF IInv
<1> QED  BY InitIInv, NextIInv, <1>1, PTL DEF Spec

\* No window ever admits more than item.amount, however the hits of any number
\* of tasks interleave and whatever their costs.
THEOREM WindowLimit == Spec => []AtMostLimitPerWindow
<1>1. IInv => AtMostLimitPerWindow
  BY WindowBounded DEF AtMostLimitPerWindow, UnitsOf
<1> QED  BY InitIInv, NextIInv, <1>1, PTL DEF Spec

\* The promise of the class's docstring: at most twice the limit in any
\* interval of a window's length.
THEOREM TwiceTheLimit == Spec => []AtMostTwiceTheLimit
BY InitIInv, NextIInv, IntervalBounded, PTL DEF Spec

\* The reset time told to a blocked task is never before the end of the window
\* that blocked it, however late get_expiry is read.
THEOREM ResetIsNotEarly == Spec => []ResetCoversTheWindow
<1>1. IInv => ResetCoversTheWindow
  BY DEF IInv
<1> QED  BY InitIInv, NextIInv, <1>1, PTL DEF Spec

\* A blocked task that waits as it was told comes back at most half a second
\* before the end of the window that blocked it.
THEOREM RetryIsNear == Spec => []RetryAfterIsNear
<1>1. IInv => RetryAfterIsNear
  BY DEF IInv
<1> QED  BY InitIInv, NextIInv, <1>1, PTL DEF Spec
=============================================================================
