---------------------------- MODULE MovingWindow ----------------------------
(***************************************************************************)
(* strategies/moving_window.py: a log of the admissions of a key.          *)
(*                                                                         *)
(* A hit is three calls of the storage, acquire_entry, get_num_acquired    *)
(* and get_oldest_entry, each atomic; other tasks act and time passes in   *)
(* between.  Each call cuts the log to the window that ends at the time    *)
(* the caller stamps it with.  MemoryStorage and SQLiteStorage read the    *)
(* clock inside their lock or transaction.  RedisStorage reads it in the   *)
(* worker, before the call travels to the server: a call is stamped up to  *)
(* MaxDelay ticks before it takes effect, and so calls may take effect in  *)
(* another order than that of their stamps.                                *)
(*                                                                         *)
(* One key is modelled; the storage neither evicts it nor is reset.  peek  *)
(* makes the last two of the three calls; Peek is its part that cuts the   *)
(* log.                                                                    *)
(***************************************************************************)
EXTENDS EntryLogs

CONSTANTS Tasks,           \* the requests, each of which hits the key once
          Limit, Seconds,  \* the rate: item.amount and item.expiry
          Costs,           \* the costs of a hit
          MaxDelay,        \* from a call's stamp to its effect, in ticks
          TicksPerSecond,
          MaxClock         \* bound of the model

\* item.expiry in ticks.
Window == Seconds * TicksPerSecond

\* rate.py refuses rates with a zero in them.
ASSUME MovingWindowAssumption ==
  /\ Limit \in Nat \ {0}
  /\ Seconds \in Nat \ {0} /\ TicksPerSecond \in Nat \ {0}
  /\ Costs \subseteq Nat
  /\ MaxDelay \in Nat /\ MaxClock \in Nat

VARIABLES clock,   \* now()
          log,     \* the log of the key
          pc,      \* where each task is: "idle", "acquired", "counted" or "done"
          allowed, \* what acquire_entry told the task
          count,   \* what get_num_acquired told the task
          answer,  \* the WindowStats last returned to the task
          granted  \* history: every entry ever logged

vars == <<clock, log, pc, allowed, count, answer, granted>>

\* An entry: its stamp, a serial number that tells it from the others (the
\* unique member of Redis, the row of SQLite) and, as history, the time at
\* which it was logged.
Stamp(entry)    == Ts(entry)
LoggedAt(entry) == entry[3]

NoAnswer == [remaining |-> Limit, reset_at |-> 0, retry_after |-> 0]

TypeOK ==
  /\ clock \in 0..MaxClock
  /\ granted \subseteq Nat \X Nat \X Nat
  /\ IsFiniteSet(granted)
  /\ log \subseteq granted
  /\ pc \in [Tasks -> {"idle", "acquired", "counted", "done"}]
  /\ allowed \in [Tasks -> BOOLEAN]
  /\ count \in [Tasks -> Nat]
  /\ answer \in [Tasks -> [remaining : 0..Limit, reset_at : Nat, retry_after : Nat]]

Init ==
  /\ clock = 0
  /\ log = {}
  /\ pc = [t \in Tasks |-> "idle"]
  /\ allowed = [t \in Tasks |-> TRUE]
  /\ count = [t \in Tasks |-> 0]
  /\ answer = [t \in Tasks |-> NoAnswer]
  /\ granted = {}

\* The stamps a call that takes effect now can carry.
Stamps == {s \in 0..clock : clock - s <= MaxDelay}

\* The entries an admitted call makes.
New(s, cost) == {<<s, Cardinality(granted) + i, clock>> : i \in 1..cost}

\* hit: acquire_entry.  A refused hit consumes nothing.
Acquire(t, cost, s) ==
  LET kept == InWindow(log, s, Window)
      fits == Admits(log, s, Limit, Window, cost)
      new  == IF fits THEN New(s, cost) ELSE {}
  IN  /\ pc[t] = "idle"
      /\ log' = kept \cup new
      /\ granted' = granted \cup new
      /\ allowed' = [allowed EXCEPT ![t] = fits]
      /\ pc' = [pc EXCEPT ![t] = "acquired"]
      /\ UNCHANGED <<clock, count, answer>>

\* _stats: get_num_acquired.
CountEntries(t, s) ==
  /\ pc[t] = "acquired"
  /\ log' = InWindow(log, s, Window)
  /\ count' = [count EXCEPT ![t] = Cardinality(log')]
  /\ pc' = [pc EXCEPT ![t] = "counted"]
  /\ UNCHANGED <<clock, allowed, answer, granted>>

\* (Mutant of CeilToSeconds: part of a second is dropped.)
FloorToSeconds(ticks) == IF ticks <= 0 THEN 0 ELSE ticks \div TicksPerSecond

\* math.ceil, in seconds, of a number of ticks; nothing for a negative one.
CeilToSeconds(ticks) ==
  IF ticks <= 0 THEN 0 ELSE (ticks + TicksPerSecond - 1) \div TicksPerSecond

\* reset_at, of a log that get_oldest_entry has cut: when its oldest entry
\* leaves the window.
ResetAt(cut) == IF cut = {} THEN clock ELSE Oldest(cut) + Window

\* (Mutant of Stats: the hit is subtracted once more, without max(0).)
StatsCountingTwice(fits, number, reset_at) ==
  LET left == Limit - number - 1
      wait == IF left = 0 THEN CeilToSeconds(reset_at - clock) ELSE 0
  IN  [remaining   |-> IF fits THEN left ELSE 0,
       reset_at    |-> reset_at,
       retry_after |-> IF ~fits /\ wait = 0 THEN 1 ELSE wait]

\* The WindowStats of hit, from the two reads and acquire_entry's verdict.
Stats(fits, number, reset_at) ==
  LET left == IF number < Limit THEN Limit - number ELSE 0
      wait == IF left = 0 THEN CeilToSeconds(reset_at - clock) ELSE 0
  IN  [remaining   |-> IF fits THEN left ELSE 0,
       reset_at    |-> reset_at,
       retry_after |-> IF ~fits /\ wait = 0 THEN 1 ELSE wait]

\* _stats: get_oldest_entry, and the rest of hit.
Respond(t, s) ==
  /\ pc[t] = "counted"
  /\ log' = InWindow(log, s, Window)
  /\ answer' = [answer EXCEPT ![t] = Stats(allowed[t], count[t], ResetAt(log'))]
  /\ pc' = [pc EXCEPT ![t] = "done"]
  /\ UNCHANGED <<clock, allowed, count, granted>>

\* peek, by anyone: both its calls cut the log.
Peek(s) ==
  /\ log' = InWindow(log, s, Window)
  /\ UNCHANGED <<clock, pc, allowed, count, answer, granted>>

Tick ==
  /\ clock < MaxClock
  /\ clock' = clock + 1
  /\ UNCHANGED <<log, pc, allowed, count, answer, granted>>

Next ==
  \/ \E s \in Stamps :
       \/ \E t \in Tasks : \/ \E cost \in Costs : Acquire(t, cost, s)
                           \/ CountEntries(t, s)
                           \/ Respond(t, s)
       \/ Peek(s)
  \/ Tick

Spec == Init /\ [][Next]_vars

-----------------------------------------------------------------------------
(* Properties.                                                             *)

\* The entries logged after time a and until a + length.
LoggedIn(a, length) == {g \in granted : a < LoggedAt(g) /\ LoggedAt(g) <= a + length}

\* Wherever it starts, no interval shorter than the window by the delay of the
\* calls sees more than the limit admitted: with a clock read under the lock,
\* no interval of the window's length.
AtMostLimitInAnyWindow ==
  \A a \in (-1)..MaxClock : Cardinality(LoggedIn(a, Window - MaxDelay)) <= Limit

\* The class's docstring (moving_window.py, line 14) says the strategy "never
\* allows more than the limit in any window".  Calls that take effect after
\* their stamps break it: an entry with an old stamp is cut before a window
\* has passed since it was admitted.
NeverMoreThanLimitInAnyWindow ==
  \A a \in (-1)..MaxClock : Cardinality(LoggedIn(a, Window)) <= Limit

\* The reset time and the waiting time of an answer are right for the log the
\* answer was made from, although the count behind them was read earlier: no
\* entry leaves before reset_at, and when the count was at the limit, there is
\* room for another unit after waiting as told.
AnswersWithTheNextFreeSlot ==
  [][\A t \in Tasks :
       pc[t] = "counted" /\ pc'[t] = "done" =>
         /\ \A T \in clock..(answer'[t].reset_at - 1) : InWindow(log', T, Window) = log'
         /\ count[t] >= Limit =>
              LET back == clock + answer'[t].retry_after * TicksPerSecond
              IN  Cardinality(InWindow(log', back, Window)) < Limit]_vars
=============================================================================
