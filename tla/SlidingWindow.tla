--------------------------- MODULE SlidingWindow ----------------------------
(***************************************************************************)
(* strategies/sliding_window.py: a rolling window approximated by two      *)
(* counters.                                                               *)
(*                                                                         *)
(* Time is cut into numbered windows, each with a counter of its own.  A   *)
(* hit reads the clock, then the counter of the clock's window and that of *)
(* the window before it, weighs the latter by the part of it that a window *)
(* ending now would still cover, and increments the former if the sum      *)
(* leaves room.  The clock's reading, the two gets and the incr are four   *)
(* moments: on a storage behind a connection (Redis, Memcached, SQLite's   *)
(* thread) other tasks hit the same key and time passes between them.      *)
(*                                                                         *)
(* One key is modelled, and its counters are told apart by the numbers of  *)
(* their windows; the storage neither evicts nor is reset.  peek is the    *)
(* reads of a hit and changes nothing.  Weighted counts are kept as        *)
(* multiples of 1/Window, so that they are exact integers.                 *)
(***************************************************************************)
EXTENDS Dicts, Counters, FiniteSets

CONSTANTS Tasks,           \* the requests that hit the key
          Limit, Seconds,  \* the rate: item.amount and item.expiry
          MaxCost,         \* a hit costs 1..MaxCost
          TicksPerSecond,
          MaxClock         \* bound of the model

\* item.expiry in ticks.
Window == Seconds * TicksPerSecond

\* rate.py refuses rates with a zero in them.
ASSUME SlidingWindowAssumption ==
  /\ IsFiniteSet(Tasks)
  /\ Limit \in Nat \ {0}
  /\ Seconds \in Nat \ {0} /\ TicksPerSecond \in Nat \ {0}
  /\ MaxCost \in Nat /\ MaxClock \in Nat

VARIABLES clock,    \* now()
          counters, \* the counters of the key, by the number of their window
          pc,       \* where each task is: "idle", "sampled", "current" or "previous"
          hit,      \* what the task knows: index, elapsed, cost and the two counts
          answer,   \* the HitResult returned to the task, until it hits again
          granted   \* history: the units admitted, by the number of their window

vars == <<clock, counters, pc, hit, answer, granted>>

Indices == 0..(MaxClock \div Window)
CounterEntry == [value : Nat, reset_at : Nat]
Sample == [index : Indices, elapsed : 0..(Window - 1), cost : 0..MaxCost,
           current : Nat, previous : Nat]
Answer == [allowed : BOOLEAN, remaining : 0..Limit, reset_at : Nat, retry_after : Nat]

NoHit == [index |-> 0, elapsed |-> 0, cost |-> 0, current |-> 0, previous |-> 0]
NoAnswer == [allowed |-> TRUE, remaining |-> Limit, reset_at |-> 0, retry_after |-> 0]

TypeOK ==
  /\ clock \in 0..MaxClock
  /\ IsDict(counters, Indices, CounterEntry)
  /\ pc \in [Tasks -> {"idle", "sampled", "current", "previous"}]
  /\ hit \in [Tasks -> Sample]
  /\ answer \in [Tasks -> Answer]
  /\ granted \in [Indices -> Nat]

Init ==
  /\ clock = 0
  /\ counters = EmptyDict
  /\ pc = [t \in Tasks |-> "idle"]
  /\ hit = [t \in Tasks |-> NoHit]
  /\ answer = [t \in Tasks |-> NoAnswer]
  /\ granted = [i \in Indices |-> 0]

-----------------------------------------------------------------------------
(* hit.                                                                    *)

\* _weighted_count, the reading of the clock.
Begin(t, cost) ==
  /\ pc[t] = "idle"
  /\ hit' = [hit EXCEPT ![t] =
       [index |-> clock \div Window, elapsed |-> clock % Window, cost |-> cost,
        current |-> 0, previous |-> 0]]
  /\ answer' = [answer EXCEPT ![t] = NoAnswer]
  /\ pc' = [pc EXCEPT ![t] = "sampled"]
  /\ UNCHANGED <<clock, counters, granted>>

\* _weighted_count: get of the window's counter.
ReadCurrent(t) ==
  /\ pc[t] = "sampled"
  /\ hit' = [hit EXCEPT ![t].current = Value(counters, hit[t].index, clock)]
  /\ pc' = [pc EXCEPT ![t] = "current"]
  /\ UNCHANGED <<clock, counters, answer, granted>>

\* _weighted_count: get of the counter of the window before.
ReadPrevious(t) ==
  /\ pc[t] = "current"
  /\ hit' = [hit EXCEPT ![t].previous = Value(counters, hit[t].index - 1, clock)]
  /\ pc' = [pc EXCEPT ![t] = "previous"]
  /\ UNCHANGED <<clock, counters, answer, granted>>

\* previous_count * previous_weight + current_count, times Window.
Blend(previous, elapsed, current) == previous * (Window - elapsed) + current * Window

Weighted(h) == Blend(h.previous, h.elapsed, h.current)

\* (Mutant of Fits: the cost of the hit is left out.)
FitsBeforeTheHit(h) == Weighted(h) <= Limit * Window

\* weighted + cost <= item.amount
Fits(h) == Weighted(h) + h.cost * Window <= Limit * Window

\* (Mutant of Remaining: without max(0).)
RemainingUnbounded(weighted) == Limit - (weighted + Window - 1) \div Window

\* max(0, item.amount - math.ceil(weighted))
Remaining(weighted) ==
  IF weighted <= Limit * Window THEN Limit - (weighted + Window - 1) \div Window ELSE 0

ResetAt(h) == (h.index + 1) * Window

\* (Mutant of Lifetime: a counter lives for its own window only.)
LifetimeOfOneWindow == Window

\* item.expiry * 2: the counter's own window and the next.
Lifetime == 2 * Window

\* The hit returns.
End(t) ==
  /\ pc' = [pc EXCEPT ![t] = "idle"]
  /\ hit' = [hit EXCEPT ![t] = NoHit]

\* A hit that fits: incr, and the answer.
Admit(t) ==
  LET h     == hit[t]
      entry == Incremented(counters, h.index, clock, Lifetime, h.cost)
  IN  /\ pc[t] = "previous"
      /\ Fits(h)
      /\ counters' = With(counters, h.index, entry)
      /\ granted' = [granted EXCEPT ![h.index] = @ + h.cost]
      /\ answer' = [answer EXCEPT ![t] =
           [allowed     |-> TRUE,
            remaining   |-> Remaining(Weighted(h) + h.cost * Window),
            reset_at    |-> ResetAt(h),
            retry_after |-> 0]]
      /\ End(t)
      /\ UNCHANGED clock

\* max(0, math.ceil(reset_at - now())), in seconds.
RetryAfter(h) ==
  IF ResetAt(h) <= clock THEN 0
  ELSE (ResetAt(h) - clock + TicksPerSecond - 1) \div TicksPerSecond

\* A hit that does not fit writes nothing.
Refuse(t) ==
  LET h == hit[t]
  IN  /\ pc[t] = "previous"
      /\ ~Fits(h)
      /\ answer' = [answer EXCEPT ![t] =
           [allowed     |-> FALSE,
            remaining   |-> Remaining(Weighted(h)),
            reset_at    |-> ResetAt(h),
            retry_after |-> RetryAfter(h)]]
      /\ End(t)
      /\ UNCHANGED <<clock, counters, granted>>

Tick ==
  /\ clock < MaxClock
  /\ clock' = clock + 1
  /\ UNCHANGED <<counters, pc, hit, answer, granted>>

Next ==
  \/ \E t \in Tasks :
       \/ \E cost \in 1..MaxCost : Begin(t, cost)
       \/ ReadCurrent(t) \/ ReadPrevious(t)
       \/ Admit(t) \/ Refuse(t)
  \/ Tick

Spec == Init /\ [][Next]_vars

-----------------------------------------------------------------------------
(* Properties.                                                             *)

\* The weighted count of the key at time T.
BlendAt(T) ==
  Blend(Value(counters, T \div Window - 1, T), T % Window, Value(counters, T \div Window, T))

\* Nothing admitted is forgotten while it can still matter: through its own
\* window and the next one, a window's counter is worth all that was admitted
\* in it, however late an increment came.
CountsAreKept ==
  \A i \in Indices :
    clock < (i + 2) * Window => Value(counters, i, clock) = granted[i]

\* The check and the increment are not atomic, and overlapping hits take the
\* weighted count past the limit, but by no more than what the tasks can have
\* under way at one moment: with one task the limit is exact.
OvershootIsBounded ==
  BlendAt(clock) <= (Limit - 1 + MaxCost * Cardinality(Tasks)) * Window

\* strategies/base.py, line 20: retry_after is the "Seconds a blocked client
\* should wait before retrying".  The code answers the end of the current
\* window, the moment at which that window's count begins to be weighed, in
\* full: a client that waits as told is refused again.
RetryAfterIsEnough ==
  \A t \in Tasks :
    pc[t] = "previous" /\ ~Fits(hit[t]) =>
      BlendAt(clock + RetryAfter(hit[t]) * TicksPerSecond) + hit[t].cost * Window
        <= Limit * Window
=============================================================================
