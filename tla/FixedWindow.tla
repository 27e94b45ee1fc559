---------------------------- MODULE FixedWindow -----------------------------
(***************************************************************************)
(* strategies/fixed_window.py: hits counted in discrete windows.           *)
(*                                                                         *)
(* A hit is two calls of a storage whose primitives are atomic: incr, and  *)
(* then get_expiry.  Between them other tasks (the requests of this worker *)
(* or of others that share the storage) hit the same key and time passes.  *)
(* Keys share nothing, so one key is modelled; the storage neither evicts  *)
(* it nor is reset.  peek changes nothing and has no action.               *)
(*                                                                         *)
(* Time is counted in ticks, TicksPerSecond to the second: the code's      *)
(* times are fractional, its windows and its retry_after whole seconds.    *)
(***************************************************************************)
EXTENDS Dicts, Counters, FiniteSets

CONSTANTS Tasks,           \* the requests that hit the key
          Key,             \* the storage key, fw:<rate>:<identity>
          Limit, Seconds,  \* the rate: item.amount and item.expiry
          Costs,           \* the costs of a hit
          TicksPerSecond,
          MaxClock, MaxCount  \* bounds of the model

\* item.expiry in ticks.
Window == Seconds * TicksPerSecond

ASSUME FixedWindowAssumption ==
  /\ Limit \in Nat
  /\ Seconds \in Nat \ {0} /\ TicksPerSecond \in Nat \ {0}
  /\ Costs \subseteq Nat
  /\ MaxClock \in Nat /\ MaxCount \in Nat

VARIABLES clock,    \* now()
          counters, \* the counters of the storage
          pc,       \* where each task is: "idle", or "counted" between the two calls
          hit,      \* what incr gave the task: value, and the window it counted in
          answer,   \* the HitResult last returned to the task
          granted   \* history: every unit of cost ever admitted

vars == <<clock, counters, pc, hit, answer, granted>>

\* A unit of admitted cost: when it was counted, the end of the window it was
\* counted in and the counter's value it accounts for.
Unit == [at : Nat, window : Nat, number : Nat]

CounterType == [value : Nat, reset_at : Nat]

NoHit == [value |-> 0, window |-> 0]
NoAnswer == [allowed |-> TRUE, remaining |-> Limit, reset_at |-> 0, retry_after |-> 0,
             given_at |-> 0]

TypeOK ==
  /\ clock \in 0..MaxClock
  /\ IsDict(counters, {Key}, CounterType)
  /\ pc \in [Tasks -> {"idle", "counted"}]
  /\ hit \in [Tasks -> [value : Nat, window : Nat]]
  /\ answer \in [Tasks -> [allowed : BOOLEAN, remaining : 0..Limit, reset_at : Nat,
                           retry_after : Nat, given_at : 0..MaxClock]]
  /\ granted \subseteq Unit

Init ==
  /\ clock = 0
  /\ counters = EmptyDict
  /\ pc = [t \in Tasks |-> "idle"]
  /\ hit = [t \in Tasks |-> NoHit]
  /\ answer = [t \in Tasks |-> NoAnswer]
  /\ granted = {}

\* (Mutant of Allowed: the hit itself is not counted.)
AllowedBeforeTheHit(value) == value <= Limit + 1

\* value <= item.amount
Allowed(value) == value <= Limit

\* The units a hit of this cost is granted: all of them or, when the counter
\* has passed the limit, none.
Grant(entry, cost) ==
  IF Allowed(entry.value)
  THEN {[at |-> clock, window |-> entry.reset_at, number |-> n] :
          n \in (entry.value - cost + 1)..entry.value}
  ELSE {}

\* hit, up to and with incr: the cost is counted whether or not it is admitted.
Count(t, cost) ==
  LET entry == Incremented(counters, Key, clock, Window, cost)
  IN  /\ pc[t] = "idle"
      /\ entry.value <= MaxCount
      /\ counters' = With(counters, Key, entry)
      /\ hit' = [hit EXCEPT ![t] = [value |-> entry.value, window |-> entry.reset_at]]
      /\ granted' = granted \cup Grant(entry, cost)
      /\ pc' = [pc EXCEPT ![t] = "counted"]
      /\ UNCHANGED <<clock, answer>>

\* (Mutant of RoundToSeconds: int() in the place of round().)
RoundDown(ticks) == ticks \div TicksPerSecond

\* round(): to whole seconds, a half to the even neighbour.
RoundToSeconds(ticks) ==
  LET whole == ticks \div TicksPerSecond
      rest  == 2 * (ticks % TicksPerSecond)
  IN  IF rest < TicksPerSecond \/ (rest = TicksPerSecond /\ whole % 2 = 0)
      THEN whole ELSE whole + 1

\* hit, from get_expiry to the result.
Respond(t) ==
  LET reset_at == ExpiryOf(counters, Key, clock)
      allowed  == Allowed(hit[t].value)
  IN  /\ pc[t] = "counted"
      /\ answer' = [answer EXCEPT ![t] =
           [allowed     |-> allowed,
            remaining   |-> IF allowed THEN Limit - hit[t].value ELSE 0,
            reset_at    |-> reset_at,
            retry_after |-> IF allowed THEN 0 ELSE RoundToSeconds(reset_at - clock),
            given_at    |-> clock]]
      /\ pc' = [pc EXCEPT ![t] = "idle"]
      /\ UNCHANGED <<clock, counters, hit, granted>>

Tick ==
  /\ clock < MaxClock
  /\ clock' = clock + 1
  /\ UNCHANGED <<counters, pc, hit, answer, granted>>

Next ==
  \/ \E t \in Tasks : (\E cost \in Costs : Count(t, cost)) \/ Respond(t)
  \/ Tick

Spec == Init /\ [][Next]_vars

-----------------------------------------------------------------------------
(* Properties.                                                             *)

\* However the hits of different tasks interleave, one window never admits
\* more than the limit.
AtMostLimitPerWindow ==
  \A w \in {g.window : g \in granted} :
    Cardinality({g \in granted : g.window = w}) <= Limit

\* The class's docstring: no interval of the length of a window, wherever it
\* starts, sees more than twice the limit admitted.
AdmittedSince(t) == {g \in granted : t <= g.at /\ g.at < t + Window}

AtMostTwiceTheLimit ==
  \A t \in 0..MaxClock : Cardinality(AdmittedSince(t)) <= 2 * Limit

\* get_expiry is read after the hit was counted and may see a later window,
\* or none, but never promises a reset before the window that counted the hit
\* has ended.
ResetCoversTheWindow ==
  \A t \in Tasks :
    pc[t] = "idle" /\ ~answer[t].allowed => answer[t].reset_at >= hit[t].window

\* strategies/base.py, line 20: retry_after is the "Seconds a blocked client
\* should wait before retrying".  The code rounds to the nearest second, so a
\* client that waits as told comes back no more than half a second before the
\* end of the window that blocked it, however late the answer was given.
RetryAfterIsNear ==
  \A t \in Tasks :
    pc[t] = "idle" /\ ~answer[t].allowed =>
      2 * (answer[t].given_at + answer[t].retry_after * TicksPerSecond) + TicksPerSecond
        >= 2 * hit[t].window
=============================================================================
