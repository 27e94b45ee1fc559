------------------------- MODULE MemcachedCounters --------------------------
(***************************************************************************)
(* backends/memcached.py, incr, get_expiry and reset, as the fixed window  *)
(* calls them.  A counter is two items of the server, each with a time to  *)
(* live of its own: the count, and the time it resets at.  Each command is *)
(* atomic; a hit is three or four of them, between which other tasks run   *)
(* and the items' time may come, and a request may fail at each.  The time *)
(* a count resets at is computed by the worker, before the command that    *)
(* sets it is sent: the set may take effect later, after other hits.  (A   *)
(* set under way when its request fails is a task that goes on to SetExp.) *)
(*                                                                         *)
(* One key of the storage is modelled.  The server holds an item until its *)
(* time is over, and evicts nothing before.                                *)
(***************************************************************************)
EXTENDS Integers, FiniteSets, FiniteSetsExt

CONSTANTS CounterTasks,  \* the requests that use the key
          Limit,         \* item.amount
          Expiry,        \* item.expiry, at most 30 days: exptime is relative
          HitCosts,      \* the costs of hits
          MaxCalls,      \* bound: the hits and resets in a behaviour
          SetDelay,      \* of a set, from its worker to the server
          MaxTime

ASSUME CountersAssumption ==
  /\ IsFiniteSet(CounterTasks)
  /\ {Limit, Expiry} \subseteq Nat \ {0}
  /\ IsFiniteSet(HitCosts) /\ HitCosts # {} /\ HitCosts \subseteq Nat \ {0}
  /\ {MaxCalls, SetDelay, MaxTime} \subseteq Nat

VARIABLES time,     \* now(), of workers and server alike
          counter,  \* the item that counts
          exp,      \* the item with the reset time
          command,  \* the command each task sends next
          knows,    \* what each task knows: its cost and the count it was told
          stamp,    \* the now() in the set that a task has sent
          result,   \* the last HitResult
          calls,    \* the hits and resets begun
          admitted, \* history: the units admitted up to and at each time
          wiped,    \* history: when a reset last deleted the count, or -1
          settled   \* history: the reset time of the present count was set, and
                    \* nothing has changed one without the other since

countersVars ==
  <<time, counter, exp, command, knows, stamp, result, calls, admitted, wiped, settled>>

NoItem == [value |-> 0, expires |-> 0]
Item == [value : Nat, expires : 0..(MaxTime + Expiry)]

\* The server has the item.
Held(item) == time < item.expires

Commands == {"idle", "stamp", "set", "touch", "incr", "get", "delete"}

Known(cost, value) == [cost |-> cost, value |-> value]

CountersTypeOK ==
  /\ time \in 0..MaxTime
  /\ {counter, exp} \subseteq Item
  /\ command \in [CounterTasks -> Commands]
  /\ knows \in [CounterTasks -> [cost : HitCosts \cup {0}, value : Nat]]
  /\ stamp \in [CounterTasks -> 0..MaxTime]
  /\ result \in [allowed : BOOLEAN, remaining : 0..Limit, reset_at : 0..(MaxTime + Expiry)]
  /\ calls \in 0..MaxCalls
  /\ admitted \in [0..MaxTime -> Nat]
  /\ wiped \in -1..MaxTime
  /\ settled \in BOOLEAN

CountersInit ==
  /\ time = 0
  /\ counter = NoItem
  /\ exp = NoItem
  /\ command = [t \in CounterTasks |-> "idle"]
  /\ knows = [t \in CounterTasks |-> Known(0, 0)]
  /\ stamp = [t \in CounterTasks |-> 0]
  /\ result = [allowed |-> TRUE, remaining |-> Limit, reset_at |-> 0]
  /\ calls = 0
  /\ admitted = [t \in 0..MaxTime |-> 0]
  /\ wiped = -1
  /\ settled = FALSE

Sends(t, next) == command' = [command EXCEPT ![t] = next]

Finish(t) ==
  /\ Sends(t, "idle")
  /\ knows' = [knows EXCEPT ![t] = Known(0, 0)]

Starts(t) ==
  /\ command[t] = "idle"
  /\ calls < MaxCalls
  /\ calls' = calls + 1

-----------------------------------------------------------------------------
(* A hit.                                                                  *)

\* (Mutant of Created: set in the place of add.)
CreatedBySet == TRUE

\* The server accepts the add.
Created == ~Held(counter)

\* incr begins: add(storage_key, b"0").
Add(t, cost, elastic) ==
  /\ Starts(t)
  /\ knows' = [knows EXCEPT ![t] = Known(cost, 0)]
  /\ IF Created
     THEN /\ counter' = [value |-> 0, expires |-> time + Expiry]
          /\ settled' = FALSE
          /\ Sends(t, "stamp")
     ELSE /\ Sends(t, IF elastic THEN "touch" ELSE "incr")
          /\ UNCHANGED <<counter, settled>>
  /\ UNCHANGED <<time, exp, stamp, result, admitted, wiped>>

\* The task that made the count computes its reset time, now() + expiry, and
\* sends it; its exptime begins when the server has it.
Stamp(t) ==
  /\ command[t] = "stamp"
  /\ stamp' = [stamp EXCEPT ![t] = time]
  /\ Sends(t, "set")
  /\ UNCHANGED <<time, counter, exp, knows, result, calls, admitted, wiped, settled>>

NewExp(t) == [value |-> stamp[t] + Expiry, expires |-> time + Expiry]

\* (Mutant of ExpAfterSet: add in the place of set.)
ExpAfterAdd(t) == IF Held(exp) THEN exp ELSE NewExp(t)

\* The reset time outlives its count, and is overwritten by the next one's.
ExpAfterSet(t) == NewExp(t)

\* The set takes effect, whichever count there is by now.
SetExp(t) ==
  /\ command[t] = "set"
  /\ exp' = ExpAfterSet(t)
  /\ settled' = TRUE
  /\ Sends(t, "incr")
  /\ UNCHANGED <<time, counter, knows, stamp, result, calls, admitted, wiped>>

\* touch, of an elastic expiry: the reset time is left as it is.
Touch(t) ==
  /\ command[t] = "touch"
  /\ counter' = IF Held(counter) THEN [counter EXCEPT !.expires = time + Expiry]
                ELSE counter
  /\ settled' = FALSE
  /\ Sends(t, "incr")
  /\ UNCHANGED <<time, exp, knows, stamp, result, calls, admitted, wiped>>

\* incr: a count that is gone by now counts nothing, the hit is then taken for
\* the first.  The strategy will admit the hit if the value is within the limit.
Incr(t) ==
  LET cost  == knows[t].cost
      value == IF Held(counter) THEN counter.value + cost ELSE cost
  IN  /\ command[t] = "incr"
      /\ counter' = IF Held(counter) THEN [counter EXCEPT !.value = value] ELSE counter
      /\ knows' = [knows EXCEPT ![t] = Known(cost, value)]
      /\ admitted' = [s \in 0..MaxTime |->
                        IF s >= time /\ value <= Limit THEN admitted[s] + cost
                        ELSE admitted[s]]
      /\ Sends(t, "get")
      /\ UNCHANGED <<time, exp, stamp, result, calls, wiped, settled>>

\* get_expiry.
ResetAt == IF Held(exp) THEN exp.value ELSE time

\* (Mutant of Remaining: max(0, ...) is forgotten.)
RemainingUnclamped(value) == Limit - value

Remaining(value) == IF value <= Limit THEN Limit - value ELSE 0

\* get_expiry, and the HitResult of fixed_window.hit.
GetExpiry(t) ==
  /\ command[t] = "get"
  /\ result' = [allowed   |-> knows[t].value <= Limit,
                remaining |-> Remaining(knows[t].value),
                reset_at  |-> ResetAt]
  /\ Finish(t)
  /\ UNCHANGED <<time, counter, exp, stamp, calls, admitted, wiped, settled>>

-----------------------------------------------------------------------------
(* A reset, failures and time.                                             *)

\* reset deletes the count first,
Reset(t) ==
  /\ Starts(t)
  /\ counter' = NoItem
  /\ wiped' = time
  /\ Sends(t, "delete")
  /\ UNCHANGED <<time, exp, knows, stamp, result, admitted, settled>>

\* and then the reset time, of whatever counts by now.
ResetExp(t) ==
  /\ command[t] = "delete"
  /\ exp' = NoItem
  /\ settled' = FALSE
  /\ Finish(t)
  /\ UNCHANGED <<time, counter, stamp, result, calls, admitted, wiped>>

\* A request fails or is cancelled between two commands.
FailHit(t) ==
  /\ command[t] # "idle"
  /\ Finish(t)
  /\ UNCHANGED <<time, counter, exp, stamp, result, calls, admitted, wiped, settled>>

TimePasses ==
  /\ time < MaxTime
  /\ \A t \in CounterTasks : command[t] = "set" => time < stamp[t] + SetDelay
  /\ time' = time + 1
  /\ UNCHANGED <<counter, exp, command, knows, stamp, result, calls, admitted, wiped, settled>>

CountersNext ==
  \/ \E t \in CounterTasks :
       \/ \E cost \in HitCosts, elastic \in BOOLEAN : Add(t, cost, elastic)
       \/ Stamp(t) \/ SetExp(t) \/ Touch(t) \/ Incr(t) \/ GetExpiry(t)
       \/ Reset(t) \/ ResetExp(t)
       \/ FailHit(t)
  \/ TimePasses

CountersSpec == CountersInit /\ [][CountersNext]_countersVars

-----------------------------------------------------------------------------
(* Properties.                                                             *)

GivenSince(a) == admitted[time] - IF a = 0 THEN 0 ELSE admitted[a - 1]

\* A hit whose count expires between its commands is admitted and not counted.
\* That costs no more than a hit of each task: an interval shorter than the
\* window, in which nothing is reset, meets two counts at most and one gap.
AdmittedInAWindow ==
  \A a \in 0..time :
    wiped < a /\ time - a < Expiry =>
      GivenSince(a) <= 2 * Limit + Max(HitCosts) * Cardinality(CounterTasks)

\* A count lasts no longer than the reset time that is announced for it, but for
\* the time a set may take to the server, unless a request failed between the
\* two, they were reset, or the count was touched.
ResetTimeCoversTheCount ==
  settled /\ Held(counter) => Held(exp) /\ counter.expires <= exp.value + SetDelay
=============================================================================
