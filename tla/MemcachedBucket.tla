-------------------------- MODULE MemcachedBucket ---------------------------
(***************************************************************************)
(* backends/memcached.py, take_token: a bucket changed by compare-and-swap.*)
(*                                                                         *)
(* A call reads the bucket (gets), reads the clock, and writes what it     *)
(* computed with add, if it read nothing, or with cas, which the server    *)
(* refuses when the item was written since.  It tries again when refused,  *)
(* up to Retries times in all, and then refuses the request.  The requests *)
(* of all workers do so at the same time; one may fail at any await and be *)
(* gone.  A cas token is modelled by the set of the tasks whose token is   *)
(* still the item's.                                                       *)
(***************************************************************************)
EXTENDS Buckets

CONSTANTS Tasks,    \* the requests that use the bucket
          Retries   \* _CAS_RETRIES

ASSUME RetriesAssumption == Retries \in Nat \ {0}

VARIABLES clock,   \* now(), of workers and server alike
          item,    \* the key's item on the server
          fresh,   \* the tasks that hold the item's cas token
          pc,      \* where each task is: "idle", "gets", "now" or "store"
          call,    \* what each task knows: cost, tries, bucket and current
          given,   \* history: the tokens given away up to and at each time
          writes,  \* history: how often the item changed since each call began,
                   \* counted up to Retries
          answer   \* the last HitResult

vars == <<clock, item, fresh, pc, call, given, writes, answer>>

\* The promise, with the item for the bucket.
Promise == INSTANCE TokenBucket WITH bucket <- item

Knows(cost, tries, bucket, current) ==
  [cost |-> cost, tries |-> tries, bucket |-> bucket, current |-> current]
NoCall == Knows(0, 0, NoBucket, 0)
Call == [cost : Costs \cup {0}, tries : 0..(Retries - 1),
         bucket : Bucket \cup {NoBucket}, current : 0..MaxClock]

TypeOK ==
  /\ Promise!TypeOK
  /\ item # NoBucket => item.tokens \in 0..Capacity
  /\ fresh \subseteq Tasks
  /\ pc \in [Tasks -> {"idle", "gets", "now", "store"}]
  /\ call \in [Tasks -> Call]
  /\ writes \in [Tasks -> 0..Retries]

Init ==
  /\ Promise!Init
  /\ fresh = {}
  /\ pc = [t \in Tasks |-> "idle"]
  /\ call = [t \in Tasks |-> NoCall]
  /\ writes = [t \in Tasks |-> 0]

GoTo(t, step) == pc' = [pc EXCEPT ![t] = step]

\* gets, as the server answers it.
Gets(t, cost, tries) ==
  /\ GoTo(t, "now")
  /\ call' = [call EXCEPT ![t] = Knows(cost, tries, item, 0)]
  /\ fresh' = fresh \cup {t}
  /\ UNCHANGED <<clock, item, given, writes, answer>>

\* The first thing a call does.
Begin(t, cost) == pc[t] = "idle" /\ Gets(t, cost, 0)

\* The first thing of another try.
Again(t) == pc[t] = "gets" /\ Gets(t, call[t].cost, call[t].tries)

\* current = now()
ReadClock(t) ==
  /\ pc[t] = "now"
  /\ GoTo(t, "store")
  /\ call' = [call EXCEPT ![t] = Knows(@.cost, @.tries, @.bucket, clock)]
  /\ UNCHANGED <<clock, item, fresh, given, writes, answer>>

\* (Mutants of Accepted: set in the place of cas, and of add.)
AcceptedCas(t) == call[t].bucket = NoBucket => item = NoBucket
AcceptedAdd(t) == call[t].bucket # NoBucket => item # NoBucket /\ t \in fresh

\* The server accepts an add when there is no item, and a cas when the item
\* is the one that was read.
Accepted(t) ==
  IF call[t].bucket = NoBucket THEN item = NoBucket ELSE item # NoBucket /\ t \in fresh

\* The call takes effect soon enough after its stamp.
InTime(t) == clock <= call[t].current + MaxDelay

\* Counts a change of the item for the calls under way, but not for except.
WritesBut(except) ==
  [t \in Tasks |-> IF pc[t] = "idle" \/ t \in except THEN 0
                   ELSE IF writes[t] = Retries THEN Retries ELSE writes[t] + 1]

\* Return or raise: the call is over.
End(t) ==
  /\ GoTo(t, "idle")
  /\ call' = [call EXCEPT ![t] = NoCall]

\* add or cas succeeds.  The request may be gone before it hears of it.
Store(t) ==
  LET c == call[t]
  IN  /\ pc[t] = "store" /\ InTime(t)
      /\ Accepted(t)
      /\ item' = AfterCall(c.bucket, c.current, c.cost, clock)
      /\ fresh' = {}
      /\ given' = IF Enough(c.bucket, c.current, c.cost) THEN Promise!GivenWith(c.cost)
                  ELSE given
      /\ answer' \in {AnswerTo(c.bucket, c.current, c.cost), answer}
      /\ writes' = WritesBut({t})
      /\ End(t)
      /\ UNCHANGED clock

\* (Mutant of NextTry: the loop goes on with what it has read.)
NextTryOfTheSame(t) == GoTo(t, "now")

\* The loop starts over, with gets.
NextTry(t) == GoTo(t, "gets")

\* add or cas fails, and a try is left.
Retry(t) ==
  /\ pc[t] = "store" /\ InTime(t)
  /\ ~Accepted(t)
  /\ call[t].tries + 1 < Retries
  /\ NextTry(t)
  /\ call' = [call EXCEPT ![t] = Knows(@.cost, @.tries + 1, NoBucket, 0)]
  /\ UNCHANGED <<clock, item, fresh, given, writes, answer>>

\* add or cas fails for the last time.
GiveUp(t) ==
  /\ pc[t] = "store" /\ InTime(t)
  /\ ~Accepted(t)
  /\ call[t].tries + 1 = Retries
  /\ answer' = Promise!GiveUpAnswer
  /\ End(t)
  /\ writes' = [writes EXCEPT ![t] = 0]
  /\ UNCHANGED <<clock, item, fresh, given>>

\* A request fails or is cancelled at an await.
Fail(t) ==
  /\ pc[t] # "idle"
  /\ End(t)
  /\ fresh' = fresh \ {t}
  /\ writes' = [writes EXCEPT ![t] = 0]
  /\ UNCHANGED <<clock, item, given, answer>>

\* The server drops an item at the end of its time to live.
Expire ==
  /\ Promise!Forget
  /\ fresh' = {}
  /\ writes' = WritesBut({})
  /\ UNCHANGED <<pc, call>>

Tick ==
  /\ Promise!Tick
  /\ UNCHANGED <<fresh, pc, call, writes>>

Next ==
  \/ \E t \in Tasks :
       \/ \E cost \in Costs : Begin(t, cost)
       \/ ReadClock(t) \/ Store(t)
       \/ Retry(t) \/ Again(t) \/ GiveUp(t) \/ Fail(t)
  \/ Expire
  \/ Tick

Spec == Init /\ [][Next]_vars

-----------------------------------------------------------------------------
(* Properties.                                                             *)

\* The loop keeps the promise: each call is one atomic step, a refusal for
\* want of tokens or for want of luck, or nothing at all.
KeepsThePromise == Promise!Spec

\* So the bound on the tokens given away holds of it.
BurstIsBounded == Promise!BurstIsBounded

\* A call gives up only when the bucket was changed by others once for each of
\* its tries: some of them were served, or it expired.
GivesUpOnlyWhenOvertaken ==
  \A t \in Tasks : pc[t] = "store" /\ ~Accepted(t) => writes[t] > call[t].tries
=============================================================================
