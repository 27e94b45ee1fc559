---------------------------- MODULE TokenBucket -----------------------------
(***************************************************************************)
(* What strategies/token_bucket.py is promised by take_token, and promises *)
(* in turn: a bucket that calls read and write in one atomic step.         *)
(*                                                                         *)
(* This is how the storages in memory, in SQLite and in Redis work.  The   *)
(* first two read the clock in that step (MaxDelay is 0).  RedisStorage    *)
(* stamps the call in the worker, so that it takes effect up to MaxDelay   *)
(* later, and calls may take effect out of the order of their stamps.      *)
(* Redis and Memcached forget a bucket when its time to live is over.      *)
(* Memcached's take_token is no atomic step: module MemcachedBucket shows  *)
(* that it behaves like one, but for calls that give up, for which GiveUp  *)
(* stands here.                                                            *)
(*                                                                         *)
(* One key is modelled.  A peek is a hit of cost 0: it writes the bucket.  *)
(***************************************************************************)
EXTENDS Buckets

VARIABLES clock,   \* now()
          bucket,  \* what the storage holds for the key
          given,   \* history: the tokens given away up to and at each time
          answer   \* the last HitResult

vars == <<clock, bucket, given, answer>>

TypeOK ==
  /\ clock \in 0..MaxClock
  /\ bucket \in Bucket \cup {NoBucket}
  /\ given \in [0..MaxClock -> Nat]
  /\ answer \in Answer

Init ==
  /\ clock = 0
  /\ bucket = NoBucket
  /\ given = [t \in 0..MaxClock |-> 0]
  /\ answer = NoAnswer

\* The history once cost more tokens are given away.
GivenWith(cost) == [t \in 0..MaxClock |-> IF t >= clock THEN given[t] + cost ELSE given[t]]

\* take_token, stamped current.  It may take effect after its request is gone.
Take(current, cost) ==
  /\ current <= clock /\ clock <= current + MaxDelay
  /\ bucket' = AfterCall(bucket, current, cost, clock)
  /\ given' = IF Enough(bucket, current, cost) THEN GivenWith(cost) ELSE given
  /\ answer' \in {AnswerTo(bucket, current, cost), answer}
  /\ UNCHANGED clock

\* The refusal of a call that lost every race for the bucket.
GiveUpAnswer == [allowed |-> FALSE, remaining |-> 0, retry_after |-> Ttl \div TicksPerSecond]

GiveUp ==
  /\ answer' = GiveUpAnswer
  /\ UNCHANGED <<clock, bucket, given>>

\* The time to live is over: a bucket that is full by now is forgotten.
Forget ==
  /\ bucket # NoBucket
  /\ bucket.expires <= clock
  /\ bucket' = NoBucket
  /\ UNCHANGED <<clock, given, answer>>

Tick ==
  /\ clock < MaxClock
  /\ clock' = clock + 1
  /\ UNCHANGED <<bucket, given, answer>>

Next ==
  \/ \E cost \in Costs, current \in 0..clock : Take(current, cost)
  \/ GiveUp
  \/ Forget
  \/ Tick

Spec == Init /\ [][Next]_vars

-----------------------------------------------------------------------------
(* Properties.                                                             *)

\* The tokens given away from time a on.
GivenSince(a) == given[clock] - IF a = 0 THEN 0 ELSE given[a - 1]

\* README.md, lines 388-390: whatever the calls, no interval sees more tokens
\* given away than a full bucket and what it gains in the interval, and in the
\* delay of a call.  A forgotten bucket starts full: when calls are delayed,
\* each time this happens may add another delay's worth, which is why longer
\* intervals are left out then.
BurstIsBounded ==
  \A a \in 0..clock :
    clock - a < Ttl \/ MaxDelay = 0 =>
      GivenSince(a) * Whole <= Capacity + Rate * (clock - a + MaxDelay)
=============================================================================
