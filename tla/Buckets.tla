------------------------------ MODULE Buckets -------------------------------
(***************************************************************************)
(* Token buckets: the arithmetic of take_token, which every storage does   *)
(* in the same way, and the parameters strategies/token_bucket.py gives    *)
(* it.                                                                     *)
(*                                                                         *)
(* A bucket holds up to Burst tokens and gains Amount of them in Seconds.  *)
(* Tokens are counted in parts, Whole of them to a token, of which Rate    *)
(* are gained in a tick: then every number of the code's is an integer.    *)
(***************************************************************************)
EXTENDS Integers

CONSTANTS Amount, Seconds, \* the rate: item.amount and item.expiry
          Burst,           \* the burst, item.amount by default
          Costs,           \* the costs of a hit, 0 being a peek
          MaxDelay,        \* from a call's stamp to its effect, in ticks
          TicksPerSecond,
          NoBucket,        \* what a storage has before the first call
          MaxClock         \* bound of the model

\* _params
Whole    == Seconds * TicksPerSecond
Capacity == Burst * Whole
Rate     == Amount

\* rate.py refuses rates with a zero in them.
ASSUME BucketsAssumption ==
  /\ Amount \in Nat \ {0} /\ Seconds \in Nat \ {0} /\ TicksPerSecond \in Nat \ {0}
  /\ Burst \in Nat
  /\ Costs \subseteq Nat
  /\ MaxDelay \in Nat /\ MaxClock \in Nat
  /\ NoBucket \notin [tokens : Int, last : Nat, expires : Nat]

\* math.ceil(n / d)
CeilDiv(n, d) == (n + d - 1) \div d

\* math.ceil(capacity / refill_rate) seconds: the storage may forget a bucket
\* once it is full.
Ttl == CeilDiv(Burst * Seconds, Amount) * TicksPerSecond

Bucket == [tokens : Int, last : Nat, expires : Nat]

\* min(capacity, tokens + (current - last) * refill_rate)
Refilled(bucket, current) ==
  IF bucket = NoBucket THEN Capacity
  ELSE LET tokens == bucket.tokens + (current - bucket.last) * Rate
       IN  IF tokens <= Capacity THEN tokens ELSE Capacity

\* (Mutant of Enough: one token is enough for any cost.)
EnoughForOne(bucket, current, cost) == cost > 0 => Refilled(bucket, current) >= Whole

Enough(bucket, current, cost) == Refilled(bucket, current) >= cost * Whole

\* The tokens a call leaves.
Left(bucket, current, cost) ==
  IF Enough(bucket, current, cost) THEN Refilled(bucket, current) - cost * Whole
  ELSE Refilled(bucket, current)

\* The bucket a call stamped current leaves when it takes effect at time t.
\* The call writes it whether or not it was allowed.
AfterCall(bucket, current, cost, t) ==
  [tokens |-> Left(bucket, current, cost), last |-> current, expires |-> t + Ttl]

Answer == [allowed : BOOLEAN, remaining : Int, retry_after : Nat]
NoAnswer == [allowed |-> TRUE, remaining |-> Burst, retry_after |-> 0]

\* The HitResult: the whole tokens left and, if refused, the seconds until
\* the missing ones are there.  (A peek's answer leaves the seconds out.)
AnswerTo(bucket, current, cost) ==
  LET left == Left(bucket, current, cost)
  IN  IF Enough(bucket, current, cost)
      THEN [allowed |-> TRUE, remaining |-> left \div Whole, retry_after |-> 0]
      ELSE [allowed |-> FALSE, remaining |-> left \div Whole,
            retry_after |-> CeilDiv(cost * Whole - left, Rate * TicksPerSecond)]
=============================================================================
