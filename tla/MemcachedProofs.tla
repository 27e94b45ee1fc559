-------------------------- MODULE MemcachedProofs ---------------------------
(***************************************************************************)
(* Theorems about the token bucket and about the Memcached storage.        *)
(*                                                                         *)
(* First the atomic bucket of TokenBucket, with the item of Memcached for  *)
(* the bucket.  For every time a its invariant keeps an account: what was  *)
(* given away since a and what the bucket still holds came out of a full   *)
(* bucket and of the time from a, less a delay, to the bucket's last stamp.*)
(* A bucket that was used since a cannot be forgotten within Ttl of a;     *)
(* without a delay a forgotten bucket had filled up, so what was given     *)
(* away since a was also gained since a.                                   *)
(*                                                                         *)
(* Then MemcachedBucket: its loop implements that bucket.  The invariant   *)
(* says what a task knows of the item it has read: while its cas token is  *)
(* the item's, what it has read is the item, so the step in which its cas  *)
(* is accepted is a whole call of the atomic bucket.                       *)
(*                                                                         *)
(* Then MemcachedCounters.  An interval shorter than the window meets an   *)
(* old count, a gap without one, and a new count; in the gap every task    *)
(* takes its hit for the first at most once before it makes the new count. *)
(***************************************************************************)
EXTENDS MemcachedBucket, MemcachedCounters, StoreLemmas

-----------------------------------------------------------------------------
(* The atomic bucket.                                                      *)

\* The history is cumulative and has not been written ahead of time.
BucketHistory ==
  /\ \A t \in 0..MaxClock : given[t] <= given[clock]
  /\ \A t \in clock..MaxClock : given[t] = given[clock]

\* A bucket is no fuller than full, was written after its stamp and no more
\* than a delay after it, and would not be overdrawn if it were used now.
BucketIsSound ==
  item # NoBucket =>
    /\ item.tokens <= Promise!Capacity
    /\ 0 <= item.tokens + Promise!Rate * (clock - item.last)
    /\ MaxDelay = 0 => 0 <= item.tokens
    /\ item.last + Promise!Ttl <= item.expires
    /\ item.expires <= clock + Promise!Ttl
    /\ item.expires <= item.last + MaxDelay + Promise!Ttl

\* The account of the time from a on.
BucketAccount(a) ==
  IF item = NoBucket
  THEN /\ MaxDelay = 0
       /\ Promise!GivenSince(a) * Promise!Whole <= Promise!Rate * (clock - a)
  ELSE /\ a + Promise!Ttl <= item.expires
       /\ Promise!GivenSince(a) * Promise!Whole + item.tokens <=
              Promise!Capacity + Promise!Rate * (item.last - a + MaxDelay)

BucketAccounts ==
  \A a \in 0..clock :
    (clock - a < Promise!Ttl \/ MaxDelay = 0) /\ Promise!GivenSince(a) > 0 => BucketAccount(a)

BucketIInv == Promise!TypeOK /\ BucketHistory /\ BucketIsSound /\ BucketAccounts

-----------------------------------------------------------------------------
(* Arithmetic.                                                             *)

\* Quotients rounded up: math.ceil is no less than what it rounds.
LEMMA CeilDivIsEnough ==
  ASSUME NEW n \in Nat, NEW d \in Nat \ {0}
  PROVE  Promise!CeilDiv(n, d) \in Nat /\ n <= d * Promise!CeilDiv(n, d)
<1>1. /\ (n + d - 1) \div d \in Int
      /\ n + d - 1 = d * ((n + d - 1) \div d) + ((n + d - 1) % d)
      /\ (n + d - 1) % d \in 0..(d - 1)
  BY SMTT(30)
<1>2. n <= d * ((n + d - 1) \div d)
  <2> DEFINE q == (n + d - 1) \div d
             r == (n + d - 1) % d
             p == d * q
  <2>1. p \in Int
    BY <1>1
  <2>2. n + d - 1 = p + r /\ r \in 0..(d - 1)
    BY <1>1
  <2> HIDE DEF p, r
  <2>3. n <= p
    BY <2>1, <2>2
  <2> QED  BY <2>3 DEF p
<1>3. (n + d - 1) \div d >= 0
  BY SMTT(30)
<1> QED  BY <1>1, <1>2, <1>3 DEF Promise!CeilDiv

\* The parameters of _params and the time to live are natural numbers.
LEMMA BucketParameters ==
  /\ Promise!Whole \in Nat \ {0}
  /\ Promise!Capacity \in Nat
  /\ Promise!Rate \in Nat \ {0}
  /\ Promise!Ttl \in Nat
  /\ MaxDelay \in Nat /\ MaxClock \in Nat /\ Costs \subseteq Nat
<1> USE BucketsAssumption
<1>1. Promise!Whole \in Nat \ {0}
  BY DEF Promise!Whole
<1>2. Promise!Capacity \in Nat /\ Burst * Seconds \in Nat
  BY <1>1 DEF Promise!Capacity
<1>3. Promise!Ttl \in Nat
  BY <1>2, CeilDivIsEnough DEF Promise!Ttl
<1> QED  BY <1>1, <1>2, <1>3 DEF Promise!Rate

\* A bucket is full again within its time to live.
LEMMA FullWithinTtl == Promise!Capacity <= Promise!Rate * Promise!Ttl
<1> USE BucketsAssumption
<1> DEFINE c == Promise!CeilDiv(Burst * Seconds, Amount)
<1>1. Burst * Seconds \in Nat
  OBVIOUS
<1>2. c \in Nat /\ Burst * Seconds <= Amount * c
  BY <1>1, CeilDivIsEnough
<1> HIDE DEF c
<1>3. Amount * c \in Nat
  BY <1>2
<1>4. \A x, y, z \in Nat : x <= y => x * z <= y * z
  BY SMTT(30)
<1>5. (Burst * Seconds) * TicksPerSecond <= (Amount * c) * TicksPerSecond
  BY <1>1, <1>2, <1>3, <1>4
<1>6. (Amount * c) * TicksPerSecond = Amount * (c * TicksPerSecond)
  BY <1>2
<1>7. Promise!Capacity = (Burst * Seconds) * TicksPerSecond
  BY DEF Promise!Capacity, Promise!Whole
<1> QED  BY <1>5, <1>6, <1>7 DEF Promise!Rate, Promise!Ttl, c

\* Products with a natural number distribute and are monotone.
LEMMA Products ==
  ASSUME NEW k \in Nat
  PROVE  /\ \A x \in Int : k * x \in Int /\ x * k \in Int
         /\ \A x, y \in Int : k * (x - y) = k * x - k * y
         /\ \A x, y \in Int : k * (x + y) = k * x + k * y
         /\ \A x, y \in Int : (x + y) * k = x * k + y * k
         /\ \A x, y \in Int : x <= y => k * x <= k * y
         /\ \A x \in Nat : x * k \in Nat
BY SMTT(30)

-----------------------------------------------------------------------------
(* What a call does to a bucket.                                           *)

\* The tokens a call gives away.
Taken(b, current, cost) == IF Promise!Enough(b, current, cost) THEN cost ELSE 0

\* A call finds at most a full bucket, and in a known one at most what was
\* left and what was gained since; what it gives away comes out of that, and
\* the rest stays.
LEMMA CallFacts ==
  ASSUME NEW b \in Promise!Bucket \cup {NoBucket}, NEW current \in Nat, NEW cost \in Costs
  PROVE  LET found == Promise!Refilled(b, current)
             left  == Promise!Left(b, current, cost)
         IN  /\ found \in Int /\ found <= Promise!Capacity
             /\ b = NoBucket => found = Promise!Capacity
             /\ b # NoBucket => found <= b.tokens + Promise!Rate * (current - b.last)
             /\ b # NoBucket =>
                    found \in {Promise!Capacity, b.tokens + Promise!Rate * (current - b.last)}
             /\ left \in Int
             /\ Taken(b, current, cost) \in Nat
             /\ left + Taken(b, current, cost) * Promise!Whole = found
             /\ left >= 0 \/ left = found
<1> USE BucketParameters
<1> DEFINE known == b.tokens + (current - b.last) * Promise!Rate
<1>1. b # NoBucket =>
        /\ known \in Int
        /\ known = b.tokens + Promise!Rate * (current - b.last)
  BY BucketsAssumption DEF Promise!Bucket
<1>2. Promise!Refilled(b, current) =
        IF b = NoBucket THEN Promise!Capacity
        ELSE IF known <= Promise!Capacity THEN known ELSE Promise!Capacity
  BY DEF Promise!Refilled
<1> HIDE DEF known
<1> DEFINE found == Promise!Refilled(b, current)
<1>3. /\ found \in Int /\ found <= Promise!Capacity
      /\ b = NoBucket => found = Promise!Capacity
      /\ b # NoBucket => found <= b.tokens + Promise!Rate * (current - b.last)
      /\ b # NoBucket =>
             found \in {Promise!Capacity, b.tokens + Promise!Rate * (current - b.last)}
  BY <1>1, <1>2
<1> HIDE DEF found
<1>4. cost \in Nat /\ cost * Promise!Whole \in Nat /\ 0 * Promise!Whole = 0
  OBVIOUS
<1>5. Promise!Left(b, current, cost) =
          IF Promise!Enough(b, current, cost) THEN found - cost * Promise!Whole ELSE found
  BY DEF Promise!Left, found
<1>6. Promise!Enough(b, current, cost) <=> found >= cost * Promise!Whole
  BY DEF Promise!Enough, found
<1>7. /\ Promise!Left(b, current, cost) \in Int
      /\ Taken(b, current, cost) \in Nat
      /\ Promise!Left(b, current, cost) + Taken(b, current, cost) * Promise!Whole = found
      /\ Promise!Left(b, current, cost) >= 0 \/ Promise!Left(b, current, cost) = found
  <2>1. CASE Promise!Enough(b, current, cost)
    <3>1. /\ Taken(b, current, cost) = cost
          /\ Promise!Left(b, current, cost) = found - cost * Promise!Whole
      BY <1>5, <2>1 DEF Taken
    <3> QED  BY <1>3, <1>4, <1>6, <2>1, <3>1
  <2>2. CASE ~Promise!Enough(b, current, cost)
    <3>1. Taken(b, current, cost) = 0 /\ Promise!Left(b, current, cost) = found
      BY <1>5, <2>2 DEF Taken
    <3> QED  BY <1>3, <1>4, <3>1
  <2> QED  BY <2>1, <2>2
<1> QED  BY <1>3, <1>7 DEF found

\* The answer of a call is an answer.
LEMMA BucketAnswerType ==
  ASSUME NEW b \in Promise!Bucket \cup {NoBucket}, NEW current \in Nat, NEW cost \in Costs
  PROVE  Promise!AnswerTo(b, current, cost) \in Promise!Answer
<1> USE BucketParameters
<1> DEFINE left == Promise!Left(b, current, cost)
           missing == cost * Promise!Whole - left
<1>1. left \in Int /\ cost * Promise!Whole \in Nat
  BY CallFacts
<1>2. ~Promise!Enough(b, current, cost) => left < cost * Promise!Whole
  BY <1>1, CallFacts DEF Promise!Enough, Promise!Left
<1>3. Promise!Rate * TicksPerSecond \in Nat \ {0}
  BY BucketsAssumption
<1>4. ~Promise!Enough(b, current, cost) =>
          Promise!CeilDiv(missing, Promise!Rate * TicksPerSecond) \in Nat
  <2> HIDE DEF left
  <2>1. ~Promise!Enough(b, current, cost) => missing \in Nat
    BY <1>1, <1>2
  <2> HIDE DEF missing
  <2> QED  BY <1>3, <2>1, CeilDivIsEnough
<1>5. left \div Promise!Whole \in Int
  <2> HIDE DEF left
  <2> QED  BY <1>1, SMTT(30)
<1> QED  BY <1>4, <1>5 DEF Promise!AnswerTo, Promise!Answer

\* What the caller is told when take_token gives up is an answer.
LEMMA BucketGiveUpType == Promise!GiveUpAnswer \in Promise!Answer
<1>1. Promise!Ttl \div TicksPerSecond \in Nat
  <2> DEFINE c == Promise!CeilDiv(Burst * Seconds, Amount)
  <2>1. c \in Nat
    BY CeilDivIsEnough, BucketsAssumption
  <2> HIDE DEF c
  <2>2. \A x \in Nat, d \in Nat \ {0} : (x * d) \div d \in Nat
    BY SMTT(30)
  <2>3. Promise!Ttl = c * TicksPerSecond
    BY DEF Promise!Ttl, c
  <2> QED  BY <2>1, <2>2, <2>3, BucketsAssumption
<1> QED  BY <1>1 DEF Promise!GiveUpAnswer, Promise!Answer

-----------------------------------------------------------------------------
(* The history.                                                            *)

\* What was given since a time is a number.
LEMMA GivenSinceType ==
  ASSUME Promise!TypeOK, BucketHistory, NEW a \in 0..clock
  PROVE  Promise!GivenSince(a) \in Nat
<1>1. clock \in 0..MaxClock /\ a \in 0..MaxClock
  BY BucketParameters DEF Promise!TypeOK
<1>2. CASE a = 0
  BY <1>1, <1>2 DEF Promise!TypeOK, Promise!GivenSince
<1>3. CASE a # 0
  <2>1. a - 1 \in 0..MaxClock
    BY <1>1, <1>3, BucketParameters
  <2>2. given[a - 1] \in Nat /\ given[clock] \in Nat /\ given[a - 1] <= given[clock]
    BY <1>1, <2>1 DEF Promise!TypeOK, BucketHistory
  <2> QED  BY <1>3, <2>2 DEF Promise!GivenSince
<1> QED  BY <1>2, <1>3

\* What a call gives away was given away since every earlier time.
LEMMA GivenByTake ==
  ASSUME Promise!TypeOK, BucketHistory, NEW current \in Nat, NEW cost \in Costs,
         Promise!Take(current, cost)
  PROVE  /\ given' \in [0..MaxClock -> Nat]
         /\ BucketHistory'
         /\ \A a \in 0..clock :
              Promise!GivenSince(a)' = Promise!GivenSince(a) + Taken(item, current, cost)
<1> USE BucketParameters
<1> DEFINE c == Taken(item, current, cost)
<1>1. c \in Nat
  BY CallFacts DEF Promise!TypeOK
<1>2. given' = [t \in 0..MaxClock |-> IF t >= clock THEN given[t] + c ELSE given[t]]
  <2>1. CASE Promise!Enough(item, current, cost)
    BY <2>1 DEF Promise!Take, Promise!GivenWith, Taken
  <2>2. CASE ~Promise!Enough(item, current, cost)
    <3>1. c = 0 /\ given' = given
      BY <2>2 DEF Promise!Take, Taken
    <3>2. \A t \in 0..MaxClock : given[t] + 0 = given[t]
      BY DEF Promise!TypeOK
    <3> QED  BY <3>1, <3>2 DEF Promise!TypeOK
  <2> QED  BY <2>1, <2>2
<1>3. clock \in 0..MaxClock /\ clock' = clock
  BY DEF Promise!TypeOK, Promise!Take
<1> HIDE DEF c
<1>4. given' \in [0..MaxClock -> Nat]
  BY <1>1, <1>2 DEF Promise!TypeOK
<1>5. BucketHistory'
  BY <1>1, <1>2, <1>3 DEF BucketHistory, Promise!TypeOK
<1>6. ASSUME NEW a \in 0..clock
      PROVE  Promise!GivenSince(a)' = Promise!GivenSince(a) + c
  <2>1. given'[clock] = given[clock] + c /\ given[clock] \in Nat
    BY <1>2, <1>3 DEF Promise!TypeOK
  <2>2. CASE a = 0
    BY <1>1, <1>3, <2>1, <2>2 DEF Promise!GivenSince
  <2>3. CASE a # 0
    <3>1. a - 1 \in 0..MaxClock /\ ~(a - 1 >= clock)
      BY <1>3, <2>3
    <3>2. given'[a - 1] = given[a - 1] /\ given[a - 1] \in Nat
      BY <1>2, <3>1 DEF Promise!TypeOK
    <3> QED  BY <1>1, <1>3, <2>1, <2>3, <3>2 DEF Promise!GivenSince
  <2> QED  BY <2>2, <2>3
<1> QED  BY <1>4, <1>5, <1>6 DEF c

-----------------------------------------------------------------------------
(* A call keeps the accounts.                                              *)

\* What a call leaves is a bucket as BucketInv wants it.
LEMMA TakeKeepsTheBucket ==
  ASSUME Promise!TypeOK, BucketIsSound, NEW current \in 0..clock, NEW cost \in Costs,
         Promise!Take(current, cost)
  PROVE  BucketIsSound' /\ item' \in Promise!Bucket
<1> USE BucketParameters
<1> DEFINE found == Promise!Refilled(item, current)
           left  == Promise!Left(item, current, cost)
           k     == Taken(item, current, cost) * Promise!Whole
<1>1. clock \in Nat /\ current \in Nat /\ item \in Promise!Bucket \cup {NoBucket}
  BY DEF Promise!TypeOK
<1>2. /\ found \in Int /\ found <= Promise!Capacity /\ left \in Int
      /\ left + k = found
      /\ left >= 0 \/ left = found
      /\ k \in Nat
      /\ item = NoBucket => found = Promise!Capacity
      /\ item # NoBucket =>
             found \in {Promise!Capacity, item.tokens + Promise!Rate * (current - item.last)}
  <2>1. Taken(item, current, cost) \in Nat
    BY <1>1, CallFacts
  <2>2. k \in Nat
    BY <2>1, Products
  <2> QED  BY <1>1, <2>2, CallFacts
<1>3. /\ item' = [tokens |-> left, last |-> current, expires |-> clock + Promise!Ttl]
      /\ clock' = clock /\ clock <= current + MaxDelay
  BY DEF Promise!Take, Promise!AfterCall
<1>4. item' \in Promise!Bucket
  BY <1>1, <1>2, <1>3 DEF Promise!Bucket
<1>5. Promise!Rate * (clock - current) \in Nat
  <2>1. clock - current \in Nat
    BY <1>1
  <2> QED  BY <2>1
<1>6. 0 <= left + Promise!Rate * (clock - current)
  <2>1. CASE left >= 0
    BY <1>2, <1>5, <2>1
  <2>2. CASE left = found /\ found = Promise!Capacity
    BY <1>2, <1>5, <2>2
  <2>3. CASE /\ left = found /\ item # NoBucket
             /\ found = item.tokens + Promise!Rate * (current - item.last)
    <3>1. 0 <= item.tokens + Promise!Rate * (clock - item.last)
      BY <2>3 DEF BucketIsSound
    <3>2. item.last \in Nat /\ item.tokens \in Int
      BY <1>1, <2>3 DEF Promise!Bucket
    <3>3. Promise!Rate * (clock - item.last) =
              Promise!Rate * (current - item.last) + Promise!Rate * (clock - current)
      <4>1. clock - item.last = (current - item.last) + (clock - current)
        BY <1>1, <3>2
      <4>2. current - item.last \in Int /\ clock - current \in Int
        BY <1>1, <3>2
      <4> QED  BY <4>1, <4>2, Products
    <3>4. Promise!Rate * (current - item.last) \in Int
      BY <1>1, <3>2
    <3> HIDE DEF found, left, k
    <3> QED  BY <1>5, <2>3, <3>1, <3>2, <3>3, <3>4
  <2> QED  BY <1>2, <2>1, <2>2, <2>3
<1>7. BucketIsSound'
  <2> HIDE DEF found, left, k
  <2>1. left <= Promise!Capacity
    BY <1>2
  <2>2. /\ item'.tokens = left /\ item'.last = current
        /\ item'.expires = clock + Promise!Ttl
    BY <1>3
  <2>3. MaxDelay = 0 => 0 <= left
    <3>1. MaxDelay = 0 => clock - current = 0
      BY <1>1, <1>3
    <3>2. Promise!Rate * 0 = 0
      OBVIOUS
    <3> QED  BY <1>2, <1>6, <3>1, <3>2
  <2> QED  BY <1>1, <1>3, <1>6, <2>1, <2>2, <2>3 DEF BucketIsSound
<1> QED  BY <1>4, <1>7

\* The arithmetic of it: g was given away since a, and k more now, out of
\* what the bucket held at the call's stamp.
LEMMA AccountOfTake ==
  ASSUME Promise!TypeOK, BucketIsSound, BucketHistory, BucketAccounts,
         NEW current \in 0..clock, NEW cost \in Costs, Promise!Take(current, cost),
         NEW a \in 0..clock, clock - a < Promise!Ttl \/ MaxDelay = 0
  PROVE  Promise!GivenSince(a)' * Promise!Whole + Promise!Left(item, current, cost)
           <= Promise!Capacity + Promise!Rate * (current - a + MaxDelay)
<1> USE BucketParameters
<1> DEFINE found == Promise!Refilled(item, current)
           left  == Promise!Left(item, current, cost)
           taken == Taken(item, current, cost)
           g     == Promise!GivenSince(a)
<1>1. /\ clock \in Nat /\ current \in Nat /\ a \in Nat
      /\ item \in Promise!Bucket \cup {NoBucket}
  BY DEF Promise!TypeOK
<1>2. /\ found \in Int /\ found <= Promise!Capacity /\ left \in Int
      /\ taken \in Nat /\ left + taken * Promise!Whole = found
      /\ item # NoBucket => found <= item.tokens + Promise!Rate * (current - item.last)
  BY <1>1, CallFacts
<1>3. g \in Nat
  BY GivenSinceType
<1>4. Promise!GivenSince(a)' * Promise!Whole + left = g * Promise!Whole + found
  <2>1. Promise!GivenSince(a)' = g + taken
    BY <1>1, GivenByTake
  <2>2. (g + taken) * Promise!Whole = g * Promise!Whole + taken * Promise!Whole
    BY <1>2, <1>3, Products
  <2>3. g * Promise!Whole \in Int /\ taken * Promise!Whole \in Int
    BY <1>2, <1>3, Products
  <2>4. Promise!GivenSince(a)' * Promise!Whole = g * Promise!Whole + taken * Promise!Whole
    BY <2>1, <2>2
  <2> HIDE DEF found, left, taken, g
  <2> QED  BY <1>2, <2>3, <2>4
<1>5. g * Promise!Whole \in Nat
  BY <1>3, Products
<1>6. clock <= current + MaxDelay
  BY DEF Promise!Take
<1> HIDE DEF found, left, taken
<1>7. g * Promise!Whole + found <= Promise!Capacity + Promise!Rate * (current - a + MaxDelay)
  <2>1. CASE g = 0
    <3>1. current - a + MaxDelay \in Nat
      BY <1>1, <1>6
    <3>2. Promise!Rate * (current - a + MaxDelay) \in Nat
      BY <3>1
    <3>3. g * Promise!Whole = 0
      BY <2>1
    <3> HIDE DEF g
    <3> QED  BY <1>2, <3>2, <3>3
  <2>2. CASE g > 0 /\ item = NoBucket
    <3>1. MaxDelay = 0 /\ g * Promise!Whole <= Promise!Rate * (clock - a)
      BY <2>2 DEF BucketAccounts, BucketAccount
    <3>2. current = clock /\ current - a + MaxDelay = clock - a
      BY <1>1, <1>6, <3>1
    <3>3. Promise!Rate * (clock - a) \in Int
      BY <1>1
    <3> HIDE DEF g
    <3> QED  BY <1>2, <1>5, <3>1, <3>2, <3>3
  <2>3. CASE g > 0 /\ item # NoBucket
    <3>1. g * Promise!Whole + item.tokens <=
              Promise!Capacity + Promise!Rate * (item.last - a + MaxDelay)
      BY <2>3 DEF BucketAccounts, BucketAccount
    <3>2. item.last \in Nat /\ item.tokens \in Int
      BY <1>1, <2>3 DEF Promise!Bucket
    <3>3. Promise!Rate * (current - a + MaxDelay)
            = Promise!Rate * (current - item.last) + Promise!Rate * (item.last - a + MaxDelay)
      <4>1. current - a + MaxDelay = (current - item.last) + (item.last - a + MaxDelay)
        BY <1>1, <3>2
      <4>2. current - item.last \in Int /\ item.last - a + MaxDelay \in Int
        BY <1>1, <3>2
      <4> QED  BY <4>1, <4>2, Products
    <3>4. /\ Promise!Rate * (current - item.last) \in Int
          /\ Promise!Rate * (item.last - a + MaxDelay) \in Int
      BY <1>1, <3>2
    <3> HIDE DEF g
    <3> QED  BY <1>2, <1>5, <2>3, <3>1, <3>2, <3>3, <3>4
  <2> QED  BY <1>3, <2>1, <2>2, <2>3
<1> QED  BY <1>4, <1>7 DEF left

-----------------------------------------------------------------------------
(* The theorems.                                                           *)

\* The invariant of the atomic bucket holds initially.
LEMMA BucketInit == Promise!Init => BucketIInv
<1> SUFFICES ASSUME Promise!Init  PROVE BucketIInv
  OBVIOUS
<1> USE BucketParameters DEF Promise!Init
<1>1. Promise!TypeOK
  <2>1. Promise!NoAnswer \in Promise!Answer
    BY BucketsAssumption DEF Promise!NoAnswer, Promise!Answer
  <2> QED  BY <2>1 DEF Promise!TypeOK
<1>2. BucketHistory /\ BucketIsSound
  BY DEF BucketHistory, BucketIsSound
<1>3. BucketAccounts
  BY DEF BucketAccounts, Promise!GivenSince
<1> QED  BY <1>1, <1>2, <1>3 DEF BucketIInv

\* A call keeps the invariant of the atomic bucket.
LEMMA BucketStepTake ==
  ASSUME BucketIInv, NEW current \in 0..clock, NEW cost \in Costs, Promise!Take(current, cost)
  PROVE  BucketIInv'
<1> USE BucketParameters
<1>1. /\ clock \in Nat
      /\ current \in Nat
      /\ item \in Promise!Bucket \cup {NoBucket}
      /\ clock' = clock
  BY DEF BucketIInv, Promise!TypeOK, Promise!Take
<1>2. BucketIsSound' /\ item' \in Promise!Bucket
  BY TakeKeepsTheBucket DEF BucketIInv
<1>3. given' \in [0..MaxClock -> Nat] /\ BucketHistory'
  BY <1>1, GivenByTake DEF BucketIInv
<1>4. Promise!TypeOK'
  <2>1. answer' \in Promise!Answer
    BY <1>1, BucketAnswerType DEF BucketIInv, Promise!TypeOK, Promise!Take
  <2> QED  BY <1>1, <1>2, <1>3, <2>1 DEF BucketIInv, Promise!TypeOK
<1>5. BucketAccounts'
  <2> SUFFICES ASSUME NEW a \in 0..clock, clock - a < Promise!Ttl \/ MaxDelay = 0
               PROVE  BucketAccount(a)'
    BY <1>1 DEF BucketAccounts
  <2>1. item' # NoBucket
    BY <1>2, BucketsAssumption DEF Promise!Bucket
  <2>2. item' = [tokens |-> Promise!Left(item, current, cost), last |-> current,
                   expires |-> clock + Promise!Ttl]
    BY DEF Promise!Take, Promise!AfterCall
  <2>3. Promise!GivenSince(a)' * Promise!Whole + Promise!Left(item, current, cost)
          <= Promise!Capacity + Promise!Rate * (current - a + MaxDelay)
    BY AccountOfTake DEF BucketIInv
  <2>4. /\ a + Promise!Ttl <= item'.expires
        /\ Promise!GivenSince(a)' * Promise!Whole + item'.tokens
             <= Promise!Capacity + Promise!Rate * (item'.last - a + MaxDelay)
    BY <1>1, <2>2, <2>3
  <2> QED  BY <2>1, <2>4 DEF BucketAccount
<1> QED  BY <1>2, <1>3, <1>4, <1>5 DEF BucketIInv

\* A bucket that is forgotten had filled up.
LEMMA BucketStepForget == ASSUME BucketIInv, Promise!Forget  PROVE BucketIInv'
<1> USE BucketParameters
<1>1. /\ item # NoBucket /\ item \in Promise!Bucket /\ item.expires <= clock
      /\ item' = NoBucket /\ clock' = clock /\ given' = given /\ answer' = answer
      /\ clock \in Nat
  BY DEF BucketIInv, Promise!TypeOK, Promise!Forget
<1>2. Promise!TypeOK' /\ BucketHistory' /\ BucketIsSound'
  BY <1>1 DEF BucketIInv, Promise!TypeOK, BucketHistory, BucketIsSound
<1>3. ASSUME NEW a \in 0..clock, clock - a < Promise!Ttl \/ MaxDelay = 0,
             Promise!GivenSince(a) > 0
      PROVE  MaxDelay = 0 /\ Promise!GivenSince(a) * Promise!Whole <= Promise!Rate * (clock - a)
  <2> DEFINE g == Promise!GivenSince(a)
  <2>1. /\ a + Promise!Ttl <= item.expires
        /\ g * Promise!Whole + item.tokens <=
               Promise!Capacity + Promise!Rate * (item.last - a + MaxDelay)
    BY <1>1, <1>3 DEF BucketIInv, BucketAccounts, BucketAccount
  <2>2. item.tokens \in Int /\ item.last \in Nat /\ item.expires \in Nat /\ a \in Nat
    BY <1>1 DEF Promise!Bucket
  <2>3. MaxDelay = 0
    BY <1>1, <1>3, <2>1, <2>2
  <2>4. 0 <= item.tokens /\ item.last + Promise!Ttl <= clock
    BY <1>1, <2>2, <2>3 DEF BucketIInv, BucketIsSound
  <2>5. Promise!Capacity <= Promise!Rate * (clock - item.last)
    <3>1. Promise!Ttl <= clock - item.last /\ clock - item.last \in Int
      BY <1>1, <2>2, <2>4
    <3>2. Promise!Rate * Promise!Ttl <= Promise!Rate * (clock - item.last)
      BY <3>1, Products
    <3>3. Promise!Rate * Promise!Ttl \in Int /\ Promise!Rate * (clock - item.last) \in Int
      BY <3>1
    <3> QED  BY <3>2, <3>3, FullWithinTtl
  <2>6. Promise!Rate * (clock - a) =
            Promise!Rate * (clock - item.last) + Promise!Rate * (item.last - a + MaxDelay)
    <3>1. clock - a = (clock - item.last) + (item.last - a + MaxDelay)
      BY <1>1, <2>2, <2>3
    <3>2. clock - item.last \in Int /\ item.last - a + MaxDelay \in Int
      BY <1>1, <2>2
    <3> QED  BY <3>1, <3>2, Products
  <2>7. g * Promise!Whole \in Int
    BY GivenSinceType, Products DEF BucketIInv
  <2>8. /\ Promise!Rate * (clock - item.last) \in Int
        /\ Promise!Rate * (item.last - a + MaxDelay) \in Int
    BY <1>1, <2>2
  <2> HIDE DEF g
  <2>9. g * Promise!Whole <= Promise!Rate * (clock - a)
    BY <2>1, <2>2, <2>4, <2>5, <2>6, <2>7, <2>8
  <2> QED  BY <2>3, <2>9 DEF g
<1>4. BucketAccounts'
  <2>1. \A a \in 0..clock : Promise!GivenSince(a)' = Promise!GivenSince(a)
    BY <1>1 DEF Promise!GivenSince
  <2> QED  BY <1>1, <1>3, <2>1 DEF BucketAccounts, BucketAccount
<1> QED  BY <1>2, <1>4 DEF BucketIInv

\* So does time passing.
LEMMA BucketStepTick == ASSUME BucketIInv, Promise!Tick  PROVE BucketIInv'
<1> USE BucketParameters
<1>1. /\ clock' = clock + 1 /\ clock + 1 \in 0..MaxClock /\ clock \in Nat
      /\ item' = item /\ given' = given /\ answer' = answer
      /\ item \in Promise!Bucket \cup {NoBucket}
  BY DEF BucketIInv, Promise!TypeOK, Promise!Tick
<1>2. Promise!TypeOK'
  BY <1>1 DEF BucketIInv, Promise!TypeOK
<1>3. BucketHistory' /\ given[clock + 1] = given[clock]
  BY <1>1 DEF BucketIInv, BucketHistory
<1>4. \A x \in Int : Promise!Rate * x \in Int /\ Promise!Rate * x <= Promise!Rate * (x + 1)
  BY Products
<1>5. BucketIsSound'
  <2> SUFFICES ASSUME item # NoBucket
               PROVE  /\ item.tokens <= Promise!Capacity
                      /\ 0 <= item.tokens + Promise!Rate * ((clock + 1) - item.last)
                      /\ MaxDelay = 0 => 0 <= item.tokens
                      /\ item.last + Promise!Ttl <= item.expires
                      /\ item.expires <= (clock + 1) + Promise!Ttl
                      /\ item.expires <= item.last + MaxDelay + Promise!Ttl
    BY <1>1 DEF BucketIsSound
  <2>1. BucketIsSound /\ item.tokens \in Int /\ item.last \in Nat /\ item.expires \in Nat
    BY <1>1 DEF BucketIInv, Promise!Bucket
  <2>2. 0 <= item.tokens + Promise!Rate * ((clock + 1) - item.last)
    <3>1. clock - item.last \in Int
          /\ (clock - item.last) + 1 = (clock + 1) - item.last
      BY <1>1, <2>1
    <3>2. /\ Promise!Rate * (clock - item.last) <= Promise!Rate * ((clock + 1) - item.last)
          /\ Promise!Rate * (clock - item.last) \in Int
          /\ Promise!Rate * ((clock + 1) - item.last) \in Int
      BY <1>4, <3>1
    <3>3. 0 <= item.tokens + Promise!Rate * (clock - item.last)
      BY <2>1 DEF BucketIsSound
    <3> QED  BY <2>1, <3>2, <3>3
  <2> QED  BY <1>1, <2>1, <2>2 DEF BucketIsSound
<1>6. BucketAccounts'
  <2> SUFFICES ASSUME NEW a \in 0..(clock + 1),
                      (clock + 1) - a < Promise!Ttl \/ MaxDelay = 0, Promise!GivenSince(a)' > 0
               PROVE  BucketAccount(a)'
    BY <1>1 DEF BucketAccounts
  <2>1. a \in 0..clock
    <3>1. CASE a = clock + 1
      <4>1. Promise!GivenSince(a)' = given[clock + 1] - given[clock]
        BY <1>1, <3>1 DEF Promise!GivenSince
      <4>2. given[clock] \in Nat
        BY <1>1 DEF BucketIInv, Promise!TypeOK
      <4> QED  BY <1>3, <4>1, <4>2
    <3> QED  BY <1>1, <3>1
  <2>2. Promise!GivenSince(a)' = Promise!GivenSince(a)
    BY <1>1, <1>3 DEF Promise!GivenSince
  <2>3. BucketAccount(a)
    BY <1>1, <2>1, <2>2 DEF BucketIInv, BucketAccounts
  <2>4. CASE item = NoBucket
    <3>1. Promise!GivenSince(a) * Promise!Whole \in Int
      BY <2>1, GivenSinceType, Products DEF BucketIInv
    <3>2. clock - a \in Int /\ (clock - a) + 1 = (clock + 1) - a
      BY <1>1, <2>1
    <3>3. /\ Promise!Rate * (clock - a) <= Promise!Rate * ((clock + 1) - a)
          /\ Promise!Rate * (clock - a) \in Int /\ Promise!Rate * ((clock + 1) - a) \in Int
      BY <1>4, <3>2
    <3>4. Promise!GivenSince(a) * Promise!Whole <= Promise!Rate * (clock - a) /\ MaxDelay = 0
      BY <2>3, <2>4 DEF BucketAccount
    <3>5. Promise!GivenSince(a) * Promise!Whole <= Promise!Rate * ((clock + 1) - a)
      BY <3>1, <3>3, <3>4
    <3> QED  BY <1>1, <2>2, <2>4, <3>4, <3>5 DEF BucketAccount
  <2>5. CASE item # NoBucket
    BY <1>1, <2>2, <2>3, <2>5 DEF BucketAccount
  <2> QED  BY <2>4, <2>5
<1> QED  BY <1>2, <1>3, <1>5, <1>6 DEF BucketIInv

\* So does every step.
LEMMA BucketNext == BucketIInv /\ [Promise!Next]_Promise!vars => BucketIInv'
<1> SUFFICES ASSUME BucketIInv, [Promise!Next]_Promise!vars  PROVE BucketIInv'
  OBVIOUS
<1>1. ASSUME NEW cost \in Costs, NEW current \in 0..clock, Promise!Take(current, cost)
      PROVE  BucketIInv'
  BY <1>1, BucketStepTake
<1>2. CASE Promise!GiveUp \/ UNCHANGED Promise!vars
  <2>1. clock' = clock /\ item' = item /\ given' = given /\ answer' \in Promise!Answer
    BY <1>2, BucketGiveUpType DEF Promise!GiveUp, Promise!vars, BucketIInv, Promise!TypeOK
  <2>2. Promise!TypeOK' /\ BucketHistory' /\ BucketIsSound'
    BY <2>1 DEF BucketIInv, Promise!TypeOK, BucketHistory, BucketIsSound
  <2>3. BucketAccounts'
    BY <2>1 DEF BucketIInv, BucketAccounts, BucketAccount, Promise!GivenSince
  <2> QED  BY <2>2, <2>3 DEF BucketIInv
<1>3. CASE Promise!Forget
  BY <1>3, BucketStepForget
<1>4. CASE Promise!Tick
  BY <1>4, BucketStepTick
<1> QED  BY <1>1, <1>2, <1>3, <1>4 DEF Promise!Next

\* The accounts bound what was given in any interval.
LEMMA AccountsBoundTheBurst == BucketIInv => Promise!BurstIsBounded
<1> SUFFICES ASSUME BucketIInv, NEW a \in 0..clock, clock - a < Promise!Ttl \/ MaxDelay = 0
             PROVE  Promise!GivenSince(a) * Promise!Whole <=
                        Promise!Capacity + Promise!Rate * (clock - a + MaxDelay)
  BY DEF Promise!BurstIsBounded
<1> USE BucketParameters
<1> DEFINE g == Promise!GivenSince(a)
<1>1. clock \in Nat /\ a \in Nat /\ clock - a + MaxDelay \in Nat
      /\ item \in Promise!Bucket \cup {NoBucket}
  BY DEF BucketIInv, Promise!TypeOK
<1>2. g \in Nat /\ g * Promise!Whole \in Nat
  BY GivenSinceType, Products DEF BucketIInv
<1>3. Promise!Rate * (clock - a + MaxDelay) \in Nat
  BY <1>1
<1>4. CASE g = 0
  BY <1>3, <1>4
<1>5. CASE g > 0 /\ item = NoBucket
  <2>1. MaxDelay = 0 /\ g * Promise!Whole <= Promise!Rate * (clock - a)
    BY <1>5 DEF BucketIInv, BucketAccounts, BucketAccount
  <2>2. clock - a + MaxDelay = clock - a
    BY <1>1, <2>1
  <2> HIDE DEF g
  <2>3. g * Promise!Whole <= Promise!Capacity + Promise!Rate * (clock - a + MaxDelay)
    BY <1>2, <1>3, <2>1, <2>2
  <2> QED  BY <2>3 DEF g
<1>6. CASE g > 0 /\ item # NoBucket
  <2>1. g * Promise!Whole + item.tokens <=
            Promise!Capacity + Promise!Rate * (item.last - a + MaxDelay)
    BY <1>6 DEF BucketIInv, BucketAccounts, BucketAccount
  <2>2. 0 <= item.tokens + Promise!Rate * (clock - item.last)
    BY <1>6 DEF BucketIInv, BucketIsSound
  <2>3. item.tokens \in Int /\ item.last \in Nat
    BY <1>1, <1>6 DEF Promise!Bucket
  <2>4. Promise!Rate * (clock - a + MaxDelay)
          = Promise!Rate * (clock - item.last) + Promise!Rate * (item.last - a + MaxDelay)
    <3>1. clock - a + MaxDelay = (clock - item.last) + (item.last - a + MaxDelay)
      BY <1>1, <2>3
    <3>2. clock - item.last \in Int /\ item.last - a + MaxDelay \in Int
      BY <1>1, <2>3
    <3> QED  BY <3>1, <3>2, Products
  <2>5. /\ Promise!Rate * (clock - item.last) \in Int
        /\ Promise!Rate * (item.last - a + MaxDelay) \in Int
    BY <1>1, <2>3
  <2> HIDE DEF g
  <2>6. g * Promise!Whole <= Promise!Capacity + Promise!Rate * (clock - a + MaxDelay)
    BY <1>2, <2>1, <2>2, <2>3, <2>4, <2>5
  <2> QED  BY <2>6 DEF g
<1> QED  BY <1>2, <1>4, <1>5, <1>6

\* The bucket and the answers keep their types.
THEOREM BucketTypes == Promise!Spec => []Promise!TypeOK
<1>1. BucketIInv => Promise!TypeOK
  BY DEF BucketIInv
<1> QED  BY <1>1, BucketInit, BucketNext, PTL DEF Promise!Spec

\* README.md, lines 388-390: for every rate, burst, cost and delay, an interval
\* sees at most a full bucket of tokens given away, and what is gained in the
\* interval and a delay.
THEOREM BucketBurst == Promise!Spec => []Promise!BurstIsBounded
BY BucketInit, BucketNext, AccountsBoundTheBurst, PTL DEF Promise!Spec

-----------------------------------------------------------------------------
(* The loop of take_token.                                                 *)

TypeInv ==
  /\ clock \in 0..MaxClock
  /\ item \in Bucket \cup {NoBucket}
  /\ given \in [0..MaxClock -> Nat]
  /\ answer \in Answer
  /\ fresh \subseteq Tasks
  /\ pc \in [Tasks -> {"idle", "gets", "now", "store"}]
  /\ call \in [Tasks -> Call]
  /\ writes \in [Tasks -> 0..Retries]

\* A bucket of a past stamp that is neither overdrawn nor too full.
Sound(b, moment) == b # NoBucket => b.last <= moment /\ b.tokens \in 0..Capacity

\* What a task has read.
HasRead(t) == pc[t] \in {"now", "store"}

ReadInv ==
  /\ Sound(item, clock)
  /\ \A t \in Tasks : pc[t] # "idle" => call[t].cost \in Costs
  /\ \A t \in Tasks : HasRead(t) =>
       /\ t \in fresh => call[t].bucket = item
       /\ Sound(call[t].bucket, clock)
       /\ pc[t] = "store" => Sound(call[t].bucket, call[t].current) /\ call[t].current <= clock

\* A task whose bucket is no longer the item's has been overtaken in this try,
\* and once in every earlier one.
OvertakenInv ==
  \A t \in Tasks : pc[t] # "idle" =>
    /\ call[t].tries <= writes[t]
    /\ HasRead(t) /\ ~Accepted(t) => call[t].tries < writes[t]

IInv == TypeInv /\ ReadInv /\ OvertakenInv

-----------------------------------------------------------------------------
(* The instance's operators are this module's.                             *)

\* The atomic bucket is the one this storage promises.
LEMMA SamePromise ==
  /\ \A b, current, cost, moment :
       Promise!AfterCall(b, current, cost, moment) = AfterCall(b, current, cost, moment)
  /\ \A b, current, cost : Promise!Enough(b, current, cost) <=> Enough(b, current, cost)
  /\ \A b, current, cost : Promise!AnswerTo(b, current, cost) = AnswerTo(b, current, cost)
  /\ Promise!NoAnswer = NoAnswer /\ Promise!Answer = Answer
  /\ Promise!Ttl = Ttl /\ Promise!Capacity = Capacity /\ Promise!Whole = Whole
  /\ Promise!Rate = Rate /\ Promise!Bucket = Bucket
BY DEF Promise!AfterCall, AfterCall, Promise!Left, Left, Promise!Refilled, Refilled,
       Promise!Enough, Enough, Promise!AnswerTo, AnswerTo, Promise!CeilDiv, CeilDiv,
       Promise!Whole, Whole, Promise!Capacity, Capacity, Promise!Rate, Rate, Promise!Ttl, Ttl,
       Promise!NoAnswer, NoAnswer, Promise!Answer, Answer, Promise!Bucket, Bucket

\* The parameters of the rate and of the model.
LEMMA Parameters ==
  /\ Whole \in Nat \ {0} /\ Capacity \in Nat /\ Rate \in Nat \ {0} /\ Ttl \in Nat
  /\ MaxDelay \in Nat /\ MaxClock \in Nat /\ Costs \subseteq Nat /\ Retries \in Nat \ {0}
BY BucketParameters, SamePromise, BucketsAssumption, RetriesAssumption

\* What a task can be told is an answer.
LEMMA Answers ==
  /\ \A b \in Bucket \cup {NoBucket}, current \in Nat, cost \in Costs :
       AnswerTo(b, current, cost) \in Answer
  /\ Promise!GiveUpAnswer \in Answer
  /\ NoAnswer \in Answer
<1>1. \A b \in Bucket \cup {NoBucket}, current \in Nat, cost \in Costs :
        AnswerTo(b, current, cost) \in Answer
  BY BucketAnswerType, SamePromise
<1>2. Promise!GiveUpAnswer \in Answer
  BY BucketGiveUpType, SamePromise
<1>3. NoAnswer \in Answer
  BY BucketsAssumption DEF NoAnswer, Answer
<1> QED  BY <1>1, <1>2, <1>3

-----------------------------------------------------------------------------
(* What a call leaves.                                                     *)

\* A call stamped no earlier than its bucket leaves a sound bucket.
LEMMA LeavesSoundBucket ==
  ASSUME NEW b \in Bucket \cup {NoBucket}, NEW current \in Nat, NEW cost \in Costs,
         NEW moment \in Nat, Sound(b, current), current <= moment
  PROVE  /\ AfterCall(b, current, cost, moment) \in Bucket
         /\ Sound(AfterCall(b, current, cost, moment), moment)
         /\ AfterCall(b, current, cost, moment) # NoBucket
<1> USE Parameters
<1> DEFINE gained == (current - b.last) * Rate
           found  == Refilled(b, current)
           left   == Left(b, current, cost)
<1>1. b # NoBucket => gained \in Nat /\ b.tokens \in 0..Capacity
  <2>1. b # NoBucket => current - b.last \in Nat
    BY DEF Sound, Bucket
  <2>2. \A x \in Nat : x * Rate \in Nat
    OBVIOUS
  <2> QED  BY <2>1, <2>2 DEF Sound
<1>2. found = IF b = NoBucket THEN Capacity
              ELSE IF b.tokens + gained <= Capacity THEN b.tokens + gained ELSE Capacity
  BY DEF Refilled
<1> HIDE DEF gained, found
<1>3. found \in 0..Capacity
  BY <1>1, <1>2
<1>4. cost * Whole \in Nat
  OBVIOUS
<1>5. left = IF found >= cost * Whole THEN found - cost * Whole ELSE found
  BY DEF Left, Enough, found
<1>6. left \in 0..Capacity
  BY <1>3, <1>4, <1>5
<1> HIDE DEF left
<1>7. AfterCall(b, current, cost, moment) =
          [tokens |-> left, last |-> current, expires |-> moment + Ttl]
  BY DEF AfterCall, left
<1>8. AfterCall(b, current, cost, moment) \in Bucket
  BY <1>6, <1>7 DEF Bucket
<1>9. NoBucket \notin Bucket
  BY BucketsAssumption DEF Bucket
<1> QED  BY <1>6, <1>7, <1>8, <1>9 DEF Sound

-----------------------------------------------------------------------------
(* Every step keeps the invariant.                                         *)

\* The invariant of the loop holds initially.
LEMMA InitIInv == Init => IInv
<1> SUFFICES ASSUME Init  PROVE IInv
  OBVIOUS
<1>1. /\ clock = 0 /\ item = NoBucket /\ given = [t \in 0..MaxClock |-> 0]
      /\ answer = NoAnswer
  BY SamePromise DEF Init, Promise!Init
<1>2. TypeInv
  <2>1. NoCall \in Call
    BY Parameters DEF NoCall, Knows, Call
  <2> QED  BY <1>1, <2>1, Parameters, Answers DEF Init, TypeInv
<1>3. ReadInv /\ OvertakenInv
  BY <1>1 DEF Init, ReadInv, OvertakenInv, HasRead, Sound
<1> QED  BY <1>2, <1>3 DEF IInv

\* The steps that leave the item and the clock alone: all that matters is what
\* the task that takes the step knows after it.
LEMMA QuietStep ==
  ASSUME IInv, NEW t \in Tasks,
         NEW step \in {"idle", "gets", "now", "store"}, NEW known \in Call,
         NEW count \in 0..Retries,
         pc' = [pc EXCEPT ![t] = step], call' = [call EXCEPT ![t] = known],
         writes' = [writes EXCEPT ![t] = count],
         clock' = clock, item' = item, given' = given, answer' \in Answer,
         fresh' \subseteq Tasks, \A u \in Tasks \ {t} : u \in fresh' <=> u \in fresh,
         step # "idle" => known.cost \in Costs /\ known.tries <= count,
         step \in {"now", "store"} =>
           /\ t \in fresh' => known.bucket = item
           /\ Sound(known.bucket, clock)
           /\ step = "store" => Sound(known.bucket, known.current) /\ known.current <= clock
           /\ \/ IF known.bucket = NoBucket THEN item = NoBucket
                 ELSE item # NoBucket /\ t \in fresh'
              \/ known.tries < count
  PROVE  IInv'
<1>1. TypeInv'
  BY DEF IInv, TypeInv
<1>2. /\ pc'[t] = step /\ call'[t] = known /\ writes'[t] = count
      /\ \A u \in Tasks \ {t} : pc'[u] = pc[u] /\ call'[u] = call[u] /\ writes'[u] = writes[u]
  BY DEF IInv, TypeInv
<1>3. ReadInv'
  <2>1. Sound(item, clock)'
    BY DEF IInv, ReadInv, Sound
  <2>2. ASSUME NEW u \in Tasks, pc'[u] # "idle"
        PROVE  call'[u].cost \in Costs
    BY <1>2, <2>2 DEF IInv, ReadInv
  <2>3. ASSUME NEW u \in Tasks, HasRead(u)'
        PROVE  /\ u \in fresh' => call'[u].bucket = item'
               /\ Sound(call'[u].bucket, clock')
               /\ pc'[u] = "store" =>
                    Sound(call'[u].bucket, call'[u].current) /\ call'[u].current <= clock'
    <3>1. CASE u = t
      BY <1>2, <2>3, <3>1 DEF HasRead
    <3>2. CASE u # t
      BY <1>2, <2>3, <3>2 DEF HasRead, IInv, ReadInv
    <3> QED  BY <3>1, <3>2
  <2> QED  BY <2>1, <2>2, <2>3 DEF ReadInv, Sound
<1>4. OvertakenInv'
  <2> SUFFICES ASSUME NEW u \in Tasks, pc'[u] # "idle"
               PROVE  /\ call'[u].tries <= writes'[u]
                      /\ HasRead(u)' /\ ~Accepted(u)' => call'[u].tries < writes'[u]
    BY DEF OvertakenInv
  <2>1. CASE u = t
    BY <1>2, <2>1 DEF HasRead, Accepted
  <2>2. CASE u # t
    BY <1>2, <2>2 DEF HasRead, Accepted, IInv, OvertakenInv
  <2> QED  BY <2>1, <2>2
<1> QED  BY <1>1, <1>3, <1>4 DEF IInv

\* The steps that change the item: every other task under way counts the
\* change, and nobody's cas token is good any more.
LEMMA WriteStep ==
  ASSUME IInv, NEW except \in SUBSET Tasks,
         pc' = [t \in Tasks |-> IF t \in except THEN "idle" ELSE pc[t]],
         call' = [t \in Tasks |-> IF t \in except THEN NoCall ELSE call[t]],
         writes' = WritesBut(except), fresh' = {}, clock' = clock,
         item' \in Bucket \cup {NoBucket}, Sound(item', clock),
         given' \in [0..MaxClock -> Nat], answer' \in Answer
  PROVE  IInv'
<1> USE Parameters
<1>1. TypeInv'
  <2>1. NoCall \in Call
    BY DEF NoCall, Knows, Call
  <2>2. writes' \in [Tasks -> 0..Retries]
    BY DEF IInv, TypeInv, WritesBut
  <2> QED  BY <2>1, <2>2 DEF IInv, TypeInv
<1>2. ASSUME NEW u \in Tasks, pc'[u] # "idle"
      PROVE  /\ pc'[u] = pc[u] /\ call'[u] = call[u]
             /\ writes'[u] = IF writes[u] = Retries THEN Retries ELSE writes[u] + 1
  BY <1>2 DEF WritesBut
<1>3. ReadInv'
  <2>1. Sound(item, clock)'
    BY DEF Sound
  <2>2. ASSUME NEW u \in Tasks, pc'[u] # "idle"
        PROVE  call'[u].cost \in Costs
    BY <1>2, <2>2 DEF IInv, ReadInv
  <2>3. ASSUME NEW u \in Tasks, HasRead(u)'
        PROVE  /\ u \in fresh' => call'[u].bucket = item'
               /\ Sound(call'[u].bucket, clock')
               /\ pc'[u] = "store" =>
                    Sound(call'[u].bucket, call'[u].current) /\ call'[u].current <= clock'
    <3>1. pc'[u] # "idle"
      BY <2>3 DEF HasRead
    <3>2. HasRead(u)
      BY <1>2, <2>3, <3>1 DEF HasRead
    <3> QED  BY <1>2, <3>1, <3>2 DEF IInv, ReadInv
  <2> QED  BY <2>1, <2>2, <2>3 DEF ReadInv, Sound
<1>4. OvertakenInv'
  <2> SUFFICES ASSUME NEW u \in Tasks, pc'[u] # "idle"
               PROVE  call'[u].tries < writes'[u] /\ call'[u].tries <= writes'[u]
    BY DEF OvertakenInv
  <2>1. call[u].tries \in 0..(Retries - 1) /\ writes[u] \in 0..Retries
    BY DEF IInv, TypeInv, Call
  <2>2. call[u].tries <= writes[u]
    BY <1>2 DEF IInv, OvertakenInv
  <2> QED  BY <1>2, <2>1, <2>2
<1> QED  BY <1>1, <1>3, <1>4 DEF IInv

\* A write that is accepted is a write of the item that was read.
LEMMA AcceptedIsRead ==
  ASSUME IInv, NEW t \in Tasks, pc[t] = "store", Accepted(t)
  PROVE  call[t].bucket = item
BY DEF IInv, ReadInv, HasRead, Accepted

\* What a task knows when it tries to write.
LEMMA AtTheWrite ==
  ASSUME IInv, NEW t \in Tasks, pc[t] = "store"
  PROVE  /\ call[t].cost \in Costs /\ call[t].current \in 0..clock /\ call[t].current \in Nat
         /\ call[t].bucket \in Bucket \cup {NoBucket}
         /\ Sound(call[t].bucket, call[t].current)
         /\ call[t].tries \in 0..(Retries - 1)
         /\ writes[t] \in 0..Retries /\ clock \in Nat
BY Parameters DEF IInv, TypeInv, ReadInv, HasRead, Call

\* An accepted cas is a whole call of the atomic bucket.
LEMMA StepStore == ASSUME IInv, NEW t \in Tasks, Store(t)  PROVE IInv'
<1> DEFINE c == call[t]
           new == AfterCall(c.bucket, c.current, c.cost, clock)
<1>1. /\ pc[t] = "store" /\ clock' = clock /\ fresh' = {} /\ item' = new
      /\ given' =
             IF Enough(c.bucket, c.current, c.cost) THEN Promise!GivenWith(c.cost) ELSE given
      /\ answer' \in {AnswerTo(c.bucket, c.current, c.cost), answer}
      /\ writes' = WritesBut({t})
  BY DEF Store
<1>2. /\ pc' = [u \in Tasks |-> IF u \in {t} THEN "idle" ELSE pc[u]]
      /\ call' = [u \in Tasks |-> IF u \in {t} THEN NoCall ELSE call[u]]
  BY DEF Store, End, GoTo, IInv, TypeInv
<1>3. new \in Bucket /\ Sound(new, clock)
  BY <1>1, AtTheWrite, LeavesSoundBucket
<1>4. answer' \in Answer
  <2>1. c.bucket \in Bucket \cup {NoBucket} /\ c.current \in Nat /\ c.cost \in Costs
    BY <1>1, AtTheWrite
  <2> HIDE DEF c
  <2>2. AnswerTo(c.bucket, c.current, c.cost) \in Answer
    BY <2>1, Answers
  <2> QED  BY <1>1, <2>2 DEF IInv, TypeInv
<1>5. given' \in [0..MaxClock -> Nat]
  <2>1. c.cost \in Nat /\ given \in [0..MaxClock -> Nat]
    BY <1>1, AtTheWrite, Parameters DEF IInv, TypeInv
  <2>2. Promise!GivenWith(c.cost) \in [0..MaxClock -> Nat]
    BY <2>1 DEF Promise!GivenWith
  <2> QED  BY <1>1, <2>1, <2>2
<1>6. {t} \in SUBSET Tasks
  OBVIOUS
<1> HIDE DEF new, c
<1> QED  BY <1>1, <1>2, <1>3, <1>4, <1>5, <1>6, WriteStep

\* The server forgets a bucket.
LEMMA StepExpire == ASSUME IInv, Expire  PROVE IInv'
<1>1. /\ item' = NoBucket /\ clock' = clock /\ given' = given /\ answer' = answer
      /\ fresh' = {} /\ writes' = WritesBut({}) /\ pc' = pc /\ call' = call
  BY DEF Expire, Promise!Forget
<1>2. /\ pc' = [u \in Tasks |-> IF u \in {} THEN "idle" ELSE pc[u]]
      /\ call' = [u \in Tasks |-> IF u \in {} THEN NoCall ELSE call[u]]
  BY <1>1 DEF IInv, TypeInv
<1>3. {} \in SUBSET Tasks /\ Sound(NoBucket, clock)
  BY DEF Sound
<1>4. given \in [0..MaxClock -> Nat] /\ answer \in Answer
  BY DEF IInv, TypeInv
<1> QED  BY <1>1, <1>2, <1>3, <1>4, WriteStep

\* A task reads the item and its cas token.
LEMMA StepGets ==
  ASSUME IInv, NEW t \in Tasks, NEW cost \in Costs, NEW tries \in 0..(Retries - 1),
         tries <= writes[t], Gets(t, cost, tries)
  PROVE  IInv'
<1> DEFINE k == Knows(cost, tries, item, 0)
<1>1. k \in Call /\ k.cost = cost /\ k.tries = tries /\ k.bucket = item
  BY Parameters DEF IInv, TypeInv, Knows, Call
<1>2. /\ pc' = [pc EXCEPT ![t] = "now"] /\ call' = [call EXCEPT ![t] = k]
      /\ fresh' = fresh \cup {t}
      /\ UNCHANGED <<clock, item, given, writes, answer>>
  BY DEF Gets, GoTo
<1>3. /\ writes' = [writes EXCEPT ![t] = writes[t]] /\ writes[t] \in 0..Retries
      /\ answer \in Answer /\ fresh \subseteq Tasks /\ Sound(item, clock)
  BY <1>2 DEF IInv, TypeInv, ReadInv
<1> HIDE DEF k
<1> QED  BY <1>1, <1>2, <1>3, QuietStep

\* A task reads the clock: its reading is not in the future.
LEMMA StepReadClock == ASSUME IInv, NEW t \in Tasks, ReadClock(t)  PROVE IInv'
<1> DEFINE c == call[t]
           k == Knows(c.cost, c.tries, c.bucket, clock)
<1>1. c \in Call /\ clock \in 0..MaxClock /\ HasRead(t) /\ pc[t] = "now"
  BY DEF IInv, TypeInv, ReadClock, HasRead
<1>2. /\ k \in Call
      /\ k.cost = c.cost
      /\ k.tries = c.tries
      /\ k.bucket = c.bucket
      /\ k.current = clock
  BY <1>1 DEF Knows, Call
<1>3. /\ pc' = [pc EXCEPT ![t] = "store"] /\ call' = [call EXCEPT ![t] = k]
      /\ UNCHANGED <<clock, item, fresh, given, writes, answer>>
  BY DEF ReadClock, GoTo
<1>4. /\ writes' = [writes EXCEPT ![t] = writes[t]] /\ writes[t] \in 0..Retries
      /\ answer \in Answer /\ fresh \subseteq Tasks
  BY <1>3 DEF IInv, TypeInv
<1>5. /\ c.cost \in Costs /\ c.tries <= writes[t]
      /\ t \in fresh => c.bucket = item
      /\ Sound(c.bucket, clock) /\ clock <= clock
      /\ \/ IF c.bucket = NoBucket THEN item = NoBucket ELSE item # NoBucket /\ t \in fresh
         \/ c.tries < writes[t]
  BY <1>1, Parameters DEF IInv, ReadInv, OvertakenInv, Accepted
<1> HIDE DEF c, k
<1> QED  BY <1>2, <1>3, <1>4, <1>5, QuietStep

\* A refused cas that is not the last starts the call over.
LEMMA StepRetry == ASSUME IInv, NEW t \in Tasks, Retry(t)  PROVE IInv'
<1> DEFINE c == call[t]
           k == Knows(c.cost, c.tries + 1, NoBucket, 0)
<1>1. /\ pc[t] = "store" /\ ~Accepted(t) /\ c.tries + 1 < Retries /\ HasRead(t)
      /\ c.cost \in Costs /\ c.tries \in Nat /\ writes[t] \in 0..Retries
      /\ c.tries < writes[t]
  BY AtTheWrite DEF Retry, HasRead, IInv, OvertakenInv
<1>2. k \in Call /\ k.cost = c.cost /\ k.tries = c.tries + 1
  BY <1>1, Parameters DEF Knows, Call
<1>3. /\ pc' = [pc EXCEPT ![t] = "gets"] /\ call' = [call EXCEPT ![t] = k]
      /\ UNCHANGED <<clock, item, fresh, given, writes, answer>>
  BY DEF Retry, NextTry, GoTo
<1>4. /\ writes' = [writes EXCEPT ![t] = writes[t]]
      /\ answer \in Answer /\ fresh \subseteq Tasks
  BY <1>3 DEF IInv, TypeInv
<1>5. c.tries + 1 <= writes[t]
  BY <1>1
<1> HIDE DEF c, k
<1> QED  BY <1>1, <1>2, <1>3, <1>4, <1>5, QuietStep

\* A call that gives up or fails ends without touching the bucket.
LEMMA StepEnd ==
  ASSUME IInv, NEW t \in Tasks, GiveUp(t) \/ Fail(t)
  PROVE  IInv'
<1>1. /\ pc' = [pc EXCEPT ![t] = "idle"] /\ call' = [call EXCEPT ![t] = NoCall]
      /\ writes' = [writes EXCEPT ![t] = 0]
      /\ UNCHANGED <<clock, item, given>>
      /\ answer' \in {answer, Promise!GiveUpAnswer} /\ fresh' \in {fresh, fresh \ {t}}
  BY DEF GiveUp, Fail, End, GoTo
<1>2. answer' \in Answer /\ fresh \subseteq Tasks
  BY <1>1, Answers DEF IInv, TypeInv
<1>3. NoCall \in Call /\ 0 \in 0..Retries
  BY Parameters DEF NoCall, Knows, Call
<1> QED  BY <1>1, <1>2, <1>3, QuietStep

\* Time passes.
LEMMA StepTick == ASSUME IInv, Tick  PROVE IInv'
<1>1. /\ clock' = clock + 1 /\ clock + 1 \in 0..MaxClock /\ clock \in Nat
      /\ UNCHANGED <<item, given, answer, fresh, pc, call, writes>>
  BY Parameters DEF Tick, Promise!Tick, IInv, TypeInv
<1>2. TypeInv'
  BY <1>1 DEF IInv, TypeInv
<1>3. ReadInv'
  <2>1. ASSUME NEW b \in Bucket \cup {NoBucket}, Sound(b, clock)
        PROVE  Sound(b, clock + 1)
    BY <1>1, <2>1 DEF Sound, Bucket
  <2>2. Sound(item, clock + 1)
    BY <2>1 DEF IInv, TypeInv, ReadInv
  <2>3. ASSUME NEW u \in Tasks, HasRead(u)
        PROVE  /\ u \in fresh => call[u].bucket = item
               /\ Sound(call[u].bucket, clock + 1)
               /\ pc[u] = "store" =>
                    Sound(call[u].bucket, call[u].current) /\ call[u].current <= clock + 1
    <3>1. call[u].bucket \in Bucket \cup {NoBucket} /\ call[u].current \in Nat
      BY Parameters DEF IInv, TypeInv, Call
    <3> QED  BY <1>1, <2>1, <2>3, <3>1 DEF IInv, ReadInv
  <2> QED  BY <1>1, <2>2, <2>3 DEF IInv, ReadInv, HasRead, Sound
<1>4. OvertakenInv'
  BY <1>1 DEF IInv, OvertakenInv, HasRead, Accepted
<1> QED  BY <1>2, <1>3, <1>4 DEF IInv

\* Every step preserves the invariant of the loop.
LEMMA NextIInv == IInv /\ [Next]_vars => IInv'
<1> SUFFICES ASSUME IInv, [Next]_vars  PROVE IInv'
  OBVIOUS
<1>1. ASSUME NEW t \in Tasks, NEW cost \in Costs, Begin(t, cost)
      PROVE  IInv'
  <2>1. 0 \in 0..(Retries - 1) /\ 0 <= writes[t]
    BY Parameters DEF IInv, TypeInv
  <2> QED  BY <1>1, <2>1, StepGets DEF Begin
<1>2. ASSUME NEW t \in Tasks, Again(t)
      PROVE  IInv'
  <2>1. /\ call[t].cost \in Costs
        /\ call[t].tries \in 0..(Retries - 1)
        /\ call[t].tries <= writes[t]
    BY <1>2 DEF Again, IInv, TypeInv, Call, ReadInv, OvertakenInv
  <2> QED  BY <1>2, <2>1, StepGets DEF Again
<1>3. ASSUME NEW t \in Tasks,
             ReadClock(t) \/ Store(t) \/ Retry(t) \/ GiveUp(t) \/ Fail(t)
      PROVE  IInv'
  BY <1>3, StepReadClock, StepStore, StepRetry, StepEnd
<1>4. CASE Expire \/ Tick
  BY <1>4, StepExpire, StepTick
<1>5. CASE UNCHANGED vars
  <2>1. UNCHANGED <<clock, item, fresh, pc, call, given, writes, answer>>
    BY <1>5 DEF vars
  <2> QED  BY <2>1 DEF IInv, TypeInv, ReadInv, OvertakenInv, HasRead, Sound, Accepted
<1> QED  BY <1>1, <1>2, <1>3, <1>4, <1>5 DEF Next

-----------------------------------------------------------------------------
(* The theorems.                                                           *)

\* Items, calls and answers keep their types, and no bucket is ever overdrawn
\* or too full: stamps are read after the item they are written over.
THEOREM TypeCorrect == Spec => []TypeOK
<1>1. IInv => TypeOK
  <2> SUFFICES ASSUME IInv  PROVE TypeOK
    OBVIOUS
  <2>1. Promise!TypeOK
    BY SamePromise DEF IInv, TypeInv, Promise!TypeOK
  <2>2. item # NoBucket => item.tokens \in 0..Capacity
    BY DEF IInv, ReadInv, Sound
  <2> QED  BY <2>1, <2>2 DEF IInv, TypeInv, TypeOK
<1> QED  BY <1>1, InitIInv, NextIInv, PTL DEF Spec

\* backends/memcached.py, lines 126-152: a call that gives up was overtaken in
\* each of its tries.
THEOREM OnlyWhenOvertaken == Spec => []GivesUpOnlyWhenOvertaken
<1>1. IInv => GivesUpOnlyWhenOvertaken
  <2> SUFFICES ASSUME IInv, NEW t \in Tasks, pc[t] = "store", ~Accepted(t)
               PROVE  writes[t] > call[t].tries
    BY DEF GivesUpOnlyWhenOvertaken
  <2>1. call[t].tries < writes[t]
    BY DEF IInv, OvertakenInv, HasRead
  <2> QED  BY <2>1, AtTheWrite
<1> QED  BY <1>1, InitIInv, NextIInv, PTL DEF Spec

\* A step of the loop is a step of the atomic bucket, or none.
LEMMA NextPromise == IInv /\ [Next]_vars => [Promise!Next]_Promise!vars
<1> SUFFICES ASSUME IInv, [Next]_vars  PROVE [Promise!Next]_Promise!vars
  OBVIOUS
<1>1. ASSUME NEW t \in Tasks, Store(t)
      PROVE  Promise!Next
  <2> DEFINE c == call[t]
  <2>1. c.bucket = item /\ c.cost \in Costs /\ c.current \in 0..clock
    BY <1>1, AcceptedIsRead, AtTheWrite DEF Store
  <2>2. Promise!Take(c.current, c.cost)
    <3>1. c.current <= clock /\ clock <= c.current + MaxDelay
      BY <1>1, AtTheWrite DEF Store, InTime
    <3>2. /\ item' = AfterCall(item, c.current, c.cost, clock)
          /\ given' =
                 IF Enough(item, c.current, c.cost) THEN Promise!GivenWith(c.cost) ELSE given
          /\ answer' \in {AnswerTo(item, c.current, c.cost), answer}
          /\ UNCHANGED clock
      BY <1>1, <2>1 DEF Store
    <3> HIDE DEF c
    <3> QED  BY <3>1, <3>2, SamePromise DEF Promise!Take
  <2> QED  BY <2>1, <2>2 DEF Promise!Next
<1>2. ASSUME NEW t \in Tasks, GiveUp(t)
      PROVE  Promise!Next
  BY <1>2 DEF GiveUp, Promise!Next, Promise!GiveUp
<1>3. CASE Expire
  BY <1>3 DEF Expire, Promise!Next
<1>4. CASE Tick
  BY <1>4 DEF Tick, Promise!Next
<1>5. ASSUME NEW t \in Tasks, NEW cost \in Costs, Begin(t, cost)
      PROVE  UNCHANGED Promise!vars
  BY <1>5 DEF Begin, Gets, Promise!vars
<1>6. ASSUME NEW t \in Tasks, Again(t) \/ ReadClock(t) \/ Retry(t) \/ Fail(t)
      PROVE  UNCHANGED Promise!vars
  BY <1>6 DEF Again, Gets, ReadClock, Retry, Fail, Promise!vars
<1>7. CASE UNCHANGED vars
  BY <1>7 DEF vars, Promise!vars
<1> QED  BY <1>1, <1>2, <1>3, <1>4, <1>5, <1>6, <1>7 DEF Next

\* backends/memcached.py, take_token, implements the bucket of TokenBucket.
THEOREM ImplementsThePromise == Spec => KeepsThePromise
<1>1. Init => Promise!Init
  BY DEF Init
<1> QED  BY <1>1, InitIInv, NextIInv, NextPromise, PTL DEF Spec, KeepsThePromise, Promise!Spec

\* README.md, lines 388-390, for the loop: it gives away no more tokens than
\* the atomic bucket does.
THEOREM BurstBounded == Spec => []BurstIsBounded
<1>1. Promise!BurstIsBounded => BurstIsBounded
  BY DEF BurstIsBounded
<1> QED  BY <1>1, BucketBurst, ImplementsThePromise, PTL DEF KeepsThePromise

-----------------------------------------------------------------------------
(* Counters: module MemcachedCounters.                                     *)

\* The reset time is stored until itself or later, a count lasts a window at
\* most, a count that is settled no longer than what is stored for it, and a set
\* that is under way was sent a delay ago at most.
ExpiryInv ==
  /\ exp.value <= exp.expires
  /\ counter.expires <= time + Expiry
  /\ settled /\ Held(counter) =>
       counter.expires <= exp.value + SetDelay /\ counter.expires <= exp.expires
  /\ \A t \in CounterTasks :
       command[t] = "set" => stamp[t] <= time /\ time <= stamp[t] + SetDelay

GivenBefore(a) == IF a = 0 THEN 0 ELSE admitted[a - 1]

\* What was given by a time only grows, and is known up to the present.
GivenInv ==
  /\ \A s \in 0..MaxTime : s >= time => admitted[s] = admitted[time]
  /\ \A s \in 0..time : GivenBefore(s) <= admitted[time]

AtMost(n, bound) == IF n <= bound THEN n ELSE bound

\* The tasks that may still take a hit for the first of a count that is gone,
\* and those that may not, before another count is made.
Pending == {t \in CounterTasks : command[t] \in {"stamp", "set", "touch", "incr"}}
Spent == CounterTasks \ Pending
Largest == Max(HitCosts)
Uncounted(n) == Largest * n

\* What was given since a, when there is no count, a count that is older than a,
\* and a count that was made or touched since.
Accounted(a) ==
  IF ~Held(counter)
  THEN GivenSince(a) <= Limit + Uncounted(Cardinality(Spent))
  ELSE IF counter.expires < a + Expiry
  THEN GivenSince(a) <= AtMost(counter.value, Limit)
  ELSE GivenSince(a) <=
         Limit + Uncounted(Cardinality(CounterTasks)) + AtMost(counter.value, Limit)

\* The interval from a on is shorter than the window, and nothing was reset in it.
Short(a) == wiped < a /\ time - a < Expiry

AccountInv == \A a \in 0..time : Short(a) => Accounted(a)

\* The types, on their own.
CounterTypes ==
  /\ time \in 0..MaxTime
  /\ counter \in Item
  /\ exp \in Item
  /\ command \in [CounterTasks -> Commands]
  /\ knows \in [CounterTasks -> [cost : HitCosts \cup {0}, value : Nat]]
  /\ stamp \in [CounterTasks -> 0..MaxTime]
  /\ result \in [allowed : BOOLEAN, remaining : 0..Limit, reset_at : 0..(MaxTime + Expiry)]
  /\ calls \in 0..MaxCalls
  /\ admitted \in [0..MaxTime -> Nat]
  /\ wiped \in -1..MaxTime
  /\ settled \in BOOLEAN

CountersInv == CounterTypes /\ ExpiryInv /\ GivenInv /\ AccountInv

-----------------------------------------------------------------------------
(* The largest cost.                                                       *)

\* A finite set of natural numbers that is not empty has a greatest member.
LEMMA HasGreatest ==
  ASSUME NEW S, IsFiniteSet(S), S \subseteq Nat, S # {}
  PROVE  \E greatest \in S : \A n \in S : n <= greatest
<1> DEFINE Bounded(T) == \E greatest \in T : \A n \in T : n <= greatest
           Sizes == {Cardinality(T) : T \in {T \in SUBSET S : T # {} /\ ~Bounded(T)}}
<1> SUFFICES ASSUME ~Bounded(S)  PROVE FALSE
  OBVIOUS
<1>1. \A T \in SUBSET S : IsFiniteSet(T) /\ Cardinality(T) \in Nat
  BY FS_Subset, FS_CardinalityType
<1>2. Sizes \subseteq Nat /\ Sizes # {}
  BY <1>1
<1>3. PICK least \in Sizes : \A n \in Sizes : least <= n
  <2> HIDE DEF Sizes
  <2> QED  BY <1>2, HasLeast
<1>4. PICK T \in SUBSET S : T # {} /\ ~Bounded(T) /\ Cardinality(T) = least
  BY <1>3
<1>5. PICK x \in T : TRUE
  BY <1>4
<1> DEFINE U == T \ {x}
<1>6. Cardinality(U) = least - 1 /\ Cardinality(U) \in Nat /\ U \in SUBSET S
  BY <1>1, <1>4, <1>5, FS_RemoveElement
<1>7. U # {}
  <2> SUFFICES ASSUME T = {x}  PROVE FALSE
    BY <1>5
  <2>1. x \in Nat  BY <1>4, <1>5
  <2> QED  BY <1>4, <1>5, <2>1
<1>8. Bounded(U)
  <2> SUFFICES ASSUME ~Bounded(U)  PROVE FALSE
    OBVIOUS
  <2>1. Cardinality(U) \in Sizes
    BY <1>6, <1>7
  <2>2. least <= Cardinality(U) /\ least \in Nat
    BY <1>2, <1>3, <2>1
  <2> HIDE DEF U, Sizes
  <2> QED  BY <1>6, <2>2
<1>9. PICK greatest \in U : \A n \in U : n <= greatest
  BY <1>8
<1>10. /\ x \in Nat /\ greatest \in Nat /\ T \subseteq Nat
       /\ x \in T /\ greatest \in T
       /\ \A n \in T : n = x \/ n \in U
  BY <1>4, <1>5, <1>9
<1> DEFINE top == IF x <= greatest THEN greatest ELSE x
<1>11. top \in T /\ \A n \in T : n <= top
  <2> HIDE DEF U
  <2> QED  BY <1>9, <1>10
<1> QED  BY <1>4, <1>11

\* Every cost is at most the largest.
LEMMA LargestCost ==
  Largest \in Nat /\ \A c \in HitCosts \cup {0} : c \in Nat /\ c <= Largest
<1>1. IsFiniteSet(HitCosts) /\ HitCosts \subseteq Nat /\ HitCosts # {}
  BY CountersAssumption
<1>2. \E greatest \in HitCosts : \A n \in HitCosts : n <= greatest
  BY <1>1, HasGreatest
<1>3. \E greatest \in HitCosts : \A n \in HitCosts : greatest >= n
  BY <1>1, <1>2
<1>4. Largest \in HitCosts /\ \A n \in HitCosts : Largest >= n
  BY <1>3 DEF Largest, Max
<1> QED  BY <1>1, <1>4

\* What a number of tasks may take without being counted.
LEMMA UncountedGrows ==
  ASSUME NEW m \in Nat, NEW n \in Nat
  PROVE  /\ Uncounted(n) \in Nat
         /\ m <= n => Uncounted(m) <= Uncounted(n)
         /\ Uncounted(n + 1) = Uncounted(n) + Largest
<1>1. Largest \in Nat  BY LargestCost
<1> HIDE DEF Largest
<1>2. Largest * n \in Nat  BY <1>1
<1>3. Largest * (n + 1) = Largest * n + Largest  BY <1>1
<1>4. ASSUME m <= n  PROVE Largest * m <= Largest * n
  <2> DEFINE d == n - m
  <2>1. d \in Nat /\ n = m + d  BY <1>4
  <2> HIDE DEF d
  <2>2. Largest * n = Largest * m + Largest * d  BY <1>1, <2>1
  <2>3. Largest * d \in Nat /\ Largest * m \in Nat  BY <1>1, <2>1
  <2> QED  BY <2>2, <2>3
<1> QED  BY <1>2, <1>3, <1>4 DEF Uncounted

\* A part of the tasks is no more than all of them.
LEMMA PartOfTasks ==
  ASSUME NEW S \in SUBSET CounterTasks, NEW T \in SUBSET CounterTasks,
         S \subseteq T
  PROVE  /\ Cardinality(S) \in Nat /\ Cardinality(T) \in Nat
         /\ Uncounted(Cardinality(S)) \in Nat
         /\ Uncounted(Cardinality(S)) <= Uncounted(Cardinality(T))
<1>1. IsFiniteSet(CounterTasks)  BY CountersAssumption
<1>2. IsFiniteSet(S) /\ IsFiniteSet(T)  BY <1>1, FS_Subset
<1>3. Cardinality(S) \in Nat /\ Cardinality(T) \in Nat /\ Cardinality(S) <= Cardinality(T)
  BY <1>2, FS_Subset, FS_CardinalityType
<1> QED  BY <1>3, UncountedGrows

-----------------------------------------------------------------------------
(* Types and the life of the two items.                                    *)

\* The types of the invariant are those of TypeOK.
LEMMA TypesAre ==  CountersTypeOK <=> CounterTypes
BY DEF CountersTypeOK, CounterTypes

\* The invariant of the counters holds initially.
LEMMA CountersStart ==
  ASSUME CountersInit
  PROVE  CountersInv
<1>0. {Limit, Expiry, MaxCalls, SetDelay, MaxTime} \subseteq Nat
  BY CountersAssumption
<1>1. CounterTypes
  <2>1. NoItem \in Item  BY <1>0 DEF NoItem, Item
  <2>2. Known(0, 0) \in [cost : HitCosts \cup {0}, value : Nat]  BY DEF Known
  <2>3. result \in [allowed : BOOLEAN, remaining : 0..Limit, reset_at : 0..(MaxTime + Expiry)]
    BY <1>0 DEF CountersInit
  <2>4. time \in 0..MaxTime /\ calls \in 0..MaxCalls /\ wiped \in -1..MaxTime
    BY <1>0 DEF CountersInit
  <2>5. stamp \in [CounterTasks -> 0..MaxTime]
    BY <1>0 DEF CountersInit
  <2> QED  BY <2>1, <2>2, <2>3, <2>4, <2>5 DEF CountersInit, CounterTypes, Commands
<1>2. ExpiryInv
  BY CountersAssumption DEF CountersInit, ExpiryInv, NoItem
<1>3. GivenInv
  BY CountersAssumption DEF CountersInit, GivenInv, GivenBefore
<1>4. AccountInv
  <2> SUFFICES Accounted(0)
    BY DEF CountersInit, AccountInv
  <2>1. ~Held(counter)  BY DEF CountersInit, Held, NoItem
  <2>2. GivenSince(0) = 0
    BY CountersAssumption DEF CountersInit, GivenSince
  <2>3. Uncounted(Cardinality(Spent)) \in Nat /\ Limit \in Nat
    BY CountersAssumption, PartOfTasks DEF Spent
  <2> QED  BY <2>1, <2>2, <2>3 DEF Accounted
<1> QED  BY <1>1, <1>2, <1>3, <1>4 DEF CountersInv

\* The numbers of the constants and of the state.
LEMMA CounterNumbers ==
  ASSUME CounterTypes
  PROVE  /\ Limit \in Nat \ {0} /\ Expiry \in Nat \ {0} /\ MaxTime \in Nat /\ MaxCalls \in Nat
         /\ time \in Nat /\ time <= MaxTime
         /\ counter.value \in Nat /\ counter.expires \in Nat
         /\ exp.value \in Nat /\ exp.expires \in Nat
         /\ wiped \in Int
         /\ \A t \in CounterTasks :
              knows[t].cost \in HitCosts \cup {0} /\ knows[t].value \in Nat
         /\ \A s \in 0..MaxTime : admitted[s] \in Nat
         /\ \A c \in HitCosts : c \in Nat /\ c > 0
<1>1. /\ Limit \in Nat \ {0} /\ Expiry \in Nat \ {0} /\ MaxTime \in Nat /\ MaxCalls \in Nat
      /\ \A c \in HitCosts : c \in Nat /\ c > 0
  BY CountersAssumption
<1>2. /\ time \in 0..MaxTime
      /\ wiped \in -1..MaxTime
      /\ counter \in Item
      /\ exp \in Item
  BY DEF CounterTypes
<1>3. /\ counter.value \in Nat /\ counter.expires \in Nat
      /\ exp.value \in Nat /\ exp.expires \in Nat
  BY <1>1, <1>2 DEF Item
<1>4. \A t \in CounterTasks : knows[t].cost \in HitCosts \cup {0} /\ knows[t].value \in Nat
  BY DEF CounterTypes
<1>5. \A s \in 0..MaxTime : admitted[s] \in Nat
  BY DEF CounterTypes
<1> QED  BY <1>1, <1>2, <1>3, <1>4, <1>5

\* The numbers of the sets that are under way.
LEMMA DelayNumbers ==
  ASSUME CounterTypes
  PROVE  SetDelay \in Nat /\ \A t \in CounterTasks : stamp[t] \in Nat /\ stamp[t] <= MaxTime
<1>1. SetDelay \in Nat /\ MaxTime \in Nat
  BY CountersAssumption
<1>2. \A t \in CounterTasks : stamp[t] \in 0..MaxTime
  BY DEF CounterTypes
<1> QED  BY <1>1, <1>2

\* What touch and incr write to a count that is held.
LEMMA CounterWrites ==
  ASSUME CounterTypes, NEW value \in Nat
  PROVE  /\ [counter EXCEPT !.expires = time + Expiry] =
                [value |-> counter.value, expires |-> time + Expiry]
         /\ [counter EXCEPT !.value = value] = [value |-> value, expires |-> counter.expires]
         /\ [value |-> counter.value, expires |-> time + Expiry] \in Item
         /\ [value |-> value, expires |-> counter.expires] \in Item
<1>1. counter \in [value : Nat, expires : 0..(MaxTime + Expiry)]
  BY DEF CounterTypes, Item
<1>2. time + Expiry \in 0..(MaxTime + Expiry)
  BY CounterNumbers
<1> QED  BY <1>1, <1>2 DEF Item

\* A call that is over knows nothing.
LEMMA EndTypes ==
  ASSUME CounterTypes, NEW t \in CounterTasks, Finish(t)
  PROVE  /\ command' \in [CounterTasks -> Commands]
         /\ knows' \in [CounterTasks -> [cost : HitCosts \cup {0}, value : Nat]]
         /\ command'[t] = "idle"
         /\ \A u \in CounterTasks \ {t} : command'[u] = command[u]
<1>1. Known(0, 0) \in [cost : HitCosts \cup {0}, value : Nat]
  BY DEF Known
<1> QED  BY <1>1 DEF CounterTypes, Finish, Sends, Commands

\* Every step keeps the types.
LEMMA TypesStep ==
  ASSUME CounterTypes, ExpiryInv, CountersNext
  PROVE  CounterTypes'
<1> USE CounterNumbers
<1>1. ASSUME NEW t \in CounterTasks, NEW cost \in HitCosts, NEW elastic \in BOOLEAN,
             Add(t, cost, elastic)
      PROVE  CounterTypes'
  <2>1. knows' \in [CounterTasks -> [cost : HitCosts \cup {0}, value : Nat]]
    <3>1. Known(cost, 0) \in [cost : HitCosts \cup {0}, value : Nat]
      BY DEF Known
    <3> QED  BY <1>1, <3>1 DEF Add, CounterTypes
  <2>2. /\ counter' \in Item /\ settled' \in BOOLEAN
        /\ command' \in [CounterTasks -> Commands]
    <3>1. [value |-> 0, expires |-> time + Expiry] \in Item  BY DEF Item
    <3> QED  BY <1>1, <3>1 DEF Add, Sends, Commands, CounterTypes
  <2>3. calls' \in 0..MaxCalls
    BY <1>1 DEF Add, Starts, CounterTypes
  <2> QED  BY <1>1, <2>1, <2>2, <2>3 DEF Add, CounterTypes
<1>2. ASSUME NEW t \in CounterTasks, SetExp(t)  PROVE CounterTypes'
  <2>1. NewExp(t) \in Item
    BY DelayNumbers DEF NewExp, Item
  <2>2. exp' = NewExp(t)
    BY <1>2 DEF SetExp, ExpAfterSet
  <2> QED  BY <1>2, <2>1, <2>2 DEF SetExp, Sends, Commands, CounterTypes
<1>3. ASSUME NEW t \in CounterTasks, Touch(t)  PROVE CounterTypes'
  <2>1. counter' \in Item
    BY <1>3, CounterWrites DEF Touch, CounterTypes
  <2> QED  BY <1>3, <2>1 DEF Touch, Sends, Commands, CounterTypes
<1>4. ASSUME NEW t \in CounterTasks, Incr(t)  PROVE CounterTypes'
  <2> DEFINE cost == knows[t].cost
             value == IF Held(counter) THEN counter.value + cost ELSE cost
  <2>0. cost \in Nat /\ cost \in HitCosts \cup {0}
    <3>1. knows[t].cost \in HitCosts \cup {0}
      OBVIOUS
    <3> QED  BY <3>1, LargestCost
  <2>1. value \in Nat
    BY <2>0
  <2>2. /\ counter' =
               IF Held(counter) THEN [counter EXCEPT !.value = value] ELSE counter
        /\ knows' = [knows EXCEPT ![t] = Known(cost, value)]
    BY <1>4 DEF Incr
  <2>g. admitted' = [s \in 0..MaxTime |->
                    IF s >= time /\ value <= Limit THEN admitted[s] + cost ELSE admitted[s]]
    BY <1>4 DEF Incr
  <2>3. Known(cost, value) \in [cost : HitCosts \cup {0}, value : Nat]
    BY <2>0, <2>1 DEF Known
  <2> HIDE DEF value, cost
  <2>4. counter' \in Item
    <3>1. [counter EXCEPT !.value = value] \in Item
      BY <2>1, CounterWrites
    <3>2. counter \in Item
      BY DEF CounterTypes
    <3> QED  BY <2>2, <3>1, <3>2
  <2>5. knows' \in [CounterTasks -> [cost : HitCosts \cup {0}, value : Nat]]
    BY <2>2, <2>3 DEF CounterTypes
  <2>6. admitted' \in [0..MaxTime -> Nat]
    <3>1. \A s \in 0..MaxTime : admitted[s] + cost \in Nat /\ admitted[s] \in Nat
      BY <2>0
    <3> QED  BY <2>g, <3>1
  <2> QED  BY <1>4, <2>4, <2>5, <2>6 DEF Incr, Sends, Commands, CounterTypes
<1>5. ASSUME NEW t \in CounterTasks, GetExpiry(t)  PROVE CounterTypes'
  <2>1. Remaining(knows[t].value) \in 0..Limit
    BY DEF Remaining
  <2>2. ResetAt \in 0..(MaxTime + Expiry)
    <3>1. exp.value \in Nat /\ exp.value <= MaxTime + Expiry
      <4>1. exp.value \in Nat /\ exp.expires \in 0..(MaxTime + Expiry)
        BY DEF CounterTypes, Item
      <4>2. exp.value <= exp.expires
        BY DEF ExpiryInv
      <4> QED  BY <4>1, <4>2
    <3>2. time \in 0..(MaxTime + Expiry) /\ MaxTime + Expiry \in Nat
      BY DEF CounterTypes
    <3> QED  BY <3>1, <3>2 DEF ResetAt
  <2>3. result' \in [allowed : BOOLEAN, remaining : 0..Limit, reset_at : 0..(MaxTime + Expiry)]
    BY <1>5, <2>1, <2>2 DEF GetExpiry
  <2> QED  BY <1>5, <2>3, EndTypes DEF GetExpiry, CounterTypes
<1>6. ASSUME NEW t \in CounterTasks, Reset(t)  PROVE CounterTypes'
  <2>1. counter' \in Item
    BY <1>6 DEF Reset, NoItem, Item
  <2>2. wiped' \in -1..MaxTime /\ calls' \in 0..MaxCalls
    BY <1>6 DEF Reset, Starts, CounterTypes
  <2> QED  BY <1>6, <2>1, <2>2 DEF Reset, Sends, Commands, CounterTypes
<1>7. ASSUME NEW t \in CounterTasks, ResetExp(t)  PROVE CounterTypes'
  <2>1. exp' \in Item
    BY <1>7 DEF ResetExp, NoItem, Item
  <2> QED  BY <1>7, <2>1, EndTypes DEF ResetExp, CounterTypes
<1>8. ASSUME NEW t \in CounterTasks, FailHit(t)  PROVE CounterTypes'
  BY <1>8, EndTypes DEF FailHit, CounterTypes
<1>9. ASSUME NEW t \in CounterTasks, Stamp(t)  PROVE CounterTypes'
  <2>1. stamp' \in [CounterTasks -> 0..MaxTime]
    BY <1>9 DEF Stamp, CounterTypes
  <2> QED  BY <1>9, <2>1 DEF Stamp, Sends, Commands, CounterTypes
<1>10. CASE TimePasses
  <2>1. time' \in 0..MaxTime
    BY <1>10 DEF TimePasses
  <2>2. UNCHANGED <<counter, exp, command, knows, stamp, result, calls, admitted, wiped,
                    settled>>
    BY <1>10 DEF TimePasses
  <2> HIDE CounterNumbers
  <2> QED  BY <2>1, <2>2 DEF CounterTypes
<1> QED  BY <1>1, <1>2, <1>3, <1>4, <1>5, <1>6, <1>7, <1>8, <1>9, <1>10
   DEF CountersNext

\* Every step keeps what the invariant says of the two items' expiry.
LEMMA ExpiryStep ==
  ASSUME CounterTypes, ExpiryInv, CountersNext
  PROVE  ExpiryInv'
<1> USE CounterNumbers, DelayNumbers
<1> DEFINE Under(u) == stamp[u] <= time /\ time <= stamp[u] + SetDelay
<1>0. ASSUME NEW t \in CounterTasks, NEW next \in Commands, next # "set", Sends(t, next),
             UNCHANGED <<time, stamp>>
      PROVE  \A u \in CounterTasks : command'[u] = "set" => Under(u)'
  BY <1>0 DEF Sends, ExpiryInv, CounterTypes
<1>1. ASSUME NEW t \in CounterTasks, NEW cost \in HitCosts, NEW elastic \in BOOLEAN,
             Add(t, cost, elastic)
      PROVE  ExpiryInv'
  <2>1. \E next \in Commands : next # "set" /\ Sends(t, next)
    BY <1>1 DEF Add, Commands
  <2>2. \A u \in CounterTasks : command'[u] = "set" => Under(u)'
    BY <1>0, <1>1, <2>1 DEF Add
  <2> QED  BY <1>1, <2>2 DEF Add, ExpiryInv, Held
<1>2. ASSUME NEW t \in CounterTasks, SetExp(t)  PROVE ExpiryInv'
  <2>1. \A u \in CounterTasks : command'[u] = "set" => Under(u)'
    BY <1>0, <1>2 DEF SetExp, Commands
  <2>2. /\ exp' = [value |-> stamp[t] + Expiry, expires |-> time + Expiry]
        /\ Under(t)
        /\ UNCHANGED <<time, counter>>
    BY <1>2 DEF SetExp, ExpAfterSet, NewExp, ExpiryInv
  <2>3. /\ exp'.value <= exp'.expires
        /\ counter.expires <= exp'.value + SetDelay
        /\ counter.expires <= exp'.expires
    BY <2>2 DEF ExpiryInv
  <2> QED  BY <2>1, <2>2, <2>3 DEF ExpiryInv
<1>3. ASSUME NEW t \in CounterTasks, Touch(t)  PROVE ExpiryInv'
  <2>1. \A u \in CounterTasks : command'[u] = "set" => Under(u)'
    BY <1>0, <1>3 DEF Touch, Commands
  <2>2. counter'.expires <= time + Expiry
    <3>1. counter' = IF Held(counter) THEN [counter EXCEPT !.expires = time + Expiry]
                     ELSE counter
      BY <1>3 DEF Touch
    <3> QED  BY <3>1, CounterWrites DEF ExpiryInv
  <2> QED  BY <1>3, <2>1, <2>2 DEF Touch, ExpiryInv
<1>4. ASSUME NEW t \in CounterTasks, Incr(t)  PROVE ExpiryInv'
  <2>1. counter'.expires = counter.expires
    BY <1>4 DEF Incr, CounterTypes, Item
  <2>2. \A u \in CounterTasks : command'[u] = "set" => Under(u)'
    <3>1. Sends(t, "get") /\ UNCHANGED <<time, stamp>>
      BY <1>4 DEF Incr
    <3> QED  BY <1>0, <3>1 DEF Commands
  <2>3. UNCHANGED <<time, exp, settled>>
    BY <1>4 DEF Incr
  <2> QED  BY <2>1, <2>2, <2>3 DEF ExpiryInv, Held
<1>5. ASSUME NEW t \in CounterTasks, GetExpiry(t) \/ FailHit(t)  PROVE ExpiryInv'
  <2>1. \A u \in CounterTasks : command'[u] = "set" => Under(u)'
    BY <1>0, <1>5 DEF GetExpiry, FailHit, Finish, Commands
  <2> QED  BY <1>5, <2>1 DEF GetExpiry, FailHit, ExpiryInv, Held
<1>6. ASSUME NEW t \in CounterTasks, Reset(t)  PROVE ExpiryInv'
  <2>1. \A u \in CounterTasks : command'[u] = "set" => Under(u)'
    BY <1>0, <1>6 DEF Reset, Commands
  <2> QED  BY <1>6, <2>1 DEF Reset, NoItem, ExpiryInv, Held
<1>7. ASSUME NEW t \in CounterTasks, ResetExp(t)  PROVE ExpiryInv'
  <2>1. \A u \in CounterTasks : command'[u] = "set" => Under(u)'
    BY <1>0, <1>7 DEF ResetExp, Finish, Commands
  <2> QED  BY <1>7, <2>1 DEF ResetExp, NoItem, ExpiryInv, Held
<1>8. ASSUME NEW t \in CounterTasks, Stamp(t)  PROVE ExpiryInv'
  <2>1. \A u \in CounterTasks : command'[u] = "set" => Under(u)'
    <3>1. /\ command' = [command EXCEPT ![t] = "set"]
          /\ stamp' = [stamp EXCEPT ![t] = time]
          /\ time' = time
      BY <1>8 DEF Stamp, Sends
    <3>2. stamp'[t] = time
      BY <3>1 DEF CounterTypes
    <3>3. \A u \in CounterTasks \ {t} : command'[u] = command[u] /\ stamp'[u] = stamp[u]
      BY <3>1 DEF CounterTypes
    <3> QED  BY <3>1, <3>2, <3>3 DEF ExpiryInv
  <2> QED  BY <1>8, <2>1 DEF Stamp, ExpiryInv, Held
<1>9. CASE TimePasses
  <2>1. \A u \in CounterTasks : command'[u] = "set" => Under(u)'
    BY <1>9 DEF TimePasses, ExpiryInv
  <2> QED  BY <1>9, <2>1 DEF TimePasses, ExpiryInv, Held
<1> QED  BY <1>1, <1>2, <1>3, <1>4, <1>5, <1>6, <1>7, <1>8, <1>9 DEF CountersNext

-----------------------------------------------------------------------------
(* What was given.                                                         *)

\* What a hit gives: its cost when it is admitted.
LEMMA IncrGives ==
  ASSUME CounterTypes, GivenInv, NEW t \in CounterTasks, Incr(t)
  PROVE  LET cost  == knows[t].cost
             value == IF Held(counter) THEN counter.value + cost ELSE cost
             gain  == IF value <= Limit THEN cost ELSE 0
         IN  /\ \A s \in 0..MaxTime :
                  admitted'[s] = IF s >= time THEN admitted[s] + gain ELSE admitted[s]
             /\ \A a \in 0..time : GivenBefore(a)' = GivenBefore(a)
             /\ \A a \in 0..time : GivenSince(a)' = GivenSince(a) + gain
<1> DEFINE cost == knows[t].cost
           value == IF Held(counter) THEN counter.value + cost ELSE cost
           gain == IF value <= Limit THEN cost ELSE 0
<1> USE CounterNumbers
<1>1. time' = time
  BY DEF Incr
<1>2. cost \in Nat /\ gain \in Nat
  BY LargestCost
<1>3. admitted' = [s \in 0..MaxTime |->
                  IF s >= time /\ value <= Limit THEN admitted[s] + cost ELSE admitted[s]]
  BY DEF Incr
<1>4. \A s \in 0..MaxTime : admitted'[s] = IF s >= time THEN admitted[s] + gain ELSE admitted[s]
  BY <1>3
<1> HIDE DEF gain, value, cost
<1>5. \A a \in 0..time : GivenBefore(a)' = GivenBefore(a) /\ GivenBefore(a) \in Nat
  BY <1>2, <1>4 DEF GivenBefore
<1>6. \A a \in 0..time : GivenSince(a)' = GivenSince(a) + gain
  <2> TAKE a \in 0..time
  <2>1. admitted'[time] = admitted[time] + gain /\ admitted[time] \in Nat
    BY <1>2, <1>4
  <2>2. /\ GivenSince(a)' = admitted'[time] - GivenBefore(a)'
        /\ GivenSince(a) = admitted[time] - GivenBefore(a)
    BY <1>1 DEF GivenSince, GivenBefore
  <2> QED  BY <1>2, <1>5, <2>1, <2>2
<1> QED  BY <1>4, <1>5, <1>6 DEF gain, value, cost

\* Every step keeps what the invariant says of the history.
LEMMA GivenStep ==
  ASSUME CounterTypes, GivenInv, CountersNext
  PROVE  GivenInv'
<1> USE CounterNumbers
<1>1. ASSUME UNCHANGED <<time, admitted>>  PROVE GivenInv'
  BY <1>1 DEF GivenInv, GivenBefore
<1>2. ASSUME NEW t \in CounterTasks, Incr(t)  PROVE GivenInv'
  <2> DEFINE cost == knows[t].cost
             value == IF Held(counter) THEN counter.value + cost ELSE cost
             gain == IF value <= Limit THEN cost ELSE 0
  <2>1. time' = time /\ gain \in Nat
    BY <1>2, LargestCost DEF Incr
  <2>2. /\ \A s \in 0..MaxTime :
             admitted'[s] = IF s >= time THEN admitted[s] + gain ELSE admitted[s]
        /\ \A a \in 0..time : GivenBefore(a)' = GivenBefore(a)
    BY <1>2, IncrGives
  <2>3. \A a \in 0..time : GivenBefore(a) \in Nat
    BY DEF GivenBefore
  <2> HIDE DEF gain
  <2>4. \A s \in 0..MaxTime : s >= time => admitted'[s] = admitted'[time]
    BY <2>2 DEF GivenInv
  <2>5. \A s \in 0..time : GivenBefore(s)' <= admitted'[time]
    BY <2>1, <2>2, <2>3 DEF GivenInv
  <2> QED  BY <2>1, <2>4, <2>5 DEF GivenInv
<1>3. CASE TimePasses
  <2>1. time' = time + 1 /\ admitted' = admitted /\ time + 1 <= MaxTime
    BY <1>3 DEF TimePasses
  <2>2. admitted[time + 1] = admitted[time]
    BY <2>1 DEF GivenInv
  <2>3. \A s \in 0..MaxTime : s >= time + 1 => admitted[s] = admitted[time + 1]
    BY <2>2 DEF GivenInv
  <2>4. \A s \in 0..(time + 1) : GivenBefore(s)' <= admitted[time + 1]
    <3> TAKE s \in 0..(time + 1)
    <3>1. CASE s = time + 1
      BY <2>1, <2>2, <3>1 DEF GivenBefore
    <3>2. CASE s \in 0..time
      BY <2>1, <2>2, <3>2 DEF GivenBefore, GivenInv
    <3> QED  BY <3>1, <3>2
  <2> QED  BY <2>1, <2>3, <2>4 DEF GivenInv
<1>4. ASSUME NEW t \in CounterTasks, NEW cost \in HitCosts, NEW elastic \in BOOLEAN,
             Add(t, cost, elastic)
      PROVE  GivenInv'
  BY <1>1, <1>4 DEF Add
<1>5. ASSUME NEW t \in CounterTasks,
             \/ Stamp(t) \/ SetExp(t) \/ Touch(t) \/ GetExpiry(t)
             \/ Reset(t) \/ ResetExp(t) \/ FailHit(t)
      PROVE  GivenInv'
  BY <1>1, <1>5
  DEF Stamp, SetExp, Touch, GetExpiry, Reset,
      ResetExp, FailHit
<1> QED  BY <1>2, <1>3, <1>4, <1>5 DEF CountersNext

-----------------------------------------------------------------------------
(* The account of what was given in an interval.                           *)

\* What the accounts add up.
LEMMA Sums ==
  ASSUME CounterTypes, NEW a \in 0..time
  PROVE  /\ GivenSince(a) \in Int
         /\ Uncounted(Cardinality(Spent)) \in Nat
         /\ Uncounted(Cardinality(CounterTasks)) \in Nat
         /\ Uncounted(Cardinality(Spent)) <= Uncounted(Cardinality(CounterTasks))
         /\ AtMost(counter.value, Limit) \in 0..Limit
<1> USE CounterNumbers
<1>1. GivenSince(a) \in Int
  BY DEF GivenSince
<1>2. AtMost(counter.value, Limit) \in 0..Limit
  BY DEF AtMost
<1> QED  BY <1>1, <1>2, PartOfTasks DEF Spent

\* A step that gives nothing and leaves the count as it was.
LEMMA SameAccount ==
  ASSUME CounterTypes, CounterTypes', AccountInv,
         UNCHANGED <<time, admitted, wiped, counter>>,
         Held(counter) \/ Spent \subseteq Spent'
  PROVE  AccountInv'
<1> SUFFICES ASSUME NEW a \in 0..time, Short(a)  PROVE Accounted(a)'
  BY DEF AccountInv, Short
<1>1. Accounted(a)  BY DEF AccountInv
<1>2. GivenSince(a)' =
          GivenSince(a) /\ (Held(counter)' <=> Held(counter))
  BY DEF GivenSince, Held
<1>3. CASE Held(counter)
  BY <1>1, <1>2, <1>3 DEF Accounted
<1>4. CASE ~Held(counter)
  <2>1. Uncounted(Cardinality(Spent)) <= Uncounted(Cardinality(Spent'))
    BY <1>4, PartOfTasks DEF Spent
  <2>2. Uncounted(Cardinality(Spent')) \in Nat
    BY PartOfTasks DEF Spent
  <2>3. Uncounted(Cardinality(Spent))' = Uncounted(Cardinality(Spent'))
    BY DEF Uncounted, Largest
  <2> QED  BY <1>1, <1>2, <1>4, <2>1, <2>2, <2>3, Sums, CounterNumbers DEF Accounted
<1> QED  BY <1>3, <1>4

\* Add makes a count when there is none, and has the tasks' hits counted.
LEMMA AddAccount ==
  ASSUME CounterTypes, CounterTypes', AccountInv,
         NEW t \in CounterTasks, NEW cost \in HitCosts, NEW elastic \in BOOLEAN,
         Add(t, cost, elastic)
  PROVE  AccountInv'
<1> USE CounterNumbers
<1>1. UNCHANGED <<time, admitted, wiped>>
  BY DEF Add
<1>2. CASE Held(counter)
  <2>1. counter' = counter
    BY <1>2 DEF Add, Created
  <2> QED  BY <1>1, <1>2, <2>1, SameAccount
<1>3. CASE ~Held(counter)
  <2> SUFFICES ASSUME NEW a \in 0..time, Short(a)  PROVE Accounted(a)'
    BY <1>1 DEF AccountInv, Short
  <2>1. GivenSince(a) <= Limit + Uncounted(Cardinality(Spent))
    BY <1>3 DEF AccountInv, Accounted
  <2>2. counter'.value = 0 /\ counter'.expires = time + Expiry /\ Held(counter)'
    BY <1>1, <1>3 DEF Add, Created, Held
  <2>3. GivenSince(a)' = GivenSince(a) /\ ~(counter'.expires < a + Expiry)
    BY <1>1, <2>2 DEF GivenSince
  <2>4. AtMost(counter'.value, Limit) = 0
    BY <2>2 DEF AtMost
  <2>5. GivenSince(a)' <=
            Limit + Uncounted(Cardinality(CounterTasks)) + AtMost(counter'.value, Limit)
    BY <2>1, <2>3, <2>4, Sums
  <2>6. (Uncounted(Cardinality(CounterTasks)))' = Uncounted(Cardinality(CounterTasks))
    BY DEF Uncounted, Largest
  <2> QED  BY <2>2, <2>3, <2>5, <2>6 DEF Accounted
<1> QED  BY <1>2, <1>3

\* touch makes the count last for the rest of the interval.
LEMMA TouchAccount ==
  ASSUME CounterTypes, CounterTypes', AccountInv,
         NEW t \in CounterTasks, Touch(t)
  PROVE  AccountInv'
<1> USE CounterNumbers
<1>1. UNCHANGED <<time, admitted, wiped>>
  BY DEF Touch
<1>2. CASE ~Held(counter)
  <2>1. counter' = counter
    BY <1>2 DEF Touch
  <2>2. Spent' = Spent
    BY DEF Touch, Sends, Spent, Pending, CounterTypes
  <2> QED  BY <1>1, <1>2, <2>1, <2>2, SameAccount
<1>3. CASE Held(counter)
  <2> SUFFICES ASSUME NEW a \in 0..time, Short(a)  PROVE Accounted(a)'
    BY <1>1 DEF AccountInv, Short
  <2>1. GivenSince(a) <=
            Limit + Uncounted(Cardinality(CounterTasks)) + AtMost(counter.value, Limit)
    BY <1>3, Sums DEF AccountInv, Accounted
  <2>2. /\ counter'.value = counter.value
        /\ counter'.expires = time + Expiry
        /\ Held(counter)'
    BY <1>1, <1>3, CounterWrites DEF Touch, Held
  <2>3. GivenSince(a)' = GivenSince(a) /\ ~(counter'.expires < a + Expiry)
    BY <1>1, <2>2 DEF GivenSince
  <2>4. (Uncounted(Cardinality(CounterTasks)))' = Uncounted(Cardinality(CounterTasks))
    BY DEF Uncounted, Largest
  <2> QED  BY <2>1, <2>2, <2>3, <2>4 DEF Accounted
<1> QED  BY <1>2, <1>3

\* A hit that is counted is in the count, and one that is not spends its task.
LEMMA IncrAccount ==
  ASSUME CounterTypes, CounterTypes', GivenInv, AccountInv,
         NEW t \in CounterTasks, Incr(t)
  PROVE  AccountInv'
<1> DEFINE cost == knows[t].cost
           value == IF Held(counter) THEN counter.value + cost ELSE cost
           gain == IF value <= Limit THEN cost ELSE 0
<1> USE CounterNumbers
<1>1. UNCHANGED <<time, wiped>>
  BY DEF Incr
<1>2. cost \in Nat /\ gain \in Nat /\ cost <= Largest /\ gain <= Largest /\ Largest \in Nat
  BY LargestCost
<1>3. \A a \in 0..time : GivenSince(a)' = GivenSince(a) + gain
  BY IncrGives
<1>4. (Uncounted(Cardinality(CounterTasks)))' = Uncounted(Cardinality(CounterTasks))
  BY DEF Uncounted, Largest
<1> SUFFICES ASSUME NEW a \in 0..time, Short(a)  PROVE Accounted(a)'
  BY <1>1 DEF AccountInv, Short
<1>5. Accounted(a)  BY DEF AccountInv
<1>6. CASE Held(counter)
  <2>1. /\ counter'.value = counter.value + cost
        /\ counter'.expires = counter.expires
        /\ Held(counter)'
    BY <1>1, <1>6 DEF Incr, Held, CounterTypes, Item
  <2>2. AtMost(counter.value, Limit) + gain <= AtMost(counter.value + cost, Limit)
    BY <1>2, <1>6 DEF AtMost
  <2>3. AtMost(counter.value + cost, Limit) \in Nat
    BY <1>2 DEF AtMost
  <2> HIDE DEF gain, cost, value
  <2> QED  BY <1>2, <1>3, <1>4, <1>5, <1>6, <2>1, <2>2, <2>3, Sums DEF Accounted
<1>7. CASE ~Held(counter)
  <2>1. counter' = counter /\ ~Held(counter)'
    BY <1>1, <1>7 DEF Incr, Held
  <2>2. command[t] = "incr" /\ command' = [command EXCEPT ![t] = "get"]
    BY DEF Incr, Sends
  <2>3. t \notin Spent /\ Spent' = Spent \cup {t}
    <3>1. command'[t] = "get" /\ \A u \in CounterTasks \ {t} : command'[u] = command[u]
      BY <2>2 DEF CounterTypes
    <3> QED  BY <2>2, <3>1 DEF Spent, Pending
  <2>4. IsFiniteSet(Spent) /\ Cardinality(Spent) \in Nat
    <3>1. IsFiniteSet(CounterTasks)  BY CountersAssumption
    <3> QED  BY <3>1, FS_Subset, FS_CardinalityType DEF Spent
  <2>5. Cardinality(Spent') = Cardinality(Spent) + 1
    BY <2>3, <2>4, FS_AddElement
  <2>6. Uncounted(Cardinality(Spent')) = Uncounted(Cardinality(Spent)) + Largest
    BY <2>4, <2>5, UncountedGrows
  <2>7. (Uncounted(Cardinality(Spent)))' = Uncounted(Cardinality(Spent'))
    BY DEF Uncounted, Largest
  <2>8. GivenSince(a) <= Limit + Uncounted(Cardinality(Spent))
    BY <1>5, <1>7 DEF Accounted
  <2> HIDE DEF gain, cost, value
  <2>9. GivenSince(a)' <= Limit + Uncounted(Cardinality(Spent'))
    BY <1>2, <1>3, <2>6, <2>8, Sums
  <2> QED  BY <2>1, <2>7, <2>9 DEF Accounted
<1> QED  BY <1>6, <1>7

\* The present is a new interval, and the count may end in the others.
LEMMA TickAccount ==
  ASSUME CounterTypes, CounterTypes', GivenInv, AccountInv,
         TimePasses
  PROVE  AccountInv'
<1> USE CounterNumbers
<1>1. time' = time + 1 /\ time + 1 <= MaxTime /\ UNCHANGED <<admitted, wiped, counter, command>>
  BY DEF TimePasses
<1>2. admitted[time + 1] = admitted[time]
  BY <1>1 DEF GivenInv
<1>3. /\ (Uncounted(Cardinality(CounterTasks)))' = Uncounted(Cardinality(CounterTasks))
      /\ (Uncounted(Cardinality(Spent)))' = Uncounted(Cardinality(Spent))
  BY <1>1 DEF Uncounted, Largest, Spent, Pending
<1>4. Limit + Uncounted(Cardinality(Spent)) \in Nat /\ AtMost(counter.value, Limit) \in 0..Limit
  BY Sums, <1>1
<1>5. ASSUME NEW a \in {time + 1}  PROVE Accounted(a)'
  <2>1. GivenSince(a)' = 0
    BY <1>1, <1>2 DEF GivenSince
  <2>2. Uncounted(Cardinality(CounterTasks)) \in Nat /\ Uncounted(Cardinality(Spent)) \in Nat
    BY PartOfTasks DEF Spent
  <2> QED  BY <1>1, <1>3, <1>4, <2>1, <2>2 DEF Accounted
<1>6. ASSUME NEW a \in 0..time, Short(a)'  PROVE Accounted(a)'
  <2>1. Short(a) /\ time + 1 < a + Expiry
    BY <1>1, <1>6 DEF Short
  <2>2. Accounted(a)  BY <2>1 DEF AccountInv
  <2>3. GivenSince(a)' = GivenSince(a)
    BY <1>1, <1>2 DEF GivenSince
  <2>4. Held(counter)' => Held(counter)
    BY <1>1 DEF Held
  <2>5. CASE Held(counter)' \/ ~Held(counter)
    BY <1>1, <1>3, <2>2, <2>3, <2>4, <2>5 DEF Accounted
  <2>6. CASE Held(counter) /\ ~Held(counter)'
    <3>1. counter.expires < a + Expiry
      BY <1>1, <2>1, <2>6 DEF Held
    <3>2. GivenSince(a) <= AtMost(counter.value, Limit)
      BY <2>2, <2>6, <3>1 DEF Accounted
    <3> QED  BY <1>3, <2>3, <2>6, <3>2, Sums DEF Accounted
  <2> QED  BY <2>5, <2>6
<1> SUFFICES ASSUME NEW a \in 0..(time + 1), Short(a)'  PROVE Accounted(a)'
  BY <1>1 DEF AccountInv
<1>7. CASE a = time + 1
  BY <1>5, <1>7
<1>8. CASE a \in 0..time
  BY <1>6, <1>8
<1> QED  BY <1>7, <1>8

\* Every step keeps the account of every interval.
LEMMA AccountStep ==
  ASSUME CounterTypes, CounterTypes', GivenInv, AccountInv,
         CountersNext
  PROVE  AccountInv'
<1> USE CounterNumbers
<1>1. ASSUME NEW t \in CounterTasks, NEW cost \in HitCosts, NEW elastic \in BOOLEAN,
             Add(t, cost, elastic)
      PROVE  AccountInv'
  BY <1>1, AddAccount
<1>2. ASSUME NEW t \in CounterTasks, Stamp(t) \/ SetExp(t)  PROVE AccountInv'
  <2>1. Spent' = Spent
    BY <1>2 DEF Stamp, SetExp, Sends, Spent, Pending, CounterTypes
  <2> QED  BY <1>2, <2>1, SameAccount DEF Stamp, SetExp
<1>3. ASSUME NEW t \in CounterTasks, GetExpiry(t) \/ ResetExp(t) \/ FailHit(t)
      PROVE  AccountInv'
  <2>1. UNCHANGED <<time, admitted, wiped, counter>> /\ Finish(t)
    BY <1>3 DEF GetExpiry, ResetExp, FailHit
  <2>2. Spent \subseteq Spent'
    BY <2>1, EndTypes DEF Spent, Pending
  <2> QED  BY <2>1, <2>2, SameAccount
<1>4. ASSUME NEW t \in CounterTasks, Reset(t)  PROVE AccountInv'
  BY <1>4 DEF Reset, AccountInv, Short
<1>5. ASSUME NEW t \in CounterTasks, Touch(t) \/ Incr(t)  PROVE AccountInv'
  BY <1>5, TouchAccount, IncrAccount
<1>6. CASE TimePasses
  BY <1>6, TickAccount
<1> QED  BY <1>1, <1>2, <1>3, <1>4, <1>5, <1>6 DEF CountersNext

-----------------------------------------------------------------------------

\* The invariant of the counters holds in every reachable state.
LEMMA CountersInvariant ==
  CountersSpec => []CountersInv
<1>1. CountersInit => CountersInv
  BY CountersStart
<1>2. CountersInv /\ [CountersNext]_countersVars => CountersInv'
  <2> SUFFICES ASSUME CountersInv, [CountersNext]_countersVars  PROVE CountersInv'
    OBVIOUS
  <2>1. CASE CountersNext
    <3>1. CounterTypes'  BY <2>1, TypesStep DEF CountersInv
    <3>2. ExpiryInv'  BY <2>1, ExpiryStep DEF CountersInv
    <3>3. GivenInv'  BY <2>1, GivenStep DEF CountersInv
    <3>4. AccountInv'  BY <2>1, <3>1, AccountStep DEF CountersInv
    <3> QED  BY <3>1, <3>2, <3>3, <3>4 DEF CountersInv
  <2>2. CASE UNCHANGED countersVars
    <3>1. CounterTypes' /\ ExpiryInv' /\ GivenInv'
      BY <2>2
      DEF CountersInv, countersVars, CounterTypes, ExpiryInv, GivenInv, GivenBefore,
          Held
    <3>2. AccountInv'
      BY <2>2
      DEF CountersInv, countersVars, AccountInv, Short, Accounted, GivenSince,
          Held, Uncounted, Largest, Spent, Pending
    <3> QED  BY <3>1, <3>2 DEF CountersInv
  <2> QED  BY <2>1, <2>2
<1> QED  BY <1>1, <1>2, PTL DEF CountersSpec

\* The count and its reset time, what the tasks know and what they answer keep
\* their types.
THEOREM CountersTypes ==
  CountersSpec => []CountersTypeOK
<1>1. CountersInv => CountersTypeOK
  BY TypesAre DEF CountersInv
<1> QED  BY <1>1, CountersInvariant, PTL

\* An interval shorter than the window, in which nothing is reset, sees no more
\* admitted than two counts allow and what one hit of each task costs.
THEOREM CountersAdmit ==
  CountersSpec => []AdmittedInAWindow
<1>1. CountersInv => AdmittedInAWindow
  <2> SUFFICES ASSUME CountersInv, NEW a \in 0..time, wiped < a, time - a < Expiry
               PROVE  GivenSince(a) <=
                          2 * Limit + Max(HitCosts) * Cardinality(CounterTasks)
    BY DEF AdmittedInAWindow
  <2>1. Accounted(a)
    BY DEF CountersInv, AccountInv, Short
  <2>2. GivenSince(a) <= 2 * Limit + Uncounted(Cardinality(CounterTasks))
    BY <2>1, Sums, CounterNumbers DEF CountersInv, Accounted
  <2> QED  BY <2>2 DEF Uncounted, Largest
<1> QED  BY <1>1, CountersInvariant, PTL

\* A count lasts no longer than the reset time that get_expiry answers for it and
\* the time a set may take, once both were written and until one is written or
\* deleted without the other.
THEOREM CountersExpire ==
  CountersSpec => []ResetTimeCoversTheCount
<1>1. CountersInv => ResetTimeCoversTheCount
  BY CounterNumbers, DelayNumbers DEF CountersInv, ExpiryInv, ResetTimeCoversTheCount, Held
<1> QED  BY <1>1, CountersInvariant, PTL
=============================================================================
