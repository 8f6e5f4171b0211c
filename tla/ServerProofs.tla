---------------------------- MODULE ServerProofs ----------------------------
(***************************************************************************)
(* Proofs about the server.                                                *)
(*                                                                         *)
(* RateLimiter: type correctness, that a Retry-After is kept, and that no  *)
(* more is admitted than the bucket held and time refilled.  All hold for  *)
(* every capacity, rate and number of threads.                             *)
(*                                                                         *)
(* Lifecycle: type correctness of the process, and that nothing runs when  *)
(* main() has returned, for any finite set of requests and any numbers of  *)
(* threads and signals.                                                    *)
(***************************************************************************)
EXTENDS RateLimiter, Lifecycle, SequenceTheorems, TLAPS

(* A bucket that has refilled since a time gains as much as if it had      *)
(* refilled in two parts.                                                  *)
LEMMA RefillAdds ==
  ASSUME NEW a \in Int, NEW b \in Int, NEW c \in Int, NEW r \in Int
  PROVE  (a - b) * r + (b - c) * r = (a - c) * r
BY SMT

(* A longer time refills no less. *)
LEMMA RefillGrows ==
  ASSUME NEW a \in Int, NEW b \in Int, NEW r \in Nat, a <= b
  PROVE  /\ a * r \in Int /\ b * r \in Int
         /\ a * r <= b * r
<1>1. (b - a) * r >= 0 BY SMT
<1>2. (b - a) * r = b * r - a * r BY SMT
<1> QED BY <1>1, <1>2, SMT

(* The refill of a whole time is a natural number. *)
LEMMA RefillNat ==
  ASSUME NEW a \in Nat, NEW r \in Nat
  PROVE  a * r \in Nat
BY SMT

(* Division that rounds up covers what it divides. *)
LEMMA CeilingCovers ==
  ASSUME NEW d \in Nat, NEW p \in Nat \ {0}
  PROVE  /\ (d + p - 1) \div p \in Nat
         /\ p * ((d + p - 1) \div p) >= d
<1> DEFINE q == (d + p - 1) \div p
           m == (d + p - 1) % p
<1>1. d + p - 1 \in Nat BY SMT
<1>2. q \in Int /\ m \in 0 .. (p - 1) /\ d + p - 1 = p * q + m BY <1>1, SMT
<1>3. q >= 0 BY <1>1, SMT
<1> QED BY <1>2, <1>3, SMT

LEMMA FullBucket == Full \in Nat /\ Full >= Token
<1>1. Capacity \in Nat /\ Capacity >= 1 /\ Token \in Nat
  BY RateLimiterAssumption
<1>2. Capacity * Token >= 1 * Token /\ Capacity * Token \in Int
  BY <1>1, RefillGrows
<1> QED BY <1>1, <1>2 DEF Full

-------------------------------------------------------------------------------
(* What Refilled returns: never more than a full bucket holds, and no less *)
(* than the bucket held.                                                   *)
LEMMA RefilledType ==
  ASSUME NEW b \in [tokens : 0 .. Full, last : Times], NEW now \in Times
  PROVE  Refilled(b, now) \in 0 .. Full
<1>1. Full \in Nat /\ Rate \in Nat /\ MaxTime \in Nat
  BY FullBucket, RateLimiterAssumption
<1>2. b.tokens \in 0 .. Full /\ b.last \in 0 .. MaxTime /\ now \in 0 .. MaxTime
  BY DEF Times
<1>3. CASE now > b.last
  <2>1. (now - b.last) * Rate \in Nat
    BY <1>1, <1>2, <1>3, RefillNat
  <2> QED BY <1>1, <1>2, <1>3, <2>1 DEF Refilled
<1>4. CASE ~(now > b.last)
  BY <1>2, <1>4 DEF Refilled
<1> QED BY <1>3, <1>4

(* A bucket owes a client that was told to come back at time p a token:    *)
(* what it holds and what it gains from last to p is at least one.         *)
Owes(b, p) == b.tokens + (p - b.last) * Rate >= Token

(* Once p has come, the token is there. *)
LEMMA OwedIsThere ==
  ASSUME NEW b \in [tokens : 0 .. Full, last : Times], NEW now \in Times,
         NEW p \in Nat, Owes(b, p), p <= now
  PROVE  Refilled(b, now) >= Token
<1>1. /\ Full \in Nat /\ Full >= Token
      /\ Rate \in Nat /\ Token \in Nat /\ MaxTime \in Nat
  BY FullBucket, RateLimiterAssumption
<1>2. b.tokens \in Nat /\ b.last \in Nat /\ now \in Nat
  BY <1>1 DEF Times
<1>3. CASE now > b.last
  <2>1. /\ (p - b.last) * Rate \in Int
        /\ (now - b.last) * Rate \in Int
        /\ (p - b.last) * Rate <= (now - b.last) * Rate
    BY <1>1, <1>2, RefillGrows
  <2>2. b.tokens + (now - b.last) * Rate >= Token
    BY <1>1, <1>2, <2>1 DEF Owes
  <2> QED BY <1>1, <1>3, <2>2 DEF Refilled
<1>4. CASE ~(now > b.last)
  <2>1. /\ (p - b.last) * Rate \in Int
        /\ (p - b.last) * Rate <= 0 * Rate
    BY <1>1, <1>2, <1>4, RefillGrows
  <2>2. b.tokens >= Token
    BY <1>1, <1>2, <2>1, SMT DEF Owes
  <2> QED BY <1>4, <2>2 DEF Refilled
<1> QED BY <1>3, <1>4

(* A call that is denied leaves the bucket owing what it owed. *)
LEMMA DenialKeepsDebt ==
  ASSUME NEW b \in [tokens : 0 .. Full, last : Times], NEW now \in Times,
         NEW p \in Nat, Owes(b, p), Refilled(b, now) < Token
  PROVE  Owes([tokens |-> Refilled(b, now), last |-> now], p)
<1>1. /\ Full \in Nat /\ Full >= Token
      /\ Rate \in Nat /\ Token \in Nat /\ MaxTime \in Nat
  BY FullBucket, RateLimiterAssumption
<1>2. b.tokens \in Nat /\ b.last \in Nat /\ now \in Nat
  BY <1>1 DEF Times
<1>3. /\ (p - b.last) * Rate \in Int /\ (p - now) * Rate \in Int
      /\ (now - b.last) * Rate \in Int
  BY <1>1, <1>2, SMT
<1>4. SUFFICES Refilled(b, now) + (p - now) * Rate >= Token
  BY DEF Owes
<1>5. CASE now > b.last
  <2>1. Refilled(b, now) = b.tokens + (now - b.last) * Rate
    BY <1>1, <1>2, <1>3, <1>5 DEF Refilled
  <2>2. (p - now) * Rate + (now - b.last) * Rate = (p - b.last) * Rate
    BY <1>1, <1>2, RefillAdds
  <2> QED BY <1>1, <1>2, <1>3, <2>1, <2>2 DEF Owes
<1>6. CASE ~(now > b.last)
  <2>1. Refilled(b, now) = b.tokens
    BY <1>6 DEF Refilled
  <2>2. (p - b.last) * Rate <= (p - now) * Rate
    BY <1>1, <1>2, <1>6, RefillGrows
  <2> QED BY <1>1, <1>2, <1>3, <2>1, <2>2 DEF Owes
<1> QED BY <1>5, <1>6

(* The time a denied client is told to come back at is a debt that the     *)
(* bucket will have covered by then.                                       *)
LEMMA RetryAfterCovers ==
  ASSUME NEW now \in Times, NEW tokens \in Nat, tokens < Token
  PROVE  /\ now + Second * RetryAfter(tokens) \in Nat
         /\ Owes([tokens |-> tokens, last |-> now],
                 now + Second * RetryAfter(tokens))
<1> DEFINE p == Rate * Second
           d == Token - tokens
           q == (d + p - 1) \div p
           wait == RetryAfter(tokens)
<1>1. /\ Rate \in Nat \ {0} /\ Second \in Nat \ {0} /\ Token \in Nat
      /\ now \in Nat
  BY RateLimiterAssumption DEF Times
<1>2. p \in Nat \ {0} /\ d \in Nat
  <2>1. Rate * Second >= 1 * Second
    BY <1>1, RefillGrows
  <2> QED BY <1>1, <2>1
<1>3. q \in Nat /\ p * q >= d
  BY <1>2, CeilingCovers
<1>4. wait \in Nat /\ wait >= q
  <2>1. wait = IF q > 1 THEN q ELSE 1
    BY DEF RetryAfter
  <2> QED BY <1>3, <2>1
<1>5. q * p <= wait * p /\ q * p \in Int /\ wait * p \in Int
  BY <1>2, <1>3, <1>4, RefillGrows
<1>6. Second * wait \in Nat
  BY <1>1, <1>4, RefillNat
<1>7. (Second * wait) * Rate = wait * p /\ q * p = p * q
  BY <1>1, <1>3, <1>4, SMT
<1>8. (now + Second * wait) - now = Second * wait
  BY <1>1, <1>6
<1>9. tokens + (Second * wait) * Rate >= Token
  BY <1>1, <1>3, <1>5, <1>7
<1> QED BY <1>1, <1>6, <1>8, <1>9 DEF Owes

-------------------------------------------------------------------------------
(* Each promise made to a client of key k is a debt of the bucket of k. *)
PromisesCovered ==
  \A k \in Keys : \A p \in retryAt[k] :
    buckets[k] # NoBucket /\ Owes(buckets[k], p)

Bucket == [tokens : 0 .. Full, last : Times]

LEMMA BucketIsBucket ==
  ASSUME RLTypeOK, NEW k \in Keys, NEW now \in Times
  PROVE  BucketOf(k, now) \in Bucket
BY FullBucket DEF RLTypeOK, BucketOf, Bucket

LEMMA SlipType ==
  ASSUME RLTypeOK, NEW k \in Keys, NEW now \in Times
  PROVE  Slip(BucketOf(k, now), now) \in Nat
<1>1. MaxTime \in Nat
  BY RateLimiterAssumption
<1>2. BucketOf(k, now).last \in Times
  BY BucketIsBucket DEF Bucket
<1> QED BY <1>1, <1>2 DEF Slip, Times

(* What a call of thread t does, with its key and its now by name. *)
Called(t, k, now) ==
  LET tokens == Refilled(BucketOf(k, now), now)
  IN  /\ call[t] = [key |-> k, now |-> now]
      /\ tokens \in 0 .. Full
      /\ \/ /\ tokens >= Token
            /\ buckets' = [buckets EXCEPT ![k] =
                             [tokens |-> tokens - Token, last |-> now]]
            /\ admitted' = [admitted EXCEPT ![k] = @ + 1]
            /\ retryAt' = [retryAt EXCEPT ![k] = {}]
         \/ /\ tokens < Token
            /\ buckets' = [buckets EXCEPT ![k] = [tokens |-> tokens, last |-> now]]
            /\ retryAt' = [retryAt EXCEPT ![k] =
                             @ \union {now + Second * RetryAfter(tokens)}]
            /\ admitted' = admitted
      /\ since' = [since EXCEPT ![k] = Earliest(k, now)]
      /\ slipped' = [slipped EXCEPT ![k] = @ + Slip(BucketOf(k, now), now)]
      /\ call' = [call EXCEPT ![t] = NoCall]
      /\ clock' = clock

LEMMA CheckIsCalled ==
  ASSUME RLTypeOK, NEW t \in Threads, Check(t)
  PROVE  \E k \in Keys, now \in Times : Called(t, k, now)
<1>1. call[t] \in [key : Keys, now : Times] /\ call[t] # NoCall
  BY DEF RLTypeOK, Check
<1>2. PICK k \in Keys, now \in Times : call[t] = [key |-> k, now |-> now]
  BY <1>1
<1>3. BucketOf(k, now) \in Bucket
  BY BucketIsBucket
<1>4. Refilled(BucketOf(k, now), now) \in 0 .. Full
  BY <1>3, RefilledType DEF Bucket
<1>5. call[t].key = k /\ call[t].now = now
  BY <1>2
<1> QED BY <1>2, <1>4, <1>5 DEF Check, Called

(* The type invariant of the rate limiter: a bucket never holds less than  *)
(* nothing or more than its capacity.                                      *)
THEOREM LimiterTypeCorrect == RLSafety => []RLTypeOK
<1>1. RLInit => RLTypeOK
  <2> SUFFICES ASSUME RLInit PROVE RLTypeOK
    OBVIOUS
  <2>1. 0 \in Times
    BY RateLimiterAssumption DEF Times
  <2> QED BY <2>1 DEF RLInit, RLTypeOK
<1>2. RLTypeOK /\ [RLNext]_rlVars => RLTypeOK'
  <2> SUFFICES ASSUME RLTypeOK, [RLNext]_rlVars PROVE RLTypeOK'
    OBVIOUS
  <2>1. CASE Tick
    BY <2>1, RateLimiterAssumption DEF Tick, history, RLTypeOK, Times
  <2>2. ASSUME NEW t \in Threads, NEW k \in Keys, ReadClock(t, k)
        PROVE  RLTypeOK'
    BY <2>2 DEF ReadClock, history, RLTypeOK
  <2>3. ASSUME NEW t \in Threads, Check(t)
        PROVE  RLTypeOK'
    <3>1. PICK k \in Keys, now \in Times : Called(t, k, now)
      BY <2>3, CheckIsCalled
    <3> DEFINE tokens == Refilled(BucketOf(k, now), now)
    <3>2. Full \in Nat /\ Token \in Nat \ {0} /\ MaxTime \in Nat
      BY FullBucket, RateLimiterAssumption
    <3>3. Earliest(k, now) \in Times
      BY DEF Earliest, RLTypeOK
    <3>4. tokens < Token => now + Second * RetryAfter(tokens) \in Nat
      <4>1. tokens \in Nat
        BY <3>1, <3>2 DEF Called
      <4> QED BY <4>1, RetryAfterCovers
    <3>5. buckets' \in [Keys -> Bucket \union {NoBucket}]
      BY <3>1, <3>2 DEF Called, RLTypeOK, Bucket
    <3>6. retryAt' \in [Keys -> SUBSET Nat] /\ admitted' \in [Keys -> Nat]
      BY <3>1, <3>4 DEF Called, RLTypeOK
    <3>7. slipped' \in [Keys -> Nat]
      <4>1. Slip(BucketOf(k, now), now) \in Nat
        BY <3>2, SlipType DEF RLTypeOK
      <4> QED BY <3>1, <4>1 DEF Called, RLTypeOK
    <3>8. /\ since' \in [Keys -> Times]
          /\ call' \in [Threads -> [key : Keys, now : Times] \union {NoCall}]
          /\ clock' \in Times
      BY <3>1, <3>3 DEF Called, RLTypeOK
    <3> QED BY <3>5, <3>6, <3>7, <3>8 DEF RLTypeOK, Bucket
  <2>4. CASE UNCHANGED rlVars
    BY <2>4 DEF rlVars, history, RLTypeOK
  <2> QED BY <2>1, <2>2, <2>3, <2>4 DEF RLNext
<1> QED BY <1>1, <1>2, PTL DEF RLSafety

(* Every promise stays covered: a denial leaves the debts and adds one     *)
(* that the refill will have covered, an admission cancels them.           *)
LEMMA PromisesStayCovered ==
  ASSUME RLTypeOK, PromisesCovered, [RLNext]_rlVars
  PROVE  PromisesCovered'
<1>1. CASE Tick
  BY <1>1 DEF Tick, history, PromisesCovered, Owes
<1>2. ASSUME NEW t \in Threads, NEW k \in Keys, ReadClock(t, k)
      PROVE  PromisesCovered'
  BY <1>2 DEF ReadClock, history, PromisesCovered, Owes
<1>3. ASSUME NEW t \in Threads, Check(t)
      PROVE  PromisesCovered'
  <2>1. PICK k \in Keys, now \in Times : Called(t, k, now)
    BY <1>3, CheckIsCalled
  <2> DEFINE tokens == Refilled(BucketOf(k, now), now)
             after == [tokens |-> tokens, last |-> now]
  <2>2. SUFFICES ASSUME NEW j \in Keys, NEW p \in retryAt'[j]
                 PROVE  buckets'[j] # NoBucket /\ Owes(buckets'[j], p)
    BY DEF PromisesCovered, Owes
  <2>3. CASE j # k
    <3>1. retryAt'[j] = retryAt[j] /\ buckets'[j] = buckets[j]
      BY <2>1, <2>3 DEF Called, RLTypeOK
    <3> QED BY <2>2, <3>1 DEF PromisesCovered
  <2>4. CASE j = k
    <3>1. tokens \in Nat /\ now \in Nat /\ Token \in Nat
      BY <2>1, FullBucket, RateLimiterAssumption DEF Called, Times
    <3>2. CASE tokens >= Token
      BY <2>1, <2>2, <2>4, <3>1, <3>2 DEF Called, RLTypeOK
    <3>3. CASE tokens < Token
      <4>1. /\ buckets'[k] = after
            /\ retryAt'[k] = retryAt[k] \union {now + Second * RetryAfter(tokens)}
        BY <2>1, <3>1, <3>3 DEF Called, RLTypeOK
      <4>2. after # NoBucket
        BY <3>1, NullAssumption
      <4>3. CASE p \in retryAt[k]
        <5>1. p \in Nat /\ buckets[k] # NoBucket /\ Owes(buckets[k], p)
          BY <4>3 DEF PromisesCovered, RLTypeOK
        <5>2. BucketOf(k, now) = buckets[k] /\ BucketOf(k, now) \in Bucket
          BY <5>1, BucketIsBucket DEF BucketOf
        <5>3. Owes(after, p)
          BY <3>3, <5>1, <5>2, DenialKeepsDebt DEF Bucket
        <5> QED BY <2>4, <4>1, <4>2, <5>3
      <4>4. CASE p = now + Second * RetryAfter(tokens)
        <5>1. Owes(after, p)
          BY <3>1, <3>3, <4>4, RetryAfterCovers
        <5> QED BY <2>4, <4>1, <4>2, <5>1
      <4> QED BY <2>2, <2>4, <4>1, <4>3, <4>4
    <3> QED BY <3>1, <3>2, <3>3
  <2> QED BY <2>3, <2>4
<1>4. CASE UNCHANGED rlVars
  BY <1>4 DEF rlVars, history, PromisesCovered, Owes
<1> QED BY <1>1, <1>2, <1>3, <1>4 DEF RLNext

(* A call whose key holds a promise that has come is admitted. *)
LEMMA PromiseIsKept ==
  ASSUME RLTypeOK, PromisesCovered, [RLNext]_rlVars,
         NEW t \in Threads, call[t] # NoCall, call'[t] = NoCall,
         NEW p \in retryAt[call[t].key], p <= call[t].now
  PROVE  admitted'[call[t].key] = admitted[call[t].key] + 1
<1>1. Check(t)
  <2>1. ~Tick /\ ~UNCHANGED rlVars
    BY DEF Tick, rlVars, history
  <2>2. ASSUME NEW s \in Threads, NEW k \in Keys, ReadClock(s, k)
        PROVE  FALSE
    BY <2>2 DEF ReadClock, RLTypeOK
  <2>3. ASSUME NEW s \in Threads, Check(s)
        PROVE  s = t
    BY <2>3 DEF Check, RLTypeOK
  <2> QED BY <2>1, <2>2, <2>3 DEF RLNext
<1>2. PICK k \in Keys, now \in Times : Called(t, k, now)
  BY <1>1, CheckIsCalled
<1>3. call[t].key = k /\ call[t].now = now
  BY <1>2 DEF Called
<1>4. p \in Nat /\ buckets[k] # NoBucket /\ Owes(buckets[k], p)
  BY <1>3 DEF PromisesCovered, RLTypeOK
<1>5. BucketOf(k, now) = buckets[k] /\ BucketOf(k, now) \in Bucket
  BY <1>4, BucketIsBucket DEF BucketOf
<1>6. Refilled(BucketOf(k, now), now) >= Token
  BY <1>3, <1>4, <1>5, OwedIsThere DEF Bucket
<1>7. /\ Refilled(BucketOf(k, now), now) \in Nat
      /\ Token \in Nat
  BY <1>2, FullBucket, RateLimiterAssumption DEF Called
<1>8. admitted' = [admitted EXCEPT ![k] = @ + 1]
  BY <1>2, <1>6, <1>7 DEF Called
<1> QED BY <1>3, <1>8 DEF RLTypeOK

(* RetryAfterHonoured: a client that waited as long as its Retry-After     *)
(* said is admitted, for every capacity, rate and number of threads, and   *)
(* although calls may take the lock in another order than they read the    *)
(* clock.                                                                  *)
THEOREM RetryAfterIsHonoured == RLSafety => RetryAfterHonoured
<1>1. RLInit => PromisesCovered
  BY DEF RLInit, PromisesCovered
<1>2. RLTypeOK /\ PromisesCovered /\ [RLNext]_rlVars => PromisesCovered'
  BY PromisesStayCovered
<1>3. RLTypeOK /\ PromisesCovered /\ [RLNext]_rlVars =>
        [\A t \in Threads :
           /\ call[t] # NoCall
           /\ call'[t] = NoCall
           /\ \E at \in retryAt[call[t].key] : at <= call[t].now
           => admitted'[call[t].key] = admitted[call[t].key] + 1]_rlVars
  BY PromiseIsKept
<1> QED BY <1>1, <1>2, <1>3, LimiterTypeCorrect, PTL DEF RLSafety, RetryAfterHonoured

-------------------------------------------------------------------------------
(* What a known bucket has given and still holds is paid for: by what it   *)
(* held at first, and by the time since the first call, the time that a    *)
(* late call made it refill twice included.                                *)
Paid(k) ==
  /\ buckets[k].last <= clock
  /\ buckets[k].tokens + admitted[k] * Token
       <= Full + (buckets[k].last - since[k] + slipped[k]) * Rate

(* AdmittedWithinRate as it is inductive: it speaks of the tokens left and *)
(* of last, and knows that no call has read a clock of the future.         *)
AllPaid ==
  /\ \A t \in Threads : call[t] # NoCall => call[t].now <= clock
  /\ \A k \in Keys :
       \/ /\ buckets[k] = NoBucket
          /\ admitted[k] = 0 /\ since[k] = 0 /\ slipped[k] = 0
       \/ buckets[k] # NoBucket /\ Paid(k)

(* A call, whether it finds last before or after its own now, gains no     *)
(* more tokens than the right-hand side gains time.                        *)
LEMMA RefillIsPaid ==
  ASSUME NEW b \in Bucket, NEW now \in Times, NEW given \in Nat,
         NEW from \in Times, NEW slip \in Nat,
         b.tokens + given <= Full + (b.last - from + slip) * Rate,
         NEW start \in Times, start <= from
  PROVE  Refilled(b, now) + given
           <= Full + (now - start + (slip + Slip(b, now))) * Rate
<1>1. /\ Full \in Nat /\ Rate \in Nat /\ MaxTime \in Nat
      /\ b.tokens \in Nat /\ b.last \in Nat /\ now \in Nat
      /\ from \in Nat /\ start \in Nat
  BY FullBucket, RateLimiterAssumption DEF Bucket, Times
<1> DEFINE before == b.last - from + slip
           after == now - start + (slip + Slip(b, now))
<1>2. CASE now > b.last
  <2>1. Slip(b, now) = 0
    BY <1>1, <1>2 DEF Slip
  <2>2. before \in Int /\ after \in Int /\ after >= (now - b.last) + before
    BY <1>1, <2>1
  <2>3. /\ ((now - b.last) + before) * Rate <= after * Rate
        /\ ((now - b.last) + before) * Rate \in Int /\ after * Rate \in Int
    BY <1>1, <2>2, RefillGrows
  <2>4. /\ ((now - b.last) + before) * Rate = (now - b.last) * Rate + before * Rate
        /\ (now - b.last) * Rate \in Int /\ before * Rate \in Int
    BY <1>1, <2>2, SMT
  <2>5. Refilled(b, now) <= b.tokens + (now - b.last) * Rate
    BY <1>1, <1>2, <2>4 DEF Refilled
  <2>6. Refilled(b, now) \in Int
    BY RefilledType, FullBucket DEF Bucket
  <2> QED BY <1>1, <2>3, <2>4, <2>5, <2>6
<1>3. CASE ~(now > b.last)
  <2>1. Slip(b, now) = b.last - now
    <3>1. CASE now < b.last
      BY <3>1 DEF Slip
    <3>2. CASE now = b.last
      BY <1>1, <3>2 DEF Slip
    <3>3. now < b.last \/ now = b.last
      BY <1>1, <1>3
    <3> QED BY <3>1, <3>2, <3>3
  <2>2. before \in Int /\ after \in Int /\ before <= after
    BY <1>1, <2>1
  <2>3. /\ before * Rate <= after * Rate
        /\ before * Rate \in Int /\ after * Rate \in Int
    BY <1>1, <2>2, RefillGrows
  <2>4. Refilled(b, now) = b.tokens
    BY <1>3 DEF Refilled
  <2> QED BY <1>1, <2>3, <2>4
<1> QED BY <1>2, <1>3

(* The call of a known key keeps Paid, a first call establishes it.        *)
LEMMA CallIsPaid ==
  ASSUME RLTypeOK, AllPaid, NEW t \in Threads, NEW k \in Keys,
         NEW now \in Times, Called(t, k, now)
  PROVE  buckets'[k] # NoBucket /\ Paid(k)'
<1> DEFINE b == BucketOf(k, now)
           tokens == Refilled(b, now)
           start == Earliest(k, now)
           slips == slipped[k] + Slip(b, now)
<1>1. /\ Full \in Nat /\ Rate \in Nat /\ MaxTime \in Nat
      /\ Token \in Nat \ {0}
      /\ clock \in Nat /\ now \in Nat /\ now <= clock
  <2>1. MaxTime \in Nat /\ now \in Nat /\ clock \in Nat
    BY RateLimiterAssumption DEF RLTypeOK, Times
  <2>2. call[t] = [key |-> k, now |-> now] /\ call[t] # NoCall
    BY <2>1, NullAssumption DEF Called
  <2>3. now <= clock
    BY <2>2 DEF AllPaid
  <2> QED BY <2>1, <2>3, FullBucket, RateLimiterAssumption
<1>2. /\ b \in Bucket /\ tokens \in 0 .. Full /\ start \in Times
      /\ slips \in Nat /\ admitted[k] \in Nat /\ since[k] \in Times
  BY BucketIsBucket, SlipType DEF Called, RLTypeOK, Earliest
<1>3. admitted[k] * Token \in Nat
  BY <1>1, <1>2, RefillNat
<1>4. tokens + admitted[k] * Token <= Full + (now - start + slips) * Rate
  <2>1. CASE buckets[k] = NoBucket
    <3>1. b = [tokens |-> Full, last |-> now] /\ start = now
      BY <2>1 DEF BucketOf, Earliest
    <3>2. admitted[k] = 0 /\ slipped[k] = 0
      BY <2>1 DEF AllPaid
    <3>3. Slip(b, now) = 0
      BY <1>1, <3>1 DEF Slip
    <3>4. now - start + slips = 0 /\ 0 * Rate = 0 /\ 0 * Token = 0
      BY <1>1, <3>1, <3>2, <3>3
    <3> QED BY <1>1, <1>2, <3>2, <3>4
  <2>2. CASE buckets[k] # NoBucket
    <3>1. b = buckets[k] /\ Paid(k)
      BY <2>2 DEF BucketOf, AllPaid
    <3>2. start <= since[k]
      BY <1>1, <1>2, <2>2 DEF Earliest, Times
    <3>3. b.tokens + admitted[k] * Token
            <= Full + (b.last - since[k] + slipped[k]) * Rate
      BY <3>1 DEF Paid
    <3>4. slipped[k] \in Nat
      BY DEF RLTypeOK
    <3> QED BY <1>2, <1>3, <3>2, <3>3, <3>4, RefillIsPaid
  <2> QED BY <2>1, <2>2
<1>5. since'[k] = start /\ slipped'[k] = slips /\ clock' = clock
  BY DEF Called, RLTypeOK
<1>6. CASE tokens >= Token
  <2>1. /\ buckets'[k] = [tokens |-> tokens - Token, last |-> now]
        /\ admitted'[k] = admitted[k] + 1
    BY <1>1, <1>2, <1>6 DEF Called, RLTypeOK
  <2>2. (admitted[k] + 1) * Token = admitted[k] * Token + Token
    BY <1>1, <1>2, SMT
  <2>3. tokens - Token \in Nat
    BY <1>1, <1>2, <1>6
  <2>4. buckets'[k] # NoBucket
    BY <1>1, <2>1, <2>3, NullAssumption
  <2>5. (tokens - Token) + (admitted[k] + 1) * Token = tokens + admitted[k] * Token
    BY <1>1, <1>2, <1>3, <2>2
  <2>6. /\ buckets'[k].last <= clock'
        /\ buckets'[k].tokens + admitted'[k] * Token
             <= Full + (buckets'[k].last - since'[k] + slipped'[k]) * Rate
    BY <1>1, <1>4, <1>5, <2>1, <2>5
  <2> QED BY <2>4, <2>6 DEF Paid, Full
<1>7. CASE tokens < Token
  <2>1. /\ buckets'[k] = [tokens |-> tokens, last |-> now]
        /\ admitted'[k] = admitted[k]
    BY <1>1, <1>2, <1>7 DEF Called, RLTypeOK
  <2>2. buckets'[k] # NoBucket
    BY <1>1, <1>2, <2>1, NullAssumption
  <2> QED BY <1>1, <1>4, <1>5, <2>1, <2>2 DEF Paid, Full
<1> QED BY <1>1, <1>2, <1>6, <1>7

LEMMA AllStaysPaid ==
  ASSUME RLTypeOK, AllPaid, [RLNext]_rlVars
  PROVE  AllPaid'
<1>1. CASE Tick
  <2>1. clock \in Nat /\ clock' = clock + 1
    BY <1>1, RateLimiterAssumption DEF Tick, RLTypeOK, Times
  <2>2. \A t \in Threads : call[t] # NoCall => call[t].now \in Nat
    BY RateLimiterAssumption DEF RLTypeOK, Times
  <2>3. \A k \in Keys : buckets[k] # NoBucket => buckets[k].last \in Nat
    BY RateLimiterAssumption DEF RLTypeOK, Times
  <2> QED BY <1>1, <2>1, <2>2, <2>3 DEF Tick, history, AllPaid, Paid, Full
<1>2. ASSUME NEW t \in Threads, NEW k \in Keys, ReadClock(t, k)
      PROVE  AllPaid'
  <2>1. clock \in Nat
    BY RateLimiterAssumption DEF RLTypeOK, Times
  <2>2. \A s \in Threads : call'[s] # NoCall => call'[s].now <= clock'
    BY <1>2, <2>1 DEF ReadClock, RLTypeOK, AllPaid
  <2> QED BY <1>2, <2>2 DEF ReadClock, history, AllPaid, Paid, Full
<1>3. ASSUME NEW t \in Threads, Check(t)
      PROVE  AllPaid'
  <2>1. PICK k \in Keys, now \in Times : Called(t, k, now)
    BY <1>3, CheckIsCalled
  <2>2. \A s \in Threads : call'[s] # NoCall => call'[s].now <= clock'
    BY <2>1 DEF Called, RLTypeOK, AllPaid
  <2>3. ASSUME NEW j \in Keys
        PROVE  \/ /\ buckets'[j] = NoBucket
                  /\ admitted'[j] = 0 /\ since'[j] = 0 /\ slipped'[j] = 0
               \/ buckets'[j] # NoBucket /\ Paid(j)'
    <3>1. CASE j = k
      BY <2>1, <3>1, CallIsPaid
    <3>2. CASE j # k
      <4>1. /\ buckets'[j] = buckets[j] /\ admitted'[j] = admitted[j]
            /\ since'[j] = since[j] /\ slipped'[j] = slipped[j]
            /\ clock' = clock
        BY <2>1, <3>2 DEF Called, RLTypeOK
      <4> QED BY <4>1 DEF AllPaid, Paid, Full
    <3> QED BY <3>1, <3>2
  <2> QED BY <2>2, <2>3 DEF AllPaid
<1>4. CASE UNCHANGED rlVars
  BY <1>4 DEF rlVars, history, AllPaid, Paid, Full
<1> QED BY <1>1, <1>2, <1>3, <1>4 DEF RLNext

(* AdmittedWithinRate: a key is never admitted more often than its full    *)
(* bucket, the time since its first call and the time refilled twice by    *)
(* late calls pay for.                                                     *)
THEOREM AdmissionsArePaid == RLSafety => []AdmittedWithinRate
<1>1. RLInit => AllPaid
  BY DEF RLInit, AllPaid
<1>2. RLTypeOK /\ AllPaid /\ [RLNext]_rlVars => AllPaid'
  BY AllStaysPaid
<1>3. RLTypeOK /\ AllPaid => AdmittedWithinRate
  <2> SUFFICES ASSUME RLTypeOK, AllPaid, NEW k \in Keys
               PROVE  admitted[k] * Token
                        <= Full + (clock - since[k] + slipped[k]) * Rate
    BY DEF AdmittedWithinRate
  <2>1. /\ Full \in Nat /\ Rate \in Nat /\ MaxTime \in Nat /\ Token \in Nat
        /\ clock \in Nat /\ since[k] \in Nat /\ slipped[k] \in Nat
        /\ admitted[k] \in Nat
    BY FullBucket, RateLimiterAssumption DEF RLTypeOK, Times
  <2>2. admitted[k] * Token \in Nat
    BY <2>1, RefillNat
  <2>3. CASE buckets[k] = NoBucket
    <3>1. admitted[k] = 0 /\ since[k] = 0 /\ slipped[k] = 0
      BY <2>3 DEF AllPaid
    <3>2. clock * Rate \in Nat /\ clock - since[k] + slipped[k] = clock
      BY <2>1, <3>1, RefillNat
    <3> QED BY <2>1, <3>1, <3>2
  <2>4. CASE buckets[k] # NoBucket
    <3>1. Paid(k) /\ buckets[k].tokens \in Nat /\ buckets[k].last \in Nat
      BY <2>1, <2>4 DEF AllPaid, RLTypeOK, Times
    <3> DEFINE paid == buckets[k].last - since[k] + slipped[k]
               due == clock - since[k] + slipped[k]
    <3>2. paid \in Int /\ due \in Int /\ paid <= due
      BY <2>1, <3>1 DEF Paid
    <3>3. paid * Rate <= due * Rate /\ paid * Rate \in Int /\ due * Rate \in Int
      BY <2>1, <3>2, RefillGrows
    <3> QED BY <2>1, <2>2, <3>1, <3>3 DEF Paid
  <2> QED BY <2>3, <2>4
<1> QED BY <1>1, <1>2, <1>3, LimiterTypeCorrect, PTL DEF RLSafety
-------------------------------------------------------------------------------
(* The process around it: its threads, the signals and the requests.       *)

(* What is queued is in the queue. *)
Queued(r) == \E i \in DOMAIN queue : queue[i] = r

QueueHolds == \A r \in Requests : status[r] = "queued" => Queued(r)

(* main() passes Drain only when the service is closed and has nothing to  *)
(* do, which it stays.                                                     *)
Drained == queue = <<>> /\ \A r \in Requests : status[r] \notin {"queued", "running"}

JudgeOK == /\ main \in {"drain", "stop", "join", "exited"} => closed
           /\ main \in {"stop", "join", "exited"} => Drained

(* Only the accept loop puts requests in the server's pool, which is empty *)
(* when the listen thread ends.                                            *)
HttpOK == /\ listener \notin {"accepting", "joining"} => \A r \in Requests : ~InPool(r)
          /\ main = "spawn" => listener = "none"
          /\ main = "exited" => listener = "gone"

ProcessInv == TypeOK /\ QueueHolds /\ JudgeOK /\ HttpOK

-------------------------------------------------------------------------------
(* A push keeps what is queued and adds its argument. *)
LEMMA AcceptQueues ==
  ASSUME TypeOK, QueueHolds, NEW r \in Requests, Judge!Accept(r)
  PROVE  QueueHolds' /\ queue' \in Seq(Requests)
<1>1. queue \in Seq(Requests) /\ queue' = Append(queue, r)
  BY DEF TypeOK, Judge!Accept
<1>2. /\ DOMAIN queue = 1 .. Len(queue) /\ Len(queue) \in Nat
      /\ DOMAIN queue' = 1 .. Len(queue) + 1
      /\ \A i \in 1 .. Len(queue) : queue'[i] = queue[i]
      /\ queue'[Len(queue) + 1] = r
      /\ queue' \in Seq(Requests)
  BY <1>1, AppendProperties, LenProperties
<1>3. Len(queue) + 1 \in DOMAIN queue' /\ DOMAIN queue \subseteq DOMAIN queue'
  BY <1>2
<1>4. ASSUME NEW u \in Requests, status'[u] = "queued" PROVE Queued(u)'
  <2>1. CASE u = r
    BY <1>2, <1>3, <2>1 DEF Queued
  <2>2. CASE u # r
    <3>1. status[u] = "queued"
      BY <1>4, <2>2 DEF TypeOK, Judge!Accept
    <3>2. PICK i \in DOMAIN queue : queue[i] = u
      BY <3>1 DEF QueueHolds, Queued
    <3> QED  BY <1>2, <1>3, <3>2 DEF Queued
  <2> QED  BY <2>1, <2>2
<1> QED  BY <1>2, <1>4 DEF QueueHolds

(* A pop takes one submission, which runs then. *)
LEMMA StartQueues ==
  ASSUME TypeOK, QueueHolds, Judge!Start
  PROVE  QueueHolds' /\ queue' \in Seq(Requests) /\ Head(queue) \in Requests
<1>1. /\ queue \in Seq(Requests) /\ queue # <<>> /\ queue' = Tail(queue)
      /\ status' = [status EXCEPT ![Head(queue)] = "running"]
  BY DEF TypeOK, Judge!Start
<1>2. /\ DOMAIN queue = 1 .. Len(queue) /\ Len(queue) \in Nat \ {0}
      /\ DOMAIN queue' = 1 .. Len(queue) - 1
      /\ \A i \in 1 .. Len(queue) - 1 : queue'[i] = queue[i + 1]
      /\ Head(queue) = queue[1]
      /\ queue' \in Seq(Requests) /\ Head(queue) \in Requests
  BY <1>1, HeadTailProperties, LenProperties, EmptySeq
<1>3. ASSUME NEW u \in Requests, status'[u] = "queued" PROVE Queued(u)'
  <2>1. status[u] = "queued" /\ u # Head(queue)
    BY <1>1, <1>2, <1>3 DEF TypeOK
  <2>2. PICK i \in 1 .. Len(queue) : queue[i] = u
    BY <1>2, <2>1 DEF QueueHolds, Queued
  <2>3. i - 1 \in 1 .. Len(queue) - 1 /\ (i - 1) + 1 = i
    BY <1>2, <2>1, <2>2
  <2> QED  BY <1>2, <2>2, <2>3 DEF Queued
<1> QED  BY <1>2, <1>3 DEF QueueHolds

-------------------------------------------------------------------------------
LEMMA InitInv == Init => ProcessInv
<1> SUFFICES ASSUME Init PROVE ProcessInv
  OBVIOUS
<1>1. TypeOK
  <2>1. signals \in 0 .. MaxSignals
    BY LifecycleAssumption DEF Init
  <2>2. queue \in Seq(Requests) /\ status \in [Requests -> Judge!Status]
    BY EmptySeq DEF Init, Judge!Init, Judge!Status
  <2> QED  BY <2>1, <2>2 DEF Init, Judge!Init, TypeOK
<1>2. QueueHolds /\ JudgeOK /\ HttpOK
  BY DEF Init, Judge!Init, QueueHolds, JudgeOK, HttpOK, InPool
<1> QED  BY <1>1, <1>2 DEF ProcessInv

(* The steps of main(), the signal handler and the listen thread do not    *)
(* touch the judge service, but for the hook, which closes it.             *)
LEMMA ThreadInv ==
  ASSUME ProcessInv,
         Signal \/ Notify \/ SpuriousWakeup \/ MainStep \/ ListenerStep
  PROVE  ProcessInv'
<1>0. TypeOK /\ QueueHolds /\ JudgeOK /\ HttpOK
  BY DEF ProcessInv
<1> USE DEF signal, server, judge
<1>1. TypeOK'
  <2>1. CASE Signal \/ Notify \/ SpuriousWakeup
    <3>1. signals' \in 0 .. MaxSignals
      BY <1>0, <2>1, LifecycleAssumption
      DEF Signal, Notify, SpuriousWakeup, TypeOK
    <3> QED  BY <1>0, <2>1, <3>1
      DEF Signal, Notify, SpuriousWakeup, TypeOK
  <2>2. CASE MainStep
    BY <1>0, <2>2
    DEF MainStep, Spawn, Test, Block, Hook, Drain, Stop,
        JoinListener, Judge!Close, TypeOK
  <2>3. CASE ListenerStep
    BY <1>0, <2>3
    DEF ListenerStep, Bind, Announce, LeaveLoop, JoinPool,
        TypeOK
  <2> QED  BY <2>1, <2>2, <2>3
<1>2. UNCHANGED <<status, queue>> /\ (closed => closed')
  BY DEF Signal, Notify, SpuriousWakeup, MainStep, Spawn,
         Test, Block, Hook, Drain, Stop, JoinListener,
         ListenerStep, Bind, Announce, LeaveLoop, JoinPool,
         Judge!Close
<1>3. QueueHolds'
  BY <1>0, <1>2 DEF QueueHolds, Queued
<1>4. JudgeOK'
  <2>1. CASE Drain
    <3>1. queue = <<>> /\ \A r \in Requests : ~Queued(r) /\ status[r] # "running"
      BY <2>1 DEF Drain, Judge!Running, Queued
    <3>2. Drained'
      BY <1>0, <1>2, <3>1 DEF QueueHolds, Drained
    <3> QED  BY <1>0, <1>2, <2>1, <3>2 DEF Drain, JudgeOK
  <2>2. CASE Hook
    BY <2>2 DEF Hook, Judge!Close, JudgeOK
  <2>3. CASE ~Drain /\ ~Hook
    <3>1. /\ main' \in {"drain", "stop", "join", "exited"} =>
               main \in {"drain", "stop", "join", "exited"}
          /\ main' \in {"stop", "join", "exited"} => main \in {"stop", "join", "exited"}
      BY <2>3
      DEF Signal, Notify, SpuriousWakeup, MainStep, Spawn,
          Test, Block, Stop, JoinListener, ListenerStep, Bind,
          Announce, LeaveLoop, JoinPool
    <3> QED  BY <1>0, <1>2, <3>1 DEF JudgeOK, Drained
  <2> QED  BY <2>1, <2>2, <2>3
<1>5. HttpOK'
  <2>1. \A r \in Requests : InPool(r)' => InPool(r)
    BY <1>0
    DEF Signal, Notify, SpuriousWakeup, MainStep, Spawn, Test,
        Block, Hook, Drain, Stop, JoinListener, ListenerStep,
        Bind, Announce, LeaveLoop, JoinPool, InPool, TypeOK
  <2>2. listener' \notin {"accepting", "joining"} =>
          listener \notin {"accepting", "joining"} \/ JoinPool
    BY <1>0
    DEF Signal, Notify, SpuriousWakeup, MainStep, Spawn, Test,
        Block, Hook, Drain, Stop, JoinListener, ListenerStep,
        Bind, Announce, LeaveLoop, JoinPool, HttpOK
  <2>3. /\ main' = "spawn" => listener' = "none"
        /\ main' = "exited" => listener' = "gone"
    BY <1>0
    DEF Signal, Notify, SpuriousWakeup, MainStep, Spawn, Test,
        Block, Hook, Drain, Stop, JoinListener, ListenerStep,
        Bind, Announce, LeaveLoop, JoinPool, HttpOK
  <2> QED  BY <1>0, <2>1, <2>2, <2>3 DEF HttpOK, JoinPool
<1> QED  BY <1>1, <1>3, <1>4, <1>5 DEF ProcessInv

(* An accept() that fails only resets what nobody has accepted.            *)
LEMMA AcceptFailsInv ==
  ASSUME ProcessInv, AcceptFails
  PROVE  ProcessInv'
<1>0. TypeOK /\ QueueHolds /\ JudgeOK /\ HttpOK
  BY DEF ProcessInv
<1> USE DEF signal, server, judge
<1>1. /\ UNCHANGED <<main, isRunning, stopping, handler, signals, status, queue, closed>>
      /\ listener = "accepting" /\ listener' = "joining" /\ socket' = "closed"
  BY DEF AcceptFails
<1>2. /\ req' \in [Requests -> {"client", "backlog", "queued", "handling", "judging",
                                "answered", "failed", "reset"}]
      /\ \A r \in Requests : InPool(r)' => InPool(r)
  BY <1>0 DEF AcceptFails, TypeOK, InPool
<1>3. TypeOK'
  BY <1>0, <1>1, <1>2 DEF TypeOK
<1>4. QueueHolds' /\ JudgeOK' /\ HttpOK'
  BY <1>0, <1>1, <1>2 DEF QueueHolds, Queued, JudgeOK, Drained, HttpOK
<1> QED  BY <1>3, <1>4 DEF ProcessInv

(* The steps of a request and of the judge service leave main() and the    *)
(* listen thread where they are.                                           *)
LEMMA RequestInv ==
  ASSUME ProcessInv, NEW r \in Requests,
         Connect(r) \/ Accept(r) \/ RequestStep(r) \/ JudgeStart
  PROVE  ProcessInv'
<1>0. TypeOK /\ QueueHolds /\ JudgeOK /\ HttpOK
  BY DEF ProcessInv
<1>1. UNCHANGED <<main, listener, socket, isRunning, stopping, handler, signals, closed>>
  BY DEF Connect, Accept, RequestStep, Handle, Submit, Answer,
         JudgeFinish, JudgeStart, Judge!Accept, Judge!Refuse,
         Judge!Finish, Judge!Start, judge, server, signal
<1>2. /\ req' \in [Requests -> {"client", "backlog", "queued", "handling", "judging",
                                "answered", "failed", "reset"}]
      /\ \A u \in Requests : InPool(u)' => InPool(u) \/ listener = "accepting"
  BY <1>0
  DEF Connect, Accept, RequestStep, Handle, Submit, Answer,
      JudgeFinish, JudgeStart, TypeOK, InPool
<1>3. /\ status' \in [Requests -> Judge!Status] /\ queue' \in Seq(Requests)
      /\ QueueHolds'
      /\ closed => (Drained => Drained')
  <2>1. CASE Judge!Accept(r)
    BY <1>0, <2>1, AcceptQueues DEF Judge!Accept, TypeOK, Judge!Status
  <2>2. CASE Judge!Start
    BY <1>0, <2>2, StartQueues DEF Judge!Start, TypeOK, Judge!Status, Drained
  <2>3. CASE Judge!Refuse(r) \/ Judge!Finish(r)
    BY <1>0, <2>3
    DEF Judge!Refuse, Judge!Finish, TypeOK, Judge!Status, QueueHolds,
        Queued, Drained
  <2>4. CASE UNCHANGED judge
    BY <1>0, <2>4 DEF judge, TypeOK, QueueHolds, Queued, Drained
  <2> QED
    BY <2>1, <2>2, <2>3, <2>4
    DEF Connect, Accept, RequestStep, Handle, Submit, Answer,
        JudgeFinish, JudgeStart
<1>4. TypeOK'
  BY <1>0, <1>1, <1>2, <1>3 DEF TypeOK
<1>5. JudgeOK' /\ HttpOK'
  BY <1>0, <1>1, <1>2, <1>3 DEF JudgeOK, HttpOK
<1> QED  BY <1>3, <1>4, <1>5 DEF ProcessInv

LEMMA NextInv == ProcessInv /\ [Next]_vars => ProcessInv'
<1> SUFFICES ASSUME ProcessInv, [Next]_vars PROVE ProcessInv'
  OBVIOUS
<1>1. CASE \/ Signal \/ Notify \/ SpuriousWakeup
           \/ MainStep \/ ListenerStep
  BY <1>1, ThreadInv
<1>2. ASSUME NEW r \in Requests, Connect(r) \/ Accept(r) \/ RequestStep(r)
      PROVE  ProcessInv'
  BY <1>2, RequestInv
<1>3. CASE JudgeStart
  <2>1. Head(queue) \in Requests
    BY <1>3, StartQueues DEF ProcessInv, JudgeStart
  <2> QED  BY <1>3, <2>1, RequestInv
<1>4. CASE UNCHANGED vars
  BY <1>4
  DEF vars, server, signal, judge, ProcessInv, TypeOK, QueueHolds,
      Queued, JudgeOK, Drained, HttpOK, InPool
<1>5. CASE AcceptFails
  BY <1>5, AcceptFailsInv
<1> QED  BY <1>1, <1>2, <1>3, <1>4, <1>5 DEF Next

LEMMA ProcessAlways == Spec => []ProcessInv
BY InitInv, NextInv, PTL DEF Spec, Safety

-------------------------------------------------------------------------------
(* The states of the process, its threads, its requests and its judge      *)
(* service are those main.cpp, util/signal.cpp and httplib.h know.         *)
THEOREM ProcessTypeCorrect == Spec => []TypeOK
<1>1. ProcessInv => TypeOK
  BY DEF ProcessInv
<1> QED  BY <1>1, ProcessAlways, PTL

(* main() does not return, and destroys what the handlers refer to, while  *)
(* a request is in the server's pool or a submission is judged (main.cpp). *)
THEOREM ExitIsAlwaysQuiet == Spec => []ExitIsQuiet
<1>1. ProcessInv => ExitIsQuiet
  BY DEF ProcessInv, JudgeOK, Drained, HttpOK, ExitIsQuiet
<1> QED  BY <1>1, ProcessAlways, PTL
===============================================================================
