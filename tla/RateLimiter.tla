------------------------------ MODULE RateLimiter ------------------------------
(***************************************************************************)
(* The token bucket in front of every route (http/rate_limiter.cpp and     *)
(* checkRateLimit in http/rate_limit.cpp), called by the HTTP threads.     *)
(* check() reads the clock before it takes mutex_: the read and the        *)
(* critical section are two steps, and threads may take the lock in        *)
(* another order than that of their reads.                                 *)
(*                                                                         *)
(* Time passes in ticks.  A token has Token units and a tick refills Rate  *)
(* units, so that the fractions of refill_per_sec and of elapsed_sec are   *)
(* whole numbers; Second ticks make one second, the unit of Retry-After.   *)
(***************************************************************************)
EXTENDS Integers

CONSTANTS Threads,   \* the threads of the HTTP server
          Keys,      \* what clientKey() returns: one value per client address
          NoCall,    \* a thread that is not in check()
          NoBucket,  \* a key that is not in buckets_
          Capacity,  \* config_.capacity, in tokens
          Token,     \* units per token
          Rate,      \* units refilled per tick
          Second,    \* ticks per second
          MaxTime    \* bound on the clock

ASSUME RateLimiterAssumption == /\ {Capacity, Token, Rate, Second} \subseteq Nat \ {0}
                                /\ MaxTime \in Nat
ASSUME NullAssumption == /\ NoCall \notin [key : Keys, now : Nat]
                         /\ NoBucket \notin [tokens : Nat, last : Nat]

VARIABLES clock,    \* steady_clock::now()
          buckets,  \* buckets_
          call,     \* the key and the now of the check() each thread is in
          admitted, \* history: the requests of each key that were admitted
          since,    \* history: the earliest now of a check() of each key
          slipped,  \* history: the ticks by which last was ever moved back
          retryAt   \* history: the times denied clients were told to come
                    \* back at, since the last admission of their key

history == <<admitted, since, slipped, retryAt>>
rlVars == <<clock, buckets, call, history>>

Full == Capacity * Token

RLInit == /\ clock = 0
          /\ buckets = [k \in Keys |-> NoBucket]
          /\ call = [t \in Threads |-> NoCall]
          /\ admitted = [k \in Keys |-> 0]
          /\ since = [k \in Keys |-> 0]
          /\ slipped = [k \in Keys |-> 0]
          /\ retryAt = [k \in Keys |-> {}]

Tick == /\ clock < MaxTime
        /\ clock' = clock + 1
        /\ UNCHANGED <<buckets, call, history>>

(* const auto now = steady_clock::now() *)
ReadClock(t, k) == /\ call[t] = NoCall
                   /\ call' = [call EXCEPT ![t] = [key |-> k, now |-> clock]]
                   /\ UNCHANGED <<clock, buckets, history>>

-------------------------------------------------------------------------------
Mutant_RefillUncapped(b, now) ==
  IF now > b.last THEN b.tokens + (now - b.last) * Rate ELSE b.tokens

(* The tokens of bucket b for a call that read the clock at now. *)
Refilled(b, now) ==
  LET sum == b.tokens + (now - b.last) * Rate
  IN  IF now > b.last
      THEN IF sum > Full THEN Full ELSE sum
      ELSE b.tokens

(* The bucket a call works on: a key that is not known gets a full one. *)
BucketOf(k, now) == IF buckets[k] = NoBucket
                    THEN [tokens |-> Full, last |-> now]
                    ELSE buckets[k]

Earliest(k, now) == IF buckets[k] = NoBucket \/ now < since[k]
                    THEN now
                    ELSE since[k]

(* By how much a call moves last back. *)
Slip(b, now) == IF now < b.last THEN b.last - now ELSE 0

Mutant_RetryAfterRoundsDown(tokens) ==
  LET perSecond == Rate * Second
      wait == (Token - tokens) \div perSecond
  IN  IF wait > 1 THEN wait ELSE 1

(* max(1, ceil(deficit / refill_per_sec)) seconds *)
RetryAfter(tokens) ==
  LET perSecond == Rate * Second
      wait == (Token - tokens + perSecond - 1) \div perSecond
  IN  IF wait > 1 THEN wait ELSE 1

Mutant_LastNotMoved(t) ==
  /\ call[t] # NoCall
  /\ LET k == call[t].key
         now == call[t].now
         b == BucketOf(k, now)
         tokens == Refilled(b, now)
     IN  \/ /\ tokens >= Token
            /\ buckets' = [buckets EXCEPT ![k] = [b EXCEPT !.tokens = tokens - Token]]
            /\ admitted' = [admitted EXCEPT ![k] = @ + 1]
            /\ retryAt' = [retryAt EXCEPT ![k] = {}]
         \/ /\ tokens < Token
            /\ buckets' = [buckets EXCEPT ![k] = [b EXCEPT !.tokens = tokens]]
            /\ retryAt' = [retryAt EXCEPT ![k] =
                             @ \union {now + Second * RetryAfter(tokens)}]
            /\ UNCHANGED admitted
  /\ since' = [since EXCEPT ![call[t].key] = Earliest(call[t].key, call[t].now)]
  /\ UNCHANGED slipped
  /\ call' = [call EXCEPT ![t] = NoCall]
  /\ UNCHANGED clock

(* The critical section of check(), and the answer of checkRateLimit():    *)
(* the request goes on to the next gate, or gets a 429 with Retry-After.   *)
(* Either way the refill is kept and last is set to this call's now.       *)
Check(t) ==
  /\ call[t] # NoCall
  /\ LET k == call[t].key
         now == call[t].now
         tokens == Refilled(BucketOf(k, now), now)
     IN  /\ \/ /\ tokens >= Token
               /\ buckets' = [buckets EXCEPT ![k] =
                                [tokens |-> tokens - Token, last |-> now]]
               /\ admitted' = [admitted EXCEPT ![k] = @ + 1]
               /\ retryAt' = [retryAt EXCEPT ![k] = {}]
            \/ /\ tokens < Token
               /\ buckets' = [buckets EXCEPT ![k] = [tokens |-> tokens, last |-> now]]
               /\ retryAt' = [retryAt EXCEPT ![k] =
                                @ \union {now + Second * RetryAfter(tokens)}]
               /\ UNCHANGED admitted
         /\ since' = [since EXCEPT ![k] = Earliest(k, now)]
         /\ slipped' = [slipped EXCEPT ![k] = @ + Slip(BucketOf(k, now), now)]
  /\ call' = [call EXCEPT ![t] = NoCall]
  /\ UNCHANGED clock

RLNext == \/ Tick
          \/ \E t \in Threads :
               Check(t) \/ \E k \in Keys : ReadClock(t, k)

RLSafety == RLInit /\ [][RLNext]_rlVars

-------------------------------------------------------------------------------
(* What the rate limiter must guarantee. *)

Times == 0 .. MaxTime

RLTypeOK ==
  /\ clock \in Times
  /\ buckets \in [Keys -> [tokens : 0 .. Full, last : Times] \union {NoBucket}]
  /\ call \in [Threads -> [key : Keys, now : Times] \union {NoCall}]
  /\ admitted \in [Keys -> Nat]
  /\ since \in [Keys -> Times]
  /\ slipped \in [Keys -> Nat]
  /\ retryAt \in [Keys -> SUBSET Nat]

(* A client that was told to come back in n seconds, and comes back after  *)
(* that, is admitted, whatever other denied requests of its key did to the *)
(* bucket in between: only an admission uses up what it waited for.        *)
RetryAfterHonoured ==
  [][\A t \in Threads :
       /\ call[t] # NoCall
       /\ call'[t] = NoCall
       /\ \E at \in retryAt[call[t].key] : at <= call[t].now
       => admitted'[call[t].key] = admitted[call[t].key] + 1]_rlVars

(* rate_limiter.hpp: a bucket holds capacity tokens and gains              *)
(* refill_per_sec per second.  It cannot then have given more than it held *)
(* at first and what the time since the first call has refilled -- and,    *)
(* as the clock is read before the lock is taken, what the time refills a  *)
(* second time after a late thread has moved last back, and no more.       *)
AdmittedWithinRate ==
  \A k \in Keys :
    admitted[k] * Token <= Full + (clock - since[k] + slipped[k]) * Rate
===============================================================================
