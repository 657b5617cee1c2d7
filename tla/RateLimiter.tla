---------------------------- MODULE RateLimiter ----------------------------
(***************************************************************************)
(* The token-bucket rate limiter of neuronlm/core/rate_limiter.py: one      *)
(* bucket per key, created full by the first check of the key, refilled by  *)
(* the time that passes whenever it is consumed from or asked what remains. *)
(*                                                                          *)
(* Time is counted in ticks.  The code keeps tokens as floats and refills   *)
(* capacity/60 of them per second; here one token is Minute units, so that  *)
(* a tick adds exactly `capacity' units and every quantity is an integer.   *)
(* The clock is read once per operation.                                    *)
(***************************************************************************)
EXTENDS Integers, Dict

CONSTANTS
    DefaultRpm,  \* settings.rate_limit_requests_per_minute
    Minute,      \* ticks in a minute, and units in a token
    Second,      \* ticks in a second
    MaxTime      \* bound on the clock

ASSUME LimitAssumption == DefaultRpm \in Nat \ {0}
ASSUME TimeAssumption ==
    Minute \in Nat \ {0} /\ Second \in Nat \ {0} /\ MaxTime \in Nat

VARIABLES now, buckets

limiterVars == <<now, buckets>>

Bucket == [capacity : Nat \ {0}, tokens : Nat, last_refill : Nat]

Known(k) == k \in DOMAIN buckets

(* `rpm or default`: an rpm of 0 selects the default just as None does. *)
NewBucket(rpm) ==
    LET limit == IF rpm = 0 THEN DefaultRpm ELSE rpm
    IN  [capacity |-> limit, tokens |-> limit * Minute, last_refill |-> now]

(* The rpm argument counts only for the check that creates the bucket. *)
GetBucket(k, rpm) == IF Known(k) THEN buckets[k] ELSE NewBucket(rpm)

(* Mutant: a refill that is not capped at the capacity. *)
LevelAt_Uncapped(b, t) == b.tokens + (t - b.last_refill) * b.capacity

(* The units the bucket would hold if it were refilled at time t. *)
LevelAt(b, t) ==
    LET refilled == b.tokens + (t - b.last_refill) * b.capacity
    IN  IF refilled > b.capacity * Minute THEN b.capacity * Minute ELSE refilled

Level(b) == LevelAt(b, now)

(* Mutant: the clock moves and what accrued since the last refill is lost. *)
Refill_LosesAccrued(b) == [b EXCEPT !.last_refill = now]

Refill(b) == [b EXCEPT !.tokens = Level(b), !.last_refill = now]

Affords(b, count) == Level(b) >= count * Minute

(* Mutant: consume forgets to move last_refill. *)
Take_KeepsClock(b, count) == [b EXCEPT !.tokens = Level(b) - count * Minute]

(* What consume leaves of a bucket that affords count tokens. *)
Take(b, count) == [b EXCEPT !.tokens = Level(b) - count * Minute, !.last_refill = now]

(* check(key, count, rpm): consume refills first, whatever it then answers. *)
Allow(k, count, rpm) ==
    LET b == GetBucket(k, rpm) IN
    /\ Affords(b, count)
    /\ buckets' = Put(buckets, k, Take(b, count))
    /\ UNCHANGED now

Deny(k, count, rpm) ==
    LET b == GetBucket(k, rpm) IN
    /\ ~Affords(b, count)
    /\ buckets' = Put(buckets, k, Refill(b))
    /\ UNCHANGED now

(* Mutant: round() for int(). *)
Remaining_Rounds(k) ==
    IF Known(k) THEN (Level(buckets[k]) + Minute \div 2) \div Minute ELSE DefaultRpm

(* What remaining(key) answers, and the refill it performs on the way. *)
Remaining(k) == IF Known(k) THEN Level(buckets[k]) \div Minute ELSE DefaultRpm

ReadRemaining(k) ==
    /\ buckets' = IF Known(k) THEN Put(buckets, k, Refill(buckets[k])) ELSE buckets
    /\ UNCHANGED now

(* A bucket's retry_after reads the tokens as the last refill left them: the  *)
(* units it finds missing, and the whole seconds they take to accrue.         *)
Missing(b) == IF b.tokens >= Minute THEN 0 ELSE Minute - b.tokens

WholeSeconds(b) == Missing(b) \div (b.capacity * Second)

Reset(k) == buckets' = Drop(buckets, k) /\ UNCHANGED now

Tick == now < MaxTime /\ now' = now + 1 /\ UNCHANGED buckets

LimiterInit == now = 0 /\ buckets = Empty
=============================================================================
