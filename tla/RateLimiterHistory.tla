------------------------- MODULE RateLimiterHistory -------------------------
(***************************************************************************)
(* The rate limiter with what its callers remember of its answers, and the  *)
(* properties that relate those answers to what the limiter does later.     *)
(*                                                                          *)
(*   since, spent  a window of observation that opens at any moment: when,   *)
(*                 and the tokens granted to the key in it so far            *)
(*   promised      what is left of the last X-RateLimit-Remaining reported    *)
(*   advised       the moment the last Retry-After points at, 0 when none    *)
(***************************************************************************)
EXTENDS RateLimiter

CONSTANTS
    Keys,        \* what the limiter is keyed by (the middleware uses user ids)
    Rpms,        \* the rpm arguments of check; 0 stands for None
    Counts       \* the count arguments of check

ASSUME InputAssumption == Rpms \subseteq Nat /\ Counts \subseteq Nat \ {0}

VARIABLES since, spent, promised, advised

history == <<since, spent, promised, advised>>
vars == <<limiterVars, history>>

(* Mutant: the seconds are truncated and not rounded up. *)
RetryAfterHeader_Truncates(b) == WholeSeconds(b)

(* Retry-After as the middleware writes it, str(int(retry_after) + 1): the    *)
(* check it follows has left the key a bucket.                               *)
RetryAfterHeader(b) == WholeSeconds(b) + 1

Init ==
    /\ LimiterInit
    /\ since = [k \in Keys |-> 0]
    /\ spent = [k \in Keys |-> 0]
    /\ promised = [k \in Keys |-> 0]
    /\ advised = [k \in Keys |-> 0]

Granted(k, count, rpm) ==
    /\ Allow(k, count, rpm)
    /\ spent' = [spent EXCEPT ![k] = @ + count]
    /\ promised' = [promised EXCEPT ![k] = IF @ > count THEN @ - count ELSE 0]
    /\ advised' = [advised EXCEPT ![k] = 0]
    /\ UNCHANGED since

(* A refused check of one token is answered with a Retry-After header. *)
Refused(k, count, rpm) ==
    /\ Deny(k, count, rpm)
    /\ advised' = IF count = 1
                  THEN [advised EXCEPT ![k] = now + RetryAfterHeader(buckets'[k]) * Second]
                  ELSE advised
    /\ UNCHANGED <<since, spent, promised>>

(* Only a bucket that exists can promise: before the first check of a key    *)
(* the answer is the default, whatever rpm that check will then ask for.     *)
Report(k) ==
    /\ ReadRemaining(k)
    /\ promised' = [promised EXCEPT ![k] = IF Known(k) THEN Remaining(k) ELSE 0]
    /\ UNCHANGED <<since, spent, advised>>

ResetKey(k) ==
    /\ Reset(k)
    /\ since' = [since EXCEPT ![k] = now]
    /\ spent' = [spent EXCEPT ![k] = 0]
    /\ promised' = [promised EXCEPT ![k] = 0]
    /\ advised' = [advised EXCEPT ![k] = 0]

OpenWindow(k) ==
    /\ since' = [since EXCEPT ![k] = now]
    /\ spent' = [spent EXCEPT ![k] = 0]
    /\ UNCHANGED <<limiterVars, promised, advised>>

TimePasses == Tick /\ UNCHANGED history

Next ==
    \/ \E k \in Keys, count \in Counts, rpm \in Rpms :
          Granted(k, count, rpm) \/ Refused(k, count, rpm)
    \/ \E k \in Keys : Report(k) \/ ResetKey(k) \/ OpenWindow(k)
    \/ TimePasses

Spec == Init /\ [][Next]_vars

-----------------------------------------------------------------------------

LimiterTypeOK ==
    /\ now \in Nat
    /\ DOMAIN buckets \subseteq Keys
    /\ \A k \in DOMAIN buckets : buckets[k] \in Bucket

(* Every variable keeps its type, and a bucket is never fuller than its      *)
(* capacity nor refilled later than now.                                     *)
TypeOK ==
    /\ LimiterTypeOK
    /\ \A k \in DOMAIN buckets :
          /\ buckets[k].tokens <= buckets[k].capacity * Minute
          /\ buckets[k].last_refill <= now
    /\ since \in [Keys -> 0..now]
    /\ spent \in [Keys -> Nat]
    /\ promised \in [Keys -> Nat]
    /\ advised \in [Keys -> Nat]

(* Whenever the observation starts, TokenBucket.consume never grants a key   *)
(* more than one full bucket plus what accrues at its rate from then on: no   *)
(* order of checks, reads of remaining and pauses mints tokens.              *)
AdmissionBound ==
    \A k \in DOMAIN buckets :
        spent[k] * Minute <=
            buckets[k].capacity * Minute + (now - since[k]) * buckets[k].capacity

(* A remaining count the limiter has reported for a key can be spent: that   *)
(* many tokens, less those granted since, are there whenever they are asked  *)
(* for, however the key's other calls are interleaved.                       *)
PromiseHonoured ==
    \A k \in Keys : promised[k] > 0 =>
        Known(k) /\ Level(buckets[k]) >= promised[k] * Minute

(* A key that waits as long as its 429 said, and was granted nothing in the  *)
(* meantime, is then allowed; and the 429 asked for at most a second more than *)
(* was necessary (a whole one when the wait is a whole number of seconds,      *)
(* since the header adds a second to what it has truncated).                   *)
RetryAfterHonoured ==
    \A k \in Keys : advised[k] > 0 =>
        /\ Known(k)
        /\ now >= advised[k] => Affords(buckets[k], 1)
        /\ now < advised[k] - Second => ~Affords(buckets[k], 1)

(* Seen through the level every bucket would have now, the limiter is a        *)
(* Throttle: refilling lazily in consume and remaining, at whatever moments    *)
(* they are called, cannot be told from a credit that grows with every tick.  *)
Eager == INSTANCE Throttle WITH
    Limits <- {DefaultRpm} \cup (Rpms \ {0}),
    credit <- [k \in DOMAIN buckets |->
                  [capacity |-> buckets[k].capacity, units |-> Level(buckets[k])]]

ImplementsThrottle == Eager!Spec
=============================================================================
