------------------------- MODULE RateLimiterProofs -------------------------
(***************************************************************************)
(* Machine-checked proofs of the properties of RateLimiterHistory, for any   *)
(* set of keys, limits, overrides, counts, tick length and clock bound.      *)
(*                                                                          *)
(* None of the three properties is inductive.  They speak of the level a     *)
(* bucket would have if refilled now, so the strengthened invariant relates  *)
(* what is stored (tokens, last_refill) to what callers remember.            *)
(***************************************************************************)
EXTENDS RateLimiterHistory, ServiceLemmas, TLAPS

(* What the bucket still holds counts against the bound as if it were spent, *)
(* and nothing has been granted to a key that has no bucket.                 *)
AdmissionOf(k) ==
    IF Known(k)
    THEN spent[k] * Minute + Level(buckets[k]) <=
             buckets[k].capacity * Minute + (now - since[k]) * buckets[k].capacity
    ELSE spent[k] = 0

AdmissionInv == \A k \in Keys : AdmissionOf(k)

PromiseOf(k) ==
    promised[k] > 0 => Known(k) /\ Level(buckets[k]) >= promised[k] * Minute

(* A token is complete at moment d, or is there already, and none was more     *)
(* than a second before d.                                                   *)
Due(b, d) ==
    /\ b.tokens >= Minute \/ b.tokens + (d - b.last_refill) * b.capacity >= Minute
    /\ b.tokens + (d - Second - b.last_refill) * b.capacity <= Minute

AdviceOf(k) == advised[k] > 0 => Known(k) /\ Due(buckets[k], advised[k])

AdviceInv == \A k \in Keys : AdviceOf(k)

-----------------------------------------------------------------------------
(* The header's seconds cover what is missing of a token, and one second less *)
(* would not have (unless it is exactly enough).                             *)
LEMMA HeaderFacts ==
    ASSUME NEW b \in Bucket
    PROVE  /\ RetryAfterHeader(b) \in Nat
           /\ (RetryAfterHeader(b) - 1) * Second * b.capacity <= Missing(b)
           /\ Missing(b) < RetryAfterHeader(b) * Second * b.capacity
<1> DEFINE d == Missing(b)
           m == b.capacity * Second
           q == d \div m
<1>1. d \in Nat
  BY TimeAssumption DEF Missing, Bucket
<1>2. m \in Nat \ {0} /\ Second \in Nat /\ b.capacity \in Nat
  BY TimeAssumption, SMT DEF Bucket
<1>3. RetryAfterHeader(b) = q + 1
  BY DEF RetryAfterHeader, WholeSeconds
<1> HIDE DEF d, q
<1>4. q \in Nat /\ q * m <= d /\ d < (q + 1) * m
  <2> HIDE DEF m
  <2> QED
    BY <1>1, <1>2, SMT DEF q
<1>5. q * Second * b.capacity = q * m /\ (q + 1) * Second * b.capacity = (q + 1) * m
  BY <1>2, <1>4, SMT
<1> QED
  BY <1>3, <1>4, <1>5, SMT DEF d

(* The bucket a check works on, in a well-typed state.                        *)
LEMMA CheckedBucket ==
    ASSUME TypeOK, NEW k \in Keys, NEW rpm \in Rpms
    PROVE  /\ Sound(GetBucket(k, rpm), now)
           /\ Known(k) => GetBucket(k, rpm) = buckets[k]
           /\ ~Known(k) => Level(GetBucket(k, rpm)) = GetBucket(k, rpm).capacity * Minute
<1>1. rpm \in Nat /\ now \in Nat /\ (Known(k) => Sound(buckets[k], now))
  BY InputAssumption DEF TypeOK, LimiterTypeOK, Known, Sound
<1> QED
  BY <1>1, GetBucketFacts

-----------------------------------------------------------------------------
(* Type correctness is inductive by itself.                                 *)

(* The buckets a step leaves behind are sound when the one it wrote is.       *)
LEMMA PutSound ==
    ASSUME TypeOK, NEW k \in Keys, NEW v, Sound(v, now),
           buckets' = Put(buckets, k, v), now' = now
    PROVE  /\ LimiterTypeOK'
           /\ \A j \in DOMAIN buckets' :
                 /\ buckets'[j].tokens <= buckets'[j].capacity * Minute
                 /\ buckets'[j].last_refill <= now'
<1>1. DOMAIN buckets' = DOMAIN buckets \cup {k}
  BY DEF Put
<1>2. \A j \in DOMAIN buckets' : Sound(buckets'[j], now)
  <2> SUFFICES ASSUME NEW j \in DOMAIN buckets'
               PROVE  Sound(buckets'[j], now)
    OBVIOUS
  <2>1. CASE j = k
    <3>1. buckets'[k] = v
      BY DEF Put
    <3> QED
      BY <2>1, <3>1
  <2>2. CASE j # k
    <3>1. j \in DOMAIN buckets \ {k}
      BY <1>1, <2>2
    <3>2. buckets'[j] = buckets[j]
      BY <3>1 DEF Put
    <3> QED
      BY <3>1, <3>2 DEF TypeOK, LimiterTypeOK, Sound
  <2> QED
    BY <2>1, <2>2
<1> QED
  BY <1>1, <1>2 DEF TypeOK, LimiterTypeOK, Sound

(* Every state RateLimiterHistory reaches is well typed, and no bucket is     *)
(* ever fuller than its capacity or refilled in the future.                  *)
THEOREM TypeCorrect == Spec => []TypeOK
<1>1. Init => TypeOK
  BY DEF Init, LimiterInit, TypeOK, LimiterTypeOK, Empty
<1>2. TypeOK /\ [Next]_vars => TypeOK'
  <2> SUFFICES ASSUME TypeOK, [Next]_vars
               PROVE  TypeOK'
    OBVIOUS
  <2> USE DEF history
  <2>1. ASSUME NEW k \in Keys, NEW count \in Counts, NEW rpm \in Rpms, Granted(k, count, rpm)
        PROVE  TypeOK'
    <3>1. count \in Nat
      BY InputAssumption
    <3>2. Sound(Take(GetBucket(k, rpm), count), now)
      BY <2>1, <3>1, CheckedBucket, TakeFacts DEF TypeOK, LimiterTypeOK, Granted, Allow
    <3>3. /\ LimiterTypeOK'
          /\ \A j \in DOMAIN buckets' :
                 /\ buckets'[j].tokens <= buckets'[j].capacity * Minute
                 /\ buckets'[j].last_refill <= now'
      BY <2>1, <3>2, PutSound DEF Granted, Allow
    <3> QED
      BY <2>1, <3>1, <3>3 DEF TypeOK, Granted, Allow
  <2>2. ASSUME NEW k \in Keys, NEW count \in Counts, NEW rpm \in Rpms, Refused(k, count, rpm)
        PROVE  TypeOK'
    <3>1. Sound(Refill(GetBucket(k, rpm)), now)
      BY CheckedBucket, RefillFacts DEF TypeOK, LimiterTypeOK
    <3>2. /\ LimiterTypeOK'
          /\ \A j \in DOMAIN buckets' :
                 /\ buckets'[j].tokens <= buckets'[j].capacity * Minute
                 /\ buckets'[j].last_refill <= now'
      BY <2>2, <3>1, PutSound DEF Refused, Deny
    <3>3. now + RetryAfterHeader(buckets'[k]) * Second \in Nat
      <4>1. buckets'[k] \in Bucket
        BY <2>2, <3>2 DEF Refused, Deny, LimiterTypeOK, Put
      <4> QED
        BY <4>1, HeaderFacts, ProductNat, TimeAssumption DEF TypeOK, LimiterTypeOK
    <3> QED
      BY <2>2, <3>2, <3>3 DEF TypeOK, Refused, Deny
  <2>3. ASSUME NEW k \in Keys, Report(k)
        PROVE  TypeOK'
    <3>1. CASE Known(k)
      <4>1. Sound(buckets[k], now)
        BY <3>1 DEF Known, TypeOK, LimiterTypeOK, Sound
      <4>2. Sound(Refill(buckets[k]), now)
        BY <4>1, RefillFacts DEF TypeOK, LimiterTypeOK
      <4>3. /\ LimiterTypeOK'
            /\ \A j \in DOMAIN buckets' :
                   /\ buckets'[j].tokens <= buckets'[j].capacity * Minute
                   /\ buckets'[j].last_refill <= now'
        BY <2>3, <3>1, <4>2, PutSound DEF Report, ReadRemaining
      <4>4. Remaining(k) \in Nat
        <5>1. Level(buckets[k]) \in Nat
          BY <4>1, LevelRange DEF Level, TypeOK, LimiterTypeOK
        <5> QED
          BY <3>1, <5>1, TimeAssumption, SMT DEF Remaining
      <4> QED
        BY <2>3, <4>3, <4>4 DEF TypeOK, Report, ReadRemaining
    <3>2. CASE ~Known(k)
      BY <2>3, <3>2 DEF TypeOK, LimiterTypeOK, Report, ReadRemaining
    <3> QED
      BY <3>1, <3>2
  <2>4. ASSUME NEW k \in Keys, ResetKey(k)
        PROVE  TypeOK'
    BY <2>4 DEF TypeOK, LimiterTypeOK, ResetKey, Reset, Drop
  <2>5. ASSUME NEW k \in Keys, OpenWindow(k)
        PROVE  TypeOK'
    BY <2>5 DEF TypeOK, LimiterTypeOK, OpenWindow, limiterVars
  <2>6. CASE TimePasses
    BY <2>6 DEF TypeOK, LimiterTypeOK, TimePasses, Tick, Bucket
  <2>7. CASE UNCHANGED vars
    BY <2>7 DEF TypeOK, LimiterTypeOK, vars, limiterVars
  <2> QED
    BY <2>1, <2>2, <2>3, <2>4, <2>5, <2>6, <2>7 DEF Next
<1> QED
  BY <1>1, <1>2, PTL DEF Spec

-----------------------------------------------------------------------------
(* The admission bound.                                                     *)

LEMMA KnownSound ==
    ASSUME TypeOK, NEW k, Known(k)
    PROVE  Sound(buckets[k], now) /\ k \in Keys
  BY DEF TypeOK, LimiterTypeOK, Known, Sound

(* An untouched key keeps its part of the invariant.                         *)
LEMMA AdmissionFrame ==
    ASSUME AdmissionInv, now' = now, NEW j \in Keys,
           Known(j)' <=> Known(j), Known(j) => buckets'[j] = buckets[j],
           spent'[j] = spent[j], since'[j] = since[j]
    PROVE  AdmissionOf(j)'
  BY DEF AdmissionInv, AdmissionOf, Level

LEMMA AdmissionStep == TypeOK /\ AdmissionInv /\ [Next]_vars => AdmissionInv'
<1> SUFFICES ASSUME TypeOK, AdmissionInv, [Next]_vars, NEW j \in Keys
             PROVE  AdmissionOf(j)'
  BY DEF AdmissionInv
<1> USE DEF history
<1>0. /\ now \in Nat /\ since[j] \in 0..now /\ spent[j] \in Nat /\ Minute \in Nat
      /\ AdmissionOf(j)
  BY TimeAssumption DEF TypeOK, LimiterTypeOK, AdmissionInv
<1>1. ASSUME NEW k \in Keys, NEW count \in Counts, NEW rpm \in Rpms, Granted(k, count, rpm)
      PROVE  AdmissionOf(j)'
  <2> DEFINE b == GetBucket(k, rpm)
  <2>1. count \in Nat
    BY InputAssumption
  <2>2. Sound(b, now) /\ Affords(b, count) /\ buckets' = Put(buckets, k, Take(b, count))
    BY <1>1, CheckedBucket DEF Granted, Allow
  <2>3. CASE j = k
    <3>1. /\ Known(j)' /\ buckets'[j] = Take(b, count) /\ now' = now
          /\ spent'[j] = spent[j] + count /\ since' = since
      BY <1>1, <2>2, <2>3, WriteFacts DEF Granted, Allow, TypeOK
    <3>2. /\ Level(Take(b, count)) = Level(b) - count * Minute
          /\ Take(b, count).capacity = b.capacity
      BY <1>0, <2>1, <2>2, TakeFacts
    <3>3. Level(buckets[j])' = Level(b) - count * Minute /\ (buckets[j].capacity)' = b.capacity
      BY <3>1, <3>2 DEF Level
    <3>4. spent[j] * Minute + Level(b) <= b.capacity * Minute + (now - since[j]) * b.capacity
      <4>1. CASE Known(j)
        BY <1>0, <2>3, <4>1 DEF AdmissionOf, GetBucket
      <4>2. CASE ~Known(j)
        <5>1. Level(b) = b.capacity * Minute /\ spent[j] = 0
          BY <1>0, <2>3, <4>2, CheckedBucket DEF AdmissionOf
        <5>2. (now - since[j]) * b.capacity \in Nat
          BY <1>0, <2>2, ProductNat DEF Sound, Bucket
        <5> QED
          BY <1>0, <2>2, <5>1, <5>2, ProductNat, SMT DEF Sound, Bucket
      <4> QED
        BY <4>1, <4>2
    <3>5. Level(b) \in Nat /\ b.capacity \in Nat
      BY <1>0, <2>2, LevelRange DEF Level, Sound, Bucket
    <3>6. (spent[j] + count) * Minute + (Level(b) - count * Minute)
             <= b.capacity * Minute + (now - since[j]) * b.capacity
      <4> HIDE DEF b
      <4> QED
        BY <1>0, <2>1, <3>4, <3>5, SMT
    <3> QED
      BY <3>1, <3>3, <3>6 DEF AdmissionOf
  <2>4. CASE j # k
    <3>1. now' = now /\ spent'[j] = spent[j] /\ since'[j] = since[j]
      BY <1>1, <2>4 DEF Granted, Allow, TypeOK
    <3>2. /\ Known(j)' <=> Known(j)
          /\ Known(j) => buckets'[j] = buckets[j]
      BY <2>2, <2>4 DEF Put, Known
    <3> QED
      BY <3>1, <3>2, AdmissionFrame
  <2> QED
    BY <2>3, <2>4
<1>2. ASSUME NEW k \in Keys, NEW v, buckets' = Put(buckets, k, v), now' = now,
             spent' = spent, since' = since, NEW b, Level(v) = Level(b), v.capacity = b.capacity,
             Known(k) => b = buckets[k],
             ~Known(k) => Level(b) = b.capacity * Minute,
             Sound(b, now)
      PROVE  AdmissionOf(j)'
  <2>1. CASE j = k
    <3>1. Known(j)' /\ Level(buckets[j])' = Level(b) /\ (buckets[j].capacity)' = b.capacity
      BY <1>2, <2>1, WriteFacts DEF Level
    <3>2. CASE Known(j)
      BY <1>0, <1>2, <2>1, <3>1, <3>2 DEF AdmissionOf
    <3>3. CASE ~Known(j)
      <4>1. (now - since[j]) * b.capacity \in Nat /\ b.capacity * Minute \in Nat
        BY <1>0, <1>2, ProductNat DEF Sound, Bucket
      <4>2. spent[j] = 0
        BY <1>0, <3>3 DEF AdmissionOf
      <4> QED
        BY <1>0, <1>2, <2>1, <3>1, <3>3, <4>1, <4>2 DEF AdmissionOf
    <3> QED
      BY <3>2, <3>3
  <2>2. CASE j # k
    <3>1. /\ Known(j)' <=> Known(j)
          /\ Known(j) => buckets'[j] = buckets[j]
      BY <1>2, <2>2 DEF Put, Known
    <3> QED
      BY <1>2, <3>1, AdmissionFrame
  <2> QED
    BY <2>1, <2>2
<1>3. ASSUME NEW k \in Keys, NEW count \in Counts, NEW rpm \in Rpms, Refused(k, count, rpm)
      PROVE  AdmissionOf(j)'
  <2> DEFINE b == GetBucket(k, rpm)
  <2>1. /\ Sound(b, now)
        /\ Known(k) => b = buckets[k]
        /\ ~Known(k) => Level(b) = b.capacity * Minute
    BY CheckedBucket
  <2>2. Level(Refill(b)) = Level(b) /\ Refill(b).capacity = b.capacity
    BY <1>0, <2>1, RefillFacts
  <2>3. /\ buckets' = Put(buckets, k, Refill(b)) /\ now' = now
        /\ spent' = spent /\ since' = since
    BY <1>3 DEF Refused, Deny
  <2> HIDE DEF b
  <2> QED
    BY <1>2, <2>1, <2>2, <2>3
<1>4. ASSUME NEW k \in Keys, Report(k)
      PROVE  AdmissionOf(j)'
  <2>1. now' = now /\ spent' = spent /\ since' = since
    BY <1>4 DEF Report, ReadRemaining
  <2>2. CASE Known(k)
    <3>1. Sound(buckets[k], now)
      BY <2>2, KnownSound
    <3>2. /\ Level(Refill(buckets[k])) = Level(buckets[k])
          /\ Refill(buckets[k]).capacity = buckets[k].capacity
      BY <1>0, <3>1, RefillFacts
    <3>3. buckets' = Put(buckets, k, Refill(buckets[k]))
      BY <1>4, <2>2 DEF Report, ReadRemaining
    <3> QED
      BY <1>2, <2>1, <2>2, <3>1, <3>2, <3>3
  <2>3. CASE ~Known(k)
    <3>1. buckets' = buckets
      BY <1>4, <2>3 DEF Report, ReadRemaining
    <3> QED
      BY <2>1, <3>1, AdmissionFrame DEF Known
  <2> QED
    BY <2>2, <2>3
<1>5. ASSUME NEW k \in Keys, ResetKey(k)
      PROVE  AdmissionOf(j)'
  <2>1. CASE j = k
    BY <1>5, <2>1 DEF ResetKey, Reset, Drop, AdmissionOf, Known, TypeOK
  <2>2. CASE j # k
    <3>1. /\ now' = now
          /\ Known(j)' <=> Known(j)
          /\ Known(j) => buckets'[j] = buckets[j]
          /\ spent'[j] = spent[j] /\ since'[j] = since[j]
      BY <1>5, <2>2 DEF ResetKey, Reset, Drop, Known, TypeOK
    <3> QED
      BY <3>1, AdmissionFrame
  <2> QED
    BY <2>1, <2>2
<1>6. ASSUME NEW k \in Keys, OpenWindow(k)
      PROVE  AdmissionOf(j)'
  <2>1. CASE j = k
    <3>1. CASE Known(j)
      <4>1. Sound(buckets[j], now)
        BY <3>1, KnownSound
      <4>2. Level(buckets[j]) <= buckets[j].capacity * Minute /\ Level(buckets[j]) \in Nat
        BY <1>0, <4>1, LevelRange DEF Level
      <4>3. 0 * Minute = 0 /\ (now - now) * buckets[j].capacity = 0
        BY <1>0, <4>1, SMT DEF Sound, Bucket
      <4>4. /\ now' = now /\ buckets' = buckets /\ spent'[j] = 0 /\ since'[j] = now
        BY <1>6, <2>1 DEF OpenWindow, limiterVars, TypeOK
      <4>5. buckets[j].capacity * Minute \in Nat
        BY <1>0, <4>1, ProductNat DEF Sound, Bucket
      <4> QED
        BY <3>1, <4>2, <4>3, <4>4, <4>5 DEF AdmissionOf, Level, Known
    <3>2. CASE ~Known(j)
      BY <1>6, <2>1, <3>2 DEF OpenWindow, limiterVars, AdmissionOf, Known, TypeOK
    <3> QED
      BY <3>1, <3>2
  <2>2. CASE j # k
    <3>1. /\ now' = now /\ buckets' = buckets
          /\ spent'[j] = spent[j] /\ since'[j] = since[j]
      BY <1>6, <2>2 DEF OpenWindow, limiterVars, TypeOK
    <3> QED
      BY <3>1, AdmissionFrame DEF Known
  <2> QED
    BY <2>1, <2>2
<1>7. CASE TimePasses
  <2>1. now' = now + 1 /\ buckets' = buckets /\ spent' = spent /\ since' = since
    BY <1>7 DEF TimePasses, Tick
  <2>2. CASE Known(j)
    <3>1. Sound(buckets[j], now)
      BY <2>2, KnownSound
    <3>2. LevelAt(buckets[j], now + 1) <= Level(buckets[j]) + buckets[j].capacity
      BY <1>0, <3>1, LevelTick DEF Level
    <3>3. (now + 1 - since[j]) * buckets[j].capacity
             = (now - since[j]) * buckets[j].capacity + buckets[j].capacity
      BY <1>0, <3>1, SMT DEF Sound, Bucket
    <3>4. /\ LevelAt(buckets[j], now + 1) \in Nat /\ Level(buckets[j]) \in Nat
      BY <1>0, <3>1, LevelTick, LevelRange DEF Level
    <3>5. /\ spent[j] * Minute \in Nat /\ buckets[j].capacity * Minute \in Nat
          /\ buckets[j].capacity \in Nat
          /\ (now - since[j]) * buckets[j].capacity \in Nat
      BY <1>0, <3>1, ProductNat DEF Sound, Bucket
    <3>6. spent[j] * Minute + Level(buckets[j])
             <= buckets[j].capacity * Minute + (now - since[j]) * buckets[j].capacity
      BY <1>0, <2>2 DEF AdmissionOf
    <3>7. spent[j] * Minute + LevelAt(buckets[j], now + 1)
             <= buckets[j].capacity * Minute + (now + 1 - since[j]) * buckets[j].capacity
      BY <3>2, <3>3, <3>4, <3>5, <3>6
    <3>8. Level(buckets[j])' = LevelAt(buckets[j], now + 1)
      BY <2>1 DEF Level
    <3>9. Known(j)' /\ spent'[j] = spent[j] /\ since'[j] = since[j]
      BY <2>1, <2>2 DEF Known
    <3>10. spent'[j] * Minute + LevelAt(buckets[j], now + 1)
              <= buckets'[j].capacity * Minute + (now' - since'[j]) * buckets'[j].capacity
      BY <1>0, <2>1, <3>5, <3>7, <3>9
    <3> QED
      BY <3>8, <3>9, <3>10 DEF AdmissionOf
  <2>3. CASE ~Known(j)
    BY <1>0, <2>1, <2>3 DEF AdmissionOf, Known
  <2> QED
    BY <2>2, <2>3
<1>8. CASE UNCHANGED vars
  BY <1>0, <1>8 DEF AdmissionOf, Known, Level, vars, limiterVars
<1> QED
  BY <1>1, <1>3, <1>4, <1>5, <1>6, <1>7, <1>8 DEF Next

(* For every capacity and tick length, and for every window of observation,   *)
(* TokenBucket grants no more than one full bucket plus what accrues.        *)
THEOREM AdmissionBounded == Spec => []AdmissionBound
<1>1. Init => AdmissionInv
  BY DEF Init, LimiterInit, AdmissionInv, AdmissionOf, Known, Empty
<1>2. TypeOK /\ AdmissionInv => AdmissionBound
  <2> SUFFICES ASSUME TypeOK, AdmissionInv, NEW k \in DOMAIN buckets
               PROVE  spent[k] * Minute <= buckets[k].capacity * Minute
                                             + (now - since[k]) * buckets[k].capacity
    BY DEF AdmissionBound
  <2>1. Known(k) /\ k \in Keys /\ Sound(buckets[k], now) /\ now \in Nat
    BY KnownSound DEF Known, TypeOK, LimiterTypeOK
  <2>2. Level(buckets[k]) \in Nat
    BY <2>1, LevelRange DEF Level
  <2>3. /\ spent[k] * Minute \in Nat /\ buckets[k].capacity * Minute \in Nat
        /\ (now - since[k]) * buckets[k].capacity \in Nat
    BY <2>1, ProductNat, TimeAssumption DEF TypeOK, Sound, Bucket
  <2> QED
    BY <2>1, <2>2, <2>3 DEF AdmissionInv, AdmissionOf
<1> QED
  BY <1>1, <1>2, TypeCorrect, AdmissionStep, PTL DEF Spec

-----------------------------------------------------------------------------
(* Reported counts.                                                         *)

LEMMA PromiseFrame ==
    ASSUME PromiseHonoured, now' = now, NEW j \in Keys, promised'[j] = promised[j],
           Known(j)' <=> Known(j), Known(j) => buckets'[j] = buckets[j]
    PROVE  PromiseOf(j)'
  BY DEF PromiseHonoured, PromiseOf, Level

LEMMA PromiseStep == TypeOK /\ PromiseHonoured /\ [Next]_vars => PromiseHonoured'
<1> SUFFICES ASSUME TypeOK, PromiseHonoured, [Next]_vars, NEW j \in Keys
             PROVE  PromiseOf(j)'
  BY DEF PromiseHonoured, PromiseOf
<1> USE DEF history
<1>0. /\ now \in Nat /\ promised[j] \in Nat /\ Minute \in Nat \ {0}
      /\ PromiseOf(j)
  BY TimeAssumption DEF TypeOK, LimiterTypeOK, PromiseHonoured, PromiseOf
<1>1. ASSUME NEW k \in Keys, NEW count \in Counts, NEW rpm \in Rpms, Granted(k, count, rpm)
      PROVE  PromiseOf(j)'
  <2> DEFINE b == GetBucket(k, rpm)
  <2>1. count \in Nat
    BY InputAssumption
  <2>2. Sound(b, now) /\ Affords(b, count) /\ buckets' = Put(buckets, k, Take(b, count))
    BY <1>1, CheckedBucket DEF Granted, Allow
  <2>3. CASE j = k
    <3>1. /\ Known(j)' /\ buckets'[j] = Take(b, count) /\ now' = now
          /\ promised'[j] = IF promised[j] > count THEN promised[j] - count ELSE 0
      BY <1>1, <2>2, <2>3, WriteFacts DEF Granted, Allow, TypeOK
    <3>2. Level(buckets[j])' = Level(b) - count * Minute /\ Level(b) \in Nat
      BY <1>0, <2>1, <2>2, <3>1, TakeFacts, LevelRange DEF Level
    <3>3. CASE promised[j] > count
      <4>1. Known(j) /\ Level(buckets[j]) >= promised[j] * Minute
        BY <1>0, <2>1, <3>3 DEF PromiseOf
      <4>2. Level(b) >= promised[j] * Minute
        BY <2>3, <4>1 DEF GetBucket
      <4>3. Level(b) - count * Minute >= (promised[j] - count) * Minute
        <5> HIDE DEF b
        <5> QED
          BY <1>0, <2>1, <3>2, <4>2, SMT
      <4> QED
        BY <3>1, <3>2, <3>3, <4>3 DEF PromiseOf
    <3>4. CASE ~(promised[j] > count)
      BY <3>1, <3>4 DEF PromiseOf
    <3> QED
      BY <3>3, <3>4
  <2>4. CASE j # k
    <3>1. now' = now /\ promised'[j] = promised[j]
      BY <1>1, <2>4 DEF Granted, Allow, TypeOK
    <3>2. /\ Known(j)' <=> Known(j)
          /\ Known(j) => buckets'[j] = buckets[j]
      BY <2>2, <2>4 DEF Put, Known
    <3> QED
      BY <3>1, <3>2, PromiseFrame
  <2> QED
    BY <2>3, <2>4
<1>2. ASSUME NEW k \in Keys, NEW count \in Counts, NEW rpm \in Rpms, Refused(k, count, rpm)
      PROVE  PromiseOf(j)'
  <2> DEFINE b == GetBucket(k, rpm)
  <2>1. now' = now /\ promised' = promised /\ buckets' = Put(buckets, k, Refill(b))
    BY <1>2 DEF Refused, Deny
  <2>2. CASE j = k
    <3>1. Known(j)' /\ Level(buckets[j])' = Level(b)
      BY <1>0, <2>1, <2>2, CheckedBucket, RefillFacts, WriteFacts DEF Level
    <3>2. Known(j) => Level(b) = Level(buckets[j])
      BY <2>2 DEF GetBucket
    <3> QED
      BY <1>0, <2>1, <3>1, <3>2 DEF PromiseOf
  <2>3. CASE j # k
    <3>1. /\ Known(j)' <=> Known(j)
          /\ Known(j) => buckets'[j] = buckets[j]
      BY <2>1, <2>3 DEF Put, Known
    <3> QED
      BY <2>1, <3>1, PromiseFrame
  <2> QED
    BY <2>2, <2>3
<1>3. ASSUME NEW k \in Keys, Report(k)
      PROVE  PromiseOf(j)'
  <2>1. now' = now
    BY <1>3 DEF Report, ReadRemaining
  <2>2. CASE j = k /\ Known(j)
    <3>1. Sound(buckets[j], now)
      BY <2>2, KnownSound
    <3>2. buckets' = Put(buckets, j, Refill(buckets[j])) /\ promised'[j] = Remaining(j)
      BY <1>3, <2>2 DEF Report, ReadRemaining, TypeOK
    <3>3. Known(j)' /\ Level(buckets[j])' = Level(buckets[j]) /\ Level(buckets[j]) \in Nat
      BY <1>0, <2>1, <3>1, <3>2, RefillFacts, LevelRange, WriteFacts DEF Level
    <3>4. Remaining(j) = Level(buckets[j]) \div Minute
      BY <2>2 DEF Remaining
    <3>5. Remaining(j) * Minute <= Level(buckets[j])
      BY <1>0, <3>3, <3>4, SMT
    <3> QED
      BY <3>2, <3>3, <3>5 DEF PromiseOf
  <2>3. CASE j = k /\ ~Known(j)
    BY <1>3, <2>3 DEF Report, PromiseOf, TypeOK
  <2>4. CASE j # k
    <3>1. promised'[j] = promised[j]
      BY <1>3, <2>4 DEF Report, TypeOK
    <3>2. /\ Known(j)' <=> Known(j)
          /\ Known(j) => buckets'[j] = buckets[j]
      BY <1>3, <2>4 DEF Report, ReadRemaining, Put, Known
    <3> QED
      BY <2>1, <3>1, <3>2, PromiseFrame
  <2> QED
    BY <2>2, <2>3, <2>4
<1>4. ASSUME NEW k \in Keys, ResetKey(k)
      PROVE  PromiseOf(j)'
  <2>1. CASE j = k
    BY <1>4, <2>1 DEF ResetKey, PromiseOf, TypeOK
  <2>2. CASE j # k
    <3>1. /\ now' = now /\ promised'[j] = promised[j]
      BY <1>4, <2>2 DEF ResetKey, Reset, TypeOK
    <3>2. /\ Known(j)' <=> Known(j)
          /\ Known(j) => buckets'[j] = buckets[j]
      BY <1>4, <2>2 DEF ResetKey, Reset, Drop, Known
    <3> QED
      BY <3>1, <3>2, PromiseFrame
  <2> QED
    BY <2>1, <2>2
<1>5. CASE UNCHANGED <<limiterVars, promised>>
  BY <1>5, PromiseFrame DEF limiterVars, Known
<1>6. CASE TimePasses
  <2>1. now' = now + 1 /\ buckets' = buckets /\ promised' = promised
    BY <1>6 DEF TimePasses, Tick
  <2>2. CASE Known(j)
    <3>1. Sound(buckets[j], now)
      BY <2>2, KnownSound
    <3>2. /\ Level(buckets[j])' \in Nat /\ Level(buckets[j]) \in Nat
          /\ Level(buckets[j]) <= Level(buckets[j])'
      <4>1. now + 1 \in Nat /\ Sound(buckets[j], now + 1)
        BY <1>0, <3>1, LevelTick
      <4>2. /\ LevelAt(buckets[j], now + 1) \in Nat /\ LevelAt(buckets[j], now) \in Nat
            /\ LevelAt(buckets[j], now) <= LevelAt(buckets[j], now + 1)
        BY <1>0, <3>1, <4>1, LevelTick, LevelRange
      <4> QED
        BY <2>1, <4>2 DEF Level
    <3>3. promised[j] * Minute \in Nat
      BY <1>0, ProductNat
    <3> QED
      BY <1>0, <2>1, <2>2, <3>2, <3>3 DEF PromiseOf, Known
  <2>3. CASE ~Known(j)
    BY <1>0, <2>1, <2>3 DEF PromiseOf
  <2> QED
    BY <2>2, <2>3
<1> QED
  BY <1>1, <1>2, <1>3, <1>4, <1>5, <1>6 DEF Next, OpenWindow, vars

(* RateLimiter.remaining never overstates: what it reported can be consumed,   *)
(* now or later, whatever the key's calls did in between.                    *)
THEOREM PromisesHonoured == Spec => []PromiseHonoured
<1>1. Init => PromiseHonoured
  BY DEF Init, PromiseHonoured
<1> QED
  BY <1>1, TypeCorrect, PromiseStep, PTL DEF Spec

-----------------------------------------------------------------------------
(* Retry-After.                                                             *)

(* A refill in between moves neither bound on the moment of the next token.   *)
LEMMA RefillKeepsDue ==
    ASSUME now \in Nat, NEW b, Sound(b, now), NEW d \in Nat, Due(b, d)
    PROVE  Due(Refill(b), d)
<1> DEFINE L == Level(b)
           e == (now - b.last_refill) * b.capacity
           x == (d - b.last_refill) * b.capacity
           y == (d - Second - b.last_refill) * b.capacity
<1>1. /\ b.capacity \in Nat \ {0} /\ b.tokens \in Nat /\ b.last_refill \in Nat
      /\ Minute \in Nat \ {0} /\ Second \in Nat /\ b.capacity * Minute \in Nat
  BY ProductNat, TimeAssumption DEF Sound, Bucket
<1>2. b.capacity * Minute >= Minute
  BY <1>1, SMT
<1>3. /\ L \in Nat /\ b.tokens <= L /\ L <= b.tokens + e
      /\ L = b.tokens + e \/ L = b.capacity * Minute
  BY <1>1, LevelRange DEF Level, LevelAt
<1>4. /\ (d - now) * b.capacity = x - e
      /\ (d - Second - now) * b.capacity = y - e
      /\ e \in Int /\ x \in Int /\ y \in Int
  BY <1>1, SMT
<1>5. /\ b.tokens >= Minute \/ b.tokens + x >= Minute
      /\ b.tokens + y <= Minute
  BY DEF Due
<1>6. /\ Refill(b).tokens = L /\ Refill(b).last_refill = now
      /\ Refill(b).capacity = b.capacity
  BY RefillFacts
<1> HIDE DEF L, e, x, y
<1>7. /\ L >= Minute \/ L + (x - e) >= Minute
      /\ L + (y - e) <= Minute
  BY <1>1, <1>2, <1>3, <1>4, <1>5
<1> QED
  BY <1>4, <1>6, <1>7 DEF Due

(* The moment a Retry-After header points at is the due moment of a token.    *)
LEMMA HeaderDue ==
    ASSUME now \in Nat, NEW b, Sound(b, now), b.last_refill = now, b.tokens < Minute
    PROVE  Due(b, now + RetryAfterHeader(b) * Second)
<1> DEFINE h == RetryAfterHeader(b)
<1>1. /\ b \in Bucket /\ b.capacity \in Nat \ {0} /\ b.tokens \in Nat
      /\ Minute \in Nat /\ Second \in Nat
  BY TimeAssumption DEF Sound, Bucket
<1>2. Missing(b) = Minute - b.tokens
  BY <1>1 DEF Missing
<1>3. /\ h \in Nat
      /\ (h - 1) * Second * b.capacity <= Minute - b.tokens
      /\ Minute - b.tokens < h * Second * b.capacity
  BY <1>1, <1>2, HeaderFacts
<1> HIDE DEF h
<1>4. /\ (now + h * Second - b.last_refill) * b.capacity = h * Second * b.capacity
      /\ (now + h * Second - Second - b.last_refill) * b.capacity
            = (h - 1) * Second * b.capacity
  BY <1>1, <1>3, SMT
<1>5. /\ h * Second * b.capacity \in Int /\ (h - 1) * Second * b.capacity \in Int
  BY <1>1, <1>3, SMT
<1> DEFINE d == now + h * Second
<1>6. /\ b.tokens + (d - b.last_refill) * b.capacity >= Minute
      /\ b.tokens + (d - Second - b.last_refill) * b.capacity <= Minute
  BY <1>1, <1>3, <1>4, <1>5
<1> HIDE DEF d
<1>7. Due(b, d)
  BY <1>6 DEF Due
<1> QED
  BY <1>7 DEF d, h

LEMMA AdviceFrame ==
    ASSUME AdviceInv, NEW j \in Keys, advised'[j] = advised[j],
           Known(j)' <=> Known(j), Known(j) => buckets'[j] = buckets[j]
    PROVE  AdviceOf(j)'
  BY DEF AdviceInv, AdviceOf, Due

LEMMA AdviceRefill ==
    ASSUME TypeOK, AdviceInv, NEW j \in Keys, advised'[j] = advised[j], Known(j),
           buckets' = Put(buckets, j, Refill(buckets[j]))
    PROVE  AdviceOf(j)'
<1>1. Known(j)' /\ buckets'[j] = Refill(buckets[j])
  BY WriteFacts
<1>2. Sound(buckets[j], now) /\ now \in Nat /\ advised[j] \in Nat
  BY KnownSound DEF TypeOK, LimiterTypeOK
<1>3. CASE advised[j] > 0
  <2>1. Due(buckets[j], advised[j])
    BY <1>3 DEF AdviceInv, AdviceOf
  <2>2. Due(Refill(buckets[j]), advised[j])
    BY <1>2, <2>1, RefillKeepsDue
  <2>3. Due(buckets'[j], advised'[j])
    BY <1>1, <2>2
  <2> QED
    BY <1>1, <2>3 DEF AdviceOf
<1>4. CASE ~(advised[j] > 0)
  BY <1>4 DEF AdviceOf
<1> QED
  BY <1>3, <1>4

LEMMA AdviceStep == TypeOK /\ AdviceInv /\ [Next]_vars => AdviceInv'
<1> SUFFICES ASSUME TypeOK, AdviceInv, [Next]_vars, NEW j \in Keys
             PROVE  AdviceOf(j)'
  BY DEF AdviceInv
<1> USE DEF history
<1>0. now \in Nat /\ Minute \in Nat
  BY TimeAssumption DEF TypeOK, LimiterTypeOK
<1>1. ASSUME NEW k \in Keys, NEW count \in Counts, NEW rpm \in Rpms, Granted(k, count, rpm)
      PROVE  AdviceOf(j)'
  <2>1. CASE j = k
    BY <1>1, <2>1 DEF Granted, AdviceOf, TypeOK
  <2>2. CASE j # k
    <3>1. /\ advised'[j] = advised[j]
          /\ Known(j)' <=> Known(j)
          /\ Known(j) => buckets'[j] = buckets[j]
      BY <1>1, <2>2 DEF Granted, Allow, TypeOK, Put, Known
    <3> QED
      BY <3>1, AdviceFrame
  <2> QED
    BY <2>1, <2>2
<1>2. ASSUME NEW k \in Keys, NEW count \in Counts, NEW rpm \in Rpms, Refused(k, count, rpm)
      PROVE  AdviceOf(j)'
  <2> DEFINE b == GetBucket(k, rpm)
  <2>1. Sound(b, now) /\ ~Affords(b, count) /\ buckets' = Put(buckets, k, Refill(b))
    BY <1>2, CheckedBucket DEF Refused, Deny
  <2>2. CASE j = k /\ count = 1
    <3>1. Level(b) < Minute
      <4>1. Level(b) \in Nat
        BY <1>0, <2>1, LevelRange DEF Level
      <4> QED
        BY <1>0, <2>1, <2>2, <4>1 DEF Affords
    <3>2. Known(j)' /\ buckets'[j] = Refill(b)
      BY <2>1, <2>2, WriteFacts
    <3>3. Due(Refill(b), now + RetryAfterHeader(Refill(b)) * Second)
      BY <1>0, <2>1, <3>1, RefillFacts, HeaderDue
    <3>4. advised'[j] = now + RetryAfterHeader(buckets'[j]) * Second
      BY <1>2, <2>2 DEF Refused, TypeOK
    <3>5. Due(buckets'[j], advised'[j])
      BY <3>2, <3>3, <3>4
    <3> QED
      BY <3>2, <3>5 DEF AdviceOf
  <2>3. CASE j = k /\ count # 1
    <3>1. advised'[j] = advised[j]
      BY <1>2, <2>3 DEF Refused
    <3>2. CASE Known(j)
      BY <2>1, <2>3, <3>1, <3>2, AdviceRefill DEF GetBucket
    <3>3. CASE ~Known(j)
      BY <3>1, <3>3 DEF AdviceInv, AdviceOf
    <3> QED
      BY <3>2, <3>3
  <2>4. CASE j # k
    <3>1. /\ advised'[j] = advised[j]
          /\ Known(j)' <=> Known(j)
          /\ Known(j) => buckets'[j] = buckets[j]
      BY <1>2, <2>1, <2>4 DEF Refused, TypeOK, Put, Known
    <3> QED
      BY <3>1, AdviceFrame
  <2> QED
    BY <2>2, <2>3, <2>4
<1>3. ASSUME NEW k \in Keys, Report(k)
      PROVE  AdviceOf(j)'
  <2>1. advised' = advised
    BY <1>3 DEF Report
  <2>2. CASE j = k /\ Known(k)
    BY <1>3, <2>1, <2>2, AdviceRefill DEF Report, ReadRemaining
  <2>3. CASE ~(j = k /\ Known(k))
    <3>1. /\ Known(j)' <=> Known(j)
          /\ Known(j) => buckets'[j] = buckets[j]
      BY <1>3, <2>3 DEF Report, ReadRemaining, Put, Known
    <3> QED
      BY <2>1, <3>1, AdviceFrame
  <2> QED
    BY <2>2, <2>3
<1>4. ASSUME NEW k \in Keys, ResetKey(k)
      PROVE  AdviceOf(j)'
  <2>1. CASE j = k
    BY <1>4, <2>1 DEF ResetKey, AdviceOf, TypeOK
  <2>2. CASE j # k
    <3>1. /\ advised'[j] = advised[j]
          /\ Known(j)' <=> Known(j)
          /\ Known(j) => buckets'[j] = buckets[j]
      BY <1>4, <2>2 DEF ResetKey, Reset, Drop, Known, TypeOK
    <3> QED
      BY <3>1, AdviceFrame
  <2> QED
    BY <2>1, <2>2
<1>5. CASE UNCHANGED <<buckets, advised>>
  BY <1>5, AdviceFrame DEF Known
<1> QED
  BY <1>1, <1>2, <1>3, <1>4, <1>5
  DEF Next, OpenWindow, TimePasses, Tick, vars, limiterVars

(* A 429's Retry-After is neither too short, so that the client that waited    *)
(* would be refused again, nor more than a second longer than necessary.     *)
THEOREM RetryAfterRight == Spec => []RetryAfterHonoured
<1>1. Init => AdviceInv
  BY DEF Init, AdviceInv, AdviceOf
<1>2. TypeOK /\ AdviceInv => RetryAfterHonoured
  <2> SUFFICES ASSUME TypeOK, AdviceInv, NEW k \in Keys, advised[k] > 0
               PROVE  /\ Known(k)
                      /\ now >= advised[k] => Affords(buckets[k], 1)
                      /\ now < advised[k] - Second => ~Affords(buckets[k], 1)
    BY DEF RetryAfterHonoured
  <2> DEFINE b == buckets[k]
             e == (now - b.last_refill) * b.capacity
             x == (advised[k] - b.last_refill) * b.capacity
             y == (advised[k] - Second - b.last_refill) * b.capacity
  <2>1. Known(k) /\ Due(b, advised[k])
    BY DEF AdviceInv, AdviceOf
  <2>2. Sound(b, now) /\ now \in Nat /\ advised[k] \in Nat
    BY <2>1, KnownSound DEF TypeOK, LimiterTypeOK
  <2>3. /\ b.capacity \in Nat \ {0} /\ b.tokens \in Nat /\ b.last_refill \in Nat
        /\ Minute \in Nat /\ Second \in Nat
    BY <2>2, TimeAssumption DEF Sound, Bucket
  <2>4. /\ Level(b) \in Nat /\ Level(b) <= b.tokens + e /\ Level(b) >= b.tokens
        /\ Level(b) = b.tokens + e \/ Level(b) = b.capacity * Minute
    BY <2>2, <2>3, LevelRange DEF Level, LevelAt
  <2>5. /\ b.tokens >= Minute \/ b.tokens + x >= Minute
        /\ b.tokens + y <= Minute
    BY <2>1 DEF Due
  <2>6. /\ e \in Int /\ x \in Int /\ y \in Int
        /\ now >= advised[k] => e >= x
        /\ now < advised[k] - Second => e < y
    <3> HIDE DEF b
    <3>1. /\ now - b.last_refill \in Int /\ advised[k] - b.last_refill \in Int
          /\ advised[k] - Second - b.last_refill \in Int
          /\ now >= advised[k] => now - b.last_refill >= advised[k] - b.last_refill
          /\ now < advised[k] - Second =>
                 now - b.last_refill < advised[k] - Second - b.last_refill
      BY <2>2, <2>3
    <3> QED
      BY <2>3, <3>1, ProductMonotone
  <2>8. b.capacity * Minute >= Minute /\ b.capacity * Minute \in Nat
    BY <2>3, SMT
  <2> HIDE DEF b, e, x, y
  <2>7. /\ now >= advised[k] => Level(b) >= 1 * Minute
        /\ now < advised[k] - Second => ~(Level(b) >= 1 * Minute)
    BY <2>3, <2>4, <2>5, <2>6, <2>8
  <2> QED
    BY <2>1, <2>7 DEF Affords, b
<1> QED
  BY <1>1, <1>2, TypeCorrect, AdviceStep, PTL DEF Spec
-----------------------------------------------------------------------------
(* The refinement.                                                          *)

(* A bucket as Throttle sees it at time t.                                   *)
Seen(b, t) == [capacity |-> b.capacity, units |-> LevelAt(b, t)]

SeenAll == [k \in DOMAIN buckets |-> Seen(buckets[k], now)]

(* Writing one bucket writes one credit.                                     *)
LEMMA SeenPut ==
    ASSUME NEW k, NEW v, buckets' = Put(buckets, k, v), now' = now
    PROVE  SeenAll' = Eager!Put(SeenAll, k, Seen(v, now))
<1>1. DOMAIN buckets' = DOMAIN buckets \cup {k} /\ DOMAIN SeenAll = DOMAIN buckets
  BY DEF Put, SeenAll
<1>2. \A j \in DOMAIN buckets' :
        Seen(buckets'[j], now) = IF j = k THEN Seen(v, now) ELSE SeenAll[j]
  BY DEF Put, SeenAll
<1>3. SeenAll' = [j \in DOMAIN buckets \cup {k} |-> Seen(buckets'[j], now)]
  BY <1>1 DEF SeenAll
<1> QED
  BY <1>1, <1>2, <1>3 DEF Eager!Put

(* The bucket a check works on is the credit Throttle works on.               *)
LEMMA SeenGetBucket ==
    ASSUME TypeOK, NEW k \in Keys, NEW rpm \in Rpms
    PROVE  LET limit == IF rpm = 0 THEN DefaultRpm ELSE rpm
           IN  /\ limit \in {DefaultRpm} \cup (Rpms \ {0})
               /\ Seen(GetBucket(k, rpm), now)
                     = IF k \in DOMAIN SeenAll THEN SeenAll[k]
                       ELSE [capacity |-> limit, units |-> limit * Minute]
<1> DEFINE limit == IF rpm = 0 THEN DefaultRpm ELSE rpm
<1>1. CASE Known(k)
  BY <1>1, CheckedBucket DEF Known, SeenAll
<1>2. CASE ~Known(k)
  <2>1. GetBucket(k, rpm).capacity = limit
    BY <1>2 DEF GetBucket, NewBucket
  <2>2. LevelAt(GetBucket(k, rpm), now) = limit * Minute
    BY <1>2, <2>1, CheckedBucket DEF Level
  <2> QED
    BY <1>2, <2>1, <2>2 DEF Known, SeenAll, Seen
<1> QED
  BY <1>1, <1>2

LEMMA ThrottleStep == TypeOK /\ [Next]_vars => [Eager!Next]_SeenAll
<1> SUFFICES ASSUME TypeOK, [Next]_vars
             PROVE  Eager!Next \/ SeenAll' = SeenAll
  OBVIOUS
<1> USE DEF history
<1> DEFINE limits == {DefaultRpm} \cup (Rpms \ {0})
<1>0. now \in Nat
  BY DEF TypeOK, LimiterTypeOK
<1>1. ASSUME NEW k \in Keys, NEW count \in Counts, NEW rpm \in Rpms, Granted(k, count, rpm)
      PROVE  Eager!Next
  <2> DEFINE b == GetBucket(k, rpm)
             limit == IF rpm = 0 THEN DefaultRpm ELSE rpm
             c == IF k \in DOMAIN SeenAll THEN SeenAll[k]
                  ELSE [capacity |-> limit, units |-> limit * Minute]
  <2>1. count \in Nat
    BY InputAssumption
  <2>2. /\ Sound(b, now) /\ Affords(b, count) /\ now' = now
        /\ buckets' = Put(buckets, k, Take(b, count))
    BY <1>1, CheckedBucket DEF Granted, Allow
  <2>3. limit \in limits /\ Seen(b, now) = c
    BY SeenGetBucket
  <2>4. Seen(Take(b, count), now) = [Seen(b, now) EXCEPT !.units = @ - count * Minute]
    BY <1>0, <2>1, <2>2, TakeFacts DEF Seen, Level
  <2>5. Seen(b, now).units >= count * Minute
    BY <2>2 DEF Affords, Level, Seen
  <2>6. SeenAll' = Eager!Put(SeenAll, k, Seen(Take(b, count), now))
    BY <2>2, SeenPut
  <2>7. Eager!CreditOf(k, limit) = c
    BY DEF Eager!CreditOf, Eager!Fresh, SeenAll, Seen, Level
  <2> HIDE DEF b, limit, c, limits
  <2>8. Eager!Spend(k, count, limit)
    BY <2>3, <2>4, <2>5, <2>6, <2>7 DEF Eager!Spend, SeenAll, Seen, Level
  <2> QED
    BY <2>3, <2>8 DEF Eager!Next, limits
<1>2. ASSUME NEW k \in Keys, NEW count \in Counts, NEW rpm \in Rpms, Refused(k, count, rpm)
      PROVE  Eager!Next
  <2> DEFINE b == GetBucket(k, rpm)
             limit == IF rpm = 0 THEN DefaultRpm ELSE rpm
             c == IF k \in DOMAIN SeenAll THEN SeenAll[k]
                  ELSE [capacity |-> limit, units |-> limit * Minute]
  <2>1. count \in Nat
    BY InputAssumption
  <2>2. /\ Sound(b, now) /\ ~Affords(b, count) /\ now' = now
        /\ buckets' = Put(buckets, k, Refill(b))
    BY <1>2, CheckedBucket DEF Refused, Deny
  <2>3. limit \in limits /\ Seen(b, now) = c
    BY SeenGetBucket
  <2>4. Seen(Refill(b), now) = Seen(b, now)
    BY <1>0, <2>2, RefillFacts DEF Seen, Level
  <2>5. Seen(b, now).units < count * Minute
    <3>1. Level(b) \in Nat /\ count * Minute \in Nat
      BY <1>0, <2>1, <2>2, LevelRange, ProductNat, TimeAssumption DEF Level
    <3> QED
      BY <2>2, <3>1 DEF Affords, Level, Seen
  <2>6. SeenAll' = Eager!Put(SeenAll, k, Seen(Refill(b), now))
    BY <2>2, SeenPut
  <2>7. Eager!CreditOf(k, limit) = c
    BY DEF Eager!CreditOf, Eager!Fresh, SeenAll, Seen, Level
  <2> HIDE DEF b, limit, c, limits
  <2>8. Eager!Refuse(k, count, limit)
    BY <2>3, <2>4, <2>5, <2>6, <2>7 DEF Eager!Refuse, SeenAll, Seen, Level
  <2> QED
    BY <2>3, <2>8 DEF Eager!Next, limits
<1>3. ASSUME NEW k \in Keys, Report(k)
      PROVE  SeenAll' = SeenAll
  <2>1. CASE Known(k)
    <3>1. Seen(Refill(buckets[k]), now) = SeenAll[k] /\ k \in DOMAIN SeenAll
      BY <1>0, <2>1, KnownSound, RefillFacts DEF Seen, SeenAll, Level, Known
    <3>2. SeenAll' = Eager!Put(SeenAll, k, SeenAll[k])
      BY <1>3, <2>1, <3>1, SeenPut DEF Report, ReadRemaining
    <3> QED
      BY <3>1, <3>2 DEF Eager!Put, SeenAll
  <2>2. CASE ~Known(k)
    BY <1>3, <2>2 DEF Report, ReadRemaining, SeenAll
  <2> QED
    BY <2>1, <2>2
<1>4. ASSUME NEW k \in Keys, ResetKey(k)
      PROVE  Eager!Next
  <2>1. SeenAll' = Eager!Drop(SeenAll, k)
    BY <1>4 DEF ResetKey, Reset, Drop, Eager!Drop, SeenAll
  <2>2. Eager!Forget(k)
    BY <2>1 DEF Eager!Forget, SeenAll, Seen, Level
  <2> QED
    BY <2>2 DEF Eager!Next
<1>5. ASSUME NEW k \in Keys, OpenWindow(k)
      PROVE  SeenAll' = SeenAll
  BY <1>5 DEF OpenWindow, limiterVars, SeenAll
<1>6. CASE TimePasses
  <2>1. buckets' = buckets /\ now' = now + 1
    BY <1>6 DEF TimePasses, Tick
  <2>2. \A k \in DOMAIN buckets : Seen(buckets[k], now + 1) = Eager!Grown(SeenAll[k])
    BY <1>0, LevelGrows, KnownSound DEF Seen, SeenAll, Eager!Grown, Known
  <2>3. SeenAll' = [k \in DOMAIN SeenAll |-> Eager!Grown(SeenAll[k])]
    BY <2>1, <2>2 DEF SeenAll
  <2>4. Eager!Accrue
    BY <2>3 DEF Eager!Accrue, SeenAll, Seen, Level
  <2> QED
    BY <2>4 DEF Eager!Next
<1>7. CASE UNCHANGED vars
  BY <1>7 DEF vars, limiterVars, SeenAll
<1> QED
  BY <1>1, <1>2, <1>3, <1>4, <1>5, <1>6, <1>7 DEF Next

(* Refilling lazily, whenever a bucket happens to be looked at, implements a   *)
(* credit that grows eagerly with the clock, for any keys, limits and clock.  *)
THEOREM LazyRefillIsEager == Spec => ImplementsThrottle
<1>1. Init => Eager!Init
  BY DEF Init, LimiterInit, Empty, Eager!Init, Eager!Empty
<1>2. TypeOK /\ [Next]_vars =>
        [Eager!Next]_[k \in DOMAIN buckets |->
                         [capacity |-> buckets[k].capacity, units |-> Level(buckets[k])]]
  BY ThrottleStep DEF SeenAll, Seen, Level
<1> QED
  BY <1>1, <1>2, TypeCorrect, PTL DEF Spec, ImplementsThrottle, Eager!Spec
=============================================================================
