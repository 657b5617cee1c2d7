--------------------------- MODULE ServiceLemmas ---------------------------
(***************************************************************************)
(* Machine-checked facts about the services the pipeline and the middleware   *)
(* share.  One token bucket: what refilling, taking and waiting do to the     *)
(* level it would have now.  The usage tracker: the calendar, and what       *)
(* record_usage and the clock do to the records and to the daily totals.      *)
(***************************************************************************)
EXTENDS RateLimiter, UsageTracker, SequenceTheorems, TLAPS

(* A bucket as it may be found at time t.                                    *)
Sound(b, t) == b \in Bucket /\ b.tokens <= b.capacity * Minute /\ b.last_refill <= t

-----------------------------------------------------------------------------
(* Arithmetic of one bucket.                                                *)

LEMMA ProductMonotone ==
    ASSUME NEW a \in Int, NEW b \in Int, NEW c \in Nat \ {0}
    PROVE  /\ a * c \in Int
           /\ a <= b => a * c <= b * c
           /\ a < b => a * c < b * c
  BY SMT

LEMMA ProductNat ==
    ASSUME NEW a \in Nat, NEW b \in Nat
    PROVE  a * b \in Nat
  BY SMT

(* A refilled level is a natural, no less than the tokens stored and no more  *)
(* than the capacity.                                                        *)
LEMMA LevelRange ==
    ASSUME NEW t \in Nat, NEW b, Sound(b, t)
    PROVE  /\ LevelAt(b, t) \in Nat
           /\ b.tokens <= LevelAt(b, t)
           /\ LevelAt(b, t) <= b.capacity * Minute
           /\ LevelAt(b, t) <= b.tokens + (t - b.last_refill) * b.capacity
<1>1. (t - b.last_refill) * b.capacity \in Nat /\ b.capacity * Minute \in Nat
  BY ProductNat, TimeAssumption DEF Sound, Bucket
<1> QED
  BY <1>1, SMT DEF LevelAt, Sound, Bucket

(* One tick later the level has grown by at most `capacity' units.            *)
LEMMA LevelTick ==
    ASSUME NEW t \in Nat, NEW b, Sound(b, t)
    PROVE  /\ Sound(b, t + 1)
           /\ LevelAt(b, t) <= LevelAt(b, t + 1)
           /\ LevelAt(b, t + 1) <= LevelAt(b, t) + b.capacity
<1>1. Sound(b, t + 1)
  BY SMT DEF Sound, Bucket
<1>2. (t + 1 - b.last_refill) * b.capacity = (t - b.last_refill) * b.capacity + b.capacity
  BY SMT DEF Sound, Bucket
<1>3. (t - b.last_refill) * b.capacity \in Nat /\ b.capacity * Minute \in Nat
  BY ProductNat, TimeAssumption DEF Sound, Bucket
<1> QED
  BY <1>1, <1>2, <1>3, SMT DEF LevelAt, Sound, Bucket

(* Nothing accrues at the instant of a refill.                               *)
LEMMA LevelFresh ==
    ASSUME NEW b, NEW t \in Nat, Sound(b, t), b.last_refill = t
    PROVE  LevelAt(b, t) = b.tokens
<1>1. (t - t) * b.capacity = 0
  BY SMT DEF Sound, Bucket
<1>2. b.capacity * Minute \in Nat
  BY ProductNat, TimeAssumption DEF Sound, Bucket
<1> QED
  BY <1>1, <1>2, SMT DEF LevelAt, Sound, Bucket

LEMMA RefillFacts ==
    ASSUME now \in Nat, NEW b, Sound(b, now)
    PROVE  /\ Sound(Refill(b), now)
           /\ Level(Refill(b)) = Level(b)
           /\ Refill(b).capacity = b.capacity
           /\ Refill(b).tokens = Level(b)
           /\ Refill(b).last_refill = now
<1>1. /\ Refill(b).capacity = b.capacity /\ Refill(b).tokens = Level(b)
      /\ Refill(b).last_refill = now /\ Refill(b) \in Bucket
  BY LevelRange DEF Refill, Level, Bucket, Sound
<1>2. Sound(Refill(b), now)
  BY <1>1, LevelRange DEF Sound, Level
<1> QED
  BY <1>1, <1>2, LevelFresh DEF Level

LEMMA TakeFacts ==
    ASSUME now \in Nat, NEW b, Sound(b, now), NEW count \in Nat, Affords(b, count)
    PROVE  /\ Sound(Take(b, count), now)
           /\ Level(Take(b, count)) = Level(b) - count * Minute
           /\ Take(b, count).capacity = b.capacity
           /\ Take(b, count).tokens = Level(b) - count * Minute
           /\ Take(b, count).last_refill = now
<1>1. /\ Level(b) - count * Minute \in Nat
      /\ Level(b) - count * Minute <= b.capacity * Minute
  BY LevelRange, ProductNat, TimeAssumption, SMT DEF Affords, Level, Sound, Bucket
<1>2. /\ Take(b, count).capacity = b.capacity
      /\ Take(b, count).tokens = Level(b) - count * Minute
      /\ Take(b, count).last_refill = now /\ Take(b, count) \in Bucket
  BY <1>1 DEF Take, Bucket, Sound
<1>3. Sound(Take(b, count), now)
  BY <1>1, <1>2 DEF Sound
<1> QED
  BY <1>2, <1>3, LevelFresh DEF Level

(* A tick makes every level grow by what the eager credit grows by.           *)
LEMMA LevelGrows ==
    ASSUME NEW t \in Nat, NEW b, Sound(b, t)
    PROVE  LevelAt(b, t + 1) =
               IF LevelAt(b, t) + b.capacity > b.capacity * Minute
               THEN b.capacity * Minute ELSE LevelAt(b, t) + b.capacity
<1>1. (t + 1 - b.last_refill) * b.capacity = (t - b.last_refill) * b.capacity + b.capacity
  BY SMT DEF Sound, Bucket
<1>2. (t - b.last_refill) * b.capacity \in Nat /\ b.capacity * Minute \in Nat
  BY ProductNat, TimeAssumption DEF Sound, Bucket
<1> QED
  BY <1>1, <1>2, SMT DEF LevelAt, Sound, Bucket

(* The bucket a check works on is sound, and full if the check created it.    *)
LEMMA GetBucketFacts ==
    ASSUME now \in Nat, NEW k, NEW rpm \in Nat, Known(k) => Sound(buckets[k], now)
    PROVE  /\ Sound(GetBucket(k, rpm), now)
           /\ Known(k) => GetBucket(k, rpm) = buckets[k]
           /\ ~Known(k) => Level(GetBucket(k, rpm)) = GetBucket(k, rpm).capacity * Minute
<1> DEFINE limit == IF rpm = 0 THEN DefaultRpm ELSE rpm
           fresh == [capacity |-> limit, tokens |-> limit * Minute, last_refill |-> now]
<1>1. CASE Known(k)
  BY <1>1 DEF GetBucket
<1>2. CASE ~Known(k)
  <2>1. limit \in Nat \ {0} /\ now \in Nat
    BY LimitAssumption
  <2>2. limit * Minute \in Nat /\ (now - now) * limit = 0
    BY <2>1, ProductNat, TimeAssumption, SMT
  <2>3. GetBucket(k, rpm) = fresh
    BY <1>2 DEF GetBucket, NewBucket
  <2> HIDE DEF limit
  <2> QED
    BY <1>2, <2>1, <2>2, <2>3, SMT DEF Sound, Bucket, Level, LevelAt
<1> QED
  BY <1>1, <1>2

LEMMA WriteFacts ==
    ASSUME NEW k, NEW v, buckets' = Put(buckets, k, v)
    PROVE  Known(k)' /\ buckets'[k] = v
  BY DEF Put, Known

-----------------------------------------------------------------------------
(* The usage tracker.                                                       *)

Days == [prompt : Nat, completion : Nat, total : Nat, requests : Nat]

(* The types of the tracker's state, for given ids, users and models.         *)
TrackerOK(ids, users, mods) ==
    /\ clock \in Nat
    /\ records \in Seq([id : ids, user : users, model : mods, prompt : Nat,
                        completion : Nat, created_at : 0..clock])
    /\ DOMAIN daily_totals \subseteq users \X (0..Today)
    /\ \A key \in DOMAIN daily_totals : daily_totals[key] \in Days

(* Days are natural numbers and never run backwards.                          *)
LEMMA DayFacts ==
    ASSUME NEW a \in Nat, NEW b \in Nat, a <= b
    PROVE  /\ a \div DayTicks \in Nat
           /\ a \div DayTicks <= b \div DayTicks
<1> DEFINE p == a \div DayTicks
           q == b \div DayTicks
<1>1. p \in Nat /\ p * DayTicks <= a /\ a < (p + 1) * DayTicks
  BY CalendarAssumption, SMT
<1>2. q \in Nat /\ q * DayTicks <= b /\ b < (q + 1) * DayTicks
  BY CalendarAssumption, SMT
<1> HIDE DEF p, q
<1>3. p * DayTicks < (q + 1) * DayTicks
  BY <1>1, <1>2, CalendarAssumption, SMT
<1>4. p < q + 1
  <2> SUFFICES ASSUME p >= q + 1 PROVE FALSE
    BY <1>1, <1>2
  <2>1. p * DayTicks >= (q + 1) * DayTicks
    BY <1>1, <1>2, CalendarAssumption, SMT
  <2> QED
    BY <1>1, <1>2, <1>3, <2>1, CalendarAssumption, SMT
<1> QED
  BY <1>1, <1>2, <1>4, SMT DEF p, q

LEMMA TodayFacts ==
    ASSUME clock \in Nat
    PROVE  Today \in Nat
  BY DayFacts DEF Today

(* What one addition makes of a day.                                         *)
LEMMA AddedFacts ==
    ASSUME NEW d \in Days, NEW prompt \in Nat, NEW completion \in Nat
    PROVE  /\ Added(d, prompt, completion) \in Days
           /\ Added(d, prompt, completion).total = d.total + prompt + completion
  BY DEF Days, Added

LEMMA DailyTyped ==
    ASSUME NEW key, key \in DOMAIN daily_totals => daily_totals[key] \in Days
    PROVE  Lookup(daily_totals, key, Zero) \in Days
  BY DEF Lookup, Days, Zero

(* Billing writes the user's entry of today and no other.                     *)
LEMMA BillFacts ==
    ASSUME NEW user, NEW day, NEW prompt, NEW completion, BillDay(user, day, prompt, completion)
    PROVE  /\ DOMAIN daily_totals' = DOMAIN daily_totals \cup {<<user, day>>}
           /\ daily_totals'[<<user, day>>] =
                Added(Lookup(daily_totals, <<user, day>>, Zero), prompt, completion)
           /\ \A key \in DOMAIN daily_totals :
                 key # <<user, day>> => daily_totals'[key] = daily_totals[key]
  BY DEF BillDay, Put

LEMMA RecordTyped ==
    ASSUME NEW ids, NEW users, NEW mods, TrackerOK(ids, users, mods),
           NEW id \in ids, NEW user \in users, NEW model \in mods,
           NEW prompt \in Nat, NEW completion \in Nat,
           RecordUsage(id, user, model, prompt, completion)
    PROVE  TrackerOK(ids, users, mods)'
<1> DEFINE R == [id : ids, user : users, model : mods, prompt : Nat,
                 completion : Nat, created_at : 0..clock]
<1>1. clock' = clock /\ clock \in Nat /\ Today' = Today /\ Today \in Nat
  BY TodayFacts DEF RecordUsage, TrackerOK, Today
<1>2. records' \in Seq(R)
  <2>1. Entry(id, user, model, prompt, completion) \in R
    BY <1>1 DEF Entry
  <2>2. records' = Append(records, Entry(id, user, model, prompt, completion)) /\ records \in Seq(R)
    BY DEF RecordUsage, TrackerOK
  <2> HIDE DEF R
  <2> QED
    BY <2>1, <2>2
<1>3. /\ DOMAIN daily_totals' = DOMAIN daily_totals \cup {<<user, Today>>}
      /\ daily_totals'[<<user, Today>>] =
            Added(Lookup(daily_totals, <<user, Today>>, Zero), prompt, completion)
      /\ \A key \in DOMAIN daily_totals :
            key # <<user, Today>> => daily_totals'[key] = daily_totals[key]
  <2>1. BillDay(user, Today, prompt, completion)
    BY DEF RecordUsage
  <2> QED
    BY <2>1, BillFacts
<1>4. Lookup(daily_totals, <<user, Today>>, Zero) \in Days
  BY DailyTyped DEF TrackerOK
<1>5. daily_totals'[<<user, Today>>] \in Days
  BY <1>3, <1>4, AddedFacts
<1>6. \A key \in DOMAIN daily_totals' : daily_totals'[key] \in Days
  BY <1>3, <1>5 DEF TrackerOK
<1>7. DOMAIN daily_totals' \subseteq users \X (0..Today')
  BY <1>1, <1>3 DEF TrackerOK
<1> QED
  BY <1>1, <1>2, <1>6, <1>7 DEF TrackerOK

LEMMA ClockTyped ==
    ASSUME NEW ids, NEW users, NEW mods, TrackerOK(ids, users, mods), ClockTick
    PROVE  TrackerOK(ids, users, mods)' /\ Today <= Today'
<1> DEFINE R(t) == [id : ids, user : users, model : mods, prompt : Nat,
                    completion : Nat, created_at : 0..t]
<1>1. /\ clock' = clock + 1 /\ clock \in Nat
      /\ records' = records /\ daily_totals' = daily_totals
  BY DEF ClockTick, TrackerOK
<1>2. Today \in Nat /\ Today' \in Nat /\ Today <= Today'
  <2>1. clock + 1 \in Nat /\ clock <= clock + 1
    BY <1>1
  <2> QED
    BY <1>1, <2>1, DayFacts DEF Today
<1>3. records \in Seq(R(clock + 1))
  <2>1. R(clock) \subseteq R(clock + 1)
    BY <1>1
  <2>2. records \in Seq(R(clock))
    BY DEF TrackerOK
  <2> HIDE DEF R
  <2> QED
    BY <2>1, <2>2, SeqMonotonic
<1>4. DOMAIN daily_totals \subseteq users \X (0..Today')
  BY <1>2 DEF TrackerOK
<1> QED
  BY <1>1, <1>2, <1>3, <1>4 DEF TrackerOK

LEMMA TrackerFrame ==
    ASSUME NEW ids, NEW users, NEW mods, TrackerOK(ids, users, mods), UNCHANGED usageVars
    PROVE  TrackerOK(ids, users, mods)' /\ Today' = Today
  BY DEF TrackerOK, usageVars, Today

LEMMA TrackerStarts ==
    ASSUME NEW ids, NEW users, NEW mods, UsageInit
    PROVE  TrackerOK(ids, users, mods)
  BY EmptySeq DEF TrackerOK, UsageInit, Empty

=============================================================================
