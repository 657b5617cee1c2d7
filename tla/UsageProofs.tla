---------------------------- MODULE UsageProofs ----------------------------
(***************************************************************************)
(* Machine-checked proofs about UsageHistory, for any users, models, amounts, *)
(* quotas, length of the day and bound on the clock.                        *)
(*                                                                          *)
(* Type correctness is the invariant the action properties need: totals are   *)
(* natural numbers, and exist only for days that have begun.                 *)
(***************************************************************************)
EXTENDS UsageHistory, ServiceLemmas, DataLemmas, TLAPS

Inv ==
    /\ TrackerOK(Nat, Users, Models)
    /\ "done" \in DOMAIN reader /\ reader.done \in BOOLEAN

LEMMA InvTyped == Inv => TypeOK
  BY DEF Inv, TypeOK, TrackerOK, Days

LEMMA Initially == Init => Inv
<1> SUFFICES ASSUME Init PROVE Inv
  OBVIOUS
<1>1. TrackerOK(Nat, Users, Models)
  BY TrackerStarts DEF Init
<1> QED
  BY <1>1 DEF Init, Inv, Idle

LEMMA RecordStep ==
    ASSUME Inv, Record
    PROVE  Inv'
<1>1. PICK user \in Users, model \in Models, prompt \in Amounts, completion \in Amounts :
         RecordUsage(Len(records) + 1, user, model, prompt, completion)
  BY DEF Record
<1>2. Len(records) + 1 \in Nat
  BY LenProperties DEF Inv, TrackerOK
<1>3. prompt \in Nat /\ completion \in Nat
  BY UsageAssumption
<1>4. TrackerOK(Nat, Users, Models)'
  BY <1>1, <1>2, <1>3, RecordTyped DEF Inv
<1> QED
  BY <1>4 DEF Record, Inv

LEMMA Stepwise == Inv /\ [Next]_vars => Inv'
<1> SUFFICES ASSUME Inv, [Next]_vars PROVE Inv'
  OBVIOUS
<1>1. CASE Record
  BY <1>1, RecordStep
<1>2. ASSUME NEW user \in Users, StartReading(user)
      PROVE  Inv'
  BY <1>2, TrackerFrame DEF StartReading, Inv
<1>3. CASE ReadPage
  BY <1>3, TrackerFrame DEF ReadPage, Inv
<1>4. CASE ClockTick /\ UNCHANGED reader
  BY <1>4, ClockTyped DEF Inv
<1>5. CASE UNCHANGED vars
  BY <1>5, TrackerFrame DEF vars, Inv
<1> QED
  BY <1>1, <1>2, <1>3, <1>4, <1>5 DEF Next

LEMMA Always == Spec => []Inv
  BY Initially, Stepwise, PTL DEF Spec

(* Every state UsageHistory reaches is well typed: records carry times that    *)
(* have come, and totals exist only for days that began.                     *)
THEOREM UsageTypeCorrect == Spec => []TypeOK
  BY Always, InvTyped, PTL

-----------------------------------------------------------------------------
(* What one step may do to the figures of a user and a day.                  *)

LEMMA DailyStep ==
    ASSUME Inv, [Next]_vars, NEW user, NEW day
    PROVE  \/ DailyUsage(user, day)' = DailyUsage(user, day)
           \/ /\ day = Today
              /\ \E prompt, completion \in Nat :
                    DailyUsage(user, day)' = Added(DailyUsage(user, day), prompt, completion)
<1>1. CASE Record
  <2>1. PICK u \in Users, model \in Models, prompt \in Amounts, completion \in Amounts :
           RecordUsage(Len(records) + 1, u, model, prompt, completion)
    BY <1>1 DEF Record
  <2>2. prompt \in Nat /\ completion \in Nat
    BY UsageAssumption
  <2>3. BillDay(u, Today, prompt, completion)
    BY <2>1 DEF RecordUsage
  <2>4. /\ DOMAIN daily_totals' = DOMAIN daily_totals \cup {<<u, Today>>}
        /\ daily_totals'[<<u, Today>>] =
              Added(Lookup(daily_totals, <<u, Today>>, Zero), prompt, completion)
        /\ \A key \in DOMAIN daily_totals :
              key # <<u, Today>> => daily_totals'[key] = daily_totals[key]
    BY <2>3, BillFacts
  <2>5. CASE <<user, day>> = <<u, Today>>
    <3>1. DailyUsage(user, day)' = Added(DailyUsage(user, day), prompt, completion)
      BY <2>4, <2>5 DEF DailyUsage, Lookup
    <3> QED
      BY <2>2, <2>5, <3>1
  <2>6. CASE <<user, day>> # <<u, Today>>
    BY <2>4, <2>6 DEF DailyUsage, Lookup
  <2> QED
    BY <2>5, <2>6
<1>2. CASE UNCHANGED daily_totals
  BY <1>2 DEF DailyUsage
<1> QED
  BY <1>1, <1>2 DEF Next, StartReading, ReadPage, ClockTick, vars, usageVars

(* record_usage, whenever it runs, changes no day but the current one: a        *)
(* closed day is billed for ever as it was at midnight.                      *)
THEOREM ClosedDaysStayFrozen == Spec => ClosedDaysFrozen
<1>1. Inv /\ [Next]_vars =>
        [\A user \in Users, day \in 0..Today :
            day < Today => DailyUsage(user, day)' = DailyUsage(user, day)]_vars
  <2> SUFFICES ASSUME Inv, [Next]_vars, NEW user \in Users, NEW day \in 0..Today, day < Today
               PROVE  DailyUsage(user, day)' = DailyUsage(user, day)
    OBVIOUS
  <2>1. Today \in Nat
    BY TodayFacts DEF Inv, TrackerOK
  <2>2. day # Today
    BY <2>1
  <2> QED
    BY <2>2, DailyStep
<1> QED
  BY <1>1, Always, PTL DEF Spec, ClosedDaysFrozen

(* check_quota, having refused a user a quota, refuses it until midnight,      *)
(* whatever is recorded meanwhile.                                          *)
THEOREM QuotaStaysLatched == Spec => QuotaLatched
<1>1. Inv /\ [Next]_vars =>
        [\A user \in Users, limit \in Quotas :
            ~WithinQuota(user, limit) => ~WithinQuota(user, limit)' \/ Today' > Today]_vars
  <2> SUFFICES ASSUME Inv, [Next]_vars, NEW user \in Users, NEW limit \in Quotas,
                      ~WithinQuota(user, limit), ~(Today' > Today)
               PROVE  ~WithinQuota(user, limit)'
    OBVIOUS
  <2>1. Today' = Today
    <3>1. CASE ClockTick
      <4>1. Today <= Today' /\ Today \in Nat /\ Today' \in Nat
        <5>1. clock \in Nat /\ clock' = clock + 1
          BY <3>1 DEF ClockTick, Inv, TrackerOK
        <5>2. clock' \in Nat /\ clock <= clock'
          BY <5>1
        <5> QED
          BY <5>1, <5>2, DayFacts DEF Today
      <4> QED
        BY <4>1
    <3>2. CASE UNCHANGED clock
      BY <3>2 DEF Today
    <3> QED
      BY <3>1, <3>2 DEF Next, Record, RecordUsage, StartReading, ReadPage, vars, usageVars
  <2>2. DailyUsage(user, Today) \in Days
    BY DailyTyped DEF DailyUsage, Inv, TrackerOK
  <2>3. limit \in Nat /\ DailyUsage(user, Today).total \in Nat
    BY <2>2, UsageAssumption DEF Days
  <2>4. DailyUsage(user, Today).total >= limit
    BY <2>3 DEF WithinQuota
  <2>5. PICK day : day = Today
    OBVIOUS
  <2>6. DailyUsage(user, day)' = DailyUsage(user, Today)'
    BY <2>1, <2>5 DEF DailyUsage
  <2>7. \/ DailyUsage(user, day)' = DailyUsage(user, day)
        \/ \E prompt, completion \in Nat :
              DailyUsage(user, day)' = Added(DailyUsage(user, day), prompt, completion)
    BY DailyStep
  <2>8. /\ DailyUsage(user, day)'.total >= DailyUsage(user, Today).total
        /\ DailyUsage(user, day)'.total \in Int
    <3>1. CASE DailyUsage(user, day)' = DailyUsage(user, day)
      BY <2>3, <2>5, <3>1
    <3>2. ASSUME NEW prompt \in Nat, NEW completion \in Nat,
                 DailyUsage(user, day)' = Added(DailyUsage(user, day), prompt, completion)
          PROVE  /\ DailyUsage(user, day)'.total >= DailyUsage(user, Today).total
                 /\ DailyUsage(user, day)'.total \in Int
      <4> DEFINE d == DailyUsage(user, Today)
      <4>1. DailyUsage(user, day)' = Added(d, prompt, completion)
        BY <2>5, <3>2
      <4>2. Added(d, prompt, completion).total = d.total + prompt + completion
        BY <2>2, AddedFacts
      <4> HIDE DEF d
      <4> QED
        BY <2>3, <4>1, <4>2 DEF d
    <3> QED
      BY <2>7, <3>1, <3>2
  <2> QED
    BY <2>3, <2>4, <2>6, <2>8 DEF WithinQuota
<1> QED
  BY <1>1, Always, PTL DEF Spec, QuotaLatched

-----------------------------------------------------------------------------
(* The totals are the sums of the records.                                   *)

RecordsOf(user, day) ==
    {i \in DOMAIN records : /\ records[i].user = user
                            /\ records[i].created_at \div DayTicks = day}

(* The sum of what a user's records of a day hold, for one figure of each.     *)
Prompts(mine) == [i \in mine |-> records[i].prompt]
Completions(mine) == [i \in mine |-> records[i].completion]
Tokens(mine) == [i \in mine |-> records[i].prompt + records[i].completion]

Sums3(mine) ==
    [prompt     |-> SumFunction(Prompts(mine)),
     completion |-> SumFunction(Completions(mine)),
     total      |-> SumFunction(Tokens(mine)),
     requests   |-> Cardinality(mine)]

LEMMA TotalsRead ==
    /\ TotalsMatchRecords <=>
          \A user \in Users, day \in 0..Today :
             DailyUsage(user, day) = Sums3(RecordsOf(user, day))
    /\ TotalsMatchRecords' <=>
          \A user \in Users, day \in 0..Today' :
             DailyUsage(user, day)' = Sums3(RecordsOf(user, day))'
  BY DEF TotalsMatchRecords, Sums3, RecordsOf, Prompts, Completions, Tokens

(* What is known of a record.                                               *)
LEMMA RecordsTyped ==
    ASSUME Inv
    PROVE  /\ records \in Seq([id : Nat, user : Users, model : Models, prompt : Nat,
                               completion : Nat, created_at : 0..clock])
           /\ Len(records) \in Nat /\ DOMAIN records = 1..Len(records)
           /\ \A i \in DOMAIN records :
                 /\ records[i].prompt \in Nat /\ records[i].completion \in Nat
                 /\ records[i].created_at \in 0..clock
<1> DEFINE R == [id : Nat, user : Users, model : Models, prompt : Nat,
                 completion : Nat, created_at : 0..clock]
<1>1. records \in Seq(R)
  BY DEF Inv, TrackerOK
<1>2. Len(records) \in Nat /\ DOMAIN records = 1..Len(records)
      /\ \A i \in DOMAIN records : records[i] \in R
  <2> HIDE DEF R
  <2> QED
    BY <1>1, LenProperties, ElementOfSeq
<1> QED
  BY <1>1, <1>2

(* A set of records is finite, and its figures are natural numbers.           *)
LEMMA Sums3Typed ==
    ASSUME Inv, NEW mine, mine \subseteq DOMAIN records
    PROVE  IsFiniteSet(mine) /\ Sums3(mine) \in Days
<1>1. IsFiniteSet(mine)
  <2>1. IsFiniteSet(1..Len(records)) /\ mine \subseteq 1..Len(records)
    BY RecordsTyped, FS_Interval
  <2> QED
    BY <2>1, FS_Subset
<1>2. \A i \in mine : /\ Prompts(mine)[i] \in Nat /\ Completions(mine)[i] \in Nat
                       /\ Tokens(mine)[i] \in Nat
  <2>1. \A i \in mine : records[i].prompt \in Nat /\ records[i].completion \in Nat
    BY RecordsTyped
  <2> QED
    BY <2>1 DEF Prompts, Completions, Tokens
<1>3. /\ DOMAIN Prompts(mine) = mine /\ DOMAIN Completions(mine) = mine
      /\ DOMAIN Tokens(mine) = mine
  BY DEF Prompts, Completions, Tokens
<1>4. /\ SumFunction(Prompts(mine)) \in Nat /\ SumFunction(Completions(mine)) \in Nat
      /\ SumFunction(Tokens(mine)) \in Nat
  BY <1>1, <1>2, <1>3, TotalTyped
<1> QED
  BY <1>1, <1>4, FS_CardinalityType DEF Sums3, Days

LEMMA Appended ==
    ASSUME Inv, NEW e, records' = Append(records, e)
    PROVE  /\ DOMAIN records' = DOMAIN records \cup {Len(records) + 1}
           /\ Len(records) + 1 \notin DOMAIN records
           /\ records'[Len(records) + 1] = e
           /\ \A i \in DOMAIN records : records'[i] = records[i]
  BY RecordsTyped

LEMMA FigureGrows ==
    ASSUME NEW S, IsFiniteSet(S), NEW n, n \notin S,
           NEW f, NEW h, DOMAIN f = S, DOMAIN h = S \cup {n}, h[n] \in Nat,
           \A i \in S : h[i] = f[i] /\ f[i] \in Nat
    PROVE  SumFunction(h) = SumFunction(f) + h[n]
<1>1. \A y \in DOMAIN h : h[y] \in Int
  OBVIOUS
<1> QED
  BY <1>1, TotalGrows

(* One more record adds its own figures, and no others.                       *)
LEMMA Sums3Grows ==
    ASSUME Inv, NEW mine, mine \subseteq DOMAIN records, NEW prompt \in Nat,
           NEW completion \in Nat, NEW id, NEW user, NEW model, NEW n, n \notin DOMAIN records,
           records'[n] = Entry(id, user, model, prompt, completion),
           \A i \in DOMAIN records : records'[i] = records[i]
    PROVE  /\ Sums3(mine)' = Sums3(mine)
           /\ Sums3(mine \cup {n})' = Added(Sums3(mine), prompt, completion)
<1> DEFINE all == mine \cup {n}
<1>1. /\ IsFiniteSet(mine) /\ n \notin mine /\ Sums3(mine) \in Days
      /\ records'[n].prompt = prompt /\ records'[n].completion = completion
      /\ \A i \in mine : records'[i] = records[i]
  BY Sums3Typed DEF Entry
<1>2. \A i \in mine : records[i].prompt \in Nat /\ records[i].completion \in Nat
  BY RecordsTyped
<1>3. Sums3(mine)' = Sums3(mine)
  BY <1>1 DEF Sums3, Prompts, Completions, Tokens
<1>4. SumFunction(Prompts(all)') = SumFunction(Prompts(mine)) + prompt
  <2>1. PICK f, h : f = Prompts(mine) /\ h = Prompts(all)'
    OBVIOUS
  <2>2. /\ IsFiniteSet(mine) /\ n \notin mine
        /\ DOMAIN f = mine /\ DOMAIN h = mine \cup {n} /\ h[n] \in Nat
        /\ \A i \in mine : h[i] = f[i] /\ f[i] \in Nat
    BY <1>1, <1>2, <2>1 DEF Prompts
  <2>3. h[n] = prompt
    BY <1>1, <2>1 DEF Prompts
  <2>4. SumFunction(h) = SumFunction(f) + h[n]
    BY <2>2, FigureGrows
  <2> QED
    BY <2>1, <2>3, <2>4
<1>5. SumFunction(Completions(all)') = SumFunction(Completions(mine)) + completion
  <2>1. PICK f, h : f = Completions(mine) /\ h = Completions(all)'
    OBVIOUS
  <2>2. /\ IsFiniteSet(mine) /\ n \notin mine
        /\ DOMAIN f = mine /\ DOMAIN h = mine \cup {n} /\ h[n] \in Nat
        /\ \A i \in mine : h[i] = f[i] /\ f[i] \in Nat
    BY <1>1, <1>2, <2>1 DEF Completions
  <2>3. h[n] = completion
    BY <1>1, <2>1 DEF Completions
  <2>4. SumFunction(h) = SumFunction(f) + h[n]
    BY <2>2, FigureGrows
  <2> QED
    BY <2>1, <2>3, <2>4
<1>6. SumFunction(Tokens(all)') = SumFunction(Tokens(mine)) + (prompt + completion)
  <2>1. PICK f, h : f = Tokens(mine) /\ h = Tokens(all)'
    OBVIOUS
  <2>2. /\ IsFiniteSet(mine) /\ n \notin mine
        /\ DOMAIN f = mine /\ DOMAIN h = mine \cup {n} /\ h[n] \in Nat
        /\ \A i \in mine : h[i] = f[i] /\ f[i] \in Nat
    BY <1>1, <1>2, <2>1 DEF Tokens
  <2>3. h[n] = prompt + completion
    BY <1>1, <2>1 DEF Tokens
  <2>4. SumFunction(h) = SumFunction(f) + h[n]
    BY <2>2, FigureGrows
  <2> QED
    BY <2>1, <2>3, <2>4
<1>7. Cardinality(all) = Cardinality(mine) + 1
  BY <1>1, FS_AddElement
<1>8. Sums3(all)' = Added(Sums3(mine), prompt, completion)
  BY <1>1, <1>4, <1>5, <1>6, <1>7 DEF Sums3, Added, Days
<1> QED
  BY <1>3, <1>8

LEMMA RecordSums ==
    ASSUME Inv, TotalsMatchRecords, Record
    PROVE  TotalsMatchRecords'
<1>1. PICK u \in Users, model \in Models, prompt \in Amounts, completion \in Amounts :
         RecordUsage(Len(records) + 1, u, model, prompt, completion)
  BY DEF Record
<1>2. PICK n, today : n = Len(records) + 1 /\ today = Today
  OBVIOUS
<1>3. /\ prompt \in Nat /\ completion \in Nat /\ Today' = today /\ today \in Nat
      /\ records' = Append(records, Entry(n, u, model, prompt, completion))
  BY <1>1, <1>2, UsageAssumption, TodayFacts DEF RecordUsage, Today, Inv, TrackerOK
<1>4. /\ DOMAIN daily_totals' = DOMAIN daily_totals \cup {<<u, today>>}
      /\ daily_totals'[<<u, today>>] =
            Added(Lookup(daily_totals, <<u, today>>, Zero), prompt, completion)
      /\ \A key \in DOMAIN daily_totals :
            key # <<u, today>> => daily_totals'[key] = daily_totals[key]
  <2>1. BillDay(u, today, prompt, completion)
    BY <1>1, <1>2 DEF RecordUsage
  <2> QED
    BY <2>1, BillFacts
<1>5. /\ DOMAIN records' = DOMAIN records \cup {n} /\ n \notin DOMAIN records
      /\ records'[n] = Entry(n, u, model, prompt, completion)
      /\ records'[n].user = u /\ records'[n].created_at \div DayTicks = today
      /\ \A i \in DOMAIN records : records'[i] = records[i]
  BY <1>2, <1>3, Appended DEF Entry, Today
<1> SUFFICES ASSUME NEW user \in Users, NEW day \in 0..today
             PROVE  DailyUsage(user, day)' = Sums3(RecordsOf(user, day))'
  BY <1>3, TotalsRead
<1>6. PICK mine : mine = RecordsOf(user, day) /\ mine \subseteq DOMAIN records
  BY DEF RecordsOf
<1>7. DailyUsage(user, day) = Sums3(mine)
  BY <1>2, <1>6, TotalsRead
<1>8. /\ Sums3(mine)' = Sums3(mine)
       /\ Sums3(mine \cup {n})' = Added(Sums3(mine), prompt, completion)
  BY <1>3, <1>5, <1>6, Sums3Grows
<1>9. CASE <<user, day>> = <<u, today>>
  <2>1. RecordsOf(user, day)' = mine \cup {n}
    BY <1>5, <1>6, <1>9 DEF RecordsOf
  <2>2. DailyUsage(user, day)' = Added(DailyUsage(user, day), prompt, completion)
    BY <1>4, <1>9 DEF DailyUsage, Lookup
  <2> QED
    BY <1>7, <1>8, <2>1, <2>2
<1>10. CASE <<user, day>> # <<u, today>>
  <2>1. RecordsOf(user, day)' = mine
    BY <1>5, <1>6, <1>10 DEF RecordsOf
  <2>2. DailyUsage(user, day)' = DailyUsage(user, day)
    BY <1>4, <1>10 DEF DailyUsage, Lookup
  <2> QED
    BY <1>7, <1>8, <2>1, <2>2
<1> QED
  BY <1>9, <1>10

(* A day that begins has no records yet, and no totals.                       *)
LEMMA TickSums ==
    ASSUME Inv, TotalsMatchRecords, ClockTick
    PROVE  TotalsMatchRecords'
<1>1. /\ records' = records /\ daily_totals' = daily_totals
      /\ Today \in Nat /\ Today' \in Nat
  <2>1. /\ clock \in Nat /\ clock' \in Nat
        /\ records' = records /\ daily_totals' = daily_totals
    BY DEF ClockTick, Inv, TrackerOK
  <2> QED
    BY <2>1, DayFacts DEF Today
<1> SUFFICES ASSUME NEW user \in Users, NEW day \in 0..Today'
             PROVE  DailyUsage(user, day)' = Sums3(RecordsOf(user, day))'
  BY TotalsRead
<1>2. /\ DailyUsage(user, day)' = DailyUsage(user, day)
      /\ Sums3(RecordsOf(user, day))' = Sums3(RecordsOf(user, day))
  BY <1>1 DEF DailyUsage, Sums3, RecordsOf, Prompts, Completions, Tokens
<1>3. CASE day \in 0..Today
  BY <1>2, <1>3, TotalsRead
<1>4. CASE day \notin 0..Today
  <2>1. RecordsOf(user, day) = {}
    <3> SUFFICES ASSUME NEW i \in DOMAIN records
                 PROVE  records[i].created_at \div DayTicks \in 0..Today
      BY <1>4 DEF RecordsOf
    <3>1. records[i].created_at \in 0..clock /\ clock \in Nat
      BY RecordsTyped DEF Inv, TrackerOK
    <3>2. records[i].created_at \in Nat /\ records[i].created_at <= clock
      BY <3>1
    <3>3. /\ records[i].created_at \div DayTicks \in Nat
          /\ records[i].created_at \div DayTicks <= clock \div DayTicks
      BY <3>1, <3>2, DayFacts
    <3> QED
      BY <1>1, <3>3 DEF Today
  <2>2. <<user, day>> \notin DOMAIN daily_totals
    BY <1>4 DEF Inv, TrackerOK
  <2>3. DailyUsage(user, day) = Zero
    BY <2>2 DEF DailyUsage, Lookup
  <2>4. Sums3({}) = Zero
    <3>1. DOMAIN Prompts({}) = {} /\ DOMAIN Completions({}) = {} /\ DOMAIN Tokens({}) = {}
      BY DEF Prompts, Completions, Tokens
    <3> QED
      BY <3>1, TotalEmpty, FS_EmptySet DEF Sums3, Zero
  <2> QED
    BY <1>2, <2>1, <2>3, <2>4
<1> QED
  BY <1>3, <1>4

LEMMA EmptySums == Init => TotalsMatchRecords
<1> SUFFICES ASSUME Init, NEW user \in Users, NEW day \in 0..Today
             PROVE  DailyUsage(user, day) = Sums3(RecordsOf(user, day))
  BY TotalsRead
<1>1. records = <<>> /\ daily_totals = Empty
  BY DEF Init, UsageInit
<1>2. RecordsOf(user, day) = {} /\ DailyUsage(user, day) = Zero
  BY <1>1 DEF RecordsOf, DailyUsage, Lookup, Empty
<1>3. DOMAIN Prompts({}) = {} /\ DOMAIN Completions({}) = {} /\ DOMAIN Tokens({}) = {}
  BY DEF Prompts, Completions, Tokens
<1> QED
  BY <1>2, <1>3, TotalEmpty, FS_EmptySet DEF Sums3, Zero

(* record_usage keeps the running totals beside the records and never          *)
(* recomputes them; still, whoever records what, in whatever order and over    *)
(* however many midnights, they are what the records add up to.              *)
THEOREM TotalsAreSums == Spec => []TotalsMatchRecords
<1>1. Inv /\ TotalsMatchRecords /\ [Next]_vars => TotalsMatchRecords'
  <2> SUFFICES ASSUME Inv, TotalsMatchRecords, [Next]_vars PROVE TotalsMatchRecords'
    OBVIOUS
  <2>1. CASE Record
    BY <2>1, RecordSums
  <2>2. CASE ClockTick
    BY <2>2, TickSums
  <2>3. CASE UNCHANGED usageVars
    <3>1. /\ Today' = Today
          /\ \A user, day : /\ DailyUsage(user, day)' = DailyUsage(user, day)
                            /\ Sums3(RecordsOf(user, day))' = Sums3(RecordsOf(user, day))
      BY <2>3 DEF DailyUsage, Today, usageVars, Sums3, RecordsOf, Prompts, Completions, Tokens
    <3> QED
      BY <3>1, TotalsRead
  <2> QED
    BY <2>1, <2>2, <2>3 DEF Next, StartReading, ReadPage, vars
<1> QED
  BY <1>1, EmptySums, Always, PTL DEF Spec

-----------------------------------------------------------------------------
(* Paging.  The place of a record in the sorted list is its rank: how many of   *)
(* the user's records come ahead of it.  New records come ahead of older ones  *)
(* or after those of the same time, so a rank never falls, and what a page      *)
(* leaves out is beyond it for good.                                        *)

RankOf(i) == Rank(Mine(reader.user), Newer, i)

ReaderOK ==
    reader \in [user : Users \cup {"nobody"}, offset : Nat, seen : SUBSET Nat,
                owed : SUBSET Nat, done : BOOLEAN]

Numbered == \A i \in DOMAIN records : records[i].id = i

StillAhead ==
    IF reader.done THEN reader.owed \subseteq reader.seen
    ELSE \A i \in reader.owed \ reader.seen :
            i \in Mine(reader.user) /\ reader.offset <= RankOf(i)

PagingInv == Inv /\ ReaderOK /\ Numbered /\ StillAhead

LEMMA MineFacts ==
    ASSUME Inv, NEW user
    PROVE  /\ Mine(user) \subseteq DOMAIN records /\ IsFiniteSet(Mine(user))
           /\ StrictOrder(Mine(user), Newer)
<1>1. Mine(user) \subseteq DOMAIN records
  BY DEF Mine
<1>2. IsFiniteSet(Mine(user))
  <2>1. IsFiniteSet(1..Len(records)) /\ Mine(user) \in SUBSET (1..Len(records))
    BY <1>1, RecordsTyped, FS_Interval
  <2> QED
    BY <2>1, FS_Subset
<1>3. \A i \in DOMAIN records : i \in Nat /\ records[i].created_at \in Nat
  BY RecordsTyped DEF Inv, TrackerOK
<1>4. \A i, j \in Mine(user) :
         <<i, j>> \in Newer <=> \/ records[i].created_at > records[j].created_at
                                \/ (records[i].created_at = records[j].created_at /\ i < j)
  BY <1>1 DEF Newer
<1>5. StrictOrder(Mine(user), Newer)
  <2> DEFINE at(i) == records[i].created_at
             S == Mine(user)
  <2>1. \A i \in S : i \in Nat /\ at(i) \in Nat
    BY <1>1, <1>3
  <2>2. \A i, j \in S : <<i, j>> \in Newer <=> (at(i) > at(j) \/ (at(i) = at(j) /\ i < j))
    BY <1>4
  <2> HIDE DEF at, S
  <2>3. StrictOrder(S, Newer)
    BY <2>1, <2>2 DEF StrictOrder
  <2> QED
    BY <2>3 DEF S
<1> QED
  BY <1>1, <1>2, <1>5

(* What get_user_records returns, in terms of ranks.                          *)
LEMMA PageFacts ==
    ASSUME Inv, Numbered, NEW user, NEW offset \in Nat
    PROVE  LET page == Page(user, PageSize, offset) IN
           /\ \A i \in Mine(user) :
                 /\ offset <= Rank(Mine(user), Newer, i)
                 /\ Rank(Mine(user), Newer, i) < offset + PageSize
                 => i \in Ids(page)
           /\ Len(page) < PageSize =>
                 \A i \in Mine(user) : Rank(Mine(user), Newer, i) < offset + PageSize
           /\ Ids(page) \subseteq Nat
<1> DEFINE S == Mine(user)
           n == Cardinality(S)
           f == InOrder(S, Newer)
           sorted == [k \in DOMAIN f |-> records[f[k]]]
           b == IF offset + PageSize < n THEN offset + PageSize ELSE n
           page == SubSeq(sorted, offset + 1, b)
<1>1. n \in Nat /\ f \in [1..n -> S] /\ S \subseteq DOMAIN records
  <2>1. IsFiniteSet(S) /\ StrictOrder(S, Newer) /\ S \subseteq DOMAIN records
    BY MineFacts
  <2>2. Arranged(f, S, Newer)
    BY <2>1, InOrderArranged
  <2>3. n \in Nat
    BY <2>1, FS_CardinalityType
  <2> QED
    BY <2>1, <2>2, <2>3 DEF Arranged
<1>2. b \in Nat /\ PageSize \in Nat
  BY <1>1, UsageAssumption
<1>3. /\ (offset + 1)..b \subseteq 1..n
      /\ \A i \in S : /\ offset <= Rank(S, Newer, i)
                      /\ Rank(S, Newer, i) < offset + PageSize
                      => \E k \in (offset + 1)..b : f[k] = i
      /\ b - offset < PageSize => \A i \in S : Rank(S, Newer, i) < offset + PageSize
  <2>1. IsFiniteSet(S) /\ StrictOrder(S, Newer) /\ Arranged(f, S, Newer)
    BY MineFacts, InOrderArranged
  <2>2. b <= Cardinality(S) /\ b <= offset + PageSize
        /\ b \in {Cardinality(S), offset + PageSize}
    BY <1>1, <1>2
  <2>3. n = Cardinality(S)
    OBVIOUS
  <2> HIDE DEF S, f, b, n
  <2>4. /\ (offset + 1)..b \subseteq 1..Cardinality(S)
        /\ \A i \in S : /\ offset <= Rank(S, Newer, i)
                        /\ Rank(S, Newer, i) < offset + PageSize
                        => \E k \in (offset + 1)..b : f[k] = i
        /\ b - offset < PageSize => \A i \in S : Rank(S, Newer, i) < offset + PageSize
    <3>1. offset <= offset /\ (offset <= Cardinality(S) => offset = offset)
      OBVIOUS
    <3> QED
      BY <1>2, <2>1, <2>2, <3>1, SliceFacts
  <2> QED
    BY <2>3, <2>4
<1>4. Len(sorted) = n /\ \A k \in 1..n : sorted[k] = records[f[k]]
  BY <1>1
<1>5. Page(user, PageSize, offset) = page
  BY <1>4 DEF Page, NewestFirst
<1> HIDE DEF S, n, f, b
<1>6. /\ Len(page) = IF offset + 1 <= b THEN b - offset ELSE 0
      /\ DOMAIN page = 1..Len(page)
      /\ \A i \in 1..(b - offset) : page[i] = sorted[offset + i]
  BY <1>1, <1>2, <1>3, <1>4
<1>7. \A k \in (offset + 1)..b : sorted[k].id = f[k] /\ f[k] \in Nat
  <2> SUFFICES ASSUME NEW k \in (offset + 1)..b
               PROVE  sorted[k].id = f[k] /\ f[k] \in Nat
    OBVIOUS
  <2>1. k \in 1..n
    BY <1>3
  <2>2. f[k] \in DOMAIN records /\ sorted[k] = records[f[k]]
    BY <1>1, <1>4, <2>1
  <2>3. DOMAIN records \subseteq Nat /\ \A i \in DOMAIN records : records[i].id = i
    <3>1. \A i \in DOMAIN records : records[i].id = i
      BY DEF Numbered
    <3> QED
      BY <3>1, RecordsTyped
  <2> HIDE DEF sorted
  <2> QED
    BY <2>2, <2>3
<1> HIDE DEF sorted, page
<1>8. \A k \in (offset + 1)..b : f[k] \in Ids(page)
  <2> SUFFICES ASSUME NEW k \in (offset + 1)..b PROVE f[k] \in Ids(page)
    OBVIOUS
  <2>1. PICK i \in 1..(b - offset) : k = offset + i
    BY <1>2
  <2>2. i \in DOMAIN page /\ page[i].id = f[k]
    BY <1>2, <1>6, <1>7, <2>1
  <2> QED
    BY <2>2 DEF Ids
<1>9. Ids(page) \subseteq Nat
  <2> SUFFICES ASSUME NEW i \in DOMAIN page PROVE page[i].id \in Nat
    BY DEF Ids
  <2>1. i \in 1..(b - offset) /\ offset + i \in (offset + 1)..b
    BY <1>2, <1>6
  <2> QED
    BY <1>6, <1>7, <2>1
<1>10. Len(page) < PageSize => b - offset < PageSize
  BY <1>2, <1>6, UsageAssumption
<1> QED
  BY <1>3, <1>5, <1>8, <1>9, <1>10 DEF S

LEMMA MineGrows ==
    ASSUME Inv, Record, NEW user
    PROVE  /\ Mine(user) \subseteq Mine(user)' /\ Newer \subseteq Newer'
           /\ IsFiniteSet(Mine(user)')
<1>1. PICK e : records' = Append(records, e)
  BY DEF Record, RecordUsage
<1>2. /\ DOMAIN records' = DOMAIN records \cup {Len(records) + 1}
      /\ \A j \in DOMAIN records : records'[j] = records[j]
  BY <1>1, Appended
<1>3. Mine(user)' \in SUBSET (1..(Len(records) + 1)) /\ IsFiniteSet(1..(Len(records) + 1))
  <2>1. Len(records) \in Nat /\ DOMAIN records = 1..Len(records)
    BY RecordsTyped
  <2>2. Mine(user)' \subseteq DOMAIN records'
    BY DEF Mine
  <2>3. DOMAIN records \cup {Len(records) + 1} = 1..(Len(records) + 1)
    BY <2>1
  <2> QED
    BY <1>2, <2>1, <2>2, <2>3, FS_Interval
<1> QED
  BY <1>2, <1>3, FS_Subset DEF Mine, Newer

(* A record that is added leaves every older one at its rank or beyond.       *)
LEMMA RanksNeverFall ==
    ASSUME Inv, Record, NEW user, NEW i \in Mine(user)
    PROVE  /\ i \in Mine(user)'
           /\ Rank(Mine(user), Newer, i) <= Rank(Mine(user)', Newer', i)
<1>1. Ahead(Mine(user), Newer, i) \subseteq Ahead(Mine(user)', Newer', i)
  BY MineGrows DEF Ahead
<1>2. IsFiniteSet(Mine(user)) /\ IsFiniteSet(Mine(user)')
  BY MineFacts, MineGrows
<1> QED
  BY <1>1, <1>2, MineGrows, RankGrows

LEMMA RecordKeepsPaging == PagingInv /\ Record => PagingInv'
<1> SUFFICES ASSUME PagingInv, Record PROVE PagingInv'
  OBVIOUS
<1>1. Inv /\ Inv' /\ UNCHANGED reader
  BY RecordStep DEF PagingInv, Record
<1>2. Numbered'
  <2>1. PICK e : records' = Append(records, e) /\ e.id = Len(records) + 1
    BY DEF Record, RecordUsage, Entry
  <2>2. /\ DOMAIN records' = DOMAIN records \cup {Len(records) + 1}
        /\ records'[Len(records) + 1] = e
        /\ \A i \in DOMAIN records : records'[i] = records[i]
    BY <1>1, <2>1, Appended
  <2> QED
    BY <2>1, <2>2 DEF PagingInv, Numbered
<1>3. StillAhead'
  <2>1. CASE reader.done
    BY <1>1, <2>1 DEF PagingInv, StillAhead
  <2>2. CASE ~reader.done
    <3> SUFFICES ASSUME NEW i \in reader.owed \ reader.seen
                 PROVE  i \in Mine(reader.user)' /\ reader.offset <= RankOf(i)'
      BY <1>1, <2>2 DEF StillAhead
    <3>1. i \in Mine(reader.user) /\ reader.offset <= RankOf(i)
      BY <2>2 DEF PagingInv, StillAhead
    <3>2. PICK user : user = reader.user
      OBVIOUS
    <3>3. i \in Mine(user)' /\ Rank(Mine(user), Newer, i) <= Rank(Mine(user)', Newer', i)
      BY <1>1, <3>1, <3>2, RanksNeverFall
    <3>4. Rank(Mine(user), Newer, i) \in Nat /\ Rank(Mine(user)', Newer', i) \in Nat
          /\ reader.offset \in Nat
      <4>1. IsFiniteSet(Mine(user)) /\ IsFiniteSet(Mine(user)')
        BY <1>1, MineGrows, MineFacts
      <4> QED
        BY <4>1, RankTyped DEF PagingInv, ReaderOK
    <3>5. RankOf(i)' = Rank(Mine(user)', Newer', i) /\ RankOf(i) = Rank(Mine(user), Newer, i)
      BY <1>1, <3>2 DEF RankOf
    <3>6. reader.offset <= RankOf(i)'
      BY <3>1, <3>3, <3>4, <3>5
    <3>7. Mine(reader.user)' = Mine(user)'
      BY <1>1, <3>2 DEF Mine
    <3> QED
      BY <3>3, <3>6, <3>7
  <2> QED
    BY <2>1, <2>2 DEF PagingInv, ReaderOK
<1> QED
  BY <1>1, <1>2, <1>3 DEF PagingInv, ReaderOK

LEMMA StartKeepsPaging ==
    ASSUME PagingInv, NEW user \in Users, StartReading(user)
    PROVE  PagingInv'
<1>1. /\ reader' = [user |-> user, offset |-> 0, seen |-> {},
                    owed |-> {records[i].id : i \in Mine(user)}, done |-> FALSE]
      /\ UNCHANGED usageVars
  BY DEF StartReading
<1>2. Inv'
  BY <1>1, TrackerFrame DEF PagingInv, Inv
<1>3. Mine(user)' = Mine(user) /\ Newer' = Newer /\ Numbered'
  BY <1>1 DEF Mine, Newer, usageVars, PagingInv, Numbered
<1>4. {records[i].id : i \in Mine(user)} = Mine(user) /\ Mine(user) \subseteq Nat
  <2>1. Mine(user) \subseteq DOMAIN records /\ DOMAIN records \subseteq Nat
    BY MineFacts, RecordsTyped DEF PagingInv
  <2>2. \A i \in Mine(user) : records[i].id = i
    BY <2>1 DEF PagingInv, Numbered
  <2> QED
    BY <2>1, <2>2
<1>5. StillAhead'
  <2>1. \A i \in Mine(user) : 0 <= Rank(Mine(user), Newer, i)
    BY MineFacts, RankTyped DEF PagingInv
  <2>2. \A i \in reader'.owed : i \in Mine(user)' /\ 0 <= RankOf(i)'
    BY <1>1, <1>3, <1>4, <2>1 DEF RankOf
  <2> QED
    BY <1>1, <2>2 DEF StillAhead
<1> QED
  BY <1>1, <1>2, <1>3, <1>4, <1>5 DEF PagingInv, ReaderOK

LEMMA PageKeepsPaging == PagingInv /\ ReadPage => PagingInv'
<1> SUFFICES ASSUME PagingInv, ReadPage PROVE PagingInv'
  OBVIOUS
<1> DEFINE page == Page(reader.user, PageSize, reader.offset)
<1>1. /\ reader' = [reader EXCEPT !.seen = @ \cup Ids(page), !.offset = @ + PageSize,
                                  !.done = Len(page) < PageSize]
      /\ UNCHANGED usageVars /\ ~reader.done
  BY DEF ReadPage
<1>2. PICK user \in Users \cup {"nobody"}, offset \in Nat :
         user = reader.user /\ offset = reader.offset
  BY DEF PagingInv, ReaderOK
<1>3. /\ \A i \in Mine(user) :
            /\ offset <= Rank(Mine(user), Newer, i)
            /\ Rank(Mine(user), Newer, i) < offset + PageSize
            => i \in Ids(page)
      /\ Len(page) < PageSize =>
            \A i \in Mine(user) : Rank(Mine(user), Newer, i) < offset + PageSize
      /\ Ids(page) \subseteq Nat
  BY <1>2, PageFacts DEF PagingInv
<1> HIDE DEF page
<1>4. /\ reader'.user = user /\ reader'.offset = offset + PageSize
      /\ reader'.seen = reader.seen \cup Ids(page) /\ reader'.owed = reader.owed
      /\ reader'.done = (Len(page) < PageSize)
  BY <1>1, <1>2 DEF PagingInv, ReaderOK
<1>5. Inv' /\ Mine(user)' = Mine(user) /\ Newer' = Newer /\ Numbered'
  BY <1>1, TrackerFrame DEF PagingInv, Inv, Mine, Newer, usageVars, Numbered
<1>6. ReaderOK'
  <2>1. offset + PageSize \in Nat /\ reader.seen \cup Ids(page) \in SUBSET Nat
        /\ (Len(page) < PageSize) \in BOOLEAN
    BY <1>2, <1>3, UsageAssumption DEF PagingInv, ReaderOK
  <2> QED
    BY <1>1, <1>2, <2>1 DEF PagingInv, ReaderOK
<1>7. \A i \in Mine(user) : Rank(Mine(user), Newer, i) \in Nat
  BY MineFacts, RankTyped DEF PagingInv
<1>8. ASSUME NEW i \in reader'.owed \ reader'.seen
      PROVE  /\ i \in Mine(user) /\ offset + PageSize <= Rank(Mine(user), Newer, i)
             /\ ~reader'.done
  <2>1. i \in reader.owed \ reader.seen /\ i \notin Ids(page)
    BY <1>4, <1>8
  <2>2. i \in Mine(user) /\ offset <= Rank(Mine(user), Newer, i)
    BY <1>1, <1>2, <2>1 DEF PagingInv, StillAhead, RankOf
  <2>3. ~(Rank(Mine(user), Newer, i) < offset + PageSize)
    BY <1>3, <2>1, <2>2
  <2>4. offset + PageSize <= Rank(Mine(user), Newer, i)
    BY <1>7, <2>2, <2>3, UsageAssumption
  <2>5. ~reader'.done
    BY <1>3, <1>4, <2>2, <2>3
  <2> QED
    BY <2>2, <2>4, <2>5
<1>9. StillAhead'
  <2>1. CASE reader'.done
    BY <1>8, <2>1 DEF StillAhead
  <2>2. CASE ~reader'.done
    BY <1>4, <1>5, <1>8, <2>2 DEF StillAhead, RankOf
  <2> QED
    BY <2>1, <2>2
<1> QED
  BY <1>5, <1>6, <1>9 DEF PagingInv

LEMMA PagingStep == PagingInv /\ [Next]_vars => PagingInv'
<1> SUFFICES ASSUME PagingInv, [Next]_vars PROVE PagingInv'
  OBVIOUS
<1>1. ASSUME UNCHANGED <<records, reader>>, Inv'
      PROVE  PagingInv'
  BY <1>1 DEF PagingInv, ReaderOK, Numbered, StillAhead, RankOf, Mine, Newer
<1>2. Inv'
  BY Stepwise DEF PagingInv
<1>3. CASE Record
  BY <1>3, RecordKeepsPaging
<1>4. ASSUME NEW user \in Users, StartReading(user)
      PROVE  PagingInv'
  BY <1>4, StartKeepsPaging
<1>5. CASE ReadPage
  BY <1>5, PageKeepsPaging
<1>6. CASE ClockTick /\ UNCHANGED reader
  BY <1>1, <1>2, <1>6 DEF ClockTick
<1>7. CASE UNCHANGED vars
  BY <1>1, <1>2, <1>7 DEF vars, usageVars
<1> QED
  BY <1>3, <1>4, <1>5, <1>6, <1>7 DEF Next

LEMMA PagingStarts == Init => PagingInv
<1> SUFFICES ASSUME Init PROVE PagingInv
  OBVIOUS
<1>1. Inv
  BY Initially
<1>2. records = <<>> /\ reader = Idle
  BY DEF Init, UsageInit
<1> QED
  BY <1>1, <1>2 DEF PagingInv, ReaderOK, Numbered, StillAhead, Idle

(* A client that pages through a user's records with limit and offset is given  *)
(* all that existed when it began, whatever is recorded between its pages.     *)
THEOREM PagingIsComplete == Spec => []PagingMissesNothing
<1>1. PagingInv => PagingMissesNothing
  BY DEF PagingInv, StillAhead, PagingMissesNothing
<1> QED
  BY <1>1, PagingStarts, PagingStep, PTL DEF Spec
=============================================================================
