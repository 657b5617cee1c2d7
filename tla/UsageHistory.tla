---------------------------- MODULE UsageHistory ----------------------------
(***************************************************************************)
(* The usage tracker driven by callers that record usage at any time of the   *)
(* day, and by one that pages through a user's records while they do.       *)
(*                                                                          *)
(*   reader  the paging caller: whose records, the next offset, the ids it    *)
(*           was given so far, the ids that existed when it began            *)
(***************************************************************************)
EXTENDS UsageTracker, Order, Functions

CONSTANTS Users, Models, Amounts, Quotas, PageSize, MaxRecords

ASSUME UsageAssumption ==
    /\ Amounts \subseteq Nat /\ Quotas \subseteq Nat
    /\ PageSize \in Nat \ {0} /\ MaxRecords \in Nat

VARIABLE reader

vars == <<usageVars, reader>>

Mine(user) == {i \in DOMAIN records : records[i].user = user}

(* sort(key=created_at, reverse=True): newest first, and since the sort is     *)
(* stable records of one clock reading stay in the order they were made.     *)
Newer ==
    {p \in (DOMAIN records) \X (DOMAIN records) :
        \/ records[p[1]].created_at > records[p[2]].created_at
        \/ records[p[1]].created_at = records[p[2]].created_at /\ p[1] < p[2]}

NewestFirst(user) ==
    LET order == InOrder(Mine(user), Newer) IN [n \in DOMAIN order |-> records[order[n]]]

(* Mutant: the slice stops one record early. *)
Page_Short(user, limit, offset) ==
    LET sorted == NewestFirst(user)
        last == IF offset + limit < Len(sorted) THEN offset + limit ELSE Len(sorted) - 1
    IN  SubSeq(sorted, offset + 1, last)

(* get_user_records(user, limit, offset) *)
Page(user, limit, offset) ==
    LET sorted == NewestFirst(user)
        last == IF offset + limit < Len(sorted) THEN offset + limit ELSE Len(sorted)
    IN  SubSeq(sorted, offset + 1, last)

Ids(s) == {s[i].id : i \in DOMAIN s}

Idle == [user |-> "nobody", offset |-> 0, seen |-> {}, owed |-> {}, done |-> TRUE]

Init == UsageInit /\ reader = Idle

Record ==
    /\ Len(records) < MaxRecords
    /\ \E user \in Users, model \in Models, prompt, completion \in Amounts :
          RecordUsage(Len(records) + 1, user, model, prompt, completion)
    /\ UNCHANGED reader

StartReading(user) ==
    /\ reader.done
    /\ reader' = [user |-> user, offset |-> 0, seen |-> {},
                  owed |-> {records[i].id : i \in Mine(user)}, done |-> FALSE]
    /\ UNCHANGED usageVars

(* A page shorter than asked for is the last one. *)
ReadPage ==
    /\ ~reader.done
    /\ LET page == Page(reader.user, PageSize, reader.offset) IN
       reader' = [reader EXCEPT !.seen = @ \cup Ids(page),
                                !.offset = @ + PageSize,
                                !.done = Len(page) < PageSize]
    /\ UNCHANGED usageVars

Next ==
    \/ Record
    \/ \E user \in Users : StartReading(user)
    \/ ReadPage
    \/ ClockTick /\ UNCHANGED reader

Spec == Init /\ [][Next]_vars

-----------------------------------------------------------------------------

(* Every variable keeps its type, and totals exist only for days that began.  *)
TypeOK ==
    /\ clock \in Nat
    /\ records \in Seq([id : Nat, user : Users, model : Models, prompt : Nat,
                        completion : Nat, created_at : 0..clock])
    /\ DOMAIN daily_totals \subseteq Users \X (0..Today)
    /\ \A key \in DOMAIN daily_totals :
          daily_totals[key] \in [prompt : Nat, completion : Nat, total : Nat, requests : Nat]
    /\ reader.done \in BOOLEAN

(* The total shown for a user and a day is the one its records add up to,     *)
(* whatever the order in which users and days were written.                 *)
TotalsMatchRecords ==
    \A user \in Users, day \in 0..Today :
        LET mine == {i \in DOMAIN records : /\ records[i].user = user
                                            /\ records[i].created_at \div DayTicks = day}
        IN  DailyUsage(user, day) =
                [prompt     |-> SumFunction([i \in mine |-> records[i].prompt]),
                 completion |-> SumFunction([i \in mine |-> records[i].completion]),
                 total      |-> SumFunction([i \in mine |-> records[i].prompt + records[i].completion]),
                 requests   |-> Cardinality(mine)]

(* Once midnight has passed nothing changes what a day is billed.            *)
ClosedDaysFrozen ==
    [][\A user \in Users, day \in 0..Today :
          day < Today => DailyUsage(user, day)' = DailyUsage(user, day)]_vars

(* check_quota, once it refuses a user, refuses until the day is over.        *)
QuotaLatched ==
    [][\A user \in Users, limit \in Quotas :
          ~WithinQuota(user, limit) => ~WithinQuota(user, limit)' \/ Today' > Today]_vars

(* A caller that pages through get_user_records with limit and offset is      *)
(* given every record that existed when it began, although new records shift  *)
(* the pages under it.                                                      *)
PagingMissesNothing == reader.done => reader.owed \subseteq reader.seen
=============================================================================
