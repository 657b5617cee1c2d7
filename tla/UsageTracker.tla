---------------------------- MODULE UsageTracker ----------------------------
(***************************************************************************)
(* neuronlm/services/usage_tracker.py: an append-only list of usage records  *)
(* and, kept beside it, one running total per user and UTC day.             *)
(*                                                                          *)
(* `clock' is datetime.now(timezone.utc), coarse enough for records to share *)
(* a reading.  A record keeps what billing reads; `id' is the uuid.  In the   *)
(* pipeline the id is the request that caused the record, so that properties *)
(* can tell records apart.                                                  *)
(***************************************************************************)
EXTENDS Integers, Sequences, Dict

CONSTANTS
    DayTicks,   \* clock ticks in a day
    MaxClock    \* bound on the clock

ASSUME CalendarAssumption == DayTicks \in Nat \ {0} /\ MaxClock \in Nat

VARIABLES clock, records, daily_totals

usageVars == <<clock, records, daily_totals>>

Today == clock \div DayTicks

Zero == [prompt |-> 0, completion |-> 0, total |-> 0, requests |-> 0]

(* Mutants: the total leaves out the completion; `=' for `+='. *)
Added_PromptOnly(daily, prompt, completion) ==
    [prompt     |-> daily.prompt + prompt,
     completion |-> daily.completion + completion,
     total      |-> daily.total + prompt,
     requests   |-> daily.requests + 1]

Added_Replaces(daily, prompt, completion) ==
    [prompt     |-> prompt,
     completion |-> completion,
     total      |-> prompt + completion,
     requests   |-> daily.requests + 1]

Added(daily, prompt, completion) ==
    [prompt     |-> daily.prompt + prompt,
     completion |-> daily.completion + completion,
     total      |-> daily.total + prompt + completion,
     requests   |-> daily.requests + 1]

Entry(id, user, model, prompt, completion) ==
    [id |-> id, user |-> user, model |-> model, prompt |-> prompt,
     completion |-> completion, created_at |-> clock]

BillDay(user, day, prompt, completion) ==
    daily_totals' = Put(daily_totals, <<user, day>>,
        Added(Lookup(daily_totals, <<user, day>>, Zero), prompt, completion))

(* Mutants: a date key made once and kept; a date key in a zone ahead of UTC. *)
RecordUsage_StaleDay(id, user, model, prompt, completion) ==
    /\ records' = Append(records, Entry(id, user, model, prompt, completion))
    /\ BillDay(user, 0, prompt, completion)
    /\ UNCHANGED clock

RecordUsage_LocalDay(id, user, model, prompt, completion) ==
    /\ records' = Append(records, Entry(id, user, model, prompt, completion))
    /\ BillDay(user, (clock + 1) \div DayTicks, prompt, completion)
    /\ UNCHANGED clock

(* record_usage: the record and the day's total are written in one step.      *)
RecordUsage(id, user, model, prompt, completion) ==
    /\ records' = Append(records, Entry(id, user, model, prompt, completion))
    /\ BillDay(user, Today, prompt, completion)
    /\ UNCHANGED clock

ClockTick == clock < MaxClock /\ clock' = clock + 1 /\ UNCHANGED <<records, daily_totals>>

(* get_daily_usage and check_quota read, and create no entry. *)
DailyUsage(user, day) == Lookup(daily_totals, <<user, day>>, Zero)
WithinQuota(user, limit) == DailyUsage(user, Today).total < limit

UsageInit == clock = 0 /\ records = <<>> /\ daily_totals = Empty
=============================================================================
