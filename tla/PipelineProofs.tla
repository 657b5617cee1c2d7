--------------------------- MODULE PipelineProofs ---------------------------
(***************************************************************************)
(* Machine-checked theorems about RequestPipeline.                          *)
(*                                                                          *)
(* PipelineInv joins what the services keep true of their own state with      *)
(* where each request stands, which calls the engine holds for it and what    *)
(* the ledger says of it.  Each step is a lemma: it writes one request, so     *)
(* what has to be shown is about that request and about what it shares.      *)
(***************************************************************************)
EXTENDS RequestPipeline, ServiceLemmas, DataLemmas

Phases == {"idle", "arrived", "authenticated", "admitted", "generating",
           "answered", "streaming", "done"}

Asked == InputType \cup {[route |-> "none"]}
Codes == {0, 200, 400, 401, 404, 405, 422, 429, 500, 503}
Endings == {"none", "aborted", "whole", "disconnected"}

Req == [phase : Phases, input : Asked, status : Codes, completion : Nat, ending : Endings]

Unserved == {"idle", "arrived", "authenticated", "admitted", "generating"}

(* A request has an input once it arrived, a user once it passed the           *)
(* authentication of a route that needs one, and no status before an answer.  *)
ReqOK(q) ==
    /\ q \in Req
    /\ q.phase # "idle" => q.input \in InputType
    /\ q.phase \in Unserved => q.status = 0
    /\ q.phase \in {"authenticated", "admitted", "generating"}
          => q.input.route \in Public \/ q.input.user \in Users

ReqsOK == DOMAIN reqs = Requests /\ reqs = [r \in Requests |-> reqs[r]]
          /\ \A r \in Requests : ReqOK(reqs[r])

LimiterOK ==
    /\ now \in Nat
    /\ DOMAIN buckets \subseteq Users
    /\ \A u \in DOMAIN buckets : Sound(buckets[u], now)

EngineOK ==
    /\ DOMAIN models \subseteq ModelIds
    /\ \A m \in DOMAIN models : models[m] \in Statuses

PipelineInv ==
    /\ ReqsOK
    /\ LimiterOK
    /\ TrackerOK(Requests, Users, ModelIds)
    /\ EngineOK
    /\ CallsMatchRequests
    /\ LedgerExact

Same(r) == \A q \in Requests \ {r} : reqs'[q] = reqs[q]

-----------------------------------------------------------------------------
(* What the writes to a request do.                                         *)

(* Replacing one request by a good one leaves all of them good.               *)
LEMMA Replaced ==
    ASSUME ReqsOK, NEW r \in Requests, NEW q, ReqOK(q), reqs' = [reqs EXCEPT ![r] = q]
    PROVE  ReqsOK' /\ Same(r) /\ reqs'[r] = q
<1>1. /\ DOMAIN reqs' = Requests /\ reqs'[r] = q /\ Same(r)
      /\ reqs' = [x \in Requests |-> reqs'[x]]
  BY DEF ReqsOK, Same
<1>2. \A x \in Requests : ReqOK(reqs'[x])
  BY <1>1 DEF ReqsOK, Same
<1> QED
  BY <1>1, <1>2 DEF ReqsOK

(* The fields a write replaces, whatever they range over.                     *)
LEMMA Fields ==
    ASSUME NEW P, NEW I, NEW S, NEW C, NEW E,
           NEW x \in [phase : P, input : I, status : S, completion : C, ending : E],
           NEW p \in P, NEW i \in I, NEW s \in S, NEW c \in C, NEW e \in E
    PROVE  LET T == [phase : P, input : I, status : S, completion : C, ending : E]
               went  == [x EXCEPT !.phase = p]
               came  == [x EXCEPT !.phase = p, !.input = i]
               told  == [x EXCEPT !.phase = p, !.status = s]
               reply == [x EXCEPT !.phase = p, !.status = s, !.completion = c]
               ended == [x EXCEPT !.phase = p, !.ending = e]
           IN  /\ went \in T /\ went.phase = p /\ went.input = x.input
               /\ went.status = x.status /\ went.completion = x.completion
               /\ came \in T /\ came.phase = p /\ came.input = i /\ came.status = x.status
               /\ told \in T /\ told.phase = p /\ told.input = x.input /\ told.status = s
               /\ reply \in T /\ reply.phase = p /\ reply.input = x.input
               /\ reply.status = s /\ reply.completion = c
               /\ ended \in T /\ ended.phase = p /\ ended.input = x.input
               /\ ended.status = x.status /\ ended.completion = x.completion
  OBVIOUS

(* A step of a request through the stack.                                   *)
LEMMA GotoFacts ==
    ASSUME ReqsOK, NEW r \in Requests, NEW phase \in Phases \ {"idle"}, Goto(r, phase),
           Phase(r) # "idle", phase \in Unserved => Phase(r) \in Unserved,
           phase \in {"authenticated", "admitted", "generating"}
              => In(r).route \in Public \/ In(r).user \in Users
    PROVE  /\ ReqsOK' /\ Same(r) /\ Phase(r)' = phase
           /\ In(r)' = In(r) /\ reqs'[r].status = reqs[r].status
           /\ reqs'[r].completion = reqs[r].completion
<1> DEFINE q == [reqs[r] EXCEPT !.phase = phase]
<1>1. ReqOK(reqs[r]) /\ reqs[r] \in Req
  BY DEF ReqsOK, ReqOK
<1>2. phase \in Phases
  BY <1>1, PipelineAssumption DEF Phases, Codes, Endings, Asked, Arrive, ReqOK, Phase, Unserved
<1>3. q \in Req /\ q.phase = phase /\ q.input = In(r)
      /\ q.status = reqs[r].status /\ q.completion = reqs[r].completion
  BY <1>1, <1>2, Fields DEF Req, In
<1>4. reqs' = [reqs EXCEPT ![r] = q]
  BY DEF Goto
<1> HIDE DEF q
<1>5. ReqOK(q)
  BY <1>1, <1>2, <1>3 DEF ReqOK, In, Phase, Unserved
<1>6. ReqsOK' /\ Same(r) /\ reqs'[r] = q
  BY <1>4, <1>5, Replaced
<1> QED
  BY <1>2, <1>3, <1>6 DEF In, Phase

(* A response from inside the stack.                                        *)
LEMMA ReplyFacts ==
    ASSUME ReqsOK, NEW r \in Requests, Phase(r) # "idle", NEW completion \in Nat,
           NEW status \in Codes, Reply(r, status, completion)
    PROVE  /\ ReqsOK' /\ Same(r)
           /\ Phase(r)' = IF In(r).route \in Public THEN "done" ELSE "answered"
           /\ In(r)' = In(r) /\ reqs'[r].status = status
           /\ reqs'[r].completion = completion
<1> DEFINE p == IF In(r).route \in Public THEN "done" ELSE "answered"
           q == [reqs[r] EXCEPT !.phase = p, !.status = status, !.completion = completion]
<1>1. ReqOK(reqs[r]) /\ reqs[r] \in Req
  BY DEF ReqsOK, ReqOK
<1>2. p \in Phases /\ p \notin Unserved /\ p # "idle" /\ status \in Codes
  BY <1>1, PipelineAssumption DEF Phases, Codes, Endings, Asked, Arrive, ReqOK, Phase, Unserved
<1> HIDE DEF p
<1>3. q \in Req /\ q.phase = p /\ q.input = In(r)
      /\ q.status = status /\ q.completion = completion
  BY <1>1, <1>2, Fields DEF Req, In
<1>4. reqs' = [reqs EXCEPT ![r] = q]
  BY DEF Reply, p
<1> HIDE DEF q
<1>5. ReqOK(q)
  BY <1>1, <1>2, <1>3 DEF ReqOK, In, Phase, Unserved
<1>6. ReqsOK' /\ Same(r) /\ reqs'[r] = q
  BY <1>4, <1>5, Replaced
<1> QED
  BY <1>2, <1>3, <1>6 DEF In, Phase, p

(* A response that no middleware sees on its way out.                        *)
LEMMA FinishFacts ==
    ASSUME ReqsOK, NEW r \in Requests, Phase(r) # "idle",
           NEW status \in Codes, Finish(r, status)
    PROVE  /\ ReqsOK' /\ Same(r) /\ Phase(r)' = "done" /\ In(r)' = In(r)
           /\ reqs'[r].status = status
<1> DEFINE q == [reqs[r] EXCEPT !.phase = "done", !.status = status]
<1>1. ReqOK(reqs[r]) /\ reqs[r] \in Req
  BY DEF ReqsOK, ReqOK
<1>2. "done" \in Phases /\ status \in Codes
  BY <1>1, PipelineAssumption DEF Phases, Codes, Endings, Asked, Arrive, ReqOK, Phase, Unserved
<1>3. q \in Req /\ q.phase = "done" /\ q.input = In(r) /\ q.status = status
  BY <1>1, <1>2, Fields DEF Req, In
<1>4. reqs' = [reqs EXCEPT ![r] = q]
  BY DEF Finish
<1> HIDE DEF q
<1>5. ReqOK(q)
  BY <1>1, <1>2, <1>3 DEF ReqOK, In, Phase, Unserved
<1>6. ReqsOK' /\ Same(r) /\ reqs'[r] = q
  BY <1>4, <1>5, Replaced
<1> QED
  BY <1>2, <1>3, <1>6 DEF In, Phase

(* The end of a streamed body.                                              *)
LEMMA EndStreamFacts ==
    ASSUME ReqsOK, NEW r \in Requests, Phase(r) # "idle",
           NEW how \in {"aborted", "whole", "disconnected"}, EndStream(r, how)
    PROVE  /\ ReqsOK' /\ Same(r) /\ Phase(r)' = "done" /\ In(r)' = In(r)
           /\ reqs'[r].status = reqs[r].status /\ reqs'[r].completion = reqs[r].completion
<1> DEFINE q == [reqs[r] EXCEPT !.phase = "done", !.ending = how]
<1>1. ReqOK(reqs[r]) /\ reqs[r] \in Req
  BY DEF ReqsOK, ReqOK
<1>2. "done" \in Phases /\ how \in Endings
  BY <1>1, PipelineAssumption DEF Phases, Codes, Endings, Asked, Arrive, ReqOK, Phase, Unserved
<1>3. q \in Req /\ q.phase = "done" /\ q.input = In(r)
      /\ q.status = reqs[r].status /\ q.completion = reqs[r].completion
  BY <1>1, <1>2, Fields DEF Req, In
<1>4. reqs' = [reqs EXCEPT ![r] = q]
  BY DEF EndStream
<1> HIDE DEF q
<1>5. ReqOK(q)
  BY <1>1, <1>2, <1>3 DEF ReqOK, In, Phase, Unserved
<1>6. ReqsOK' /\ Same(r) /\ reqs'[r] = q
  BY <1>4, <1>5, Replaced
<1> QED
  BY <1>2, <1>3, <1>6 DEF In, Phase

(* A new request.                                                           *)
LEMMA ArriveFacts ==
    ASSUME ReqsOK, NEW r \in Requests, NEW input \in Inputs, Arrive(r, input)
    PROVE  /\ ReqsOK' /\ Same(r) /\ Phase(r) = "idle" /\ Phase(r)' = "arrived"
           /\ reqs[r].status = 0 /\ reqs'[r].status = 0
<1> DEFINE q == [reqs[r] EXCEPT !.phase = "arrived", !.input = input]
<1>1. ReqOK(reqs[r]) /\ reqs[r] \in Req
  BY DEF ReqsOK, ReqOK
<1>2. "arrived" \in Phases /\ input \in InputType /\ input \in Asked
      /\ Phase(r) = "idle" /\ reqs[r].status = 0
  BY <1>1, PipelineAssumption DEF Phases, Codes, Endings, Asked, Arrive, ReqOK, Phase, Unserved
<1>3. q \in Req /\ q.phase = "arrived" /\ q.input = input /\ q.status = reqs[r].status
  BY <1>1, <1>2, Fields DEF Req, In
<1>4. reqs' = [reqs EXCEPT ![r] = q]
  BY DEF Arrive
<1> HIDE DEF q
<1>5. ReqOK(q)
  BY <1>1, <1>2, <1>3 DEF ReqOK, In, Phase, Unserved
<1>6. ReqsOK' /\ Same(r) /\ reqs'[r] = q
  BY <1>4, <1>5, Replaced
<1> QED
  BY <1>2, <1>3, <1>6 DEF In, Phase

-----------------------------------------------------------------------------
(* What the shared state needs of a step.                                   *)

LEMMA BucketWritten ==
    ASSUME LimiterOK, NEW u \in Users, NEW b, Sound(b, now),
           buckets' = Put(buckets, u, b), now' = now
    PROVE  LimiterOK'
  BY DEF LimiterOK, Put

LEMMA AllowKeeps ==
    ASSUME LimiterOK, NEW u \in Users, Allow(u, 1, 0)
    PROVE  LimiterOK'
<1>1. Sound(GetBucket(u, 0), now)
  BY GetBucketFacts DEF LimiterOK, Known
<1>2. Sound(Take(GetBucket(u, 0), 1), now)
  BY <1>1, TakeFacts DEF LimiterOK, Allow
<1> QED
  BY <1>2, BucketWritten DEF Allow

LEMMA DenyKeeps ==
    ASSUME LimiterOK, NEW u \in Users, Deny(u, 1, 0)
    PROVE  LimiterOK'
<1>1. Sound(GetBucket(u, 0), now)
  BY GetBucketFacts DEF LimiterOK, Known
<1>2. Sound(Refill(GetBucket(u, 0)), now)
  BY <1>1, RefillFacts DEF LimiterOK
<1> QED
  BY <1>2, BucketWritten DEF Deny

LEMMA ReadKeeps ==
    ASSUME LimiterOK, NEW u, ReadRemaining(u)
    PROVE  LimiterOK'
<1>1. CASE Known(u)
  <2>1. u \in Users /\ Sound(Refill(buckets[u]), now)
    BY <1>1, RefillFacts DEF LimiterOK, Known
  <2> QED
    BY <1>1, <2>1, BucketWritten DEF ReadRemaining
<1>2. CASE ~Known(u)
  BY <1>2 DEF ReadRemaining, LimiterOK
<1> QED
  BY <1>1, <1>2

LEMMA TickKeeps ==
    ASSUME LimiterOK, Tick
    PROVE  LimiterOK'
<1>1. \A u \in DOMAIN buckets : Sound(buckets[u], now + 1)
  BY LevelTick DEF LimiterOK
<1> QED
  BY <1>1 DEF Tick, LimiterOK

LEMMA LimiterFrame ==
    ASSUME LimiterOK, UNCHANGED limiterVars
    PROVE  LimiterOK'
  BY DEF LimiterOK, limiterVars

(* A request some call of the engine is in flight for.                       *)
Waits(r) ==
    \/ Phase(r) = "generating" /\ Accepts("chat", In(r))
    \/ /\ Phase(r) \in {"answered", "streaming"} /\ reqs[r].status = 200
       /\ Accepts("stream", In(r))

(* The engine's calls stay right when they change for the request that moved   *)
(* only, and rightly for that one.                                          *)
LEMMA CallsStep ==
    ASSUME CallsMatchRequests, NEW r \in Requests, Same(r),
           DOMAIN calls' \ {r} = DOMAIN calls \ {r},
           r \in DOMAIN calls' <=> Waits(r)'
    PROVE  CallsMatchRequests'
<1>1. DOMAIN calls = {q \in Requests : Waits(q)}
  BY DEF CallsMatchRequests, Waits
<1>2. \A q \in Requests \ {r} : Waits(q)' <=> Waits(q)
  BY DEF Same, Waits, Phase, In
<1>3. \A q : q \in DOMAIN calls' <=> q \in Requests /\ Waits(q)'
  <2> TAKE q
  <2>1. CASE q = r
    BY <2>1
  <2>2. CASE q # r
    <3>1. q \in DOMAIN calls' <=> q \in DOMAIN calls
      BY <2>2
    <3> QED
      BY <3>1, <2>2, <1>1, <1>2
  <2> QED
    BY <2>1, <2>2
<1>4. DOMAIN calls' = {q \in Requests : Waits(q)'}
  BY <1>3
<1> QED
  BY <1>4 DEF CallsMatchRequests, Waits

LEMMA CallsFrame ==
    ASSUME CallsMatchRequests, NEW r \in Requests, Same(r), UNCHANGED engineVars,
           ~Waits(r), ~Waits(r)'
    PROVE  CallsMatchRequests' 
<1>1. r \notin DOMAIN calls /\ calls' = calls
  BY DEF CallsMatchRequests, Waits, engineVars
<1> QED
  BY <1>1, CallsStep

(* What the ledger has to say of one request.                               *)
Booked(r) ==
    IF Billable(r)
    THEN \E i \in DOMAIN records :
            /\ Bills(r) = {i}
            /\ records[i].user = In(r).user /\ records[i].model = In(r).model
            /\ records[i].prompt = In(r).prompt
            /\ records[i].completion = reqs[r].completion
    ELSE Bills(r) = {}

(* A step that records nothing must not change what a request was billed for. *)
LEMMA LedgerFrame ==
    ASSUME LedgerExact, NEW r \in Requests, Same(r), UNCHANGED usageVars,
           \/ ~Billable(r) /\ ~Billable(r)'
           \/ /\ In(r)' = In(r) /\ reqs'[r].status = reqs[r].status
              /\ reqs'[r].completion = reqs[r].completion
    PROVE  LedgerExact'
<1>1. records' = records /\ \A q \in Requests : Bills(q)' = Bills(q)
  BY DEF usageVars, Bills
<1>2. \A q \in Requests : Booked(q)
  BY DEF LedgerExact, Booked
<1>3. \A q \in Requests \ {r} : Booked(q)'
  BY <1>1, <1>2 DEF Booked, Same, Billable, In
<1>4. Booked(r)'
  <2>1. CASE ~Billable(r) /\ ~Billable(r)'
    BY <1>1, <1>2, <2>1 DEF Booked
  <2>2. CASE /\ In(r)' = In(r) /\ reqs'[r].status = reqs[r].status
             /\ reqs'[r].completion = reqs[r].completion
    <3>1. Billable(r)' <=> Billable(r)
      BY <2>2 DEF Billable
    <3> QED
      BY <1>1, <1>2, <2>2, <3>1 DEF Booked
  <2> QED
    BY <2>1, <2>2
<1> QED
  BY <1>3, <1>4 DEF LedgerExact, Booked

(* A step that records exactly what the request is now answered for.         *)
LEMMA LedgerBill ==
    ASSUME LedgerExact, TrackerOK(Requests, Users, ModelIds), NEW r \in Requests, Same(r),
           ~Billable(r), Billable(r)', In(r)' = In(r), NEW n, reqs'[r].completion = n,
           RecordUsage(r, In(r).user, In(r).model, In(r).prompt, n)
    PROVE  LedgerExact'
<1> DEFINE e == Entry(r, In(r).user, In(r).model, In(r).prompt, n)
           new == Len(records) + 1
<1>1. /\ records' = Append(records, e)
      /\ e.id = r /\ e.user = In(r).user /\ e.model = In(r).model
      /\ e.prompt = In(r).prompt /\ e.completion = n
  BY DEF RecordUsage, Entry
<1>2. \E R : records \in Seq(R)
  BY DEF TrackerOK
<1> HIDE DEF e
<1>3. /\ Len(records) \in Nat /\ DOMAIN records = 1..Len(records)
      /\ DOMAIN records' = DOMAIN records \cup {new} /\ new \notin DOMAIN records
      /\ records'[new] = e
      /\ \A i \in DOMAIN records : records'[i] = records[i]
  BY <1>1, <1>2
<1> HIDE DEF new
<1>4. \A q \in Requests : Booked(q)
  BY DEF LedgerExact, Booked
<1>5. ASSUME NEW q \in Requests \ {r} PROVE Booked(q)'
  <2>1. Bills(q)' = Bills(q)
    BY <1>1, <1>3 DEF Bills
  <2>2. Billable(q)' = Billable(q) /\ In(q)' = In(q) /\ reqs'[q] = reqs[q]
    BY DEF Same, Billable, In
  <2> QED
    BY <1>3, <1>4, <2>1, <2>2 DEF Booked
<1>6. Booked(r)'
  <2>1. Bills(r) = {}
    BY <1>4 DEF Booked
  <2>2. Bills(r)' = {new}
    BY <1>1, <1>3, <2>1 DEF Bills
  <2> QED
    BY <1>1, <1>3, <2>2 DEF Booked
<1> QED
  BY <1>5, <1>6 DEF LedgerExact, Booked

-----------------------------------------------------------------------------
(* Every step keeps PipelineInv: one lemma per action.                       *)

(* A step that leaves the services alone, or only the limiter, and neither     *)
(* starts nor ends a call.                                                  *)
LEMMA PlainStep ==
    ASSUME PipelineInv, NEW r \in Requests, ReqsOK', Same(r), LimiterOK',
           UNCHANGED <<usageVars, engineVars>>, ~Waits(r), ~Waits(r)',
           \/ ~Billable(r) /\ ~Billable(r)'
           \/ /\ In(r)' = In(r) /\ reqs'[r].status = reqs[r].status
              /\ reqs'[r].completion = reqs[r].completion
    PROVE  PipelineInv'
<1>1. CallsMatchRequests'
  BY CallsFrame DEF PipelineInv
<1>2. LedgerExact'
  BY LedgerFrame DEF PipelineInv
<1>3. TrackerOK(Requests, Users, ModelIds)'
  BY TrackerFrame DEF PipelineInv
<1>4. EngineOK'
  BY DEF PipelineInv, EngineOK, engineVars
<1> QED
  BY <1>1, <1>2, <1>3, <1>4 DEF PipelineInv

LEMMA ArriveKeeps ==
    ASSUME PipelineInv, NEW r \in Requests, NEW input \in Inputs, Arrive(r, input)
    PROVE  PipelineInv'
<1>1. /\ ReqsOK' /\ Same(r) /\ Phase(r) = "idle" /\ Phase(r)' = "arrived"
      /\ reqs[r].status = 0 /\ reqs'[r].status = 0
  BY ArriveFacts DEF PipelineInv
<1>2. LimiterOK' /\ UNCHANGED <<usageVars, engineVars>>
  BY LimiterFrame DEF PipelineInv, Arrive
<1> QED
  BY <1>1, <1>2, PlainStep DEF Waits, Billable

(* Before it is served a request has a status of 0 and, unless it is            *)
(* generating, no call.                                                     *)
LEMMA Early ==
    ASSUME PipelineInv, NEW r \in Requests, Phase(r) \in Unserved
    PROVE  /\ reqs[r].status = 0 /\ ~Billable(r)
           /\ Phase(r) # "generating" => ~Waits(r)
           /\ Phase(r) # "idle" => In(r) \in InputType
           /\ Phase(r) \in {"authenticated", "admitted", "generating"}
                 => In(r).route \in Public \/ In(r).user \in Users
  BY DEF PipelineInv, ReqsOK, ReqOK, Phase, In, Billable, Waits, Unserved

LEMMA AuthenticateKeeps ==
    ASSUME PipelineInv, NEW r \in Requests, Authenticate(r)
    PROVE  PipelineInv'
<1>1. /\ Phase(r) = "arrived" /\ Phase(r) \in Unserved
      /\ UNCHANGED <<limiterVars, usageVars, engineVars>>
  BY DEF Authenticate, Unserved
<1>2. ReqsOK /\ LimiterOK'
  BY <1>1, LimiterFrame DEF PipelineInv
<1>3. ~Waits(r) /\ ~Billable(r) /\ In(r) \in InputType /\ reqs[r].status = 0
  BY <1>1, Early
<1>4. CASE (In(r).route \in Public \/ In(r).user # Nobody) /\ Goto(r, "authenticated")
  <2>1. In(r).route \in Public \/ In(r).user \in Users
    BY <1>3, <1>4 DEF InputType
  <2>2. /\ ReqsOK' /\ Same(r) /\ Phase(r)' = "authenticated"
        /\ reqs'[r].status = 0
    BY <1>1, <1>2, <1>3, <1>4, <2>1, GotoFacts DEF Phases, Unserved
  <2> QED
    BY <1>1, <1>2, <1>3, <2>2, PlainStep DEF Waits, Billable
<1>5. CASE Finish(r, 401)
  <2>1. ReqsOK' /\ Same(r) /\ Phase(r)' = "done" /\ reqs'[r].status = 401
    BY <1>1, <1>2, <1>5, FinishFacts DEF Codes
  <2> QED
    BY <1>1, <1>2, <1>3, <2>1, PlainStep DEF Waits, Billable
<1> QED
  BY <1>4, <1>5 DEF Authenticate

LEMMA LimitKeeps ==
    ASSUME PipelineInv, NEW r \in Requests, Limit(r)
    PROVE  PipelineInv'
<1>1. /\ Phase(r) = "authenticated" /\ Phase(r) \in Unserved
      /\ UNCHANGED <<usageVars, engineVars>> /\ ReqsOK /\ LimiterOK
  BY DEF Limit, Unserved, PipelineInv
<1>2. /\ ~Waits(r) /\ ~Billable(r) /\ reqs[r].status = 0
      /\ In(r).route \in Public \/ In(r).user \in Users
  BY <1>1, Early
<1>3. LimiterOK'
  BY <1>1, <1>2, AllowKeeps, DenyKeeps, LimiterFrame DEF Limit
<1>4. CASE Goto(r, "admitted")
  <2>1. ReqsOK' /\ Same(r) /\ Phase(r)' = "admitted" /\ reqs'[r].status = 0
    BY <1>1, <1>2, <1>4, GotoFacts DEF Phases, Unserved
  <2> QED
    BY <1>1, <1>2, <1>3, <2>1, PlainStep DEF Waits, Billable
<1>5. CASE Finish(r, 429)
  <2>1. ReqsOK' /\ Same(r) /\ Phase(r)' = "done" /\ reqs'[r].status = 429
    BY <1>1, <1>5, FinishFacts DEF Codes
  <2> QED
    BY <1>1, <1>2, <1>3, <2>1, PlainStep DEF Waits, Billable
<1> QED
  BY <1>4, <1>5 DEF Limit

(* What a handler that answers at once does to its request.                  *)
LEMMA Answered ==
    ASSUME PipelineInv, NEW r \in Requests, Phase(r) = "admitted",
           NEW status \in Codes, Answer(r, status)
    PROVE  /\ ReqsOK' /\ Same(r) /\ In(r)' = In(r) /\ reqs'[r].status = status
           /\ reqs'[r].completion = 0
           /\ Phase(r)' = IF In(r).route \in Public THEN "done" ELSE "answered"
  BY ReplyFacts DEF PipelineInv, Answer

LEMMA RejectKeeps ==
    ASSUME PipelineInv, NEW r \in Requests, Reject(r)
    PROVE  PipelineInv'
<1>1. /\ Phase(r) = "admitted" /\ Phase(r) \in Unserved /\ LimiterOK'
      /\ UNCHANGED <<usageVars, engineVars>>
  BY LimiterFrame DEF Reject, Unserved, PipelineInv
<1>2. PICK status \in {422, 400} : Answer(r, status)
  BY DEF Reject
<1>3. /\ ReqsOK' /\ Same(r) /\ reqs'[r].status = status
      /\ Phase(r)' = IF In(r).route \in Public THEN "done" ELSE "answered"
  BY <1>1, <1>2, Answered DEF Codes
<1>4. ~Waits(r) /\ ~Billable(r)
  BY <1>1, Early
<1> QED
  BY <1>1, <1>2, <1>3, <1>4, PlainStep DEF Waits, Billable

LEMMA ReadOnlyKeeps ==
    ASSUME PipelineInv, NEW r \in Requests, Read(r)
    PROVE  PipelineInv'
<1>1. /\ Phase(r) = "admitted" /\ Phase(r) \in Unserved /\ LimiterOK'
      /\ UNCHANGED <<usageVars, engineVars>>
  BY LimiterFrame DEF Read, Unserved, PipelineInv
<1>2. PICK status \in {200, 400, 404, 405, 503} : Answer(r, status)
  BY DEF Read
<1>3. /\ ReqsOK' /\ Same(r) /\ In(r)' = In(r)
      /\ In(r).route \notin {"chat", "stream", "embed"}
  BY <1>1, <1>2, Answered DEF Codes, Read
<1>4. ~Waits(r) /\ ~Billable(r) /\ ~Billable(r)'
  BY <1>1, <1>3, Early DEF Billable
<1>5. ~Waits(r)'
  <2>1. Phase(r)' # "generating" /\ In(r).route # "stream"
    BY <1>1, <1>2, <1>3, Answered DEF Codes
  <2> QED
    BY <2>1, <1>3 DEF Waits, Accepts
<1> QED
  BY <1>1, <1>3, <1>4, <1>5, PlainStep

(* Starting and ending the call of one request.                             *)
LEMMA CallOpened ==
    ASSUME NEW r, NEW call, calls' = Put(calls, r, call)
    PROVE  r \in DOMAIN calls' /\ DOMAIN calls' \ {r} = DOMAIN calls \ {r}
  BY DEF Put

LEMMA CallEnded ==
    ASSUME NEW r, EndCall(r)
    PROVE  /\ r \in DOMAIN calls /\ r \notin DOMAIN calls'
           /\ DOMAIN calls' \ {r} = DOMAIN calls \ {r} /\ models' = models
  BY DEF EndCall, Drop

LEMMA CallAdvanced ==
    ASSUME NEW r, NEW chunk, NEW words, Yield(r, chunk, words)
    PROVE  DOMAIN calls' = DOMAIN calls /\ models' = models
  BY DEF Yield

(* A step that neither touches the buckets nor the ledger, but for what calls   *)
(* the engine holds for its request.                                        *)
LEMMA CallStepKeeps ==
    ASSUME PipelineInv, NEW r \in Requests, ReqsOK', Same(r),
           UNCHANGED <<limiterVars, usageVars>>, models' = models,
           DOMAIN calls' \ {r} = DOMAIN calls \ {r}, r \in DOMAIN calls' <=> Waits(r)',
           \/ ~Billable(r) /\ ~Billable(r)'
           \/ /\ In(r)' = In(r) /\ reqs'[r].status = reqs[r].status
              /\ reqs'[r].completion = reqs[r].completion
    PROVE  PipelineInv'
<1>1. CallsMatchRequests'
  BY CallsStep DEF PipelineInv
<1>2. LedgerExact'
  BY LedgerFrame DEF PipelineInv
<1>3. TrackerOK(Requests, Users, ModelIds)'
  BY TrackerFrame DEF PipelineInv
<1>4. EngineOK'
  BY DEF PipelineInv, EngineOK
<1>5. LimiterOK'
  BY LimiterFrame DEF PipelineInv
<1> QED
  BY <1>1, <1>2, <1>3, <1>4, <1>5 DEF PipelineInv

LEMMA StartChatKeeps ==
    ASSUME PipelineInv, NEW r \in Requests, StartChat(r)
    PROVE  PipelineInv'
<1>1. /\ Phase(r) = "admitted" /\ Phase(r) \in Unserved /\ ReqsOK
      /\ LimiterOK' /\ UNCHANGED <<limiterVars, usageVars>>
      /\ Accepts("chat", In(r)) /\ In(r).route = "chat"
  BY LimiterFrame DEF StartChat, Unserved, PipelineInv, Accepted, Accepts
<1>2. /\ ~Waits(r) /\ ~Billable(r) /\ reqs[r].status = 0
      /\ In(r).route \in Public \/ In(r).user \in Users
  BY <1>1, Early
<1>3. ASSUME NEW status \in {404, 503, 500}, Answer(r, status), UNCHANGED engineVars
      PROVE  PipelineInv'
  <2>1. /\ ReqsOK' /\ Same(r) /\ reqs'[r].status = status
        /\ Phase(r)' = IF In(r).route \in Public THEN "done" ELSE "answered"
    BY <1>1, <1>3, Answered DEF Codes
  <2>2. ~Waits(r)' /\ ~Billable(r)'
    BY <1>3, <2>1 DEF Waits, Billable
  <2> QED
    BY <1>1, <1>2, <1>3, <2>1, <2>2, PlainStep
<1>4. CASE StartComplete(r, In(r).model) /\ Goto(r, "generating")
  <2>1. /\ ReqsOK' /\ Same(r) /\ Phase(r)' = "generating" /\ In(r)' = In(r)
        /\ reqs'[r].status = 0
    BY <1>1, <1>2, <1>4, GotoFacts DEF Phases, Unserved
  <2>2. /\ r \in DOMAIN calls' /\ DOMAIN calls' \ {r} = DOMAIN calls \ {r}
        /\ models' = models
    BY <1>4, CallOpened DEF StartComplete
  <2>3. Waits(r)' /\ ~Billable(r)'
    BY <1>1, <2>1 DEF Waits, Billable, Accepts
  <2> QED
    BY <1>1, <1>2, <2>1, <2>2, <2>3, CallStepKeeps
<1> QED
  BY <1>3, <1>4 DEF StartChat

LEMMA StartStreamKeeps ==
    ASSUME PipelineInv, NEW r \in Requests, StartStream(r)
    PROVE  PipelineInv'
<1>1. /\ Phase(r) = "admitted" /\ Phase(r) \in Unserved /\ Answer(r, 200)
      /\ UNCHANGED <<limiterVars, usageVars>>
      /\ Accepts("stream", In(r)) /\ In(r).route = "stream"
      /\ OpenStream(r, In(r).model, In(r).max_tokens, In(r).stops)
  BY DEF StartStream, Unserved, Accepted, Accepts
<1>2. ~Billable(r)
  BY <1>1, Early
<1>3. /\ ReqsOK' /\ Same(r) /\ In(r)' = In(r) /\ reqs'[r].status = 200
      /\ Phase(r)' = "answered"
  BY <1>1, Answered DEF Codes, Public
<1>4. /\ r \in DOMAIN calls' /\ DOMAIN calls' \ {r} = DOMAIN calls \ {r}
      /\ models' = models
  BY <1>1, CallOpened DEF OpenStream
<1>5. Waits(r)' /\ ~Billable(r)'
  BY <1>1, <1>3 DEF Waits, Billable, Accepts
<1> QED
  BY <1>1, <1>2, <1>3, <1>4, <1>5, CallStepKeeps

LEMMA PullKeeps ==
    ASSUME PipelineInv, NEW r \in Requests, Pull(r) \/ Disconnect(r)
    PROVE  PipelineInv'
<1>1. /\ Phase(r) = "streaming" /\ Phase(r) # "idle" /\ ReqsOK
      /\ UNCHANGED <<limiterVars, usageVars>>
  BY DEF Pull, Disconnect, PipelineInv
<1>2. CASE reqs' = reqs /\ \E chunk, words : Yield(r, chunk, words)
  <2>1. DOMAIN calls' = DOMAIN calls /\ models' = models
    BY <1>2, CallAdvanced
  <2>2. ReqsOK' /\ Same(r)
    BY <1>1, <1>2 DEF ReqsOK, Same, ReqOK
  <2>3. Waits(r)' <=> Waits(r)
    BY <1>2 DEF Waits, Phase, In
  <2>4. r \in DOMAIN calls <=> Waits(r)
    BY DEF PipelineInv, CallsMatchRequests, Waits
  <2>5. /\ In(r)' = In(r) /\ reqs'[r].status = reqs[r].status
        /\ reqs'[r].completion = reqs[r].completion
    BY <1>2 DEF In
  <2> QED
    BY <1>1, <2>1, <2>2, <2>3, <2>4, <2>5, CallStepKeeps
<1>3. ASSUME EndCall(r), NEW how \in {"aborted", "whole", "disconnected"}, EndStream(r, how)
      PROVE  PipelineInv'
  <2>1. /\ r \notin DOMAIN calls' /\ DOMAIN calls' \ {r} = DOMAIN calls \ {r}
        /\ models' = models
    BY <1>3, CallEnded
  <2>2. /\ ReqsOK' /\ Same(r) /\ Phase(r)' = "done" /\ In(r)' = In(r)
        /\ reqs'[r].status = reqs[r].status /\ reqs'[r].completion = reqs[r].completion
    BY <1>1, <1>3, EndStreamFacts
  <2>3. ~Waits(r)'
    BY <2>2 DEF Waits
  <2> QED
    BY <1>1, <2>1, <2>2, <2>3, CallStepKeeps
<1> QED
  <2>1. CASE Pull(r)
    BY <1>2, <1>3, <2>1 DEF Pull, PullRole, PullFirstWord, PullWord, PullFinish, PullDone,
                            PullRaises
  <2>2. CASE Disconnect(r)
    BY <1>3, <2>2 DEF Disconnect
  <2> QED
    BY <2>1, <2>2

LEMMA StampKeeps ==
    ASSUME PipelineInv, NEW r \in Requests, Stamp(r)
    PROVE  PipelineInv'
<1>1. /\ Phase(r) = "answered" /\ Phase(r) # "idle" /\ ReqsOK /\ LimiterOK'
      /\ UNCHANGED <<usageVars, engineVars>>
  BY ReadKeeps DEF Stamp, PipelineInv
<1>2. PICK phase \in {"streaming", "done"} :
         Goto(r, phase) /\ (phase = "streaming" <=> r \in DOMAIN calls)
  BY DEF Stamp
<1>3. /\ ReqsOK' /\ Same(r) /\ Phase(r)' = phase
      /\ In(r)' = In(r) /\ reqs'[r].status = reqs[r].status
      /\ reqs'[r].completion = reqs[r].completion
  BY <1>1, <1>2, GotoFacts DEF Phases, Unserved
<1>4. r \in DOMAIN calls <=> Waits(r)
  BY DEF PipelineInv, CallsMatchRequests, Waits
<1>5. Waits(r)' <=> r \in DOMAIN calls
  BY <1>1, <1>2, <1>3, <1>4 DEF Waits, Accepts
<1>6. CallsMatchRequests'
  <2>1. calls' = calls
    BY <1>1 DEF engineVars
  <2> QED
    BY <1>3, <1>5, <2>1, CallsStep DEF PipelineInv
<1>7. LedgerExact'
  BY <1>1, <1>3, LedgerFrame DEF PipelineInv
<1>8. TrackerOK(Requests, Users, ModelIds)' /\ EngineOK'
  BY <1>1, TrackerFrame DEF PipelineInv, EngineOK, engineVars
<1> QED
  BY <1>1, <1>3, <1>6, <1>7, <1>8 DEF PipelineInv

(* A step that records usage for the request it answers.                      *)
LEMMA BillingKeeps ==
    ASSUME PipelineInv, NEW r \in Requests, Phase(r) \in {"admitted", "generating"},
           In(r).route \in {"chat", "embed"}, NEW n \in Nat,
           RecordUsage(r, In(r).user, In(r).model, In(r).prompt, n), Reply(r, 200, n),
           UNCHANGED limiterVars, models' = models,
           DOMAIN calls' \ {r} = DOMAIN calls \ {r}, r \notin DOMAIN calls'
    PROVE  PipelineInv'
<1>1. Phase(r) \in Unserved /\ Phase(r) # "idle" /\ ReqsOK
  BY DEF Unserved, PipelineInv
<1>2. ~Billable(r) /\ In(r) \in InputType /\ In(r).user \in Users
  BY <1>1, Early DEF Public
<1>3. /\ In(r).model \in ModelIds /\ In(r).prompt \in Nat
  BY <1>2 DEF InputType
<1>4. /\ ReqsOK' /\ Same(r) /\ Phase(r)' = "answered" /\ In(r)' = In(r)
      /\ reqs'[r].status = 200 /\ reqs'[r].completion = n
  BY <1>1, ReplyFacts DEF Codes, Public
<1>5. Billable(r)' /\ ~Waits(r)'
  BY <1>4 DEF Billable, Waits, Accepts
<1>6. LedgerExact'
  BY <1>2, <1>4, <1>5, LedgerBill DEF PipelineInv
<1>7. CallsMatchRequests'
  BY <1>4, <1>5, CallsStep DEF PipelineInv
<1>8. TrackerOK(Requests, Users, ModelIds)'
  BY <1>2, <1>3, RecordTyped DEF PipelineInv
<1>9. LimiterOK' /\ EngineOK'
  BY LimiterFrame DEF PipelineInv, EngineOK
<1> QED
  BY <1>4, <1>6, <1>7, <1>8, <1>9 DEF PipelineInv

LEMMA RepliesTyped ==
    ASSUME NEW max_tokens \in Nat \ {0}, NEW stops, NEW n \in Replies(max_tokens, stops)
    PROVE  n \in Nat
  BY ReplyAssumption DEF Replies

LEMMA FinishChatKeeps ==
    ASSUME PipelineInv, NEW r \in Requests, FinishChat(r)
    PROVE  PipelineInv'
<1>1. /\ Phase(r) = "generating" /\ Phase(r) \in Unserved /\ Phase(r) # "idle" /\ ReqsOK
      /\ UNCHANGED limiterVars /\ EndCall(r)
  BY DEF FinishChat, Unserved, PipelineInv
<1>2. /\ r \in DOMAIN calls /\ r \notin DOMAIN calls'
      /\ DOMAIN calls' \ {r} = DOMAIN calls \ {r} /\ models' = models
  BY <1>1, CallEnded
<1>3. ~Billable(r) /\ In(r) \in InputType
  BY <1>1, Early
<1>4. In(r).route = "chat"
  BY <1>1, <1>2 DEF PipelineInv, CallsMatchRequests, Accepts
<1>5. In(r).max_tokens \in Nat \ {0}
  BY <1>3 DEF InputType
<1>6. CASE Answer(r, 500) /\ UNCHANGED usageVars
  <2>1. /\ ReqsOK' /\ Same(r) /\ reqs'[r].status = 500 /\ Phase(r)' = "answered"
    BY <1>1, <1>4, <1>6, ReplyFacts DEF Codes, Public, Answer
  <2>2. ~Waits(r)' /\ ~Billable(r)'
    BY <2>1 DEF Waits, Billable
  <2> QED
    BY <1>1, <1>2, <1>3, <1>6, <2>1, <2>2, CallStepKeeps
<1>7. ASSUME NEW n \in Replies(In(r).max_tokens, In(r).stops),
             RecordUsage(r, In(r).user, In(r).model, In(r).prompt, n), Reply(r, 200, n)
      PROVE  PipelineInv'
  <2>1. n \in Nat
    BY <1>5, <1>7, RepliesTyped
  <2> QED
    BY <1>1, <1>2, <1>4, <1>7, <2>1, BillingKeeps
<1> QED
  BY <1>6, <1>7 DEF FinishChat

LEMMA EmbedKeeps ==
    ASSUME PipelineInv, NEW r \in Requests, Embed(r)
    PROVE  PipelineInv'
<1>1. /\ Phase(r) = "admitted" /\ Phase(r) \in Unserved /\ Phase(r) # "idle" /\ ReqsOK
      /\ UNCHANGED <<limiterVars, engineVars>> /\ In(r).route = "embed" /\ LimiterOK'
  BY LimiterFrame DEF Embed, Unserved, Accepted, Accepts, PipelineInv
<1>2. ~Billable(r) /\ ~Waits(r)
  BY <1>1, Early
<1>3. ASSUME reqs'[r].status \in {404, 500}, ReqsOK', Same(r), UNCHANGED usageVars,
             Phase(r)' # "generating"
      PROVE  PipelineInv'
  BY <1>1, <1>2, <1>3, PlainStep DEF Waits, Billable
<1>4. CASE Answer(r, 404) /\ UNCHANGED usageVars
  <2>1. ReqsOK' /\ Same(r) /\ reqs'[r].status = 404 /\ Phase(r)' = "answered"
    BY <1>1, <1>4, ReplyFacts DEF Codes, Public, Answer
  <2> QED
    BY <1>3, <1>4, <2>1
<1>5. CASE Finish(r, 500) /\ UNCHANGED usageVars
  <2>1. ReqsOK' /\ Same(r) /\ reqs'[r].status = 500 /\ Phase(r)' = "done"
    BY <1>1, <1>5, FinishFacts DEF Codes
  <2> QED
    BY <1>3, <1>5, <2>1
<1>6. CASE RecordUsage(r, In(r).user, In(r).model, In(r).prompt, 0) /\ Answer(r, 200)
  <2>1. calls' = calls /\ models' = models /\ r \notin DOMAIN calls
    BY <1>1, <1>2 DEF engineVars, PipelineInv, CallsMatchRequests, Waits
  <2> QED
    BY <1>1, <1>6, <2>1, BillingKeeps DEF Answer
<1> QED
  BY <1>4, <1>5, <1>6 DEF Embed

LEMMA QuietKeeps ==
    ASSUME PipelineInv, UNCHANGED <<calls, reqs>>, records' = records,
           LimiterOK', TrackerOK(Requests, Users, ModelIds)', EngineOK'
    PROVE  PipelineInv'
<1>1. CallsMatchRequests'
  BY DEF PipelineInv, CallsMatchRequests, Phase, In
<1>2. LedgerExact'
  BY DEF PipelineInv, LedgerExact, Bills, Billable, In
<1>3. ReqsOK'
  BY DEF PipelineInv, ReqsOK, ReqOK
<1> QED
  BY <1>1, <1>2, <1>3 DEF PipelineInv

LEMMA EnvironmentKeeps ==
    ASSUME PipelineInv, Environment
    PROVE  PipelineInv'
<1>1. CASE Tick /\ UNCHANGED <<usageVars, engineVars, reqs>>
  <2>1. LimiterOK' /\ TrackerOK(Requests, Users, ModelIds)' /\ EngineOK'
    BY <1>1, TickKeeps, TrackerFrame DEF PipelineInv, EngineOK, engineVars
  <2> QED
    BY <1>1, <2>1, QuietKeeps DEF usageVars, engineVars
<1>2. CASE ClockTick /\ UNCHANGED <<limiterVars, engineVars, reqs>>
  <2>1. LimiterOK' /\ TrackerOK(Requests, Users, ModelIds)' /\ EngineOK'
    BY <1>2, ClockTyped, LimiterFrame DEF PipelineInv, EngineOK, engineVars
  <2> QED
    BY <1>2, <2>1, QuietKeeps DEF ClockTick, engineVars
<1>3. ASSUME NEW reg \in Registrations, RegisterModel(reg[1], reg[2]),
             UNCHANGED <<limiterVars, usageVars, reqs>>
      PROVE  PipelineInv'
  <2>1. reg[1] \in ModelIds /\ reg[2] \in Statuses
    BY PipelineAssumption
  <2>2. EngineOK' /\ calls' = calls
    BY <1>3, <2>1 DEF PipelineInv, EngineOK, RegisterModel, Put
  <2>3. LimiterOK' /\ TrackerOK(Requests, Users, ModelIds)'
    BY <1>3, LimiterFrame, TrackerFrame DEF PipelineInv
  <2> QED
    BY <1>3, <2>2, <2>3, QuietKeeps DEF usageVars
<1> QED
  BY <1>1, <1>2, <1>3 DEF Environment

LEMMA PipelineStarts ==
    ASSUME Init
    PROVE  PipelineInv
<1>1. ReqsOK
  <2>1. ReqOK(Idle)
    BY DEF Idle, ReqOK, Req, Phases, Codes, Endings, Asked, Unserved
  <2> QED
    BY <2>1 DEF Init, ReqsOK
<1>2. LimiterOK /\ EngineOK
  BY PipelineAssumption DEF Init, LimiterInit, EngineInit, LimiterOK, EngineOK, Empty, Statuses
<1>3. TrackerOK(Requests, Users, ModelIds)
  BY TrackerStarts DEF Init
<1>4. \A r \in Requests : Phase(r) = "idle" /\ reqs[r].status = 0
  BY DEF Init, Idle, Phase
<1>5. CallsMatchRequests
  <2>1. DOMAIN calls = {}
    BY DEF Init, EngineInit, Empty
  <2> QED
    BY <1>4, <2>1 DEF CallsMatchRequests
<1>6. LedgerExact
  <2>1. DOMAIN records = {}
    BY DEF Init, UsageInit
  <2> QED
    BY <1>4, <2>1 DEF LedgerExact, Billable, Bills
<1> QED
  BY <1>1, <1>2, <1>3, <1>5, <1>6 DEF PipelineInv

LEMMA PipelineSteps == PipelineInv /\ [Next]_vars => PipelineInv'
<1> SUFFICES ASSUME PipelineInv, [Next]_vars PROVE PipelineInv'
  OBVIOUS
<1>1. ASSUME NEW r \in Requests, Serve(r) PROVE PipelineInv'
  BY <1>1, AuthenticateKeeps, LimitKeeps, RejectKeeps, StartChatKeeps, FinishChatKeeps,
     StartStreamKeeps, EmbedKeeps, ReadOnlyKeeps, StampKeeps, PullKeeps DEF Serve
<1>2. ASSUME NEW r \in Requests, Disconnect(r) PROVE PipelineInv'
  BY <1>2, PullKeeps
<1>3. ASSUME NEW r \in Requests, NEW input \in Inputs, Arrive(r, input) PROVE PipelineInv'
  BY <1>3, ArriveKeeps
<1>4. CASE Environment
  BY <1>4, EnvironmentKeeps
<1>5. CASE UNCHANGED vars
  <2>1. LimiterOK' /\ TrackerOK(Requests, Users, ModelIds)' /\ EngineOK'
    BY <1>5, LimiterFrame, TrackerFrame DEF vars, PipelineInv, EngineOK, engineVars
  <2> QED
    BY <1>5, <2>1, QuietKeeps DEF vars, usageVars, engineVars
<1> QED
  BY <1>1, <1>2, <1>3, <1>4, <1>5 DEF Next

LEMMA PipelineInvariant == Spec => []PipelineInv
  BY PipelineStarts, PipelineSteps, PTL DEF Spec

-----------------------------------------------------------------------------

(* Whatever the requests, models and timing, every variable keeps its type, and *)
(* only authenticated users have buckets, records and totals.               *)
THEOREM PipelineTypeCorrect == Spec => []TypeOK
<1>1. PipelineInv => TypeOK
  BY DEF PipelineInv, ReqsOK, ReqOK, Req, Codes, LimiterOK, Sound, TrackerOK, EngineOK,
         CallsMatchRequests, TypeOK, Phase, In
<1> QED
  BY <1>1, PipelineInvariant, PTL

(* For any number of concurrent requests: the engine's calls are exactly those  *)
(* of requests that still wait for them, so none outlives its request.        *)
THEOREM CallsAreOwned == Spec => []CallsMatchRequests
<1>1. PipelineInv => CallsMatchRequests
  BY DEF PipelineInv
<1> QED
  BY <1>1, PipelineInvariant, PTL

(* For any number of concurrent requests: a request is billed exactly when it   *)
(* was served, once, for what its response reports.                          *)
THEOREM LedgerIsExact == Spec => []LedgerExact
<1>1. PipelineInv => LedgerExact
  BY DEF PipelineInv
<1> QED
  BY <1>1, PipelineInvariant, PTL

-----------------------------------------------------------------------------
(* The budget.  A step changes either which requests are past the limiter, and  *)
(* then it is Limit and has taken a token, or what the buckets hold, and then   *)
(* their levels stay or accrue.                                             *)

Handled(u) == {r \in Requests : PastLimiter(r) /\ In(r).user = u}

Within(n, b, t) == n * Minute + LevelAt(b, t) <= b.capacity * Minute + t * b.capacity

Budget(u) ==
    IF Known(u) THEN Within(Cardinality(Handled(u)), buckets[u], now)
    ELSE Cardinality(Handled(u)) = 0

LEMMA HandledFinite ==
    ASSUME NEW u
    PROVE  IsFiniteSet(Handled(u)) /\ Cardinality(Handled(u)) \in Nat
<1>1. Handled(u) \subseteq Requests
  BY DEF Handled
<1> QED
  BY <1>1, PipelineAssumption, FS_Subset, FS_CardinalityType

LEMMA WithinTick ==
    ASSUME NEW n \in Nat, NEW t \in Nat, NEW b, Sound(b, t), Within(n, b, t)
    PROVE  Within(n, b, t + 1)
<1>1. (t + 1) * b.capacity = t * b.capacity + b.capacity
  BY SMT DEF Sound, Bucket
<1>2. /\ n * Minute \in Nat /\ b.capacity * Minute \in Nat /\ t * b.capacity \in Nat
      /\ b.capacity \in Nat
  BY ProductNat, TimeAssumption DEF Sound, Bucket
<1>3. /\ LevelAt(b, t) \in Nat /\ LevelAt(b, t + 1) \in Nat
      /\ LevelAt(b, t + 1) <= LevelAt(b, t) + b.capacity
  BY LevelTick, LevelRange
<1> QED
  BY <1>1, <1>2, <1>3 DEF Within

LEMMA WithinTake ==
    ASSUME now \in Nat, NEW n \in Nat, NEW b, Sound(b, now), Affords(b, 1), Within(n, b, now)
    PROVE  Within(n + 1, Take(b, 1), now)
<1>1. (n + 1) * Minute = n * Minute + Minute
  BY TimeAssumption, SMT
<1>2. /\ n * Minute \in Nat /\ b.capacity * Minute \in Nat /\ now * b.capacity \in Nat
      /\ Minute \in Nat
  BY ProductNat, TimeAssumption DEF Sound, Bucket
<1>3. /\ Level(Take(b, 1)) = Level(b) - 1 * Minute /\ Take(b, 1).capacity = b.capacity
      /\ Level(b) \in Nat
  BY TakeFacts, LevelRange DEF Level
<1> QED
  BY <1>1, <1>2, <1>3 DEF Within, Level

LEMMA WithinFull ==
    ASSUME now \in Nat, NEW b, Sound(b, now), Level(b) = b.capacity * Minute
    PROVE  Within(0, b, now)
<1>1. b.capacity * Minute \in Nat /\ now * b.capacity \in Nat
  BY ProductNat, TimeAssumption DEF Sound, Bucket
<1> QED
  BY <1>1, TimeAssumption DEF Within, Level

(* What the limiter would take a token from is within the budget.             *)
LEMMA WithinGet ==
    ASSUME LimiterOK, NEW u, Budget(u)
    PROVE  /\ Sound(GetBucket(u, 0), now)
           /\ Within(Cardinality(Handled(u)), GetBucket(u, 0), now)
<1>1. Sound(GetBucket(u, 0), now)
  BY GetBucketFacts DEF LimiterOK, Known
<1>2. CASE Known(u)
  BY <1>1, <1>2, GetBucketFacts DEF LimiterOK, Budget, Known
<1>3. CASE ~Known(u)
  BY <1>1, <1>3, GetBucketFacts, WithinFull DEF LimiterOK, Budget, Known
<1> QED
  BY <1>1, <1>2, <1>3

(* Steps that move no request past the limiter.                              *)
LEMMA StillHandled ==
    ASSUME LimiterOK, HandledWithinBudget,
           \A u \in Users : Handled(u)' = Handled(u),
           \/ UNCHANGED limiterVars
           \/ Tick
           \/ \E u : ReadRemaining(u)
           \/ \E u \in Users : Deny(u, 1, 0)
    PROVE  HandledWithinBudget'
<1>1. \A u \in Users : Budget(u)
  BY DEF HandledWithinBudget, Budget, Within, Handled, Level
<1>2. ASSUME NEW u \in Users PROVE Budget(u)'
  <2>1. PICK n \in Nat : n = Cardinality(Handled(u)) /\ n = Cardinality(Handled(u)')
    BY HandledFinite
  <2>2. now \in Nat /\ (Known(u) => Sound(buckets[u], now) /\ Within(n, buckets[u], now))
        /\ (~Known(u) => n = 0)
    BY <1>1, <2>1 DEF LimiterOK, Budget, Known
  <2>3. CASE UNCHANGED limiterVars
    BY <2>1, <2>2, <2>3 DEF limiterVars, Known, Budget, Within, LevelAt
  <2>4. CASE Tick
    <3>1. Known(u) => Within(n, buckets[u], now + 1)
      BY <2>2, WithinTick
    <3> QED
      BY <2>1, <2>2, <2>4, <3>1 DEF Tick, Known, Budget, Within, LevelAt
  <2>5. ASSUME NEW v, ReadRemaining(v) PROVE Budget(u)'
    <3>1. Known(u)' = Known(u) /\ now' = now
      BY <2>5 DEF ReadRemaining, Known, Put
    <3>2. Known(u) => Within(n, buckets'[u], now)
      <4>1. Known(u) => buckets'[u] = buckets[u] \/ buckets'[u] = Refill(buckets[u])
        BY <2>5 DEF ReadRemaining, Known, Put
      <4>2. Known(u) => /\ Level(Refill(buckets[u])) = Level(buckets[u])
                        /\ Refill(buckets[u]).capacity = buckets[u].capacity
        BY <2>2, RefillFacts
      <4> QED
        BY <2>2, <4>1, <4>2 DEF Within, Level
    <3> QED
      BY <2>1, <2>2, <3>1, <3>2 DEF Budget, Within, LevelAt
  <2>6. ASSUME NEW v \in Users, Deny(v, 1, 0) PROVE Budget(u)'
    <3>1. now' = now /\ buckets' = Put(buckets, v, Refill(GetBucket(v, 0)))
      BY <2>6 DEF Deny
    <3>2. CASE u # v
      <4>1. Known(u)' = Known(u) /\ (Known(u) => buckets'[u] = buckets[u])
        BY <3>1, <3>2 DEF Put, Known
      <4> QED
        BY <2>1, <2>2, <3>1, <4>1 DEF Budget, Within, LevelAt
    <3>3. CASE u = v
      <4>1. Known(u)' /\ buckets'[u] = Refill(GetBucket(u, 0))
        BY <3>1, <3>3, WriteFacts
      <4>2. Sound(GetBucket(u, 0), now) /\ Within(n, GetBucket(u, 0), now)
        BY <1>1, <2>1, WithinGet
      <4>3. Within(n, Refill(GetBucket(u, 0)), now)
        BY <2>2, <4>2, RefillFacts DEF Within, Level
      <4> QED
        BY <2>1, <3>1, <4>1, <4>3 DEF Budget, Within, LevelAt
    <3> QED
      BY <3>2, <3>3
  <2> QED
    BY <2>3, <2>4, <2>5, <2>6
<1> QED
  BY <1>2 DEF HandledWithinBudget, Budget, Within, Handled, Level, Known, LevelAt

LEMMA SamePast ==
    ASSUME NEW r \in Requests, Same(r), PastLimiter(r)' <=> PastLimiter(r),
           PastLimiter(r) => In(r)' = In(r)
    PROVE  \A u \in Users : Handled(u)' = Handled(u)
<1>1. \A q \in Requests \ {r} : (PastLimiter(q)' <=> PastLimiter(q)) /\ In(q)' = In(q)
  BY DEF Same, PastLimiter, Phase, In
<1>2. ASSUME NEW u \in Users PROVE Handled(u)' = Handled(u)
  <2>1. \A q \in Requests :
           PastLimiter(q)' /\ In(q)'.user = u <=> PastLimiter(q) /\ In(q).user = u
    BY <1>1
  <2>2. Handled(u)' = {q \in Requests : PastLimiter(q)' /\ In(q)'.user = u}
    BY DEF Handled
  <2> QED
    BY <2>1, <2>2 DEF Handled
<1> QED
  BY <1>2

(* An answer given inside the stack leaves a handled request handled.          *)
LEMMA ReplyPast ==
    ASSUME PipelineInv, NEW r \in Requests, Phase(r) \in {"admitted", "generating"},
           \/ \E status \in {200, 400, 404, 405, 422, 500, 503}, n \in Nat : Reply(r, status, n)
           \/ Finish(r, 500)
           \/ Goto(r, "generating")
    PROVE  \A u \in Users : Handled(u)' = Handled(u)
<1>1. Phase(r) \in Unserved /\ Phase(r) # "idle" /\ ReqsOK
  BY DEF Unserved, PipelineInv
<1>2. reqs[r].status = 0 /\ (In(r).route \in Public \/ In(r).user \in Users)
  BY <1>1, Early
<1>3. PastLimiter(r) <=> In(r).route \notin Public
  BY <1>2 DEF PastLimiter
<1>4. ASSUME Same(r), In(r)' = In(r), Phase(r)' \in {"generating", "answered", "done"},
             reqs'[r].status \notin {401, 429}
      PROVE  \A u \in Users : Handled(u)' = Handled(u)
  <2>1. PastLimiter(r)' <=> In(r).route \notin Public
    BY <1>4 DEF PastLimiter
  <2> QED
    BY <1>3, <1>4, <2>1, SamePast
<1>5. ASSUME NEW status \in {200, 400, 404, 405, 422, 500, 503}, NEW n \in Nat, Reply(r, status, n)
      PROVE  \A u \in Users : Handled(u)' = Handled(u)
  <2>1. status \in Codes /\ status \notin {401, 429}
    BY DEF Codes
  <2>2. /\ Same(r) /\ In(r)' = In(r) /\ reqs'[r].status = status
        /\ Phase(r)' \in {"answered", "done"}
    BY <1>1, <1>5, <2>1, ReplyFacts
  <2> QED
    BY <1>4, <2>1, <2>2
<1>6. CASE Finish(r, 500)
  <2>1. Same(r) /\ In(r)' = In(r) /\ reqs'[r].status = 500 /\ Phase(r)' = "done"
    BY <1>1, <1>6, FinishFacts DEF Codes
  <2> QED
    BY <1>4, <2>1
<1>7. CASE Goto(r, "generating")
  <2>1. Same(r) /\ In(r)' = In(r) /\ reqs'[r].status = 0 /\ Phase(r)' = "generating"
    BY <1>1, <1>2, <1>7, GotoFacts DEF Phases, Unserved
  <2> QED
    BY <1>4, <2>1
<1> QED
  BY <1>5, <1>6, <1>7

(* So does what happens to it afterwards.                                   *)
LEMMA AfterPast ==
    ASSUME PipelineInv, NEW r \in Requests, Phase(r) \in {"answered", "streaming"},
           \/ \E phase \in {"streaming", "done"} : Goto(r, phase)
           \/ \E how \in {"aborted", "whole", "disconnected"} : EndStream(r, how)
           \/ reqs' = reqs
    PROVE  \A u \in Users : Handled(u)' = Handled(u)
<1>1. ReqsOK /\ Phase(r) # "idle"
  BY DEF PipelineInv
<1>2. /\ Same(r) /\ In(r)' = In(r) /\ reqs'[r].status = reqs[r].status
      /\ Phase(r)' \in {"answered", "streaming", "done"}
  <2>1. CASE \E phase \in {"streaming", "done"} : Goto(r, phase)
    BY <1>1, <2>1, GotoFacts DEF Phases, Unserved
  <2>2. CASE \E how \in {"aborted", "whole", "disconnected"} : EndStream(r, how)
    BY <1>1, <2>2, EndStreamFacts
  <2>3. CASE reqs' = reqs
    BY <2>3 DEF Same, In, Phase
  <2> QED
    BY <2>1, <2>2, <2>3
<1>3. PastLimiter(r)' <=> PastLimiter(r)
  BY <1>2 DEF PastLimiter
<1> QED
  BY <1>2, <1>3, SamePast

(* The rate-limit middleware, the one step that lets a request past.          *)
LEMMA LimitCharges ==
    ASSUME PipelineInv, HandledWithinBudget, NEW r \in Requests, Limit(r)
    PROVE  HandledWithinBudget'
<1>1. /\ Phase(r) = "authenticated" /\ Phase(r) \in Unserved /\ Phase(r) # "idle"
      /\ ReqsOK /\ LimiterOK /\ ~PastLimiter(r)
  BY DEF Limit, Unserved, PipelineInv, PastLimiter
<1>2. reqs[r].status = 0 /\ (In(r).route \in Public \/ In(r).user \in Users)
  BY <1>1, Early
<1>3. ASSUME Goto(r, "admitted")
      PROVE  /\ Same(r) /\ In(r)' = In(r)
             /\ PastLimiter(r)' <=> In(r).route \notin Public
  <2>1. Same(r) /\ In(r)' = In(r) /\ reqs'[r].status = 0 /\ Phase(r)' = "admitted"
    BY <1>1, <1>2, <1>3, GotoFacts DEF Phases, Unserved
  <2> QED
    BY <2>1 DEF PastLimiter
<1>4. CASE In(r).route \in Public /\ Goto(r, "admitted") /\ UNCHANGED limiterVars
  BY <1>1, <1>3, <1>4, SamePast, StillHandled
<1>5. CASE In(r).route \notin Public /\ Deny(In(r).user, 1, 0) /\ Finish(r, 429)
  <2>1. Same(r) /\ reqs'[r].status = 429
    BY <1>1, <1>5, FinishFacts DEF Codes
  <2>2. ~PastLimiter(r)'
    BY <2>1 DEF PastLimiter
  <2> QED
    BY <1>1, <1>2, <1>5, <2>1, <2>2, SamePast, StillHandled
<1>6. CASE In(r).route \notin Public /\ Allow(In(r).user, 1, 0) /\ Goto(r, "admitted")
  <2> PICK v : v = In(r).user
    OBVIOUS
  <2> PICK b : b = GetBucket(v, 0)
    OBVIOUS
  <2>1. /\ v \in Users /\ Affords(b, 1) /\ now' = now
        /\ buckets' = Put(buckets, v, Take(b, 1))
        /\ In(r).user = v /\ b = GetBucket(v, 0)
    BY <1>2, <1>6 DEF Allow
  <2>2. \A u \in Users : Budget(u)
    BY DEF HandledWithinBudget, Budget, Within, Handled, Level
  <2>3. /\ Same(r) /\ In(r)' = In(r) /\ PastLimiter(r)'
    BY <1>3, <1>6
  <2>4. \A q \in Requests \ {r} : (PastLimiter(q)' <=> PastLimiter(q)) /\ In(q)' = In(q)
    BY <2>3 DEF Same, PastLimiter, Phase, In
  <2>5. ASSUME NEW u
        PROVE  Handled(u)' = IF u = v THEN Handled(u) \cup {r} ELSE Handled(u)
    <3>1. Handled(u)' = {q \in Requests : PastLimiter(q)' /\ In(q)'.user = u}
      BY DEF Handled
    <3> QED
      BY <1>1, <2>1, <2>3, <2>4, <3>1 DEF Handled
  <2>6. ASSUME NEW u \in Users, u # v PROVE Budget(u)'
    <3>1. Known(u)' = Known(u) /\ (Known(u) => buckets'[u] = buckets[u])
      BY <2>1, <2>6 DEF Put, Known
    <3> QED
      BY <2>1, <2>2, <2>5, <2>6, <3>1 DEF Budget, Within, LevelAt
  <2>7. Budget(v)'
    <3>1. PICK n \in Nat : n = Cardinality(Handled(v))
      BY HandledFinite
    <3>2. Cardinality(Handled(v)') = n + 1
      <4>1. r \notin Handled(v) /\ Handled(v)' = Handled(v) \cup {r}
        BY <1>1, <2>5 DEF Handled
      <4> QED
        BY <3>1, <4>1, HandledFinite, FS_AddElement
    <3>3. now \in Nat /\ Sound(b, now) /\ Within(n, b, now)
      BY <1>1, <2>1, <2>2, <3>1, WithinGet DEF LimiterOK
    <3>4. Within(n + 1, Take(b, 1), now)
      BY <2>1, <3>3, WithinTake
    <3>5. Known(v)' /\ buckets'[v] = Take(b, 1)
      BY <2>1, WriteFacts
    <3> QED
      BY <2>1, <2>3, <3>2, <3>4, <3>5 DEF Budget, Within, LevelAt
  <2>8. \A u \in Users : Budget(u)'
    BY <2>6, <2>7
  <2> QED
    BY <2>8 DEF HandledWithinBudget, Budget, Within, Handled, Level, LevelAt, Known
<1> QED
  BY <1>4, <1>5, <1>6 DEF Limit

LEMMA BudgetSteps ==
    PipelineInv /\ HandledWithinBudget /\ [Next]_vars => HandledWithinBudget'
<1> SUFFICES ASSUME PipelineInv, HandledWithinBudget, [Next]_vars PROVE HandledWithinBudget'
  OBVIOUS
<1>0. LimiterOK
  BY DEF PipelineInv
<1>1. ASSUME NEW r \in Requests, NEW input \in Inputs, Arrive(r, input)
      PROVE  HandledWithinBudget'
  <2>1. Same(r) /\ Phase(r) = "idle" /\ Phase(r)' = "arrived"
    BY <1>1, ArriveFacts DEF PipelineInv
  <2>2. ~PastLimiter(r) /\ ~PastLimiter(r)'
    BY <2>1 DEF PastLimiter
  <2> QED
    BY <1>0, <1>1, <2>1, <2>2, SamePast, StillHandled DEF Arrive
<1>2. ASSUME NEW r \in Requests, Authenticate(r) PROVE HandledWithinBudget'
  <2>1. /\ Phase(r) = "arrived" /\ Phase(r) \in Unserved /\ ReqsOK
    BY <1>2 DEF Authenticate, Unserved, PipelineInv
  <2>2. reqs[r].status = 0 /\ In(r) \in InputType
    BY <2>1, Early
  <2>3. CASE (In(r).route \in Public \/ In(r).user # Nobody) /\ Goto(r, "authenticated")
    <3>1. In(r).route \in Public \/ In(r).user \in Users
      BY <2>2, <2>3 DEF InputType
    <3>2. Same(r) /\ Phase(r)' = "authenticated"
      BY <2>1, <2>3, <3>1, GotoFacts DEF Phases, Unserved
    <3>3. ~PastLimiter(r) /\ ~PastLimiter(r)'
      BY <2>1, <3>2 DEF PastLimiter
    <3> QED
      BY <1>0, <1>2, <3>2, <3>3, SamePast, StillHandled DEF Authenticate
  <2>4. CASE Finish(r, 401)
    <3>1. Same(r) /\ reqs'[r].status = 401
      BY <2>1, <2>4, FinishFacts DEF Codes
    <3>2. ~PastLimiter(r) /\ ~PastLimiter(r)'
      BY <2>1, <3>1 DEF PastLimiter
    <3> QED
      BY <1>0, <1>2, <3>1, <3>2, SamePast, StillHandled DEF Authenticate
  <2> QED
    BY <1>2, <2>3, <2>4 DEF Authenticate
<1>3. ASSUME NEW r \in Requests, Reject(r) \/ StartChat(r) \/ StartStream(r) \/ Embed(r) \/ Read(r)
      PROVE  HandledWithinBudget'
  <2>1. Phase(r) = "admitted" /\ UNCHANGED limiterVars
    BY <1>3 DEF Reject, StartChat, StartStream, Embed, Read, Accepted
  <2>2. \/ \E status \in {200, 400, 404, 405, 422, 500, 503}, n \in Nat : Reply(r, status, n)
        \/ Finish(r, 500)
        \/ Goto(r, "generating")
    BY <1>3 DEF Reject, StartChat, StartStream, Embed, Read, Answer
  <2>3. \A u \in Users : Handled(u)' = Handled(u)
    BY <2>1, <2>2, ReplyPast
  <2> QED
    BY <1>0, <2>1, <2>3, StillHandled
<1>4. ASSUME NEW r \in Requests, FinishChat(r) PROVE HandledWithinBudget'
  <2>1. Phase(r) = "generating" /\ UNCHANGED limiterVars /\ Phase(r) \in Unserved
    BY <1>4 DEF FinishChat, Unserved
  <2>2. In(r).max_tokens \in Nat \ {0}
    BY <2>1, Early DEF InputType
  <2>3. \E status \in {200, 400, 404, 405, 422, 500, 503}, n \in Nat : Reply(r, status, n)
    BY <1>4, <2>2, RepliesTyped DEF FinishChat, Answer
  <2>4. \A u \in Users : Handled(u)' = Handled(u)
    BY <2>1, <2>3, ReplyPast
  <2> QED
    BY <1>0, <2>1, <2>4, StillHandled
<1>5. ASSUME NEW r \in Requests, Stamp(r) PROVE HandledWithinBudget'
  <2>1. /\ Phase(r) = "answered" /\ ReadRemaining(In(r).user)
        /\ \E phase \in {"streaming", "done"} : Goto(r, phase)
    BY <1>5 DEF Stamp
  <2>2. \A u \in Users : Handled(u)' = Handled(u)
    BY <2>1, AfterPast
  <2> QED
    BY <1>0, <2>1, <2>2, StillHandled
<1>6. ASSUME NEW r \in Requests, Pull(r) \/ Disconnect(r) PROVE HandledWithinBudget'
  <2>1. /\ Phase(r) = "streaming" /\ UNCHANGED limiterVars
        /\ \/ \E how \in {"aborted", "whole", "disconnected"} : EndStream(r, how)
           \/ reqs' = reqs
    BY <1>6 DEF Pull, Disconnect
  <2>2. \A u \in Users : Handled(u)' = Handled(u)
    BY <2>1, AfterPast
  <2> QED
    BY <1>0, <2>1, <2>2, StillHandled
<1>7. CASE reqs' = reqs /\ (Tick \/ UNCHANGED limiterVars)
  <2>1. \A u \in Users : Handled(u)' = Handled(u)
    BY <1>7 DEF Handled, PastLimiter, Phase, In
  <2> QED
    BY <1>0, <1>7, <2>1, StillHandled
<1> QED
  BY <1>1, <1>2, <1>3, <1>4, <1>5, <1>6, <1>7, LimitCharges DEF Next, Serve, Environment, vars

(* For any number of concurrent requests and users: no more of a user's         *)
(* requests get past the middleware than the limiter could grant so far.       *)
THEOREM BudgetsHold == Spec => []HandledWithinBudget
<1>1. Init => HandledWithinBudget
  <2> SUFFICES ASSUME Init PROVE HandledWithinBudget
    OBVIOUS
  <2>1. \A u : Handled(u) = {} /\ ~Known(u)
    BY DEF Init, Idle, Phase, Handled, PastLimiter, LimiterInit, Empty, Known
  <2> QED
    BY <2>1, FS_EmptySet DEF HandledWithinBudget, Handled
<1> QED
  BY <1>1, BudgetSteps, PipelineInvariant, PTL DEF Spec

-----------------------------------------------------------------------------
(* Metering.  Which requests were answered, and for what, can be read off an    *)
(* exact ledger; so between two states with exact ledgers the answers change    *)
(* only as the records do.                                                  *)

(* The three ways in which a step may touch the tracker.                      *)
LEMMA UsageStep ==
    ASSUME PipelineInv, [Next]_vars
    PROVE  \/ UNCHANGED usageVars
           \/ ClockTick
           \/ \E r \in Requests, n \in Nat :
                 /\ In(r).user \in Users /\ In(r).prompt \in Nat
                 /\ RecordUsage(r, In(r).user, In(r).model, In(r).prompt, n)
<1>1. ASSUME NEW r \in Requests, FinishChat(r)
      PROVE  \/ UNCHANGED usageVars
             \/ \E n \in Nat :
                   /\ In(r).user \in Users /\ In(r).prompt \in Nat
                   /\ RecordUsage(r, In(r).user, In(r).model, In(r).prompt, n)
  <2>1. Phase(r) = "generating" /\ Phase(r) \in Unserved /\ Phase(r) # "idle" /\ EndCall(r)
    BY <1>1 DEF FinishChat, Unserved
  <2>2. r \in DOMAIN calls
    BY <2>1, CallEnded
  <2>3. In(r) \in InputType /\ In(r).route = "chat"
    BY <2>1, <2>2, Early DEF PipelineInv, CallsMatchRequests, Accepts
  <2>4. In(r).user \in Users /\ In(r).prompt \in Nat /\ In(r).max_tokens \in Nat \ {0}
    BY <2>1, <2>3, Early DEF Public, InputType
  <2>5. \A n \in Replies(In(r).max_tokens, In(r).stops) : n \in Nat
    BY <2>4, RepliesTyped
  <2> QED
    BY <1>1, <2>4, <2>5 DEF FinishChat
<1>2. ASSUME NEW r \in Requests, Embed(r)
      PROVE  \/ UNCHANGED usageVars
             \/ \E n \in Nat :
                   /\ In(r).user \in Users /\ In(r).prompt \in Nat
                   /\ RecordUsage(r, In(r).user, In(r).model, In(r).prompt, n)
  <2>1. Phase(r) = "admitted" /\ Phase(r) \in Unserved /\ Phase(r) # "idle" /\ In(r).route = "embed"
    BY <1>2 DEF Embed, Accepted, Accepts, Unserved
  <2>2. In(r).user \in Users /\ In(r).prompt \in Nat
    BY <2>1, Early DEF Public, InputType
  <2> QED
    BY <1>2, <2>2 DEF Embed
<1>3. ASSUME NEW r \in Requests, Serve(r), ~FinishChat(r), ~Embed(r)
      PROVE  UNCHANGED usageVars
  BY <1>3 DEF Serve, Authenticate, Limit, Reject, StartChat, StartStream, Read, Stamp, Pull
<1>4. ASSUME NEW r \in Requests, Disconnect(r) \/ \E input \in Inputs : Arrive(r, input)
      PROVE  UNCHANGED usageVars
  BY <1>4 DEF Disconnect, Arrive
<1>5. CASE Environment
  BY <1>5 DEF Environment
<1>6. CASE UNCHANGED vars
  BY <1>6 DEF vars
<1> QED
  BY <1>1, <1>2, <1>3, <1>4, <1>5, <1>6 DEF Next

Answer1(r) == [user |-> In(r).user, tokens |-> In(r).prompt + reqs[r].completion]

(* The records of a request tell whether it was answered, and how.            *)
LEMMA SameBills ==
    ASSUME LedgerExact, LedgerExact', NEW r \in Requests, Bills(r)' = Bills(r),
           \A i \in Bills(r) : records'[i] = records[i]
    PROVE  /\ Billable(r)' <=> Billable(r)
           /\ Billable(r) => Answer1(r)' = Answer1(r)
<1>1. Booked(r) /\ Booked(r)'
  BY DEF LedgerExact, Booked
<1>2. Billable(r) <=> Bills(r) # {}
  BY <1>1 DEF Booked
<1>3. Billable(r)' <=> Bills(r)' # {}
  BY <1>1 DEF Booked
<1>4. ASSUME Billable(r) PROVE Answer1(r)' = Answer1(r)
  <2>1. PICK i : /\ Bills(r) = {i}
                 /\ records[i].user = In(r).user /\ records[i].prompt = In(r).prompt
                 /\ records[i].completion = reqs[r].completion
    BY <1>1, <1>4 DEF Booked
  <2>2. PICK j : /\ Bills(r)' = {j}
                 /\ records'[j].user = In(r).user' /\ records'[j].prompt = In(r).prompt'
                 /\ records'[j].completion = reqs'[r].completion
    BY <1>1, <1>2, <1>3, <1>4 DEF Booked, In
  <2>3. i = j /\ records'[i] = records[i]
    BY <2>1, <2>2
  <2> QED
    BY <2>1, <2>2, <2>3 DEF Answer1, In
<1> QED
  BY <1>2, <1>3, <1>4

LEMMA AnswersRead ==
    /\ Responses = [r \in {r \in Requests : Billable(r)} |-> Answer1(r)]
    /\ Responses' = [r \in {r \in Requests : Billable(r)'} |-> Answer1(r)']
  BY DEF Responses, Answer1

LEMMA SameAnswers ==
    ASSUME \A r \in Requests : /\ Billable(r)' <=> Billable(r)
                               /\ Billable(r) => Answer1(r)' = Answer1(r)
    PROVE  Responses' = Responses
<1>1. {r \in Requests : Billable(r)'} = {r \in Requests : Billable(r)}
  OBVIOUS
<1>2. PICK S : S = {r \in Requests : Billable(r)}
  OBVIOUS
<1>3. \A r \in S : Answer1(r)' = Answer1(r)
  BY <1>2
<1>4. Responses = [r \in S |-> Answer1(r)] /\ Responses' = [r \in S |-> Answer1(r)']
  BY <1>1, <1>2, AnswersRead
<1> QED
  BY <1>3, <1>4

(* The step that records usage for a request is the step that answers it.     *)
LEMMA AnswerRecorded ==
    ASSUME TrackerOK(Requests, Users, ModelIds), LedgerExact, LedgerExact', NEW r \in Requests,
           NEW user, NEW model, NEW prompt, NEW n, RecordUsage(r, user, model, prompt, n)
    PROVE  /\ r \in Requests \ DOMAIN Responses
           /\ Responses' = Put(Responses, r, [user |-> user, tokens |-> prompt + n])
<1>1. PICK e, new : e = Entry(r, user, model, prompt, n) /\ new = Len(records) + 1
  OBVIOUS
<1>2. /\ records' = Append(records, e)
      /\ e.id = r /\ e.user = user /\ e.prompt = prompt /\ e.completion = n
  BY <1>1 DEF RecordUsage, Entry
<1>3. \E R : records \in Seq(R)
  BY DEF TrackerOK
<1>4. /\ DOMAIN records' = DOMAIN records \cup {new} /\ new \notin DOMAIN records
      /\ records'[new] = e
      /\ \A i \in DOMAIN records : records'[i] = records[i]
  BY <1>1, <1>2, <1>3
<1>5. \A q \in Requests \ {r} : Bills(q)' = Bills(q) /\ \A i \in Bills(q) : records'[i] = records[i]
  BY <1>2, <1>4 DEF Bills
<1>6. \A q \in Requests \ {r} : /\ Billable(q)' <=> Billable(q)
                                /\ Billable(q) => Answer1(q)' = Answer1(q)
  BY <1>5, SameBills
<1>7. Booked(r) /\ Booked(r)'
  BY DEF LedgerExact, Booked
<1>8. new \in Bills(r)' /\ Bills(r) \subseteq Bills(r)' /\ new \notin Bills(r)
  BY <1>2, <1>4 DEF Bills
<1>9. /\ Billable(r)' /\ Bills(r)' = {new}
      /\ e.user = In(r).user' /\ e.prompt = In(r).prompt' /\ e.completion = reqs'[r].completion
  BY <1>4, <1>7, <1>8 DEF Booked, In
<1>10. ~Billable(r)
  BY <1>7, <1>8, <1>9 DEF Booked
<1>11. Answer1(r)' = [user |-> user, tokens |-> prompt + n]
  BY <1>2, <1>9 DEF Answer1, In
<1>12. PICK S : S = {q \in Requests : Billable(q)}
  OBVIOUS
<1>13. {q \in Requests : Billable(q)'} = S \cup {r} /\ r \notin S
  <2>1. \A q \in Requests : Billable(q)' <=> q = r \/ Billable(q)
    BY <1>6, <1>9
  <2>2. {q \in Requests : Billable(q)'} = {q \in Requests : q = r \/ Billable(q)}
    BY <2>1
  <2> QED
    BY <1>10, <1>12, <2>2
<1>14. Responses = [q \in S |-> Answer1(q)] /\ Responses' = [q \in S \cup {r} |-> Answer1(q)']
  BY <1>12, <1>13, AnswersRead
<1>15. \A q \in S : Answer1(q)' = Answer1(q)
  BY <1>6, <1>12, <1>13
<1> QED
  BY <1>11, <1>13, <1>14, <1>15 DEF Put

(* The sums of a user's days.                                               *)
DayRequests(u) == [d \in 0..Today |-> DailyUsage(u, d).requests]
DayTokens(u) == [d \in 0..Today |-> DailyUsage(u, d).total]

LEMMA UsageRead ==
    /\ Usage = [u \in Users |-> [requests |-> SumFunction(DayRequests(u)),
                                 tokens |-> SumFunction(DayTokens(u))]]
    /\ Usage' = [u \in Users |-> [requests |-> SumFunction(DayRequests(u)'),
                                  tokens |-> SumFunction(DayTokens(u)')]]
  BY DEF Usage, DayRequests, DayTokens

LEMMA DaysTyped ==
    ASSUME TrackerOK(Requests, Users, ModelIds), NEW u
    PROVE  /\ Today \in Nat /\ IsFiniteSet(0..Today)
           /\ \A d : DailyUsage(u, d) \in Days
           /\ DOMAIN DayRequests(u) = 0..Today /\ DOMAIN DayTokens(u) = 0..Today
           /\ \A d \in 0..Today : /\ DayRequests(u)[d] = DailyUsage(u, d).requests
                                  /\ DayTokens(u)[d] = DailyUsage(u, d).total
                                  /\ DayRequests(u)[d] \in Nat /\ DayTokens(u)[d] \in Nat
           /\ SumFunction(DayRequests(u)) \in Nat /\ SumFunction(DayTokens(u)) \in Nat
<1>1. Today \in Nat /\ IsFiniteSet(0..Today)
  BY TodayFacts, FS_Interval DEF TrackerOK
<1>2. \A d : DailyUsage(u, d) \in Days
  BY DailyTyped DEF DailyUsage, TrackerOK
<1>3. \A d : DailyUsage(u, d).requests \in Nat /\ DailyUsage(u, d).total \in Nat
  BY <1>2 DEF Days
<1>4. /\ DOMAIN DayRequests(u) = 0..Today /\ DOMAIN DayTokens(u) = 0..Today
      /\ \A d \in 0..Today : /\ DayRequests(u)[d] = DailyUsage(u, d).requests
                             /\ DayTokens(u)[d] = DailyUsage(u, d).total
                             /\ DayRequests(u)[d] \in Nat /\ DayTokens(u)[d] \in Nat
  BY <1>3 DEF DayRequests, DayTokens
<1>5. SumFunction(DayRequests(u)) \in Nat /\ SumFunction(DayTokens(u)) \in Nat
  BY <1>1, <1>4, TotalTyped
<1> QED
  BY <1>1, <1>2, <1>4, <1>5

(* A day that begins adds nothing.                                          *)
LEMMA DayOfClock ==
    ASSUME NEW t \in Nat
    PROVE  (t + 1) \div DayTicks \in {t \div DayTicks, (t \div DayTicks) + 1}
<1> DEFINE p == t \div DayTicks
           q == (t + 1) \div DayTicks
<1>1. p \in Nat /\ p * DayTicks <= t /\ t < (p + 1) * DayTicks
  BY CalendarAssumption, SMT
<1>2. q \in Nat /\ q * DayTicks <= t + 1 /\ t + 1 < (q + 1) * DayTicks
  BY CalendarAssumption, SMT
<1>3. p <= q
  BY DayFacts
<1> HIDE DEF p, q
<1>4. q < p + 2
  <2> SUFFICES ASSUME q >= p + 2 PROVE FALSE
    BY <1>1, <1>2
  <2>1. q * DayTicks >= (p + 2) * DayTicks
    BY <1>1, <1>2, CalendarAssumption, SMT
  <2>2. (p + 2) * DayTicks = (p + 1) * DayTicks + DayTicks /\ DayTicks >= 1
    BY <1>1, CalendarAssumption, SMT
  <2>3. (p + 1) * DayTicks \in Int /\ (p + 2) * DayTicks \in Int /\ q * DayTicks \in Int
    BY <1>1, <1>2, CalendarAssumption, SMT
  <2> QED
    BY <1>1, <1>2, <2>1, <2>2, <2>3, CalendarAssumption
<1> QED
  BY <1>1, <1>2, <1>3, <1>4 DEF p, q

LEMMA TickUsage ==
    ASSUME TrackerOK(Requests, Users, ModelIds), ClockTick
    PROVE  Usage' = Usage
<1>1. /\ clock \in Nat /\ clock' = clock + 1 /\ daily_totals' = daily_totals
      /\ Today' \in {Today, Today + 1}
  BY DayOfClock DEF ClockTick, TrackerOK, Today
<1>2. ASSUME NEW u \in Users, Today' = Today + 1
      PROVE  /\ SumFunction(DayRequests(u)') = SumFunction(DayRequests(u))
             /\ SumFunction(DayTokens(u)') = SumFunction(DayTokens(u))
  <2>1. PICK n : n = Today + 1
    OBVIOUS
  <2>2. n \in Nat /\ n \notin 0..Today /\ 0..Today' = 0..Today \cup {n}
    BY <1>2, <2>1, DaysTyped
  <2>3. <<u, n>> \notin DOMAIN daily_totals
    BY <2>2 DEF TrackerOK
  <2>4. DailyUsage(u, n)' = Zero /\ \A d : DailyUsage(u, d)' = DailyUsage(u, d)
    BY <1>1, <2>3 DEF DailyUsage, Lookup
  <2>5. PICK f, h, D : f = DayRequests(u) /\ h = DayRequests(u)' /\ D = 0..Today
    OBVIOUS
  <2>6. SumFunction(h) = SumFunction(f)
    <3>1. /\ DOMAIN f = D /\ DOMAIN h = D \cup {n} /\ IsFiniteSet(D) /\ n \notin D
          /\ \A d \in D : h[d] = f[d] /\ f[d] \in Nat
      BY <2>2, <2>4, <2>5, DaysTyped DEF DayRequests
    <3>2. h[n] = 0
      BY <2>2, <2>4, <2>5 DEF DayRequests, Zero
    <3>3. \A d \in DOMAIN h : h[d] \in Int
      BY <3>1, <3>2
    <3>4. SumFunction(h) = SumFunction(f) + h[n]
      BY <3>1, <3>3, TotalGrows
    <3>5. SumFunction(f) \in Nat
      BY <2>5, DaysTyped
    <3> QED
      BY <3>2, <3>4, <3>5
  <2>7. PICK g, k : g = DayTokens(u) /\ k = DayTokens(u)'
    OBVIOUS
  <2>8. SumFunction(k) = SumFunction(g)
    <3>1. /\ DOMAIN g = D /\ DOMAIN k = D \cup {n} /\ IsFiniteSet(D) /\ n \notin D
          /\ \A d \in D : k[d] = g[d] /\ g[d] \in Nat
      BY <2>2, <2>4, <2>5, <2>7, DaysTyped DEF DayTokens
    <3>2. k[n] = 0
      BY <2>2, <2>4, <2>7 DEF DayTokens, Zero
    <3>3. \A d \in DOMAIN k : k[d] \in Int
      BY <3>1, <3>2
    <3>4. SumFunction(k) = SumFunction(g) + k[n]
      BY <3>1, <3>3, TotalGrows
    <3>5. SumFunction(g) \in Nat
      BY <2>7, DaysTyped
    <3> QED
      BY <3>2, <3>4, <3>5
  <2> QED
    BY <2>5, <2>6, <2>7, <2>8
<1>3. ASSUME NEW u \in Users, Today' = Today
      PROVE  DayRequests(u)' = DayRequests(u) /\ DayTokens(u)' = DayTokens(u)
  BY <1>1, <1>3 DEF DayRequests, DayTokens, DailyUsage
<1>4. CASE Today' = Today + 1
  BY <1>2, <1>4, UsageRead
<1>5. CASE Today' = Today
  BY <1>3, <1>5, UsageRead
<1> QED
  BY <1>1, <1>4, <1>5

(* One record adds one request and its tokens to its user's usage.            *)
LEMMA RecordedUsage ==
    ASSUME TrackerOK(Requests, Users, ModelIds), NEW id, NEW user \in Users, NEW model,
           NEW prompt \in Nat, NEW n \in Nat, RecordUsage(id, user, model, prompt, n)
    PROVE  Usage' = [Usage EXCEPT ![user] = [requests |-> @.requests + 1,
                                             tokens |-> @.tokens + (prompt + n)]]
<1>1. PICK today, D : today = Today /\ D = 0..Today
  OBVIOUS
<1>2. today \in Nat /\ today \in D /\ Today' = today /\ IsFiniteSet(D) /\ 0..Today' = D
  <2>1. Today' = Today
    BY DEF RecordUsage, Today
  <2>2. Today \in Nat /\ IsFiniteSet(0..Today)
    BY DaysTyped
  <2> QED
    BY <1>1, <2>1, <2>2
<1>3. /\ DOMAIN daily_totals' = DOMAIN daily_totals \cup {<<user, today>>}
      /\ daily_totals'[<<user, today>>] =
            Added(Lookup(daily_totals, <<user, today>>, Zero), prompt, n)
      /\ \A key \in DOMAIN daily_totals :
            key # <<user, today>> => daily_totals'[key] = daily_totals[key]
  <2>1. BillDay(user, today, prompt, n)
    BY <1>1 DEF RecordUsage
  <2> QED
    BY <2>1, BillFacts
<1>4. /\ DailyUsage(user, today)' = Added(DailyUsage(user, today), prompt, n)
      /\ \A u, d : u # user \/ d # today => DailyUsage(u, d)' = DailyUsage(u, d)
  BY <1>3 DEF DailyUsage, Lookup
<1>5. ASSUME NEW u \in Users, u # user
      PROVE  DayRequests(u)' = DayRequests(u) /\ DayTokens(u)' = DayTokens(u)
  BY <1>1, <1>2, <1>4, <1>5 DEF DayRequests, DayTokens
<1>6. DailyUsage(user, today) \in Days
  BY DaysTyped
<1>7. PICK f, h : f = DayRequests(user) /\ h = DayRequests(user)'
  OBVIOUS
<1>8. SumFunction(h) = SumFunction(f) + 1
  <2>1. /\ DOMAIN f = D /\ DOMAIN h = D
        /\ \A d \in D : f[d] \in Nat
        /\ \A d \in D \ {today} : h[d] = f[d]
    BY <1>1, <1>2, <1>4, <1>7, DaysTyped DEF DayRequests
  <2>2. h[today] = f[today] + 1
    BY <1>1, <1>2, <1>4, <1>6, <1>7 DEF DayRequests, Added, Days
  <2>3. \A d \in D : f[d] \in Int /\ h[d] \in Int
    BY <1>2, <2>1, <2>2
  <2>4. SumFunction(h) = SumFunction(f) - f[today] + h[today]
    BY <1>2, <2>1, <2>3, TotalChanges
  <2>5. SumFunction(f) \in Nat
    BY <1>7, DaysTyped
  <2> QED
    BY <1>2, <2>1, <2>2, <2>4, <2>5
<1>9. PICK g, k : g = DayTokens(user) /\ k = DayTokens(user)'
  OBVIOUS
<1>10. SumFunction(k) = SumFunction(g) + (prompt + n)
  <2>1. /\ DOMAIN g = D /\ DOMAIN k = D
        /\ \A d \in D : g[d] \in Nat
        /\ \A d \in D \ {today} : k[d] = g[d]
    BY <1>1, <1>2, <1>4, <1>9, DaysTyped DEF DayTokens
  <2>2. k[today] = g[today] + (prompt + n)
    BY <1>1, <1>2, <1>4, <1>6, <1>9 DEF DayTokens, Added, Days
  <2>3. \A d \in D : g[d] \in Int /\ k[d] \in Int
    BY <1>2, <2>1, <2>2
  <2>4. SumFunction(k) = SumFunction(g) - g[today] + k[today]
    BY <1>2, <2>1, <2>3, TotalChanges
  <2>5. SumFunction(g) \in Nat
    BY <1>9, DaysTyped
  <2> QED
    BY <1>2, <2>1, <2>2, <2>4, <2>5
<1> QED
  BY <1>5, <1>7, <1>8, <1>9, <1>10, UsageRead

AnswerOK == [user : Users, tokens : Nat]

LEMMA AnswersTyped ==
    ASSUME PipelineInv
    PROVE  /\ DOMAIN Responses \subseteq Requests /\ IsFiniteSet(DOMAIN Responses)
           /\ \A r \in DOMAIN Responses : Responses[r] \in AnswerOK
<1>1. DOMAIN Responses \subseteq Requests /\ IsFiniteSet(DOMAIN Responses)
  <2>1. DOMAIN Responses \subseteq Requests
    BY DEF Responses
  <2> QED
    BY <2>1, PipelineAssumption, FS_Subset
<1>2. ASSUME NEW r \in DOMAIN Responses PROVE Responses[r] \in AnswerOK
  <2>1. r \in Requests /\ Billable(r) /\ Responses[r] = Answer1(r)
    BY AnswersRead
  <2>2. PICK i \in DOMAIN records :
           /\ records[i].user = In(r).user /\ records[i].prompt = In(r).prompt
           /\ records[i].completion = reqs[r].completion
    BY <2>1 DEF PipelineInv, LedgerExact
  <2>3. records[i].user \in Users /\ records[i].prompt \in Nat /\ records[i].completion \in Nat
    <3> DEFINE R == [id : Requests, user : Users, model : ModelIds, prompt : Nat,
                     completion : Nat, created_at : 0..clock]
    <3>1. records \in Seq(R)
      BY DEF PipelineInv, TrackerOK
    <3>2. records[i] \in R
      <4> HIDE DEF R
      <4> QED
        BY <3>1
    <3> QED
      BY <3>2
  <2> QED
    BY <2>1, <2>2, <2>3 DEF Answer1, AnswerOK
<1> QED
  BY <1>1, <1>2

(* Every step of the process is a step of the metered service, or none.        *)
LEMMA MeterStep ==
    ASSUME PipelineInv, PipelineInv', [Next]_vars
    PROVE  \/ Responses' = Responses /\ Usage' = Usage
           \/ \E r \in Requests \ DOMAIN Responses : \E answer \in AnswerOK :
                 /\ Responses' = Put(Responses, r, answer)
                 /\ Usage' = [Usage EXCEPT ![answer.user] =
                                 [requests |-> @.requests + 1, tokens |-> @.tokens + answer.tokens]]
<1>1. /\ LedgerExact /\ LedgerExact' /\ TrackerOK(Requests, Users, ModelIds)
  BY DEF PipelineInv
<1>2. ASSUME records' = records PROVE Responses' = Responses
  <2>1. \A r \in Requests : Bills(r)' = Bills(r)
    BY <1>2 DEF Bills
  <2>2. \A r \in Requests : /\ Billable(r)' <=> Billable(r)
                            /\ Billable(r) => Answer1(r)' = Answer1(r)
    BY <1>1, <1>2, <2>1, SameBills
  <2> QED
    BY <2>2, SameAnswers
<1>3. CASE UNCHANGED usageVars
  <2>1. Usage' = Usage
    BY <1>3 DEF usageVars, Usage, DailyUsage, Today
  <2> QED
    BY <1>2, <1>3, <2>1 DEF usageVars
<1>4. CASE ClockTick
  BY <1>1, <1>2, <1>4, TickUsage DEF ClockTick
<1>5. ASSUME NEW r \in Requests, NEW n \in Nat, In(r).user \in Users, In(r).prompt \in Nat,
             RecordUsage(r, In(r).user, In(r).model, In(r).prompt, n)
      PROVE  \E q \in Requests \ DOMAIN Responses : \E answer \in AnswerOK :
                /\ Responses' = Put(Responses, q, answer)
                /\ Usage' = [Usage EXCEPT ![answer.user] =
                                [requests |-> @.requests + 1, tokens |-> @.tokens + answer.tokens]]
  <2>1. PICK user, prompt : user = In(r).user /\ prompt = In(r).prompt
    OBVIOUS
  <2>2. PICK answer : answer = [user |-> user, tokens |-> prompt + n]
    OBVIOUS
  <2>3. answer \in AnswerOK /\ answer.user = user /\ answer.tokens = prompt + n
    BY <1>5, <2>1, <2>2 DEF AnswerOK
  <2>4. PICK model : RecordUsage(r, user, model, prompt, n)
    BY <1>5, <2>1
  <2>5. r \in Requests \ DOMAIN Responses /\ Responses' = Put(Responses, r, answer)
    BY <1>1, <2>2, <2>4, AnswerRecorded
  <2>6. Usage' = [Usage EXCEPT ![user] = [requests |-> @.requests + 1,
                                          tokens |-> @.tokens + (prompt + n)]]
    BY <1>1, <1>5, <2>1, <2>4, RecordedUsage
  <2> QED
    BY <2>3, <2>5, <2>6
<1> QED
  BY <1>3, <1>4, <1>5, UsageStep

LEMMA MeterStarts ==
    ASSUME Init
    PROVE  Responses = Empty /\ Usage = [u \in Users |-> [requests |-> 0, tokens |-> 0]]
<1>1. PipelineInv /\ daily_totals = Empty
  BY PipelineStarts DEF Init, UsageInit
<1>2. Responses = Empty
  BY DEF Init, Idle, Billable, Responses, Empty
<1>3. ASSUME NEW u \in Users
      PROVE  SumFunction(DayRequests(u)) = 0 /\ SumFunction(DayTokens(u)) = 0
  <2>1. Today = 0
    BY CalendarAssumption, SMT DEF Init, UsageInit, Today
  <2>2. \A d : DailyUsage(u, d) = Zero
    BY <1>1 DEF DailyUsage, Lookup, Empty
  <2>3. PICK f, h, e : /\ f = DayRequests(u) /\ h = DayTokens(u)
                       /\ e = [d \in {} |-> 0]
    OBVIOUS
  <2>4. /\ DOMAIN f = {0} /\ f[0] = 0 /\ DOMAIN h = {0} /\ h[0] = 0
        /\ DOMAIN e = {}
    <3>1. 0..Today = {0}
      BY <2>1
    <3> QED
      BY <2>2, <2>3, <3>1 DEF DayRequests, DayTokens, Zero
  <2>5. IsFiniteSet({}) /\ SumFunction(e) = 0
    BY <2>4, TotalEmpty, FS_EmptySet
  <2>6. SumFunction(f) = 0
    <3>1. /\ IsFiniteSet(DOMAIN e) /\ 0 \notin DOMAIN e /\ DOMAIN f = DOMAIN e \cup {0}
          /\ \A y \in DOMAIN e : f[y] = e[y]
          /\ \A y \in DOMAIN f : f[y] \in Int
      BY <2>4, <2>5
    <3> QED
      BY <2>4, <2>5, <3>1, TotalGrows
  <2>7. SumFunction(h) = 0
    <3>1. /\ IsFiniteSet(DOMAIN e) /\ 0 \notin DOMAIN e /\ DOMAIN h = DOMAIN e \cup {0}
          /\ \A y \in DOMAIN e : h[y] = e[y]
          /\ \A y \in DOMAIN h : h[y] \in Int
      BY <2>4, <2>5
    <3> QED
      BY <2>4, <2>5, <3>1, TotalGrows
  <2> QED
    BY <2>3, <2>6, <2>7
<1> QED
  BY <1>2, <1>3, UsageRead

-----------------------------------------------------------------------------

(* For any number of concurrent requests, at any times: seen through the        *)
(* responses given and the usage they add up to, the process is a              *)
(* MeteredService, in which answering and billing are one step.              *)
THEOREM PipelineIsMetered == Spec => ImplementsMeter
<1>1. Init => Meter!Init
  <2> SUFFICES ASSUME Init PROVE Meter!Init
    OBVIOUS
  <2>1. Meter!Empty = Empty
    BY DEF Meter!Empty, Empty
  <2> QED
    BY <2>1, MeterStarts DEF Meter!Init
<1>2. PipelineInv /\ PipelineInv' /\ [Next]_vars => [Meter!Next]_(Meter!meterVars)
  <2> SUFFICES ASSUME PipelineInv, PipelineInv', [Next]_vars
               PROVE  Meter!Next \/ UNCHANGED Meter!meterVars
    OBVIOUS
  <2>1. CASE Responses' = Responses /\ Usage' = Usage
    BY <2>1 DEF Meter!meterVars
  <2>2. ASSUME NEW r \in Requests \ DOMAIN Responses, NEW answer \in AnswerOK,
               Responses' = Put(Responses, r, answer),
               Usage' = [Usage EXCEPT ![answer.user] =
                           [requests |-> @.requests + 1, tokens |-> @.tokens + answer.tokens]]
        PROVE  Meter!Next
    <3>1. DOMAIN Responses' = DOMAIN Responses \cup {r} /\ Responses'[r] = answer
      BY <2>2 DEF Put
    <3>2. Meter!Put(Responses, r, answer) = Put(Responses, r, answer)
      BY DEF Meter!Put, Put
    <3>3. Meter!Serve(r)
      BY <2>2, <3>1, <3>2 DEF Meter!Serve, AnswerOK
    <3> QED
      BY <3>3 DEF Meter!Next
  <2> QED
    BY <2>1, <2>2, MeterStep
<1> QED
  BY <1>1, <1>2, PipelineInvariant, PTL DEF Spec, ImplementsMeter, Meter!Spec

(* What each user was answered, and the sum of it.                           *)
AnsweredTo(u, answers) == {r \in DOMAIN answers : answers[r].user = u}
TokensOf(mine, answers) == [r \in mine |-> answers[r].tokens]

AddsUp(answers, bill) ==
    \A u \in Users :
        bill[u] = [requests |-> Cardinality(AnsweredTo(u, answers)),
                   tokens   |-> SumFunction(TokensOf(AnsweredTo(u, answers), answers))]

(* One more answer adds itself to the sum of its user's.                      *)
LEMMA MeterAddsUp ==
    ASSUME NEW answers, IsFiniteSet(DOMAIN answers),
           \A q \in DOMAIN answers : answers[q] \in AnswerOK,
           NEW bill, DOMAIN bill = Users, AddsUp(answers, bill),
           NEW r, r \notin DOMAIN answers, NEW answer \in AnswerOK,
           NEW more, more = Put(answers, r, answer),
           NEW next, next = [bill EXCEPT ![answer.user] =
                               [requests |-> @.requests + 1, tokens |-> @.tokens + answer.tokens]]
    PROVE  AddsUp(more, next)
<1>1. /\ DOMAIN more = DOMAIN answers \cup {r} /\ more[r] = answer
      /\ \A q \in DOMAIN answers : more[q] = answers[q]
  BY DEF Put
<1> SUFFICES ASSUME NEW u \in Users
             PROVE  next[u] = [requests |-> Cardinality(AnsweredTo(u, more)),
                               tokens |-> SumFunction(TokensOf(AnsweredTo(u, more), more))]
  BY DEF AddsUp
<1>2. PICK mine : mine = AnsweredTo(u, answers)
  OBVIOUS
<1>3. mine \subseteq DOMAIN answers /\ IsFiniteSet(mine) /\ r \notin mine
  <2>1. mine \subseteq DOMAIN answers
    BY <1>2 DEF AnsweredTo
  <2> QED
    BY <2>1, FS_Subset
<1>4. bill[u] = [requests |-> Cardinality(mine), tokens |-> SumFunction(TokensOf(mine, answers))]
  BY <1>2 DEF AddsUp
<1>5. \A q \in mine : more[q] = answers[q] /\ answers[q].tokens \in Nat
  BY <1>1, <1>3 DEF AnswerOK
<1>6. CASE answer.user = u
  <2>1. AnsweredTo(u, more) = mine \cup {r}
    BY <1>1, <1>2, <1>6 DEF AnsweredTo
  <2>2. Cardinality(mine \cup {r}) = Cardinality(mine) + 1
    BY <1>3, FS_AddElement
  <2>3. PICK f, h : f = TokensOf(mine, answers) /\ h = TokensOf(mine \cup {r}, more)
    OBVIOUS
  <2>4. /\ DOMAIN f = mine /\ DOMAIN h = mine \cup {r}
        /\ \A q \in mine : h[q] = f[q] /\ f[q] \in Nat
    BY <1>5, <2>3 DEF TokensOf
  <2>5. h[r] = answer.tokens /\ answer.tokens \in Nat
    BY <1>1, <2>3 DEF TokensOf, AnswerOK
  <2>6. \A q \in DOMAIN h : h[q] \in Int
    BY <2>4, <2>5
  <2>7. SumFunction(h) = SumFunction(f) + h[r]
    <3>1. IsFiniteSet(DOMAIN f) /\ r \notin DOMAIN f /\ DOMAIN h = DOMAIN f \cup {r}
          /\ \A q \in DOMAIN f : h[q] = f[q]
      BY <1>3, <2>4
    <3> QED
      BY <2>6, <3>1, TotalGrows
  <2>8. next[u] = [requests |-> bill[u].requests + 1, tokens |-> bill[u].tokens + answer.tokens]
    BY <1>6
  <2>9. next[u] = [requests |-> Cardinality(mine) + 1, tokens |-> SumFunction(f) + answer.tokens]
    BY <1>4, <2>3, <2>8
  <2> QED
    BY <2>1, <2>2, <2>3, <2>5, <2>7, <2>9
<1>7. CASE answer.user # u
  <2>1. AnsweredTo(u, more) = mine
    BY <1>1, <1>2, <1>7 DEF AnsweredTo
  <2>2. TokensOf(mine, more) = TokensOf(mine, answers)
    BY <1>5 DEF TokensOf
  <2>3. next[u] = bill[u]
    BY <1>7
  <2> QED
    BY <1>4, <2>1, <2>2, <2>3
<1> QED
  BY <1>6, <1>7

LEMMA UsageAddsUp ==
    /\ UsageMatchesResponses <=> AddsUp(Responses, Usage)
    /\ UsageMatchesResponses' <=> AddsUp(Responses', Usage')
  BY DEF UsageMatchesResponses, AddsUp, AnsweredTo, TokensOf

(* For any number of concurrent requests: what GET /v1/usage adds up to for a    *)
(* user is exactly what that user's successful responses reported.            *)
THEOREM UsageIsWhatWasServed == Spec => []UsageMatchesResponses
<1>1. Init => UsageMatchesResponses
  <2> SUFFICES ASSUME Init, NEW u \in Users
               PROVE  Usage[u] = [requests |-> Cardinality(AnsweredTo(u, Responses)),
                                  tokens |-> SumFunction(TokensOf(AnsweredTo(u, Responses), Responses))]
    BY UsageAddsUp DEF AddsUp
  <2>1. Usage[u] = [requests |-> 0, tokens |-> 0] /\ AnsweredTo(u, Responses) = {}
    BY MeterStarts DEF Empty, AnsweredTo
  <2>2. PICK f : f = TokensOf({}, Responses)
    OBVIOUS
  <2>3. SumFunction(f) = 0
    <3>1. DOMAIN f = {}
      BY <2>2 DEF TokensOf
    <3> QED
      BY <3>1, TotalEmpty
  <2> QED
    BY <2>1, <2>2, <2>3, FS_EmptySet
<1>2. PipelineInv /\ PipelineInv' /\ UsageMatchesResponses /\ [Next]_vars
        => UsageMatchesResponses'
  <2> SUFFICES ASSUME PipelineInv, PipelineInv', UsageMatchesResponses, [Next]_vars
               PROVE  AddsUp(Responses', Usage')
    BY UsageAddsUp
  <2>1. AddsUp(Responses, Usage)
    BY UsageAddsUp
  <2>2. CASE Responses' = Responses /\ Usage' = Usage
    BY <2>1, <2>2
  <2>3. ASSUME NEW r \in Requests \ DOMAIN Responses, NEW answer \in AnswerOK,
               Responses' = Put(Responses, r, answer),
               Usage' = [Usage EXCEPT ![answer.user] =
                           [requests |-> @.requests + 1, tokens |-> @.tokens + answer.tokens]]
        PROVE  AddsUp(Responses', Usage')
    <3>1. IsFiniteSet(DOMAIN Responses) /\ \A q \in DOMAIN Responses : Responses[q] \in AnswerOK
      BY AnswersTyped
    <3>2. DOMAIN Usage = Users
      BY DEF Usage
    <3> QED
      BY <2>1, <2>3, <3>1, <3>2, MeterAddsUp
  <2> QED
    BY <2>2, <2>3, MeterStep
<1> QED
  BY <1>1, <1>2, PipelineInvariant, PTL DEF Spec
=============================================================================
