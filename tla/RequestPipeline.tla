-------------------------- MODULE RequestPipeline --------------------------
(***************************************************************************)
(* One NeuronLM process serving concurrent HTTP requests: the middleware     *)
(* stack of neuronlm/main.py and api/middleware.py, the handlers of           *)
(* api/routes.py, and the three services they share.                        *)
(*                                                                          *)
(* The process is one asyncio event loop, so a request runs alone from one    *)
(* await to the next; the steps below are those stretches.  A request passes  *)
(*   arrived -> authenticated -> admitted -> [generating ->] answered         *)
(*           -> [streaming ->] done                                          *)
(* where answered means that the handler produced a response which the rate-  *)
(* limit middleware has yet to stamp on its way out.                         *)
(***************************************************************************)
EXTENDS RateLimiter, UsageTracker, InferenceEngine, FiniteSets, Functions

CONSTANTS
    Requests,      \* identities of the requests
    Users,         \* whom valid credentials authenticate
    Nobody,        \* whom invalid or missing credentials authenticate
    ModelIds,      \* model names a request may carry
    Inputs,        \* what is asked for: a set of records of InputType
    Registrations  \* the <<model, status>> pairs an operator may register

Routes == {"chat", "stream", "embed", "models", "model", "usage", "health", "ready",
           "options"}

(* What both middlewares pass on unseen: the public paths, and any request     *)
(* whose method is OPTIONS.                                                 *)
Public == {"health", "ready", "options"}

(* body: "malformed" fails schema validation, "flagged" the moderator, and     *)
(* "special" holds text that the tokenizer refuses to encode.                *)
InputType == [route : Routes, user : Users \cup {Nobody}, model : ModelIds,
              body : {"ok", "malformed", "flagged", "special"},
              prompt : Nat, max_tokens : Nat \ {0}, stops : BOOLEAN]

ASSUME PipelineAssumption ==
    /\ IsFiniteSet(Requests)
    /\ Inputs \subseteq InputType
    /\ Nobody \notin Users
    /\ DefaultModels \subseteq ModelIds
    /\ Registrations \subseteq ModelIds \X Statuses

VARIABLE reqs

vars == <<limiterVars, usageVars, engineVars, reqs>>

In(r) == reqs[r].input
Phase(r) == reqs[r].phase

(* status 0: no response yet; completion: the completion tokens the response  *)
(* reports; ending: how the body of a streamed response ended.               *)
Idle == [phase |-> "idle", input |-> [route |-> "none"], status |-> 0,
         completion |-> 0, ending |-> "none"]

Goto(r, phase) == reqs' = [reqs EXCEPT ![r].phase = phase]

(* A response from inside the stack; public paths are not stamped. *)
Reply(r, status, completion) ==
    LET phase == IF In(r).route \in Public THEN "done" ELSE "answered"
    IN  reqs' = [reqs EXCEPT ![r] = [@ EXCEPT !.phase = phase, !.status = status,
                                              !.completion = completion]]

Answer(r, status) == Reply(r, status, 0)

(* A response that no middleware sees on its way out: one that a middleware   *)
(* itself returned, or the exception handler's after an uncaught exception.   *)
Finish(r, status) ==
    reqs' = [reqs EXCEPT ![r] = [@ EXCEPT !.phase = "done", !.status = status]]

EndStream(r, how) ==
    reqs' = [reqs EXCEPT ![r] = [@ EXCEPT !.phase = "done", !.ending = how]]

Arrive(r, input) ==
    /\ Phase(r) = "idle"
    /\ reqs' = [reqs EXCEPT ![r] = [@ EXCEPT !.phase = "arrived", !.input = input]]
    /\ UNCHANGED <<limiterVars, usageVars, engineVars>>

(* Mutant: missing credentials are let through as an anonymous user. *)
Authenticate_Optional(r) ==
    /\ Phase(r) = "arrived"
    /\ Goto(r, "authenticated")
    /\ UNCHANGED <<limiterVars, usageVars, engineVars>>

(* AuthenticationMiddleware.dispatch *)
Authenticate(r) ==
    /\ Phase(r) = "arrived"
    /\ IF In(r).route \in Public \/ In(r).user # Nobody
       THEN Goto(r, "authenticated") ELSE Finish(r, 401)
    /\ UNCHANGED <<limiterVars, usageVars, engineVars>>

(* Mutant: the limit is looked up and nothing is consumed. *)
Limit_Uncharged(r) ==
    /\ Phase(r) = "authenticated"
    /\ \/ In(r).route \in Public /\ Goto(r, "admitted") /\ UNCHANGED limiterVars
       \/ In(r).route \notin Public /\ Affords(GetBucket(In(r).user, 0), 1)
          /\ ReadRemaining(In(r).user) /\ Goto(r, "admitted")
       \/ In(r).route \notin Public /\ Deny(In(r).user, 1, 0) /\ Finish(r, 429)
    /\ UNCHANGED <<usageVars, engineVars>>

(* RateLimitMiddleware.dispatch up to call_next.  After a refusal remaining    *)
(* and retry_after are read for the headers, with no further effect.         *)
Limit(r) ==
    /\ Phase(r) = "authenticated"
    /\ \/ In(r).route \in Public /\ Goto(r, "admitted") /\ UNCHANGED limiterVars
       \/ In(r).route \notin Public /\ Allow(In(r).user, 1, 0) /\ Goto(r, "admitted")
       \/ In(r).route \notin Public /\ Deny(In(r).user, 1, 0) /\ Finish(r, 429)
    /\ UNCHANGED <<usageVars, engineVars>>

(* Schema validation by the framework, then moderation of the user messages.  *)
Reject(r) ==
    /\ Phase(r) = "admitted"
    /\ \/ In(r).route \in {"chat", "stream", "embed"} /\ In(r).body = "malformed"
          /\ Answer(r, 422)
       \/ In(r).route \in {"chat", "stream"} /\ In(r).body = "flagged"
          /\ Answer(r, 400)
    /\ UNCHANGED <<limiterVars, usageVars, engineVars>>

Accepts(route, input) ==
    /\ input.route = route
    /\ input.body # "malformed"
    /\ route # "embed" => input.body # "flagged"

Accepted(r, route) == Phase(r) = "admitted" /\ Accepts(route, In(r))

(* create_chat_completion, not streamed, up to the await inside complete.      *)
StartChat(r) ==
    /\ Accepted(r, "chat")
    /\ LET verdict == Verdict(In(r).model) IN
       \/ verdict = "not_found" /\ Answer(r, 404) /\ UNCHANGED engineVars
       \/ verdict = "not_ready" /\ Answer(r, 503) /\ UNCHANGED engineVars
       \/ verdict = "ready" /\ In(r).body = "special"
          /\ Answer(r, 500) /\ UNCHANGED engineVars
       \/ In(r).body = "ok" /\ StartComplete(r, In(r).model) /\ Goto(r, "generating")
    /\ UNCHANGED <<limiterVars, usageVars>>

(* Mutant: usage is recorded before the response is built. *)
FinishChat_BillsFirst(r) ==
    /\ Phase(r) = "generating"
    /\ EndCall(r)
    /\ \E n \in Replies(In(r).max_tokens, In(r).stops) :
          /\ RecordUsage(r, In(r).user, In(r).model, In(r).prompt, n)
          /\ IF n = 0 THEN Answer(r, 500) ELSE Reply(r, 200, n)
    /\ UNCHANGED limiterVars

(* From the await to the response.  An empty reply fails the validation of     *)
(* ChatMessage, which the handler turns into a 500.                          *)
FinishChat(r) ==
    /\ Phase(r) = "generating"
    /\ EndCall(r)
    /\ \E n \in Replies(In(r).max_tokens, In(r).stops) :
          \/ /\ n = 0
             /\ Answer(r, 500) /\ UNCHANGED usageVars
          \/ /\ n > 0
             /\ RecordUsage(r, In(r).user, In(r).model, In(r).prompt, n)
             /\ Reply(r, 200, n)
    /\ UNCHANGED limiterVars

(* create_chat_completion, streamed: the response starts before the generator  *)
(* does, and nothing is recorded.                                           *)
StartStream(r) ==
    /\ Accepted(r, "stream")
    /\ OpenStream(r, In(r).model, In(r).max_tokens, In(r).stops)
    /\ Answer(r, 200)
    /\ UNCHANGED <<limiterVars, usageVars>>

(* Mutant: the embedded tokens are passed as completion tokens too. *)
Embed_BillsTwice(r) ==
    /\ Accepted(r, "embed")
    /\ Verdict(In(r).model) = "ready" /\ In(r).body # "special"
    /\ RecordUsage(r, In(r).user, In(r).model, In(r).prompt, In(r).prompt)
    /\ Answer(r, 200)
    /\ UNCHANGED <<limiterVars, engineVars>>

(* create_embedding never awaits.  It catches ModelNotFoundError only.        *)
Embed(r) ==
    /\ Accepted(r, "embed")
    /\ LET verdict == Verdict(In(r).model) IN
       \/ verdict = "not_found" /\ Answer(r, 404) /\ UNCHANGED usageVars
       \/ verdict # "not_found" /\ (verdict = "not_ready" \/ In(r).body = "special")
          /\ Finish(r, 500) /\ UNCHANGED usageVars
       \/ verdict = "ready" /\ In(r).body # "special"
          /\ RecordUsage(r, In(r).user, In(r).model, In(r).prompt, 0)
          /\ Answer(r, 200)
    /\ UNCHANGED <<limiterVars, engineVars>>

(* The handlers that only read.  An OPTIONS request reaches none: the CORS       *)
(* middleware answers a preflight with 200 or 400, the router anything else.  *)
Read(r) ==
    /\ Phase(r) = "admitted"
    /\ \/ In(r).route \in {"models", "usage", "health"} /\ Answer(r, 200)
       \/ In(r).route = "model" /\ Answer(r, IF In(r).model \in Listed THEN 200 ELSE 404)
       \/ In(r).route = "ready" /\ Answer(r, IF Listed # {} THEN 200 ELSE 503)
       \/ In(r).route = "options"
          /\ \E status \in {200, 400, 404, 405} : Answer(r, status)
    /\ UNCHANGED <<limiterVars, usageVars, engineVars>>

(* RateLimitMiddleware.dispatch after call_next: reading X-RateLimit-Remaining *)
(* refills the bucket.  The body of a stream is pulled only after that.      *)
Stamp(r) ==
    /\ Phase(r) = "answered"
    /\ ReadRemaining(In(r).user)
    /\ Goto(r, IF r \in DOMAIN calls THEN "streaming" ELSE "done")
    /\ UNCHANGED <<usageVars, engineVars>>

(* Mutant: an error in the generator is swallowed and the body stays open. *)
Pull_Swallows(r) ==
    /\ Phase(r) = "streaming"
    /\ \/ /\ \/ PullRole(r) \/ PullFirstWord(r) \/ PullWord(r)
             \/ PullFinish(r) \/ PullDone(r) \/ PullRaises(r)
          /\ UNCHANGED reqs
       \/ Exhausted(r) /\ EndCall(r) /\ EndStream(r, "whole")
    /\ UNCHANGED <<limiterVars, usageVars>>

(* event_generator, one chunk at a time. *)
Pull(r) ==
    /\ Phase(r) = "streaming"
    /\ \/ /\ \/ PullRole(r) \/ PullFirstWord(r) \/ PullWord(r)
             \/ PullFinish(r) \/ PullDone(r)
          /\ UNCHANGED reqs
       \/ PullRaises(r) /\ EndStream(r, "aborted")
       \/ Exhausted(r) /\ EndCall(r) /\ EndStream(r, "whole")
    /\ UNCHANGED <<limiterVars, usageVars>>

(* The client goes away: the task that pulls the stream is cancelled. *)
Disconnect(r) ==
    /\ Phase(r) = "streaming"
    /\ EndCall(r) /\ EndStream(r, "disconnected")
    /\ UNCHANGED <<limiterVars, usageVars>>

Serve(r) ==
    \/ Authenticate(r) \/ Limit(r) \/ Reject(r) \/ StartChat(r) \/ FinishChat(r)
    \/ StartStream(r) \/ Embed(r) \/ Read(r) \/ Stamp(r) \/ Pull(r)

Environment ==
    \/ Tick /\ UNCHANGED <<usageVars, engineVars, reqs>>
    \/ ClockTick /\ UNCHANGED <<limiterVars, engineVars, reqs>>
    \/ \E reg \in Registrations :
          RegisterModel(reg[1], reg[2]) /\ UNCHANGED <<limiterVars, usageVars, reqs>>

Init == LimiterInit /\ UsageInit /\ EngineInit /\ reqs = [r \in Requests |-> Idle]

Next ==
    \/ \E r \in Requests : Serve(r) \/ Disconnect(r) \/ \E input \in Inputs : Arrive(r, input)
    \/ Environment

Spec == Init /\ [][Next]_vars

(* The event loop gets back to every task that can run; a client that is sent  *)
(* a chunk reads it or is noticed to be gone.                                *)
FairSpec == Spec /\ \A r \in Requests : WF_vars(Serve(r))

-----------------------------------------------------------------------------

(* Every variable keeps its type; in particular only authenticated users have *)
(* buckets, records and totals.                                             *)
TypeOK ==
    /\ now \in Nat /\ clock \in Nat
    /\ DOMAIN buckets \subseteq Users
    /\ \A u \in DOMAIN buckets : buckets[u] \in Bucket
    /\ records \in Seq([id : Requests, user : Users, model : ModelIds, prompt : Nat,
                        completion : Nat, created_at : 0..clock])
    /\ DOMAIN daily_totals \subseteq Users \X (0..Today)
    /\ DOMAIN models \subseteq ModelIds
    /\ \A m \in DOMAIN models : models[m] \in Statuses
    /\ DOMAIN calls \subseteq Requests
    /\ \A r \in Requests :
          /\ Phase(r) # "idle" => In(r) \in InputType
          /\ reqs[r].status \in {0, 200, 400, 401, 404, 405, 422, 429, 500, 503}

Billable(r) == In(r).route \in {"chat", "embed"} /\ reqs[r].status = 200
Bills(r) == {i \in DOMAIN records : records[i].id = r}

(* Whatever other requests, model changes and midnights happen between its     *)
(* steps, a request is billed exactly when it was served a completion that is *)
(* not streamed or an embedding: once, to its user, for its model, for the    *)
(* tokens the response reports; a request refused, failed or still running,   *)
(* or one that is streamed, is not billed at all.                            *)
LedgerExact ==
    \A r \in Requests :
        IF Billable(r)
        THEN \E i \in DOMAIN records :
                /\ Bills(r) = {i}
                /\ records[i].user = In(r).user /\ records[i].model = In(r).model
                /\ records[i].prompt = In(r).prompt
                /\ records[i].completion = reqs[r].completion
        ELSE Bills(r) = {}

(* What the responses said, of completions that are not streamed and of         *)
(* embeddings (a stream reports no usage), and what GET /v1/usage shows of     *)
(* each user when the days are added up.                                    *)
Responses ==
    [r \in {r \in Requests : Billable(r)} |->
        [user |-> In(r).user, tokens |-> In(r).prompt + reqs[r].completion]]

Usage ==
    [u \in Users |->
        [requests |-> SumFunction([d \in 0..Today |-> DailyUsage(u, d).requests]),
         tokens   |-> SumFunction([d \in 0..Today |-> DailyUsage(u, d).total])]]

(* A user's usage is as many completions, not streamed, and embeddings as were *)
(* answered for that user, and the tokens that those answers reported.        *)
UsageMatchesResponses ==
    \A u \in Users :
        LET mine == {r \in DOMAIN Responses : Responses[r].user = u}
        IN  Usage[u] = [requests |-> Cardinality(mine),
                        tokens   |-> SumFunction([r \in mine |-> Responses[r].tokens])]

(* However the steps of concurrent requests interleave, and over whatever       *)
(* midnights, the process is a MeteredService: what was answered stays         *)
(* answered as it was, and the step that answers is the step that bills.      *)
Meter == INSTANCE MeteredService WITH served <- Responses, usage <- Usage

ImplementsMeter == Meter!Spec

PastLimiter(r) ==
    /\ Phase(r) \notin {"idle", "arrived", "authenticated"}
    /\ In(r).route \notin Public
    /\ reqs[r].status \notin {401, 429}

(* Every request that gets past the rate-limit middleware has paid a token of  *)
(* its own user's bucket: since the process started no more of them have been  *)
(* handled than the limiter could grant, less what the bucket still holds.    *)
HandledWithinBudget ==
    \A u \in Users :
        LET handled == Cardinality({r \in Requests : PastLimiter(r) /\ In(r).user = u})
        IN  IF Known(u)
            THEN handled * Minute + Level(buckets[u])
                    <= buckets[u].capacity * Minute + now * buckets[u].capacity
            ELSE handled = 0

(* The engine holds exactly the calls of requests that still wait for them:    *)
(* none outlives its request, whether it was answered, failed in the engine,  *)
(* or was left by its client, and only well-formed, unflagged, paid-for       *)
(* requests have one.                                                       *)
CallsMatchRequests ==
    DOMAIN calls =
        {r \in Requests :
            \/ Phase(r) = "generating" /\ Accepts("chat", In(r))
            \/ /\ Phase(r) \in {"answered", "streaming"} /\ reqs[r].status = 200
               /\ Accepts("stream", In(r))}

(* A request that reached the process is done with eventually.                *)
EveryRequestEnds == \A r \in Requests : Phase(r) = "arrived" ~> Phase(r) = "done"

-----------------------------------------------------------------------------
(* What the repository says of the program and the code does not do.         *)

(* docs/05_system_architecture.md, flow 3.1: UsageTracker records the tokens    *)
(* of a completion, streamed or not.                                         *)
StreamsBilled == \A r \in Requests : reqs[r].ending = "whole" => Bills(r) # {}

(* docs/06_test_cases.md, CT-CHAT-008: a chat completion for a model that does  *)
(* not exist is a 404.                                                      *)
UnknownModelNotServed ==
    \A r \in Requests :
        In(r).route \in {"chat", "stream"} /\ reqs[r].status = 200
            => In(r).model \in DOMAIN models

(* docs/06_test_cases.md, CT-CHAT-013: a stop sequence stops the response; a    *)
(* valid completion request with one is not an internal error.               *)
StopNeverFails ==
    \A r \in Requests : In(r).route = "chat" /\ In(r).body = "ok" => reqs[r].status # 500
=============================================================================
