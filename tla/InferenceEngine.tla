-------------------------- MODULE InferenceEngine --------------------------
(***************************************************************************)
(* neuronlm/services/inference_engine.py: the model registry and the calls    *)
(* that are suspended inside the engine.                                    *)
(*                                                                          *)
(*   models  the registry, model id -> status                               *)
(*   calls   the coroutines and generators in flight: a completion asleep     *)
(*           between validating its model and generating its text, or a       *)
(*           streamed completion and the chunks it has yielded               *)
(*                                                                          *)
(* The text of a reply is abstracted to its number of tokens; a stream splits  *)
(* it into words.                                                           *)
(***************************************************************************)
EXTENDS Integers, Sequences, Dict

CONSTANTS
    DefaultModels,   \* the ids registered, ready, at start-up
    ReplyTokens,     \* tokens of the canned reply before truncation
    ReplyLength      \* its characters

ASSUME ReplyAssumption ==
    /\ ReplyTokens \in Nat \ {0}
    /\ ReplyLength \in Nat /\ ReplyTokens <= ReplyLength

VARIABLES models, calls

engineVars == <<models, calls>>

Statuses == {"loading", "ready", "error", "deprecated"}

RegisterModel(m, status) == models' = Put(models, m, status) /\ UNCHANGED calls

(* _validate_model_ready: the exception it raises, or "ready". *)
Verdict(m) ==
    IF m \notin DOMAIN models THEN "not_found"
    ELSE IF models[m] # "ready" THEN "not_ready" ELSE "ready"

Listed == DOMAIN models

(* _generate_response_text and the count of its tokens: the reply truncated to  *)
(* max_tokens, then cut at a stop sequence, which may leave nothing at all, or   *)
(* the beginning of a token.  That is encoded anew, and may be more tokens than   *)
(* there were, also more than max_tokens, but not more than characters.        *)
Replies(max_tokens, stops) ==
    IF stops THEN 0..ReplyLength
    ELSE {IF ReplyTokens > max_tokens THEN max_tokens ELSE ReplyTokens}

(* A reply of n tokens has at most n words; split(" ") of nothing is one, "". *)
Wordings(n) == IF n = 0 THEN {1} ELSE 1..n

(* complete: the model is validated and the prompt counted before the await. *)
StartComplete(c, m) ==
    /\ Verdict(m) = "ready"
    /\ calls' = Put(calls, c, [kind |-> "complete", model |-> m])
    /\ UNCHANGED models

(* After the await nothing looks at the registry again. *)
EndCall(c) == c \in DOMAIN calls /\ calls' = Drop(calls, c) /\ UNCHANGED models

(* stream_complete is a generator: calling it runs none of its body. *)
OpenStream(c, m, max_tokens, stops) ==
    /\ calls' = Put(calls, c, [kind |-> "stream", model |-> m, max_tokens |-> max_tokens,
                               stops |-> stops, words |-> 0, sent |-> <<>>])
    /\ UNCHANGED models

Yield(c, chunk, words) ==
    /\ calls' = [calls EXCEPT ![c].sent = Append(@, chunk), ![c].words = words]
    /\ UNCHANGED models

(* The first pull validates the model: it yields the role chunk or raises.    *)
PullRole(c) ==
    /\ calls[c].sent = <<>>
    /\ Verdict(calls[c].model) = "ready"
    /\ Yield(c, "role", 0)

PullRaises(c) ==
    /\ calls[c].sent = <<>>
    /\ Verdict(calls[c].model) # "ready"
    /\ EndCall(c)

(* The second pull generates the text; each word is one chunk. *)
PullFirstWord(c) ==
    /\ calls[c].sent = <<"role">>
    /\ \E n \in Replies(calls[c].max_tokens, calls[c].stops) :
          \E words \in Wordings(n) : Yield(c, "word", words)

PullWord(c) ==
    /\ Len(calls[c].sent) \in 2..calls[c].words
    /\ Yield(c, "word", calls[c].words)

(* Mutant: the final chunk waits for one word too many. *)
PullFinish_Late(c) ==
    /\ calls[c].words > 0
    /\ Len(calls[c].sent) = calls[c].words + 2
    /\ Yield(c, "stop", calls[c].words)

(* The final chunk: its finish_reason is always "stop", also for a reply that   *)
(* max_tokens has cut.                                                       *)
PullFinish(c) ==
    /\ calls[c].words > 0
    /\ Len(calls[c].sent) = calls[c].words + 1
    /\ Yield(c, "stop", calls[c].words)

PullDone(c) ==
    /\ calls[c].words > 0
    /\ Len(calls[c].sent) = calls[c].words + 2
    /\ Yield(c, "[DONE]", calls[c].words)

Exhausted(c) == calls[c].words > 0 /\ Len(calls[c].sent) = calls[c].words + 3

EngineInit == models = [m \in DefaultModels |-> "ready"] /\ calls = Empty
=============================================================================
