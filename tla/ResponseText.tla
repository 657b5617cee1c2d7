---------------------------- MODULE ResponseText ----------------------------
(***************************************************************************)
(* The text of a reply in neuronlm/services/inference_engine.py: cut to       *)
(* max_tokens, cut at a stop sequence, and answered whole or word by word.     *)
(* InferenceEngine keeps of all this the number of tokens and words only.      *)
(*                                                                          *)
(*   text, max_tokens, stops  the canned reply and the request's limits        *)
(*   chunks, finish           the words a stream has sent so far, and the        *)
(*                            finish_reason of its last chunk                *)
(*                                                                          *)
(* A text is a sequence of characters.  The encoder is a library: a parameter   *)
(* says where the tokens of a text start, and decoding is concatenation.      *)
(***************************************************************************)
EXTENDS Integers, Sequences, SequencesExt, FiniteSets, Order, Dict

CONSTANTS
    Characters, Space,
    TokenStarts(_),  \* where the tokens of a text start
    Texts,      \* canned replies
    StopLists,  \* the lists of stop sequences a request may have
    Limits      \* values of max_tokens

ASSUME TextsAssumption ==
    /\ Texts \subseteq Seq(Characters) /\ StopLists \subseteq Seq(Seq(Characters))
    /\ \A t \in Texts : t # <<>> /\ t[1] # Space
    /\ Limits \subseteq Nat \ {0}

(* The canned replies and what a cut at any place may leave of them.          *)
Beginnings == UNION {{SubSeq(t, 1, n) : n \in 0..Len(t)} : t \in Texts}

(* What tiktoken does with plain text of words between single spaces: no token  *)
(* is empty, a token holds no space but in front, and the first tokens of a     *)
(* text are the tokens of what they decode to.  Nothing is said of the tokens   *)
(* of a text that is cut inside a token.                                     *)
ASSUME EncoderAssumption ==
    /\ \A t \in Beginnings :
          /\ TokenStarts(t) \subseteq DOMAIN t
          /\ \A i \in DOMAIN t : i = 1 \/ t[i] = Space => i \in TokenStarts(t)
    /\ \A t \in Texts : \A i \in TokenStarts(t) :
          TokenStarts(SubSeq(t, 1, i - 1)) = {j \in TokenStarts(t) : j < i}

VARIABLES text, max_tokens, stops, chunks, finish

request == <<text, max_tokens, stops>>
vars == <<request, chunks, finish>>

CountTokens(t) == Cardinality(TokenStarts(t))

(* Mutant: the cut is one token too late. *)
TruncateText_OneMore(t, n) ==
    IF CountTokens(t) <= n + 1 THEN t
    ELSE LET last == CHOOSE i \in TokenStarts(t) :
                        Cardinality({j \in TokenStarts(t) : j < i}) = n + 1
         IN  SubSeq(t, 1, last - 1)

(* truncate_text; _generate_response_text does the same in line. *)
TruncateText(t, n) ==
    IF CountTokens(t) <= n THEN t
    ELSE LET last == CHOOSE i \in TokenStarts(t) :
                        Cardinality({j \in TokenStarts(t) : j < i}) = n
         IN  SubSeq(t, 1, last - 1)

Occurrences(s, t) ==
    {i \in 1..(Len(t) - Len(s) + 1) : SubSeq(t, i, i + Len(s) - 1) = s}

Occurs(s, t) == Occurrences(s, t) # {}

(* Mutant: rindex for index. *)
FirstIn_Last(s, t) == Max(Occurrences(s, t))

FirstIn(s, t) == Min(Occurrences(s, t))

(* The stop sequences are tried in the order listed; the first that occurs at  *)
(* all is applied, and the search ends.                                     *)
Hits(t) == {i \in DOMAIN stops : Occurs(stops[i], t)}

CutAtStop(t) ==
    IF Hits(t) = {} THEN t ELSE SubSeq(t, 1, FirstIn(stops[Min(Hits(t))], t) - 1)

Whole == TruncateText(text, max_tokens)

(* _generate_response_text *)
Reply == CutAtStop(Whole)

(* Mutant: length only when the limit is exceeded. *)
FinishReason_Beyond(reply) == IF CountTokens(reply) > max_tokens THEN "length" ELSE "stop"

(* complete *)
FinishReason(reply) == IF CountTokens(reply) >= max_tokens THEN "length" ELSE "stop"

(* stream_complete, whatever the reply is. *)
StreamFinishReason == "stop"

(* Where the words of split(" ") start: at the beginning and after each space. *)
WordStarts(t) == {1} \cup {i + 1 : i \in {j \in DOMAIN t : t[j] = Space}}

Ascending(S) == {p \in S \X S : p[1] < p[2]}

Words(t) ==
    LET starts == InOrder(WordStarts(t), Ascending(WordStarts(t)))
        End(n) == IF n = Len(starts) THEN Len(t) ELSE starts[n + 1] - 2
    IN  [n \in DOMAIN starts |-> SubSeq(t, starts[n], End(n))]

(* Mutant: a word is sent without the space before it. *)
Chunk_NoSpace(n) == Words(Reply)[n]

(* stream_complete: what is sent for the nth word. *)
Chunk(n) == IF n = 1 THEN Words(Reply)[1] ELSE <<Space>> \o Words(Reply)[n]

SendWord ==
    /\ Len(chunks) < Len(Words(Reply))
    /\ chunks' = Append(chunks, Chunk(Len(chunks) + 1))
    /\ UNCHANGED <<request, finish>>

(* The final chunk. *)
SendFinish ==
    /\ Len(chunks) = Len(Words(Reply)) /\ finish = "none"
    /\ finish' = StreamFinishReason
    /\ UNCHANGED <<request, chunks>>

Init ==
    /\ text \in Texts /\ max_tokens \in Limits /\ stops \in StopLists
    /\ chunks = <<>> /\ finish = "none"

Next == SendWord \/ SendFinish

Spec == Init /\ [][Next]_vars

-----------------------------------------------------------------------------

(* What a stream has sent is at every moment a prefix of the text that the     *)
(* same request completes to, and all of it when the final chunk is sent.     *)
StreamJoinsToReply ==
    /\ IsPrefix(FlattenSeq(chunks), Reply)
    /\ finish # "none" => FlattenSeq(chunks) = Reply

(* The reply ends right before the first occurrence of a stop sequence listed   *)
(* before any other that occurs; if none occurs it is all that max_tokens       *)
(* leaves.  Other listed sequences may occur in it.                          *)
StopTakesEffect ==
    \/ Reply = Whole /\ \A i \in DOMAIN stops : ~Occurs(stops[i], Whole)
    \/ \E i \in DOMAIN stops :
          LET upTo == Reply \o stops[i]
          IN  /\ \A j \in 1..(i - 1) : ~Occurs(stops[j], Whole)
              /\ IsPrefix(upTo, Whole)
              /\ stops[i] # <<>> => ~Occurs(stops[i], Front(upTo))

(* A completion that max_tokens has cut, and no stop sequence cut shorter, says  *)
(* so.  This is about complete: the final chunk of a stream says "stop" also     *)
(* when the same text was cut.                                               *)
CompletionReportsCut ==
    Whole # text /\ Reply = Whole => FinishReason(Reply) = "length"

Engine(tokens, length) ==
    INSTANCE InferenceEngine
        WITH ReplyTokens <- tokens, ReplyLength <- length, DefaultModels <- {},
             models <- Empty, calls <- Empty

(* With the tokens and the characters of the canned reply as its parameters,    *)
(* the numbers of tokens and of words that InferenceEngine chooses from include  *)
(* those of the reply.                                                       *)
CountsAsInEngine ==
    \E tokens, length \in 1..Len(text) :
        /\ tokens = CountTokens(text) /\ length = Len(text)
        /\ CountTokens(Reply) \in Engine(tokens, length)!Replies(max_tokens, stops # <<>>)
        /\ Len(Words(Reply)) \in Engine(tokens, length)!Wordings(CountTokens(Reply))

=============================================================================
