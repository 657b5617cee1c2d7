------------------------- MODULE MessageTruncation -------------------------
(***************************************************************************)
(* truncate_messages of neuronlm/core/tokenizer.py, called for a conversation  *)
(* that grows by one message at a time.  Nothing under src/neuronlm calls it;   *)
(* the callers are its tests.                                               *)
(*                                                                          *)
(*   messages  the conversation: role and number of tokens, and a number that  *)
(*             tells messages apart                                         *)
(*   budget, preserve_system, preserve_last  the other arguments              *)
(***************************************************************************)
EXTENDS Integers, Sequences, SequencesExt, Functions, Order

CONSTANTS
    Sizes,       \* tokens of a message, role and content
    Budgets,
    MaxMessages  \* bound on the conversation

ASSUME SizesAssumption == Sizes \subseteq Nat /\ Budgets \subseteq Int /\ MaxMessages \in Nat

VARIABLES messages, budget, preserve_system, preserve_last

truncationVars == <<messages, budget, preserve_system, preserve_last>>

Roles == {"system", "user", "assistant"}

(* count_message_tokens: 4 a message, and 2 for priming the answer. *)
CountMessageTokens(ms) == 2 + SumFunction([i \in DOMAIN ms |-> 4 + ms[i].tokens])

IsSystem(m) == m.role = "system"

(* Mutant: a message that does not fit is skipped and older ones are tried. *)
Visit_Skips(m, loop) ==
    IF loop.room >= CountMessageTokens(<<m>>)
    THEN [loop EXCEPT !.kept = <<m>> \o @, !.room = @ - CountMessageTokens(<<m>>)]
    ELSE loop

(* One turn of the loop over the removable messages: each is charged as if it  *)
(* were counted alone, and the first that does not fit what is left closes.   *)
Visit(m, loop) ==
    IF loop.open /\ loop.room >= CountMessageTokens(<<m>>)
    THEN [loop EXCEPT !.kept = <<m>> \o @, !.room = @ - CountMessageTokens(<<m>>)]
    ELSE [loop EXCEPT !.open = FALSE]

(* From the newest to the oldest. *)
KeptOf(removable, room) ==
    LET after[n \in 0..Len(removable)] ==
            IF n = 0 THEN [kept |-> <<>>, room |-> room, open |-> TRUE]
            ELSE Visit(removable[Len(removable) - n + 1], after[n - 1])
    IN  after[Len(removable)].kept

Protected(ms) ==
    {m \in Range(ms) : (preserve_system /\ IsSystem(m))
                       \/ (preserve_last /\ m = ms[Len(ms)])}

ProtectedOf(ms) == Filter(ms, Protected(ms))
RemovableOf(ms) == Filter(ms, Range(ms) \ Protected(ms))

(* Mutant: the protected messages are not charged. *)
Room_Uncharged(ms) == budget

Room(ms) == budget - CountMessageTokens(ProtectedOf(ms))

(* truncate_messages: protected system messages first, wherever they were.     *)
Truncated(ms) ==
    LET system == {m \in Range(ms) : IsSystem(m)}
    IN  IF ms = <<>> \/ CountMessageTokens(ms) <= budget THEN ms
        ELSE Filter(ProtectedOf(ms), system)
             \o KeptOf(RemovableOf(ms), Room(ms))
             \o Filter(ProtectedOf(ms), Range(ms) \ system)

Say(role, tokens) ==
    /\ Len(messages) < MaxMessages
    /\ messages' = Append(messages,
                          [role |-> role, tokens |-> tokens, number |-> Len(messages) + 1])
    /\ UNCHANGED <<budget, preserve_system, preserve_last>>

TruncationInit ==
    /\ messages = <<>> /\ budget \in Budgets
    /\ preserve_system \in BOOLEAN /\ preserve_last \in BOOLEAN

TruncationNext == \E role \in Roles, tokens \in Sizes : Say(role, tokens)

TruncationSpec == TruncationInit /\ [][TruncationNext]_truncationVars

-----------------------------------------------------------------------------

Forgotten == Range(messages) \ Range(Truncated(messages))

(* The reference: of the removable messages the longest suffix that fits when  *)
(* every one is charged its tokens and 6 is kept, in order, and nothing else.  *)
LongestSuffixKept ==
    LET removable == RemovableOf(messages)
        Cost(s) == CountMessageTokens(s) - 2 + 2 * Len(s)
        From(i) == SubSeq(removable, i, Len(removable))
        starts == {i \in DOMAIN removable : Cost(From(i)) <= Room(messages)}
    IN  CountMessageTokens(messages) > budget =>
            Filter(Truncated(messages), Range(Truncated(messages)) \ Protected(messages)) =
                IF starts = {} THEN <<>> ELSE From(Min(starts))

(* If the protected messages fit the budget, so does the result.              *)
FitsWhenProtectedFit ==
    CountMessageTokens(ProtectedOf(messages)) <= budget =>
        CountMessageTokens(Truncated(messages)) <= budget

(* A message that truncation has dropped does not come back when the            *)
(* conversation grows: the model never recalls what it had forgotten.         *)
ForgottenStaysForgotten == [][Forgotten \subseteq Forgotten']_truncationVars

-----------------------------------------------------------------------------
(* What the repository says of the program and the code does not do.         *)

(* core/tokenizer.py, truncate_messages: "Always keep the last user message    *)
(* (if preserve_last)".                                                     *)
LastUserKept ==
    preserve_last =>
        \A m \in Range(messages) :
            /\ m.role = "user"
            /\ \A n \in Range(messages) : n.role = "user" => n.number <= m.number
            => m \notin Forgotten
=============================================================================
