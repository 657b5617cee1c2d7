------------------------ MODULE ConversationHistory ------------------------
(***************************************************************************)
(* The conversation routes at work: users create, list and delete            *)
(* conversations and messages are added, in any order.  The handlers do not    *)
(* await, so each is one step.                                              *)
(*                                                                          *)
(*   asked   id -> the title the create asked for, and whether the client was  *)
(*           answered 201 (the global exception handler answers 500 when the   *)
(*           system prompt is refused)                                      *)
(*   reader  a client that lists Reader's conversations page by page: the     *)
(*           next offset, the ids it was given, the conversations that existed *)
(*           when it began and have neither changed nor gone since, and how   *)
(*           many conversations of Reader were deleted meanwhile              *)
(***************************************************************************)
EXTENDS ConversationStore, FiniteSets

CONSTANTS
    Users, Reader,
    Titles, Prompts,  \* what create requests carry
    Bodies,           \* what messages say
    PageSize,
    MaxConversations, MaxMessages, MaxClock

ASSUME HistoryAssumption ==
    /\ Reader \in Users /\ PageSize \in Nat \ {0}
    /\ Titles \cup Prompts \subseteq Texts \cup {None} /\ Bodies \subseteq Texts
    /\ MaxConversations \in Nat /\ MaxMessages \in Nat /\ MaxClock \in Nat

VARIABLES asked, reader

vars == <<storeVars, asked, reader>>

Ids(s) == {s[i] : i \in DOMAIN s}

(* create_conversation *)
Create(user, title, prompt) ==
    /\ drawn < MaxConversations
    /\ CreateConversation(user, title, prompt)
    /\ asked' = Put(asked, drawn + 1, [title |-> TitleOf(title), created |-> Accepted(prompt)])
    /\ UNCHANGED reader

(* add_message, called with the id alone. *)
Add(id, role, text) ==
    /\ id \in DOMAIN messages /\ Len(messages[id]) < MaxMessages
    /\ AddMessage(id, role, text)
    /\ reader' = [reader EXCEPT !.untouched = @ \ {id}]
    /\ UNCHANGED asked

(* delete_conversation *)
Delete(user, id) ==
    /\ DeleteConversation(user, id)
    /\ reader' = [reader EXCEPT !.untouched = @ \ {id},
                                !.deleted = IF user = Reader THEN @ + 1 ELSE @]
    /\ UNCHANGED asked

StartReading ==
    /\ reader.done
    /\ reader' = [offset |-> 0, seen |-> {}, untouched |-> Owned(Reader),
                  deleted |-> 0, done |-> FALSE]
    /\ UNCHANGED <<storeVars, asked>>

(* list_conversations; a page shorter than asked for is the last one. *)
ReadPage ==
    /\ ~reader.done
    /\ LET page == ListPage(Reader, PageSize, reader.offset) IN
       reader' = [reader EXCEPT !.seen = @ \cup Ids(page),
                                !.offset = @ + PageSize,
                                !.done = Len(page) < PageSize]
    /\ UNCHANGED <<storeVars, asked>>

TimePasses == clock < MaxClock /\ ClockTick /\ UNCHANGED <<asked, reader>>

Init ==
    /\ StoreInit /\ asked = Empty
    /\ reader = [offset |-> 0, seen |-> {}, untouched |-> {}, deleted |-> 0, done |-> TRUE]

Next ==
    \/ \E user \in Users :
          \/ \E title \in Titles, prompt \in Prompts : Create(user, title, prompt)
          \/ \E id \in DOMAIN conversations : Delete(user, id)
    \/ \E id \in DOMAIN conversations, role \in Roles, text \in Bodies : Add(id, role, text)
    \/ StartReading \/ ReadPage
    \/ TimePasses

Spec == Init /\ [][Next]_vars

-----------------------------------------------------------------------------

Conversation ==
    [user : Users, title : [text : Texts, cut : BOOLEAN],
     system_prompt : Texts \cup {None}, message_count : Nat, updated_at : Nat]

MessageType == [role : Roles, content : Texts, created_at : Nat]

(* Every variable keeps its type.                                           *)
TypeOK ==
    /\ clock \in Nat /\ drawn \in Nat
    /\ DOMAIN conversations \subseteq 1..drawn /\ DOMAIN asked = 1..drawn
    /\ \A id \in DOMAIN conversations : conversations[id] \in Conversation
    /\ \A id \in DOMAIN messages : messages[id] \in Seq(MessageType)
    /\ \A id \in 1..drawn :
          asked[id] \in [title : [text : Texts, cut : BOOLEAN], created : BOOLEAN]
    /\ reader.offset \in Nat /\ reader.deleted \in Nat /\ reader.done \in BOOLEAN
    /\ reader.untouched \subseteq 1..drawn

InStep(conv, list, t) ==
    /\ conv.message_count = Len(list)
    /\ list # <<>> => conv.updated_at = list[Len(list)].created_at
    /\ conv.updated_at <= t
    /\ \A i, j \in DOMAIN list : i < j => list[i].created_at <= list[j].created_at

(* The two dictionaries describe the same conversations: the same keys, the    *)
(* count of the list, the time of its last message, and times in order.      *)
IndexesAgree ==
    /\ DOMAIN messages = DOMAIN conversations
    /\ \A id \in DOMAIN conversations : InStep(conversations[id], messages[id], clock)

Names(message) == message.role = "user" /\ Headline(message.content) # Untitled

TitledBy(title, list, given) ==
    \/ /\ title = given
       /\ given # Untitled \/ \A i \in DOMAIN list : ~Names(list[i])
    \/ /\ given = Untitled
       /\ \E i \in DOMAIN list :
             /\ Names(list[i]) /\ title = Headline(list[i].content)
             /\ \A j \in DOMAIN list : j < i => ~Names(list[j])

(* The title is the one asked for or, in its absence, the headline of the      *)
(* first user message whose text is not itself the placeholder.              *)
TitleFromFirst ==
    \A id \in DOMAIN conversations :
        TitledBy(conversations[id].title, messages[id], asked[id].title)

PromptFirst(prompt, list) ==
    Prompted(prompt) =>
        list # <<>> /\ list[1].role = "system" /\ list[1].content = prompt

(* A conversation whose creation was answered 201 has its system prompt as     *)
(* its first message for as long as it lives.                               *)
PromptKept ==
    \A id \in DOMAIN conversations :
        asked[id].created => PromptFirst(conversations[id].system_prompt, messages[id])

(* A client that pages through list_conversations while conversations are      *)
(* created, written to and deleted gets only its own, and misses no more of    *)
(* those that stayed as they were than were deleted under it.                *)
ListingMissesAtMostDeletions ==
    reader.done =>
        /\ \A id \in reader.seen \cap DOMAIN conversations : Owns(Reader, id)
        /\ Cardinality(reader.untouched \ reader.seen) <= reader.deleted

-----------------------------------------------------------------------------
(* What the repository says of the program and the code does not do.         *)

(* docs/05_system_architecture.md: the conversation service "returns           *)
(* conversation history and system prompt" to the completion flow.           *)
HistoryUsable == \A id \in DOMAIN messages : ~ChatMessagesRaise(id)
=============================================================================
