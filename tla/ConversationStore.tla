------------------------- MODULE ConversationStore -------------------------
(***************************************************************************)
(* neuronlm/services/conversation.py: conversations and their messages, kept   *)
(* in two dictionaries that share their keys.                               *)
(*                                                                          *)
(*   clock          datetime.now(timezone.utc)                              *)
(*   drawn          how many conversation ids were ever drawn                *)
(*   conversations  id -> owner, title, prompt, message_count, updated_at     *)
(*   messages       id -> the messages, oldest first                        *)
(*                                                                          *)
(* A fresh id stands for uuid4(); ids grow in the order in which the dictionary *)
(* holds them.  Texts are named, and told apart by what the code can tell:     *)
(* the empty one, the placeholder title, those the tokenizer refuses to        *)
(* encode, those longer than a title and those longer than a ChatMessage may   *)
(* be.  Token counts, models and latencies are stored and read by nothing.  A  *)
(* call that raises before it has changed anything is no step.               *)
(***************************************************************************)
EXTENDS Integers, Sequences, Order, Dict

CONSTANTS
    Texts,
    NoText,       \* ""
    Placeholder,  \* "New Conversation"
    Refused,      \* texts with a special token, which encode() raises on
    Long,         \* texts of more than 80 characters
    Oversized,    \* texts of more than 100,000 characters
    None,         \* an optional argument that is not given
    Roles

ASSUME TextAssumption ==
    /\ {NoText, Placeholder} \subseteq Texts /\ None \notin Texts
    /\ NoText # Placeholder /\ Refused \cup Long \subseteq Texts \ {NoText, Placeholder}
    /\ Oversized \subseteq Long
    /\ {"system", "user"} \subseteq Roles

VARIABLES clock, drawn, conversations, messages

storeVars == <<clock, drawn, conversations, messages>>

(* content[:80] + ("..." if len(content) > 80 else "") *)
Headline(text) == [text |-> text, cut |-> text \in Long]

Untitled == Headline(Placeholder)

(* Mutant: a title that is not given is kept as it is. *)
TitleOf_AsGiven(title) == [text |-> title, cut |-> FALSE]

(* title or "New Conversation" *)
TitleOf(title) ==
    IF title \in {None, NoText} THEN Untitled ELSE [text |-> title, cut |-> FALSE]

Message(role, text) == [role |-> role, content |-> text, created_at |-> clock]

(* Mutant: the count is taken before the message is appended. *)
Noted_CountsEarly(conv, list) ==
    LET last == list[Len(list)] IN
    [conv EXCEPT
        !.message_count = Len(list) - 1,
        !.updated_at = last.created_at,
        !.title = IF @ = Untitled /\ last.role = "user" THEN Headline(last.content) ELSE @]

(* Mutant: any message titles the conversation. *)
Noted_AnyRole(conv, list) ==
    LET last == list[Len(list)] IN
    [conv EXCEPT
        !.message_count = Len(list),
        !.updated_at = last.created_at,
        !.title = IF @ = Untitled THEN Headline(last.content) ELSE @]

(* What add_message makes of a conversation once the list has its message.     *)
Noted(conv, list) ==
    LET last == list[Len(list)] IN
    [conv EXCEPT
        !.message_count = Len(list),
        !.updated_at = last.created_at,
        !.title = IF @ = Untitled /\ last.role = "user" THEN Headline(last.content) ELSE @]

Prompted(prompt) == prompt \notin {None, NoText}

(* A refused prompt raises after the conversation has been stored. *)
Accepted(prompt) == Prompted(prompt) => prompt \notin Refused

(* create_conversation *)
CreateConversation(user, title, prompt) ==
    LET id == drawn + 1
        conv == [user |-> user, title |-> TitleOf(title), system_prompt |-> prompt,
                 message_count |-> 0, updated_at |-> clock]
        first == IF Prompted(prompt) /\ Accepted(prompt)
                 THEN <<Message("system", prompt)>> ELSE <<>>
    IN  /\ drawn' = id
        /\ messages' = Put(messages, id, first)
        /\ conversations' =
               Put(conversations, id, IF first = <<>> THEN conv ELSE Noted(conv, first))
        /\ UNCHANGED clock

(* Mutant: the newest message comes first. *)
AddMessage_Prepends(id, role, text) ==
    LET list == <<Message(role, text)>> \o messages[id] IN
    /\ id \in DOMAIN conversations
    /\ text \notin Refused
    /\ messages' = Put(messages, id, list)
    /\ conversations' = Put(conversations, id, Noted(conversations[id], list))
    /\ UNCHANGED <<clock, drawn>>

(* add_message, of a text that count_tokens accepts. *)
AddMessage(id, role, text) ==
    LET list == Append(messages[id], Message(role, text)) IN
    /\ id \in DOMAIN conversations
    /\ text \notin Refused
    /\ messages' = Put(messages, id, list)
    /\ conversations' = Put(conversations, id, Noted(conversations[id], list))
    /\ UNCHANGED <<clock, drawn>>

(* get_conversation, and the ownership check of the routes. *)
Owns(user, id) == id \in DOMAIN conversations /\ conversations[id].user = user

(* Mutant: the messages are forgotten to be dropped. *)
DeleteConversation_KeepsMessages(user, id) ==
    /\ Owns(user, id)
    /\ conversations' = Drop(conversations, id)
    /\ UNCHANGED <<clock, drawn, messages>>

(* delete_conversation *)
DeleteConversation(user, id) ==
    /\ Owns(user, id)
    /\ conversations' = Drop(conversations, id)
    /\ messages' = Drop(messages, id)
    /\ UNCHANGED <<clock, drawn>>

ClockTick == clock' = clock + 1 /\ UNCHANGED <<drawn, conversations, messages>>

StoreInit == clock = 0 /\ drawn = 0 /\ conversations = Empty /\ messages = Empty

-----------------------------------------------------------------------------
(* What the reading calls return.                                           *)

(* s[i:j] of a Python list. *)
Slice(s, i, j) ==
    LET Clip(n) == IF n < 0 THEN (IF Len(s) + n < 0 THEN 0 ELSE Len(s) + n)
                   ELSE IF n > Len(s) THEN Len(s) ELSE n
    IN  SubSeq(s, Clip(i) + 1, Clip(j))

(* Mutant: reverse=True is forgotten. *)
Before_Ascending(i, j) ==
    \/ conversations[i].updated_at < conversations[j].updated_at
    \/ conversations[i].updated_at = conversations[j].updated_at /\ i < j

(* sort(key=updated_at, reverse=True): ties stay in the dictionary's order. *)
Before(i, j) ==
    \/ conversations[i].updated_at > conversations[j].updated_at
    \/ conversations[i].updated_at = conversations[j].updated_at /\ i < j

Owned(user) == {id \in DOMAIN conversations : conversations[id].user = user}

Listing(user) ==
    InOrder(Owned(user), {p \in Owned(user) \X Owned(user) : Before(p[1], p[2])})

(* list_conversations *)
ListPage(user, limit, offset) == Slice(Listing(user), offset, offset + limit)

(* get_chat_messages makes a ChatMessage of every message, which raises for one *)
(* whose content has less than 1 character or more than 100,000.            *)
ChatMessagesRaise(id) ==
    \E i \in DOMAIN messages[id] : messages[id][i].content \in {NoText} \cup Oversized
=============================================================================
