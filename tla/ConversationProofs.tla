------------------------- MODULE ConversationProofs -------------------------
(***************************************************************************)
(* Machine-checked proofs about the conversation store, for any users, texts,  *)
(* roles and numbers of conversations and messages.                         *)
(*                                                                          *)
(* The four invariants are inductive together: that a title comes from the    *)
(* first message that names one needs the lists to be those of the            *)
(* conversations, and what add_message does to one conversation is a fact     *)
(* about a record and a list alone.                                         *)
(***************************************************************************)
EXTENDS ConversationHistory, SequenceTheorems, DataLemmas, TLAPS

IInv == TypeOK /\ IndexesAgree /\ TitleFromFirst /\ PromptKept

(* One conversation and its list as they may be found at time t.              *)
Coherent(conv, list, ask, t) ==
    /\ conv \in Conversation /\ list \in Seq(MessageType)
    /\ InStep(conv, list, t)
    /\ TitledBy(conv.title, list, ask.title)
    /\ ask.created => PromptFirst(conv.system_prompt, list)

-----------------------------------------------------------------------------

LEMMA HeadlineTyped ==
    ASSUME NEW text \in Texts
    PROVE  Headline(text) \in [text : Texts, cut : BOOLEAN]
  BY DEF Headline

LEMMA TitleTyped ==
    ASSUME NEW title \in Texts \cup {None}
    PROVE  TitleOf(title) \in [text : Texts, cut : BOOLEAN]
<1>1. Untitled \in [text : Texts, cut : BOOLEAN]
  BY HeadlineTyped, TextAssumption DEF Untitled
<1> QED
  BY <1>1 DEF TitleOf

LEMMA AppendFacts ==
    ASSUME NEW S, NEW list \in Seq(S), NEW m \in S
    PROVE  /\ Append(list, m) \in Seq(S) /\ Append(list, m) # <<>>
           /\ Len(Append(list, m)) = Len(list) + 1 /\ Len(list) \in Nat
           /\ DOMAIN Append(list, m) = 1..(Len(list) + 1) /\ DOMAIN list = 1..Len(list)
           /\ \A i \in 1..Len(list) : Append(list, m)[i] = list[i]
           /\ Append(list, m)[Len(list) + 1] = m
  OBVIOUS

(* What a message that is appended does to its conversation's record.         *)
LEMMA NotedFacts ==
    ASSUME NEW conv \in Conversation, NEW list \in Seq(MessageType), NEW m \in MessageType
    PROVE  LET noted == Noted(conv, Append(list, m)) IN
           /\ noted \in Conversation
           /\ noted.message_count = Len(list) + 1 /\ noted.updated_at = m.created_at
           /\ noted.user = conv.user /\ noted.system_prompt = conv.system_prompt
           /\ noted.title = IF conv.title = Untitled /\ m.role = "user"
                            THEN Headline(m.content) ELSE conv.title
<1> DEFINE l2 == Append(list, m)
           title == IF conv.title = Untitled /\ m.role = "user"
                    THEN Headline(m.content) ELSE conv.title
<1>1. Len(l2) = Len(list) + 1 /\ l2[Len(l2)] = m /\ Len(l2) \in Nat
  BY AppendFacts
<1>2. m.created_at \in Nat /\ title \in [text : Texts, cut : BOOLEAN]
  BY HeadlineTyped DEF MessageType, Conversation
<1>3. Noted(conv, l2) = [conv EXCEPT !.message_count = Len(l2),
                                     !.updated_at = m.created_at, !.title = title]
  BY <1>1 DEF Noted
<1> HIDE DEF l2, title
<1>4. /\ Noted(conv, l2) \in Conversation
      /\ Noted(conv, l2).message_count = Len(l2) /\ Noted(conv, l2).updated_at = m.created_at
      /\ Noted(conv, l2).user = conv.user /\ Noted(conv, l2).system_prompt = conv.system_prompt
      /\ Noted(conv, l2).title = title
  BY <1>1, <1>2, <1>3 DEF Conversation
<1> QED
  BY <1>1, <1>4 DEF l2, title

(* add_message keeps a conversation coherent.                                *)
LEMMA AppendKeepsCoherent ==
    ASSUME NEW conv, NEW list, NEW ask, NEW t \in Nat, Coherent(conv, list, ask, t),
           NEW m \in MessageType, m.created_at = t
    PROVE  Coherent(Noted(conv, Append(list, m)), Append(list, m), ask, t)
<1> DEFINE l2 == Append(list, m)
           c2 == Noted(conv, l2)
<1>1. conv \in Conversation /\ list \in Seq(MessageType) /\ InStep(conv, list, t)
  BY DEF Coherent
<1>2. /\ l2 \in Seq(MessageType) /\ l2 # <<>> /\ Len(l2) = Len(list) + 1 /\ Len(list) \in Nat
      /\ DOMAIN l2 = 1..(Len(list) + 1) /\ DOMAIN list = 1..Len(list)
      /\ \A i \in 1..Len(list) : l2[i] = list[i]
      /\ l2[Len(list) + 1] = m
  BY <1>1, AppendFacts
<1>3. /\ c2 \in Conversation /\ c2.message_count = Len(list) + 1 /\ c2.updated_at = t
      /\ c2.system_prompt = conv.system_prompt
      /\ c2.title = IF conv.title = Untitled /\ m.role = "user"
                    THEN Headline(m.content) ELSE conv.title
  BY <1>1, NotedFacts
<1> HIDE DEF l2, c2
<1>4. InStep(c2, l2, t)
  <2>1. \A i \in DOMAIN list : list[i].created_at <= t
    <3> SUFFICES ASSUME NEW i \in DOMAIN list PROVE list[i].created_at <= t
      OBVIOUS
    <3>1. Len(list) \in DOMAIN list /\ conv.updated_at = list[Len(list)].created_at
      BY <1>1, <1>2 DEF InStep
    <3>2. list[i] \in MessageType
      BY <1>1
    <3>3. list[i].created_at \in Nat /\ conv.updated_at \in Nat /\ conv.updated_at <= t
      BY <1>1, <3>2 DEF InStep, MessageType, Conversation
    <3>4. list[i].created_at <= conv.updated_at
      <4>1. CASE i = Len(list)
        BY <3>1, <3>3, <4>1
      <4>2. CASE i # Len(list)
        <5>1. i < Len(list)
          BY <1>2, <4>2
        <5> QED
          BY <1>1, <3>1, <5>1 DEF InStep
      <4> QED
        BY <4>1, <4>2
    <3> QED
      BY <3>3, <3>4
  <2>2. \A i, j \in DOMAIN l2 : i < j => l2[i].created_at <= l2[j].created_at
    <3> SUFFICES ASSUME NEW i \in DOMAIN l2, NEW j \in DOMAIN l2, i < j
                 PROVE  l2[i].created_at <= l2[j].created_at
      OBVIOUS
    <3>1. i \in DOMAIN list /\ l2[i] = list[i]
      BY <1>2
    <3>2. CASE j = Len(list) + 1
      BY <1>2, <2>1, <3>1, <3>2
    <3>3. CASE j # Len(list) + 1
      <4>1. j \in DOMAIN list /\ l2[j] = list[j]
        BY <1>2, <3>3
      <4> QED
        BY <1>1, <3>1, <4>1 DEF InStep
    <3> QED
      BY <3>2, <3>3
  <2> QED
    BY <1>2, <1>3, <2>2 DEF InStep
<1>5. TitledBy(c2.title, l2, ask.title)
  <2>1. TitledBy(conv.title, list, ask.title)
    BY DEF Coherent
  <2>2. CASE /\ conv.title = ask.title
             /\ ask.title # Untitled \/ \A i \in DOMAIN list : ~Names(list[i])
    <3>1. CASE ask.title # Untitled
      BY <1>3, <2>2, <3>1 DEF TitledBy
    <3>2. CASE ask.title = Untitled /\ Names(m)
      <4>1. Names(l2[Len(list) + 1]) /\ c2.title = Headline(l2[Len(list) + 1].content)
        BY <1>2, <1>3, <2>2, <3>2 DEF Names
      <4>2. \A j \in DOMAIN l2 : j < Len(list) + 1 => ~Names(l2[j])
        BY <1>2, <2>2, <3>2
      <4> QED
        BY <1>2, <3>2, <4>1, <4>2 DEF TitledBy
    <3>3. CASE ask.title = Untitled /\ ~Names(m)
      <4>1. c2.title = Untitled
        BY <1>3, <2>2, <3>3 DEF Names
      <4>2. \A j \in DOMAIN l2 : ~Names(l2[j])
        BY <1>2, <2>2, <3>3
      <4> QED
        BY <3>3, <4>1, <4>2 DEF TitledBy
    <3> QED
      BY <3>1, <3>2, <3>3
  <2>3. CASE /\ ask.title = Untitled
             /\ \E i \in DOMAIN list :
                   /\ Names(list[i]) /\ conv.title = Headline(list[i].content)
                   /\ \A j \in DOMAIN list : j < i => ~Names(list[j])
    <3>1. PICK i \in DOMAIN list :
                   /\ Names(list[i]) /\ conv.title = Headline(list[i].content)
                   /\ \A j \in DOMAIN list : j < i => ~Names(list[j])
      BY <2>3
    <3>2. c2.title = Headline(list[i].content)
      BY <1>3, <3>1 DEF Names
    <3>3. i \in DOMAIN l2 /\ l2[i] = list[i]
      BY <1>2
    <3>4. \A j \in DOMAIN l2 : j < i => ~Names(l2[j])
      BY <1>2, <3>1
    <3> QED
      BY <2>3, <3>1, <3>2, <3>3, <3>4 DEF TitledBy
  <2> QED
    BY <2>1, <2>2, <2>3 DEF TitledBy
<1>6. ask.created => PromptFirst(c2.system_prompt, l2)
  <2>1. ASSUME list # <<>> PROVE l2[1] = list[1]
    BY <1>1, <1>2, <2>1
  <2> QED
    BY <1>2, <1>3, <2>1 DEF Coherent, PromptFirst
<1>7. Coherent(c2, l2, ask, t)
  BY <1>2, <1>3, <1>4, <1>5, <1>6 DEF Coherent
<1> QED
  BY <1>7 DEF c2, l2


(* A conversation that time passes over stays coherent.                      *)
LEMMA CoherentLater ==
    ASSUME NEW conv, NEW list, NEW ask, NEW t \in Nat, NEW later \in Nat, t <= later,
           Coherent(conv, list, ask, t)
    PROVE  Coherent(conv, list, ask, later)
<1>1. conv.updated_at \in Nat
  BY DEF Coherent, Conversation
<1> QED
  BY <1>1 DEF Coherent, InStep

LEMMA MessageTyped ==
    ASSUME NEW role \in Roles, NEW text \in Texts, NEW t \in Nat
    PROVE  [role |-> role, content |-> text, created_at |-> t] \in MessageType
  BY DEF MessageType

(* The invariants say that every stored conversation is coherent.             *)
LEMMA CoherenceIsTheInvariant ==
    ASSUME clock \in Nat, DOMAIN messages = DOMAIN conversations
    PROVE  (\A id \in DOMAIN conversations :
                Coherent(conversations[id], messages[id], asked[id], clock))
           <=> /\ \A id \in DOMAIN conversations : conversations[id] \in Conversation
               /\ \A id \in DOMAIN messages : messages[id] \in Seq(MessageType)
               /\ IndexesAgree /\ TitleFromFirst /\ PromptKept
  BY DEF Coherent, IndexesAgree, TitleFromFirst, PromptKept

(* What create_conversation stores is coherent from the start.                *)
LEMMA CreatedCoherent ==
    ASSUME NEW user \in Users, NEW title \in Texts \cup {None}, NEW prompt \in Texts \cup {None},
           NEW t \in Nat,
           NEW conv, conv = [user |-> user, title |-> TitleOf(title), system_prompt |-> prompt,
                             message_count |-> 0, updated_at |-> t],
           NEW m, m = [role |-> "system", content |-> prompt, created_at |-> t],
           NEW ask, ask = [title |-> TitleOf(title), created |-> Accepted(prompt)]
    PROVE  IF Prompted(prompt) /\ Accepted(prompt)
           THEN Coherent(Noted(conv, <<m>>), <<m>>, ask, t)
           ELSE Coherent(conv, <<>>, ask, t)
<1>1. /\ conv \in Conversation /\ conv.title = TitleOf(title) /\ conv.message_count = 0
      /\ conv.updated_at = t /\ conv.system_prompt = prompt
  BY TitleTyped DEF Conversation
<1>2. ask.title = TitleOf(title) /\ ask.created = Accepted(prompt)
  OBVIOUS
<1>3. << >> \in Seq(MessageType) /\ DOMAIN << >> = {} /\ Len(<< >>) = 0
  OBVIOUS
<1>4. InStep(conv, << >>, t) /\ TitledBy(conv.title, << >>, ask.title)
  BY <1>1, <1>2, <1>3 DEF InStep, TitledBy
<1>5. CASE Prompted(prompt) /\ Accepted(prompt)
  <2>1. prompt \in Texts /\ m \in MessageType /\ m.created_at = t /\ m.role = "system"
        /\ m.content = prompt
    BY <1>5, MessageTyped, TextAssumption DEF Prompted
  <2>2. <<m>> \in Seq(MessageType) /\ Len(<<m>>) = 1 /\ <<m>>[1] = m /\ DOMAIN <<m>> = {1}
        /\ Append(<< >>, m) = <<m>>
    BY <2>1
  <2>3. Noted(conv, <<m>>) \in Conversation /\ Noted(conv, <<m>>).message_count = 1
        /\ Noted(conv, <<m>>).updated_at = t /\ Noted(conv, <<m>>).system_prompt = prompt
        /\ Noted(conv, <<m>>).title = conv.title
    <3>1. PICK e : e = << >>
      OBVIOUS
    <3>2. e \in Seq(MessageType) /\ Len(e) = 0 /\ Append(e, m) = <<m>>
      BY <1>3, <2>2, <3>1
    <3>3. LET noted == Noted(conv, Append(e, m)) IN
          /\ noted \in Conversation
          /\ noted.message_count = Len(e) + 1 /\ noted.updated_at = m.created_at
          /\ noted.user = conv.user /\ noted.system_prompt = conv.system_prompt
          /\ noted.title = IF conv.title = Untitled /\ m.role = "user"
                           THEN Headline(m.content) ELSE conv.title
      <4>1. conv \in Conversation /\ e \in Seq(MessageType) /\ m \in MessageType
        BY <1>1, <2>1, <3>2
      <4> QED
        BY ONLY <4>1, NotedFacts
    <3> QED
      BY <1>1, <2>1, <3>2, <3>3
  <2>4. InStep(Noted(conv, <<m>>), <<m>>, t)
    BY <2>1, <2>2, <2>3 DEF InStep
  <2>5. ~Names(m) /\ TitledBy(Noted(conv, <<m>>).title, <<m>>, ask.title)
    BY <1>1, <1>2, <2>1, <2>2, <2>3 DEF Names, TitledBy
  <2>6. PromptFirst(prompt, <<m>>)
    BY <2>1, <2>2 DEF PromptFirst
  <2> QED
    BY <1>5, <2>2, <2>3, <2>4, <2>5, <2>6 DEF Coherent
<1>6. CASE ~(Prompted(prompt) /\ Accepted(prompt))
  <2>1. ask.created => ~Prompted(prompt)
    BY <1>2, <1>6 DEF Accepted
  <2> QED
    BY <1>1, <1>3, <1>4, <1>6, <2>1 DEF Coherent, PromptFirst
<1> QED
  BY <1>5, <1>6

-----------------------------------------------------------------------------

LEMMA Initially == Init => IInv
<1> SUFFICES ASSUME Init PROVE IInv
  OBVIOUS
<1>1. /\ clock = 0 /\ drawn = 0 /\ conversations = Empty /\ messages = Empty /\ asked = Empty
      /\ reader = [offset |-> 0, seen |-> {}, untouched |-> {}, deleted |-> 0, done |-> TRUE]
  BY DEF Init, StoreInit
<1>2. DOMAIN conversations = {} /\ DOMAIN messages = {} /\ DOMAIN asked = {} /\ 1..0 = {}
  BY <1>1 DEF Empty
<1>3. TypeOK
  BY <1>1, <1>2 DEF TypeOK
<1> QED
  BY <1>2, <1>3 DEF IInv, IndexesAgree, TitleFromFirst, PromptKept

(* The part of TypeOK that is not about single conversations.                 *)
ShapeOK ==
    /\ clock \in Nat /\ drawn \in Nat
    /\ DOMAIN conversations \subseteq 1..drawn /\ DOMAIN asked = 1..drawn
    /\ \A id \in 1..drawn :
          asked[id] \in [title : [text : Texts, cut : BOOLEAN], created : BOOLEAN]
    /\ reader.offset \in Nat /\ reader.deleted \in Nat /\ reader.done \in BOOLEAN
    /\ reader.untouched \subseteq 1..drawn

AllCoherent ==
    /\ DOMAIN messages = DOMAIN conversations
    /\ \A id \in DOMAIN conversations :
          Coherent(conversations[id], messages[id], asked[id], clock)

LEMMA Parts == IInv <=> ShapeOK /\ AllCoherent
  BY DEF IInv, TypeOK, ShapeOK, AllCoherent, Coherent, IndexesAgree, TitleFromFirst, PromptKept

LEMMA CreateKeeps ==
    ASSUME ShapeOK, AllCoherent, NEW user \in Users, NEW title \in Titles, NEW prompt \in Prompts,
           Create(user, title, prompt)
    PROVE  ShapeOK' /\ AllCoherent'
<1> DEFINE id == drawn + 1
           conv == [user |-> user, title |-> TitleOf(title), system_prompt |-> prompt,
                    message_count |-> 0, updated_at |-> clock]
           m == [role |-> "system", content |-> prompt, created_at |-> clock]
           ask == [title |-> TitleOf(title), created |-> Accepted(prompt)]
           stored == Prompted(prompt) /\ Accepted(prompt)
           list == IF stored THEN <<m>> ELSE << >>
           noted == IF stored THEN Noted(conv, <<m>>) ELSE conv
<1>1. title \in Texts \cup {None} /\ prompt \in Texts \cup {None}
  BY HistoryAssumption
<1>2. clock \in Nat /\ drawn \in Nat /\ id \in Nat /\ id \notin DOMAIN conversations
  BY DEF ShapeOK
<1>3. /\ drawn' = id /\ clock' = clock /\ reader' = reader
      /\ messages' = Put(messages, id, list)
      /\ conversations' = Put(conversations, id, noted)
      /\ asked' = Put(asked, id, ask)
  <2>1. <<m>> # << >>
    OBVIOUS
  <2> QED
    BY <2>1 DEF Create, CreateConversation, Message
<1>4. Coherent(noted, list, ask, clock)
  <2> HIDE DEF conv, m, ask
  <2>1. IF stored THEN Coherent(Noted(conv, <<m>>), <<m>>, ask, clock)
        ELSE Coherent(conv, << >>, ask, clock)
    <3>1. PICK t : t = clock
      OBVIOUS
    <3>2. /\ conv = [user |-> user, title |-> TitleOf(title), system_prompt |-> prompt,
                     message_count |-> 0, updated_at |-> t]
          /\ m = [role |-> "system", content |-> prompt, created_at |-> t]
          /\ ask = [title |-> TitleOf(title), created |-> Accepted(prompt)]
      BY <3>1 DEF conv, m, ask
    <3> QED
      BY <1>1, <1>2, <3>1, <3>2, CreatedCoherent
  <2> QED
    BY <2>1
<1>5. ask \in [title : [text : Texts, cut : BOOLEAN], created : BOOLEAN]
  BY <1>1, TitleTyped DEF Accepted
<1> HIDE DEF conv, m, ask, list, noted, stored
<1>6. /\ DOMAIN conversations' = DOMAIN conversations \cup {id}
      /\ DOMAIN messages' = DOMAIN messages \cup {id} /\ DOMAIN asked' = DOMAIN asked \cup {id}
      /\ conversations'[id] = noted /\ messages'[id] = list /\ asked'[id] = ask
      /\ \A x \in DOMAIN conversations : x # id => conversations'[x] = conversations[x]
      /\ \A x \in DOMAIN messages : x # id => messages'[x] = messages[x]
      /\ \A x \in DOMAIN asked : x # id => asked'[x] = asked[x]
  BY <1>3 DEF Put
<1>7. 1..id = (1..drawn) \cup {id}
  BY <1>2
<1>8. ShapeOK'
  BY <1>2, <1>3, <1>5, <1>6, <1>7 DEF ShapeOK
<1>9. AllCoherent'
  <2> SUFFICES ASSUME NEW x \in DOMAIN conversations'
               PROVE  Coherent(conversations'[x], messages'[x], asked'[x], clock)
    BY <1>3, <1>6 DEF AllCoherent
  <2>1. CASE x = id
    BY <1>4, <1>6, <2>1
  <2>2. CASE x # id
    <3>1. x \in DOMAIN conversations /\ x \in DOMAIN messages /\ x \in DOMAIN asked
      BY <1>6, <2>2 DEF AllCoherent, ShapeOK
    <3> QED
      BY <1>6, <2>2, <3>1 DEF AllCoherent
  <2> QED
    BY <2>1, <2>2
<1> QED
  BY <1>8, <1>9

LEMMA AddKeeps ==
    ASSUME ShapeOK, AllCoherent, NEW id \in DOMAIN conversations, NEW role \in Roles,
           NEW text \in Bodies, Add(id, role, text)
    PROVE  ShapeOK' /\ AllCoherent'
<1> DEFINE m == Message(role, text)
           list == Append(messages[id], m)
           noted == Noted(conversations[id], list)
<1>1. /\ messages' = Put(messages, id, list) /\ conversations' = Put(conversations, id, noted)
      /\ UNCHANGED <<clock, drawn, asked>>
      /\ reader' = [reader EXCEPT !.untouched = @ \ {id}]
  BY DEF Add, AddMessage
<1>2. clock \in Nat /\ m \in MessageType /\ m.created_at = clock
  BY MessageTyped, HistoryAssumption DEF ShapeOK, Message
<1>3. Coherent(noted, list, asked[id], clock)
  <2> HIDE DEF m
  <2>1. Coherent(conversations[id], messages[id], asked[id], clock)
    BY DEF AllCoherent
  <2> QED
    BY <1>2, <2>1, AppendKeepsCoherent
<1> HIDE DEF m, list, noted
<1>4. /\ DOMAIN conversations' = DOMAIN conversations /\ DOMAIN messages' = DOMAIN messages
      /\ conversations'[id] = noted /\ messages'[id] = list
      /\ \A x \in DOMAIN conversations : x # id => conversations'[x] = conversations[x]
      /\ \A x \in DOMAIN messages : x # id => messages'[x] = messages[x]
  BY <1>1 DEF Put, AllCoherent
<1>5. ShapeOK'
  <2>1. /\ reader'.offset = reader.offset /\ reader'.deleted = reader.deleted
        /\ reader'.done = reader.done /\ reader'.untouched \subseteq 1..drawn
    BY <1>1 DEF ShapeOK
  <2> QED
    BY <1>1, <1>4, <2>1 DEF ShapeOK
<1>6. AllCoherent'
  BY <1>1, <1>3, <1>4 DEF AllCoherent
<1> QED
  BY <1>5, <1>6

LEMMA DeleteKeeps ==
    ASSUME ShapeOK, AllCoherent, NEW user \in Users, NEW id \in DOMAIN conversations,
           Delete(user, id)
    PROVE  ShapeOK' /\ AllCoherent'
<1>1. /\ messages' = Drop(messages, id) /\ conversations' = Drop(conversations, id)
      /\ UNCHANGED <<clock, drawn, asked>>
      /\ reader' = [reader EXCEPT !.untouched = @ \ {id},
                                  !.deleted = IF user = Reader THEN @ + 1 ELSE @]
  BY DEF Delete, DeleteConversation
<1>2. /\ DOMAIN conversations' = DOMAIN conversations \ {id}
      /\ DOMAIN messages' = DOMAIN messages \ {id}
      /\ \A x \in DOMAIN conversations' : conversations'[x] = conversations[x]
      /\ \A x \in DOMAIN messages' : messages'[x] = messages[x]
  BY <1>1 DEF Drop
<1>3. ShapeOK'
  <2>1. /\ reader'.offset = reader.offset /\ reader'.deleted \in Nat
        /\ reader'.done = reader.done /\ reader'.untouched \subseteq 1..drawn
    BY <1>1 DEF ShapeOK
  <2> QED
    BY <1>1, <1>2, <2>1 DEF ShapeOK
<1>4. AllCoherent'
  BY <1>1, <1>2 DEF AllCoherent
<1> QED
  BY <1>3, <1>4

LEMMA ReaderKeeps ==
    ASSUME ShapeOK, AllCoherent, StartReading \/ ReadPage
    PROVE  ShapeOK' /\ AllCoherent'
<1>1. UNCHANGED <<storeVars, asked>>
  BY DEF StartReading, ReadPage
<1>2. /\ reader'.offset \in Nat /\ reader'.deleted \in Nat /\ reader'.done \in BOOLEAN
      /\ reader'.untouched \subseteq 1..drawn
  <2>1. CASE StartReading
    BY <2>1 DEF StartReading, Owned, ShapeOK
  <2>2. CASE ReadPage
    <3> DEFINE page == ListPage(Reader, PageSize, reader.offset)
               done == Len(page) < PageSize
    <3>1. reader' = [reader EXCEPT !.seen = @ \cup Ids(page), !.offset = @ + PageSize,
                                   !.done = done]
      BY <2>2 DEF ReadPage
    <3>2. done \in BOOLEAN /\ PageSize \in Nat
      BY HistoryAssumption
    <3> HIDE DEF page, done
    <3> QED
      BY <3>1, <3>2 DEF ShapeOK
  <2> QED
    BY <2>1, <2>2
<1>3. ShapeOK'
  BY <1>1, <1>2 DEF ShapeOK, storeVars
<1>4. AllCoherent'
  BY <1>1 DEF AllCoherent, storeVars
<1> QED
  BY <1>3, <1>4

LEMMA TimeKeeps ==
    ASSUME ShapeOK, AllCoherent, TimePasses
    PROVE  ShapeOK' /\ AllCoherent'
<1>1. clock' = clock + 1 /\ clock \in Nat /\ UNCHANGED <<drawn, conversations, messages, asked, reader>>
  BY DEF TimePasses, ClockTick, ShapeOK
<1>2. \A id \in DOMAIN conversations :
          Coherent(conversations[id], messages[id], asked[id], clock + 1)
  BY <1>1, CoherentLater DEF AllCoherent
<1> QED
  BY <1>1, <1>2 DEF ShapeOK, AllCoherent

LEMMA Inductive == ShapeOK /\ AllCoherent /\ [Next]_vars => ShapeOK' /\ AllCoherent'
<1> SUFFICES ASSUME ShapeOK, AllCoherent, [Next]_vars PROVE ShapeOK' /\ AllCoherent'
  OBVIOUS
<1>1. ASSUME NEW user \in Users, NEW title \in Titles, NEW prompt \in Prompts,
             Create(user, title, prompt)
      PROVE  ShapeOK' /\ AllCoherent'
  BY <1>1, CreateKeeps
<1>2. ASSUME NEW user \in Users, NEW id \in DOMAIN conversations, Delete(user, id)
      PROVE  ShapeOK' /\ AllCoherent'
  BY <1>2, DeleteKeeps
<1>3. ASSUME NEW id \in DOMAIN conversations, NEW role \in Roles, NEW text \in Bodies,
             Add(id, role, text)
      PROVE  ShapeOK' /\ AllCoherent'
  BY <1>3, AddKeeps
<1>4. CASE StartReading \/ ReadPage
  BY <1>4, ReaderKeeps
<1>5. CASE TimePasses
  BY <1>5, TimeKeeps
<1>6. CASE UNCHANGED vars
  BY <1>6 DEF vars, storeVars, ShapeOK, AllCoherent
<1> QED
  BY <1>1, <1>2, <1>3, <1>4, <1>5, <1>6 DEF Next

LEMMA Invariance == Spec => []IInv
<1>1. Init => ShapeOK /\ AllCoherent
  BY Initially, Parts
<1>2. ShapeOK /\ AllCoherent => IInv
  BY Parts
<1> QED
  BY <1>1, <1>2, Inductive, PTL DEF Spec

(* The store keeps its types.                                               *)
THEOREM ConversationsTypeCorrect == Spec => []TypeOK
<1>1. IInv => TypeOK
  BY DEF IInv
<1> QED
  BY <1>1, Invariance, PTL

(* The two dictionaries, the counts and the times always agree.               *)
THEOREM IndexesStayInStep == Spec => []IndexesAgree
<1>1. IInv => IndexesAgree
  BY DEF IInv
<1> QED
  BY <1>1, Invariance, PTL

(* Titles are the ones asked for or come from the first message that names     *)
(* one, whatever is added in whatever order.                                *)
THEOREM TitlesComeFirst == Spec => []TitleFromFirst
<1>1. IInv => TitleFromFirst
  BY DEF IInv
<1> QED
  BY <1>1, Invariance, PTL

(* An acknowledged system prompt stays the first message.                    *)
THEOREM PromptsAreKept == Spec => []PromptKept
<1>1. IInv => PromptKept
  BY DEF IInv
<1> QED
  BY <1>1, Invariance, PTL

-----------------------------------------------------------------------------
(* Listing.  The place of a conversation in the sorted list is its rank: how    *)
(* many of the reader's come ahead of it.  A new conversation or message moves   *)
(* one to the front, which lowers no other's rank; a deletion lowers ranks by    *)
(* one, so at most the one conversation that stood right at the reader's offset   *)
(* slips past it.                                                           *)

Recent == {p \in Owned(Reader) \X Owned(Reader) : Before(p[1], p[2])}

RankOf(id) == Rank(Owned(Reader), Recent, id)

ReaderOK ==
    /\ reader \in [offset : Nat, seen : SUBSET (1..drawn), untouched : SUBSET (1..drawn),
                   deleted : Nat, done : BOOLEAN]
    /\ reader.untouched \subseteq Owned(Reader)
    /\ \A id \in reader.seen \cap DOMAIN conversations : Owns(Reader, id)

(* What the reader has passed over, or, once done, has missed.                *)
Missed == {id \in reader.untouched \ reader.seen : reader.done \/ RankOf(id) < reader.offset}

ListingInv ==
    ShapeOK /\ AllCoherent /\ ReaderOK /\ Cardinality(Missed) <= reader.deleted

LEMMA OwnedFacts ==
    ASSUME ShapeOK, AllCoherent
    PROVE  /\ Owned(Reader) \subseteq DOMAIN conversations /\ Owned(Reader) \subseteq 1..drawn
           /\ IsFiniteSet(Owned(Reader))
           /\ \A id \in Owned(Reader) : id \in Nat /\ conversations[id].updated_at \in 0..clock
           /\ StrictOrder(Owned(Reader), Recent)
<1>1. Owned(Reader) \subseteq DOMAIN conversations /\ Owned(Reader) \subseteq 1..drawn
  BY DEF Owned, ShapeOK
<1>2. IsFiniteSet(1..drawn)
  BY FS_Interval DEF ShapeOK
<1>3. ASSUME NEW id \in Owned(Reader)
      PROVE  id \in Nat /\ conversations[id].updated_at \in 0..clock
  <2>1. Coherent(conversations[id], messages[id], asked[id], clock)
    BY <1>1 DEF AllCoherent
  <2> QED
    BY <1>1, <2>1 DEF Coherent, InStep, Conversation, ShapeOK
<1>4. StrictOrder(Owned(Reader), Recent)
  <2> DEFINE at(id) == conversations[id].updated_at
             S == Owned(Reader)
  <2>1. \A i, j \in S : <<i, j>> \in Recent <=> (at(i) > at(j) \/ (at(i) = at(j) /\ i < j))
    BY DEF Recent, Before
  <2>2. \A id \in S : id \in Nat /\ at(id) \in Nat
    BY <1>3 DEF ShapeOK
  <2> HIDE DEF at, S
  <2>3. StrictOrder(S, Recent)
    BY <2>1, <2>2 DEF StrictOrder
  <2> QED
    BY <2>3 DEF S
<1> QED
  BY <1>1, <1>2, <1>3, <1>4, FS_Subset

LEMMA OwnedNext ==
    ASSUME ShapeOK'
    PROVE  IsFiniteSet(Owned(Reader)')
<1>1. Owned(Reader)' \in SUBSET (1..drawn')
  BY DEF Owned, ShapeOK
<1>2. IsFiniteSet(1..drawn')
  BY FS_Interval DEF ShapeOK
<1> QED
  BY <1>1, <1>2, FS_Subset

LEMMA MissedFinite ==
    ASSUME ShapeOK, ReaderOK
    PROVE  IsFiniteSet(Missed) /\ Cardinality(Missed) \in Nat
<1>1. Missed \in SUBSET (1..drawn)
  BY DEF Missed, ReaderOK
<1>2. IsFiniteSet(1..drawn)
  BY FS_Interval DEF ShapeOK
<1> QED
  BY <1>1, <1>2, FS_Subset, FS_CardinalityType

(* The reader goes on as before, over conversations whose ranks do not fall.   *)
LEMMA NothingSlips ==
    ASSUME ListingInv, ShapeOK',
           reader'.untouched \subseteq reader.untouched, reader'.seen = reader.seen,
           reader'.done = reader.done, reader'.offset = reader.offset,
           reader'.deleted \in Nat, reader.deleted <= reader'.deleted,
           \A id \in reader'.untouched :
              Ahead(Owned(Reader), Recent, id) \subseteq Ahead(Owned(Reader)', Recent', id)
    PROVE  Cardinality(Missed)' <= reader'.deleted
<1>1. ASSUME NEW id \in reader'.untouched
      PROVE  /\ RankOf(id) \in Nat /\ RankOf(id)' \in Nat /\ RankOf(id) <= RankOf(id)'
  <2>1. IsFiniteSet(Owned(Reader)) /\ IsFiniteSet(Owned(Reader)')
    BY OwnedFacts, OwnedNext DEF ListingInv
  <2>2. Ahead(Owned(Reader), Recent, id) \subseteq Ahead(Owned(Reader)', Recent', id)
    OBVIOUS
  <2>3. /\ Rank(Owned(Reader), Recent, id) \in Nat /\ Rank(Owned(Reader)', Recent', id) \in Nat
        /\ Rank(Owned(Reader), Recent, id) <= Rank(Owned(Reader)', Recent', id)
    BY <2>1, <2>2, RankTyped, RankGrows
  <2> QED
    BY <2>3 DEF RankOf
<1>2. Missed' \in SUBSET Missed
  <2> SUFFICES ASSUME NEW id \in Missed' PROVE id \in Missed
    OBVIOUS
  <2>1. /\ id \in reader'.untouched \ reader'.seen
        /\ reader'.done \/ RankOf(id)' < reader'.offset
    BY DEF Missed
  <2>2. reader.offset \in Nat
    BY DEF ListingInv, ReaderOK
  <2> QED
    BY <1>1, <2>1, <2>2 DEF Missed
<1>3. IsFiniteSet(Missed) /\ Cardinality(Missed) \in Nat
  BY MissedFinite DEF ListingInv
<1>4. Cardinality(Missed') <= Cardinality(Missed) /\ Cardinality(Missed') \in Nat
  BY <1>2, <1>3, FS_Subset, FS_CardinalityType
<1> QED
  BY <1>3, <1>4 DEF ListingInv, ReaderOK

LEMMA CreateKeepsListing ==
    ASSUME ListingInv, NEW user \in Users, NEW title \in Titles, NEW prompt \in Prompts,
           Create(user, title, prompt)
    PROVE  ListingInv'
<1>1. ShapeOK' /\ AllCoherent'
  BY CreateKeeps DEF ListingInv
<1>2. PICK conv : conversations' = Put(conversations, drawn + 1, conv)
  BY DEF Create, CreateConversation
<1>3. drawn' = drawn + 1 /\ reader' = reader /\ drawn \in Nat
  BY DEF Create, CreateConversation, ListingInv, ShapeOK
<1>4. /\ DOMAIN conversations' = DOMAIN conversations \cup {drawn + 1}
      /\ \A id \in DOMAIN conversations : conversations'[id] = conversations[id]
      /\ DOMAIN conversations \subseteq 1..drawn
  BY <1>2, <1>3 DEF Put, ListingInv, ShapeOK
<1>5. Owned(Reader) \subseteq Owned(Reader)' /\ Recent \subseteq Recent'
  BY <1>4 DEF Owned, Recent, Before
<1>6. ReaderOK'
  <2>1. 1..drawn \subseteq 1..drawn'
    BY <1>3
  <2>2. reader.seen \subseteq 1..drawn /\ drawn + 1 \notin 1..drawn
    BY <1>3 DEF ListingInv, ReaderOK
  <2>3. \A id \in reader'.seen \cap DOMAIN conversations' : Owns(Reader, id)'
    BY <1>3, <1>4, <2>2 DEF ListingInv, ReaderOK, Owns
  <2>4. reader' \in [offset : Nat, seen : SUBSET (1..drawn'), untouched : SUBSET (1..drawn'),
                     deleted : Nat, done : BOOLEAN]
    BY <1>3, <2>1 DEF ListingInv, ReaderOK
  <2> QED
    BY <1>3, <1>5, <2>3, <2>4 DEF ListingInv, ReaderOK
<1>7. Cardinality(Missed)' <= reader'.deleted
  <2>1. \A id \in reader'.untouched :
           Ahead(Owned(Reader), Recent, id) \subseteq Ahead(Owned(Reader)', Recent', id)
    BY <1>5 DEF Ahead
  <2>2. reader.deleted \in Nat
    BY DEF ListingInv, ReaderOK
  <2> QED
    BY <1>1, <1>3, <2>1, <2>2, NothingSlips
<1> QED
  BY <1>1, <1>6, <1>7 DEF ListingInv

LEMMA AddKeepsListing ==
    ASSUME ListingInv, NEW id \in DOMAIN conversations, NEW role \in Roles,
           NEW text \in Bodies, Add(id, role, text)
    PROVE  ListingInv'
<1> DEFINE m == Message(role, text)
           noted == Noted(conversations[id], Append(messages[id], m))
<1>1. ShapeOK' /\ AllCoherent'
  BY AddKeeps DEF ListingInv
<1>2. /\ conversations' = Put(conversations, id, noted) /\ drawn' = drawn
      /\ reader' = [reader EXCEPT !.untouched = @ \ {id}]
  BY DEF Add, AddMessage
<1>3. noted.user = conversations[id].user /\ noted.updated_at = clock
  <2>1. m \in MessageType /\ m.created_at = clock
    BY MessageTyped, HistoryAssumption DEF ListingInv, ShapeOK, Message
  <2>2. conversations[id] \in Conversation /\ messages[id] \in Seq(MessageType)
    BY DEF ListingInv, AllCoherent, Coherent
  <2> HIDE DEF m
  <2> QED
    BY <2>1, <2>2, NotedFacts
<1> HIDE DEF noted
<1>4. /\ DOMAIN conversations' = DOMAIN conversations
      /\ conversations'[id].user = conversations[id].user
      /\ conversations'[id].updated_at = clock
      /\ \A x \in DOMAIN conversations : x # id => conversations'[x] = conversations[x]
  BY <1>2, <1>3 DEF Put
<1>5. Owned(Reader)' = Owned(Reader)
  BY <1>4 DEF Owned
<1>6. /\ reader'.untouched = reader.untouched \ {id} /\ reader'.seen = reader.seen
      /\ reader'.done = reader.done /\ reader'.offset = reader.offset
      /\ reader'.deleted = reader.deleted /\ reader.deleted \in Nat
  BY <1>2 DEF ListingInv, ReaderOK
<1>7. ReaderOK'
  <2>1. \A x \in DOMAIN conversations : Owns(Reader, x)' <=> Owns(Reader, x)
    BY <1>4 DEF Owns
  <2>2. reader' \in [offset : Nat, seen : SUBSET (1..drawn'), untouched : SUBSET (1..drawn'),
                     deleted : Nat, done : BOOLEAN]
    BY <1>2 DEF ListingInv, ReaderOK
  <2> QED
    BY <1>4, <1>5, <1>6, <2>1, <2>2 DEF ListingInv, ReaderOK
<1>8. ASSUME NEW x \in reader'.untouched, NEW y \in Ahead(Owned(Reader), Recent, x)
      PROVE  y \in Ahead(Owned(Reader)', Recent', x)
  <2>1. x \in Owned(Reader) /\ x # id /\ y \in Owned(Reader) /\ Before(y, x)
    BY <1>6 DEF ListingInv, ReaderOK, Ahead, Recent
  <2>2. /\ x \in DOMAIN conversations /\ y \in DOMAIN conversations
        /\ conversations[x].updated_at \in 0..clock /\ conversations[y].updated_at \in 0..clock
        /\ clock \in Nat
    BY <2>1, OwnedFacts DEF ListingInv, ShapeOK
  <2>3. Before(y, x)'
    <3>1. CASE y # id
      BY <1>4, <2>1, <2>2, <3>1 DEF Before
    <3>2. CASE y = id
      <4>1. conversations'[y].updated_at = clock /\ conversations'[x] = conversations[x]
        BY <1>4, <2>1, <2>2, <3>2
      <4> QED
        BY <2>1, <2>2, <4>1 DEF Before
    <3> QED
      BY <3>1, <3>2
  <2> QED
    BY <1>5, <2>1, <2>3 DEF Ahead, Recent
<1>9. Cardinality(Missed)' <= reader'.deleted
  <2>1. \A x \in reader'.untouched :
           Ahead(Owned(Reader), Recent, x) \subseteq Ahead(Owned(Reader)', Recent', x)
    BY <1>8
  <2> QED
    BY <1>1, <1>6, <2>1, NothingSlips
<1> QED
  BY <1>1, <1>7, <1>9 DEF ListingInv

LEMMA DeleteKeepsListing ==
    ASSUME ListingInv, NEW user \in Users, NEW d \in DOMAIN conversations, Delete(user, d)
    PROVE  ListingInv'
<1>1. ShapeOK' /\ AllCoherent'
  BY DeleteKeeps DEF ListingInv
<1>2. /\ conversations' = Drop(conversations, d) /\ drawn' = drawn
      /\ conversations[d].user = user
      /\ reader' = [reader EXCEPT !.untouched = @ \ {d},
                                  !.deleted = IF user = Reader THEN @ + 1 ELSE @]
  BY DEF Delete, DeleteConversation, Owns
<1>3. /\ DOMAIN conversations' = DOMAIN conversations \ {d}
      /\ \A x \in DOMAIN conversations' : conversations'[x] = conversations[x]
  BY <1>2 DEF Drop
<1>4. Owned(Reader)' = Owned(Reader) \ {d}
  BY <1>3 DEF Owned
<1>5. \A x \in Owned(Reader) :
         x # d => Ahead(Owned(Reader), Recent, x) \ {d} \subseteq Ahead(Owned(Reader)', Recent', x)
  BY <1>3, <1>4 DEF Ahead, Recent, Before, Owned
<1>6. /\ reader'.untouched = reader.untouched \ {d} /\ reader'.seen = reader.seen
      /\ reader'.done = reader.done /\ reader'.offset = reader.offset
      /\ reader'.deleted = (IF user = Reader THEN reader.deleted + 1 ELSE reader.deleted)
      /\ reader.deleted \in Nat /\ reader.offset \in Nat
      /\ reader.untouched \subseteq Owned(Reader)
  BY <1>2 DEF ListingInv, ReaderOK
<1>7. ReaderOK'
  <2>1. \A x \in DOMAIN conversations' : Owns(Reader, x)' <=> Owns(Reader, x)
    BY <1>3 DEF Owns
  <2>2. PICK n \in Nat : n = IF user = Reader THEN reader.deleted + 1 ELSE reader.deleted
    BY <1>6
  <2>3. reader' = [reader EXCEPT !.untouched = @ \ {d}, !.deleted = n]
    BY <1>2, <2>2 DEF ListingInv, ReaderOK
  <2>4. reader' \in [offset : Nat, seen : SUBSET (1..drawn'), untouched : SUBSET (1..drawn'),
                     deleted : Nat, done : BOOLEAN]
    BY <1>2, <2>3 DEF ListingInv, ReaderOK
  <2> QED
    BY <1>3, <1>4, <1>6, <2>1, <2>4 DEF ListingInv, ReaderOK
<1>8. CASE user # Reader
  <2>1. d \notin Owned(Reader)
    BY <1>2, <1>8 DEF Owned
  <2>2. \A x \in reader'.untouched :
           Ahead(Owned(Reader), Recent, x) \subseteq Ahead(Owned(Reader)', Recent', x)
    BY <1>5, <1>6, <2>1 DEF Ahead
  <2>3. Cardinality(Missed)' <= reader'.deleted
    BY <1>1, <1>6, <1>8, <2>2, NothingSlips
  <2> QED
    BY <1>1, <1>7, <2>3 DEF ListingInv
<1>9. CASE user = Reader
  <2>1. IsFiniteSet(Owned(Reader)) /\ IsFiniteSet(Owned(Reader)')
        /\ StrictOrder(Owned(Reader), Recent)
    BY <1>1, OwnedFacts, OwnedNext DEF ListingInv
  <2>2. ASSUME NEW x \in reader'.untouched
        PROVE  /\ RankOf(x) \in Nat /\ RankOf(x)' \in Nat /\ RankOf(x) <= RankOf(x)' + 1
    <3>1. Ahead(Owned(Reader), Recent, x) \ {d} \subseteq Ahead(Owned(Reader)', Recent', x)
      BY <1>5, <1>6
    <3>2. /\ Rank(Owned(Reader), Recent, x) \in Nat /\ Rank(Owned(Reader)', Recent', x) \in Nat
          /\ Rank(Owned(Reader), Recent, x) <= Rank(Owned(Reader)', Recent', x) + 1
      BY <2>1, <3>1, RankTyped, RankLosesOne
    <3> QED
      BY <3>2 DEF RankOf
  <2>3. ASSUME NEW x \in Missed', x \notin Missed
        PROVE  x \in Owned(Reader) /\ RankOf(x) = reader.offset
    <3>1. /\ x \in reader'.untouched /\ x \notin reader.seen
          /\ reader.done \/ RankOf(x)' < reader.offset
      BY <1>6 DEF Missed
    <3>2. ~reader.done /\ ~(RankOf(x) < reader.offset)
      BY <1>6, <2>3, <3>1 DEF Missed
    <3> QED
      BY <1>6, <2>2, <3>1, <3>2
  <2>4. ASSUME NEW x \in Missed' \ Missed, NEW y \in Missed' \ Missed
        PROVE  x = y
    BY <2>1, <2>3, RanksDiffer DEF RankOf
  <2>5. \E x : Missed' \in SUBSET (Missed \cup {x})
    BY <2>4
  <2>6. PICK x : Missed' \in SUBSET (Missed \cup {x})
    BY <2>5
  <2>7. IsFiniteSet(Missed) /\ Cardinality(Missed) \in Nat
    BY MissedFinite DEF ListingInv
  <2>8. /\ IsFiniteSet(Missed \cup {x})
        /\ Cardinality(Missed \cup {x}) <= Cardinality(Missed) + 1
    BY <2>7, FS_AddElement
  <2>9. /\ Cardinality(Missed') <= Cardinality(Missed \cup {x})
        /\ Cardinality(Missed') \in Nat /\ Cardinality(Missed \cup {x}) \in Nat
    BY <2>6, <2>8, FS_Subset, FS_CardinalityType
  <2>10. Cardinality(Missed)' <= reader'.deleted
    BY <1>6, <1>9, <2>7, <2>8, <2>9 DEF ListingInv
  <2> QED
    BY <1>1, <1>7, <2>10 DEF ListingInv
<1> QED
  BY <1>8, <1>9

(* What list_conversations returns, in terms of ranks.                        *)
LEMMA ListPageFacts ==
    ASSUME ShapeOK, AllCoherent, NEW offset \in Nat
    PROVE  LET page == ListPage(Reader, PageSize, offset) IN
           /\ Ids(page) \subseteq Owned(Reader)
           /\ \A id \in Owned(Reader) :
                 offset <= RankOf(id) /\ RankOf(id) < offset + PageSize => id \in Ids(page)
           /\ Len(page) < PageSize =>
                 \A id \in Owned(Reader) : RankOf(id) < offset + PageSize
<1> DEFINE S == Owned(Reader)
           n == Cardinality(S)
           f == InOrder(S, Recent)
           a == IF offset > n THEN n ELSE offset
           b == IF offset + PageSize > n THEN n ELSE offset + PageSize
           page == SubSeq(f, a + 1, b)
<1>1. n \in Nat /\ f \in [1..n -> S] /\ PageSize \in Nat \ {0}
  <2>1. IsFiniteSet(S) /\ Arranged(f, S, Recent)
    BY OwnedFacts, InOrderArranged
  <2> QED
    BY <2>1, FS_CardinalityType, HistoryAssumption DEF Arranged
<1>2. /\ (a + 1)..b \subseteq 1..n
      /\ \A id \in S : /\ offset <= Rank(S, Recent, id)
                       /\ Rank(S, Recent, id) < offset + PageSize
                       => \E k \in (a + 1)..b : f[k] = id
      /\ b - a < PageSize => \A id \in S : Rank(S, Recent, id) < offset + PageSize
  <2>1. IsFiniteSet(S) /\ StrictOrder(S, Recent) /\ Arranged(f, S, Recent)
    BY OwnedFacts, InOrderArranged
  <2>2. /\ a \in Nat /\ b \in Nat /\ a <= offset /\ (offset <= n => a = offset)
        /\ b <= n /\ b <= offset + PageSize /\ b \in {n, offset + PageSize}
    BY <1>1
  <2>3. n = Cardinality(S)
    OBVIOUS
  <2> HIDE DEF S, f, a, b, n
  <2>4. /\ (a + 1)..b \subseteq 1..Cardinality(S)
        /\ \A id \in S : /\ offset <= Rank(S, Recent, id)
                         /\ Rank(S, Recent, id) < offset + PageSize
                         => \E k \in (a + 1)..b : f[k] = id
        /\ b - a < PageSize => \A id \in S : Rank(S, Recent, id) < offset + PageSize
    BY <1>1, <2>1, <2>2, <2>3, SliceFacts
  <2> QED
    BY <2>3, <2>4
<1>3. Len(f) = n
  BY <1>1
<1>4. ListPage(Reader, PageSize, offset) = page
  <2>1. Listing(Reader) = f
    BY DEF Listing, Recent
  <2>2. ~(offset < 0) /\ ~(offset + PageSize < 0)
    BY <1>1
  <2> HIDE DEF f, n
  <2> QED
    BY <1>3, <2>1, <2>2 DEF ListPage, Slice
<1>5. a \in Nat /\ b \in Nat
  BY <1>1
<1> HIDE DEF S, n, f, a, b
<1>6. /\ Len(page) = IF a + 1 <= b THEN b - a ELSE 0
      /\ DOMAIN page = 1..Len(page)
      /\ \A i \in 1..(b - a) : page[i] = f[a + i]
  BY <1>1, <1>2, <1>3, <1>5
<1> HIDE DEF page
<1>7. \A k \in (a + 1)..b : f[k] \in Ids(page)
  <2> SUFFICES ASSUME NEW k \in (a + 1)..b PROVE f[k] \in Ids(page)
    OBVIOUS
  <2>1. PICK i \in 1..(b - a) : k = a + i
    BY <1>5
  <2>2. i \in DOMAIN page /\ page[i] = f[k]
    BY <1>5, <1>6, <2>1
  <2> QED
    BY <2>2 DEF Ids
<1>8. Ids(page) \subseteq S
  <2> SUFFICES ASSUME NEW i \in DOMAIN page PROVE page[i] \in S
    BY DEF Ids
  <2>1. i \in 1..(b - a) /\ a + i \in (a + 1)..b
    BY <1>5, <1>6
  <2> QED
    BY <1>1, <1>2, <1>6, <2>1
<1>9. Len(page) < PageSize => b - a < PageSize
  BY <1>1, <1>5, <1>6
<1> QED
  BY <1>2, <1>4, <1>7, <1>8, <1>9 DEF S, RankOf

LEMMA StartKeepsListing == ListingInv /\ StartReading => ListingInv'
<1> SUFFICES ASSUME ListingInv, StartReading PROVE ListingInv'
  OBVIOUS
<1>1. ShapeOK' /\ AllCoherent'
  BY ReaderKeeps DEF ListingInv
<1>2. /\ reader' = [offset |-> 0, seen |-> {}, untouched |-> Owned(Reader),
                    deleted |-> 0, done |-> FALSE]
      /\ UNCHANGED storeVars
  BY DEF StartReading
<1>3. Owned(Reader)' = Owned(Reader) /\ Recent' = Recent /\ drawn' = drawn
  BY <1>2 DEF Owned, Recent, Before, storeVars
<1>4. Missed' = {}
  <2>1. \A id \in Owned(Reader) : RankOf(id)' \in Nat
    BY <1>3, OwnedFacts, RankTyped DEF ListingInv, RankOf
  <2>2. \A id \in reader'.untouched : ~(reader'.done \/ RankOf(id)' < reader'.offset)
    BY <1>2, <2>1
  <2> QED
    BY <2>2 DEF Missed
<1>5. Cardinality(Missed)' <= reader'.deleted
  BY <1>2, <1>4, FS_EmptySet
<1>6. ReaderOK'
  BY <1>2, <1>3, OwnedFacts DEF ListingInv, ReaderOK
<1> QED
  BY <1>1, <1>5, <1>6 DEF ListingInv

LEMMA PageKeepsListing == ListingInv /\ ReadPage => ListingInv'
<1> SUFFICES ASSUME ListingInv, ReadPage PROVE ListingInv'
  OBVIOUS
<1> DEFINE page == ListPage(Reader, PageSize, reader.offset)
<1>1. ShapeOK' /\ AllCoherent'
  BY ReaderKeeps DEF ListingInv
<1>2. /\ reader' = [reader EXCEPT !.seen = @ \cup Ids(page), !.offset = @ + PageSize,
                                  !.done = Len(page) < PageSize]
      /\ UNCHANGED storeVars /\ ~reader.done
  BY DEF ReadPage
<1>3. PICK offset \in Nat : offset = reader.offset
  BY DEF ListingInv, ReaderOK
<1>4. /\ Ids(page) \subseteq Owned(Reader)
      /\ \A id \in Owned(Reader) :
            offset <= RankOf(id) /\ RankOf(id) < offset + PageSize => id \in Ids(page)
      /\ Len(page) < PageSize => \A id \in Owned(Reader) : RankOf(id) < offset + PageSize
  BY <1>3, ListPageFacts DEF ListingInv
<1> HIDE DEF page
<1>5. /\ Owned(Reader)' = Owned(Reader) /\ drawn' = drawn /\ conversations' = conversations
      /\ \A id : RankOf(id)' = RankOf(id) /\ (Owns(Reader, id)' <=> Owns(Reader, id))
  BY <1>2 DEF Owned, Recent, Before, storeVars, RankOf, Owns
<1>6. /\ reader'.untouched = reader.untouched /\ reader'.deleted = reader.deleted
      /\ reader'.seen = reader.seen \cup Ids(page) /\ reader'.offset = offset + PageSize
      /\ reader'.done = (Len(page) < PageSize)
  BY <1>2, <1>3 DEF ListingInv, ReaderOK
<1>7. ReaderOK'
  <2>1. /\ offset + PageSize \in Nat /\ (Len(page) < PageSize) \in BOOLEAN
        /\ reader.seen \cup Ids(page) \in SUBSET (1..drawn)
    BY <1>4, OwnedFacts, HistoryAssumption DEF ListingInv, ReaderOK
  <2>2. reader' \in [offset : Nat, seen : SUBSET (1..drawn'), untouched : SUBSET (1..drawn'),
                     deleted : Nat, done : BOOLEAN]
    BY <1>2, <1>3, <1>5, <2>1 DEF ListingInv, ReaderOK
  <2>3. \A id \in Owned(Reader) : Owns(Reader, id)
    BY DEF Owned, Owns
  <2>4. \A id \in reader'.seen \cap DOMAIN conversations' : Owns(Reader, id)'
    BY <1>4, <1>5, <1>6, <2>3 DEF ListingInv, ReaderOK
  <2> QED
    BY <1>5, <1>6, <2>2, <2>4 DEF ListingInv, ReaderOK
<1>8. Missed' \in SUBSET Missed
  <2> SUFFICES ASSUME NEW id \in Missed' PROVE id \in Missed
    OBVIOUS
  <2>1. /\ id \in reader.untouched \ reader.seen /\ id \notin Ids(page)
        /\ (Len(page) < PageSize) \/ RankOf(id) < offset + PageSize
    BY <1>5, <1>6 DEF Missed
  <2>2. id \in Owned(Reader) /\ RankOf(id) \in Nat
    <3>1. id \in Owned(Reader) /\ IsFiniteSet(Owned(Reader))
      BY <2>1, OwnedFacts DEF ListingInv, ReaderOK
    <3> QED
      BY <3>1, RankTyped DEF RankOf
  <2>3. RankOf(id) < offset
    BY <1>4, <2>1, <2>2
  <2> QED
    BY <1>3, <2>1, <2>3 DEF Missed
<1>9. Cardinality(Missed)' <= reader'.deleted
  <2>1. IsFiniteSet(Missed) /\ Cardinality(Missed) \in Nat
    BY MissedFinite DEF ListingInv
  <2>2. Cardinality(Missed') <= Cardinality(Missed) /\ Cardinality(Missed') \in Nat
    BY <1>8, <2>1, FS_Subset, FS_CardinalityType
  <2> QED
    BY <1>6, <2>1, <2>2 DEF ListingInv, ReaderOK
<1> QED
  BY <1>1, <1>7, <1>9 DEF ListingInv

LEMMA ListingStep == ListingInv /\ [Next]_vars => ListingInv'
<1> SUFFICES ASSUME ListingInv, [Next]_vars PROVE ListingInv'
  OBVIOUS
<1>1. ASSUME UNCHANGED <<drawn, conversations, reader>>
      PROVE  ListingInv'
  <2>1. ShapeOK' /\ AllCoherent'
    BY Inductive DEF ListingInv
  <2>2. ReaderOK' /\ Missed' = Missed
    BY <1>1 DEF ListingInv, ReaderOK, Owns, Owned, Missed, RankOf, Recent, Before
  <2> QED
    BY <1>1, <2>1, <2>2 DEF ListingInv
<1>2. ASSUME NEW user \in Users, NEW title \in Titles, NEW prompt \in Prompts,
             Create(user, title, prompt)
      PROVE  ListingInv'
  BY <1>2, CreateKeepsListing
<1>3. ASSUME NEW user \in Users, NEW id \in DOMAIN conversations, Delete(user, id)
      PROVE  ListingInv'
  BY <1>3, DeleteKeepsListing
<1>4. ASSUME NEW id \in DOMAIN conversations, NEW role \in Roles, NEW text \in Bodies,
             Add(id, role, text)
      PROVE  ListingInv'
  BY <1>4, AddKeepsListing
<1>5. CASE StartReading
  BY <1>5, StartKeepsListing
<1>6. CASE ReadPage
  BY <1>6, PageKeepsListing
<1>7. CASE TimePasses
  BY <1>1, <1>7 DEF TimePasses, ClockTick
<1>8. CASE UNCHANGED vars
  BY <1>1, <1>8 DEF vars, storeVars
<1> QED
  BY <1>2, <1>3, <1>4, <1>5, <1>6, <1>7, <1>8 DEF Next

LEMMA ListingStarts == Init => ListingInv
<1> SUFFICES ASSUME Init PROVE ListingInv
  OBVIOUS
<1>1. ShapeOK /\ AllCoherent
  BY Initially, Parts
<1>2. reader = [offset |-> 0, seen |-> {}, untouched |-> {}, deleted |-> 0, done |-> TRUE]
  BY DEF Init
<1>3. Missed = {}
  BY <1>2 DEF Missed
<1> QED
  BY <1>1, <1>2, <1>3, FS_EmptySet DEF ListingInv, ReaderOK

(* A client that pages through its conversations gets only its own, and of      *)
(* those that stayed as they were misses no more than were deleted meanwhile.  *)
THEOREM ListingsMissOnlyDeletions == Spec => []ListingMissesAtMostDeletions
<1>1. ListingInv => ListingMissesAtMostDeletions
  <2> SUFFICES ASSUME ListingInv, reader.done
               PROVE  /\ \A id \in reader.seen \cap DOMAIN conversations : Owns(Reader, id)
                      /\ Cardinality(reader.untouched \ reader.seen) <= reader.deleted
    BY DEF ListingMissesAtMostDeletions
  <2>1. Missed = reader.untouched \ reader.seen
    BY DEF Missed
  <2> QED
    BY <2>1 DEF ListingInv, ReaderOK
<1> QED
  BY <1>1, ListingStarts, ListingStep, PTL DEF Spec
=============================================================================
