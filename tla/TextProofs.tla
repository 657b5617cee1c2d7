----------------------------- MODULE TextProofs -----------------------------
(***************************************************************************)
(* Machine-checked proofs about the text of a reply and the messages of a     *)
(* conversation: first about ResponseText, for any texts, stop sequences and   *)
(* limits, then about MessageTruncation, for any sizes and budgets.          *)
(***************************************************************************)
EXTENDS ResponseText, MessageTruncation, SequenceTheorems, DataLemmas, TLAPS

Text == Seq(Characters)

LEMMA CutFacts ==
    ASSUME NEW t \in Text, NEW n \in 0..Len(t)
    PROVE  /\ SubSeq(t, 1, n) \in Text /\ Len(SubSeq(t, 1, n)) = n
           /\ DOMAIN SubSeq(t, 1, n) = 1..n
           /\ \A i \in 1..n : SubSeq(t, 1, n)[i] = t[i]
  BY DEF Text

LEMMA LeastOf ==
    ASSUME NEW S, S \subseteq Nat, S # {}
    PROVE  Min(S) \in S /\ \A n \in S : Min(S) <= n
  BY LeastNumber DEF Min

(* What the encoder is asked about: beginnings of canned replies.              *)
LEMMA BeginningFacts ==
    ASSUME NEW t \in Beginnings
    PROVE  /\ t \in Text
           /\ \A n \in 0..Len(t) : SubSeq(t, 1, n) \in Beginnings
<1>1. PICK w \in Texts : \E k \in 0..Len(w) : t = SubSeq(w, 1, k)
  BY DEF Beginnings
<1>2. PICK k \in 0..Len(w) : t = SubSeq(w, 1, k)
  BY <1>1
<1>3. w \in Text /\ Len(w) \in Nat
  BY TextsAssumption DEF Text
<1>4. t \in Text /\ Len(t) = k /\ \A i \in 1..k : t[i] = w[i]
  BY <1>2, <1>3, CutFacts
<1>5. ASSUME NEW n \in 0..Len(t)
      PROVE  SubSeq(t, 1, n) \in Beginnings
  <2>1. n \in 0..Len(w) /\ 1 \in Int /\ n \in Int /\ \A i \in 1..n : i \in 1..k
    BY <1>2, <1>3, <1>4
  <2>2. SubSeq(t, 1, n) = SubSeq(w, 1, n)
    BY <1>4, <2>1
  <2> QED
    BY <2>1, <2>2 DEF Beginnings
<1> QED
  BY <1>4, <1>5

LEMMA TextBegins ==
    ASSUME NEW t \in Texts
    PROVE  /\ t \in Beginnings /\ t \in Text
           /\ \A n \in 0..Len(t) : SubSeq(t, 1, n) \in Beginnings
<1>1. t \in Text /\ Len(t) \in Nat
  BY TextsAssumption DEF Text
<1>2. SubSeq(t, 1, Len(t)) = t /\ Len(t) \in 0..Len(t)
  BY <1>1, SubSeqFull DEF Text
<1>3. \A n \in 0..Len(t) : SubSeq(t, 1, n) \in Beginnings
  BY DEF Beginnings
<1> QED
  BY <1>1, <1>2, <1>3

LEMMA StartsFacts ==
    ASSUME NEW t \in Beginnings
    PROVE  /\ TokenStarts(t) \subseteq 1..Len(t) /\ IsFiniteSet(TokenStarts(t))
           /\ CountTokens(t) \in Nat
<1>1. Len(t) \in Nat /\ TokenStarts(t) \in SUBSET (1..Len(t))
  BY BeginningFacts, EncoderAssumption DEF Text
<1>2. IsFiniteSet(1..Len(t))
  BY <1>1, FS_Interval
<1> QED
  BY <1>1, <1>2, FS_Subset, FS_CardinalityType DEF CountTokens

(* The members of a finite set of numbers can be told by how many are smaller. *)
LEMMA NthExists ==
    ASSUME NEW S, S \subseteq Nat, IsFiniteSet(S), NEW n \in Nat, n < Cardinality(S)
    PROVE  \E i \in S : Cardinality({j \in S : j < i}) = n
<1> DEFINE R == {p \in S \X S : p[1] < p[2]}
           f == InOrder(S, R)
<1>1. StrictOrder(S, R)
  <2>1. \A i, j \in S : <<i, j>> \in R <=> i < j
    OBVIOUS
  <2> HIDE DEF R
  <2> QED
    BY <2>1 DEF StrictOrder
<1>2. Cardinality(S) \in Nat
  BY FS_CardinalityType
<1>3. f[n + 1] \in S /\ Rank(S, R, f[n + 1]) = n
  <2>1. n + 1 \in 1..Cardinality(S) /\ (n + 1) - 1 = n
    BY <1>2
  <2>2. Arranged(f, S, R)
    BY <1>1, InOrderArranged
  <2>3. f \in [1..Cardinality(S) -> S] /\ \A m \in 1..Cardinality(S) : Rank(S, R, f[m]) = m - 1
    <3> HIDE DEF f, R
    <3> QED
      BY <1>1, <2>2, InOrderFacts
  <2> HIDE DEF f, R
  <2> QED
    BY <2>1, <2>3
<1>4. \A i \in S : Ahead(S, R, i) = {j \in S : j < i}
  BY DEF Ahead
<1> HIDE DEF f, R
<1> QED
  BY <1>3, <1>4 DEF Rank

(* Truncation leaves a text alone or cuts it to exactly n tokens.             *)
LEMMA TruncationFacts ==
    ASSUME NEW t \in Texts, NEW n \in Nat \ {0}
    PROVE  /\ CountTokens(t) <= n => TruncateText(t, n) = t
           /\ CountTokens(t) > n =>
                 /\ \E k \in 1..Len(t) : k < Len(t) /\ TruncateText(t, n) = SubSeq(t, 1, k)
                 /\ CountTokens(TruncateText(t, n)) = n
<1> SUFFICES ASSUME CountTokens(t) > n
             PROVE  /\ \E k \in 1..Len(t) : k < Len(t) /\ TruncateText(t, n) = SubSeq(t, 1, k)
                    /\ CountTokens(TruncateText(t, n)) = n
  BY DEF TruncateText
<1> DEFINE S == TokenStarts(t)
           Nth(i) == Cardinality({j \in S : j < i}) = n
           last == CHOOSE i \in S : Nth(i)
<1>1. S \subseteq 1..Len(t) /\ IsFiniteSet(S) /\ CountTokens(t) \in Nat /\ Len(t) \in Nat
  BY StartsFacts, TextBegins DEF Text
<1>2. \E i \in S : Nth(i)
  <2>1. S \subseteq Nat /\ n < Cardinality(S)
    BY <1>1 DEF CountTokens
  <2> HIDE DEF S
  <2> QED
    BY <1>1, <2>1, NthExists
<1>3. TruncateText(t, n) = SubSeq(t, 1, last - 1)
  <2>1. ~(CountTokens(t) <= n)
    BY <1>1
  <2> QED
    BY <2>1 DEF TruncateText
<1>4. last \in S /\ Nth(last)
  <2> HIDE DEF S, Nth
  <2> QED
    BY <1>2
<1> HIDE DEF last
<1>5. last - 1 \in 1..Len(t) /\ last - 1 < Len(t)
  <2>1. last # 1
    <3> SUFFICES ASSUME last = 1 PROVE FALSE
      OBVIOUS
    <3>1. {j \in S : j < last} = {}
      BY <1>1
    <3> QED
      BY <1>4, <3>1, FS_EmptySet
  <2> QED
    BY <1>1, <1>4, <2>1
<1>6. CountTokens(SubSeq(t, 1, last - 1)) = n
  <2>1. TokenStarts(SubSeq(t, 1, last - 1)) = {j \in S : j < last}
    BY <1>4, EncoderAssumption
  <2> QED
    BY <1>4, <2>1 DEF CountTokens
<1> QED
  BY <1>3, <1>5, <1>6

-----------------------------------------------------------------------------
Asked == text \in Texts /\ max_tokens \in Limits /\ stops \in StopLists

LEMMA AskedFacts ==
    ASSUME Asked
    PROVE  /\ text \in Texts /\ text \in Text /\ text # <<>> /\ text[1] # Space
           /\ max_tokens \in Nat \ {0} /\ stops \in Seq(Text)
  BY TextsAssumption DEF Asked, Text

LEMMA WholeFacts ==
    ASSUME Asked
    PROVE  /\ Whole \in Text /\ Whole \in Beginnings
           /\ \E k \in 1..Len(text) : Whole = SubSeq(text, 1, k)
           /\ Whole # text => CountTokens(Whole) = max_tokens
<1>1. /\ text \in Texts /\ text \in Text /\ text \in Beginnings
      /\ text # <<>> /\ max_tokens \in Nat \ {0}
  BY AskedFacts, TextBegins
<1>2. CountTokens(text) \in Nat /\ Len(text) \in Nat \ {0}
  BY <1>1, StartsFacts DEF Text
<1>3. CASE CountTokens(text) <= max_tokens
  <2>1. Whole = text
    BY <1>1, <1>3, TruncationFacts DEF Whole
  <2>2. text = SubSeq(text, 1, Len(text)) /\ Len(text) \in 1..Len(text)
    BY <1>1, <1>2 DEF Text
  <2>3. \E k \in 1..Len(text) : Whole = SubSeq(text, 1, k)
    BY <2>1, <2>2
  <2> QED
    BY <1>1, <2>1, <2>3
<1>4. CASE CountTokens(text) > max_tokens
  <2>1. /\ \E k \in 1..Len(text) : k < Len(text) /\ Whole = SubSeq(text, 1, k)
        /\ CountTokens(Whole) = max_tokens
    BY <1>1, <1>4, TruncationFacts DEF Whole
  <2>2. PICK k \in 1..Len(text) : Whole = SubSeq(text, 1, k)
    BY <2>1
  <2>3. Whole \in Text /\ Whole \in Beginnings
    BY <1>1, <1>2, <2>2, CutFacts, TextBegins
  <2> QED
    BY <2>1, <2>2, <2>3
<1> QED
  BY <1>1, <1>2, <1>3, <1>4

(* Where a stop sequence is found.                                           *)
LEMMA FirstFacts ==
    ASSUME NEW s \in Text, NEW t \in Text, Occurs(s, t)
    PROVE  LET k == FirstIn(s, t) IN
           /\ k \in 1..(Len(t) - Len(s) + 1) /\ SubSeq(t, k, k + Len(s) - 1) = s
           /\ \A i \in 1..(Len(t) - Len(s) + 1) :
                 SubSeq(t, i, i + Len(s) - 1) = s => k <= i
<1>1. Len(s) \in Nat /\ Len(t) \in Nat
  BY DEF Text
<1>2. Occurrences(s, t) \subseteq Nat /\ Occurrences(s, t) # {}
  BY <1>1 DEF Occurrences, Occurs
<1>3. FirstIn(s, t) \in Occurrences(s, t) /\ \A i \in Occurrences(s, t) : FirstIn(s, t) <= i
  BY <1>2, LeastOf DEF FirstIn
<1> QED
  BY <1>3 DEF Occurrences

LEMMA HitFacts ==
    ASSUME Asked, NEW t, Hits(t) # {}
    PROVE  stops[Min(Hits(t))] \in Text /\ Occurs(stops[Min(Hits(t))], t)
<1>1. DOMAIN stops \subseteq Nat /\ \A i \in DOMAIN stops : stops[i] \in Text
  BY AskedFacts
<1>2. Hits(t) \subseteq DOMAIN stops
  BY DEF Hits
<1>3. Min(Hits(t)) \in Hits(t)
  BY <1>1, <1>2, LeastOf
<1> QED
  BY <1>1, <1>2, <1>3 DEF Hits

(* The reply is what comes before the stop sequence that is applied.          *)
LEMMA ReplyFacts ==
    ASSUME Asked
    PROVE  /\ Hits(Whole) = {} => Reply = Whole
           /\ Hits(Whole) # {} =>
                 Reply = SubSeq(Whole, 1, FirstIn(stops[Min(Hits(Whole))], Whole) - 1)
           /\ Reply \in Text /\ Reply \in Beginnings
           /\ \E k \in 0..Len(Whole) : Reply = SubSeq(Whole, 1, k)
<1>1. Whole \in Text /\ Len(Whole) \in Nat /\ Whole \in Beginnings
  BY WholeFacts DEF Text
<1>2. CASE Hits(Whole) = {}
  <2>1. Reply = Whole
    BY <1>2 DEF Reply, CutAtStop
  <2>2. Whole = SubSeq(Whole, 1, Len(Whole)) /\ Len(Whole) \in 0..Len(Whole)
    BY <1>1 DEF Text
  <2>3. \E k \in 0..Len(Whole) : Reply = SubSeq(Whole, 1, k)
    BY <2>1, <2>2
  <2> QED
    BY <1>1, <1>2, <2>1, <2>3
<1>3. CASE Hits(Whole) # {}
  <2> DEFINE s == stops[Min(Hits(Whole))]
             k == FirstIn(s, Whole) - 1
  <2>1. Reply = SubSeq(Whole, 1, k)
    BY <1>3 DEF Reply, CutAtStop
  <2>2. s \in Text /\ Occurs(s, Whole)
    BY <1>3, HitFacts
  <2> HIDE DEF s
  <2>3. FirstIn(s, Whole) \in 1..(Len(Whole) - Len(s) + 1) /\ Len(s) \in Nat
    BY <1>1, <2>2, FirstFacts DEF Text
  <2>4. k \in 0..Len(Whole)
    BY <1>1, <2>3
  <2>5. Reply \in Text /\ Reply \in Beginnings
    BY <1>1, <2>1, <2>4, CutFacts, BeginningFacts
  <2> QED
    BY <1>3, <2>1, <2>4, <2>5 DEF s
<1> QED
  BY <1>2, <1>3

-----------------------------------------------------------------------------
(* What a request asks for does not change while its stream is sent.           *)
LEMMA AskedStays == Spec => []Asked
<1>1. Init => Asked
  BY DEF Init, Asked
<1>2. Asked /\ [Next]_vars => Asked'
  BY DEF Asked, Next, SendWord, SendFinish, vars, request
<1> QED
  BY <1>1, <1>2, PTL DEF Spec

(* A completion cut by max_tokens and by no stop sequence says "length".       *)
THEOREM CutsAreReported == Spec => []CompletionReportsCut
<1>1. Asked => CompletionReportsCut
  <2> SUFFICES ASSUME Asked, Whole # text, Reply = Whole
               PROVE  FinishReason(Reply) = "length"
    BY DEF CompletionReportsCut
  <2>1. CountTokens(Reply) = max_tokens /\ max_tokens \in Nat
    BY WholeFacts, AskedFacts
  <2> QED
    BY <2>1 DEF FinishReason
<1> QED
  BY <1>1, AskedStays, PTL

LEMMA StopCuts ==
    ASSUME NEW s \in Text, NEW t \in Text, Occurs(s, t)
    PROVE  LET upTo == SubSeq(t, 1, FirstIn(s, t) - 1) \o s
           IN  IsPrefix(upTo, t) /\ (s # <<>> => ~Occurs(s, Front(upTo)))
<1> DEFINE k == FirstIn(s, t)
           n == k - 1 + Len(s)
           upTo == SubSeq(t, 1, k - 1) \o s
<1>1. Len(s) \in Nat /\ Len(t) \in Nat
  BY DEF Text
<1>2. /\ k \in 1..(Len(t) - Len(s) + 1) /\ SubSeq(t, k, n) = s
      /\ \A i \in 1..(Len(t) - Len(s) + 1) : SubSeq(t, i, i + Len(s) - 1) = s => k <= i
  <2>1. k + Len(s) - 1 = n
    <3>1. k \in 1..(Len(t) - Len(s) + 1)
      BY FirstFacts
    <3> HIDE DEF k
    <3> QED
      BY <1>1, <3>1
  <2> QED
    BY <2>1, FirstFacts
<1> HIDE DEF k
<1>3. n \in 0..Len(t) /\ k - 1 \in 0..n
  BY <1>1, <1>2
<1>4. upTo = SubSeq(t, 1, n)
  <2>1. 1 \in 1..(Len(t) + 1) /\ k - 1 \in (1 - 1)..Len(t) /\ n \in (k - 1)..Len(t)
    BY <1>1, <1>2, <1>3
  <2>2. SubSeq(t, 1, k - 1) \o SubSeq(t, (k - 1) + 1, n) = SubSeq(t, 1, n)
    <3> HIDE DEF n
    <3> QED
      BY <2>1, ConcatAdjacentSubSeq DEF Text
  <2>3. (k - 1) + 1 = k
    BY <1>2
  <2> QED
    BY <1>2, <2>2, <2>3
<1>5. upTo \in Text /\ Len(upTo) = n /\ \A i \in 1..n : upTo[i] = t[i]
  <2> HIDE DEF n, upTo
  <2> QED
    BY <1>3, <1>4, CutFacts
<1>6. IsPrefix(upTo, t)
  <2>1. SubSeq(upTo, 1, n) = upTo
    <3> HIDE DEF upTo, n
    <3> QED
      BY <1>5, SubSeqFull DEF Text
  <2> HIDE DEF upTo, n
  <2> QED
    BY <1>1, <1>3, <1>4, <1>5, <2>1 DEF IsPrefix
<1>7. ASSUME s # <<>>, Occurs(s, Front(upTo)) PROVE FALSE
  <2>1. Len(s) \in Nat \ {0}
    BY <1>1, <1>7 DEF Text
  <2>2. n - 1 \in 0..n /\ n - 1 \in 0..Len(t)
    BY <1>1, <1>3, <1>2, <2>1
  <2>3. Front(upTo) = SubSeq(upTo, 1, n - 1)
    BY <1>5 DEF Front
  <2>4. Front(upTo) \in Text /\ Len(Front(upTo)) = n - 1
        /\ \A i \in 1..(n - 1) : Front(upTo)[i] = t[i]
    <3> HIDE DEF upTo, n
    <3>1. n - 1 \in 0..Len(upTo) /\ \A i \in 1..(n - 1) : i \in 1..n
      BY <1>3, <1>5, <2>2
    <3> QED
      BY <1>5, <2>3, <3>1, CutFacts
  <2>5. PICK i \in 1..(n - 1 - Len(s) + 1) : SubSeq(Front(upTo), i, i + Len(s) - 1) = s
    BY <1>7, <2>4 DEF Occurs, Occurrences
  <2>6. i \in 1..(k - 1) /\ i + Len(s) - 1 \in i..(n - 1)
    BY <1>1, <1>2, <2>1, <2>5
  <2>7. SubSeq(Front(upTo), i, i + Len(s) - 1) = SubSeq(t, i, i + Len(s) - 1)
    <3> DEFINE u == Front(upTo)
               m == i + Len(s) - 1
    <3>1. i \in Int /\ m \in Int /\ \A j \in i..m : j \in 1..(n - 1)
      <4>1. i \in Nat /\ i >= 1 /\ m \in Int /\ m <= n - 1 /\ n - 1 \in Int
        BY <1>1, <1>2, <2>6
      <4> HIDE DEF m, n
      <4> QED
        BY <4>1
    <3>2. \A j \in i..m : u[j] = t[j]
      BY <2>4, <3>1
    <3> HIDE DEF u, m
    <3> QED
      BY <3>1, <3>2 DEF u, m
  <2>8. i \in 1..(Len(t) - Len(s) + 1) /\ ~(k <= i)
    BY <1>1, <1>2, <2>6
  <2> QED
    BY <1>2, <2>5, <2>7, <2>8
<1> QED
  BY <1>6, <1>7 DEF k

(* A stop sequence listed before any other that occurs is applied where it      *)
(* occurs first, and nothing after it is answered.                           *)
THEOREM RepliesEndAtTheirStop == Spec => []StopTakesEffect
<1>1. Asked => StopTakesEffect
  <2> SUFFICES ASSUME Asked PROVE StopTakesEffect
    OBVIOUS
  <2>1. DOMAIN stops \subseteq Nat /\ Hits(Whole) \subseteq DOMAIN stops
    BY AskedFacts DEF Hits
  <2>2. CASE Hits(Whole) = {}
    <3>1. \A i \in DOMAIN stops : ~Occurs(stops[i], Whole)
      BY <2>2 DEF Hits
    <3> QED
      BY <2>2, <3>1, ReplyFacts DEF StopTakesEffect
  <2>3. CASE Hits(Whole) # {}
    <3>1. PICK i : i = Min(Hits(Whole))
      OBVIOUS
    <3>2. i \in DOMAIN stops /\ i \in Nat /\ \A j \in Hits(Whole) : i <= j
      BY <2>1, <2>3, <3>1, LeastOf
    <3>3. stops[i] \in Text /\ Whole \in Text /\ Occurs(stops[i], Whole)
      BY <2>3, <3>1, HitFacts, WholeFacts
    <3>4. Reply = SubSeq(Whole, 1, FirstIn(stops[i], Whole) - 1)
      BY <2>3, <3>1, ReplyFacts
    <3>5. \A j \in 1..(i - 1) : ~Occurs(stops[j], Whole)
      <4> SUFFICES ASSUME NEW j \in 1..(i - 1), Occurs(stops[j], Whole) PROVE FALSE
        OBVIOUS
      <4>1. j \in DOMAIN stops /\ j < i
        BY <3>2, AskedFacts
      <4>2. j \in Hits(Whole)
        BY <4>1 DEF Hits
      <4> QED
        BY <3>2, <4>1, <4>2
    <3>6. LET upTo == Reply \o stops[i]
          IN  IsPrefix(upTo, Whole) /\ (stops[i] # <<>> => ~Occurs(stops[i], Front(upTo)))
      BY <3>3, <3>4, StopCuts
    <3> QED
      BY <3>2, <3>5, <3>6 DEF StopTakesEffect
  <2> QED
    BY <2>2, <2>3
<1> QED
  BY <1>1, AskedStays, PTL

-----------------------------------------------------------------------------
(* Joining the pieces of a sequence is a recursive function, which TLA+        *)
(* defines as any function that satisfies its equation: that one exists is     *)
(* proved first.                                                            *)
Joins(g, s) == g = [i \in 1..Len(s) |-> IF i = 1 THEN s[i] ELSE g[i - 1] \o s[i]]

LEMMA FlattenIsIts ==
    ASSUME NEW s, Len(s) # 0
    PROVE  FlattenSeq(s) = (CHOOSE g : Joins(g, s))[Len(s)]
  BY DEF FlattenSeq, Joins

LEMMA JoinsExist ==
    ASSUME NEW s, Len(s) \in Nat
    PROVE  \E g : Joins(g, s)
<1> DEFINE Partly(g, n) == g = [i \in 1..n |-> IF i = 1 THEN s[i] ELSE g[i - 1] \o s[i]]
           N == {n \in Nat : \E g : Partly(g, n)}
<1>1. 0 \in N
  <2> DEFINE g == [i \in 1..0 |-> <<>>]
  <2>1. \A i \in 1..0 : FALSE
    OBVIOUS
  <2>2. Partly(g, 0)
    BY <2>1
  <2> QED
    BY <2>2
<1>2. ASSUME NEW n \in Nat, NEW g, Partly(g, n)
      PROVE  \E h : Partly(h, n + 1)
  <2> DEFINE h == [i \in 1..(n + 1) |-> IF i = 1 THEN s[i] ELSE g[i - 1] \o s[i]]
  <2>1. \A i \in 1..n : g[i] = IF i = 1 THEN s[i] ELSE g[i - 1] \o s[i]
    <3> HIDE DEF h
    <3> QED
      BY <1>2
  <2>2. \A i \in 1..n : h[i] = g[i]
    <3>1. \A i \in 1..n : i \in 1..(n + 1)
      OBVIOUS
    <3> QED
      BY <2>1, <3>1
  <2>3. \A i \in 1..(n + 1) : i # 1 => i - 1 \in 1..n
    OBVIOUS
  <2>4. h = [i \in 1..(n + 1) |-> IF i = 1 THEN s[i] ELSE h[i - 1] \o s[i]]
    <3>1. \A i \in 1..(n + 1) :
             (IF i = 1 THEN s[i] ELSE g[i - 1] \o s[i])
           = (IF i = 1 THEN s[i] ELSE h[i - 1] \o s[i])
      <4> HIDE DEF h
      <4> QED
        BY <2>2, <2>3
    <3> QED
      BY <3>1
  <2> HIDE DEF h
  <2> QED
    BY <2>4
<1>3. \A n \in Nat : n \in N => n + 1 \in N
  <2> HIDE DEF Partly
  <2> QED
    BY <1>2
<1>4. Nat \subseteq N
  <2> HIDE DEF N
  <2> QED
    BY <1>1, <1>3, NumberInduction
<1>5. PICK g : Partly(g, Len(s))
  <2> HIDE DEF Partly
  <2> QED
    BY <1>4
<1>6. g = [i \in 1..Len(s) |-> IF i = 1 THEN s[i] ELSE g[i - 1] \o s[i]]
  BY <1>5
<1> QED
  BY <1>6 DEF Joins

LEMMA FlattenFacts ==
    ASSUME NEW s, Len(s) \in Nat \ {0}
    PROVE  \E g : /\ FlattenSeq(s) = g[Len(s)]
                  /\ g[1] = s[1]
                  /\ \A i \in 1..Len(s) : i # 1 => g[i] = g[i - 1] \o s[i]
<1> DEFINE g == CHOOSE g : Joins(g, s)
<1>1. Joins(g, s) /\ FlattenSeq(s) = g[Len(s)]
  BY JoinsExist, FlattenIsIts
<1> HIDE DEF g
<1>2. \A i \in 1..Len(s) : g[i] = IF i = 1 THEN s[i] ELSE g[i - 1] \o s[i]
  BY <1>1 DEF Joins
<1>3. 1 \in 1..Len(s)
  OBVIOUS
<1> QED
  BY <1>1, <1>2, <1>3

-----------------------------------------------------------------------------
(* The words of a text.                                                      *)
Starts(t) == InOrder(WordStarts(t), Ascending(WordStarts(t)))

(* Where the nth word of t ends.                                             *)
EndOf(t, n) == IF n = Len(Starts(t)) THEN Len(t) ELSE Starts(t)[n + 1] - 2

LEMMA WordStartsFacts ==
    ASSUME NEW t \in Text
    PROVE  /\ WordStarts(t) \subseteq 1..(Len(t) + 1) /\ 1 \in WordStarts(t)
           /\ IsFiniteSet(WordStarts(t))
           /\ \A i \in WordStarts(t) : i # 1 => i - 1 \in 1..Len(t) /\ t[i - 1] = Space
<1>1. Len(t) \in Nat /\ DOMAIN t = 1..Len(t)
  BY DEF Text
<1>2. WordStarts(t) \in SUBSET (1..(Len(t) + 1))
  BY <1>1 DEF WordStarts
<1>3. IsFiniteSet(1..(Len(t) + 1))
  BY <1>1, FS_Interval
<1> QED
  BY <1>1, <1>2, <1>3, FS_Subset DEF WordStarts

LEMMA StartsInOrder ==
    ASSUME NEW t \in Text
    PROVE  /\ Len(Starts(t)) \in Nat \ {0}
           /\ Len(Starts(t)) = Cardinality(WordStarts(t))
           /\ DOMAIN Starts(t) = 1..Len(Starts(t))
           /\ Starts(t)[1] = 1
           /\ \A n \in 1..Len(Starts(t)) : Starts(t)[n] \in WordStarts(t)
           /\ \A m, n \in 1..Len(Starts(t)) : m < n => Starts(t)[m] < Starts(t)[n]
<1> DEFINE S == WordStarts(t)
           R == Ascending(S)
           f == Starts(t)
<1>1. S \subseteq Nat /\ IsFiniteSet(S) /\ 1 \in S /\ \A i \in S : 1 <= i
  BY WordStartsFacts DEF Text
<1>2. \A i, j \in S : <<i, j>> \in R <=> i < j
  BY DEF Ascending
<1>3. StrictOrder(S, R)
  <2> HIDE DEF S, R
  <2> QED
    BY <1>1, <1>2 DEF StrictOrder
<1>4. Arranged(f, S, R)
  <2>1. f = InOrder(S, R)
    BY DEF Starts
  <2> HIDE DEF S, R, f
  <2> QED
    BY <1>1, <1>3, <2>1, InOrderArranged
<1> HIDE DEF S, R, f
<1>5. /\ Cardinality(S) \in Nat /\ f \in [1..Cardinality(S) -> S]
      /\ \A x \in S : \E m \in 1..Cardinality(S) : f[m] = x
  BY <1>1, <1>3, <1>4, InOrderFacts
<1>6. \A m, n \in 1..Cardinality(S) : m < n => f[m] < f[n]
  BY <1>2, <1>4, <1>5 DEF Arranged
<1>7. Len(f) = Cardinality(S) /\ DOMAIN f = 1..Cardinality(S)
  BY <1>5
<1>8. PICK m \in 1..Cardinality(S) : f[m] = 1
  BY <1>1, <1>5
<1>9. Cardinality(S) \in Nat \ {0} /\ 1 \in 1..Cardinality(S)
  BY <1>5, <1>8
<1>10. f[1] = 1
  <2>1. f[1] \in S /\ 1 <= f[1]
    BY <1>1, <1>5, <1>9
  <2>2. m = 1
    <3> SUFFICES ASSUME m # 1 PROVE FALSE
      OBVIOUS
    <3>1. 1 < m
      BY <1>9
    <3>2. f[1] < f[m]
      BY <1>6, <1>9, <3>1
    <3>3. f[1] \in Nat
      BY <1>1, <2>1
    <3> QED
      BY <1>8, <2>1, <3>2, <3>3
  <2> QED
    BY <1>8, <2>2
<1> QED
  BY <1>5, <1>6, <1>7, <1>9, <1>10 DEF S, f

LEMMA WordsFacts ==
    ASSUME NEW t \in Text
    PROVE  /\ Len(Words(t)) = Len(Starts(t)) /\ Len(Words(t)) \in Nat \ {0}
           /\ \A n \in 1..Len(Words(t)) :
                 Words(t)[n] = SubSeq(t, Starts(t)[n], EndOf(t, n))
<1>1. Words(t) = [n \in 1..Len(Starts(t)) |-> SubSeq(t, Starts(t)[n], EndOf(t, n))]
  BY StartsInOrder DEF Words, Starts, EndOf
<1>2. PICK n \in Nat \ {0} : n = Len(Starts(t))
  BY StartsInOrder
<1>3. Words(t) = [m \in 1..n |-> SubSeq(t, Starts(t)[m], EndOf(t, m))]
  BY <1>1, <1>2
<1>4. Len(Words(t)) = n
  BY <1>3
<1>5. \A m \in 1..n : Words(t)[m] = SubSeq(t, Starts(t)[m], EndOf(t, m))
  BY <1>3
<1> QED
  BY <1>2, <1>4, <1>5

(* The places of a word in its text.                                         *)
LEMMA WordSpan ==
    ASSUME NEW t \in Text, NEW n \in 1..Len(Words(t))
    PROVE  /\ Starts(t)[n] \in 1..(Len(t) + 1)
           /\ EndOf(t, n) \in (Starts(t)[n] - 1)..Len(t)
           /\ n # 1 => /\ EndOf(t, n - 1) = Starts(t)[n] - 2
                       /\ Starts(t)[n] - 1 \in 1..Len(t)
                       /\ t[Starts(t)[n] - 1] = Space
<1> DEFINE f == Starts(t)
           N == Len(Words(t))
<1>1. Len(t) \in Nat /\ N \in Nat \ {0} /\ N = Len(f) /\ n \in Nat /\ n >= 1 /\ n <= N
  BY WordsFacts DEF Text
<1>2. /\ f[1] = 1
      /\ \A m \in 1..N : f[m] \in 1..(Len(t) + 1)
      /\ \A m \in 1..N : f[m] # 1 => f[m] - 1 \in 1..Len(t) /\ t[f[m] - 1] = Space
      /\ \A i, j \in 1..N : i < j => f[i] < f[j]
  <2> HIDE DEF f, N
  <2> QED
    BY <1>1, StartsInOrder, WordStartsFacts DEF f
<1>3. EndOf(t, n) = IF n = N THEN Len(t) ELSE f[n + 1] - 2
  BY <1>1 DEF EndOf
<1>4. n # 1 => EndOf(t, n - 1) = f[n] - 2
  <2>1. n # 1 => n - 1 # N /\ (n - 1) + 1 = n
    BY <1>1
  <2> QED
    BY <1>1, <2>1 DEF EndOf
<1> HIDE DEF f, N
<1>5. EndOf(t, n) \in (f[n] - 1)..Len(t)
  <2>1. CASE n = N
    BY <1>1, <1>2, <1>3, <2>1
  <2>2. CASE n # N
    <3>1. n \in 1..N /\ n + 1 \in 1..N /\ n < n + 1
      BY <1>1, <2>2
    <3>2. f[n] < f[n + 1] /\ f[n] \in 1..(Len(t) + 1) /\ f[n + 1] \in 1..(Len(t) + 1)
      BY <1>2, <3>1
    <3>3. EndOf(t, n) = f[n + 1] - 2
      BY <1>3, <2>2
    <3> QED
      BY <1>1, <3>2, <3>3
  <2> QED
    BY <2>1, <2>2
<1>6. n # 1 => f[n] # 1
  <2> SUFFICES ASSUME n # 1 PROVE f[n] # 1
    OBVIOUS
  <2>1. 1 \in 1..N /\ n \in 1..N /\ 1 < n
    BY <1>1
  <2>2. f[1] < f[n] /\ f[n] \in 1..(Len(t) + 1)
    BY <1>2, <2>1
  <2> QED
    BY <1>1, <1>2, <2>2
<1> QED
  BY <1>1, <1>2, <1>4, <1>5, <1>6 DEF f

(* What is sent for a word continues the reply where the words before it end.   *)
LEMMA ChunkFacts ==
    ASSUME Reply \in Text, NEW n \in 1..Len(Words(Reply))
    PROVE  /\ Chunk(n) \in Text
           /\ n = 1 => Chunk(n) = SubSeq(Reply, 1, EndOf(Reply, n))
           /\ n # 1 => SubSeq(Reply, 1, EndOf(Reply, n - 1)) \o Chunk(n)
                       = SubSeq(Reply, 1, EndOf(Reply, n))
<1>1. PICK t \in Text : t = Reply
  OBVIOUS
<1>2. PICK a, b \in Int : a = Starts(t)[n] /\ b = EndOf(t, n)
  <2>1. Starts(t)[n] \in Int /\ EndOf(t, n) \in Int
    BY <1>1, WordSpan DEF Text
  <2> QED
    BY <2>1
<1>3. /\ Len(t) \in Nat /\ a \in 1..(Len(t) + 1) /\ b \in (a - 1)..Len(t)
      /\ n # 1 => EndOf(t, n - 1) = a - 2 /\ a - 1 \in 1..Len(t) /\ t[a - 1] = Space
  BY <1>1, <1>2, WordSpan DEF Text
<1>4. Words(Reply)[n] = SubSeq(t, a, b)
  BY <1>1, <1>2, WordsFacts
<1>5. CASE n = 1
  <2>1. a = 1
    BY <1>1, <1>2, <1>5, StartsInOrder
  <2>2. Chunk(n) = SubSeq(t, 1, b)
    BY <1>4, <1>5, <2>1 DEF Chunk
  <2>3. b \in 0..Len(t)
    BY <1>3, <2>1
  <2>4. Chunk(n) \in Text
    BY <2>2, <2>3, CutFacts
  <2> QED
    BY <1>1, <1>2, <1>5, <2>2, <2>4
<1>6. CASE n # 1
  <2>1. a - 1 \in 1..(Len(t) + 1) /\ a - 1 \in ((a - 1) - 1)..Len(t) /\ b \in (a - 1)..Len(t)
        /\ 1 \in 1..(Len(t) + 1) /\ a - 2 \in (1 - 1)..Len(t) /\ b \in (a - 2)..Len(t)
    BY <1>3, <1>6
  <2>2. Chunk(n) = <<Space>> \o SubSeq(t, a, b)
    BY <1>4, <1>6 DEF Chunk
  <2>3. <<Space>> = SubSeq(t, a - 1, a - 1)
    <3>1. a - 1 \in 1..Len(t) /\ t[a - 1] = Space
      BY <1>3, <1>6
    <3> DEFINE c == a - 1
    <3>2. c \in 1..Len(t) /\ t[c] = Space
      BY <3>1
    <3> HIDE DEF c
    <3>3. SubSeq(t, c, c) = <<t[c]>>
      <4>1. c \in 1..Len(t) /\ c \in c..Len(t) /\ c + 1 \in Int /\ c < c + 1 /\ c \in Int
        BY <1>3, <3>2
      <4>2. SubSeq(t, c, c) = <<t[c]>> \o SubSeq(t, c + 1, c)
        BY <4>1, SubSeqRecursiveFirst DEF Text
      <4>3. SubSeq(t, c + 1, c) = <<>>
        BY <4>1, SubSeqEmpty
      <4>4. <<t[c]>> \in Seq({t[c]})
        OBVIOUS
      <4> QED
        BY <4>2, <4>3, <4>4, ConcatEmptySeq
    <3> QED
      BY <3>2, <3>3 DEF c
  <2>4. Chunk(n) = SubSeq(t, a - 1, b)
    <3>1. (a - 1) + 1 = a
      OBVIOUS
    <3>2. SubSeq(t, a - 1, a - 1) \o SubSeq(t, (a - 1) + 1, b) = SubSeq(t, a - 1, b)
      BY <2>1, ConcatAdjacentSubSeq DEF Text
    <3> QED
      BY <2>2, <2>3, <3>1, <3>2
  <2>5. SubSeq(t, 1, a - 2) \o Chunk(n) = SubSeq(t, 1, b)
    <3>1. (a - 2) + 1 = a - 1
      OBVIOUS
    <3>2. SubSeq(t, 1, a - 2) \o SubSeq(t, (a - 2) + 1, b) = SubSeq(t, 1, b)
      BY <2>1, ConcatAdjacentSubSeq DEF Text
    <3> QED
      BY <2>4, <3>1, <3>2
  <2>6. Chunk(n) \in Text
    <3>1. \A i \in (a - 1)..b : t[i] \in Characters
      BY <1>3, <1>6 DEF Text
    <3> QED
      BY <2>4, <3>1, SubSeqProperties DEF Text
  <2> QED
    BY <1>1, <1>2, <1>3, <1>6, <2>5, <2>6
<1> QED
  BY <1>5, <1>6

(* The chunks of the first k words join to the reply up to the kth word's end.  *)
LEMMA ChunksJoin ==
    ASSUME Reply \in Text, NEW k \in 1..Len(Words(Reply)),
           chunks = [n \in 1..k |-> Chunk(n)]
    PROVE  FlattenSeq(chunks) = SubSeq(Reply, 1, EndOf(Reply, k))
<1>1. Len(Words(Reply)) \in Nat
  BY WordsFacts
<1>2. k \in Nat \ {0} /\ \A n \in 1..k : n \in 1..Len(Words(Reply))
  BY <1>1
<1>3. Len(chunks) = k /\ \A n \in 1..k : chunks[n] = Chunk(n)
  BY <1>2
<1>4. PICK g : /\ FlattenSeq(chunks) = g[k] /\ g[1] = chunks[1]
               /\ \A n \in 1..k : n # 1 => g[n] = g[n - 1] \o chunks[n]
  <2>1. Len(chunks) \in Nat \ {0}
    BY <1>2, <1>3
  <2>2. \E g : /\ FlattenSeq(chunks) = g[Len(chunks)]
               /\ g[1] = chunks[1]
               /\ \A n \in 1..Len(chunks) : n # 1 => g[n] = g[n - 1] \o chunks[n]
    BY <2>1, FlattenFacts
  <2> QED
    BY <1>3, <2>2
<1> DEFINE T == {n \in Nat : n \in 1..k => g[n] = SubSeq(Reply, 1, EndOf(Reply, n))}
<1>5. 0 \in T
  OBVIOUS
<1>6. ASSUME NEW n \in Nat, n \in T, n + 1 \in 1..k
      PROVE  g[n + 1] = SubSeq(Reply, 1, EndOf(Reply, n + 1))
  <2>1. n + 1 \in 1..Len(Words(Reply)) /\ chunks[n + 1] = Chunk(n + 1)
    BY <1>2, <1>3, <1>6
  <2>2. CASE n = 0
    <3>1. n + 1 = 1 /\ g[1] = Chunk(1) /\ 1 \in 1..Len(Words(Reply))
      BY <1>4, <2>1, <2>2
    <3>2. Chunk(1) = SubSeq(Reply, 1, EndOf(Reply, 1))
      BY <3>1, ChunkFacts
    <3> QED
      BY <3>1, <3>2
  <2>3. CASE n # 0
    <3>1. n \in 1..k /\ (n + 1) - 1 = n /\ n + 1 # 1
      BY <1>2, <1>6, <2>3
    <3>2. g[n + 1] = g[n] \o Chunk(n + 1)
      BY <1>4, <1>6, <2>1, <3>1
    <3>3. g[n] = SubSeq(Reply, 1, EndOf(Reply, n))
      BY <1>6, <3>1
    <3>4. SubSeq(Reply, 1, EndOf(Reply, n)) \o Chunk(n + 1)
          = SubSeq(Reply, 1, EndOf(Reply, n + 1))
      <4>1. SubSeq(Reply, 1, EndOf(Reply, (n + 1) - 1)) \o Chunk(n + 1)
            = SubSeq(Reply, 1, EndOf(Reply, n + 1))
        BY <2>1, <3>1, ChunkFacts
      <4> QED
        BY <3>1, <4>1
    <3> QED
      BY <3>2, <3>3, <3>4
  <2> QED
    BY <2>2, <2>3
<1>7. Nat \subseteq T
  <2>1. \A n \in Nat : n \in T => n + 1 \in T
    BY <1>6
  <2> HIDE DEF T
  <2> QED
    BY <1>5, <2>1, NumberInduction
<1> QED
  BY <1>2, <1>4, <1>7

(* The stream has sent the chunks of the first words of its reply.            *)
Sent ==
    /\ \E k \in 0..Len(Words(Reply)) : chunks = [n \in 1..k |-> Chunk(n)]
    /\ finish # "none" => Len(chunks) = Len(Words(Reply))

LEMMA StreamSent == Spec => [](Asked /\ Sent)
<1>1. Init => Asked /\ Sent
  <2> SUFFICES ASSUME Init PROVE Asked /\ Sent
    OBVIOUS
  <2>1. Asked /\ chunks = <<>> /\ finish = "none"
    BY DEF Init, Asked
  <2>2. Len(Words(Reply)) \in Nat
    BY <2>1, ReplyFacts, WordsFacts
  <2>3. 0 \in 0..Len(Words(Reply)) /\ chunks = [n \in 1..0 |-> Chunk(n)]
    BY <2>1, <2>2
  <2> QED
    BY <2>1, <2>3 DEF Sent
<1>2. Asked /\ Sent /\ [Next]_vars => Asked' /\ Sent'
  <2> SUFFICES ASSUME Asked, Sent, [Next]_vars PROVE Asked' /\ Sent'
    OBVIOUS
  <2>1. /\ text' = text /\ max_tokens' = max_tokens /\ stops' = stops
    BY DEF Next, SendWord, SendFinish, vars, request
  <2>2. Asked' /\ Reply' = Reply
    BY <2>1 DEF Asked, Reply, Whole, CutAtStop, Hits
  <2>3. (\A n : Chunk(n)' = Chunk(n)) /\ Words(Reply)' = Words(Reply)
    BY <2>2 DEF Chunk, Words
  <2>4. CASE UNCHANGED <<chunks, finish>>
    BY <2>2, <2>3, <2>4 DEF Sent
  <2>6. CASE SendFinish
    BY <2>2, <2>3, <2>6 DEF Sent, SendFinish
  <2>5. CASE SendWord
    <3>1. PICK k \in 0..Len(Words(Reply)) : chunks = [n \in 1..k |-> Chunk(n)]
      BY DEF Sent
    <3>2. Reply \in Text /\ Len(Words(Reply)) \in Nat
      BY ReplyFacts, WordsFacts
    <3>3. \A n \in 1..Len(Words(Reply)) : Chunk(n) \in Text
      BY <3>2, ChunkFacts
    <3>4. chunks \in Seq(Text) /\ Len(chunks) = k
      <4>1. \A n \in 1..k : Chunk(n) \in Text
        BY <3>2, <3>3
      <4> QED
        BY <3>1, <4>1
    <3>5. /\ k + 1 \in 0..Len(Words(Reply)) /\ k + 1 \in 1..Len(Words(Reply))
          /\ chunks' = Append(chunks, Chunk(k + 1)) /\ finish' = "none"
      BY <2>5, <3>2, <3>4 DEF SendWord, Sent
    <3>6. chunks' = [n \in 1..(k + 1) |-> Chunk(n)]
      <4>1. \A n \in 1..k : chunks[n] = Chunk(n)
        BY <3>1
      <4> QED
        BY <3>1, <3>4, <3>5, <4>1
    <3>7. chunks' = [n \in 1..(k + 1) |-> Chunk(n)']
      BY <2>3, <3>6
    <3> QED
      BY <2>2, <2>3, <3>5, <3>7 DEF Sent
  <2> QED
    BY <2>4, <2>5, <2>6 DEF Next, vars
<1> QED
  BY <1>1, <1>2, PTL DEF Spec

(* What a stream has sent is a prefix of the text that the same request        *)
(* completes to, and all of it once the final chunk is sent.                   *)
THEOREM StreamsJoinToReplies == Spec => []StreamJoinsToReply
<1>1. Asked /\ Sent => StreamJoinsToReply
  <2> SUFFICES ASSUME Asked, Sent PROVE StreamJoinsToReply
    OBVIOUS
  <2>1. Reply \in Text /\ Len(Reply) \in Nat /\ Len(Words(Reply)) \in Nat \ {0}
    BY ReplyFacts, WordsFacts DEF Text
  <2>2. PICK k \in 0..Len(Words(Reply)) : chunks = [n \in 1..k |-> Chunk(n)]
    BY DEF Sent
  <2>3. Len(chunks) = k /\ (finish # "none" => k = Len(Words(Reply)))
    BY <2>1, <2>2 DEF Sent
  <2>4. CASE k = 0
    <3>1. FlattenSeq(chunks) = <<>> /\ finish = "none"
      BY <2>1, <2>2, <2>3, <2>4 DEF FlattenSeq
    <3>2. SubSeq(Reply, 1, 0) = <<>> /\ SubSeq(<<>>, 1, 0) = <<>>
      BY SubSeqEmpty
    <3> QED
      BY <2>1, <3>1, <3>2 DEF StreamJoinsToReply, IsPrefix
  <2>5. CASE k # 0
    <3>1. k \in 1..Len(Words(Reply))
      BY <2>1, <2>5
    <3>2. FlattenSeq(chunks) = SubSeq(Reply, 1, EndOf(Reply, k))
      BY <2>1, <2>2, <3>1, ChunksJoin
    <3>3. EndOf(Reply, k) \in 0..Len(Reply)
      <4>1. Starts(Reply)[k] \in 1..(Len(Reply) + 1)
            /\ EndOf(Reply, k) \in (Starts(Reply)[k] - 1)..Len(Reply)
        BY <2>1, <3>1, WordSpan
      <4> QED
        BY <2>1, <4>1
    <3>4. IsPrefix(FlattenSeq(chunks), Reply)
      <4> DEFINE u == SubSeq(Reply, 1, EndOf(Reply, k))
      <4>1. u \in Text /\ Len(u) = EndOf(Reply, k) /\ SubSeq(u, 1, Len(u)) = u
        BY <2>1, <3>3, CutFacts, SubSeqFull DEF Text
      <4> QED
        BY <2>1, <3>2, <3>3, <4>1 DEF IsPrefix
    <3>5. finish # "none" => FlattenSeq(chunks) = Reply
      <4> SUFFICES ASSUME k = Len(Words(Reply)) PROVE FlattenSeq(chunks) = Reply
        BY <2>3
      <4>1. EndOf(Reply, k) = Len(Reply)
        BY <2>1, WordsFacts DEF EndOf
      <4> QED
        BY <2>1, <3>2, <4>1, SubSeqFull DEF Text
    <3> QED
      BY <3>4, <3>5 DEF StreamJoinsToReply
  <2> QED
    BY <2>4, <2>5
<1> QED
  BY <1>1, StreamSent, PTL

-----------------------------------------------------------------------------
(* What InferenceEngine keeps of a text: the number of its tokens and words.    *)
LEMMA TextTokens ==
    ASSUME NEW t \in Beginnings, t # <<>>
    PROVE  CountTokens(t) \in 1..Len(t)
<1>1. Len(t) \in Nat \ {0} /\ DOMAIN t = 1..Len(t)
  BY BeginningFacts DEF Text
<1>2. 1 \in TokenStarts(t) /\ IsFiniteSet(TokenStarts(t)) /\ TokenStarts(t) \subseteq 1..Len(t)
  BY <1>1, StartsFacts, EncoderAssumption
<1>3. CountTokens(t) \in Nat \ {0}
  BY <1>2, OneLess DEF CountTokens
<1>4. CountTokens(t) <= Len(t)
  <2>1. IsFiniteSet(1..Len(t)) /\ Cardinality(1..Len(t)) = Len(t)
    BY <1>1, FS_Interval
  <2> QED
    BY <1>2, <2>1, FS_Subset DEF CountTokens
<1> QED
  BY <1>1, <1>3, <1>4

(* Each word but the first starts after a space, and that space is a token's. *)
LEMMA WordsAreTokens ==
    ASSUME NEW t \in Beginnings, t # <<>>, t[1] # Space
    PROVE  Len(Words(t)) <= CountTokens(t)
<1> DEFINE S == WordStarts(t)
           T == TokenStarts(t)
           h == [i \in S |-> IF i = 1 THEN 1 ELSE i - 1]
<1>1. t \in Text /\ Len(t) \in Nat \ {0} /\ DOMAIN t = 1..Len(t)
  BY BeginningFacts DEF Text
<1>2. /\ S \subseteq Nat
      /\ \A i \in S : i # 1 => i - 1 \in 1..Len(t) /\ t[i - 1] = Space
  BY <1>1, WordStartsFacts DEF Text
<1>3. T \subseteq Nat /\ IsFiniteSet(T)
  BY StartsFacts
<1>4. \A i \in S : i # 1 => i - 1 \in T /\ i - 1 # 1
  BY <1>1, <1>2, EncoderAssumption
<1>5. 1 \in T
  BY <1>1, EncoderAssumption
<1> HIDE DEF S, T
<1>6. h \in [S -> T] /\ \A i, j \in S : h[i] = h[j] => i = j
  <2>1. \A i \in S : h[i] = IF i = 1 THEN 1 ELSE i - 1
    OBVIOUS
  <2>2. h \in [S -> T]
    BY <1>4, <1>5
  <2>3. ASSUME NEW i \in S, NEW j \in S, h[i] = h[j] PROVE i = j
    BY <1>2, <1>4, <2>1, <2>3
  <2> QED
    BY <2>2, <2>3
<1>7. h \in Injection(S, T)
  BY <1>6 DEF Injection, IsInjective
<1>8. Cardinality(S) <= Cardinality(T)
  BY <1>3, <1>7, FS_Injection
<1> QED
  BY <1>1, <1>8, WordsFacts, StartsInOrder DEF S, T, CountTokens

(* Whatever the encoder does within the assumption, the numbers of tokens and    *)
(* words with which InferenceEngine stands for a reply include those of the      *)
(* reply, also when a stop sequence cuts it inside a token.                   *)
THEOREM EngineCountsReplies == Spec => []CountsAsInEngine
<1>1. Asked => CountsAsInEngine
  <2> SUFFICES ASSUME Asked PROVE CountsAsInEngine
    OBVIOUS
  <2>n. PICK n : n = CountTokens(text)
    OBVIOUS
  <2>l. PICK l : l = Len(text)
    OBVIOUS
  <2>m. PICK m : m = CountTokens(Reply)
    OBVIOUS
  <2>1. /\ text \in Text /\ text # <<>> /\ text[1] # Space /\ max_tokens \in Nat \ {0}
        /\ stops \in Seq(Text) /\ Whole \in Text /\ Reply \in Text
        /\ text \in Texts /\ text \in Beginnings /\ Reply \in Beginnings
    BY AskedFacts, WholeFacts, ReplyFacts, TextBegins
  <2>2. n \in 1..l /\ l \in 1..l /\ l \in Nat /\ m \in Nat
    BY <2>n, <2>m, <2>l, <2>1, TextTokens, StartsFacts DEF Text
  <2>3. CountTokens(Whole) = IF n > max_tokens THEN max_tokens ELSE n
    <3>1. CASE n > max_tokens
      BY <2>n, <2>1, <3>1, TruncationFacts DEF Whole
    <3>2. CASE n <= max_tokens
      BY <2>n, <2>1, <3>2, TruncationFacts DEF Whole
    <3> QED
      BY <2>1, <2>2, <3>1, <3>2
  <2>4. Len(Reply) \in 0..l /\ (Reply = <<>> => m = 0) /\ m \in 0..Len(Reply)
    <3>1. PICK k \in 0..Len(Whole) : Reply = SubSeq(Whole, 1, k)
      BY ReplyFacts
    <3>2. PICK j \in 1..Len(text) : Whole = SubSeq(text, 1, j)
      BY WholeFacts
    <3>3. Len(Reply) = k /\ Len(Whole) = j /\ k \in 0..l
      BY <2>1, <2>2, <2>l, <3>1, <3>2, CutFacts
    <3>4. TokenStarts(Reply) \subseteq 1..Len(Reply) /\ Len(Reply) \in Nat
      BY <2>1, <3>3, StartsFacts DEF Text
    <3>5. Reply = <<>> => m = 0
      <4> SUFFICES ASSUME Reply = <<>> PROVE m = 0
        OBVIOUS
      <4>1. TokenStarts(Reply) = {}
        BY <3>4
      <4> QED
        BY <2>m, <4>1, FS_EmptySet DEF CountTokens
    <3>6. Reply # <<>> => m \in 1..Len(Reply)
      BY <2>m, <2>1, TextTokens
    <3> QED
      BY <3>3, <3>4, <3>5, <3>6
  <2>5. stops = <<>> => m = CountTokens(Whole)
    BY <2>m, ReplyFacts DEF Hits
  <2>6. m \in Engine(n, l)!Replies(max_tokens, stops # <<>>)
    BY <2>1, <2>2, <2>3, <2>4, <2>5 DEF Engine!Replies
  <2>7. Len(Words(Reply)) \in Engine(n, l)!Wordings(m)
    <3>1. CASE Reply = <<>>
      <4>1. m = 0
        BY <2>4, <3>1
      <4>2. WordStarts(Reply) = {1}
        BY <3>1 DEF WordStarts
      <4>3. Len(Words(Reply)) = 1
        BY <2>1, <4>2, WordsFacts, StartsInOrder, FS_Singleton
      <4> QED
        BY <4>1, <4>3 DEF Engine!Wordings
    <3>2. CASE Reply # <<>>
      <4>1. Reply[1] = text[1]
        <5>1. PICK k \in 0..Len(Whole) : Reply = SubSeq(Whole, 1, k)
          BY ReplyFacts
        <5>2. PICK j \in 1..Len(text) : Whole = SubSeq(text, 1, j)
          BY WholeFacts
        <5>3. Len(Reply) = k /\ Len(Whole) = j /\ Len(Reply) \in Nat \ {0}
          BY <2>1, <3>2, <5>1, <5>2, CutFacts DEF Text
        <5>4. 1 \in 1..k /\ 1 \in 1..j
          BY <2>2, <5>1, <5>2, <5>3
        <5> QED
          BY <2>1, <2>2, <5>1, <5>2, <5>4, CutFacts
      <4>2. Len(Words(Reply)) <= m /\ Len(Words(Reply)) \in Nat \ {0}
        BY <2>m, <2>1, <3>2, <4>1, WordsAreTokens, WordsFacts
      <4> QED
        BY <2>2, <4>2 DEF Engine!Wordings
    <3> QED
      BY <3>1, <3>2
  <2> QED
    BY <2>n, <2>m, <2>l, <2>2, <2>6, <2>7 DEF CountsAsInEngine
<1> QED
  BY <1>1, AskedStays, PTL

-----------------------------------------------------------------------------
(* Counting and charging messages.                                          *)
Message == [role : Roles, tokens : Nat, number : Nat]

LEMMA CountEmpty == CountMessageTokens(<<>>) = 2
<1> DEFINE f == [i \in DOMAIN <<>> |-> 4 + (<<>>)[i].tokens]
<1>1. DOMAIN f = {}
  OBVIOUS
<1>2. CountMessageTokens(<<>>) = 2 + SumFunction(f)
  BY DEF CountMessageTokens
<1> HIDE DEF f
<1>3. SumFunction(f) = 0
  BY <1>1, TotalEmpty
<1> QED
  BY <1>2, <1>3

LEMMA CountAppend ==
    ASSUME NEW s \in Seq(Message), NEW m \in Message
    PROVE  /\ CountMessageTokens(s) \in Nat
           /\ CountMessageTokens(Append(s, m)) = CountMessageTokens(s) + 4 + m.tokens
<1> DEFINE v == Append(s, m)
           x == Len(s) + 1
           f == [i \in DOMAIN s |-> 4 + s[i].tokens]
           h == [i \in DOMAIN v |-> 4 + v[i].tokens]
<1>1. /\ Len(s) \in Nat /\ DOMAIN s = 1..Len(s) /\ v \in Seq(Message)
      /\ \A i \in 1..Len(s) : s[i] \in Message
  BY AppendProperties, LenProperties, ElementOfSeq
<1>2. Len(v) = x /\ v[x] = m /\ \A i \in 1..Len(s) : v[i] = s[i]
  BY AppendProperties
<1>3. DOMAIN v = 1..x
  BY <1>1, <1>2, LenProperties
<1>4. CountMessageTokens(s) = 2 + SumFunction(f) /\ CountMessageTokens(v) = 2 + SumFunction(h)
  BY DEF CountMessageTokens
<1> HIDE DEF v
<1>5. DOMAIN f = 1..Len(s) /\ DOMAIN h = 1..Len(s) \cup {x} /\ x \notin 1..Len(s)
  BY <1>1, <1>3
<1>6. \A m_ \in Message : m_.tokens \in Nat
  BY DEF Message
<1>7. \A i \in 1..Len(s) : f[i] \in Nat /\ f[i] = h[i]
  <2> SUFFICES ASSUME NEW i \in 1..Len(s)
               PROVE  f[i] \in Nat /\ f[i] = h[i]
    OBVIOUS
  <2>1. i \in DOMAIN s /\ i \in DOMAIN v
    BY <1>1, <1>3
  <2>2. s[i].tokens \in Nat /\ v[i] = s[i]
    BY <1>1, <1>2, <1>6
  <2> QED
    BY <2>1, <2>2
<1>8. h[x] = 4 + m.tokens /\ h[x] \in Int
  <2>1. x \in DOMAIN v /\ v[x] = m /\ m.tokens \in Nat
    BY <1>1, <1>2, <1>3, <1>6
  <2> QED
    BY <2>1
<1>9. IsFiniteSet(DOMAIN f)
  BY <1>1, <1>5, FS_Interval
<1>10. /\ \A y \in DOMAIN h : h[y] \in Int
       /\ \A y \in DOMAIN f : h[y] = f[y] /\ f[y] \in Nat
       /\ DOMAIN h = DOMAIN f \cup {x} /\ x \notin DOMAIN f
  <2> HIDE DEF f, h, x
  <2>1. \A y \in DOMAIN f : h[y] = f[y] /\ f[y] \in Nat
    BY <1>5, <1>7
  <2>2. DOMAIN h = DOMAIN f \cup {x} /\ x \notin DOMAIN f
    BY <1>5
  <2>3. \A y \in DOMAIN h : h[y] \in Int
    <3>1. \A y \in DOMAIN f : h[y] \in Int
      BY <2>1
    <3> QED
      BY <1>8, <2>2, <3>1
  <2> QED
    BY <2>1, <2>2, <2>3
<1> HIDE DEF f, h, x
<1>11. SumFunction(h) = SumFunction(f) + h[x]
  BY <1>9, <1>10, TotalGrows
<1>12. SumFunction(f) \in Nat
  BY <1>9, <1>10, TotalTyped
<1>13. m.tokens \in Nat
  BY <1>6
<1>14. CountMessageTokens(v) = CountMessageTokens(s) + 4 + m.tokens
  <2>1. PICK a, b, c, d : /\ a = SumFunction(f) /\ b = SumFunction(h) /\ c = m.tokens
                          /\ d = h[x]
    OBVIOUS
  <2>2. b = a + d /\ d = 4 + c /\ a \in Nat /\ c \in Nat
    BY <1>8, <1>11, <1>12, <1>13, <2>1
  <2>3. CountMessageTokens(s) = 2 + a /\ CountMessageTokens(v) = 2 + b
    BY <1>4, <2>1
  <2>4. CountMessageTokens(v) = CountMessageTokens(s) + 4 + c
    BY <2>2, <2>3
  <2> QED
    BY <2>1, <2>4
<1> QED
  BY <1>4, <1>12, <1>14 DEF v

LEMMA CountConcat ==
    ASSUME NEW u \in Seq(Message), NEW v \in Seq(Message)
    PROVE  CountMessageTokens(u \o v) = CountMessageTokens(u) + CountMessageTokens(v) - 2
<1> DEFINE Right(s) == CountMessageTokens(u \o s) = CountMessageTokens(u) + CountMessageTokens(s) - 2
           W == {s \in Seq(Message) : Right(s)}
<1>1. \A s \in Seq(Message), m \in Message :
         /\ CountMessageTokens(s) \in Nat /\ m.tokens \in Nat
         /\ CountMessageTokens(Append(s, m)) = CountMessageTokens(s) + 4 + m.tokens
  BY CountAppend DEF Message
<1>2. <<>> \in W
  <2>1. u \o <<>> = u /\ <<>> \in Seq(Message)
    BY ConcatEmptySeq, EmptySeq
  <2>2. CountMessageTokens(u) \in Nat
    <3>1. [role |-> "user", tokens |-> 0, number |-> 0] \in Message
      BY DEF Message, Roles
    <3> QED
      BY <1>1, <3>1
  <2> QED
    BY <2>1, <2>2, CountEmpty
<1>3. ASSUME NEW s \in Seq(Message), NEW m \in Message, s \in W
      PROVE  Append(s, m) \in W
  <2>1. Append(s, m) \in Seq(Message) /\ u \o s \in Seq(Message)
    BY AppendProperties, ConcatProperties
  <2>2. u \o Append(s, m) = Append(u \o s, m)
    BY ConcatAppend
  <2>3. CountMessageTokens(Append(u \o s, m)) = CountMessageTokens(u \o s) + 4 + m.tokens
    BY <1>1, <2>1
  <2>4. CountMessageTokens(Append(s, m)) = CountMessageTokens(s) + 4 + m.tokens
    BY <1>1
  <2>5. /\ CountMessageTokens(u) \in Nat /\ CountMessageTokens(s) \in Nat
        /\ CountMessageTokens(u \o s) \in Nat /\ m.tokens \in Nat
    BY <1>1, <2>1
  <2>6. Right(s)
    BY <1>3
  <2>7. Right(Append(s, m))
    <3>1. PICK a, b, c, d : /\ a = CountMessageTokens(u) /\ b = CountMessageTokens(s)
                            /\ c = CountMessageTokens(u \o s) /\ d = m.tokens
      OBVIOUS
    <3>2. c = a + b - 2 /\ a \in Nat /\ b \in Nat /\ c \in Nat /\ d \in Nat
      BY <2>5, <2>6, <3>1
    <3>3. CountMessageTokens(u \o Append(s, m)) = c + 4 + d
      BY <2>2, <2>3, <3>1
    <3>4. CountMessageTokens(Append(s, m)) = b + 4 + d
      BY <2>4, <3>1
    <3>5. c + 4 + d = a + (b + 4 + d) - 2
      BY <3>2
    <3> QED
      BY <3>1, <3>3, <3>4, <3>5
  <2> QED
    BY <2>1, <2>7
<1>4. Seq(Message) \subseteq W
  <2> HIDE DEF W
  <2> QED
    BY <1>2, <1>3, AppendInduction
<1> QED
  BY <1>4

(* What the loop charges for the messages of s.                               *)
Cost(s) == CountMessageTokens(s) - 2 + 2 * Len(s)

LEMMA CountTyped ==
    ASSUME NEW s \in Seq(Message)
    PROVE  CountMessageTokens(s) \in Nat /\ CountMessageTokens(s) >= 2
<1> DEFINE W == {v \in Seq(Message) : CountMessageTokens(v) \in Nat /\ CountMessageTokens(v) >= 2}
<1>1. <<>> \in W
  BY CountEmpty, EmptySeq
<1>2. ASSUME NEW v \in Seq(Message), NEW m \in Message, v \in W
      PROVE  Append(v, m) \in W
  <2>1. Append(v, m) \in Seq(Message) /\ m.tokens \in Nat
    BY AppendProperties DEF Message
  <2>2. CountMessageTokens(Append(v, m)) = CountMessageTokens(v) + 4 + m.tokens
    BY CountAppend
  <2> QED
    BY <1>2, <2>1, <2>2
<1>3. Seq(Message) \subseteq W
  <2> HIDE DEF W
  <2> QED
    BY <1>1, <1>2, AppendInduction
<1> QED
  BY <1>3

LEMMA CountOne ==
    ASSUME NEW m \in Message
    PROVE  /\ <<m>> \in Seq(Message) /\ m.tokens \in Nat
           /\ CountMessageTokens(<<m>>) = 6 + m.tokens /\ Cost(<<m>>) = 6 + m.tokens
<1>1. m.tokens \in Nat
  BY DEF Message
<1>2. <<m>> = Append(<<>>, m) /\ <<m>> \in Seq(Message) /\ Len(<<m>>) = 1
  OBVIOUS
<1>3. CountMessageTokens(Append(<<>>, m)) = CountMessageTokens(<<>>) + 4 + m.tokens
  BY CountAppend, EmptySeq
<1>4. CountMessageTokens(<<m>>) = 6 + m.tokens
  BY <1>1, <1>2, <1>3, CountEmpty
<1> QED
  BY <1>1, <1>2, <1>4 DEF Cost

LEMMA CostConcat ==
    ASSUME NEW u \in Seq(Message), NEW v \in Seq(Message)
    PROVE  /\ u \o v \in Seq(Message)
           /\ Cost(u) \in Nat /\ Cost(v) \in Nat
           /\ Cost(u \o v) = Cost(u) + Cost(v)
<1>1. Len(u) \in Nat /\ Len(v) \in Nat /\ Len(u \o v) = Len(u) + Len(v) /\ u \o v \in Seq(Message)
  BY ConcatProperties, LenProperties
<1>2. /\ CountMessageTokens(u) \in Nat /\ CountMessageTokens(u) >= 2
      /\ CountMessageTokens(v) \in Nat /\ CountMessageTokens(v) >= 2
  BY CountTyped
<1>3. CountMessageTokens(u \o v) = CountMessageTokens(u) + CountMessageTokens(v) - 2
  BY CountConcat
<1> QED
  BY <1>1, <1>2, <1>3 DEF Cost

LEMMA CostEmpty == Cost(<<>>) = 0
<1>1. Len(<<>>) = 0
  OBVIOUS
<1> QED
  BY <1>1, CountEmpty DEF Cost

(* What is left from a later message on costs no more.                        *)
LEMMA CostOfSuffix ==
    ASSUME NEW s \in Seq(Message), NEW i \in 1..(Len(s) + 1), NEW j \in i..(Len(s) + 1)
    PROVE  /\ SubSeq(s, i, Len(s)) \in Seq(Message) /\ SubSeq(s, j, Len(s)) \in Seq(Message)
           /\ Cost(SubSeq(s, i, Len(s))) \in Nat /\ Cost(SubSeq(s, j, Len(s))) \in Nat
           /\ Cost(SubSeq(s, j, Len(s))) <= Cost(SubSeq(s, i, Len(s)))
<1>1. Len(s) \in Nat /\ \A k \in 1..Len(s) : s[k] \in Message
  BY LenProperties, ElementOfSeq
<1>2. \A k \in Int, n \in Int : k >= 1 /\ n <= Len(s) => SubSeq(s, k, n) \in Seq(Message)
  <2> SUFFICES ASSUME NEW k \in Int, NEW n \in Int, k >= 1, n <= Len(s)
               PROVE  SubSeq(s, k, n) \in Seq(Message)
    OBVIOUS
  <2>1. \A l \in k..n : s[l] \in Message
    BY <1>1
  <2> QED
    BY <2>1, SubSeqProperties
<1>3. /\ i \in Int /\ j \in Int /\ i >= 1 /\ j >= 1 /\ j - 1 <= Len(s) /\ j - 1 \in Int
      /\ Len(s) \in Int /\ Len(s) <= Len(s)
      /\ j - 1 \in (i - 1)..Len(s) /\ Len(s) \in (j - 1)..Len(s) /\ (j - 1) + 1 = j
  BY <1>1
<1>4. SubSeq(s, i, j - 1) \o SubSeq(s, (j - 1) + 1, Len(s)) = SubSeq(s, i, Len(s))
  BY <1>3, ConcatAdjacentSubSeq
<1>5. PICK a, b, c : a = SubSeq(s, i, j - 1) /\ b = SubSeq(s, j, Len(s)) /\ c = SubSeq(s, i, Len(s))
  OBVIOUS
<1>6. a \in Seq(Message) /\ b \in Seq(Message) /\ c \in Seq(Message) /\ a \o b = c
  BY <1>2, <1>3, <1>4, <1>5
<1>7. Cost(a) \in Nat /\ Cost(b) \in Nat /\ Cost(c) = Cost(a) + Cost(b)
  BY <1>6, CostConcat
<1>8. Cost(c) \in Nat /\ Cost(b) <= Cost(c)
  BY <1>7
<1> QED
  BY <1>5, <1>6, <1>7, <1>8

-----------------------------------------------------------------------------
(* The loop, a recursive function too: Loops(g, s, room) is its equation.      *)
Started(room) == [kept |-> <<>>, room |-> room, open |-> TRUE]

Loops(g, s, room) ==
    g = [n \in 0..Len(s) |->
            IF n = 0 THEN [kept |-> <<>>, room |-> room, open |-> TRUE]
            ELSE Visit(s[Len(s) - n + 1], g[n - 1])]

LEMMA KeptIsIts ==
    ASSUME NEW s, NEW room
    PROVE  KeptOf(s, room) = (CHOOSE g : Loops(g, s, room))[Len(s)].kept
  BY DEF KeptOf, Loops

LEMMA LoopsExist ==
    ASSUME NEW s, Len(s) \in Nat, NEW room
    PROVE  \E g : Loops(g, s, room)
<1> DEFINE Turn(f, n) == Visit(s[Len(s) - n + 1], f)
           Partly(g, n) == g = [i \in 0..n |-> IF i = 0 THEN Started(room) ELSE Turn(g[i - 1], i)]
           N == {n \in Nat : \E g : Partly(g, n)}
<1> HIDE DEF Turn
<1>1. 0 \in N
  <2> DEFINE g == [i \in 0..0 |-> Started(room)]
  <2>1. \A i \in 0..0 : i = 0
    OBVIOUS
  <2>2. Partly(g, 0)
    BY <2>1
  <2> QED
    BY <2>2
<1>2. ASSUME NEW n \in Nat, NEW g, Partly(g, n)
      PROVE  \E h : Partly(h, n + 1)
  <2> DEFINE h == [i \in 0..(n + 1) |-> IF i = 0 THEN Started(room) ELSE Turn(g[i - 1], i)]
  <2>1. \A i \in 0..n : g[i] = IF i = 0 THEN Started(room) ELSE Turn(g[i - 1], i)
    <3> HIDE DEF h
    <3> QED
      BY <1>2
  <2>2. \A i \in 0..n : h[i] = g[i]
    <3>1. \A i \in 0..n : i \in 0..(n + 1)
      OBVIOUS
    <3> QED
      BY <2>1, <3>1
  <2>3. \A i \in 0..(n + 1) : i # 0 => i - 1 \in 0..n
    OBVIOUS
  <2>4. h = [i \in 0..(n + 1) |-> IF i = 0 THEN Started(room) ELSE Turn(h[i - 1], i)]
    <3>1. \A i \in 0..(n + 1) :
             (IF i = 0 THEN Started(room) ELSE Turn(g[i - 1], i))
           = (IF i = 0 THEN Started(room) ELSE Turn(h[i - 1], i))
      <4> HIDE DEF h
      <4> QED
        BY <2>2, <2>3
    <3> QED
      BY <3>1
  <2> HIDE DEF h
  <2> QED
    BY <2>4
<1>3. \A n \in Nat : n \in N => n + 1 \in N
  <2> HIDE DEF Partly
  <2> QED
    BY <1>2
<1>4. Nat \subseteq N
  <2> HIDE DEF N
  <2> QED
    BY <1>1, <1>3, NumberInduction
<1>5. PICK g : Partly(g, Len(s))
  <2> HIDE DEF Partly
  <2> QED
    BY <1>4
<1>6. g = [i \in 0..Len(s) |-> IF i = 0 THEN Started(room) ELSE Turn(g[i - 1], i)]
  BY <1>5
<1> QED
  BY <1>6 DEF Loops, Turn, Started

LEMMA LoopsSolved ==
    ASSUME NEW s, Len(s) \in Nat, NEW room
    PROVE  \E g : /\ KeptOf(s, room) = g[Len(s)].kept
                  /\ g[0] = Started(room)
                  /\ \A n \in 1..Len(s) : g[n] = Visit(s[Len(s) - n + 1], g[n - 1])
<1> DEFINE g == CHOOSE g : Loops(g, s, room)
<1>1. Loops(g, s, room) /\ KeptOf(s, room) = g[Len(s)].kept
  BY LoopsExist, KeptIsIts
<1> HIDE DEF g
<1>2. \A n \in 0..Len(s) :
         g[n] = IF n = 0 THEN Started(room) ELSE Visit(s[Len(s) - n + 1], g[n - 1])
  BY <1>1 DEF Loops, Started
<1>3. 0 \in 0..Len(s) /\ \A n \in 1..Len(s) : n \in 0..Len(s) /\ n # 0
  OBVIOUS
<1> QED
  BY <1>1, <1>2, <1>3

(* What the loop has when the messages from the kth on are those it has kept    *)
(* and the ith is the next it visits.                                       *)
Progress(l, s, room, i, k) ==
    /\ l = [kept |-> SubSeq(s, k, Len(s)), room |-> room - Cost(SubSeq(s, k, Len(s))),
            open |-> l.open]
    /\ l.open \in BOOLEAN
    /\ k \in (i + 1)..(Len(s) + 1)
    /\ l.open => k = i + 1
    /\ ~l.open => k > i + 1 /\ Cost(SubSeq(s, k - 1, Len(s))) > room
    /\ k <= Len(s) => Cost(SubSeq(s, k, Len(s))) <= room

LEMMA LoopTurn ==
    ASSUME NEW s \in Seq(Message), NEW room \in Int, NEW i \in 1..Len(s),
           NEW k, NEW l, Progress(l, s, room, i, k)
    PROVE  \E n : Progress(Visit(s[i], l), s, room, i - 1, n)
<1> DEFINE m == s[i]
           From(j) == SubSeq(s, j, Len(s))
           next == Visit(m, l)
           fits == l.open /\ l.room >= CountMessageTokens(<<m>>)
<1>1. /\ Len(s) \in Nat /\ m \in Message /\ k \in (i + 1)..(Len(s) + 1)
      /\ From(i) = <<m>> \o From(i + 1)
  BY LenProperties, AroundElement DEF Progress
<1>2. /\ l.kept = From(k) /\ l.room = room - Cost(From(k)) /\ l.open \in BOOLEAN
      /\ l.open => k = i + 1
      /\ ~l.open => k > i + 1 /\ Cost(From(k - 1)) > room
      /\ k <= Len(s) => Cost(From(k)) <= room
      /\ l = [kept |-> From(k), room |-> room - Cost(From(k)), open |-> l.open]
  BY DEF Progress
<1>3. From(i) \in Seq(Message) /\ From(k) \in Seq(Message) /\ From(i + 1) \in Seq(Message)
  <2>1. i \in 1..(Len(s) + 1) /\ k \in i..(Len(s) + 1) /\ i + 1 \in i..(Len(s) + 1)
    BY <1>1
  <2> QED
    BY <2>1, CostOfSuffix
<1>4. /\ Cost(From(i)) = CountMessageTokens(<<m>>) + Cost(From(i + 1))
      /\ Cost(From(i + 1)) \in Nat /\ CountMessageTokens(<<m>>) \in Nat
      /\ Cost(From(k)) \in Nat /\ Cost(From(i)) \in Nat
  <2>1. <<m>> \in Seq(Message) /\ m.tokens \in Nat /\ CountMessageTokens(<<m>>) = 6 + m.tokens
        /\ Cost(<<m>>) = 6 + m.tokens
    BY <1>1, CountOne
  <2>2. \A u, v \in Seq(Message) : Cost(u) \in Nat /\ Cost(v) \in Nat /\ Cost(u \o v) = Cost(u) + Cost(v)
    BY CostConcat
  <2>3. Cost(<<m>> \o From(i + 1)) = Cost(<<m>>) + Cost(From(i + 1))
    BY <1>3, <2>1, <2>2
  <2>4. Cost(From(k)) \in Nat /\ Cost(From(i)) \in Nat /\ Cost(From(i + 1)) \in Nat
    BY <1>3, <2>2
  <2> QED
    BY <1>1, <2>1, <2>3, <2>4
<1>5. Len(From(k)) \in Nat /\ i \in Int /\ k \in Int
  BY <1>1, <1>3, LenProperties
<1> HIDE DEF m, From
<1>6. CASE fits
  <2>1. k = i + 1 /\ l.open = TRUE
    BY <1>2, <1>6
  <2>2. next = [kept |-> <<m>> \o From(k), room |-> l.room - CountMessageTokens(<<m>>), open |-> TRUE]
    BY <1>2, <1>6, <2>1 DEF Visit
  <2>3. <<m>> \o From(k) = From(i)
    BY <1>1, <2>1
  <2>4. l.room - CountMessageTokens(<<m>>) = room - Cost(From(i))
    BY <1>2, <1>4, <2>1
  <2>5. Cost(From(i)) <= room
    BY <1>2, <1>4, <1>6, <2>1
  <2>6. next.kept = From(i) /\ next.open = TRUE
        /\ next = [kept |-> From(i), room |-> room - Cost(From(i)), open |-> next.open]
    <3> HIDE DEF next
    <3>1. next = [kept |-> From(i), room |-> room - Cost(From(i)), open |-> TRUE]
      BY <2>2, <2>3, <2>4
    <3>2. next.kept = From(i) /\ next.open = TRUE
      BY <3>1
    <3> QED
      BY <3>1, <3>2
  <2>7. i \in ((i - 1) + 1)..(Len(s) + 1) /\ i = (i - 1) + 1
    BY <1>1
  <2>8. Progress(next, s, room, i - 1, i)
    BY <2>5, <2>6, <2>7 DEF Progress, From
  <2> QED
    BY <2>8 DEF m
<1>7. CASE ~fits
  <2>1. next = [kept |-> From(k), room |-> room - Cost(From(k)), open |-> FALSE]
    BY <1>2, <1>7 DEF Visit
  <2>2. next.open = FALSE
        /\ next = [kept |-> From(k), room |-> room - Cost(From(k)), open |-> next.open]
    BY <2>1
  <2>3. k > i /\ k \in ((i - 1) + 1)..(Len(s) + 1) /\ (i - 1) + 1 = i
    BY <1>1, <1>5
  <2>4. Cost(From(k - 1)) > room
    <3>1. CASE l.open
      <4>1. k = i + 1 /\ k - 1 = i
        BY <1>2, <1>5, <3>1
      <4>2. l.room < CountMessageTokens(<<m>>)
        BY <1>2, <1>4, <1>7, <3>1
      <4> QED
        BY <1>2, <1>4, <4>1, <4>2
    <3>2. CASE ~l.open
      BY <1>2, <3>2
    <3> QED
      BY <3>1, <3>2
  <2>5. Progress(next, s, room, i - 1, k)
    BY <1>2, <2>2, <2>3, <2>4 DEF Progress, From
  <2> QED
    BY <2>5 DEF m
<1> QED
  BY <1>6, <1>7

LEMMA KeptProgress ==
    ASSUME NEW s \in Seq(Message), NEW room \in Int
    PROVE  \E l, k : KeptOf(s, room) = l.kept /\ Progress(l, s, room, 0, k)
<1>1. Len(s) \in Nat
  BY LenProperties
<1>2. PICK g : /\ KeptOf(s, room) = g[Len(s)].kept
               /\ g[0] = Started(room)
               /\ \A n \in 1..Len(s) : g[n] = Visit(s[Len(s) - n + 1], g[n - 1])
  BY <1>1, LoopsSolved
<1> DEFINE Held(n) == \E k : Progress(g[n], s, room, Len(s) - n, k)
           N == {n \in Nat : n <= Len(s) => Held(n)}
<1>3. 0 \in N
  <2>1. SubSeq(s, Len(s) + 1, Len(s)) = <<>>
    BY <1>1, SubSeqEmpty
  <2>2. g[0] = [kept |-> <<>>, room |-> room - 0, open |-> TRUE]
    BY <1>2 DEF Started
  <2>3. g[0].open = TRUE
    BY <2>2
  <2>4. Len(s) + 1 \in (Len(s) + 1)..(Len(s) + 1) /\ ~(Len(s) + 1 <= Len(s)) /\ Len(s) - 0 = Len(s)
    BY <1>1
  <2>5. Progress(g[0], s, room, Len(s), Len(s) + 1)
    BY <2>1, <2>2, <2>3, <2>4, CostEmpty DEF Progress
  <2> QED
    BY <2>4, <2>5
<1>4. ASSUME NEW n \in Nat, n \in N, n + 1 <= Len(s)
      PROVE  Held(n + 1)
  <2>1. /\ n <= Len(s) /\ n + 1 \in 1..Len(s) /\ Len(s) - n \in 1..Len(s)
        /\ Len(s) - (n + 1) + 1 = Len(s) - n /\ (Len(s) - n) - 1 = Len(s) - (n + 1) /\ (n + 1) - 1 = n
    BY <1>1, <1>4
  <2>2. PICK k : Progress(g[n], s, room, Len(s) - n, k)
    BY <1>4, <2>1
  <2>3. g[n + 1] = Visit(s[Len(s) - n], g[n])
    BY <1>2, <2>1
  <2>4. \E j : Progress(Visit(s[Len(s) - n], g[n]), s, room, (Len(s) - n) - 1, j)
    BY <2>1, <2>2, LoopTurn
  <2> QED
    BY <2>1, <2>3, <2>4
<1>5. \A n \in Nat : n \in N => n + 1 \in N
  <2> HIDE DEF Held
  <2> QED
    BY <1>4
<1>6. Nat \subseteq N
  <2> HIDE DEF N
  <2> QED
    BY <1>3, <1>5, NumberInduction
<1>7. Held(Len(s)) /\ Len(s) - Len(s) = 0
  <2> HIDE DEF Held
  <2> QED
    BY <1>1, <1>6
<1>8. PICK k : Progress(g[Len(s)], s, room, 0, k)
  BY <1>7
<1> QED
  BY <1>2, <1>8

(* What is kept is the suffix from which on the messages cost no more than the  *)
(* room, and no longer one does.                                            *)
LEMMA KeptFacts ==
    ASSUME NEW s \in Seq(Message), NEW room \in Int
    PROVE  \E k \in 1..(Len(s) + 1) :
              /\ KeptOf(s, room) = SubSeq(s, k, Len(s))
              /\ \A i \in 1..Len(s) : Cost(SubSeq(s, i, Len(s))) <= room <=> k <= i
<1>1. Len(s) \in Nat
  BY LenProperties
<1>2. PICK l, k : KeptOf(s, room) = l.kept /\ Progress(l, s, room, 0, k)
  BY KeptProgress
<1>3. k \in 1..(Len(s) + 1) /\ l.kept = SubSeq(s, k, Len(s))
  BY <1>1, <1>2 DEF Progress
<1>4. ASSUME NEW i \in 1..Len(s), k <= i
      PROVE  Cost(SubSeq(s, i, Len(s))) <= room
  <2>1. k <= Len(s) /\ k \in 1..(Len(s) + 1) /\ i \in k..(Len(s) + 1)
    BY <1>1, <1>3, <1>4
  <2>2. Cost(SubSeq(s, k, Len(s))) <= room
    BY <1>2, <2>1 DEF Progress
  <2>3. /\ Cost(SubSeq(s, k, Len(s))) \in Nat /\ Cost(SubSeq(s, i, Len(s))) \in Nat
        /\ Cost(SubSeq(s, i, Len(s))) <= Cost(SubSeq(s, k, Len(s)))
    BY <2>1, CostOfSuffix
  <2> QED
    BY <2>2, <2>3
<1>5. ASSUME NEW i \in 1..Len(s), ~(k <= i)
      PROVE  ~(Cost(SubSeq(s, i, Len(s))) <= room)
  <2>1. k # 1 /\ k - 1 \in 1..Len(s) /\ i \in 1..(Len(s) + 1) /\ k - 1 \in i..(Len(s) + 1)
    BY <1>1, <1>3, <1>5
  <2>2. Cost(SubSeq(s, k - 1, Len(s))) > room
    <3>1. 0 + 1 = 1
      OBVIOUS
    <3> QED
      BY <1>2, <2>1, <3>1 DEF Progress
  <2>3. /\ Cost(SubSeq(s, k - 1, Len(s))) \in Nat /\ Cost(SubSeq(s, i, Len(s))) \in Nat
        /\ Cost(SubSeq(s, k - 1, Len(s))) <= Cost(SubSeq(s, i, Len(s)))
    BY <2>1, CostOfSuffix
  <2> QED
    BY <2>2, <2>3
<1> QED
  BY <1>2, <1>3, <1>4, <1>5

-----------------------------------------------------------------------------
(* More about counts.                                                       *)
(* Two filters that share out the messages between them share out the count.    *)
LEMMA CountSplits ==
    ASSUME NEW S, S \subseteq Message, NEW s \in Seq(S), NEW T, NEW U,
           \A x \in S : x \in T <=> x \notin U
    PROVE  CountMessageTokens(Filter(s, T)) + CountMessageTokens(Filter(s, U))
             = CountMessageTokens(s) + 2
<1> DEFINE Right(v) == CountMessageTokens(Filter(v, T)) + CountMessageTokens(Filter(v, U))
                         = CountMessageTokens(v) + 2
           W == {v \in Seq(S) : Right(v)}
<1>1. <<>> \in W
  BY FilterEmpty, EmptySeq, CountEmpty
<1>2. ASSUME NEW v \in Seq(S), NEW x \in S, v \in W
      PROVE  Append(v, x) \in W
  <2>1. /\ Append(v, x) \in Seq(S) /\ v \in Seq(Message) /\ x \in Message
        /\ Filter(v, T) \in Seq(Message) /\ Filter(v, U) \in Seq(Message)
    BY AppendProperties, FilterTyped, SeqMonotonic
  <2>2. /\ Filter(Append(v, x), T) = IF x \in T THEN Append(Filter(v, T), x) ELSE Filter(v, T)
        /\ Filter(Append(v, x), U) = IF x \in U THEN Append(Filter(v, U), x) ELSE Filter(v, U)
    BY FilterAppend
  <2>3. PICK a, b, c, d : /\ a = CountMessageTokens(Filter(v, T)) /\ b = CountMessageTokens(Filter(v, U))
                          /\ c = CountMessageTokens(v) /\ d = x.tokens
    OBVIOUS
  <2>4. /\ a \in Nat /\ b \in Nat /\ c \in Nat /\ d \in Nat
        /\ CountMessageTokens(Append(v, x)) = c + 4 + d
        /\ CountMessageTokens(Append(Filter(v, T), x)) = a + 4 + d
        /\ CountMessageTokens(Append(Filter(v, U), x)) = b + 4 + d
    <3>1. \A w \in Seq(Message) :
             CountMessageTokens(w) \in Nat
             /\ CountMessageTokens(Append(w, x)) = CountMessageTokens(w) + 4 + x.tokens
      BY <2>1, CountAppend
    <3>2. d \in Nat
      BY <2>1, <2>3 DEF Message
    <3> QED
      BY <2>1, <2>3, <3>1, <3>2
  <2>5. a + b = c + 2
    BY <1>2, <2>3
  <2>6. Right(Append(v, x))
    <3>1. CASE x \in T
      <4>1. Filter(Append(v, x), T) = Append(Filter(v, T), x) /\ Filter(Append(v, x), U) = Filter(v, U)
        BY <2>2, <3>1
      <4>2. (a + 4 + d) + b = (c + 4 + d) + 2
        BY <2>4, <2>5
      <4> QED
        BY <2>3, <2>4, <4>1, <4>2
    <3>2. CASE x \notin T
      <4>1. Filter(Append(v, x), T) = Filter(v, T) /\ Filter(Append(v, x), U) = Append(Filter(v, U), x)
        BY <2>2, <3>2
      <4>2. a + (b + 4 + d) = (c + 4 + d) + 2
        BY <2>4, <2>5
      <4> QED
        BY <2>3, <2>4, <4>1, <4>2
    <3> QED
      BY <3>1, <3>2
  <2> QED
    BY <2>1, <2>6
<1>3. Seq(S) \subseteq W
  <2> HIDE DEF W
  <2> QED
    BY <1>1, <1>2, AppendInduction
<1> QED
  BY <1>3

(* What the messages of a sequence take of the budget, those of A counted and   *)
(* those of B charged.                                                      *)
Weight(s, A, B) == CountMessageTokens(Filter(s, A)) + Cost(Filter(s, B))

LEMMA WeightAppend ==
    ASSUME NEW S, S \subseteq Message, NEW v \in Seq(S), NEW x \in S,
           NEW A, NEW B, x \in A <=> x \notin B
    PROVE  /\ Weight(v, A, B) \in Nat /\ x.tokens \in Nat
           /\ x \in A => Weight(Append(v, x), A, B) = Weight(v, A, B) + 4 + x.tokens
           /\ x \notin A => Weight(Append(v, x), A, B) = Weight(v, A, B) + 6 + x.tokens
<1>1. /\ x \in Message /\ v \in Seq(Message)
      /\ Filter(v, A) \in Seq(Message) /\ Filter(v, B) \in Seq(Message)
  BY FilterTyped, SeqMonotonic
<1>2. /\ Filter(Append(v, x), A) = IF x \in A THEN Append(Filter(v, A), x) ELSE Filter(v, A)
      /\ Filter(Append(v, x), B) = IF x \in B THEN Append(Filter(v, B), x) ELSE Filter(v, B)
  BY FilterAppend
<1>3. PICK p, q : p = Filter(v, A) /\ q = Filter(v, B)
  OBVIOUS
<1>4. PICK a, b, d : a = CountMessageTokens(p) /\ b = Cost(q) /\ d = x.tokens
  OBVIOUS
<1>5. p \in Seq(Message) /\ q \in Seq(Message) /\ d \in Nat
  BY <1>1, <1>3, <1>4 DEF Message
<1>6. a \in Nat /\ CountMessageTokens(Append(p, x)) = a + 4 + d
  BY <1>1, <1>4, <1>5, CountAppend
<1>7. b \in Nat /\ Cost(Append(q, x)) = b + 6 + d
  <2>1. Append(q, x) = q \o <<x>>
    BY <1>1, <1>5, AppendIsConcat
  <2>2. <<x>> \in Seq(Message) /\ Cost(<<x>>) = 6 + x.tokens
    BY <1>1, CountOne
  <2>3. Cost(q) \in Nat /\ Cost(q \o <<x>>) = Cost(q) + Cost(<<x>>)
    BY <1>5, <2>2, CostConcat
  <2>4. Cost(q \o <<x>>) = b + (6 + d)
    BY <1>4, <2>2, <2>3
  <2>5. b \in Nat /\ b + (6 + d) = b + 6 + d
    <3>1. b \in Nat
      BY <1>4, <2>3
    <3> QED
      BY <1>5, <3>1
  <2> QED
    BY <2>1, <2>4, <2>5
<1>8. Weight(v, A, B) = a + b
  BY <1>3, <1>4 DEF Weight
<1>9. CASE x \in A
  <2>1. Filter(Append(v, x), A) = Append(p, x) /\ Filter(Append(v, x), B) = q
    BY <1>2, <1>3, <1>9
  <2>2. Weight(Append(v, x), A, B) = (a + 4 + d) + b
    BY <1>4, <1>6, <2>1 DEF Weight
  <2>3. (a + 4 + d) + b = (a + b) + 4 + d /\ a + b \in Nat
    BY <1>5, <1>6, <1>7
  <2>4. Weight(Append(v, x), A, B) = Weight(v, A, B) + 4 + x.tokens
    BY <1>4, <1>8, <2>2, <2>3
  <2>5. Weight(v, A, B) \in Nat /\ x.tokens \in Nat
    BY <1>4, <1>5, <1>8, <2>3
  <2> QED
    BY <1>9, <2>4, <2>5
<1>10. CASE x \notin A
  <2>1. Filter(Append(v, x), A) = p /\ Filter(Append(v, x), B) = Append(q, x)
    BY <1>2, <1>3, <1>10
  <2>2. Weight(Append(v, x), A, B) = a + (b + 6 + d)
    BY <1>4, <1>7, <2>1 DEF Weight
  <2>3. a + (b + 6 + d) = (a + b) + 6 + d /\ a + b \in Nat
    BY <1>5, <1>6, <1>7
  <2>4. Weight(Append(v, x), A, B) = Weight(v, A, B) + 6 + x.tokens
    BY <1>4, <1>8, <2>2, <2>3
  <2>5. Weight(v, A, B) \in Nat /\ x.tokens \in Nat
    BY <1>4, <1>5, <1>8, <2>3
  <2> QED
    BY <1>10, <2>4, <2>5
<1> QED
  BY <1>9, <1>10

(* Charging more of the messages as removable ones costs no less.              *)
LEMMA WeightGrows ==
    ASSUME NEW S, S \subseteq Message, NEW s \in Seq(S), NEW T, NEW U, NEW T2, NEW U2,
           \A x \in S : x \in T <=> x \notin U,
           \A x \in S : x \in T2 <=> x \notin U2,
           \A x \in S : x \in T2 => x \in T
    PROVE  Weight(s, T, U) <= Weight(s, T2, U2)
<1> DEFINE W == {v \in Seq(S) : Weight(v, T, U) <= Weight(v, T2, U2)}
<1>1. <<>> \in W
  <2>1. Weight(<<>>, T, U) = 2 /\ Weight(<<>>, T2, U2) = 2
    BY FilterEmpty, CountEmpty, CostEmpty DEF Weight
  <2> QED
    BY <2>1, EmptySeq
<1>2. ASSUME NEW v \in Seq(S), NEW x \in S, v \in W
      PROVE  Append(v, x) \in W
  <2>1. /\ Weight(v, T, U) \in Nat /\ x.tokens \in Nat
        /\ x \in T => Weight(Append(v, x), T, U) = Weight(v, T, U) + 4 + x.tokens
        /\ x \notin T => Weight(Append(v, x), T, U) = Weight(v, T, U) + 6 + x.tokens
    BY WeightAppend
  <2>2. /\ Weight(v, T2, U2) \in Nat
        /\ x \in T2 => Weight(Append(v, x), T2, U2) = Weight(v, T2, U2) + 4 + x.tokens
        /\ x \notin T2 => Weight(Append(v, x), T2, U2) = Weight(v, T2, U2) + 6 + x.tokens
    BY WeightAppend
  <2>3. Weight(v, T, U) <= Weight(v, T2, U2) /\ (x \in T2 => x \in T)
    BY <1>2
  <2>4. Weight(Append(v, x), T, U) <= Weight(Append(v, x), T2, U2)
    BY <2>1, <2>2, <2>3
  <2> QED
    BY <2>4, AppendProperties
<1>3. Seq(S) \subseteq W
  <2> HIDE DEF W
  <2> QED
    BY <1>1, <1>2, AppendInduction
<1> QED
  BY <1>3

-----------------------------------------------------------------------------
(* What truncate_messages returns.                                           *)
ParametersTyped == budget \in Int /\ preserve_system \in BOOLEAN /\ preserve_last \in BOOLEAN

LEMMA PartsFacts ==
    ASSUME ParametersTyped, NEW ms \in Seq(Message)
    PROVE  /\ ProtectedOf(ms) \in Seq(Message) /\ RemovableOf(ms) \in Seq(Message)
           /\ Range(ProtectedOf(ms)) = Protected(ms)
           /\ Range(RemovableOf(ms)) = Range(ms) \ Protected(ms)
           /\ Protected(ms) \subseteq Range(ms) /\ Range(ms) \subseteq Message
           /\ CountMessageTokens(ProtectedOf(ms)) \in Nat /\ Room(ms) \in Int
<1>1. Protected(ms) \subseteq Range(ms)
  BY DEF Protected
<1>2. ProtectedOf(ms) \in Seq(Message) /\ RemovableOf(ms) \in Seq(Message)
  BY FilterTyped DEF ProtectedOf, RemovableOf
<1>3. /\ Range(ProtectedOf(ms)) = Range(ms) \cap Protected(ms)
      /\ Range(RemovableOf(ms)) = Range(ms) \cap (Range(ms) \ Protected(ms))
  BY FilterRange DEF ProtectedOf, RemovableOf
<1>4. CountMessageTokens(ProtectedOf(ms)) \in Nat
  BY <1>2, CountTyped
<1>5. Room(ms) \in Int
  BY <1>4 DEF Room, ParametersTyped
<1>6. Range(ms) \subseteq Message
  BY OwnRange
<1> QED
  BY <1>1, <1>2, <1>3, <1>4, <1>5, <1>6

(* Over the budget, the result is the protected messages and the kept ones.    *)
LEMMA TruncatedFacts ==
    ASSUME ParametersTyped, NEW ms \in Seq(Message), ms # <<>>, ~(CountMessageTokens(ms) <= budget),
           NEW kept, kept = KeptOf(RemovableOf(ms), Room(ms)), kept \in Seq(Message),
           Range(kept) \subseteq Range(ms) \ Protected(ms)
    PROVE  /\ Range(Truncated(ms)) = Protected(ms) \cup Range(kept)
           /\ Filter(Truncated(ms), Range(Truncated(ms)) \ Protected(ms)) = kept
           /\ CountMessageTokens(Truncated(ms))
                = CountMessageTokens(ProtectedOf(ms)) + CountMessageTokens(kept) - 2
<1> DEFINE system == {m \in Range(ms) : IsSystem(m)}
           others == Range(ms) \ system
           p == ProtectedOf(ms)
           a == Filter(p, system)
           b == Filter(p, others)
           t == a \o kept \o b
           R == Range(t) \ Protected(ms)
<1>1. /\ p \in Seq(Message) /\ Range(p) = Protected(ms) /\ Protected(ms) \subseteq Range(ms)
      /\ Range(ms) \subseteq Message
  BY PartsFacts
<1>2. Truncated(ms) = t
  BY DEF Truncated
<1>3. \A x \in Range(p) : x \in system <=> x \notin others
  BY <1>1
<1> HIDE DEF system, others, p
<1>4. p \in Seq(Range(p)) /\ Range(p) \subseteq Message
  BY <1>1, OwnRange
<1>5. /\ a \in Seq(Message) /\ b \in Seq(Message)
      /\ Range(a) = Range(p) \cap system /\ Range(b) = Range(p) \cap others
  BY <1>1, FilterTyped, FilterRange
<1>6. CountMessageTokens(a) + CountMessageTokens(b) = CountMessageTokens(p) + 2
  BY <1>3, <1>4, CountSplits
<1>7. Range(a) \cup Range(b) = Protected(ms)
  BY <1>1, <1>3, <1>5
<1> HIDE DEF a, b
<1>8. a \o kept \in Seq(Message) /\ t \in Seq(Message)
  BY <1>5, ConcatProperties
<1>9. Range(a \o kept) = Range(a) \cup Range(kept)
  BY <1>5, ConcatRange
<1>10. Range(t) = Range(a \o kept) \cup Range(b)
  <2>1. \A w \in Seq(Message) : Range(w \o b) = Range(w) \cup Range(b)
    BY <1>5, ConcatRange
  <2> QED
    BY <1>8, <2>1
<1>11. Range(t) = Protected(ms) \cup Range(kept)
  BY <1>7, <1>9, <1>10
<1>12. CountMessageTokens(t) = CountMessageTokens(p) + CountMessageTokens(kept) - 2
  <2>1. \A u, v \in Seq(Message) :
           /\ CountMessageTokens(u) \in Nat
           /\ CountMessageTokens(u \o v) = CountMessageTokens(u) + CountMessageTokens(v) - 2
    BY CountConcat, CountTyped
  <2>2. PICK i, j, k, l : /\ i = CountMessageTokens(a) /\ j = CountMessageTokens(b)
                          /\ k = CountMessageTokens(kept) /\ l = CountMessageTokens(p)
    OBVIOUS
  <2>3. i \in Nat /\ j \in Nat /\ k \in Nat /\ l \in Nat /\ i + j = l + 2
    BY <1>1, <1>5, <1>6, <2>1, <2>2
  <2>4. CountMessageTokens(a \o kept) = i + k - 2
    BY <1>5, <2>1, <2>2
  <2>5. CountMessageTokens(t) = CountMessageTokens(a \o kept) + j - 2
    BY <1>5, <1>8, <2>1, <2>2
  <2>6. CountMessageTokens(t) = (i + k - 2) + j - 2
    BY <2>4, <2>5
  <2>7. (i + k - 2) + j - 2 = l + k - 2
    BY <2>3
  <2> QED
    BY <2>2, <2>6, <2>7
<1>13. Filter(t, R) = kept
  <2>1. /\ a \in Seq(Range(a)) /\ b \in Seq(Range(b)) /\ kept \in Seq(Range(kept))
    BY <1>5, OwnRange
  <2>2. /\ Range(a) \cap R = {} /\ Range(b) \cap R = {} /\ Range(kept) \subseteq R
    BY <1>7, <1>11
  <2> HIDE DEF R
  <2>3. Filter(a, R) = <<>> /\ Filter(b, R) = <<>> /\ Filter(kept, R) = kept
    BY <2>1, <2>2, FilterNone, FilterAll
  <2>4. \A u, v \in Seq(Message) : Filter(u \o v, R) = Filter(u, R) \o Filter(v, R)
    BY FilterConcat
  <2>5. Filter(t, R) = Filter(a \o kept, R) \o Filter(b, R) /\ Filter(a \o kept, R) = Filter(a, R) \o Filter(kept, R)
    BY <1>5, <1>8, <2>4
  <2>6. <<>> \o kept = kept /\ kept \o <<>> = kept
    BY ConcatEmptySeq
  <2> QED
    BY <2>3, <2>5, <2>6
<1> HIDE DEF t
<1> QED
  BY <1>2, <1>11, <1>12, <1>13 DEF R, p

(* The kept messages, as the suffix of the removable ones that they are.       *)
LEMMA KeptOfRemovable ==
    ASSUME ParametersTyped, NEW ms \in Seq(Message)
    PROVE  \E k \in 1..(Len(RemovableOf(ms)) + 1) :
              LET removable == RemovableOf(ms)
                  kept == KeptOf(removable, Room(ms))
              IN  /\ kept = SubSeq(removable, k, Len(removable))
                  /\ kept \in Seq(Message)
                  /\ Range(kept) = {removable[i] : i \in k..Len(removable)}
                  /\ Range(kept) \subseteq Range(ms) \ Protected(ms)
                  /\ \A i \in 1..Len(removable) :
                        Cost(SubSeq(removable, i, Len(removable))) <= Room(ms) <=> k <= i
<1> DEFINE s == RemovableOf(ms)
           room == Room(ms)
<1>1. s \in Seq(Message) /\ room \in Int /\ Range(s) = Range(ms) \ Protected(ms)
  BY PartsFacts
<1> HIDE DEF s, room
<1>2. Len(s) \in Nat /\ DOMAIN s = 1..Len(s)
  BY <1>1, LenProperties
<1>3. PICK k \in 1..(Len(s) + 1) :
         /\ KeptOf(s, room) = SubSeq(s, k, Len(s))
         /\ \A i \in 1..Len(s) : Cost(SubSeq(s, i, Len(s))) <= room <=> k <= i
  BY <1>1, KeptFacts
<1>4. SubSeq(s, k, Len(s)) \in Seq(Message)
  <2>1. k \in k..(Len(s) + 1)
    BY <1>2, <1>3
  <2> QED
    BY <1>1, <1>3, <2>1, CostOfSuffix
<1>5. Range(SubSeq(s, k, Len(s))) = {s[i] : i \in k..Len(s)}
  BY <1>1, <1>3, SuffixRange
<1>6. {s[i] : i \in k..Len(s)} \subseteq Range(s)
  <2>1. \A i \in k..Len(s) : i \in DOMAIN s
    BY <1>2, <1>3
  <2> QED
    BY <2>1 DEF Range
<1>7. Range(KeptOf(s, room)) \subseteq Range(ms) \ Protected(ms)
  BY <1>1, <1>3, <1>5, <1>6
<1> QED
  BY <1>3, <1>4, <1>5, <1>7 DEF s, room

-----------------------------------------------------------------------------
(* The inductive invariant: every message is numbered by its position.        *)
Numbered(ms) == ms \in Seq(Message) /\ \A i \in 1..Len(ms) : ms[i].number = i

Conversation == ParametersTyped /\ Numbered(messages)

LEMMA SayNumbers ==
    ASSUME NEW ms, Numbered(ms), NEW role \in Roles, NEW tokens \in Nat
    PROVE  LET m == [role |-> role, tokens |-> tokens, number |-> Len(ms) + 1]
           IN  m \in Message /\ Numbered(Append(ms, m))
<1> DEFINE m == [role |-> role, tokens |-> tokens, number |-> Len(ms) + 1]
<1>1. ms \in Seq(Message) /\ Len(ms) \in Nat
  BY LenProperties DEF Numbered
<1>2. m \in Message /\ m.number = Len(ms) + 1
  BY <1>1 DEF Message
<1> HIDE DEF m
<1>3. /\ Append(ms, m) \in Seq(Message) /\ Len(Append(ms, m)) = Len(ms) + 1
      /\ \A i \in 1..Len(ms) : Append(ms, m)[i] = ms[i]
      /\ Append(ms, m)[Len(ms) + 1] = m
  BY <1>1, <1>2, AppendProperties
<1>4. \A i \in 1..(Len(ms) + 1) : i = Len(ms) + 1 \/ i \in 1..Len(ms)
  BY <1>1
<1>5. \A i \in 1..Len(Append(ms, m)) : Append(ms, m)[i].number = i
  BY <1>2, <1>3, <1>4 DEF Numbered
<1> QED
  BY <1>2, <1>3, <1>5 DEF Numbered, m

LEMMA ConversationStays == TruncationSpec => []Conversation
<1>1. TruncationInit => Conversation
  <2> SUFFICES ASSUME TruncationInit PROVE Conversation
    OBVIOUS
  <2>1. ParametersTyped
    BY SizesAssumption DEF TruncationInit, ParametersTyped
  <2>2. Numbered(messages)
    <3>1. messages = <<>> /\ Len(messages) = 0
      BY DEF TruncationInit
    <3> QED
      BY <3>1, EmptySeq DEF Numbered
  <2> QED
    BY <2>1, <2>2 DEF Conversation
<1>2. Conversation /\ [TruncationNext]_truncationVars => Conversation'
  <2> SUFFICES ASSUME Conversation, [TruncationNext]_truncationVars PROVE Conversation'
    OBVIOUS
  <2>1. CASE TruncationNext
    <3>1. PICK role \in Roles, tokens \in Sizes : Say(role, tokens)
      BY <2>1 DEF TruncationNext
    <3>2. ParametersTyped'
      BY <3>1 DEF Say, Conversation, ParametersTyped
    <3>3. tokens \in Nat
      BY SizesAssumption
    <3>4. Numbered(messages')
      BY <3>1, <3>3, SayNumbers DEF Say, Conversation
    <3> QED
      BY <3>2, <3>4 DEF Conversation, Numbered
  <2>2. CASE UNCHANGED truncationVars
    BY <2>2 DEF truncationVars, Conversation, Numbered, ParametersTyped
  <2> QED
    BY <2>1, <2>2
<1> QED
  BY <1>1, <1>2, PTL DEF TruncationSpec

(* truncate_messages keeps, of the messages it may remove, exactly the longest  *)
(* recent part that fits: the loop that goes backwards and stops at the first   *)
(* that does not fit computes what the declarative reference says.            *)
THEOREM LongestRecentPartKept == TruncationSpec => []LongestSuffixKept
<1>1. Conversation => LongestSuffixKept
  <2> SUFFICES ASSUME Conversation, CountMessageTokens(messages) > budget
               PROVE  LongestSuffixKept
    BY DEF LongestSuffixKept
  <2> DEFINE s == RemovableOf(messages)
             room == Room(messages)
             From(i) == SubSeq(s, i, Len(s))
             starts == {i \in DOMAIN s : Cost(From(i)) <= room}
  <2>1. messages \in Seq(Message) /\ ParametersTyped /\ CountMessageTokens(messages) \in Nat
        /\ budget \in Int
    BY CountTyped DEF Conversation, Numbered, ParametersTyped
  <2>2. Len(s) \in Nat /\ DOMAIN s = 1..Len(s)
    BY <2>1, PartsFacts, LenProperties
  <2>3. PICK k \in 1..(Len(s) + 1) :
           /\ KeptOf(s, room) = From(k) /\ KeptOf(s, room) \in Seq(Message)
           /\ Range(KeptOf(s, room)) \subseteq Range(messages) \ Protected(messages)
           /\ \A i \in 1..Len(s) : Cost(From(i)) <= room <=> k <= i
    BY <2>1, KeptOfRemovable
  <2>4. Filter(Truncated(messages), Range(Truncated(messages)) \ Protected(messages))
          = IF starts = {} THEN <<>> ELSE From(Min(starts))
    <3>1. CASE messages = <<>>
      <4>1. Truncated(messages) = <<>> /\ s = <<>> /\ DOMAIN s = {}
        <5>1. s = <<>>
          BY <3>1, FilterEmpty DEF RemovableOf
        <5> HIDE DEF s
        <5> QED
          BY <3>1, <5>1 DEF Truncated
      <4>2. starts = {}
        BY <4>1
      <4> HIDE DEF starts
      <4> QED
        BY <4>1, <4>2, FilterEmpty
    <3>2. CASE messages # <<>>
      <4>1. ~(CountMessageTokens(messages) <= budget)
        BY <2>1
      <4>2. Filter(Truncated(messages), Range(Truncated(messages)) \ Protected(messages)) = From(k)
        BY <2>1, <2>3, <3>2, <4>1, TruncatedFacts
      <4>3. starts = {i \in 1..Len(s) : k <= i}
        BY <2>2, <2>3
      <4> HIDE DEF s, starts
      <4>4. CASE k = Len(s) + 1
        <5>1. starts = {}
          BY <2>2, <4>3, <4>4
        <5>2. From(k) = <<>>
          <6>1. k \in Int /\ Len(s) \in Int /\ Len(s) < k
            BY <2>2, <4>4
          <6> QED
            BY <6>1, SubSeqEmpty
        <5> HIDE DEF From
        <5> QED
          BY <4>2, <5>1, <5>2
      <4>5. CASE k # Len(s) + 1
        <5>1. k \in starts /\ \A i \in starts : k <= i
          BY <2>2, <2>3, <4>3, <4>5
        <5>2. starts \subseteq Nat /\ starts # {}
          BY <2>2, <4>3, <5>1
        <5>3. Min(starts) \in starts /\ \A i \in starts : Min(starts) <= i
          BY <5>2, LeastNumber DEF Min
        <5>4. Min(starts) = k
          <6>1. PICK n : n = Min(starts)
            OBVIOUS
          <6>2. n \in Nat /\ k \in Nat /\ n <= k /\ k <= n
            BY <5>1, <5>2, <5>3, <6>1
          <6>3. n = k
            BY <6>2
          <6> QED
            BY <6>1, <6>3
        <5> HIDE DEF From
        <5> QED
          BY <4>2, <5>2, <5>4
      <4> QED
        BY <4>4, <4>5
    <3> QED
      BY <3>1, <3>2
  <2> QED
    BY <2>4 DEF LongestSuffixKept, Cost
<1> QED
  BY <1>1, ConversationStays, PTL

(* The result of truncate_messages is within max_tokens whenever the messages   *)
(* it must keep are: no room is spent twice between them and the others.      *)
THEOREM TruncationFits == TruncationSpec => []FitsWhenProtectedFit
<1>1. Conversation => FitsWhenProtectedFit
  <2> SUFFICES ASSUME Conversation, CountMessageTokens(ProtectedOf(messages)) <= budget
               PROVE  CountMessageTokens(Truncated(messages)) <= budget
    BY DEF FitsWhenProtectedFit
  <2> DEFINE s == RemovableOf(messages)
             room == Room(messages)
             kept == KeptOf(s, room)
             p == ProtectedOf(messages)
  <2>1. messages \in Seq(Message) /\ ParametersTyped /\ budget \in Int
    BY DEF Conversation, Numbered, ParametersTyped
  <2>2. Len(s) \in Nat /\ CountMessageTokens(p) \in Nat
    BY <2>1, PartsFacts, LenProperties
  <2>3. PICK k \in 1..(Len(s) + 1) :
           /\ kept = SubSeq(s, k, Len(s)) /\ kept \in Seq(Message)
           /\ Range(kept) \subseteq Range(messages) \ Protected(messages)
           /\ \A i \in 1..Len(s) : Cost(SubSeq(s, i, Len(s))) <= room <=> k <= i
    BY <2>1, KeptOfRemovable
  <2>4. CASE messages = <<>>
    <3>1. Truncated(messages) = <<>> /\ p = <<>>
      BY <2>4, FilterEmpty DEF Truncated, ProtectedOf
    <3> QED
      BY <3>1
  <2>5. CASE CountMessageTokens(messages) <= budget
    BY <2>5 DEF Truncated
  <2>6. CASE messages # <<>> /\ ~(CountMessageTokens(messages) <= budget)
    <3>1. CountMessageTokens(Truncated(messages)) = CountMessageTokens(p) + CountMessageTokens(kept) - 2
      BY <2>1, <2>3, <2>6, TruncatedFacts
    <3>2. room = budget - CountMessageTokens(p) /\ CountMessageTokens(p) <= budget
      BY DEF Room
    <3> HIDE DEF s, room, p, kept
    <3>3. CountMessageTokens(kept) - 2 <= room /\ CountMessageTokens(kept) \in Nat
      <4>1. CASE k = Len(s) + 1
        <5>1. kept = <<>>
          <6>1. k \in Int /\ Len(s) \in Int /\ Len(s) < k
            BY <2>2, <4>1
          <6> QED
            BY <2>3, <6>1, SubSeqEmpty
        <5>2. CountMessageTokens(kept) = 2
          BY <5>1, CountEmpty
        <5> QED
          BY <2>1, <2>2, <3>2, <5>2
      <4>2. CASE k # Len(s) + 1
        <5>1. k \in 1..Len(s) /\ k <= k
          BY <2>2, <2>3, <4>2
        <5>2. Cost(kept) <= room
          BY <2>3, <5>1
        <5>3. Len(kept) \in Nat /\ CountMessageTokens(kept) \in Nat
          BY <2>3, LenProperties, CountTyped
        <5>4. room \in Int
          BY <2>1, <2>2, <3>2
        <5>5. CountMessageTokens(kept) - 2 + 2 * Len(kept) <= room
          BY <5>2 DEF Cost
        <5>6. PICK n, l : n = CountMessageTokens(kept) /\ l = Len(kept)
          OBVIOUS
        <5>7. n \in Nat /\ l \in Nat /\ n - 2 + 2 * l <= room
          BY <5>3, <5>5, <5>6
        <5>8. n - 2 <= room
          BY <5>4, <5>7
        <5>9. CountMessageTokens(kept) - 2 <= room
          BY <5>6, <5>8
        <5> QED
          BY <5>3, <5>9
      <4> QED
        BY <4>1, <4>2
    <3> QED
      BY <2>1, <2>2, <3>1, <3>2, <3>3
  <2> QED
    BY <2>4, <2>5, <2>6
<1> QED
  BY <1>1, ConversationStays, PTL

-----------------------------------------------------------------------------
(* What truncation forgets.                                                  *)

(* The budget at which the ith message could be kept: the protected messages    *)
(* counted, and it and the removable ones after it charged.                  *)
Need(ms, i) ==
    CountMessageTokens(ProtectedOf(ms))
    + Cost(<<ms[i]>> \o Filter(SubSeq(ms, i + 1, Len(ms)), Range(ms) \ Protected(ms)))

LEMMA ForgottenWhen ==
    ASSUME ParametersTyped, NEW ms, Numbered(ms), NEW i \in 1..Len(ms)
    PROVE  ms[i] \notin Range(Truncated(ms)) <=>
               /\ ~(CountMessageTokens(ms) <= budget)
               /\ ms[i] \notin Protected(ms)
               /\ ~(Need(ms, i) <= budget)
<1> DEFINE x == ms[i]
           R == Range(ms) \ Protected(ms)
           u == SubSeq(ms, 1, i - 1)
           v == SubSeq(ms, i + 1, Len(ms))
           s == RemovableOf(ms)
           rest == Filter(v, R)
           before == Filter(u, R)
           kept == KeptOf(s, Room(ms))
           n == Len(before) + 1
<1>1. /\ ms \in Seq(Message) /\ Len(ms) \in Nat /\ x \in Range(ms) /\ i \in Nat
      /\ DOMAIN ms = 1..Len(ms) /\ \A j \in 1..Len(ms) : ms[j].number = j
  <2>1. ms \in Seq(Message) /\ \A j \in 1..Len(ms) : ms[j].number = j
    BY DEF Numbered
  <2>2. Len(ms) \in Nat /\ DOMAIN ms = 1..Len(ms) /\ x \in Range(ms)
    BY <2>1, OwnRange
  <2> QED
    BY <2>1, <2>2
<1>2. ms # <<>>
  <2>1. Len(<<>>) = 0
    OBVIOUS
  <2> QED
    BY <1>1, <2>1
<1>3. CASE CountMessageTokens(ms) <= budget
  <2>1. Truncated(ms) = ms
    BY <1>3 DEF Truncated
  <2> QED
    BY <1>1, <1>3, <2>1
<1>4. CASE ~(CountMessageTokens(ms) <= budget)
  <2>1. PICK k \in 1..(Len(s) + 1) :
           /\ kept \in Seq(Message) /\ Range(kept) = {s[j] : j \in k..Len(s)}
           /\ Range(kept) \subseteq Range(ms) \ Protected(ms)
           /\ \A j \in 1..Len(s) : Cost(SubSeq(s, j, Len(s))) <= Room(ms) <=> k <= j
    BY <1>1, KeptOfRemovable
  <2>2. Range(Truncated(ms)) = Protected(ms) \cup Range(kept)
    BY <1>1, <1>2, <1>4, <2>1, TruncatedFacts
  <2>3. CASE x \in Protected(ms)
    BY <2>2, <2>3
  <2>4. CASE x \notin Protected(ms)
    <3>1. /\ u \in Seq(Message) /\ v \in Seq(Message) /\ x \in Message /\ <<x>> \in Seq(Message)
          /\ ms = u \o (<<x>> \o v)
      BY <1>1, AroundElement
    <3>2. s = before \o (<<x>> \o rest)
      <4>1. s = Filter(ms, R) /\ x \in R
        BY <1>1, <2>4 DEF RemovableOf
      <4> HIDE DEF R, x, u, v, s
      <4>2. \A a, b \in Seq(Message) : a \o b \in Seq(Message)
        BY ConcatProperties
      <4>3. \A a, b \in Seq(Message) : Filter(a \o b, R) = Filter(a, R) \o Filter(b, R)
        BY FilterConcat
      <4>4. Filter(<<x>>, R) = <<x>>
        <5>1. PICK S, w : S = {x} /\ w = <<x>>
          OBVIOUS
        <5>2. w \in Seq(S) /\ S \subseteq R
          BY <4>1, <5>1
        <5>3. Filter(w, R) = w
          BY <5>2, FilterAll
        <5> QED
          BY <5>1, <5>3
      <4>5. <<x>> \o v \in Seq(Message) /\ Filter(<<x>> \o v, R) = Filter(<<x>>, R) \o Filter(v, R)
        BY <3>1, <4>2, <4>3
      <4>6. Filter(u \o (<<x>> \o v), R) = Filter(u, R) \o Filter(<<x>> \o v, R)
        BY <3>1, <4>3, <4>5
      <4> QED
        BY <3>1, <4>4, <4>1, <4>5, <4>6
    <3>3. /\ before \in Seq(Message) /\ rest \in Seq(Message)
          /\ Range(rest) \subseteq Range(v)
      BY <3>1, FilterTyped, FilterRange
    <3>4. Range(v) = {ms[j] : j \in (i + 1)..Len(ms)}
      <4>1. i + 1 \in 1..(Len(ms) + 1)
        BY <1>1
      <4> QED
        BY <1>1, <4>1, SuffixRange
    <3>5. x \notin Range(rest)
      <4>1. \A j \in (i + 1)..Len(ms) : ms[j].number # x.number
        BY <1>1
      <4> QED
        BY <3>3, <3>4, <4>1
    <3>6. Need(ms, i) = CountMessageTokens(ProtectedOf(ms)) + Cost(<<x>> \o rest)
      BY DEF Need
    <3>7. s \in Seq(Message) /\ Room(ms) = budget - CountMessageTokens(ProtectedOf(ms))
          /\ CountMessageTokens(ProtectedOf(ms)) \in Nat /\ budget \in Int
      BY <1>1, PartsFacts DEF Room, ParametersTyped
    <3> HIDE DEF x, R, u, v, s, rest, before, kept
    <3>8. <<x>> \o rest \in Seq(Message) /\ before \o <<x>> \in Seq(Message)
          /\ Len(<<x>> \o rest) = Len(rest) + 1 /\ Len(before \o <<x>>) = Len(before) + 1
          /\ Len(rest) \in Nat /\ Len(before) \in Nat
      <4>1. Len(<<x>>) = 1
        OBVIOUS
      <4>2. \A a, b \in Seq(Message) : a \o b \in Seq(Message) /\ Len(a \o b) = Len(a) + Len(b)
                                      /\ Len(a) \in Nat /\ Len(b) \in Nat
        BY ConcatProperties, LenProperties
      <4>3. Len(rest) \in Nat /\ Len(before) \in Nat
        BY <3>3, <4>2
      <4>4. <<x>> \o rest \in Seq(Message) /\ Len(<<x>> \o rest) = 1 + Len(rest)
        BY <3>1, <3>3, <4>1, <4>2
      <4>5. before \o <<x>> \in Seq(Message) /\ Len(before \o <<x>>) = Len(before) + 1
        BY <3>1, <3>3, <4>1, <4>2
      <4> QED
        BY <4>3, <4>4, <4>5
    <3>9. SubSeq(s, n, Len(s)) = <<x>> \o rest
      BY <3>2, <3>3, <3>8, SuffixOfConcat
    <3>10. SubSeq(s, n + 1, Len(s)) = rest
      <4>1. s = (before \o <<x>>) \o rest
        <5>1. PICK w : w = <<x>>
          OBVIOUS
        <5>2. (before \o w) \o rest = before \o (w \o rest)
          <6>1. w \in Seq(Message) /\ before \in Seq(Message) /\ rest \in Seq(Message)
            BY <3>1, <3>3, <5>1
          <6> HIDE DEF n
          <6> QED
            BY ONLY <6>1, ConcatAssociative, SMTT(60)
        <5> QED
          BY <3>2, <5>1, <5>2
      <4>2. SubSeq((before \o <<x>>) \o rest, Len(before \o <<x>>) + 1, Len((before \o <<x>>) \o rest)) = rest
        <5>1. \A a, b \in Seq(Message) : SubSeq(a \o b, Len(a) + 1, Len(a \o b)) = b
          BY SuffixOfConcat
        <5> QED
          BY <3>3, <3>8, <5>1
      <4>3. Len(before \o <<x>>) + 1 = n + 1
        BY <3>8
      <4> QED
        BY <4>1, <4>2, <4>3
    <3>11. Len(s) = Len(before) + (Len(rest) + 1)
      <4>1. \A a, b \in Seq(Message) : Len(a \o b) = Len(a) + Len(b)
        BY ConcatProperties
      <4> QED
        BY <3>2, <3>3, <3>8, <4>1
    <3>12. n \in 1..Len(s) /\ n + 1 \in 1..(Len(s) + 1) /\ n \in Nat
      BY <3>8, <3>11
    <3>13. s[n] = x
      <4>1. (before \o (<<x>> \o rest))[n] = (<<x>> \o rest)[n - Len(before)]
        <5>1. n \in 1..(Len(before) + Len(<<x>> \o rest)) /\ ~(n <= Len(before))
          BY <3>8
        <5>2. \A a, b \in Seq(Message) : \A j \in 1..(Len(a) + Len(b)) :
                 (a \o b)[j] = IF j <= Len(a) THEN a[j] ELSE b[j - Len(a)]
          BY ConcatProperties
        <5> QED
          BY <3>3, <3>8, <5>1, <5>2
      <4>2. n - Len(before) = 1
        BY <3>8
      <4>3. (<<x>> \o rest)[1] = x
        <5>1. Len(<<x>>) = 1 /\ <<x>>[1] = x /\ 1 <= 1
          OBVIOUS
        <5>2. 1 \in 1..(Len(<<x>>) + Len(rest))
          BY <3>8, <5>1
        <5>3. (<<x>> \o rest)[1] = IF 1 <= Len(<<x>>) THEN <<x>>[1] ELSE rest[1 - Len(<<x>>)]
          BY <3>1, <3>3, <5>2, ConcatProperties
        <5> QED
          BY <5>1, <5>3
      <4> QED
        BY <3>2, <4>1, <4>2, <4>3
    <3>14. x \in Range(kept) <=> k <= n
      <4>1. ASSUME k <= n PROVE x \in Range(kept)
        <5>1. n \in k..Len(s)
          BY <2>1, <3>12, <4>1
        <5> QED
          BY <2>1, <3>13, <5>1
      <4>2. ASSUME ~(k <= n) PROVE x \notin Range(kept)
        <5>1. \A j \in k..Len(s) : j \in (n + 1)..Len(s)
          BY <2>1, <3>12, <4>2
        <5>2. Range(rest) = {s[j] : j \in (n + 1)..Len(s)}
          BY <3>7, <3>10, <3>12, SuffixRange
        <5> QED
          BY <2>1, <3>5, <5>1, <5>2
      <4> QED
        BY <4>1, <4>2
    <3>15. k <= n <=> Cost(<<x>> \o rest) <= Room(ms)
      BY <2>1, <3>9, <3>12
    <3>16. Cost(<<x>> \o rest) <= Room(ms) <=> Need(ms, i) <= budget
      <4>1. PICK c, p : c = Cost(<<x>> \o rest) /\ p = CountMessageTokens(ProtectedOf(ms))
        OBVIOUS
      <4>2. c \in Nat
        BY <3>1, <3>3, <3>8, <4>1, CostConcat
      <4>3. p \in Nat /\ budget \in Int /\ Room(ms) = budget - p /\ Need(ms, i) = p + c
        BY <3>6, <3>7, <4>1
      <4>4. c <= budget - p <=> p + c <= budget
        BY <4>2, <4>3
      <4> QED
        BY <4>1, <4>3, <4>4
    <3>17. x \in Range(Truncated(ms)) <=> x \in Range(kept)
      BY <2>2, <2>4
    <3> QED
      BY <1>4, <2>4, <3>14, <3>15, <3>16, <3>17 DEF x
  <2> QED
    BY <2>3, <2>4
<1> QED
  BY <1>3, <1>4

(* What a removable message needs, part by part.                              *)
LEMMA NeedIs ==
    ASSUME ParametersTyped, NEW ms, Numbered(ms), NEW i \in 1..Len(ms),
           ms[i] \notin Protected(ms)
    PROVE  LET before == CountMessageTokens(Filter(SubSeq(ms, 1, i - 1), Protected(ms)))
               after == Weight(SubSeq(ms, i + 1, Len(ms)),
                               Protected(ms), Range(ms) \ Protected(ms))
           IN  /\ Need(ms, i) = before + after + 4 + ms[i].tokens
               /\ before \in Nat /\ after \in Nat /\ ms[i].tokens \in Nat
<1>1. ms \in Seq(Message)
  BY DEF Numbered
<1>2. PICK T, U, u, v : /\ T = Protected(ms) /\ U = Range(ms) \ Protected(ms)
                        /\ u = SubSeq(ms, 1, i - 1) /\ v = SubSeq(ms, i + 1, Len(ms))
  OBVIOUS
<1>3. PICK x, w : x = ms[i] /\ w = <<x>>
  OBVIOUS
<1>4. /\ u \in Seq(Message) /\ v \in Seq(Message) /\ x \in Message /\ w \in Seq(Message)
      /\ ms = u \o (w \o v)
  <2>1. /\ SubSeq(ms, 1, i - 1) \in Seq(Message) /\ SubSeq(ms, i + 1, Len(ms)) \in Seq(Message)
        /\ ms[i] \in Message /\ <<ms[i]>> \in Seq(Message)
        /\ ms = SubSeq(ms, 1, i - 1) \o (<<ms[i]>> \o SubSeq(ms, i + 1, Len(ms)))
    BY <1>1, AroundElement
  <2> QED
    BY <1>2, <1>3, <2>1
<1>5. PICK f, g, h : f = Filter(u, T) /\ g = Filter(v, T) /\ h = Filter(v, U)
  OBVIOUS
<1>6. f \in Seq(Message) /\ g \in Seq(Message) /\ h \in Seq(Message)
  BY <1>4, <1>5, FilterTyped
<1>7. ProtectedOf(ms) = f \o g
  <2>1. PICK z : z = w \o v
    OBVIOUS
  <2>2. z \in Seq(Message) /\ ms = u \o z
    BY <1>4, <2>1, ConcatProperties
  <2>3. Filter(w, T) = <<>>
    <3>1. PICK S : S = {x}
      OBVIOUS
    <3>2. w \in Seq(S) /\ S \cap T = {}
      BY <1>2, <1>3, <3>1
    <3> QED
      BY <3>2, FilterNone
  <2>4. Filter(w \o v, T) = Filter(w, T) \o Filter(v, T)
    <3>1. w \in Seq(Message) /\ v \in Seq(Message)
      BY <1>4
    <3> QED
      BY ONLY <3>1, FilterConcat
  <2>5. Filter(z, T) = g
    BY <1>5, <1>6, <2>1, <2>3, <2>4, ConcatEmptySeq
  <2>6. Filter(u \o z, T) = Filter(u, T) \o Filter(z, T)
    <3>1. u \in Seq(Message) /\ z \in Seq(Message)
      BY <1>4, <2>2
    <3> QED
      BY ONLY <3>1, FilterConcat
  <2>7. ProtectedOf(ms) = Filter(ms, T)
    BY <1>2 DEF ProtectedOf
  <2> QED
    BY <1>5, <2>2, <2>5, <2>6, <2>7
<1>8. PICK a, b, c, d : /\ a = CountMessageTokens(f) /\ b = CountMessageTokens(g)
                        /\ c = Cost(h) /\ d = x.tokens
  OBVIOUS
<1>9. CountMessageTokens(f \o g) = a + b - 2 /\ a \in Nat /\ b \in Nat
  BY <1>6, <1>8, CountConcat, CountTyped
<1>10. Cost(w \o h) = (6 + d) + c /\ c \in Nat /\ d \in Nat
  <2>1. Cost(w) = 6 + d /\ d \in Nat
    BY <1>3, <1>4, <1>8, CountOne
  <2>2. Cost(w \o h) = Cost(w) + Cost(h) /\ Cost(h) \in Nat
    BY <1>4, <1>6, CostConcat
  <2> QED
    BY <1>8, <2>1, <2>2
<1>11. Need(ms, i) = (a + b - 2) + ((6 + d) + c)
  <2>1. Need(ms, i) = CountMessageTokens(ProtectedOf(ms)) + Cost(w \o h)
    BY <1>2, <1>3, <1>5 DEF Need
  <2> QED
    BY <1>7, <1>9, <1>10, <2>1
<1>12. Weight(v, T, U) = b + c
  BY <1>5, <1>8 DEF Weight
<1>13. (a + b - 2) + ((6 + d) + c) = a + (b + c) + 4 + d /\ b + c \in Nat
  BY <1>9, <1>10
<1>14. CountMessageTokens(Filter(u, T)) = a /\ ms[i].tokens = d
  BY <1>3, <1>5, <1>8
<1>15. /\ Need(ms, i) = CountMessageTokens(Filter(u, T)) + Weight(v, T, U) + 4 + ms[i].tokens
       /\ CountMessageTokens(Filter(u, T)) \in Nat /\ Weight(v, T, U) \in Nat
       /\ ms[i].tokens \in Nat
  BY <1>9, <1>10, <1>11, <1>12, <1>13, <1>14
<1> QED
  BY <1>2, <1>15

(* A further message makes no message's need smaller: the one that was last     *)
(* and protected may now have to be charged, and the new one takes its share.  *)
Follows(ns, ms) == \E m \in Message : ns = Append(ms, m)

LEMMA NeedGrows ==
    ASSUME ParametersTyped, NEW ms, Numbered(ms), NEW ns, Numbered(ns), Follows(ns, ms),
           NEW i \in 1..Len(ms), ms[i] \notin Protected(ms)
    PROVE  /\ i \in 1..Len(ns) /\ ns[i] = ms[i] /\ ns[i] \notin Protected(ns)
           /\ Need(ms, i) \in Nat /\ Need(ns, i) \in Nat /\ Need(ms, i) <= Need(ns, i)
<1>1. PICK m \in Message : ns = Append(ms, m)
  BY DEF Follows
<1>2. /\ ms \in Seq(Message) /\ ns \in Seq(Message) /\ Len(ms) \in Nat /\ Len(ns) = Len(ms) + 1
      /\ \A j \in 1..Len(ms) : ns[j] = ms[j] /\ ms[j].number = j
      /\ ns[Len(ns)] = m /\ m.number = Len(ns)
  <2>1. /\ ms \in Seq(Message) /\ ns \in Seq(Message)
        /\ \A j \in 1..Len(ms) : ms[j].number = j
        /\ \A j \in 1..Len(ns) : ns[j].number = j
    BY DEF Numbered
  <2>2. Len(ms) \in Nat /\ Len(ns) = Len(ms) + 1 /\ ns[Len(ms) + 1] = m
        /\ \A j \in 1..Len(ms) : ns[j] = ms[j]
    BY <1>1, <2>1, LenProperties, AppendProperties
  <2>3. Len(ns) \in 1..Len(ns)
    BY <2>2
  <2> QED
    BY <2>1, <2>2, <2>3
<1>3. Range(ns) = Range(ms) \cup {m} /\ Range(ns) \subseteq Message
  BY <1>1, <1>2, AppendRange, OwnRange
<1>4. DOMAIN ms = 1..Len(ms) /\ Range(ms) = {ms[j] : j \in 1..Len(ms)}
  BY <1>2, LenProperties DEF Range
<1>5. i \in 1..Len(ns) /\ ns[i] = ms[i] /\ i \in Nat
  BY <1>2
<1> DEFINE T == Protected(ms)
           T2 == Protected(ns)
           U == Range(ms) \ Protected(ms)
           U2 == Range(ns) \ Protected(ns)
           u == SubSeq(ms, 1, i - 1)
           v == SubSeq(ms, i + 1, Len(ms))
           x == ms[i]
<1>6. \A y \in Range(ms) : y \in T2 => y \in T
  <2> SUFFICES ASSUME NEW j \in 1..Len(ms), ms[j] \in T2 PROVE ms[j] \in T
    BY <1>4
  <2>1. ms[j].number # m.number
    BY <1>2
  <2>2. ms[j] # ns[Len(ns)] /\ ms[j] \in Range(ms)
    BY <1>2, <1>4, <2>1
  <2> QED
    BY <2>2 DEF Protected
<1>7. \A j \in 1..(i - 1) : ms[j] \in T => ms[j] \in T2
  <2> SUFFICES ASSUME NEW j \in 1..(i - 1), ms[j] \in T PROVE ms[j] \in T2
    OBVIOUS
  <2>1. j \in 1..Len(ms) /\ Len(ms) \in 1..Len(ms) /\ j # Len(ms)
    BY <1>2
  <2>2. ms[j].number # ms[Len(ms)].number
    BY <1>2, <2>1
  <2>3. ms[j] # ms[Len(ms)] /\ ms[j] \in Range(ns)
    BY <1>3, <1>4, <2>1, <2>2
  <2> QED
    BY <2>3 DEF Protected
<1>8. ns[i] \notin T2
  BY <1>4, <1>5, <1>6
<1>9. SubSeq(ns, 1, i - 1) = u
  <2>1. i - 1 \in Int /\ i - 1 <= Len(ms) /\ 1 <= 1
    BY <1>2
  <2> QED
    BY <1>1, <1>2, <2>1, AppendedPart
<1>10. SubSeq(ns, i + 1, Len(ns)) = Append(v, m) /\ v \in Seq(Message) /\ u \in Seq(Message)
  <2>1. v \in Seq(Message) /\ u \in Seq(Message)
    BY <1>2, AroundElement
  <2>2. /\ i + 1 \in 1..Len(ns) /\ Len(ns) \in (i + 1)..Len(ns) /\ Len(ns) - 1 = Len(ms)
        /\ i + 1 \in Int /\ Len(ms) \in Int /\ 1 <= i + 1 /\ Len(ms) <= Len(ms)
    BY <1>2
  <2>3. SubSeq(ns, i + 1, Len(ns)) = SubSeq(ns, i + 1, Len(ns) - 1) \o <<ns[Len(ns)]>>
    BY <1>2, <2>2, SubSeqRecursiveSecond
  <2>4. SubSeq(ns, i + 1, Len(ms)) = v
    BY <1>1, <1>2, <2>2, AppendedPart
  <2>5. Append(v, m) = v \o <<m>>
    BY <2>1, AppendIsConcat
  <2> QED
    BY <1>2, <2>1, <2>2, <2>3, <2>4, <2>5
<1>11. Range(v) \subseteq Range(ms)
  <2>1. i + 1 \in 1..(Len(ms) + 1)
    BY <1>2
  <2>2. Range(v) = {ms[j] : j \in (i + 1)..Len(ms)}
    BY <1>2, <2>1, SuffixRange
  <2>3. \A j \in (i + 1)..Len(ms) : j \in 1..Len(ms)
    BY <1>2
  <2> QED
    BY <1>4, <2>2, <2>3
<1>12. /\ Need(ms, i) = CountMessageTokens(Filter(u, T)) + Weight(v, T, U) + 4 + x.tokens
       /\ CountMessageTokens(Filter(u, T)) \in Nat /\ Weight(v, T, U) \in Nat /\ x.tokens \in Nat
  BY NeedIs
<1>13. T2 = Protected(ns) /\ U2 = Range(ns) \ Protected(ns)
  OBVIOUS
<1>14. \A y \in Range(ns) : y \in T2 <=> y \notin U2
  OBVIOUS
<1>15. \A y \in Range(ms) : y \in T <=> y \notin U
  OBVIOUS
<1> HIDE DEF T, T2, U, U2, u, v, x
<1>16. Need(ns, i) = CountMessageTokens(Filter(u, T2)) + Weight(Append(v, m), T2, U2) + 4 + x.tokens
  <2>1. Need(ns, i) = CountMessageTokens(Filter(SubSeq(ns, 1, i - 1), T2))
                        + Weight(SubSeq(ns, i + 1, Len(ns)), T2, U2) + 4 + ns[i].tokens
    BY <1>5, <1>8, <1>13, NeedIs
  <2> QED
    BY <1>5, <1>9, <1>10, <2>1 DEF x
<1>17. Filter(u, T) = Filter(u, T2)
  <2>1. u \in Seq(Range(u))
    BY <1>10, OwnRange
  <2>2. \A y \in Range(u) : \E j \in 1..(i - 1) : y = ms[j]
    <3>1. Len(u) \in Nat /\ DOMAIN u = 1..Len(u)
      BY <1>10, LenProperties
    <3>2. Len(u) <= i - 1 /\ \A j \in 1..(i - 1) : u[j] = ms[j]
      <4>1. 1 \in Int /\ i - 1 \in Int /\ \A j \in 1..(i - 1) : j \in 1..Len(ms)
        BY <1>2
      <4>2. \A j \in 1..(i - 1) : ms[j] \in Message
        BY <1>2, <4>1, ElementOfSeq
      <4>3. /\ Len(u) = IF 1 <= i - 1 THEN (i - 1) - 1 + 1 ELSE 0
            /\ \A j \in 1..((i - 1) - 1 + 1) : u[j] = ms[1 + j - 1]
        BY <4>1, <4>2, SubSeqProperties DEF u
      <4> QED
        BY <1>5, <4>1, <4>3
    <3>3. \A j \in 1..Len(u) : j \in 1..(i - 1)
      BY <1>5, <3>1, <3>2
    <3> QED
      BY <3>1, <3>2, <3>3 DEF Range
  <2>3. \A j \in 1..(i - 1) : ms[j] \in Range(ms)
    <3>1. \A j \in 1..(i - 1) : j \in 1..Len(ms)
      BY <1>2
    <3> QED
      BY <1>4, <3>1
  <2>4. \A y \in Range(u) : y \in T <=> y \in T2
    BY <1>6, <1>7, <2>2, <2>3
  <2> QED
    BY <2>1, <2>4, FilterAgrees
<1>18. Weight(v, T, U) <= Weight(v, T2, U2)
  <2>1. v \in Seq(Range(v)) /\ Range(v) \subseteq Message
    BY <1>10, OwnRange
  <2>2. \A y \in Range(v) : /\ y \in T <=> y \notin U
                            /\ y \in T2 <=> y \notin U2
                            /\ y \in T2 => y \in T
    BY <1>3, <1>6, <1>11, <1>14, <1>15
  <2> QED
    BY <2>1, <2>2, WeightGrows
<1>19. /\ Weight(v, T2, U2) \in Nat /\ Weight(Append(v, m), T2, U2) \in Nat
       /\ Weight(v, T2, U2) <= Weight(Append(v, m), T2, U2)
  <2>1. m \in Message /\ Message \subseteq Message
    OBVIOUS
  <2>2. m \in T2 <=> m \notin U2
    BY <1>3, <1>14
  <2>3. /\ Weight(v, T2, U2) \in Nat /\ m.tokens \in Nat
        /\ m \in T2 => Weight(Append(v, m), T2, U2) = Weight(v, T2, U2) + 4 + m.tokens
        /\ m \notin T2 => Weight(Append(v, m), T2, U2) = Weight(v, T2, U2) + 6 + m.tokens
    BY <1>10, <2>1, <2>2, WeightAppend
  <2> QED
    BY <2>3
<1>20. Need(ms, i) \in Nat /\ Need(ns, i) \in Nat /\ Need(ms, i) <= Need(ns, i)
  <2>1. PICK a, b, c, d, e : /\ a = CountMessageTokens(Filter(u, T)) /\ b = Weight(v, T, U)
                             /\ c = Weight(v, T2, U2) /\ d = Weight(Append(v, m), T2, U2)
                             /\ e = x.tokens
    OBVIOUS
  <2>2. a \in Nat /\ b \in Nat /\ c \in Nat /\ d \in Nat /\ e \in Nat /\ b <= c /\ c <= d
    BY <1>12, <1>18, <1>19, <2>1
  <2>3. Need(ms, i) = a + b + 4 + e /\ Need(ns, i) = a + d + 4 + e
    BY <1>16, <1>12, <1>17, <2>1
  <2>4. a + b + 4 + e \in Nat /\ a + d + 4 + e \in Nat /\ a + b + 4 + e <= a + d + 4 + e
    BY <2>2
  <2> QED
    BY <2>3, <2>4
<1> QED
  BY <1>5, <1>8, <1>20 DEF T2

(* What truncate_messages drops from a conversation it also drops from every     *)
(* longer one: however the conversation goes on, and although the message that  *)
(* was protected as the last no longer is, nothing forgotten is recalled.      *)
THEOREM NothingRecalled == TruncationSpec => ForgottenStaysForgotten
<1>1. Conversation /\ [TruncationNext]_truncationVars => Forgotten \subseteq Forgotten'
  <2> SUFFICES ASSUME Conversation, [TruncationNext]_truncationVars
               PROVE  Forgotten \subseteq Forgotten'
    OBVIOUS
  <2>1. CASE TruncationNext
    <3>1. PICK role \in Roles, tokens \in Sizes : Say(role, tokens)
      BY <2>1 DEF TruncationNext
    <3>2. PICK ms, m, ns : /\ ms = messages /\ ns = messages'
                           /\ m = [role |-> role, tokens |-> tokens, number |-> Len(messages) + 1]
      OBVIOUS
    <3>3. ParametersTyped /\ Numbered(ms) /\ ns = Append(ms, m)
      BY <3>1, <3>2 DEF Conversation, Say
    <3>4. m \in Message /\ Numbered(ns) /\ Follows(ns, ms)
      <4>1. tokens \in Nat
        BY SizesAssumption
      <4>2. m \in Message /\ Numbered(ns)
        BY <3>2, <3>3, <4>1, SayNumbers
      <4> QED
        BY <3>3, <4>2 DEF Follows
    <3>5. Forgotten = Range(ms) \ Range(Truncated(ms))
      BY <3>2 DEF Forgotten
    <3>6. Forgotten' = Range(ns) \ Range(Truncated(ns))
      BY <3>1, <3>2 DEF Forgotten, Truncated, ProtectedOf, RemovableOf, Room, Protected, Say
    <3>7. /\ ms \in Seq(Message) /\ DOMAIN ms = 1..Len(ms) /\ DOMAIN ns = 1..Len(ns)
          /\ ms # <<>> => CountMessageTokens(ms) \in Nat
      BY <3>3, <3>4, LenProperties, CountTyped DEF Numbered
    <3>8. ASSUME NEW i \in 1..Len(ms), ms[i] \notin Range(Truncated(ms))
          PROVE  ms[i] \in Range(ns) \ Range(Truncated(ns))
      <4>1. /\ ~(CountMessageTokens(ms) <= budget) /\ ms[i] \notin Protected(ms)
            /\ ~(Need(ms, i) <= budget)
        BY <3>3, <3>8, ForgottenWhen
      <4>2. /\ i \in 1..Len(ns) /\ ns[i] = ms[i] /\ ns[i] \notin Protected(ns)
            /\ Need(ms, i) \in Nat /\ Need(ns, i) \in Nat /\ Need(ms, i) <= Need(ns, i)
        BY <3>3, <3>4, <4>1, NeedGrows
      <4>3. budget \in Int
        BY <3>3 DEF ParametersTyped
      <4>4. ~(Need(ns, i) <= budget)
        BY <4>1, <4>2, <4>3
      <4>5. ~(CountMessageTokens(ns) <= budget)
        <5>1. /\ CountMessageTokens(ms) \in Nat /\ m.tokens \in Nat
              /\ CountMessageTokens(ns) = CountMessageTokens(ms) + 4 + m.tokens
          BY <3>3, <3>4, <3>7, CountAppend DEF Message
        <5> QED
          BY <4>1, <4>3, <5>1
      <4>6. ns[i] \notin Range(Truncated(ns))
        BY <3>3, <3>4, <4>2, <4>4, <4>5, ForgottenWhen
      <4>7. ns[i] \in Range(ns)
        BY <3>7, <4>2 DEF Range
      <4> QED
        BY <4>2, <4>6, <4>7
    <3>9. \A y \in Range(ms) : \E i \in 1..Len(ms) : y = ms[i]
      BY <3>7 DEF Range
    <3>10. \A y \in Range(ms) \ Range(Truncated(ms)) : y \in Range(ns) \ Range(Truncated(ns))
      BY <3>8, <3>9
    <3> QED
      BY <3>5, <3>6, <3>10
  <2>2. CASE UNCHANGED truncationVars
    BY <2>2 DEF truncationVars, Forgotten, Truncated, ProtectedOf, RemovableOf, Room, Protected
  <2> QED
    BY <2>1, <2>2
<1> QED
  BY <1>1, ConversationStays, PTL DEF TruncationSpec, ForgottenStaysForgotten
=============================================================================
