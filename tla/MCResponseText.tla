--------------------------- MODULE MCResponseText ---------------------------
(* Every text of up to five characters over two letters and a space, every    *)
(* list of up to two stop sequences: ones that overlap themselves, each other, *)
(* the space between words, and the empty one.  The encoder takes the longest   *)
(* token that comes next, so that a cut inside "aab" leaves more tokens.       *)
EXTENDS ResponseText

MCCharacters == {"a", "b", " "}
AllTexts ==
    {t \in UNION {[1..n -> MCCharacters] : n \in 1..5} : t[1] # " "}
Vocabulary ==
    {<<c>> : c \in MCCharacters} \cup {<<"a", "a", "b">>, <<"b", "a">>, <<" ", "a">>}

NextToken(t, i) ==
    Max({n \in 1..(Len(t) - i + 1) : SubSeq(t, i, i + n - 1) \in Vocabulary})

GreedyStarts(t) ==
    LET from[i \in 1..(Len(t) + 1)] ==
            IF i > Len(t) THEN {} ELSE {i} \cup from[i + NextToken(t, i)]
    IN  from[1]

Stops == {<<>>, <<"b">>, <<"a", "a">>, <<" ", "a">>}
AllStopLists == {<<>>} \cup {<<s>> : s \in Stops} \cup {<<s, t>> : s, t \in Stops}
=============================================================================
