------------------------------- MODULE Order -------------------------------
(* Python's lists: sorting one, and the comprehension that filters one.       *)
EXTENDS Integers, FiniteSets, Sequences

(* list.sort, by an order that leaves no ties: R holds the pairs of which the  *)
(* first comes first.  It is SetToSortSeq of SequencesExt with a set in the    *)
(* place of its operator parameter, so that lemmas can be about any R.        *)
InOrder(S, R) ==
    CHOOSE f \in [1..Cardinality(S) -> S] :
        \A m, n \in 1..Cardinality(S) : m < n => <<f[m], f[n]>> \in R

(* [x for x in s if x in T] *)
Filter(s, T) ==
    LET upto[n \in 0..Len(s)] ==
            IF n = 0 THEN <<>>
            ELSE IF s[n] \in T THEN Append(upto[n - 1], s[n]) ELSE upto[n - 1]
    IN  upto[Len(s)]
=============================================================================
