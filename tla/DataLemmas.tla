----------------------------- MODULE DataLemmas -----------------------------
(***************************************************************************)
(* Machine-checked facts about data, for any sets and functions: induction    *)
(* stated with a set of numbers or of sets in place of a predicate, the laws   *)
(* of SumFunctionOnSet, and what sorting returns.                           *)
(*                                                                          *)
(* The sum is a recursive function, which TLA+ defines as any function that    *)
(* satisfies its equation.  That one exists is proved here, not assumed:       *)
(* Sums(g, w, S) is the equation, and everything else is about such a g.      *)
(***************************************************************************)
EXTENDS Order, FiniteSetTheorems, SequenceTheorems, NaturalsInduction, TLAPS

(* Every non-empty set of natural numbers has a least element.                *)
LEMMA LeastNumber ==
    ASSUME NEW T, T \subseteq Nat, T # {}
    PROVE  \E n \in T : \A m \in T : n <= m
<1>1. IsWellFoundedOn(OpToRel(<, Nat), Nat)
  BY NatLessThanWellFounded
<1>2. PICK n \in T : \A m \in T : ~(<<m, n>> \in OpToRel(<, Nat))
  BY <1>1, WFMin
<1>3. \A x, y \in Nat : y < x => <<y, x>> \in OpToRel(<, Nat)
  BY DEF OpToRel
<1>4. \A m \in T : ~(m < n)
  BY <1>2, <1>3
<1>5. \A m \in T : n <= m
  BY <1>4
<1> QED
  BY <1>2, <1>5

(* Induction over the natural numbers.                                       *)
LEMMA NumberInduction ==
    ASSUME NEW T, 0 \in T, \A n \in Nat : n \in T => n + 1 \in T
    PROVE  Nat \subseteq T
<1> SUFFICES ASSUME Nat \ T # {} PROVE FALSE
  OBVIOUS
<1>1. PICK n \in Nat \ T : \A m \in Nat \ T : n <= m
  BY LeastNumber
<1>2. n # 0 /\ n - 1 \in Nat
  BY <1>1
<1>3. n - 1 \in T
  BY <1>1, <1>2
<1>4. (n - 1) + 1 \in T
  BY <1>2, <1>3
<1> QED
  BY <1>1, <1>4

LEMMA OneLess ==
    ASSUME NEW s, IsFiniteSet(s), NEW x \in s
    PROVE  /\ IsFiniteSet(s \ {x}) /\ Cardinality(s) \in Nat \ {0}
           /\ Cardinality(s \ {x}) = Cardinality(s) - 1
<1>1. IsFiniteSet(s \ {x}) /\ Cardinality(s \ {x}) = Cardinality(s) - 1
  BY FS_RemoveElement
<1>2. Cardinality(s) \in Nat /\ Cardinality(s) # 0
  BY FS_CardinalityType, FS_EmptySet
<1> QED
  BY <1>1, <1>2

(* Induction over the subsets of a finite set: what holds of a set if it holds *)
(* of what remains without any one of its elements holds of all.             *)
LEMMA SubsetInduction ==
    ASSUME NEW U, IsFiniteSet(U), NEW T,
           \A s \in SUBSET U : (\A x \in s : s \ {x} \in T) => s \in T
    PROVE  SUBSET U \subseteq T
<1> DEFINE N == {n \in Nat : \A s \in SUBSET U : Cardinality(s) = n => s \in T}
<1>1. \A s \in SUBSET U : IsFiniteSet(s) /\ Cardinality(s) \in Nat
  BY FS_Subset, FS_CardinalityType
<1>2. 0 \in N
  BY <1>1, FS_EmptySet
<1>3. ASSUME NEW n \in Nat, n \in N, NEW s \in SUBSET U, Cardinality(s) = n + 1
      PROVE  s \in T
  <2>1. \A x \in s : s \ {x} \in SUBSET U /\ Cardinality(s \ {x}) = n
    BY <1>1, <1>3, OneLess
  <2>2. \A x \in s : s \ {x} \in T
    BY <1>3, <2>1
  <2> QED
    BY <2>2
<1>4. \A n \in Nat : n \in N => n + 1 \in N
  BY <1>3
<1>5. Nat \subseteq N
  <2> HIDE DEF N
  <2> QED
    BY <1>2, <1>4, NumberInduction
<1> QED
  BY <1>1, <1>5

-----------------------------------------------------------------------------
(* Sums over finite sets.                                                   *)

Pick(S) == CHOOSE x \in S : TRUE
Rest(S) == S \ {Pick(S)}

Sums(g, w, S) ==
    g = [s \in SUBSET S |-> IF s = {} THEN 0 ELSE w[Pick(s)] + g[Rest(s)]]

LEMMA SumIsIts ==
    ASSUME NEW w, NEW S
    PROVE  SumFunctionOnSet(w, S) = (CHOOSE g : Sums(g, w, S))[S]
  BY DEF SumFunctionOnSet, FoldFunctionOnSet, MapThenFoldSet, Sums, Rest, Pick

LEMMA PickFacts ==
    ASSUME NEW s, s # {}
    PROVE  Pick(s) \in s /\ Rest(s) \subseteq s /\ Pick(s) \notin Rest(s)
           /\ s = Rest(s) \cup {Pick(s)}
<1>1. Pick(s) \in s
  BY DEF Pick
<1> QED
  BY <1>1 DEF Rest

(* The equation of the sum has a solution: sums of larger and larger subsets  *)
(* extend those of the smaller ones.                                         *)
LEMMA SumsExist ==
    ASSUME NEW S, IsFiniteSet(S), NEW w
    PROVE  \E g : Sums(g, w, S)
<1> DEFINE Upto(n) == {s \in SUBSET S : Cardinality(s) <= n}
           Partly(g, n) == g = [s \in Upto(n) |->
                                   IF s = {} THEN 0 ELSE w[Pick(s)] + g[Rest(s)]]
           N == {n \in Nat : \E g : Partly(g, n)}
<1>1. \A s \in SUBSET S : IsFiniteSet(s) /\ Cardinality(s) \in Nat
                          /\ Cardinality(s) <= Cardinality(S)
  BY FS_Subset, FS_CardinalityType
<1>2. ASSUME NEW n \in Nat, NEW s \in Upto(n + 1), s # {}
      PROVE  Rest(s) \in Upto(n)
  <2>1. Cardinality(Rest(s)) = Cardinality(s) - 1
    BY <1>1, <1>2, PickFacts, OneLess DEF Rest
  <2> QED
    BY <1>1, <1>2, <2>1, PickFacts
<1>3. 0 \in N
  <2> DEFINE g == [s \in Upto(0) |-> 0]
  <2>1. \A s \in Upto(0) : s = {}
    BY <1>1, FS_EmptySet
  <2>2. Partly(g, 0)
    BY <2>1
  <2> QED
    BY <2>2
<1>4. ASSUME NEW n \in Nat, NEW g, Partly(g, n)
      PROVE  \E h : Partly(h, n + 1)
  <2> DEFINE h == [s \in Upto(n + 1) |-> IF s = {} THEN 0 ELSE w[Pick(s)] + g[Rest(s)]]
  <2>1. Upto(n) \subseteq Upto(n + 1)
    BY <1>1
  <2>2. \A s \in Upto(n) : h[s] = g[s]
    <3>1. \A s \in Upto(n) : g[s] = IF s = {} THEN 0 ELSE w[Pick(s)] + g[Rest(s)]
      <4> HIDE DEF Upto, h
      <4> QED
        BY <1>4
    <3> HIDE DEF Upto
    <3> QED
      BY <2>1, <3>1
  <2>3. \A s \in Upto(n + 1) : s # {} => h[Rest(s)] = g[Rest(s)]
    BY <1>2, <2>2
  <2>4. h = [s \in Upto(n + 1) |-> IF s = {} THEN 0 ELSE w[Pick(s)] + h[Rest(s)]]
    <3> HIDE DEF Upto
    <3>1. \A s \in Upto(n + 1) :
             (IF s = {} THEN 0 ELSE w[Pick(s)] + g[Rest(s)])
           = (IF s = {} THEN 0 ELSE w[Pick(s)] + h[Rest(s)])
      BY <2>3
    <3> QED
      BY <3>1
  <2> HIDE DEF h
  <2> QED
    BY <2>4
<1>5. \A n \in Nat : n \in N => n + 1 \in N
  <2> HIDE DEF Partly
  <2> QED
    BY <1>4
<1>6. Nat \subseteq N
  <2> HIDE DEF N
  <2> QED
    BY <1>3, <1>5, NumberInduction
<1>7. Cardinality(S) \in Nat /\ Upto(Cardinality(S)) = SUBSET S
  BY <1>1, FS_CardinalityType
<1>8. PICK g : Partly(g, Cardinality(S))
  <2> HIDE DEF Partly
  <2> QED
    BY <1>6, <1>7
<1>9. g = [s \in SUBSET S |-> IF s = {} THEN 0 ELSE w[Pick(s)] + g[Rest(s)]]
  BY <1>7, <1>8
<1> QED
  BY <1>9 DEF Sums

LEMMA SumsSolved ==
    ASSUME NEW S, IsFiniteSet(S), NEW w
    PROVE  \E g : Sums(g, w, S) /\ SumFunctionOnSet(w, S) = g[S]
<1> DEFINE g == CHOOSE g : Sums(g, w, S)
<1>1. Sums(g, w, S)
  BY SumsExist
<1>2. SumFunctionOnSet(w, S) = g[S]
  BY SumIsIts
<1> HIDE DEF g
<1> QED
  BY <1>1, <1>2

LEMMA SumsStep ==
    ASSUME NEW S, NEW w, NEW g, Sums(g, w, S)
    PROVE  /\ g[{}] = 0
           /\ \A s \in SUBSET S : s # {} => g[s] = w[Pick(s)] + g[Rest(s)]
<1>1. \A s \in SUBSET S : g[s] = IF s = {} THEN 0 ELSE w[Pick(s)] + g[Rest(s)]
  BY DEF Sums
<1> QED
  BY <1>1

(* Two solutions agree on a set whose elements weigh the same.                *)
LEMMA SumsAgree ==
    ASSUME NEW S, IsFiniteSet(S), NEW U, S \subseteq U, NEW w, NEW v,
           \A x \in S : w[x] = v[x],
           NEW g, Sums(g, w, S), NEW h, Sums(h, v, U)
    PROVE  \A s \in SUBSET S : g[s] = h[s]
<1> DEFINE T == {s \in SUBSET S : g[s] = h[s]}
<1>1. ASSUME NEW s \in SUBSET S, \A x \in s : s \ {x} \in T
      PROVE  g[s] = h[s]
  <2>1. CASE s = {}
    BY <2>1, SumsStep
  <2>2. CASE s # {}
    <3>1. g[s] = w[Pick(s)] + g[Rest(s)] /\ h[s] = v[Pick(s)] + h[Rest(s)]
      BY <2>2, SumsStep
    <3>2. Pick(s) \in S /\ g[Rest(s)] = h[Rest(s)]
      BY <1>1, <2>2, PickFacts DEF Rest
    <3> QED
      BY <3>1, <3>2
  <2> QED
    BY <2>1, <2>2
<1>2. SUBSET S \subseteq T
  <2>1. \A s \in SUBSET S : (\A x \in s : s \ {x} \in T) => s \in T
    BY <1>1
  <2> HIDE DEF T
  <2> QED
    BY <2>1, SubsetInduction
<1> QED
  BY <1>2

LEMMA SumsTyped ==
    ASSUME NEW S, IsFiniteSet(S), NEW R, R = Nat \/ R = Int, NEW w,
           \A x \in S : w[x] \in R, NEW g, Sums(g, w, S)
    PROVE  \A s \in SUBSET S : g[s] \in R
<1> DEFINE T == {s \in SUBSET S : g[s] \in R}
<1>1. ASSUME NEW s \in SUBSET S, \A x \in s : s \ {x} \in T
      PROVE  g[s] \in R
  <2>1. CASE s = {}
    BY <2>1, SumsStep
  <2>2. CASE s # {}
    <3>1. g[s] = w[Pick(s)] + g[Rest(s)]
      BY <2>2, SumsStep
    <3>2. w[Pick(s)] \in R /\ g[Rest(s)] \in R
      BY <1>1, <2>2, PickFacts DEF Rest
    <3> QED
      BY <3>1, <3>2
  <2> QED
    BY <2>1, <2>2
<1>2. SUBSET S \subseteq T
  <2>1. \A s \in SUBSET S : (\A x \in s : s \ {x} \in T) => s \in T
    BY <1>1
  <2> HIDE DEF T
  <2> QED
    BY <2>1, SubsetInduction
<1> QED
  BY <1>2

(* The order in which the elements are taken does not matter: any of them     *)
(* can be the last.                                                         *)
LEMMA SumsAnyOrder ==
    ASSUME NEW S, IsFiniteSet(S), NEW w, \A x \in S : w[x] \in Int, NEW g, Sums(g, w, S)
    PROVE  \A s \in SUBSET S : \A x \in s : g[s] = w[x] + g[s \ {x}]
<1> DEFINE T == {s \in SUBSET S : \A x \in s : g[s] = w[x] + g[s \ {x}]}
<1>1. \A s \in SUBSET S : g[s] \in Int
  BY SumsTyped
<1>2. ASSUME NEW s \in SUBSET S, \A x \in s : s \ {x} \in T, NEW x \in s
      PROVE  g[s] = w[x] + g[s \ {x}]
  <2>1. PICK c : c = Pick(s)
    OBVIOUS
  <2>2. c \in s /\ g[s] = w[c] + g[s \ {c}]
    <3>1. s # {}
      OBVIOUS
    <3>2. g[s] = w[Pick(s)] + g[Rest(s)]
      BY <3>1, SumsStep
    <3>3. Pick(s) \in s /\ Rest(s) = s \ {Pick(s)}
      BY <3>1, PickFacts DEF Rest
    <3> QED
      BY <2>1, <3>2, <3>3
  <2>3. CASE c = x
    BY <2>2, <2>3
  <2>4. CASE c # x
    <3>1. /\ s \ {c} \in T /\ x \in s \ {c} /\ (s \ {c}) \ {x} = s \ {c, x}
          /\ s \ {x} \in T /\ c \in s \ {x} /\ (s \ {x}) \ {c} = s \ {c, x}
      <4> HIDE DEF T
      <4> QED
        BY <1>2, <2>2, <2>4
    <3>2. g[s \ {c}] = w[x] + g[s \ {c, x}] /\ g[s \ {x}] = w[c] + g[s \ {c, x}]
      BY <3>1
    <3>3. w[c] \in Int /\ w[x] \in Int /\ g[s \ {c, x}] \in Int
      BY <1>1, <2>2
    <3> QED
      BY <2>2, <3>2, <3>3
  <2> QED
    BY <2>3, <2>4
<1>3. SUBSET S \subseteq T
  <2>1. \A s \in SUBSET S : (\A x \in s : s \ {x} \in T) => s \in T
    BY <1>2
  <2> HIDE DEF T
  <2> QED
    BY <2>1, SubsetInduction
<1> QED
  BY <1>3

LEMMA SumEmpty ==
    ASSUME NEW w
    PROVE  SumFunctionOnSet(w, {}) = 0
<1>1. PICK g : Sums(g, w, {}) /\ SumFunctionOnSet(w, {}) = g[{}]
  BY SumsSolved, FS_EmptySet
<1> QED
  BY <1>1, SumsStep

LEMMA SumTyped ==
    ASSUME NEW S, IsFiniteSet(S), NEW R, R = Nat \/ R = Int, NEW w, \A x \in S : w[x] \in R
    PROVE  SumFunctionOnSet(w, S) \in R
<1>1. PICK g : Sums(g, w, S) /\ SumFunctionOnSet(w, S) = g[S]
  BY SumsSolved
<1>2. \A s \in SUBSET S : g[s] \in R
  BY <1>1, SumsTyped
<1> QED
  BY <1>1, <1>2

LEMMA SumAgrees ==
    ASSUME NEW S, IsFiniteSet(S), NEW w, NEW v, \A x \in S : w[x] = v[x]
    PROVE  SumFunctionOnSet(w, S) = SumFunctionOnSet(v, S)
<1>1. PICK g : Sums(g, w, S) /\ SumFunctionOnSet(w, S) = g[S]
  BY SumsSolved
<1>2. PICK h : Sums(h, v, S) /\ SumFunctionOnSet(v, S) = h[S]
  BY SumsSolved
<1>3. \A s \in SUBSET S : g[s] = h[s]
  BY <1>1, <1>2, SumsAgree
<1> QED
  BY <1>1, <1>2, <1>3

(* One more element adds its weight.                                         *)
LEMMA SumAdds ==
    ASSUME NEW S, IsFiniteSet(S), NEW x, x \notin S, NEW w, \A y \in S \cup {x} : w[y] \in Int
    PROVE  SumFunctionOnSet(w, S \cup {x}) = w[x] + SumFunctionOnSet(w, S)
<1> DEFINE U == S \cup {x}
<1>1. IsFiniteSet(U)
  BY FS_AddElement
<1>2. PICK h : Sums(h, w, U) /\ SumFunctionOnSet(w, U) = h[U]
  BY <1>1, SumsSolved
<1>3. PICK g : Sums(g, w, S) /\ SumFunctionOnSet(w, S) = g[S]
  BY SumsSolved
<1>4. \A s \in SUBSET S : g[s] = h[s]
  BY <1>2, <1>3, SumsAgree
<1>5. h[U] = w[x] + h[U \ {x}]
  BY <1>1, <1>2, SumsAnyOrder
<1>6. U \ {x} = S
  OBVIOUS
<1> QED
  BY <1>2, <1>3, <1>4, <1>5, <1>6

-----------------------------------------------------------------------------
(* The same laws for the sum of a function over its whole domain.             *)

LEMMA TotalEmpty ==
    ASSUME NEW f, DOMAIN f = {}
    PROVE  SumFunction(f) = 0
  BY SumEmpty DEF SumFunction

LEMMA TotalTyped ==
    ASSUME NEW f, IsFiniteSet(DOMAIN f), NEW R, R = Nat \/ R = Int,
           \A x \in DOMAIN f : f[x] \in R
    PROVE  SumFunction(f) \in R
  BY SumTyped DEF SumFunction

LEMMA TotalGrows ==
    ASSUME NEW f, IsFiniteSet(DOMAIN f), NEW x, x \notin DOMAIN f,
           NEW h, DOMAIN h = DOMAIN f \cup {x}, \A y \in DOMAIN f : h[y] = f[y],
           \A y \in DOMAIN h : h[y] \in Int
    PROVE  SumFunction(h) = SumFunction(f) + h[x]
<1> DEFINE S == DOMAIN f
<1>1. SumFunctionOnSet(h, S) = SumFunctionOnSet(f, S)
  BY SumAgrees
<1>2. SumFunctionOnSet(h, S \cup {x}) = h[x] + SumFunctionOnSet(h, S)
  BY SumAdds
<1>3. h[x] \in Int /\ SumFunctionOnSet(f, S) \in Int
  <2>1. \A y \in S : f[y] \in Int
    OBVIOUS
  <2> QED
    BY <2>1, SumTyped
<1> HIDE DEF S
<1> QED
  BY <1>1, <1>2, <1>3 DEF SumFunction, S

LEMMA TotalChanges ==
    ASSUME NEW f, IsFiniteSet(DOMAIN f), NEW x \in DOMAIN f,
           NEW h, DOMAIN h = DOMAIN f, \A y \in DOMAIN f \ {x} : h[y] = f[y],
           \A y \in DOMAIN f : f[y] \in Int /\ h[y] \in Int
    PROVE  SumFunction(h) = SumFunction(f) - f[x] + h[x]
<1> DEFINE S == DOMAIN f \ {x}
           e == [y \in S |-> f[y]]
<1>1. IsFiniteSet(S) /\ x \notin S /\ DOMAIN f = S \cup {x} /\ DOMAIN e = S
  BY FS_RemoveElement
<1>2. \A y \in S : e[y] = f[y] /\ e[y] = h[y] /\ e[y] \in Int
  OBVIOUS
<1> HIDE DEF S, e
<1>3. SumFunction(f) = SumFunction(e) + f[x]
  BY <1>1, <1>2, TotalGrows
<1>4. SumFunction(h) = SumFunction(e) + h[x]
  BY <1>1, <1>2, TotalGrows
<1>5. SumFunction(e) \in Int
  BY <1>1, <1>2, TotalTyped
<1> QED
  BY <1>3, <1>4, <1>5

-----------------------------------------------------------------------------
(* Sorting by an order without ties, and slices of what it returns.           *)

StrictOrder(S, R) ==
    /\ \A x \in S : <<x, x>> \notin R
    /\ \A x, y, z \in S : <<x, y>> \in R /\ <<y, z>> \in R => <<x, z>> \in R
    /\ \A x, y \in S : x # y => <<x, y>> \in R \/ <<y, x>> \in R

Ahead(S, R, x) == {y \in S : <<y, x>> \in R}
Rank(S, R, x) == Cardinality(Ahead(S, R, x))

Arranged(f, S, R) ==
    /\ f \in [1..Cardinality(S) -> S]
    /\ \A m, n \in 1..Cardinality(S) : m < n => <<f[m], f[n]>> \in R

LEMMA SuborderStrict ==
    ASSUME NEW S, NEW R, StrictOrder(S, R), NEW s \in SUBSET S
    PROVE  StrictOrder(s, R)
  BY DEF StrictOrder

(* A finite order has a last element.                                        *)
LEMMA LastExists ==
    ASSUME NEW S, IsFiniteSet(S), NEW R, StrictOrder(S, R), S # {}
    PROVE  \E x \in S : \A y \in S \ {x} : <<y, x>> \in R
<1> DEFINE T == {s \in SUBSET S : s # {} => \E x \in s : \A y \in s \ {x} : <<y, x>> \in R}
<1>1. ASSUME NEW s \in SUBSET S, \A x \in s : s \ {x} \in T, s # {}
      PROVE  \E x \in s : \A y \in s \ {x} : <<y, x>> \in R
  <2>1. PICK a \in s : TRUE
    BY <1>1
  <2>2. CASE s \ {a} = {}
    BY <2>1, <2>2
  <2>3. CASE s \ {a} # {}
    <3>1. PICK b \in s \ {a} : \A y \in (s \ {a}) \ {b} : <<y, b>> \in R
      BY <1>1, <2>1, <2>3
    <3>2. CASE <<a, b>> \in R
      BY <2>1, <3>1, <3>2
    <3>3. CASE <<b, a>> \in R
      <4>1. \A y \in s \ {a} : <<y, a>> \in R
        BY <1>1, <2>1, <3>1, <3>3 DEF StrictOrder
      <4> QED
        BY <2>1, <4>1
    <3> QED
      BY <2>1, <3>1, <3>2, <3>3 DEF StrictOrder
  <2> QED
    BY <2>2, <2>3
<1>2. \A s \in SUBSET S : (\A x \in s : s \ {x} \in T) => s \in T
  BY <1>1
<1>3. SUBSET S \subseteq T
  <2> HIDE DEF T
  <2> QED
    BY <1>2, SubsetInduction
<1> QED
  BY <1>3

(* A finite set can be listed in its order: first the others, then the last.  *)
LEMMA ListingExists ==
    ASSUME NEW S, IsFiniteSet(S), NEW R, StrictOrder(S, R)
    PROVE  \E f : Arranged(f, S, R)
<1> DEFINE T == {s \in SUBSET S : \E f : Arranged(f, s, R)}
<1>1. ASSUME NEW s \in SUBSET S, \A x \in s : s \ {x} \in T
      PROVE  \E f : Arranged(f, s, R)
  <2>1. IsFiniteSet(s) /\ Cardinality(s) \in Nat
    BY FS_Subset, FS_CardinalityType
  <2>2. CASE s = {}
    <3>1. Cardinality(s) = 0
      BY <2>2, FS_EmptySet
    <3>2. Arranged([i \in 1..0 |-> i], s, R)
      BY <3>1 DEF Arranged
    <3> QED
      BY <3>2
  <2>3. CASE s # {}
    <3>1. StrictOrder(s, R)
      BY SuborderStrict
    <3>2. PICK x \in s : \A y \in s \ {x} : <<y, x>> \in R
      BY <2>1, <2>3, <3>1, LastExists
    <3>3. PICK g : Arranged(g, s \ {x}, R)
      BY <1>1, <3>2
    <3>4. PICK k \in Nat : Cardinality(s \ {x}) = k /\ Cardinality(s) = k + 1
      BY <2>1, <3>2, OneLess
    <3>5. g \in [1..k -> s \ {x}] /\ \A m, n \in 1..k : m < n => <<g[m], g[n]>> \in R
      BY <3>3, <3>4 DEF Arranged
    <3> DEFINE f == [i \in 1..(k + 1) |-> IF i = k + 1 THEN x ELSE g[i]]
    <3>6. f \in [1..(k + 1) -> s]
      BY <3>2, <3>5
    <3>7. \A m, n \in 1..(k + 1) : m < n => <<f[m], f[n]>> \in R
      <4> SUFFICES ASSUME NEW m \in 1..(k + 1), NEW n \in 1..(k + 1), m < n
                   PROVE  <<f[m], f[n]>> \in R
        OBVIOUS
      <4>1. m \in 1..k /\ f[m] = g[m] /\ g[m] \in s \ {x}
        BY <3>5
      <4>2. CASE n = k + 1
        BY <3>2, <4>1, <4>2
      <4>3. CASE n # k + 1
        <5>1. n \in 1..k /\ f[n] = g[n]
          BY <4>3
        <5> QED
          BY <3>5, <4>1, <5>1
      <4> QED
        BY <4>2, <4>3
    <3> HIDE DEF f
    <3> QED
      BY <3>4, <3>6, <3>7 DEF Arranged
  <2> QED
    BY <2>2, <2>3
<1>2. \A s \in SUBSET S : (\A x \in s : s \ {x} \in T) => s \in T
  BY <1>1
<1>3. SUBSET S \subseteq T
  <2> HIDE DEF T
  <2> QED
    BY <1>2, SubsetInduction
<1> QED
  BY <1>3

LEMMA InOrderArranged ==
    ASSUME NEW S, IsFiniteSet(S), NEW R, StrictOrder(S, R)
    PROVE  Arranged(InOrder(S, R), S, R)
  BY ListingExists DEF InOrder, Arranged

(* What sorting returns: each element once, at the place that the number of     *)
(* elements ahead of it says.                                               *)
LEMMA InOrderFacts ==
    ASSUME NEW S, IsFiniteSet(S), NEW R, StrictOrder(S, R), NEW f, Arranged(f, S, R)
    PROVE  /\ Cardinality(S) \in Nat
           /\ f \in [1..Cardinality(S) -> S]
           /\ \A x \in S : \E m \in 1..Cardinality(S) : f[m] = x
           /\ \A m \in 1..Cardinality(S) : Rank(S, R, f[m]) = m - 1
<1>1. Arranged(f, S, R)
  OBVIOUS
<1>2. PICK n \in Nat : n = Cardinality(S)
  BY FS_CardinalityType
<1>3. f \in [1..n -> S] /\ \A i, j \in 1..n : i < j => <<f[i], f[j]>> \in R
  BY <1>1, <1>2 DEF Arranged
<1>4. \A i, j \in 1..n : i # j => f[i] # f[j]
  <2> SUFFICES ASSUME NEW i \in 1..n, NEW j \in 1..n, i # j PROVE f[i] # f[j]
    OBVIOUS
  <2>1. i < j \/ j < i
    OBVIOUS
  <2> QED
    BY <1>3, <2>1 DEF StrictOrder
<1>5. \A x \in S : \E m \in 1..n : f[m] = x
  <2>1. f \in Injection(1..n, S)
    BY <1>3, <1>4 DEF Injection, IsInjective
  <2>2. Cardinality(1..n) = n
    BY FS_Interval
  <2>3. f \in Surjection(1..n, S)
    BY <1>2, <2>1, <2>2, FS_Injection
  <2> QED
    BY <2>3 DEF Surjection
<1>6. ASSUME NEW m \in 1..n PROVE Rank(S, R, f[m]) = m - 1
  <2> DEFINE A == Ahead(S, R, f[m])
             g == [i \in 1..(m - 1) |-> f[i]]
  <2>1. \A i \in 1..(m - 1) : i \in 1..n /\ g[i] = f[i] /\ f[i] \in A
    BY <1>3 DEF Ahead
  <2>2. \A x \in A : \E i \in 1..(m - 1) : g[i] = x
    <3> SUFFICES ASSUME NEW x \in A PROVE \E i \in 1..(m - 1) : g[i] = x
      OBVIOUS
    <3>1. x \in S /\ <<x, f[m]>> \in R
      BY DEF Ahead
    <3>2. PICK i \in 1..n : f[i] = x
      BY <1>5, <3>1
    <3>3. ~(m <= i)
      <4> SUFFICES ASSUME m <= i PROVE FALSE
        OBVIOUS
      <4>1. CASE m = i
        BY <1>3, <3>1, <3>2, <4>1 DEF StrictOrder
      <4>2. CASE m # i
        <5>1. <<f[m], x>> \in R
          BY <1>3, <3>2, <4>2
        <5>2. <<x, x>> \in R
          BY <1>3, <3>1, <5>1 DEF StrictOrder
        <5> QED
          BY <3>1, <5>2 DEF StrictOrder
      <4> QED
        BY <4>1, <4>2
    <3>4. i \in 1..(m - 1)
      BY <3>3
    <3> QED
      BY <2>1, <3>2, <3>4
  <2>3. g \in Bijection(1..(m - 1), A)
    <3>1. g \in [1..(m - 1) -> A]
      BY <2>1
    <3>2. \A i, j \in 1..(m - 1) : i # j => g[i] # g[j]
      BY <1>4, <2>1
    <3> HIDE DEF A, g
    <3> QED
      BY <2>2, <3>1, <3>2 DEF Bijection, Injection, Surjection, IsInjective
  <2>4. IsFiniteSet(1..(m - 1)) /\ Cardinality(1..(m - 1)) = m - 1
    BY FS_Interval
  <2>5. Cardinality(A) = m - 1
    <3> HIDE DEF A, g
    <3> QED
      BY <2>3, <2>4, FS_Bijection DEF ExistsBijection
  <2> QED
    BY <2>5 DEF Rank
<1> QED
  BY <1>2, <1>3, <1>5, <1>6

LEMMA RankTyped ==
    ASSUME NEW S, IsFiniteSet(S), NEW R, NEW x
    PROVE  IsFiniteSet(Ahead(S, R, x)) /\ Rank(S, R, x) \in Nat
<1>1. Ahead(S, R, x) \in SUBSET S
  BY DEF Ahead
<1>2. IsFiniteSet(Ahead(S, R, x))
  BY <1>1, FS_Subset
<1> QED
  BY <1>2, FS_CardinalityType DEF Rank

(* No two elements have the same rank.                                       *)
LEMMA RanksDiffer ==
    ASSUME NEW S, IsFiniteSet(S), NEW R, StrictOrder(S, R),
           NEW x \in S, NEW y \in S, Rank(S, R, x) = Rank(S, R, y)
    PROVE  x = y
<1> DEFINE n == Cardinality(S)
           f == InOrder(S, R)
<1>1. n \in Nat
  BY FS_CardinalityType
<1>2. /\ \A z \in S : \E m \in 1..n : f[m] = z
      /\ \A m \in 1..n : Rank(S, R, f[m]) = m - 1
  BY InOrderArranged, InOrderFacts
<1> HIDE DEF n, f
<1>3. PICK i \in 1..n, j \in 1..n : f[i] = x /\ f[j] = y
  BY <1>2
<1>4. i - 1 = j - 1
  BY <1>2, <1>3
<1> QED
  BY <1>1, <1>3, <1>4

(* What comes ahead of an element in one order and still does in another does  *)
(* not lower its rank; the loss of one element lowers it by one at most.      *)
LEMMA RankGrows ==
    ASSUME NEW S, IsFiniteSet(S), NEW R, NEW T, IsFiniteSet(T), NEW Q,
           NEW x, Ahead(S, R, x) \subseteq Ahead(T, Q, x)
    PROVE  Rank(S, R, x) <= Rank(T, Q, x)
  BY RankTyped, FS_Subset DEF Rank

LEMMA RankLosesOne ==
    ASSUME NEW S, IsFiniteSet(S), NEW R, NEW T, IsFiniteSet(T), NEW Q,
           NEW x, NEW d, Ahead(S, R, x) \ {d} \subseteq Ahead(T, Q, x)
    PROVE  Rank(S, R, x) <= Rank(T, Q, x) + 1
<1> DEFINE A == Ahead(S, R, x)
           B == Ahead(T, Q, x)
<1>1. IsFiniteSet(A) /\ IsFiniteSet(B) /\ Cardinality(A) \in Nat /\ Cardinality(B) \in Nat
  BY RankTyped DEF Rank
<1> HIDE DEF A, B
<1>2. A \ {d} \in SUBSET B
  BY DEF A, B
<1>3. Cardinality(A \ {d}) <= Cardinality(B)
  BY <1>1, <1>2, FS_Subset
<1>4. Cardinality(A) <= Cardinality(A \ {d}) + 1
  <2>1. CASE d \in A
    BY <1>1, <2>1, OneLess
  <2>2. CASE d \notin A
    <3>1. A \ {d} = A
      BY <2>2
    <3> QED
      BY <1>1, <3>1
  <2> QED
    BY <2>1, <2>2
<1>5. IsFiniteSet(A \ {d}) /\ Cardinality(A \ {d}) \in Nat
  <2>1. A \ {d} \in SUBSET A
    OBVIOUS
  <2> QED
    BY <1>1, <2>1, FS_Subset, FS_CardinalityType
<1>6. Cardinality(A) <= Cardinality(B) + 1
  BY <1>1, <1>3, <1>4, <1>5
<1> QED
  BY <1>6 DEF Rank, A, B

(* A slice of a sorted set holds the elements of the ranks it stands for, and   *)
(* one that is too short reaches the last.                                  *)
LEMMA SliceFacts ==
    ASSUME NEW S, IsFiniteSet(S), NEW R, StrictOrder(S, R), NEW f, Arranged(f, S, R),
           NEW from \in Nat, NEW size \in Nat, NEW a \in Nat, NEW b \in Nat,
           a <= from, from <= Cardinality(S) => a = from,
           b <= Cardinality(S), b <= from + size, b \in {Cardinality(S), from + size}
    PROVE  /\ (a + 1)..b \subseteq 1..Cardinality(S)
           /\ \A x \in S : from <= Rank(S, R, x) /\ Rank(S, R, x) < from + size
                              => \E i \in (a + 1)..b : f[i] = x
           /\ b - a < size => \A x \in S : Rank(S, R, x) < from + size
<1> DEFINE n == Cardinality(S)
<1>1. n \in Nat
  BY FS_CardinalityType
<1>2. /\ \A x \in S : \E m \in 1..n : f[m] = x
      /\ \A m \in 1..n : Rank(S, R, f[m]) = m - 1
  BY InOrderFacts
<1> HIDE DEF n
<1>3. b <= n /\ b <= from + size /\ b \in {n, from + size}
  BY DEF n
<1>4. from <= n => a = from
  BY DEF n
<1>5. b \in Nat /\ b <= n
  BY <1>3, <1>1
<1>6. ASSUME NEW x \in S, from <= Rank(S, R, x), Rank(S, R, x) < from + size
      PROVE  \E i \in (a + 1)..b : f[i] = x
  <2>1. PICK m \in 1..n : f[m] = x
    BY <1>2
  <2>2. Rank(S, R, x) = m - 1
    BY <1>2, <2>1
  <2>3. m \in (a + 1)..b
    BY <1>3, <1>1, <1>6, <1>4, <2>2
  <2> QED
    BY <2>1, <2>3
<1>7. ASSUME NEW x \in S, b - a < size
      PROVE  Rank(S, R, x) < from + size
  <2>1. PICK m \in 1..n : f[m] = x
    BY <1>2
  <2>2. Rank(S, R, x) = m - 1
    BY <1>2, <2>1
  <2>3. n <= from + size
    BY <1>3, <1>1, <1>7, <1>4
  <2> QED
    BY <1>1, <2>2, <2>3
<1> QED
  BY <1>1, <1>5, <1>6, <1>7 DEF n

-----------------------------------------------------------------------------
(* Filtering a sequence.  Filter, too, is a recursive function: Filters(g, s, T) *)
(* is its equation.                                                         *)

(* Induction over sequences, from a sequence to those that are longer by one.  *)
LEMMA AppendInduction ==
    ASSUME NEW S, NEW T, <<>> \in T,
           \A s \in Seq(S), x \in S : s \in T => Append(s, x) \in T
    PROVE  Seq(S) \subseteq T
<1> DEFINE N == {n \in Nat : \A s \in Seq(S) : Len(s) = n => s \in T}
<1>1. 0 \in N
  <2>1. \A s \in Seq(S) : Len(s) = 0 => s = <<>>
    BY EmptySeq
  <2> QED
    BY <2>1
<1>2. ASSUME NEW n \in Nat, n \in N, NEW s \in Seq(S), Len(s) = n + 1
      PROVE  s \in T
  <2>1. s # <<>>
    BY <1>2, EmptySeq
  <2>2. PICK t \in Seq(S), x \in S : s = Append(t, x)
    BY <2>1, SequenceEmptyOrAppend
  <2>3. Len(t) \in Nat /\ Len(s) = Len(t) + 1
    BY <2>2, AppendProperties, LenProperties
  <2>4. Len(t) = n
    BY <1>2, <2>3
  <2>5. t \in T
    BY <1>2, <2>4
  <2> QED
    BY <2>2, <2>5
<1>3. \A n \in Nat : n \in N => n + 1 \in N
  BY <1>2
<1>4. Nat \subseteq N
  <2> HIDE DEF N
  <2> QED
    BY <1>1, <1>3, NumberInduction
<1>5. \A s \in Seq(S) : Len(s) \in Nat
  BY LenProperties
<1> QED
  BY <1>4, <1>5

Filters(g, s, T) ==
    g = [n \in 0..Len(s) |->
            IF n = 0 THEN <<>>
            ELSE IF s[n] \in T THEN Append(g[n - 1], s[n]) ELSE g[n - 1]]

LEMMA FilterIsIts ==
    ASSUME NEW s, NEW T
    PROVE  Filter(s, T) = (CHOOSE g : Filters(g, s, T))[Len(s)]
  BY DEF Filter, Filters

LEMMA FiltersExist ==
    ASSUME NEW s, Len(s) \in Nat, NEW T
    PROVE  \E g : Filters(g, s, T)
<1> DEFINE Next(f, n) == IF s[n] \in T THEN Append(f, s[n]) ELSE f
           Partly(g, n) == g = [i \in 0..n |-> IF i = 0 THEN <<>> ELSE Next(g[i - 1], i)]
           N == {n \in Nat : \E g : Partly(g, n)}
<1> HIDE DEF Next
<1>1. 0 \in N
  <2> DEFINE g == [i \in 0..0 |-> <<>>]
  <2>1. \A i \in 0..0 : i = 0
    OBVIOUS
  <2>2. Partly(g, 0)
    BY <2>1
  <2> QED
    BY <2>2
<1>2. ASSUME NEW n \in Nat, NEW g, Partly(g, n)
      PROVE  \E h : Partly(h, n + 1)
  <2> DEFINE h == [i \in 0..(n + 1) |-> IF i = 0 THEN <<>> ELSE Next(g[i - 1], i)]
  <2>1. \A i \in 0..n : g[i] = IF i = 0 THEN <<>> ELSE Next(g[i - 1], i)
    <3> HIDE DEF h
    <3> QED
      BY <1>2
  <2>2. \A i \in 0..n : h[i] = g[i]
    <3>1. \A i \in 0..n : i \in 0..(n + 1)
      OBVIOUS
    <3> QED
      BY <2>1, <3>1
  <2>3. \A i \in 0..(n + 1) : i # 0 => i - 1 \in 0..n
    OBVIOUS
  <2>4. h = [i \in 0..(n + 1) |-> IF i = 0 THEN <<>> ELSE Next(h[i - 1], i)]
    <3>1. \A i \in 0..(n + 1) :
             (IF i = 0 THEN <<>> ELSE Next(g[i - 1], i))
           = (IF i = 0 THEN <<>> ELSE Next(h[i - 1], i))
      <4> HIDE DEF h
      <4> QED
        BY <2>2, <2>3
    <3> QED
      BY <3>1
  <2> HIDE DEF h
  <2> QED
    BY <2>4
<1>3. \A n \in Nat : n \in N => n + 1 \in N
  <2> HIDE DEF Partly
  <2> QED
    BY <1>2
<1>4. Nat \subseteq N
  <2> HIDE DEF N
  <2> QED
    BY <1>1, <1>3, NumberInduction
<1>5. PICK g : Partly(g, Len(s))
  <2> HIDE DEF Partly
  <2> QED
    BY <1>4
<1>6. g = [i \in 0..Len(s) |-> IF i = 0 THEN <<>> ELSE Next(g[i - 1], i)]
  BY <1>5
<1> QED
  BY <1>6 DEF Filters, Next

LEMMA FiltersSolved ==
    ASSUME NEW s, Len(s) \in Nat, NEW T
    PROVE  \E g : /\ Filter(s, T) = g[Len(s)]
                  /\ g[0] = <<>>
                  /\ \A n \in 1..Len(s) :
                        g[n] = IF s[n] \in T THEN Append(g[n - 1], s[n]) ELSE g[n - 1]
<1> DEFINE g == CHOOSE g : Filters(g, s, T)
<1>1. Filters(g, s, T) /\ Filter(s, T) = g[Len(s)]
  BY FiltersExist, FilterIsIts
<1> HIDE DEF g
<1>2. \A n \in 0..Len(s) :
         g[n] = IF n = 0 THEN <<>>
                ELSE IF s[n] \in T THEN Append(g[n - 1], s[n]) ELSE g[n - 1]
  BY <1>1 DEF Filters
<1>3. 0 \in 0..Len(s) /\ \A n \in 1..Len(s) : n \in 0..Len(s) /\ n # 0
  OBVIOUS
<1>4. g[0] = <<>>
  BY <1>2, <1>3
<1>5. \A n \in 1..Len(s) :
         g[n] = IF s[n] \in T THEN Append(g[n - 1], s[n]) ELSE g[n - 1]
  BY <1>2, <1>3
<1> QED
  BY <1>1, <1>4, <1>5

LEMMA FilterEmpty ==
    ASSUME NEW T
    PROVE  Filter(<<>>, T) = <<>>
<1>1. Len(<<>>) = 0
  OBVIOUS
<1> QED
  BY <1>1, FiltersSolved

(* What is filtered from the beginning does not depend on how it goes on.      *)
LEMMA FilterAppend ==
    ASSUME NEW S, NEW s \in Seq(S), NEW x \in S, NEW T
    PROVE  Filter(Append(s, x), T) = IF x \in T THEN Append(Filter(s, T), x) ELSE Filter(s, T)
<1> DEFINE v == Append(s, x)
<1>1. /\ Len(s) \in Nat /\ Len(v) = Len(s) + 1
      /\ v[Len(s) + 1] = x /\ \A i \in 1..Len(s) : v[i] = s[i]
  BY AppendProperties, LenProperties
<1> HIDE DEF v
<1>2. PICK g : /\ Filter(s, T) = g[Len(s)]
               /\ g[0] = <<>>
               /\ \A n \in 1..Len(s) :
                     g[n] = IF s[n] \in T THEN Append(g[n - 1], s[n]) ELSE g[n - 1]
  BY <1>1, FiltersSolved
<1>3. PICK h : /\ Filter(v, T) = h[Len(v)]
               /\ h[0] = <<>>
               /\ \A n \in 1..Len(v) :
                     h[n] = IF v[n] \in T THEN Append(h[n - 1], v[n]) ELSE h[n - 1]
  BY <1>1, FiltersSolved
<1> DEFINE N == {n \in Nat : n <= Len(s) => g[n] = h[n]}
<1>4. ASSUME NEW n \in Nat, n \in N, n + 1 <= Len(s)
      PROVE  g[n + 1] = h[n + 1]
  <2>1. /\ n + 1 \in 1..Len(s) /\ n + 1 \in 1..Len(v) /\ (n + 1) - 1 = n /\ n <= Len(s)
    BY <1>1, <1>4
  <2>2. g[n + 1] = IF s[n + 1] \in T THEN Append(g[n], s[n + 1]) ELSE g[n]
    BY <1>2, <2>1
  <2>3. h[n + 1] = IF v[n + 1] \in T THEN Append(h[n], v[n + 1]) ELSE h[n]
    BY <1>3, <2>1
  <2>4. v[n + 1] = s[n + 1] /\ g[n] = h[n]
    BY <1>1, <1>4, <2>1
  <2> QED
    BY <2>2, <2>3, <2>4
<1>5. 0 \in N /\ \A n \in Nat : n \in N => n + 1 \in N
  BY <1>2, <1>3, <1>4
<1>6. Nat \subseteq N
  <2> HIDE DEF N
  <2> QED
    BY <1>5, NumberInduction
<1>7. g[Len(s)] = h[Len(s)]
  BY <1>1, <1>6
<1>8. Len(v) \in 1..Len(v) /\ Len(v) - 1 = Len(s)
  BY <1>1
<1>9. h[Len(v)] = IF v[Len(v)] \in T THEN Append(h[Len(s)], v[Len(v)]) ELSE h[Len(s)]
  BY <1>3, <1>8
<1>10. h[Len(v)] = IF x \in T THEN Append(Filter(s, T), x) ELSE Filter(s, T)
  BY <1>1, <1>2, <1>7, <1>9
<1> QED
  BY <1>3, <1>10 DEF v

LEMMA FilterTyped ==
    ASSUME NEW S, NEW s \in Seq(S), NEW T
    PROVE  Filter(s, T) \in Seq(S \cap T) /\ Filter(s, T) \in Seq(S)
<1> DEFINE W == {v \in Seq(S) : Filter(v, T) \in Seq(S \cap T)}
<1>1. <<>> \in W
  BY FilterEmpty, EmptySeq
<1>2. ASSUME NEW v \in Seq(S), NEW x \in S, v \in W
      PROVE  Append(v, x) \in W
  <2>1. Append(v, x) \in Seq(S)
    BY AppendProperties
  <2>2. Filter(v, T) \in Seq(S \cap T)
    BY <1>2
  <2>3. Filter(Append(v, x), T) = IF x \in T THEN Append(Filter(v, T), x) ELSE Filter(v, T)
    BY FilterAppend
  <2>4. x \in T => Append(Filter(v, T), x) \in Seq(S \cap T)
    BY <2>2, AppendProperties
  <2> QED
    BY <2>1, <2>2, <2>3, <2>4
<1>3. Seq(S) \subseteq W
  <2> HIDE DEF W
  <2> QED
    BY <1>1, <1>2, AppendInduction
<1>4. S \cap T \subseteq S
  OBVIOUS
<1> QED
  BY <1>3, <1>4, SeqMonotonic

LEMMA FilterAgrees ==
    ASSUME NEW S, NEW s \in Seq(S), NEW T, NEW U, \A x \in S : x \in T <=> x \in U
    PROVE  Filter(s, T) = Filter(s, U)
<1> DEFINE W == {v \in Seq(S) : Filter(v, T) = Filter(v, U)}
<1>1. <<>> \in W
  BY FilterEmpty, EmptySeq
<1>2. ASSUME NEW v \in Seq(S), NEW x \in S, v \in W
      PROVE  Append(v, x) \in W
  <2>1. Append(v, x) \in Seq(S)
    BY AppendProperties
  <2>2. /\ Filter(Append(v, x), T) = IF x \in T THEN Append(Filter(v, T), x) ELSE Filter(v, T)
        /\ Filter(Append(v, x), U) = IF x \in U THEN Append(Filter(v, U), x) ELSE Filter(v, U)
    BY FilterAppend
  <2>3. Filter(Append(v, x), T) = Filter(Append(v, x), U)
    BY <1>2, <2>2
  <2> QED
    BY <2>1, <2>3
<1>3. Seq(S) \subseteq W
  <2> HIDE DEF W
  <2> QED
    BY <1>1, <1>2, AppendInduction
<1> QED
  BY <1>3

LEMMA FilterAll ==
    ASSUME NEW S, NEW s \in Seq(S), NEW T, S \subseteq T
    PROVE  Filter(s, T) = s
<1> DEFINE W == {v \in Seq(S) : Filter(v, T) = v}
<1>1. <<>> \in W
  BY FilterEmpty, EmptySeq
<1>2. ASSUME NEW v \in Seq(S), NEW x \in S, v \in W
      PROVE  Append(v, x) \in W
  <2>1. Append(v, x) \in Seq(S)
    BY AppendProperties
  <2>2. Filter(Append(v, x), T) = IF x \in T THEN Append(Filter(v, T), x) ELSE Filter(v, T)
    BY FilterAppend
  <2> QED
    BY <1>2, <2>1, <2>2
<1>3. Seq(S) \subseteq W
  <2> HIDE DEF W
  <2> QED
    BY <1>1, <1>2, AppendInduction
<1> QED
  BY <1>3

LEMMA FilterNone ==
    ASSUME NEW S, NEW s \in Seq(S), NEW T, S \cap T = {}
    PROVE  Filter(s, T) = <<>>
<1>1. Filter(s, T) \in Seq({})
  BY FilterTyped
<1>2. \A v \in Seq({}) : v = <<>>
  <2> SUFFICES ASSUME NEW v \in Seq({}), v # <<>> PROVE FALSE
    OBVIOUS
  <2>1. Len(v) \in Nat \ {0}
    BY EmptySeq
  <2>2. v[1] \in {}
    BY <2>1, ElementOfSeq
  <2> QED
    BY <2>2
<1> QED
  BY <1>1, <1>2

LEMMA ConcatAppend ==
    ASSUME NEW S, NEW u \in Seq(S), NEW v \in Seq(S), NEW x \in S
    PROVE  u \o Append(v, x) = Append(u \o v, x)
<1>1. Append(v, x) = v \o <<x>> /\ Append(u \o v, x) = (u \o v) \o <<x>>
  BY AppendIsConcat, ConcatProperties
<1>2. <<x>> \in Seq(S)
  OBVIOUS
<1> QED
  BY <1>1, <1>2, ConcatAssociative

LEMMA FilterConcat ==
    ASSUME NEW S, NEW u \in Seq(S), NEW v \in Seq(S), NEW T
    PROVE  Filter(u \o v, T) = Filter(u, T) \o Filter(v, T)
<1> DEFINE W == {s \in Seq(S) : Filter(u \o s, T) = Filter(u, T) \o Filter(s, T)}
<1>1. Filter(u, T) \in Seq(S)
  BY FilterTyped
<1>2. <<>> \in W
  <2>1. u \o <<>> = u /\ Filter(u, T) \o <<>> = Filter(u, T)
    BY <1>1, ConcatEmptySeq
  <2> QED
    BY <2>1, FilterEmpty, EmptySeq
<1>3. ASSUME NEW s \in Seq(S), NEW x \in S, s \in W
      PROVE  Append(s, x) \in W
  <2>1. Append(s, x) \in Seq(S) /\ u \o s \in Seq(S)
    BY AppendProperties, ConcatProperties
  <2>2. Filter(s, T) \in Seq(S)
    BY FilterTyped
  <2>3. u \o Append(s, x) = Append(u \o s, x)
    BY ConcatAppend
  <2>4. Filter(Append(u \o s, x), T) = IF x \in T THEN Append(Filter(u \o s, T), x) ELSE Filter(u \o s, T)
    BY <2>1, FilterAppend
  <2>5. Filter(Append(s, x), T) = IF x \in T THEN Append(Filter(s, T), x) ELSE Filter(s, T)
    BY FilterAppend
  <2>6. Filter(u \o s, T) = Filter(u, T) \o Filter(s, T)
    BY <1>3
  <2>7. Filter(u, T) \o Append(Filter(s, T), x) = Append(Filter(u, T) \o Filter(s, T), x)
    BY <1>1, <2>2, ConcatAppend
  <2>8. Filter(u \o Append(s, x), T) = Filter(u, T) \o Filter(Append(s, x), T)
    <3>1. CASE x \in T
      BY <3>1, <2>3, <2>4, <2>5, <2>6, <2>7
    <3>2. CASE x \notin T
      BY <3>2, <2>3, <2>4, <2>5, <2>6
    <3> QED
      BY <3>1, <3>2
  <2> QED
    BY <2>1, <2>8
<1>4. Seq(S) \subseteq W
  <2> HIDE DEF W
  <2> QED
    BY <1>2, <1>3, AppendInduction
<1> QED
  BY <1>4

LEMMA AppendRange ==
    ASSUME NEW S, NEW s \in Seq(S), NEW x \in S
    PROVE  Range(Append(s, x)) = Range(s) \cup {x}
<1> DEFINE v == Append(s, x)
<1>1. Len(s) \in Nat /\ DOMAIN s = 1..Len(s) /\ v \in Seq(S)
  BY AppendProperties, LenProperties
<1>2. Len(v) = Len(s) + 1 /\ v[Len(s) + 1] = x /\ \A i \in 1..Len(s) : v[i] = s[i]
  BY AppendProperties
<1> HIDE DEF v
<1>3. DOMAIN v = 1..(Len(s) + 1)
  BY <1>1, <1>2, LenProperties
<1>4. \A i \in 1..(Len(s) + 1) : i = Len(s) + 1 \/ i \in 1..Len(s)
  BY <1>1
<1>5. \A i \in 1..Len(s) : i \in 1..(Len(s) + 1)
  BY <1>1
<1>6. Len(s) + 1 \in 1..(Len(s) + 1)
  BY <1>1
<1>7. Range(v) = Range(s) \cup {x}
  BY <1>1, <1>2, <1>3, <1>4, <1>5, <1>6 DEF Range
<1> QED
  BY <1>7 DEF v

LEMMA ConcatRange ==
    ASSUME NEW S, NEW u \in Seq(S), NEW v \in Seq(S)
    PROVE  Range(u \o v) = Range(u) \cup Range(v)
<1> DEFINE W == {s \in Seq(S) : Range(u \o s) = Range(u) \cup Range(s)}
<1>1. <<>> \in W
  <2>1. Range(<<>>) = {}
    BY DEF Range
  <2> QED
    BY <2>1, ConcatEmptySeq, EmptySeq
<1>2. ASSUME NEW s \in Seq(S), NEW x \in S, s \in W
      PROVE  Append(s, x) \in W
  <2>1. Append(s, x) \in Seq(S) /\ u \o s \in Seq(S)
    BY AppendProperties, ConcatProperties
  <2>2. u \o Append(s, x) = Append(u \o s, x)
    BY ConcatAppend
  <2>3. Range(Append(u \o s, x)) = Range(u \o s) \cup {x}
    <3>1. \A t \in Seq(S) : Range(Append(t, x)) = Range(t) \cup {x}
      BY AppendRange
    <3> QED
      BY <2>1, <3>1
  <2>4. Range(Append(s, x)) = Range(s) \cup {x}
    BY AppendRange
  <2> QED
    BY <1>2, <2>1, <2>2, <2>3, <2>4
<1>3. Seq(S) \subseteq W
  <2> HIDE DEF W
  <2> QED
    BY <1>1, <1>2, AppendInduction
<1> QED
  BY <1>3

LEMMA FilterRange ==
    ASSUME NEW S, NEW s \in Seq(S), NEW T
    PROVE  Range(Filter(s, T)) = Range(s) \cap T
<1> DEFINE W == {v \in Seq(S) : Range(Filter(v, T)) = Range(v) \cap T}
<1>1. <<>> \in W
  <2>1. Range(<<>>) = {}
    BY DEF Range
  <2> QED
    BY <2>1, FilterEmpty, EmptySeq
<1>2. ASSUME NEW v \in Seq(S), NEW x \in S, v \in W
      PROVE  Append(v, x) \in W
  <2>1. Append(v, x) \in Seq(S) /\ Filter(v, T) \in Seq(S)
    BY AppendProperties, FilterTyped
  <2>2. Filter(Append(v, x), T) = IF x \in T THEN Append(Filter(v, T), x) ELSE Filter(v, T)
    BY FilterAppend
  <2>3. /\ Range(Append(v, x)) = Range(v) \cup {x}
        /\ Range(Append(Filter(v, T), x)) = Range(Filter(v, T)) \cup {x}
    BY <2>1, AppendRange
  <2> QED
    BY <1>2, <2>1, <2>2, <2>3
<1>3. Seq(S) \subseteq W
  <2> HIDE DEF W
  <2> QED
    BY <1>1, <1>2, AppendInduction
<1> QED
  BY <1>3

(* A sequence around one of its elements.                                    *)
LEMMA AroundElement ==
    ASSUME NEW S, NEW s \in Seq(S), NEW i \in 1..Len(s)
    PROVE  /\ SubSeq(s, 1, i - 1) \in Seq(S) /\ SubSeq(s, i + 1, Len(s)) \in Seq(S)
           /\ s[i] \in S /\ <<s[i]>> \in Seq(S)
           /\ SubSeq(s, i, Len(s)) = <<s[i]>> \o SubSeq(s, i + 1, Len(s))
           /\ s = SubSeq(s, 1, i - 1) \o (<<s[i]>> \o SubSeq(s, i + 1, Len(s)))
<1>1. Len(s) \in Nat /\ s[i] \in S
  BY LenProperties, ElementOfSeq
<1>2. \A j \in 1..(i - 1) : s[j] \in S
  BY <1>1, ElementOfSeq
<1>3. \A j \in (i + 1)..Len(s) : s[j] \in S
  BY <1>1, ElementOfSeq
<1>4. SubSeq(s, 1, i - 1) \in Seq(S) /\ SubSeq(s, i + 1, Len(s)) \in Seq(S)
  <2>1. SubSeq(s, 1, i - 1) \in Seq(S)
    <3>1. i - 1 \in Int
      OBVIOUS
    <3> QED
      BY <1>2, <3>1, SubSeqProperties
  <2>2. SubSeq(s, i + 1, Len(s)) \in Seq(S)
    <3>1. i + 1 \in Int /\ Len(s) \in Int
      BY <1>1
    <3> QED
      BY <1>3, <3>1, SubSeqProperties
  <2> QED
    BY <2>1, <2>2
<1>5. SubSeq(s, i, Len(s)) = <<s[i]>> \o SubSeq(s, i + 1, Len(s))
  <2>1. Len(s) \in i..Len(s)
    BY <1>1
  <2> QED
    BY <2>1, SubSeqRecursiveFirst
<1>6. s = SubSeq(s, 1, i - 1) \o SubSeq(s, i, Len(s))
  <2>1. /\ 1 \in 1..(Len(s) + 1) /\ i - 1 \in (1 - 1)..Len(s) /\ Len(s) \in (i - 1)..Len(s)
        /\ (i - 1) + 1 = i
    BY <1>1
  <2>2. SubSeq(s, 1, i - 1) \o SubSeq(s, (i - 1) + 1, Len(s)) = SubSeq(s, 1, Len(s))
    BY <2>1, ConcatAdjacentSubSeq
  <2> QED
    BY <2>1, <2>2, SubSeqFull
<1>7. <<s[i]>> \in Seq(S)
  <2>1. \A x \in S : <<x>> \in Seq(S)
    OBVIOUS
  <2> QED
    BY <1>1, <2>1
<1> QED
  BY <1>1, <1>4, <1>5, <1>6, <1>7, Zenon

LEMMA OwnRange ==
    ASSUME NEW S, NEW s \in Seq(S)
    PROVE  /\ Range(s) \subseteq S /\ s \in Seq(Range(s))
           /\ Len(s) \in Nat /\ DOMAIN s = 1..Len(s) /\ \A i \in 1..Len(s) : s[i] \in Range(s)
<1>1. Len(s) \in Nat /\ DOMAIN s = 1..Len(s) /\ s \in [1..Len(s) -> S]
  BY LenProperties
<1>2. \A i \in 1..Len(s) : s[i] \in Range(s)
  BY <1>1 DEF Range
<1>3. Range(s) \subseteq S
  BY <1>1 DEF Range
<1>4. s \in [1..Len(s) -> Range(s)]
  BY <1>1, <1>2
<1>5. s \in Seq(Range(s))
  BY <1>1, <1>4, SeqDef
<1> QED
  BY <1>1, <1>2, <1>3, <1>5

LEMMA SuffixOfConcat ==
    ASSUME NEW S, NEW u \in Seq(S), NEW v \in Seq(S)
    PROVE  SubSeq(u \o v, Len(u) + 1, Len(u \o v)) = v
<1> DEFINE s == u \o v
           w == SubSeq(s, Len(u) + 1, Len(s))
<1>1. /\ Len(u) \in Nat /\ Len(v) \in Nat /\ s \in Seq(S) /\ Len(s) = Len(u) + Len(v)
      /\ \A i \in 1..(Len(u) + Len(v)) : s[i] = IF i <= Len(u) THEN u[i] ELSE v[i - Len(u)]
  BY ConcatProperties, LenProperties
<1> HIDE DEF s
<1>2. \A i \in (Len(u) + 1)..Len(s) : s[i] \in S
  <2>1. \A i \in (Len(u) + 1)..Len(s) : i \in 1..Len(s)
    BY <1>1
  <2> QED
    BY <1>1, <2>1, ElementOfSeq
<1>3. Len(u) + 1 \in Int /\ Len(s) \in Int
  BY <1>1
<1>4. /\ w \in Seq(S)
      /\ Len(w) = IF Len(u) + 1 <= Len(s) THEN Len(s) - (Len(u) + 1) + 1 ELSE 0
      /\ \A i \in 1..(Len(s) - (Len(u) + 1) + 1) : w[i] = s[(Len(u) + 1) + i - 1]
  BY <1>2, <1>3, SubSeqProperties
<1> HIDE DEF w
<1>5. Len(w) = Len(v)
  BY <1>1, <1>4
<1>6. \A i \in 1..Len(v) : w[i] = v[i]
  <2> SUFFICES ASSUME NEW i \in 1..Len(v) PROVE w[i] = v[i]
    OBVIOUS
  <2>1. /\ i \in 1..(Len(s) - (Len(u) + 1) + 1) /\ (Len(u) + 1) + i - 1 = Len(u) + i
        /\ Len(u) + i \in 1..(Len(u) + Len(v)) /\ ~(Len(u) + i <= Len(u))
        /\ (Len(u) + i) - Len(u) = i
    BY <1>1
  <2>2. w[i] = s[Len(u) + i]
    BY <1>4, <2>1
  <2> QED
    BY <1>1, <2>1, <2>2
<1>7. w = v
  BY <1>4, <1>5, <1>6, SeqEqual
<1> QED
  BY <1>7 DEF w, s

LEMMA SuffixRange ==
    ASSUME NEW S, NEW s \in Seq(S), NEW k \in 1..(Len(s) + 1)
    PROVE  Range(SubSeq(s, k, Len(s))) = {s[i] : i \in k..Len(s)}
<1> DEFINE w == SubSeq(s, k, Len(s))
<1>1. Len(s) \in Nat /\ \A i \in k..Len(s) : i \in 1..Len(s)
  BY LenProperties
<1>2. \A i \in k..Len(s) : s[i] \in S
  BY <1>1, ElementOfSeq
<1>3. k \in Int /\ Len(s) \in Int
  BY <1>1
<1>4. /\ w \in Seq(S)
      /\ Len(w) = IF k <= Len(s) THEN Len(s) - k + 1 ELSE 0
      /\ \A i \in 1..(Len(s) - k + 1) : w[i] = s[k + i - 1]
  BY <1>2, <1>3, SubSeqProperties
<1> HIDE DEF w
<1>5. Len(w) = Len(s) - k + 1 /\ DOMAIN w = 1..Len(w)
  BY <1>1, <1>4, LenProperties
<1>6. Range(w) \subseteq {s[i] : i \in k..Len(s)}
  <2> SUFFICES ASSUME NEW i \in 1..Len(w) PROVE w[i] \in {s[j] : j \in k..Len(s)}
    BY <1>5 DEF Range
  <2>1. w[i] = s[k + i - 1] /\ k + i - 1 \in k..Len(s)
    BY <1>1, <1>4, <1>5
  <2> QED
    BY <2>1
<1>7. {s[i] : i \in k..Len(s)} \subseteq Range(w)
  <2> SUFFICES ASSUME NEW i \in k..Len(s) PROVE s[i] \in Range(w)
    OBVIOUS
  <2>1. i - k + 1 \in 1..Len(w) /\ k + (i - k + 1) - 1 = i
    BY <1>1, <1>5
  <2>2. w[i - k + 1] = s[k + (i - k + 1) - 1]
    BY <1>4, <1>5, <2>1
  <2>3. w[i - k + 1] = s[i]
    BY <2>1, <2>2
  <2> QED
    BY <1>5, <2>1, <2>3 DEF Range
<1>8. Range(w) = {s[i] : i \in k..Len(s)}
  BY <1>6, <1>7
<1> QED
  BY <1>8 DEF w

LEMMA AppendedPart ==
    ASSUME NEW S, NEW s \in Seq(S), NEW x \in S,
           NEW i \in Int, NEW j \in Int, 1 <= i, j <= Len(s)
    PROVE  SubSeq(Append(s, x), i, j) = SubSeq(s, i, j)
<1> DEFINE v == Append(s, x)
           a == SubSeq(s, i, j)
           b == SubSeq(v, i, j)
<1>1. Len(s) \in Nat /\ \A k \in 1..Len(s) : s[k] \in S /\ v[k] = s[k]
  BY LenProperties, ElementOfSeq, AppendProperties
<1> HIDE DEF v
<1>2. \A k \in i..j : s[k] \in S /\ v[k] = s[k]
  <2>1. \A k \in i..j : k \in 1..Len(s)
    BY <1>1
  <2> QED
    BY <1>1, <2>1
<1>3. /\ a \in Seq(S) /\ Len(a) = IF i <= j THEN j - i + 1 ELSE 0
      /\ \A k \in 1..(j - i + 1) : a[k] = s[i + k - 1]
  BY <1>2, SubSeqProperties
<1>4. /\ b \in Seq(S) /\ Len(b) = IF i <= j THEN j - i + 1 ELSE 0
      /\ \A k \in 1..(j - i + 1) : b[k] = v[i + k - 1]
  <2>1. \A k \in i..j : v[k] \in S
    BY <1>2
  <2> QED
    BY <2>1, SubSeqProperties
<1> HIDE DEF a, b
<1>5. \A k \in 1..Len(a) : b[k] = a[k]
  <2> SUFFICES ASSUME NEW k \in 1..Len(a) PROVE b[k] = a[k]
    OBVIOUS
  <2>1. k \in 1..(j - i + 1) /\ i + k - 1 \in i..j
    BY <1>3
  <2> QED
    BY <1>2, <1>3, <1>4, <2>1
<1>6. b = a
  BY <1>3, <1>4, <1>5, SeqEqual
<1> QED
  BY <1>6 DEF a, b, v
=============================================================================
