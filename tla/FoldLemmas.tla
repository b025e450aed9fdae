----------------------------- MODULE FoldLemmas -----------------------------
(***************************************************************************)
(* Facts about the community modules' operators that several components    *)
(* are built from: Min, and the folds over a finite set, whose recursive   *)
(* definition must be shown to define something before it says anything.   *)
(* Each is by least counterexample: of the sets for which a statement      *)
(* fails, one has the fewest elements.                                     *)
(***************************************************************************)
EXTENDS Integers, FiniteSetsExt, FiniteSetTheorems, WellFoundedInduction, TLAPS

\* A set of natural numbers that is not empty has a least element, Min.
LEMMA MinOfNats ==
    ASSUME NEW S, S \subseteq Nat, S # {}
    PROVE  /\ Min(S) \in S
           /\ \A x \in S : Min(S) <= x
<1> DEFINE Less == {ss \in Nat \X Nat : ss[1] < ss[2]}
<1>1. IsWellFoundedOn(Less, Nat)
    BY NatLessThanWellFounded, Zenon DEF OpToRel
<1>2. \E x \in S : \A y \in S : <<y, x>> \notin Less
  <2> HIDE DEF Less
  <2> QED BY <1>1, WFMin
<1>3. PICK x \in S : \A y \in S : <<y, x>> \notin Less
    BY <1>2
<1>4. ASSUME NEW y \in S PROVE x <= y
  <2>1. <<y, x>> \in Nat \X Nat
    OBVIOUS
  <2>2. ~ y < x
    BY <1>3, <2>1
  <2> QED BY <2>2
<1> QED BY <1>4 DEF Min

\* A fold takes the chosen element C[s] of s after the rest of s: what a fold g
\* from base with the step F is, on every subset of S.
Folds(g, S, base, F, C) ==
    \A s \in SUBSET S :
        g[s] = IF s = {} THEN base ELSE F[<<g[s \ {C[s]}], C[s]>>]

\* The subsets of a finite set and what a choice takes from them.
LEMMA ChoiceShrinks ==
    ASSUME NEW S, IsFiniteSet(S), NEW C, \A s \in SUBSET S : s # {} => C[s] \in s
    PROVE  /\ \A s \in SUBSET S : /\ IsFiniteSet(s) /\ Cardinality(s) \in Nat
                                  /\ Cardinality(s) <= Cardinality(S)
                                  /\ Cardinality(s) = 0 <=> s = {}
           /\ \A s \in SUBSET S : s # {} =>
                    /\ s \ {C[s]} \in SUBSET S
                    /\ Cardinality(s \ {C[s]}) = Cardinality(s) - 1
<1>1. \A s \in SUBSET S : /\ IsFiniteSet(s) /\ Cardinality(s) \in Nat
                          /\ Cardinality(s) <= Cardinality(S)
                          /\ Cardinality(s) = 0 <=> s = {}
    BY FS_Subset, FS_CardinalityType, FS_EmptySet
<1> QED BY <1>1, FS_RemoveElement

\* There is such a fold, with values in V.
LEMMA FoldDefined ==
    ASSUME NEW S, IsFiniteSet(S), NEW V, NEW base \in V, NEW F \in [V \X S -> V],
           NEW C, \A s \in SUBSET S : s # {} => C[s] \in s
    PROVE  \E g \in [SUBSET S -> V] : Folds(g, S, base, F, C)
<1> DEFINE Step(g, s) == IF s = {} THEN base ELSE F[<<g[s \ {C[s]}], C[s]>>]
           Upto(g, n) == \A s \in SUBSET S : Cardinality(s) <= n => g[s] = Step(g, s)
           Bad == {n \in Nat : ~ \E g \in [SUBSET S -> V] : Upto(g, n)}
<1>1. \A s \in SUBSET S : /\ Cardinality(s) \in Nat /\ Cardinality(s) <= Cardinality(S)
                          /\ Cardinality(s) = 0 <=> s = {}
    BY ChoiceShrinks
<1>2. \A s \in SUBSET S : s # {} => /\ s \ {C[s]} \in SUBSET S
                                    /\ Cardinality(s \ {C[s]}) = Cardinality(s) - 1
    BY ChoiceShrinks
<1>3. Bad = {}
  <2> SUFFICES ASSUME Bad # {} PROVE FALSE
    OBVIOUS
  <2>1. PICK n \in Bad : \A y \in Bad : n <= y
    <3>1. Bad \subseteq Nat
        OBVIOUS
    <3> HIDE DEF Bad
    <3> QED BY <3>1, MinOfNats
  <2>2. n \in Nat
    OBVIOUS
  <2>3. n # 0
    <3> DEFINE g == [s \in SUBSET S |-> base]
    <3>1. \A s \in SUBSET S : Cardinality(s) <= 0 => s = {}
        BY <1>1
    <3>2. g \in [SUBSET S -> V] /\ Upto(g, 0)
        BY <3>1
    <3>3. 0 \notin Bad
      <4> HIDE DEF g, Upto
      <4> QED BY <3>2
    <3> QED BY <3>3
  <2>4. n - 1 \in Nat /\ n - 1 \notin Bad
    <3> HIDE DEF Bad
    <3> QED BY <2>1, <2>2, <2>3
  <2>5. PICK g \in [SUBSET S -> V] : Upto(g, n - 1)
    BY <2>4
  <2> DEFINE h == [s \in SUBSET S |-> Step(g, s)]
  <2>6. h \in [SUBSET S -> V]
    <3>1. \A s \in SUBSET S : s # {} => C[s] \in S /\ g[s \ {C[s]}] \in V
        BY <1>2
    <3> QED BY <3>1
  <2>7. ASSUME NEW s \in SUBSET S, Cardinality(s) <= n - 1 PROVE h[s] = g[s]
    BY <2>5, <2>7
  <2>8. Upto(h, n)
    <3> SUFFICES ASSUME NEW s \in SUBSET S, Cardinality(s) <= n PROVE h[s] = Step(h, s)
        OBVIOUS
    <3>1. CASE s = {}
        BY <3>1
    <3>2. CASE s # {}
      <4>1. s \ {C[s]} \in SUBSET S /\ Cardinality(s \ {C[s]}) <= n - 1
        BY <1>1, <1>2, <2>2, <3>2
      <4>2. h[s \ {C[s]}] = g[s \ {C[s]}]
        BY <2>7, <4>1
      <4> QED BY <3>2, <4>2
    <3> QED BY <3>1, <3>2
  <2> QED BY <2>1, <2>6, <2>8
<1>4. PICK g \in [SUBSET S -> V] : Upto(g, Cardinality(S))
  <2>1. Cardinality(S) \in Nat
    BY FS_CardinalityType
  <2> QED BY <1>3, <2>1
<1> QED BY <1>1, <1>4 DEF Folds

\* The sum of the values of L over S is a natural number, and none exceeds it.
LEMMA SumBounds ==
    ASSUME NEW S, IsFiniteSet(S), NEW L \in [S -> Nat],
           NEW C, \A s \in SUBSET S : s # {} => C[s] \in s,
           NEW h, h[{}] = 0,
           \A s \in SUBSET S : s # {} => h[s] = L[C[s]] + h[s \ {C[s]}]
    PROVE  h[S] \in Nat /\ \A x \in S : L[x] <= h[S]
<1> DEFINE Right(s) == h[s] \in Nat /\ \A x \in s : L[x] <= h[s]
           Bad == {n \in Nat : \E s \in SUBSET S : n = Cardinality(s) /\ ~ Right(s)}
<1>1. \A s \in SUBSET S : Cardinality(s) \in Nat
    BY FS_Subset, FS_CardinalityType
<1>2. Bad = {}
  <2> SUFFICES ASSUME Bad # {} PROVE FALSE
    OBVIOUS
  <2>1. PICK n \in Bad : \A y \in Bad : n <= y
    <3>1. Bad \subseteq Nat
        OBVIOUS
    <3> HIDE DEF Bad
    <3> QED BY <3>1, MinOfNats
  <2>2. PICK s \in SUBSET S : n = Cardinality(s) /\ ~ Right(s)
    BY <2>1
  <2>3. s # {}
    <3>1. Right({})
        OBVIOUS
    <3> HIDE DEF Right
    <3> QED BY <2>2, <3>1
  <2> DEFINE r == s \ {C[s]}
  <2>4. C[s] \in s /\ r \in SUBSET S /\ h[s] = L[C[s]] + h[r]
    BY <2>3
  <2>5. Cardinality(r) = n - 1 /\ Cardinality(r) \in Nat
    BY <1>1, <2>2, <2>3, <2>4, ChoiceShrinks
  <2>6. Right(r)
    <3>1. n \in Nat
        OBVIOUS
    <3>2. Cardinality(r) \notin Bad
      <4> HIDE DEF Bad
      <4> QED BY <2>1, <2>5, <3>1
    <3> QED BY <2>4, <2>5, <3>2
  <2>7. L[C[s]] \in Nat /\ \A x \in s : L[x] \in Nat
    BY <2>4
  <2>8. \A x \in s : x = C[s] \/ x \in r
    OBVIOUS
  <2>9. Right(s)
    <3> HIDE DEF r
    <3> QED BY <2>4, <2>6, <2>7, <2>8
  <2> QED BY <2>2, <2>9
<1> QED BY <1>1, <1>2

=============================================================================
