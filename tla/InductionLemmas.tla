-------------------------- MODULE InductionLemmas ---------------------------
(***************************************************************************)
(* Induction and recursion, stated about sets and functions instead of     *)
(* operators: a statement proved by induction is a set of the elements it  *)
(* holds for, a recursive definition a function "step" from an element and *)
(* the value one step before to the value.  Nothing here is about the      *)
(* code; the proofs about the recursive operators of the models cite it.   *)
(***************************************************************************)
EXTENDS Integers, FiniteSets, Folds, FiniteSetsExt, FiniteSetTheorems,
        WellFoundedInduction, TLAPS

\* A nonempty set of naturals has a least element.
LEMMA NatMinimum ==
  ASSUME NEW T \in SUBSET Nat, T # {}
  PROVE  \E n \in T : \A m \in T : n <= m
<1> DEFINE R == OpToRel(<, Nat)
<1>1. IsWellFoundedOn(R, Nat)
  BY NatLessThanWellFounded
<1>2. R = {s \in Nat \X Nat : s[1] < s[2]}
  BY DEF OpToRel
<1> HIDE DEF R
<1>3. PICK n \in T : \A m \in T : ~(<<m, n>> \in R)
  BY <1>1, WFMin
<1>4. \A m \in T : n <= m
  <2> SUFFICES ASSUME NEW m \in T, ~(n <= m) PROVE FALSE
    OBVIOUS
  <2>1. <<m, n>> \in R
    BY <1>2
  <2> QED
    BY <1>3, <2>1
<1> QED
  BY <1>4

\* Induction over the elements of a set that have a rank.
LEMMA RankInduction ==
  ASSUME NEW D, NEW rank \in [D -> Nat], NEW Q,
         \A d \in D : (\A e \in D : rank[e] < rank[d] => e \in Q) => d \in Q
  PROVE  \A d \in D : d \in Q
<1> SUFFICES ASSUME NEW x \in D, x \notin Q PROVE FALSE
  OBVIOUS
<1> DEFINE T == {rank[d] : d \in {e \in D : e \notin Q}}
<1>1. T \in SUBSET Nat /\ T # {}
  OBVIOUS
<1> HIDE DEF T
<1>2. PICK n \in T : \A m \in T : n <= m
  BY <1>1, NatMinimum
<1>3. PICK d \in D : d \notin Q /\ rank[d] = n
  BY <1>2 DEF T
<1>4. PICK e \in D : rank[e] < rank[d] /\ e \notin Q
  BY <1>3
<1>5. rank[e] \in T
  BY <1>4 DEF T
<1> QED
  BY <1>2, <1>3, <1>4, <1>5

\* Induction over the naturals.
LEMMA SetInduction ==
  ASSUME NEW Q, 0 \in Q, \A n \in Nat : n \in Q => n + 1 \in Q
  PROVE  \A n \in Nat : n \in Q
<1> DEFINE rank == [n \in Nat |-> n]
<1>1. rank \in [Nat -> Nat]
  OBVIOUS
<1>2. ASSUME NEW d \in Nat, \A e \in Nat : rank[e] < rank[d] => e \in Q
      PROVE  d \in Q
  <2>1. CASE d = 0
    BY <2>1
  <2>2. CASE d # 0
    <3>1. d - 1 \in Nat /\ rank[d - 1] < rank[d]
      BY <2>2
    <3>2. d - 1 \in Q
      BY <1>2, <3>1
    <3> QED
      BY <3>1, <3>2
  <2> QED
    BY <2>1, <2>2
<1> HIDE DEF rank
<1> QED
  BY <1>1, <1>2, RankInduction

\* A recursion along a rank with a bound: at d it uses the value at up[d].
Recursive(D, T, M, rank, up, base, step) ==
  /\ M \in Nat /\ rank \in [D -> 0..M] /\ up \in [D -> D]
  /\ base \in [D -> T] /\ step \in [D \X T -> T]
  /\ \A d \in D : rank[d] > 0 => rank[up[d]] < rank[d]

Solves(g, D, T, rank, up, base, step) ==
  /\ g \in [D -> T]
  /\ \A d \in D : g[d] = IF rank[d] = 0 THEN base[d] ELSE step[<<d, g[up[d]]>>]

\* It defines a function.
LEMMA Recursion ==
  ASSUME NEW D, NEW T, NEW M, NEW rank, NEW up, NEW base, NEW step,
         Recursive(D, T, M, rank, up, base, step)
  PROVE  \E g : Solves(g, D, T, rank, up, base, step)
<1> USE DEF Recursive
<1> DEFINE Value(g, d) == IF rank[d] = 0 THEN base[d] ELSE step[<<d, g[up[d]]>>]
           UpTo(g, n) == \A d \in D : rank[d] <= n => g[d] = Value(g, d)
           Q == {n \in Nat : \E g \in [D -> T] : UpTo(g, n)}
<1>1. \A g \in [D -> T], d \in D : Value(g, d) \in T
  OBVIOUS
<1>2. 0 \in Q
  <2>1. UpTo(base, 0)
    OBVIOUS
  <2> QED
    BY <2>1
<1>3. ASSUME NEW n \in Nat, n \in Q
      PROVE  n + 1 \in Q
  <2>1. PICK g \in [D -> T] : UpTo(g, n)
    BY <1>3
  <2> DEFINE h == [d \in D |-> IF rank[d] <= n THEN g[d] ELSE Value(g, d)]
  <2>2. h \in [D -> T]
    BY <1>1
  <2>3. ASSUME NEW d \in D, rank[d] <= n + 1
        PROVE  h[d] = Value(h, d)
    <3>1. h[d] = Value(g, d)
      BY <2>1
    <3>2. CASE rank[d] = 0
      BY <3>1, <3>2
    <3>3. CASE rank[d] > 0
      <4>1. up[d] \in D /\ rank[up[d]] <= n
        BY <2>3, <3>3
      <4>2. h[up[d]] = g[up[d]]
        BY <4>1
      <4> QED
        BY <3>1, <4>2
    <3> QED
      BY <3>2, <3>3
  <2>4. UpTo(h, n + 1)
    BY <2>3
  <2> HIDE DEF h, UpTo
  <2> QED
    BY <2>2, <2>4
<1>4. M \in Q
  <2> HIDE DEF Q
  <2> QED
    BY <1>2, <1>3, SetInduction
<1>5. PICK g \in [D -> T] : UpTo(g, M)
  BY <1>4
<1>6. \A d \in D : g[d] = Value(g, d)
  BY <1>5
<1> QED
  BY <1>6 DEF Solves

\* FoldSet takes the elements of a finite set out one by one: what holds for
\* {}, and for s if it holds for s without the element taken out, holds for S.
LEMMA SubsetInduction ==
  ASSUME NEW S, IsFiniteSet(S), NEW Q, {} \in Q,
         \A s \in SUBSET S : s # {} /\ s \ {CHOOSE x \in s : TRUE} \in Q => s \in Q
  PROVE  S \in Q
<1> DEFINE rank == [s \in SUBSET S |-> Cardinality(s)]
<1>1. \A s \in SUBSET S : IsFiniteSet(s) /\ Cardinality(s) \in Nat
  BY FS_Subset, FS_CardinalityType
<1>2. rank \in [SUBSET S -> Nat]
  BY <1>1
<1>3. ASSUME NEW s \in SUBSET S, \A t \in SUBSET S : rank[t] < rank[s] => t \in Q
      PROVE  s \in Q
  <2>1. CASE s = {}
    BY <2>1
  <2>2. CASE s # {}
    <3> DEFINE x == CHOOSE x \in s : TRUE
    <3>1. x \in s
      BY <2>2
    <3>2. Cardinality(s \ {x}) = Cardinality(s) - 1
      BY <1>1, <3>1, FS_RemoveElement
    <3>3. s \ {x} \in SUBSET S /\ rank[s \ {x}] < rank[s]
      BY <1>1, <3>2
    <3> QED
      BY <1>3, <2>2, <3>3
  <2> QED
    BY <2>1, <2>2
<1> HIDE DEF rank
<1>4. \A s \in SUBSET S : s \in Q
  BY <1>2, <1>3, RankInduction
<1> QED
  BY <1>4

\* What FoldSet computes for the subsets of S, from b and the function op.
FoldsWith(g, S, T, b, op) ==
  /\ g \in [SUBSET S -> T]
  /\ \A s \in SUBSET S :
       g[s] = IF s = {} THEN b
              ELSE op[<<CHOOSE x \in s : TRUE, g[s \ {CHOOSE x \in s : TRUE}]>>]

\* There is such a function.
LEMMA FoldRecursion ==
  ASSUME NEW S, IsFiniteSet(S), NEW T, NEW b \in T, NEW op \in [S \X T -> T]
  PROVE  \E g : FoldsWith(g, S, T, b, op)
<1> DEFINE Pick(s) == CHOOSE x \in s : TRUE
           D == SUBSET S
           rank == [s \in D |-> Cardinality(s)]
           up == [s \in D |-> s \ {Pick(s)}]
           base == [s \in D |-> b]
           step == [e \in D \X T |-> IF e[1] = {} THEN b ELSE op[<<Pick(e[1]), e[2]>>]]
           M == Cardinality(S)
<1>1. \A s \in D : /\ IsFiniteSet(s) /\ Cardinality(s) \in Nat /\ Cardinality(s) <= M
                    /\ (Cardinality(s) = 0 <=> s = {})
  BY FS_Subset, FS_CardinalityType, FS_EmptySet
<1>2. \A s \in D : s # {} => Pick(s) \in s
  OBVIOUS
<1>3. M \in Nat /\ rank \in [D -> 0..M] /\ up \in [D -> D] /\ base \in [D -> T]
  BY <1>1, FS_CardinalityType
<1>4. step \in [D \X T -> T]
  BY <1>2
<1>5. \A s \in D : rank[s] > 0 => rank[up[s]] < rank[s]
  <2> SUFFICES ASSUME NEW s \in D, rank[s] > 0
               PROVE  rank[up[s]] < rank[s]
    OBVIOUS
  <2>1. s # {} /\ Pick(s) \in s
    BY <1>1, <1>2
  <2>2. Cardinality(s \ {Pick(s)}) = Cardinality(s) - 1
    BY <1>1, <2>1, FS_RemoveElement
  <2> QED
    BY <1>1, <2>2
<1>6. \A s \in D : (rank[s] = 0 <=> s = {}) /\ base[s] = b /\ up[s] = s \ {Pick(s)}
  BY <1>1
<1>7. \A s \in D, t \in T : s # {} => step[<<s, t>>] = op[<<Pick(s), t>>]
  OBVIOUS
<1> HIDE DEF rank, up, base, step, M, D
<1>8. PICK g : Solves(g, D, T, rank, up, base, step)
  <2>1. Recursive(D, T, M, rank, up, base, step)
    BY <1>3, <1>4, <1>5 DEF Recursive
  <2> QED
    BY <2>1, Recursion
<1>9. ASSUME NEW s \in D
      PROVE  g[s] = IF s = {} THEN b ELSE op[<<Pick(s), g[s \ {Pick(s)}]>>]
  <2>1. up[s] \in D /\ g[up[s]] \in T
    BY <1>3, <1>8 DEF Solves
  <2> HIDE DEF Pick
  <2>2. up[s] = s \ {Pick(s)} /\ base[s] = b /\ (rank[s] = 0 <=> s = {})
    BY <1>6
  <2>3. CASE s = {}
    BY <1>8, <2>2, <2>3 DEF Solves
  <2>4. CASE s # {}
    <3>1. g[s] = step[<<s, g[up[s]]>>]
      BY <1>8, <2>2, <2>4 DEF Solves
    <3> QED
      BY <1>7, <2>1, <2>2, <2>4, <3>1
  <2> QED
    BY <2>3, <2>4
<1>10. g \in [D -> T]
  BY <1>8 DEF Solves
<1>11. FoldsWith(g, S, T, b, op)
  <2> HIDE DEF Pick
  <2>1. \A s \in D : g[s] = IF s = {} THEN b ELSE op[<<Pick(s), g[s \ {Pick(s)}]>>]
    BY <1>9
  <2> QED
    BY Zenon, <1>10, <2>1 DEF FoldsWith, D, Pick
<1> QED
  BY <1>11
=============================================================================
