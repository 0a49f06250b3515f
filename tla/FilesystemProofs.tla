-------------------------- MODULE FilesystemProofs --------------------------
(***************************************************************************)
(* Proofs about Filesystem, for every tree of folders, every set of files  *)
(* and every choice of the driver calls that fail, within the hypotheses   *)
(* Benign and KeysClosed.                                                  *)
(*                                                                         *)
(* A call passes on a world through the operators it is made of, so each   *)
(* operator has a lemma that says what it does to a sound world, and the   *)
(* lemma of a call cites those of its steps.  In the middle of a call the  *)
(* cache may show files that the camera just lost, or miss files that it   *)
(* just got: SoundBut names them.                                          *)
(***************************************************************************)
EXTENDS Filesystem, InductionLemmas
-----------------------------------------------------------------------------
(* The folders.                                                            *)

Depth ==
  CHOOSE depth \in [Paths -> 0..Cardinality(Dirs)] :
    depth[Root] = 0 /\ \A p \in Dirs : depth[p] = depth[Parent[p]] + 1

\* The depth of a folder is finite and one more than that of the folder above.
LEMMA DepthFacts ==
  /\ Cardinality(Dirs) \in Nat /\ Depth \in [Paths -> 0..Cardinality(Dirs)]
  /\ Depth[Root] = 0 /\ \A p \in Dirs : Depth[p] = Depth[Parent[p]] + 1
  /\ \A p \in Dirs : Parent[p] \in Paths
  BY FilesystemAssumption, TreeAssumption, FS_CardinalityType DEF Depth

\* The folders above p are its parent and those above the parent.
LEMMA AboveIs ==
  /\ Above \in [Paths -> SUBSET Paths]
  /\ Above[Root] = {}
  /\ \A p \in Dirs : Above[p] = {Parent[p]} \cup Above[Parent[p]]
<1> DEFINE up == [p \in Paths |-> IF p = Root THEN p ELSE Parent[p]]
           base == [p \in Paths |-> {}]
           step == [e \in Paths \X SUBSET Paths |->
                      IF e[1] = Root THEN {} ELSE {Parent[e[1]]} \cup e[2]]
<1>1. \A p \in Paths : p # Root => p \in Dirs /\ Parent[p] \in Paths
  BY DepthFacts DEF Paths
<1>2. Recursive(Paths, SUBSET Paths, Cardinality(Dirs), Depth, up, base, step)
  <2>1. step \in [Paths \X SUBSET Paths -> SUBSET Paths]
    BY <1>1
  <2>2. up \in [Paths -> Paths] /\ base \in [Paths -> SUBSET Paths]
    BY <1>1
  <2>3. \A p \in Paths : Depth[p] > 0 => Depth[up[p]] < Depth[p]
    <3> SUFFICES ASSUME NEW p \in Paths, Depth[p] > 0 PROVE Depth[up[p]] < Depth[p]
      OBVIOUS
    <3>1. p # Root
      BY DepthFacts
    <3> QED
      BY <1>1, <3>1, DepthFacts
  <2> HIDE DEF up, base, step
  <2> QED
    BY <2>1, <2>2, <2>3, DepthFacts DEF Recursive
<1>3. PICK g : Solves(g, Paths, SUBSET Paths, Depth, up, base, step)
  <2> HIDE DEF up, base, step
  <2> QED
    BY <1>2, Recursion
<1>4. g \in [Paths -> SUBSET Paths]
  BY <1>3 DEF Solves
<1>5. \A p \in Paths : g[p] = IF p = Root THEN {} ELSE {Parent[p]} \cup g[Parent[p]]
  <2> SUFFICES ASSUME NEW p \in Paths
               PROVE  g[p] = IF p = Root THEN {} ELSE {Parent[p]} \cup g[Parent[p]]
    OBVIOUS
  <2>1. g[p] = IF Depth[p] = 0 THEN base[p] ELSE step[<<p, g[up[p]]>>]
    <3> HIDE DEF up, base, step
    <3> QED
      BY <1>3 DEF Solves
  <2>2. Depth[p] = 0 <=> p = Root
    BY <1>1, DepthFacts
  <2> QED
    BY <1>1, <1>4, <2>1, <2>2
<1>6. g = [p \in Paths |-> IF p = Root THEN {} ELSE {Parent[p]} \cup g[Parent[p]]]
  BY <1>4, <1>5
<1>7. Above = [p \in Paths |-> IF p = Root THEN {} ELSE {Parent[p]} \cup Above[Parent[p]]]
  BY Zenon, <1>6 DEF Above
<1>8. \A p \in Paths : g[p] = Above[p]
  <2> DEFINE Q == {p \in Paths : g[p] = Above[p]}
  <2>1. ASSUME NEW p \in Paths, \A r \in Paths : Depth[r] < Depth[p] => r \in Q
        PROVE  p \in Q
    <3>1. CASE p = Root
      BY <1>5, <1>7, <3>1
    <3>2. CASE p # Root
      <4>1. Parent[p] \in Paths /\ Depth[Parent[p]] < Depth[p]
        BY <1>1, <3>2, DepthFacts
      <4>2. g[Parent[p]] = Above[Parent[p]]
        BY <2>1, <4>1
      <4> QED
        BY <1>5, <1>7, <3>2, <4>2
    <3> QED
      BY <3>1, <3>2
  <2>2. Depth \in [Paths -> Nat]
    BY DepthFacts
  <2> HIDE DEF Q
  <2>3. \A p \in Paths : p \in Q
    BY <2>1, <2>2, RankInduction
  <2> QED
    BY <2>3 DEF Q
<1>9. g = Above
  BY <1>4, <1>7, <1>8
<1>10. Root \in Paths /\ Root \notin Dirs /\ Dirs \subseteq Paths
  BY FilesystemAssumption DEF Paths
<1>11. \A p \in Dirs : Above[p] = {Parent[p]} \cup Above[Parent[p]]
  BY <1>5, <1>9, <1>10
<1> QED
  BY <1>4, <1>5, <1>9, <1>10, <1>11

\* A folder is not above itself, and what is above a folder above it is above it.
LEMMA AboveFurther ==
  ASSUME NEW p \in Paths, NEW q \in Above[p]
  PROVE  q \in Paths /\ Above[q] \subseteq Above[p] /\ q # p
<1> DEFINE Q == {r \in Paths :
                   \A t \in Above[r] : Above[t] \subseteq Above[r] /\ Depth[t] < Depth[r]}
<1>1. ASSUME NEW r \in Paths, \A t \in Paths : Depth[t] < Depth[r] => t \in Q
      PROVE  r \in Q
  <2>1. CASE r = Root
    BY <2>1, AboveIs
  <2>2. CASE r # Root
    <3>1. /\ r \in Dirs /\ Parent[r] \in Paths /\ Depth[Parent[r]] < Depth[r]
          /\ Above[r] = {Parent[r]} \cup Above[Parent[r]]
      BY <2>2, DepthFacts, AboveIs DEF Paths
    <3>2. Parent[r] \in Q
      BY <1>1, <3>1
    <3>3. ASSUME NEW t \in Above[r]
          PROVE  Above[t] \subseteq Above[r] /\ Depth[t] < Depth[r]
      <4>1. CASE t = Parent[r]
        BY <3>1, <4>1
      <4>2. CASE t \in Above[Parent[r]]
        <5>1. t \in Paths /\ Above[t] \subseteq Above[Parent[r]] /\ Depth[t] < Depth[Parent[r]]
          BY <3>1, <3>2, <4>2, AboveIs
        <5> QED
          BY <3>1, <5>1, DepthFacts
      <4> QED
        BY <3>1, <4>1, <4>2
    <3> QED
      BY <3>3
  <2> QED
    BY <2>1, <2>2
<1>2. Depth \in [Paths -> Nat]
  BY DepthFacts
<1> HIDE DEF Q
<1>3. p \in Q
  BY <1>1, <1>2, RankInduction
<1>4. q \in Paths
  BY AboveIs
<1> QED
  BY <1>2, <1>3, <1>4 DEF Q

\* A set of folders that holds the folder above each of them.
IsTree(S) ==
  /\ S \subseteq Paths /\ Root \in S
  /\ \A p \in S \ {Root} : Parent[p] \in S

\* A tree holds all folders above each of its folders.
LEMMA TreeAbove ==
  ASSUME NEW S, IsTree(S), NEW p \in S
  PROVE  Above[p] \subseteq S
<1> DEFINE Q == {r \in Paths : r \in S => Above[r] \subseteq S}
<1>1. ASSUME NEW r \in Paths, \A t \in Paths : Depth[t] < Depth[r] => t \in Q
      PROVE  r \in Q
  <2>1. CASE r = Root
    BY <2>1, AboveIs
  <2>2. CASE r # Root /\ r \in S
    <3>1. /\ r \in Dirs /\ Parent[r] \in Paths /\ Depth[Parent[r]] < Depth[r]
          /\ Above[r] = {Parent[r]} \cup Above[Parent[r]]
      BY <2>2, DepthFacts, AboveIs DEF Paths
    <3>2. Parent[r] \in Q /\ Parent[r] \in S
      BY <1>1, <2>2, <3>1 DEF IsTree
    <3> QED
      BY <3>1, <3>2
  <2> QED
    BY <2>1, <2>2
<1>2. Depth \in [Paths -> Nat] /\ p \in Paths
  BY DepthFacts DEF IsTree
<1> HIDE DEF Q
<1>3. p \in Q
  BY <1>1, <1>2, RankInduction
<1> QED
  BY <1>3 DEF Q

\* On the way down to a folder that is not in the tree there is a first one that
\* is not.
LEMMA FirstOutside ==
  ASSUME NEW S, IsTree(S), NEW p \in Paths, p \notin S
  PROVE  \E q \in Above[p] \cup {p} : q \in Dirs /\ q \notin S /\ Parent[q] \in S
<1> DEFINE Q == {r \in Paths : r \notin S =>
                  \E q \in Above[r] \cup {r} : q \in Dirs /\ q \notin S /\ Parent[q] \in S}
<1>1. ASSUME NEW r \in Paths, \A t \in Paths : Depth[t] < Depth[r] => t \in Q
      PROVE  r \in Q
  <2>1. CASE r \in S
    BY <2>1
  <2>2. CASE r \notin S
    <3>1. /\ r \in Dirs /\ Parent[r] \in Paths /\ Depth[Parent[r]] < Depth[r]
          /\ Above[r] = {Parent[r]} \cup Above[Parent[r]]
      BY <2>2, DepthFacts, AboveIs DEF Paths, IsTree
    <3>2. Parent[r] \in Q
      BY <1>1, <3>1
    <3>3. CASE Parent[r] \in S
      BY <2>2, <3>1, <3>3
    <3>4. CASE Parent[r] \notin S
      BY <3>1, <3>2, <3>4
    <3> QED
      BY <3>3, <3>4
  <2> QED
    BY <2>1, <2>2
<1>2. Depth \in [Paths -> Nat]
  BY DepthFacts
<1> HIDE DEF Q
<1>3. p \in Q
  BY <1>1, <1>2, RankInduction
<1> QED
  BY <1>3 DEF Q
-----------------------------------------------------------------------------
(* The LRU list.  The lemmas of LruProofs say what each operation does to  *)
(* the sequence of the nodes in the list; the machine they are part of     *)
(* there plays no role here.                                               *)

LP == INSTANCE LruProofs
        WITH Nodes <- Keys, live <- DOMAIN files, data <- files,
             pending <- events, order <- events

\* The list is one chain.
Chained(l) == \E q : LP!Good(l, q)

\* The list operators are the same in both modules.
LEMMA SameList ==
  /\ L!Lists = LP!Lists /\ L!Empty = LP!Empty
  /\ \A l : L!Members(l) = LP!Members(l)
  /\ \A l, n : L!Removed(l, n) = LP!Removed(l, n)
  /\ \A l, n : L!Added(l, n) = LP!Added(l, n)
  /\ \A l : L!FirstFreed(l) = LP!FirstFreed(l)
  BY DEF L!Lists, LP!Lists, L!Empty, LP!Empty, L!Members, LP!Members, L!Linked, LP!Linked,
         L!Removed, LP!Removed, L!Added, LP!Added, L!FirstFreed, LP!FirstFreed,
         L!List, LP!List

\* A chained list has its type.
LEMMA ChainedList ==
  ASSUME NEW l, Chained(l)
  PROVE  l \in L!Lists
  BY SameList DEF Chained, LP!Good

\* Taking out a node keeps the type, whatever the list was.
LEMMA RemovedTyped ==
  ASSUME NEW l \in L!Lists, NEW k \in Keys
  PROVE  L!Removed(l, k) \in L!Lists
  BY SameList, LP!RemovedTyped, FilesystemAssumption

\* The empty list is chained.
LEMMA ChainedEmpty == Chained(L!Empty) /\ L!Members(L!Empty) = {}
<1>1. LP!Good(LP!Empty, <<>>)
  BY LP!EmptyGood, FilesystemAssumption
<1>2. LP!Members(LP!Empty) = {}
  BY DEF LP!Members, LP!Empty, LP!Linked, LP!List
<1> QED
  BY <1>1, <1>2, SameList DEF Chained

\* gp_filesystem_lru_remove_one keeps the chain and takes out the node.
LEMMA ChainedRemoved ==
  ASSUME NEW l, Chained(l), NEW k \in Keys
  PROVE  Chained(L!Removed(l, k)) /\ L!Members(L!Removed(l, k)) = L!Members(l) \ {k}
<1>1. PICK q : LP!Good(l, q)
  BY DEF Chained
<1>2. /\ LP!Good(LP!Removed(l, k), LP!Queue!Without(q, k))
      /\ LP!Members(LP!Removed(l, k)) = LP!Members(l) \ {k}
  BY <1>1, LP!RemovedGood, FilesystemAssumption
<1> QED
  BY <1>2, SameList DEF Chained

\* The end of gp_filesystem_lru_update keeps the chain and adds the node.
LEMMA ChainedAdded ==
  ASSUME NEW l, Chained(l), NEW k \in Keys, k \notin L!Members(l)
  PROVE  Chained(L!Added(l, k)) /\ L!Members(L!Added(l, k)) = L!Members(l) \cup {k}
<1>1. PICK q : LP!Good(l, q)
  BY DEF Chained
<1>2. k \notin LP!Members(l)
  BY SameList
<1>3. /\ LP!Good(LP!Added(l, k), Append(q, k))
      /\ LP!Members(LP!Added(l, k)) = LP!Members(l) \cup {k}
  BY <1>1, <1>2, LP!AddedGood, FilesystemAssumption
<1> QED
  BY <1>3, SameList DEF Chained

\* gp_filesystem_lru_free takes out the first node, which is in the list.
LEMMA ChainedFirst ==
  ASSUME NEW l, Chained(l), L!Members(l) # {}
  PROVE  /\ l.first \in L!Members(l)
         /\ Chained(L!FirstFreed(l))
         /\ L!Members(L!FirstFreed(l)) = L!Members(l) \ {l.first}
<1>1. PICK q : LP!Good(l, q)
  BY DEF Chained
<1>2. LP!Members(l) # {}
  BY SameList
<1>3. l.first \in LP!Members(l) /\ LP!FirstFreed(l) = LP!Removed(l, l.first)
  BY <1>1, <1>2, LP!GoodFirst, FilesystemAssumption
<1>4. l.first \in Keys
  BY <1>3 DEF LP!Members
<1> QED
  BY <1>3, <1>4, SameList, ChainedRemoved

\* gp_filesystem_lru_check finds nothing wrong with a chain.
LEMMA ChainedChecks ==
  ASSUME NEW l, Chained(l)
  PROVE  L!ChecksOk(l)
<1>1. LP!Cardinality(Keys) = Cardinality(Keys)
  BY Zenon DEF LP!Cardinality, Cardinality
<1>2. LP!Cardinality(Keys) \in Nat
  BY <1>1, FS_CardinalityType, FilesystemAssumption
<1>3. LP!ChecksOk(l)
  BY <1>2, LP!GoodChecks, FilesystemAssumption DEF Chained
<1>4. L!ChecksOk(l) = LP!ChecksOk(l)
  BY Zenon DEF L!ChecksOk, LP!ChecksOk, L!Cardinality, LP!Cardinality
<1> QED
  BY <1>3, <1>4

\* Taking out a set of nodes takes out one after the other.
Emptied(h, l, S) ==
  /\ h \in [SUBSET S -> L!Lists] /\ h[{}] = l
  /\ \A s \in SUBSET S : s # {} =>
       \E k \in s : h[s] = L!Removed(h[s \ {k}], k) /\ k = CHOOSE x \in s : TRUE

\* The fold that takes them out has such steps.
LEMMA AllRemovedIs ==
  ASSUME NEW l \in L!Lists, NEW S \in SUBSET Keys
  PROVE  \E h : Emptied(h, l, S) /\ AllRemoved(l, S) = h[S]
<1> DEFINE T == L!Lists
           Pick(s) == CHOOSE x \in s : TRUE
           op == [e \in S \X T |-> L!Removed(e[2], e[1])]
           Folded(h) == [s \in SUBSET S |-> IF s = {} THEN l
                                            ELSE L!Removed(h[s \ {Pick(s)}], Pick(s))]
<1>1. IsFiniteSet(S)
  BY FilesystemAssumption, FS_Subset
<1>2. op \in [S \X T -> T]
  BY RemovedTyped
<1>3. \A k \in S, m \in T : op[<<k, m>>] = L!Removed(m, k)
  OBVIOUS
<1> HIDE DEF T, op
<1>4. PICK g : FoldsWith(g, S, T, l, op)
  <2>1. l \in T
    BY DEF T
  <2> QED
    BY <1>1, <1>2, <2>1, FoldRecursion
<1>5. g = Folded(g)
  <2>1. ASSUME NEW s \in SUBSET S
        PROVE  g[s] = IF s = {} THEN l ELSE L!Removed(g[s \ {Pick(s)}], Pick(s))
    <3>1. g[s] = IF s = {} THEN l ELSE op[<<Pick(s), g[s \ {Pick(s)}]>>]
      BY Zenon, <1>4 DEF FoldsWith
    <3>2. s # {} => Pick(s) \in S
      OBVIOUS
    <3>3. g[s \ {Pick(s)}] \in T
      BY <1>4 DEF FoldsWith
    <3> QED
      BY <1>3, <3>1, <3>2, <3>3
  <2>2. g = [s \in SUBSET S |-> g[s]]
    BY <1>4 DEF FoldsWith
  <2> HIDE DEF Pick
  <2> QED
    BY <2>1, <2>2
<1>6. PICK h : h = Folded(h) /\ AllRemoved(l, S) = h[S]
  BY Zenon, <1>5 DEF AllRemoved, FoldSet, MapThenFoldSet
<1>7. h[{}] = l
  BY <1>6
<1>8. \A s \in SUBSET S : s # {} => Pick(s) \in s /\ h[s] = L!Removed(h[s \ {Pick(s)}], Pick(s))
  BY <1>6
<1>9. \A s \in SUBSET S : h[s] \in L!Lists
  <2> SUFFICES ASSUME NEW s \in SUBSET S PROVE h[s] \in L!Lists
    OBVIOUS
  <2> DEFINE R == {t \in SUBSET S : h[t] \in L!Lists}
  <2>1. {} \in R
    BY <1>7
  <2>2. ASSUME NEW t \in SUBSET S, t # {}, t \ {Pick(t)} \in R
        PROVE  t \in R
    <3>1. Pick(t) \in t /\ Pick(t) \in Keys /\ h[t] = L!Removed(h[t \ {Pick(t)}], Pick(t))
      BY <1>8, <2>2
    <3>2. h[t \ {Pick(t)}] \in L!Lists
      BY <2>2
    <3> HIDE DEF Pick
    <3>3. h[t] \in L!Lists
      BY <3>1, <3>2, RemovedTyped
    <3> QED
      BY <3>3
  <2>3. IsFiniteSet(s)
    BY <1>1, FS_Subset
  <2>4. \A t \in SUBSET s : t # {} /\ t \ {CHOOSE x \in t : TRUE} \in R => t \in R
    BY <2>2
  <2> HIDE DEF R
  <2>5. s \in R
    BY <2>1, <2>3, <2>4, SubsetInduction
  <2> QED
    BY <2>5 DEF R
<1>10. h \in [SUBSET S -> L!Lists]
  BY <1>6, <1>9
<1>11. Emptied(h, l, S)
  BY <1>7, <1>8, <1>10 DEF Emptied
<1> QED
  BY <1>6, <1>11

\* It takes out all of them and no other.
LEMMA ChainedAllRemoved ==
  ASSUME NEW l, Chained(l), NEW S \in SUBSET Keys
  PROVE  Chained(AllRemoved(l, S)) /\ L!Members(AllRemoved(l, S)) = L!Members(l) \ S
<1>1. PICK h : Emptied(h, l, S) /\ AllRemoved(l, S) = h[S]
  BY ChainedList, AllRemovedIs
<1> DEFINE R == {s \in SUBSET S : Chained(h[s]) /\ L!Members(h[s]) = L!Members(l) \ s}
<1>2. {} \in R
  BY <1>1 DEF Emptied
<1>3. ASSUME NEW s \in SUBSET S, s # {}, s \ {CHOOSE x \in s : TRUE} \in R
      PROVE  s \in R
  <2>1. PICK k \in s : h[s] = L!Removed(h[s \ {k}], k) /\ k = CHOOSE x \in s : TRUE
    BY <1>1, <1>3 DEF Emptied
  <2> DEFINE m == h[s \ {k}]
  <2>2. Chained(m) /\ L!Members(m) = L!Members(l) \ (s \ {k})
    BY <1>3, <2>1
  <2> HIDE DEF m
  <2>3. Chained(L!Removed(m, k)) /\ L!Members(L!Removed(m, k)) = L!Members(m) \ {k}
    BY <2>2, ChainedRemoved
  <2>4. Chained(h[s]) /\ L!Members(h[s]) = L!Members(l) \ s
    BY <2>1, <2>2, <2>3 DEF m
  <2> QED
    BY <2>4
<1>4. IsFiniteSet(S)
  BY FilesystemAssumption, FS_Subset
<1> HIDE DEF R
<1>5. S \in R
  BY <1>2, <1>3, <1>4, SubsetInduction
<1> QED
  BY <1>1, <1>5 DEF R

\* A new node is in no list: it has no pointers to clear.
LEMMA ChainedOutside ==
  ASSUME NEW l, Chained(l), NEW S \in SUBSET Keys, S \cap L!Members(l) = {}
  PROVE  L!List(l.first, l.last, Unlinked(l.prev, S), Unlinked(l.next, S)) = l
<1>1. PICK q : LP!Good(l, q)
  BY DEF Chained
<1>2. \A k \in S : l.prev[k] = Null /\ l.next[k] = Null
  BY <1>1, LP!GoodOutside, SameList, FilesystemAssumption
<1>3. l \in L!Lists
  BY ChainedList
<1>4. l = [first |-> l.first, last |-> l.last, prev |-> l.prev, next |-> l.next]
      /\ DOMAIN l.prev = Keys /\ DOMAIN l.next = Keys
      /\ l.prev = [k \in Keys |-> l.prev[k]] /\ l.next = [k \in Keys |-> l.next[k]]
  BY <1>3 DEF L!Lists
<1>5. Unlinked(l.prev, S) = l.prev
  BY <1>2, <1>4 DEF Unlinked
<1>6. Unlinked(l.next, S) = l.next
  BY <1>2, <1>4 DEF Unlinked
<1> QED
  BY <1>4, <1>5, <1>6 DEF L!List
-----------------------------------------------------------------------------
(* Worlds.  One lemma for each elementary operator says which fields of    *)
(* the world it changes; the proofs about the calls use no other fact.     *)

\* A partial function.
LEMMA PartlyIs ==
  ASSUME NEW S, NEW R, NEW f
  PROVE  f \in Partly(S, R) <=> DOMAIN f \subseteq S /\ f \in [DOMAIN f -> R]
  BY DEF Partly

\* What is left of a partial function.
LEMMA DropIs ==
  ASSUME NEW f, NEW S
  PROVE  /\ DOMAIN Drop(f, S) = DOMAIN f \ S
         /\ \A x \in DOMAIN f \ S : Drop(f, S)[x] = f[x]
         /\ \A A, R : f \in Partly(A, R) => Drop(f, S) \in Partly(A, R)
<1>1. Drop(f, S) = [x \in DOMAIN f \ S |-> f[x]]
  BY DEF Drop, Restrict
<1> HIDE DEF Drop
<1> QED
  BY <1>1, PartlyIs

\* A partial function to which values were added.
LEMMA PutAllTyped ==
  ASSUME NEW A, NEW R, NEW f \in Partly(A, R), NEW S \in SUBSET A, NEW v \in R
  PROVE  PutAll(f, S, v) \in Partly(A, R)
  BY PartlyIs DEF PutAll

\* Two worlds with the same cache and camera.
Alike(v, w) ==
  /\ v.dirs = w.dirs /\ v.files = w.files /\ v.lru = w.lru
  /\ v.camDirs = w.camDirs /\ v.camFiles = w.camFiles /\ v.freed = w.freed
Same(v, w) == Alike(v, w) /\ v.stale = w.stale

\* A world in which the cache is well formed: the folders are a tree, every
\* file is in one of them, and the list is one chain of files with an image.
Typed(w) ==
  /\ w \in Worlds
  /\ IsTree(DOMAIN w.dirs)
  /\ \A k \in DOMAIN w.files : k[1] \in DOMAIN w.dirs
  /\ Chained(w.lru)
  /\ L!Members(w.lru) \subseteq {k \in DOMAIN w.files : w.files[k].image}

\* Being well formed depends on the cache alone.
LEMMA TypedAlike ==
  ASSUME NEW w, Typed(w), NEW v \in Worlds, Alike(v, w)
  PROVE  Typed(v)
  BY DEF Typed, Alike

\* The fields of a world.
LEMMA WorldIs ==
  ASSUME NEW w \in Worlds
  PROVE  /\ DOMAIN w.dirs \subseteq Paths /\ w.dirs \in [DOMAIN w.dirs -> Flags]
         /\ DOMAIN w.files \subseteq Keys /\ w.files \in [DOMAIN w.files -> Infos]
         /\ w.lru \in L!Lists /\ w.camDirs \subseteq Paths
         /\ DOMAIN w.camFiles \subseteq Keys /\ w.camFiles \in [DOMAIN w.camFiles -> Perms]
         /\ w.ok \in BOOLEAN /\ w.stale \in BOOLEAN /\ w.freed \in [Paths -> Nat]
  BY PartlyIs DEF Worlds

\* Ok changes the result alone.
LEMMA OkIs ==
  ASSUME NEW w \in Worlds
  PROVE  Ok(w) \in Worlds /\ Same(Ok(w), w) /\ Ok(w).ok
  BY DEF Ok, Same, Alike, Worlds

\* Error changes the result alone.
LEMMA ErrorIs ==
  ASSUME NEW w \in Worlds
  PROVE  Error(w) \in Worlds /\ Same(Error(w), w) /\ ~Error(w).ok
  BY DEF Error, Same, Alike, Worlds

\* Known changes the result alone.
LEMMA KnownIs ==
  ASSUME NEW w \in Worlds, NEW p
  PROVE  /\ Known(w, p) \in Worlds /\ Same(Known(w, p), w)
         /\ Known(w, p).ok <=> p \in DOMAIN w.dirs
<1> DEFINE b == p \in DOMAIN w.dirs
<1>1. b \in BOOLEAN
  OBVIOUS
<1> HIDE DEF b
<1>2. LET v == [w EXCEPT !.ok = b] IN v \in Worlds /\ Same(v, w) /\ v.ok = b
  BY <1>1 DEF Same, Alike, Worlds
<1> QED
  BY <1>2 DEF Known, b

\* A node that was not freed may be used.
LEMMA UsesIs ==
  ASSUME NEW w \in Worlds, NEW p, NEW before
  PROVE  /\ Uses(w, p, before) \in Worlds /\ Alike(Uses(w, p, before), w)
         /\ Uses(w, p, before).ok = w.ok
         /\ w.freed[p] = before => Uses(w, p, before) = w
  BY DEF Uses, Alike, Worlds

\* A driver call that succeeds was possible and had its effect; one that fails had
\* none, unless it may fail half way.
LEMMA DriverIs ==
  ASSUME NEW w \in Worlds, NEW f, NEW possible \in BOOLEAN, NEW done \in Worlds
  PROVE  LET v == Driver(w, f, possible, done) IN
         /\ v \in Worlds
         /\ v.ok => possible /\ Same(v, done)
         /\ ~v.ok => Same(v, w) \/ (possible /\ f \in Partial /\ Same(v, done))
         /\ possible /\ f \notin Faulty \cup Partial => v.ok
<1> DEFINE o == IF possible THEN Outcome(w, f) ELSE "fail"
           d == IF o = "fail" THEN w ELSE done
           rest == IF w.out = <<>> THEN <<>> ELSE Tail(w.out)
           u == [d EXCEPT !.out = rest]
           v == Driver(w, f, possible, done)
<1>1. v = [u EXCEPT !.ok = (o = "ok")]
  BY DEF Driver, Ended
<1>2. rest \in Seq(Outcomes)
  BY DEF Worlds
<1>3. /\ o \in Outcomes /\ (o # "fail" => possible) /\ (o = "partial" => f \in Partial)
      /\ (possible /\ f \notin Faulty \cup Partial => o = "ok")
  BY DEF Outcome, Worlds, Outcomes
<1>4. d \in Worlds /\ d = IF o = "fail" THEN w ELSE done
  OBVIOUS
<1> HIDE DEF o, rest, d
<1>5. u \in Worlds /\ Same(u, d)
  BY <1>2, <1>4 DEF Worlds, Same, Alike
<1> HIDE DEF u
<1>6. v \in Worlds /\ Same(v, u) /\ v.ok = (o = "ok")
  BY <1>1, <1>5 DEF Worlds, Same, Alike
<1> HIDE DEF v
<1>7. Same(v, d)
  BY <1>5, <1>6 DEF Same, Alike
<1> QED
  BY <1>3, <1>4, <1>6, <1>7 DEF Outcomes, v

\* The camera's side is the same, and what is left of the call.
Aside(v, w) ==
  /\ v.camDirs = w.camDirs /\ v.camFiles = w.camFiles
  /\ v.ok = w.ok /\ v.stale = w.stale

\* delete_file takes the files out of the cache and of the list.
LEMMA FreeFilesIs ==
  ASSUME NEW w, Typed(w), NEW S
  PROVE  LET v == FreeFiles(w, S) IN
         /\ Typed(v) /\ Aside(v, w) /\ v.dirs = w.dirs /\ v.freed = w.freed
         /\ DOMAIN v.files = DOMAIN w.files \ S
         /\ \A k \in DOMAIN w.files \ S : v.files[k] = w.files[k]
<1> DEFINE X == S \cap DOMAIN w.files
           l == AllRemoved(w.lru, X)
           f == Drop(w.files, S)
           u == [w EXCEPT !.lru = l]
           v == FreeFiles(w, S)
<1>1. /\ w \in Worlds /\ IsTree(DOMAIN w.dirs) /\ Chained(w.lru)
      /\ \A k \in DOMAIN w.files : k[1] \in DOMAIN w.dirs
      /\ L!Members(w.lru) \subseteq {k \in DOMAIN w.files : w.files[k].image}
  BY DEF Typed
<1>2. X \in SUBSET Keys
  BY <1>1, WorldIs
<1>3. Chained(l) /\ L!Members(l) = L!Members(w.lru) \ X /\ l \in L!Lists
  BY <1>1, <1>2, ChainedAllRemoved, ChainedList
<1>4. /\ DOMAIN f = DOMAIN w.files \ S
      /\ \A k \in DOMAIN w.files \ S : f[k] = w.files[k]
      /\ f \in Partly(Keys, Infos)
  BY <1>1, DropIs DEF Worlds
<1>5. v = [u EXCEPT !.files = Drop(u.files, S)] /\ u.files = w.files
  BY <1>1 DEF FreeFiles, Worlds
<1> HIDE DEF l, f, X
<1>6. u \in Worlds /\ Aside(u, w) /\ u.dirs = w.dirs /\ u.freed = w.freed /\ u.lru = l
  BY <1>1, <1>3 DEF Worlds, Aside
<1>7. v = [u EXCEPT !.files = f]
  BY <1>5 DEF f
<1> HIDE DEF u, v
<1>8. /\ v \in Worlds /\ Aside(v, u) /\ v.dirs = u.dirs /\ v.freed = u.freed
      /\ v.lru = u.lru /\ v.files = f
  BY <1>4, <1>6, <1>7 DEF Worlds, Aside
<1>9. L!Members(v.lru) \subseteq {k \in DOMAIN f : f[k].image}
  BY <1>1, <1>3, <1>4, <1>6, <1>8 DEF X
<1>10. Typed(v)
  BY <1>1, <1>3, <1>4, <1>6, <1>8, <1>9 DEF Typed
<1> QED
  BY <1>4, <1>6, <1>8, <1>10 DEF v, Aside

\* delete_folder takes folders out with their files; a tree must be left.
LEMMA FreeDirsIs ==
  ASSUME NEW w, Typed(w), NEW S, IsTree(DOMAIN w.dirs \ S)
  PROVE  LET v == FreeDirs(w, S) IN
         /\ Typed(v) /\ Aside(v, w)
         /\ DOMAIN v.dirs = DOMAIN w.dirs \ S
         /\ \A p \in DOMAIN w.dirs \ S : v.dirs[p] = w.dirs[p]
         /\ DOMAIN v.files = {k \in DOMAIN w.files : k[1] \notin S}
         /\ \A k \in DOMAIN v.files : v.files[k] = w.files[k]
         /\ \A p \in Paths \ S : v.freed[p] = w.freed[p]
<1> DEFINE X == {k \in DOMAIN w.files : k[1] \in S}
           u == FreeFiles(w, X)
           d == Drop(w.dirs, S)
           r == [p \in Paths |-> IF p \in S THEN w.freed[p] + 1 ELSE w.freed[p]]
           x == [u EXCEPT !.dirs = d]
           v == FreeDirs(w, S)
<1>1. w \in Worlds /\ \A k \in DOMAIN w.files : k[1] \in DOMAIN w.dirs
  BY DEF Typed
<1>2. /\ Typed(u) /\ Aside(u, w) /\ u.dirs = w.dirs /\ u.freed = w.freed
      /\ DOMAIN u.files = DOMAIN w.files \ X
      /\ \A k \in DOMAIN w.files \ X : u.files[k] = w.files[k]
  BY FreeFilesIs
<1>3. DOMAIN u.files = {k \in DOMAIN w.files : k[1] \notin S}
  BY <1>2
<1>4. /\ DOMAIN d = DOMAIN w.dirs \ S
      /\ \A p \in DOMAIN w.dirs \ S : d[p] = w.dirs[p]
      /\ d \in Partly(Paths, Flags)
  BY <1>1, DropIs DEF Worlds
<1>5. u \in Worlds
  BY <1>2 DEF Typed
<1>6. r \in [Paths -> Nat] /\ \A p \in Paths \ S : r[p] = w.freed[p]
  BY <1>1 DEF Worlds
<1>7. v = [x EXCEPT !.freed = r]
  BY <1>2, <1>5 DEF FreeDirs, Worlds
<1> HIDE DEF u, d, r, X
<1>8. /\ x \in Worlds /\ Aside(x, u) /\ x.dirs = d /\ x.files = u.files /\ x.lru = u.lru
  BY <1>4, <1>5 DEF Worlds, Aside
<1> HIDE DEF x, v
<1>9. /\ v \in Worlds /\ Aside(v, x) /\ v.dirs = x.dirs /\ v.files = x.files /\ v.lru = x.lru
      /\ v.freed = r
  BY <1>6, <1>7, <1>8 DEF Worlds, Aside
<1>10. Typed(v)
  BY <1>1, <1>2, <1>3, <1>4, <1>8, <1>9 DEF Typed
<1>11. Aside(v, w)
  BY <1>2, <1>8, <1>9 DEF Aside
<1>12. \A k \in DOMAIN v.files : v.files[k] = w.files[k]
  BY <1>2, <1>8, <1>9
<1> QED
  BY <1>3, <1>4, <1>6, <1>8, <1>9, <1>10, <1>11, <1>12 DEF v

\* append_folder_one adds folders under known ones, to be listed.
LEMMA NewDirsIs ==
  ASSUME NEW w, Typed(w), NEW S \in SUBSET Paths,
         \A p \in S \ {Root} : Parent[p] \in DOMAIN w.dirs
  PROVE  LET v == NewDirs(w, S) IN
         /\ Typed(v) /\ Aside(v, w) /\ v.files = w.files /\ v.freed = w.freed
         /\ DOMAIN v.dirs = DOMAIN w.dirs \cup S
         /\ \A p \in S : v.dirs[p] = Fresh
         /\ \A p \in DOMAIN w.dirs \ S : v.dirs[p] = w.dirs[p]
<1> DEFINE d == PutAll(w.dirs, S, Fresh)
           v == NewDirs(w, S)
<1>1. w \in Worlds /\ Fresh \in Flags
  BY DEF Typed, Fresh, Flags
<1>2. /\ DOMAIN d = DOMAIN w.dirs \cup S
      /\ \A p \in S : d[p] = Fresh
      /\ \A p \in DOMAIN w.dirs \ S : d[p] = w.dirs[p]
  BY DEF PutAll
<1>3. d \in Partly(Paths, Flags)
  BY <1>1, PutAllTyped DEF Worlds
<1>4. v = [w EXCEPT !.dirs = d]
  BY DEF NewDirs
<1> HIDE DEF d, v
<1>5. /\ v \in Worlds /\ Aside(v, w) /\ v.dirs = d /\ v.files = w.files /\ v.lru = w.lru
      /\ v.freed = w.freed
  BY <1>1, <1>3, <1>4 DEF Worlds, Aside
<1>6. IsTree(DOMAIN d)
  BY <1>2 DEF Typed, IsTree
<1>7. Typed(v)
  BY <1>2, <1>5, <1>6 DEF Typed
<1> QED
  BY <1>2, <1>5, <1>7 DEF v

\* append_file adds files to known folders, without information.
LEMMA NewFilesIs ==
  ASSUME NEW w, Typed(w), NEW S \in SUBSET Keys, NEW image \in BOOLEAN,
         S \cap DOMAIN w.files = {}, \A k \in S : k[1] \in DOMAIN w.dirs
  PROVE  LET v == NewFiles(w, S, image)
             new == [image |-> image, infoDirty |-> TRUE, perm |-> Absent] IN
         /\ Typed(v) /\ Aside(v, w) /\ v.dirs = w.dirs /\ v.freed = w.freed
         /\ DOMAIN v.files = DOMAIN w.files \cup S
         /\ \A k \in S : v.files[k] = new
         /\ \A k \in DOMAIN w.files : v.files[k] = w.files[k]
<1> DEFINE new == [image |-> image, infoDirty |-> TRUE, perm |-> Absent]
           f == PutAll(w.files, S, new)
           l == L!List(w.lru.first, w.lru.last, Unlinked(w.lru.prev, S), Unlinked(w.lru.next, S))
           u == [w EXCEPT !.files = f]
           v == NewFiles(w, S, image)
<1>1. /\ w \in Worlds /\ new \in Infos /\ Chained(w.lru)
      /\ L!Members(w.lru) \subseteq {k \in DOMAIN w.files : w.files[k].image}
  BY DEF Typed, Infos
<1>2. l = w.lru
  BY <1>1, ChainedOutside
<1>3. /\ DOMAIN f = DOMAIN w.files \cup S
      /\ \A k \in S : f[k] = new
      /\ \A k \in DOMAIN w.files : f[k] = w.files[k]
  BY DEF PutAll
<1>4. f \in Partly(Keys, Infos)
  BY <1>1, PutAllTyped DEF Worlds
<1>5. v = [u EXCEPT !.lru = l]
  BY <1>1 DEF NewFiles, Worlds
<1> HIDE DEF f, l
<1>6. /\ u \in Worlds /\ Aside(u, w) /\ u.dirs = w.dirs /\ u.files = f /\ u.lru = w.lru
      /\ u.freed = w.freed
  BY <1>1, <1>4 DEF Worlds, Aside
<1> HIDE DEF u
<1>7. v = u
  BY <1>2, <1>5, <1>6 DEF Worlds
<1>8. Typed(u)
  BY <1>1, <1>3, <1>6 DEF Typed
<1> HIDE DEF new, v
<1>9. DOMAIN v.files = DOMAIN w.files \cup S /\ (\A k \in S : v.files[k] = new)
      /\ (\A k \in DOMAIN w.files : v.files[k] = w.files[k])
  BY <1>3, <1>6, <1>7
<1> QED
  BY <1>6, <1>7, <1>8, <1>9 DEF v, new

\* One folder is marked as listed.
LEMMA FoldersCleanIs ==
  ASSUME NEW w, Typed(w), NEW p \in DOMAIN w.dirs
  PROVE  LET v == FoldersClean(w, p) IN
         /\ Typed(v) /\ Aside(v, w) /\ v.files = w.files /\ v.freed = w.freed
         /\ DOMAIN v.dirs = DOMAIN w.dirs
         /\ ~v.dirs[p].foldersDirty /\ v.dirs[p].filesDirty = w.dirs[p].filesDirty
         /\ \A q \in DOMAIN w.dirs \ {p} : v.dirs[q] = w.dirs[q]
<1> DEFINE d == [w.dirs EXCEPT ![p].foldersDirty = FALSE]
           v == FoldersClean(w, p)
<1>1. w \in Worlds
  BY DEF Typed
<1>2. DOMAIN w.dirs \subseteq Paths /\ w.dirs \in [DOMAIN w.dirs -> Flags]
  BY <1>1, WorldIs
<1>3. /\ DOMAIN d = DOMAIN w.dirs /\ d \in [DOMAIN w.dirs -> Flags]
      /\ ~d[p].foldersDirty /\ d[p].filesDirty = w.dirs[p].filesDirty
      /\ \A q \in DOMAIN w.dirs \ {p} : d[q] = w.dirs[q]
  BY <1>2 DEF Flags
<1>4. d \in Partly(Paths, Flags)
  BY <1>2, <1>3, PartlyIs
<1>5. v = [w EXCEPT !.dirs = d]
  BY DEF FoldersClean
<1> HIDE DEF d, v
<1>6. /\ v \in Worlds /\ Aside(v, w) /\ v.dirs = d /\ v.files = w.files /\ v.lru = w.lru
      /\ v.freed = w.freed
  BY <1>1, <1>4, <1>5 DEF Worlds, Aside
<1>7. Typed(v)
  BY <1>3, <1>6 DEF Typed
<1> QED
  BY <1>3, <1>6, <1>7 DEF v

\* The files of one folder are marked as listed, or not.
LEMMA FilesDirtyIs ==
  ASSUME NEW w, Typed(w), NEW p \in DOMAIN w.dirs, NEW b \in BOOLEAN
  PROVE  LET v == [w EXCEPT !.dirs[p].filesDirty = b] IN
         /\ Typed(v) /\ Aside(v, w) /\ v.files = w.files /\ v.freed = w.freed
         /\ DOMAIN v.dirs = DOMAIN w.dirs
         /\ v.dirs[p].filesDirty = b /\ v.dirs[p].foldersDirty = w.dirs[p].foldersDirty
         /\ \A q \in DOMAIN w.dirs \ {p} : v.dirs[q] = w.dirs[q]
<1> DEFINE d == [w.dirs EXCEPT ![p].filesDirty = b]
           v == [w EXCEPT !.dirs = d]
<1>1. w \in Worlds
  BY DEF Typed
<1>2. DOMAIN w.dirs \subseteq Paths /\ w.dirs \in [DOMAIN w.dirs -> Flags]
  BY <1>1, WorldIs
<1>3. /\ DOMAIN d = DOMAIN w.dirs /\ d \in [DOMAIN w.dirs -> Flags]
      /\ d[p].filesDirty = b /\ d[p].foldersDirty = w.dirs[p].foldersDirty
      /\ \A q \in DOMAIN w.dirs \ {p} : d[q] = w.dirs[q]
  BY <1>2 DEF Flags
<1>4. d \in Partly(Paths, Flags)
  BY <1>2, <1>3, PartlyIs
<1>5. v = [w EXCEPT !.dirs[p].filesDirty = b]
  BY DEF d
<1> HIDE DEF d
<1>6. /\ v \in Worlds /\ Aside(v, w) /\ v.dirs = d /\ v.files = w.files /\ v.lru = w.lru
      /\ v.freed = w.freed
  BY <1>1, <1>4 DEF Worlds, Aside
<1> HIDE DEF v
<1>7. Typed(v)
  BY <1>3, <1>6 DEF Typed
<1>8. /\ Typed(v) /\ Aside(v, w) /\ v.files = w.files /\ v.freed = w.freed
      /\ DOMAIN v.dirs = DOMAIN w.dirs
      /\ v.dirs[p].filesDirty = b /\ v.dirs[p].foldersDirty = w.dirs[p].foldersDirty
      /\ \A q \in DOMAIN w.dirs \ {p} : v.dirs[q] = w.dirs[q]
  BY <1>3, <1>6, <1>7
<1> QED
  BY <1>5, <1>8

\* The same world, with other values for the file k.
FileChanged(v, w, k) ==
  /\ Typed(v) /\ Aside(v, w) /\ v.dirs = w.dirs /\ v.freed = w.freed
  /\ DOMAIN v.files = DOMAIN w.files
  /\ \A j \in DOMAIN w.files \ {k} : v.files[j] = w.files[j]

\* A file keeps its place in the list only if it keeps its image.
LEMMA FileIs ==
  ASSUME NEW w, Typed(w), NEW k \in DOMAIN w.files, NEW i \in Infos,
         w.files[k].image => i.image
  PROVE  LET v == [w EXCEPT !.files = [w.files EXCEPT ![k] = i]] IN
         FileChanged(v, w, k) /\ v.files[k] = i
<1> DEFINE f == [w.files EXCEPT ![k] = i]
           v == [w EXCEPT !.files = f]
<1>1. /\ w \in Worlds
      /\ L!Members(w.lru) \subseteq {j \in DOMAIN w.files : w.files[j].image}
  BY DEF Typed
<1>2. DOMAIN w.files \subseteq Keys /\ w.files \in [DOMAIN w.files -> Infos]
  BY <1>1, WorldIs
<1>3. /\ DOMAIN f = DOMAIN w.files /\ f \in [DOMAIN w.files -> Infos]
      /\ f[k] = i /\ \A j \in DOMAIN w.files \ {k} : f[j] = w.files[j]
  BY <1>2
<1>4. f \in Partly(Keys, Infos)
  BY <1>2, <1>3, PartlyIs
<1> HIDE DEF f
<1>5. /\ v \in Worlds /\ Aside(v, w) /\ v.dirs = w.dirs /\ v.files = f /\ v.lru = w.lru
      /\ v.freed = w.freed
  BY <1>1, <1>4 DEF Worlds, Aside
<1> HIDE DEF v
<1>6. L!Members(v.lru) \subseteq {j \in DOMAIN f : f[j].image}
  BY <1>1, <1>3, <1>5
<1>7. Typed(v)
  BY <1>3, <1>5, <1>6 DEF Typed
<1> QED
  BY <1>3, <1>5, <1>7 DEF v, f, FileChanged

\* The information of a file is marked.
LEMMA InfoDirtyIs ==
  ASSUME NEW w, Typed(w), NEW k \in DOMAIN w.files, NEW b \in BOOLEAN
  PROVE  LET v == [w EXCEPT !.files[k].infoDirty = b] IN
         /\ FileChanged(v, w, k)
         /\ v.files[k].infoDirty = b /\ v.files[k].perm = w.files[k].perm
<1> DEFINE i == [w.files[k] EXCEPT !.infoDirty = b]
<1>1. w.files[k] \in Infos
  BY WorldIs DEF Typed
<1>2. i \in Infos /\ i.image = w.files[k].image /\ i.infoDirty = b /\ i.perm = w.files[k].perm
  BY <1>1 DEF Infos
<1> HIDE DEF i
<1>3. LET v == [w EXCEPT !.files = [w.files EXCEPT ![k] = i]] IN
      FileChanged(v, w, k) /\ v.files[k] = i
  BY <1>2, FileIs
<1> QED
  BY <1>2, <1>3 DEF i

\* The permissions of a file change.
LEMMA PermIs ==
  ASSUME NEW w, Typed(w), NEW k \in DOMAIN w.files, NEW x \in Perms \cup {Absent}
  PROVE  LET v == [w EXCEPT !.files[k].perm = x] IN
         /\ FileChanged(v, w, k)
         /\ v.files[k].perm = x /\ v.files[k].infoDirty = w.files[k].infoDirty
<1> DEFINE i == [w.files[k] EXCEPT !.perm = x]
<1>1. w.files[k] \in Infos
  BY WorldIs DEF Typed
<1>2. i \in Infos /\ i.image = w.files[k].image /\ i.perm = x /\ i.infoDirty = w.files[k].infoDirty
  BY <1>1 DEF Infos
<1> HIDE DEF i
<1>3. LET v == [w EXCEPT !.files = [w.files EXCEPT ![k] = i]] IN
      FileChanged(v, w, k) /\ v.files[k] = i
  BY <1>2, FileIs
<1> QED
  BY <1>2, <1>3 DEF i

\* The information of a file is read.
LEMMA InfoReadIs ==
  ASSUME NEW w, Typed(w), NEW k \in DOMAIN w.files, NEW x \in Perms \cup {Absent}
  PROVE  FileChanged(InfoRead(w, k, x), w, k) /\ InfoRead(w, k, x).files[k].perm = x
<1> DEFINE b == FALSE
           u == [w EXCEPT !.files[k].infoDirty = b]
           v == [u EXCEPT !.files[k].perm = x]
<1>1. b \in BOOLEAN
  OBVIOUS
<1> HIDE DEF b
<1>2. FileChanged(u, w, k)
  BY <1>1, InfoDirtyIs
<1>3. Typed(u) /\ k \in DOMAIN u.files
  BY <1>2 DEF FileChanged
<1> HIDE DEF u
<1>4. FileChanged(v, u, k) /\ v.files[k].perm = x
  BY <1>3, PermIs
<1> HIDE DEF v
<1>5. FileChanged(v, w, k)
  BY <1>2, <1>4 DEF FileChanged, Aside
<1>6. InfoRead(w, k, x) = v
  BY DEF InfoRead, u, v, b
<1> QED
  BY <1>4, <1>5, <1>6

\* The image of a file is kept.
LEMMA ImageIs ==
  ASSUME NEW w, Typed(w), NEW k \in DOMAIN w.files
  PROVE  LET v == [w EXCEPT !.files[k].image = TRUE] IN
         /\ FileChanged(v, w, k)
         /\ v.files[k].perm = w.files[k].perm /\ v.files[k].infoDirty = w.files[k].infoDirty
<1> DEFINE i == [w.files[k] EXCEPT !.image = TRUE]
<1>1. w.files[k] \in Infos
  BY WorldIs DEF Typed
<1>2. i \in Infos /\ i.image /\ i.perm = w.files[k].perm /\ i.infoDirty = w.files[k].infoDirty
  BY <1>1 DEF Infos
<1> HIDE DEF i
<1>3. LET v == [w EXCEPT !.files = [w.files EXCEPT ![k] = i]] IN
      FileChanged(v, w, k) /\ v.files[k] = i
  BY <1>2, FileIs
<1> QED
  BY <1>2, <1>3 DEF i
-----------------------------------------------------------------------------
(* The lookup.                                                             *)

\* recurse_delete_folder makes a world of a world.
LEMMA FreeBelowTyped ==
  ASSUME NEW w \in Worlds, NEW p
  PROVE  FreeBelow(w, p) \in Worlds
<1> DEFINE S == Below(DOMAIN w.dirs, p)
           X == {k \in DOMAIN w.files : k[1] \in S}
           Y == X \cap DOMAIN w.files
           u == [w EXCEPT !.lru = AllRemoved(w.lru, Y)]
           v == [u EXCEPT !.files = Drop(u.files, X)]
           x == [v EXCEPT !.dirs = Drop(v.dirs, S)]
           r == [q \in Paths |-> IF q \in S THEN x.freed[q] + 1 ELSE x.freed[q]]
<1>1. Y \in SUBSET Keys /\ w.lru \in L!Lists
  BY WorldIs
<1>2. AllRemoved(w.lru, Y) \in L!Lists
  <2> HIDE DEF Y
  <2>1. PICK h : Emptied(h, w.lru, Y) /\ AllRemoved(w.lru, Y) = h[Y]
    BY <1>1, AllRemovedIs
  <2> QED
    BY <2>1 DEF Emptied
<1>3. v = FreeFiles(w, X)
  BY DEF FreeFiles, Worlds
<1> HIDE DEF Y
<1>4. u \in Worlds
  BY <1>2 DEF Worlds
<1> HIDE DEF u
<1>5. Drop(u.files, X) \in Partly(Keys, Infos)
  BY <1>4, DropIs DEF Worlds
<1> HIDE DEF X
<1>6. v \in Worlds
  BY <1>4, <1>5 DEF Worlds
<1>7. FreeBelow(w, p) = [x EXCEPT !.freed = r]
  BY <1>3 DEF FreeBelow, FreeDirs, X
<1> HIDE DEF v, S
<1>8. Drop(v.dirs, S) \in Partly(Paths, Flags)
  BY <1>6, DropIs DEF Worlds
<1>9. x \in Worlds
  BY <1>6, <1>8 DEF Worlds
<1> HIDE DEF x
<1>10. r \in [Paths -> Nat]
  BY <1>9 DEF Worlds
<1> HIDE DEF r
<1> QED
  BY <1>7, <1>9, <1>10 DEF Worlds

\* append_folder_one makes a world of a world.
LEMMA NewDirsTyped ==
  ASSUME NEW w \in Worlds, NEW S \in SUBSET Paths
  PROVE  NewDirs(w, S) \in Worlds
<1>1. Fresh \in Flags
  BY DEF Fresh, Flags
<1>2. PutAll(w.dirs, S, Fresh) \in Partly(Paths, Flags)
  BY <1>1, PutAllTyped DEF Worlds
<1> QED
  BY <1>2 DEF NewDirs, Worlds

\* Marking a folder makes a world of a world.
LEMMA FoldersCleanTyped ==
  ASSUME NEW w \in Worlds, NEW p
  PROVE  FoldersClean(w, p) \in Worlds
<1> DEFINE d == IF p \in DOMAIN w.dirs THEN [w.dirs EXCEPT ![p].foldersDirty = FALSE]
                                       ELSE w.dirs
<1>1. d \in Partly(Paths, Flags)
  <2>1. DOMAIN w.dirs \subseteq Paths /\ w.dirs \in [DOMAIN w.dirs -> Flags]
    BY WorldIs
  <2>2. DOMAIN d = DOMAIN w.dirs /\ d \in [DOMAIN w.dirs -> Flags]
    BY <2>1 DEF Flags
  <2> QED
    BY <2>1, <2>2, PartlyIs
<1>2. FoldersClean(w, p) = [w EXCEPT !.dirs = d]
  BY DEF FoldersClean
<1> HIDE DEF d
<1> QED
  BY <1>1, <1>2 DEF Worlds

\* What a listing that succeeded makes of the world v.
Relisted(v, p, before) ==
  Ok(FoldersClean(NewDirs(Uses(IF v.ok THEN FreeBelow(v, p) ELSE v, p, before),
                          Children(v.camDirs, p)), p))

\* gp_filesystem_list_folders, case by case.
LEMMA RelistCases ==
  ASSUME NEW look, NEW w, NEW p
  PROVE  Relist(look, w, p) =
           LET u == look[w]
               c == Driver(u, "folder_list", p \in u.camDirs, u)
           IN IF ~u.ok THEN u
              ELSE IF ~u.dirs[p].foldersDirty THEN u
              ELSE IF ~c.ok THEN c ELSE Relisted(look[c], p, u.freed[p])
  BY Zenon DEF Relist, Try, After, Relisted

\* The listing on demand, case by case.
LEMMA RefreshCases ==
  ASSUME NEW look, NEW w, NEW p
  PROVE  Refresh(look, w, p) =
           IF w.dirs[p].foldersDirty THEN Uses(Relist(look, w, p), p, w.freed[p])
           ELSE Uses(w, p, w.freed[p])
  BY Zenon DEF Refresh

\* One step of lookup_folder, case by case.
LEMMA DescendCases ==
  ASSUME NEW look, NEW w, NEW p
  PROVE  Descend(look, w, p) =
           IF look[w].ok THEN Known(Refresh(look, look[w], Parent[p]), p) ELSE look[w]
  BY Zenon DEF Descend, Try

\* A listing makes a world of a world if the lookup it does makes one.
LEMMA RelistTyped ==
  ASSUME NEW look \in [Worlds -> Worlds], NEW w \in Worlds, NEW p
  PROVE  Relist(look, w, p) \in Worlds
<1> DEFINE u == look[w]
           c == Driver(u, "folder_list", p \in u.camDirs, u)
           v == look[c]
           b == u.freed[p]
<1>1. u \in Worlds
  OBVIOUS
<1>2. c \in Worlds
  <2> DEFINE possible == p \in u.camDirs
  <2>1. possible \in BOOLEAN
    OBVIOUS
  <2> HIDE DEF possible, u
  <2>2. Driver(u, "folder_list", possible, u) \in Worlds
    BY <1>1, <2>1, DriverIs
  <2> QED
    BY <2>2 DEF possible
<1> HIDE DEF u, c
<1>3. v \in Worlds
  BY <1>2
<1> HIDE DEF v
<1> DEFINE x0 == IF v.ok THEN FreeBelow(v, p) ELSE v
           x1 == Uses(x0, p, b)
           x2 == NewDirs(x1, Children(v.camDirs, p))
           x3 == FoldersClean(x2, p)
<1>4. x0 \in Worlds
  BY <1>3, FreeBelowTyped
<1> HIDE DEF x0
<1>5. x1 \in Worlds
  BY <1>4, UsesIs
<1> HIDE DEF x1
<1>6. Children(v.camDirs, p) \in SUBSET Paths
  BY <1>3, WorldIs DEF Children
<1>7. x2 \in Worlds
  BY <1>5, <1>6, NewDirsTyped
<1> HIDE DEF x2
<1>8. x3 \in Worlds
  BY <1>7, FoldersCleanTyped
<1> HIDE DEF x3
<1>9. Ok(x3) \in Worlds
  BY <1>8, OkIs
<1>10. Relisted(v, p, b) \in Worlds
  BY <1>9 DEF x3, x2, x1, x0, Relisted
<1>11. Relist(look, w, p) = u \/ Relist(look, w, p) = c \/ Relist(look, w, p) = Relisted(v, p, b)
  BY RelistCases DEF u, c, v, b
<1> QED
  BY <1>1, <1>2, <1>10, <1>11

\* So does a step of the lookup.
LEMMA DescendTyped ==
  ASSUME NEW look \in [Worlds -> Worlds], NEW w \in Worlds, NEW p
  PROVE  Descend(look, w, p) \in Worlds
<1> DEFINE u == look[w]
           q == Parent[p]
           x == Relist(look, u, q)
           r == Refresh(look, u, q)
<1>1. u \in Worlds
  OBVIOUS
<1>2. x \in Worlds
  BY <1>1, RelistTyped
<1>3. r = Uses(x, q, u.freed[q]) \/ r = Uses(u, q, u.freed[q])
  BY RefreshCases
<1> HIDE DEF r, x, u, q
<1>4. r \in Worlds
  BY <1>1, <1>2, <1>3, UsesIs
<1>5. Known(r, p) \in Worlds
  BY <1>4, KnownIs
<1>6. Descend(look, w, p) = Known(r, p) \/ Descend(look, w, p) = u
  BY DescendCases DEF u, r, q
<1> QED
  BY <1>1, <1>5, <1>6

\* The recursion of lookup_folder ends at the root.
LEMMA LookupIs ==
  /\ \A p \in Paths : Lookup[p] \in [Worlds -> Worlds]
  /\ \A w \in Worlds : Lookup[Root][w] = Ok(w)
  /\ \A p \in Dirs, w \in Worlds : Lookup[p][w] = Descend(Lookup[Parent[p]], w, p)
<1> DEFINE T == [Worlds -> Worlds]
           Step(look, p) == [w \in Worlds |-> IF p = Root THEN Ok(w) ELSE Descend(look, w, p)]
           up == [p \in Paths |-> IF p = Root THEN p ELSE Parent[p]]
           base == [p \in Paths |-> [w \in Worlds |-> Ok(w)]]
           step == [e \in Paths \X T |-> Step(e[2], e[1])]
           Solved(g) == [p \in Paths |-> [w \in Worlds |->
                          IF p = Root THEN Ok(w) ELSE Descend(g[Parent[p]], w, p)]]
<1>1. \A p \in Paths : p # Root => p \in Dirs /\ Parent[p] \in Paths
  BY DepthFacts DEF Paths
<1>2. \A look \in T, p \in Paths : Step(look, p) \in T
  <2> SUFFICES ASSUME NEW look \in T, NEW p \in Paths, NEW w \in Worlds
               PROVE  (IF p = Root THEN Ok(w) ELSE Descend(look, w, p)) \in Worlds
    OBVIOUS
  <2> QED
    BY OkIs, DescendTyped
<1>3. Recursive(Paths, T, Cardinality(Dirs), Depth, up, base, step)
  <2>1. step \in [Paths \X T -> T]
    <3> HIDE DEF Step, T
    <3> QED
      BY <1>2
  <2>2. up \in [Paths -> Paths]
    BY <1>1
  <2>3. base \in [Paths -> T]
    BY OkIs
  <2>4. \A p \in Paths : Depth[p] > 0 => Depth[up[p]] < Depth[p]
    <3> SUFFICES ASSUME NEW p \in Paths, Depth[p] > 0 PROVE Depth[up[p]] < Depth[p]
      OBVIOUS
    <3>1. p # Root
      BY DepthFacts
    <3> QED
      BY <1>1, <3>1, DepthFacts
  <2> HIDE DEF up, base, step, T
  <2> QED
    BY <2>1, <2>2, <2>3, <2>4, DepthFacts DEF Recursive
<1>4. PICK g : Solves(g, Paths, T, Depth, up, base, step)
  <2> HIDE DEF up, base, step, T
  <2> QED
    BY <1>3, Recursion
<1>5. g \in [Paths -> T]
  BY <1>4 DEF Solves
<1>6. \A p \in Paths : g[p] = Step(g[Parent[p]], p)
  <2> SUFFICES ASSUME NEW p \in Paths
               PROVE  g[p] = Step(g[Parent[p]], p)
    OBVIOUS
  <2>1. g[p] = IF Depth[p] = 0 THEN base[p] ELSE step[<<p, g[up[p]]>>]
    <3> HIDE DEF up, base, step, T
    <3> QED
      BY <1>4 DEF Solves
  <2>2. Depth[p] = 0 <=> p = Root
    BY <1>1, DepthFacts
  <2>3. CASE p = Root
    BY <2>1, <2>2, <2>3
  <2>4. CASE p # Root
    <3>1. up[p] = Parent[p] /\ Parent[p] \in Paths /\ g[Parent[p]] \in T
      BY <1>1, <1>5, <2>4
    <3> HIDE DEF up, base, Step, T
    <3> QED
      BY <2>1, <2>2, <2>4, <3>1
  <2> QED
    BY <2>3, <2>4
<1>7. g = Solved(g)
  <2>1. g = [p \in Paths |-> g[p]]
    BY <1>5
  <2> QED
    BY <1>6, <2>1
<1>8. Lookup = Solved(Lookup)
  BY Zenon, <1>7 DEF Lookup
<1>9. \A p \in Paths : Lookup[p] = Step(Lookup[Parent[p]], p)
  <2> SUFFICES ASSUME NEW p \in Paths PROVE Lookup[p] = Step(Lookup[Parent[p]], p)
    OBVIOUS
  <2> QED
    BY <1>8
<1>10. \A p \in Paths : Lookup[p] \in T
  <2> DEFINE Q == {p \in Paths : Lookup[p] \in T}
  <2>1. ASSUME NEW p \in Paths, \A r \in Paths : Depth[r] < Depth[p] => r \in Q
        PROVE  p \in Q
    <3>1. CASE p = Root
      <4>1. Lookup[p] = [w \in Worlds |-> Ok(w)]
        BY <1>9, <3>1
      <4> QED
        BY <4>1, OkIs
    <3>2. CASE p # Root
      <4>1. Parent[p] \in Paths /\ Depth[Parent[p]] < Depth[p]
        BY <1>1, <3>2, DepthFacts
      <4>2. Lookup[Parent[p]] \in T
        BY <2>1, <4>1
      <4> HIDE DEF Step, T
      <4> QED
        BY <1>2, <1>9, <4>2
    <3> QED
      BY <3>1, <3>2
  <2>2. Depth \in [Paths -> Nat]
    BY DepthFacts
  <2> HIDE DEF Q
  <2>3. \A p \in Paths : p \in Q
    BY <2>1, <2>2, RankInduction
  <2> QED
    BY <2>3 DEF Q
<1>11. Root \in Paths /\ Root \notin Dirs /\ Dirs \subseteq Paths
  BY FilesystemAssumption DEF Paths
<1>12. \A w \in Worlds : Lookup[Root][w] = Ok(w)
  BY <1>9, <1>11
<1>13. ASSUME NEW p \in Dirs, NEW w \in Worlds
       PROVE  Lookup[p][w] = Descend(Lookup[Parent[p]], w, p)
  BY <1>9, <1>11
<1> QED
  BY <1>10, <1>12, <1>13

\* The folders below p, one step towards the root; without them a tree is a tree.
LEMMA BelowIs ==
  ASSUME NEW D, IsTree(D), NEW p \in D
  PROVE  /\ p \notin Below(D, p) /\ Root \notin Below(D, p)
         /\ IsTree(D \ Below(D, p))
         /\ \A q \in D \ {Root} : q \in Below(D, p) <=> Parent[q] = p \/ Parent[q] \in Below(D, p)
<1>1. p \in Paths /\ Root \in Paths /\ D \subseteq Paths /\ Root \in D
  BY DEF IsTree
<1>2. p \notin Above[p] /\ Above[Root] = {}
  BY <1>1, AboveFurther, AboveIs
<1>3. p \notin Below(D, p) /\ Root \notin Below(D, p)
  BY <1>2 DEF Below
<1>4. ASSUME NEW q \in D \ {Root}
      PROVE  q \in Below(D, p) <=> Parent[q] = p \/ Parent[q] \in Below(D, p)
  <2>1. q \in Dirs /\ Parent[q] \in D
    BY <1>1 DEF IsTree, Paths
  <2>2. Above[q] = {Parent[q]} \cup Above[Parent[q]]
    BY <2>1, AboveIs
  <2> QED
    BY <2>1, <2>2 DEF Below
<1>5. IsTree(D \ Below(D, p))
  BY <1>1, <1>3, <1>4 DEF IsTree
<1> QED
  BY <1>3, <1>4, <1>5

\* The folders S below p are freed and the children C are made anew, dirty.
Replaced(x, v, p, S, C) ==
  /\ Typed(x) /\ x.ok /\ x.stale = v.stale
  /\ x.camDirs = v.camDirs /\ x.camFiles = v.camFiles
  /\ DOMAIN x.dirs = (DOMAIN v.dirs \ S) \cup C
  /\ ~x.dirs[p].foldersDirty /\ x.dirs[p].filesDirty = v.dirs[p].filesDirty
  /\ \A q \in (DOMAIN v.dirs \ S) \ {p} : x.dirs[q] = v.dirs[q]
  /\ \A q \in C : x.dirs[q] = Fresh
  /\ DOMAIN x.files = {k \in DOMAIN v.files : k[1] \notin S}
  /\ \A k \in DOMAIN x.files : x.files[k] = v.files[k]
  /\ \A q \in Paths \ S : x.freed[q] = v.freed[q]

\* A listing that succeeded replaces all that was below.
LEMMA RelistedIs ==
  ASSUME NEW v, Typed(v), NEW p \in DOMAIN v.dirs, v.ok, v.freed[p] \in Nat
  PROVE  Replaced(Relisted(v, p, v.freed[p]), v, p,
                  Below(DOMAIN v.dirs, p), Children(v.camDirs, p))
<1> DEFINE S == Below(DOMAIN v.dirs, p)
           C == Children(v.camDirs, p)
           x0 == FreeBelow(v, p)
           x1 == Uses(x0, p, v.freed[p])
           x2 == NewDirs(x1, C)
           x3 == FoldersClean(x2, p)
           x == Ok(x3)
<1>1. v \in Worlds /\ IsTree(DOMAIN v.dirs) /\ v.camDirs \subseteq Paths /\ p \in Paths
  BY WorldIs DEF Typed, IsTree
<1>2. /\ p \notin S /\ Root \notin S /\ IsTree(DOMAIN v.dirs \ S)
  BY <1>1, BelowIs
<1>3. C \in SUBSET Dirs /\ (\A q \in C : Parent[q] = p /\ q # p) /\ Dirs \subseteq Paths
  <2>1. C \in SUBSET Dirs /\ (\A q \in C : Parent[q] = p) /\ Dirs \subseteq Paths
    BY <1>1 DEF Children, Paths
  <2>2. \A q \in C : q # p
    BY <2>1, AboveIs, AboveFurther
  <2> QED
    BY <2>1, <2>2
<1>4. C \cap (DOMAIN v.dirs \ S) = {}
  <2> SUFFICES ASSUME NEW q \in C, q \in DOMAIN v.dirs PROVE q \in S
    OBVIOUS
  <2>1. q # Root
    BY <1>3, FilesystemAssumption
  <2> QED
    BY <1>1, <1>3, <2>1, BelowIs
<1>5. /\ Typed(x0) /\ Aside(x0, v)
      /\ DOMAIN x0.dirs = DOMAIN v.dirs \ S
      /\ \A q \in DOMAIN v.dirs \ S : x0.dirs[q] = v.dirs[q]
      /\ DOMAIN x0.files = {k \in DOMAIN v.files : k[1] \notin S}
      /\ \A k \in DOMAIN x0.files : x0.files[k] = v.files[k]
      /\ \A q \in Paths \ S : x0.freed[q] = v.freed[q]
  BY <1>2, FreeDirsIs DEF FreeBelow
<1> HIDE DEF x0, S, C
<1>6. x1 = x0
  BY <1>1, <1>2, <1>5, UsesIs DEF Typed
<1>7. p \in DOMAIN x0.dirs
  BY <1>2, <1>5
<1>8. \A q \in C \ {Root} : Parent[q] \in DOMAIN x0.dirs
  BY <1>3, <1>7
<1>9. /\ Typed(x2) /\ Aside(x2, x0) /\ x2.files = x0.files /\ x2.freed = x0.freed
      /\ DOMAIN x2.dirs = DOMAIN x0.dirs \cup C
      /\ \A q \in C : x2.dirs[q] = Fresh
      /\ \A q \in DOMAIN x0.dirs \ C : x2.dirs[q] = x0.dirs[q]
  BY <1>3, <1>5, <1>6, <1>8, NewDirsIs
<1> HIDE DEF x1, x2
<1>10. /\ Typed(x3) /\ Aside(x3, x2) /\ x3.files = x2.files /\ x3.freed = x2.freed
      /\ DOMAIN x3.dirs = DOMAIN x2.dirs
      /\ ~x3.dirs[p].foldersDirty /\ x3.dirs[p].filesDirty = x2.dirs[p].filesDirty
      /\ \A q \in DOMAIN x2.dirs \ {p} : x3.dirs[q] = x2.dirs[q]
  BY <1>7, <1>9, FoldersCleanIs
<1> HIDE DEF x3
<1>11. x \in Worlds /\ Same(x, x3) /\ x.ok
  BY <1>10, OkIs DEF Typed
<1>12. Typed(x)
  BY <1>10, <1>11, TypedAlike DEF Same
<1> HIDE DEF x
<1>13. Relisted(v, p, v.freed[p]) = x
  BY DEF Relisted, x, x3, x2, x1, x0, C
<1>14. x.stale = v.stale /\ x.camDirs = v.camDirs /\ x.camFiles = v.camFiles
  BY <1>5, <1>9, <1>10, <1>11 DEF Aside, Same, Alike
<1>15. /\ x.dirs = x3.dirs /\ x.files = x0.files /\ x.freed = x0.freed
  BY <1>9, <1>10, <1>11 DEF Same, Alike
<1>16. DOMAIN x.dirs = (DOMAIN v.dirs \ S) \cup C
  BY <1>5, <1>9, <1>10, <1>15
<1>17. ~x.dirs[p].foldersDirty /\ x.dirs[p].filesDirty = v.dirs[p].filesDirty
  BY <1>2, <1>3, <1>5, <1>7, <1>9, <1>10, <1>15
<1>18. ASSUME NEW q \in (DOMAIN v.dirs \ S) \ {p} PROVE x.dirs[q] = v.dirs[q]
  BY <1>4, <1>5, <1>9, <1>10, <1>15
<1>19. ASSUME NEW q \in C PROVE x.dirs[q] = Fresh
  BY <1>3, <1>9, <1>10, <1>15
<1>20. /\ DOMAIN x.files = {k \in DOMAIN v.files : k[1] \notin S}
       /\ \A k \in DOMAIN x.files : x.files[k] = v.files[k]
       /\ \A q \in Paths \ S : x.freed[q] = v.freed[q]
  BY <1>5, <1>15
<1>21. Replaced(x, v, p, S, C)
  BY <1>11, <1>12, <1>14, <1>16, <1>17, <1>18, <1>19, <1>20 DEF Replaced
<1> QED
  BY <1>13, <1>21 DEF S, C

\* A driver call that is not possible fails and changes nothing.
LEMMA DriverFails ==
  ASSUME NEW w \in Worlds, NEW f, NEW done
  PROVE  LET v == Driver(w, f, FALSE, done)
         IN  v \in Worlds /\ Same(v, w) /\ ~v.ok
<1> DEFINE rest == IF w.out = <<>> THEN <<>> ELSE Tail(w.out)
<1>1. Driver(w, f, FALSE, done) = [w EXCEPT !.out = rest, !.ok = FALSE]
  BY DEF Driver, Ended
<1>2. rest \in Seq(Outcomes)
  BY DEF Worlds
<1> HIDE DEF rest
<1> QED
  BY <1>1, <1>2 DEF Worlds, Same, Alike
-----------------------------------------------------------------------------
(* What every call keeps.                                                  *)

\* The drivers of which the theorems speak: the listing of folders does not fail,
\* and a failed call has not made or removed anything.
Benign ==
  /\ "folder_list" \notin Faulty \cup Partial
  /\ {"make_dir", "remove_dir", "delete_file"} \cap Partial = {}
\* Those that never fail.
Perfect == Faulty = {} /\ Partial = {} /\ Protected = {}

\* A file may also be in a folder above its own (see FirstMissing).
KeysClosed == \A k \in Keys : \A p \in Above[k[1]] \ {Root} : <<p, k[2]>> \in Keys

OnCamera(w) ==
  /\ DOMAIN w.dirs \subseteq w.camDirs /\ IsTree(w.camDirs)
  /\ \A k \in DOMAIN w.camFiles : k[1] \in w.camDirs

FoldersListed(w) ==
  \A p \in DOMAIN w.dirs :
    ~w.dirs[p].foldersDirty => Children(w.camDirs, p) \subseteq DOMAIN w.dirs

\* What is shown of the file k is true.
TrueFile(w, k) ==
  /\ k \in DOMAIN w.camFiles
  /\ w.files[k].infoDirty \/ w.files[k].perm \in {Absent, w.camFiles[k]}

\* The files on the camera are listed in the folders that are clean, but for those
\* that were added late and have their notice still to be read.
Full(w, late) ==
  \A k \in DOMAIN w.camFiles \ late :
    k[1] \in DOMAIN w.dirs /\ ~w.dirs[k[1]].filesDirty => k \in DOMAIN w.files

\* The cache w is well formed and has no folder that the camera does not have.  If the
\* notices that are not read yet are sure to be of new files, then what the cache shows
\* is true, but for the files that got lost in the course of a call.
SoundBut(w, sure, late, lost) ==
  /\ Typed(w) /\ OnCamera(w) /\ ~w.stale
  /\ sure => FoldersListed(w) /\ \A k \in DOMAIN w.files \ lost : TrueFile(w, k)
  /\ Perfect /\ sure => Full(w, late)
Sound(w, sure, late) == SoundBut(w, sure, late, {})

\* A sound world is one where no file got lost.
LEMMA SoundIs ==
  ASSUME NEW w, NEW sure, NEW late
  PROVE  Sound(w, sure, late) <=> SoundBut(w, sure, late, {})
  BY DEF Sound

\* Soundness depends on the cache and the camera; late and lost matter only for files
\* on the camera and files in the cache.
LEMMA Adjust ==
  ASSUME NEW sure, NEW late, NEW lost, NEW w, SoundBut(w, sure, late, lost),
         NEW v \in Worlds, Same(v, w), NEW l, NEW x,
         Perfect /\ sure => (late \cap DOMAIN w.camFiles) \ DOMAIN w.files \subseteq l,
         sure => lost \cap DOMAIN w.files \subseteq x
  PROVE  SoundBut(v, sure, l, x)
<1>1. Typed(w) /\ OnCamera(w) /\ ~w.stale
  BY DEF SoundBut
<1>2. Typed(v)
  BY <1>1, TypedAlike DEF Same
<1>3. OnCamera(v) /\ ~v.stale
  BY <1>1 DEF OnCamera, Same, Alike
<1>4. ASSUME sure
      PROVE  FoldersListed(v) /\ \A k \in DOMAIN v.files \ x : TrueFile(v, k)
  BY <1>4 DEF SoundBut, FoldersListed, TrueFile, Same, Alike
<1>5. ASSUME sure, Perfect
      PROVE  Full(v, l)
  BY <1>5 DEF SoundBut, Full, Same, Alike
<1> QED
  BY <1>2, <1>3, <1>4, <1>5 DEF SoundBut

\* The same cache and camera are as sound.
LEMMA SoundSame ==
  ASSUME NEW sure, NEW late, NEW w, Sound(w, sure, late), NEW v \in Worlds, Same(v, w)
  PROVE  Sound(v, sure, late)
  BY Adjust DEF Sound

\* Files that are freed are missing in the cache, until they are lost on the camera too.
LEMMA FreeFilesSound ==
  ASSUME NEW sure, NEW late, NEW lost, NEW w, SoundBut(w, sure, late, lost), NEW S
  PROVE  SoundBut(FreeFiles(w, S), sure, late \cup S, lost \ S)
<1> DEFINE v == FreeFiles(w, S)
<1>1. Typed(w) /\ OnCamera(w) /\ ~w.stale
  BY DEF SoundBut
<1>2. /\ Typed(v) /\ Aside(v, w) /\ v.dirs = w.dirs
      /\ DOMAIN v.files = DOMAIN w.files \ S
      /\ \A k \in DOMAIN w.files \ S : v.files[k] = w.files[k]
  BY <1>1, FreeFilesIs
<1> HIDE DEF v
<1>3. OnCamera(v) /\ ~v.stale
  BY <1>1, <1>2 DEF OnCamera, Aside
<1>4. ASSUME sure
      PROVE  FoldersListed(v) /\ \A k \in DOMAIN v.files \ (lost \ S) : TrueFile(v, k)
  BY <1>2, <1>4 DEF SoundBut, FoldersListed, TrueFile, Aside
<1>5. ASSUME sure, Perfect
      PROVE  Full(v, late \cup S)
  BY <1>2, <1>5 DEF SoundBut, Full, Aside
<1>6. SoundBut(v, sure, late \cup S, lost \ S)
  BY <1>2, <1>3, <1>4, <1>5 DEF SoundBut
<1> QED
  BY <1>6 DEF v

\* A folder that is marked clean without being listed misses its files.
LEMMA FilesDirtySound ==
  ASSUME NEW sure, NEW late, NEW lost, NEW w, SoundBut(w, sure, late, lost),
         NEW p \in DOMAIN w.dirs, NEW b \in BOOLEAN, NEW l,
         late \subseteq l, Perfect /\ sure /\ ~b => In(DOMAIN w.camFiles, p) \subseteq l
  PROVE  SoundBut([w EXCEPT !.dirs[p].filesDirty = b], sure, l, lost)
<1> DEFINE v == [w EXCEPT !.dirs[p].filesDirty = b]
<1>1. Typed(w) /\ OnCamera(w) /\ ~w.stale
  BY DEF SoundBut
<1>2. /\ Typed(v) /\ Aside(v, w) /\ v.files = w.files
      /\ DOMAIN v.dirs = DOMAIN w.dirs
      /\ v.dirs[p].filesDirty = b /\ v.dirs[p].foldersDirty = w.dirs[p].foldersDirty
      /\ \A q \in DOMAIN w.dirs \ {p} : v.dirs[q] = w.dirs[q]
  BY <1>1, FilesDirtyIs
<1> HIDE DEF v
<1>3. OnCamera(v) /\ ~v.stale
  BY <1>1, <1>2 DEF OnCamera, Aside
<1>4. ASSUME sure
      PROVE  FoldersListed(v) /\ \A k \in DOMAIN v.files \ lost : TrueFile(v, k)
  BY <1>2, <1>4 DEF SoundBut, FoldersListed, TrueFile, Aside
<1>5. ASSUME sure, Perfect
      PROVE  Full(v, l)
  BY <1>2, <1>5 DEF SoundBut, Full, Aside, In
<1>6. SoundBut(v, sure, l, lost)
  BY <1>2, <1>3, <1>4, <1>5 DEF SoundBut
<1> QED
  BY <1>6 DEF v

\* A new file is true if it is on the camera, and no longer late.
LEMMA NewFilesSound ==
  ASSUME NEW sure, NEW late, NEW lost, NEW w, SoundBut(w, sure, late, lost),
         NEW S \in SUBSET Keys, NEW image \in BOOLEAN,
         S \cap DOMAIN w.files = {}, \A k \in S : k[1] \in DOMAIN w.dirs,
         sure => S \subseteq DOMAIN w.camFiles
  PROVE  SoundBut(NewFiles(w, S, image), sure, late \ S, lost)
<1> DEFINE v == NewFiles(w, S, image)
           new == [image |-> image, infoDirty |-> TRUE, perm |-> Absent]
<1>1. Typed(w) /\ OnCamera(w) /\ ~w.stale
  BY DEF SoundBut
<1>2. /\ Typed(v) /\ Aside(v, w) /\ v.dirs = w.dirs /\ v.freed = w.freed
      /\ DOMAIN v.files = DOMAIN w.files \cup S
      /\ \A k \in S : v.files[k] = new
      /\ \A k \in DOMAIN w.files : v.files[k] = w.files[k]
  BY Zenon, <1>1, NewFilesIs
<1>3. /\ Typed(v) /\ Aside(v, w) /\ v.dirs = w.dirs
      /\ DOMAIN v.files = DOMAIN w.files \cup S
      /\ \A k \in S : v.files[k] = [image |-> image, infoDirty |-> TRUE, perm |-> Absent]
      /\ \A k \in DOMAIN w.files : v.files[k] = w.files[k]
  BY <1>2
<1> HIDE DEF v
<1>4. OnCamera(v) /\ ~v.stale
  BY <1>1, <1>3 DEF OnCamera, Aside
<1>5. ASSUME sure
      PROVE  FoldersListed(v) /\ \A k \in DOMAIN v.files \ lost : TrueFile(v, k)
  BY <1>3, <1>5 DEF SoundBut, FoldersListed, TrueFile, Aside
<1>6. ASSUME sure, Perfect
      PROVE  Full(v, late \ S)
  BY <1>3, <1>6 DEF SoundBut, Full, Aside
<1>7. SoundBut(v, sure, late \ S, lost)
  BY <1>3, <1>4, <1>5, <1>6 DEF SoundBut
<1> QED
  BY <1>7 DEF v

\* The same folders and files, of which some are shown differently.
LEMMA FilesShownSound ==
  ASSUME NEW sure, NEW late, NEW lost, NEW w, SoundBut(w, sure, late, lost), NEW v, Typed(v),
         Aside(v, w), v.dirs = w.dirs, DOMAIN v.files = DOMAIN w.files, NEW x,
         sure => \A k \in DOMAIN w.files \ x :
                   \/ TrueFile(v, k)
                   \/ /\ k \notin lost /\ v.files[k].infoDirty = w.files[k].infoDirty
                      /\ v.files[k].perm = w.files[k].perm
  PROVE  SoundBut(v, sure, late, x)
<1>1. Typed(w) /\ OnCamera(w) /\ ~w.stale
  BY DEF SoundBut
<1>3. OnCamera(v) /\ ~v.stale
  BY <1>1 DEF OnCamera, Aside
<1>4. ASSUME sure
      PROVE  FoldersListed(v) /\ \A k \in DOMAIN v.files \ x : TrueFile(v, k)
  BY <1>4 DEF SoundBut, FoldersListed, TrueFile, Aside
<1>5. ASSUME sure, Perfect
      PROVE  Full(v, late)
  BY <1>5 DEF SoundBut, Full, Aside
<1> QED
  BY <1>3, <1>4, <1>5 DEF SoundBut
-----------------------------------------------------------------------------
(* The camera's side.                                                      *)

\* The cache is the same.
Cached(v, w) ==
  /\ v.dirs = w.dirs /\ v.files = w.files /\ v.lru = w.lru /\ v.freed = w.freed
  /\ v.stale = w.stale /\ v.ok = w.ok

\* The camera has the folders d and the files f.
WithCamera(w, d, f) == [w EXCEPT !.camDirs = d, !.camFiles = f]

\* A change on the camera leaves the cache as well formed as it was.
LEMMA CamIs ==
  ASSUME NEW w, Typed(w), NEW d, d \subseteq Paths, NEW f, f \in Partly(Keys, Perms)
  PROVE  /\ Typed(WithCamera(w, d, f)) /\ Cached(WithCamera(w, d, f), w)
         /\ WithCamera(w, d, f).camDirs = d /\ WithCamera(w, d, f).camFiles = f
<1> DEFINE v == WithCamera(w, d, f)
<1>1. w \in Worlds
  BY DEF Typed
<1>2. v \in Worlds /\ Cached(v, w) /\ v.camDirs = d /\ v.camFiles = f
  BY <1>1 DEF Worlds, Cached, WithCamera
<1> HIDE DEF v
<1>3. Typed(v)
  BY <1>2 DEF Typed, Cached
<1> QED
  BY <1>2, <1>3 DEF v

\* The files on the camera change: new ones come late, others get lost.
LEMMA CamFilesSound ==
  ASSUME NEW sure, NEW late, NEW lost, NEW w, SoundBut(w, sure, late, lost),
         NEW f \in Partly(Keys, Perms), \A k \in DOMAIN f : k[1] \in w.camDirs,
         NEW l, late \cup (DOMAIN f \ DOMAIN w.camFiles) \subseteq l,
         NEW x, \A k \in DOMAIN w.camFiles \ x : k \in DOMAIN f /\ f[k] = w.camFiles[k],
         lost \subseteq x
  PROVE  LET v == [w EXCEPT !.camFiles = f] IN
         SoundBut(v, sure, l, x) /\ Cached(v, w) /\ v.camDirs = w.camDirs /\ v.camFiles = f
<1> DEFINE v == WithCamera(w, w.camDirs, f)
<1>1. Typed(w) /\ OnCamera(w) /\ ~w.stale
  BY DEF SoundBut
<1>2. w \in Worlds /\ w.camDirs \subseteq Paths
  BY <1>1, WorldIs DEF Typed
<1>3. Typed(v) /\ Cached(v, w) /\ v.camDirs = w.camDirs /\ v.camFiles = f
  BY <1>1, <1>2, CamIs
<1>4. v = [w EXCEPT !.camFiles = f]
  BY <1>2 DEF Worlds, WithCamera
<1> HIDE DEF v
<1>5. OnCamera(v) /\ ~v.stale
  BY <1>1, <1>3 DEF OnCamera, Cached
<1>6. ASSUME sure
      PROVE  FoldersListed(v) /\ \A k \in DOMAIN v.files \ x : TrueFile(v, k)
  BY <1>3, <1>6 DEF SoundBut, FoldersListed, TrueFile, Cached
<1>7. ASSUME sure, Perfect
      PROVE  Full(v, l)
  BY <1>3, <1>7 DEF SoundBut, Full, Cached
<1>8. SoundBut(v, sure, l, x)
  BY <1>3, <1>5, <1>6, <1>7 DEF SoundBut
<1> QED
  BY <1>3, <1>4, <1>8

\* Files that are removed on the camera get lost.
LEMMA CamDropped ==
  ASSUME NEW sure, NEW late, NEW lost, NEW w, SoundBut(w, sure, late, lost), NEW X
  PROVE  LET v == [w EXCEPT !.camFiles = Drop(w.camFiles, X)] IN
         /\ SoundBut(v, sure, late, lost \cup X) /\ Cached(v, w) /\ v.camDirs = w.camDirs
         /\ DOMAIN v.camFiles = DOMAIN w.camFiles \ X
<1> DEFINE f == Drop(w.camFiles, X)
<1>1. w \in Worlds /\ OnCamera(w)
  BY DEF SoundBut, Typed
<1>2. /\ DOMAIN f = DOMAIN w.camFiles \ X
      /\ \A k \in DOMAIN w.camFiles \ X : f[k] = w.camFiles[k]
      /\ f \in Partly(Keys, Perms)
  BY <1>1, DropIs DEF Worlds
<1>3. \A k \in DOMAIN f : k[1] \in w.camDirs
  BY <1>1, <1>2 DEF OnCamera
<1> HIDE DEF f
<1>4. LET v == [w EXCEPT !.camFiles = f] IN
      /\ SoundBut(v, sure, late, lost \cup X) /\ Cached(v, w) /\ v.camDirs = w.camDirs
      /\ v.camFiles = f
  BY <1>2, <1>3, CamFilesSound
<1> QED
  BY <1>2, <1>4 DEF f

\* The file k is put on the camera.
WithFile(w, k, perm) == [w EXCEPT !.camFiles = Put(w.camFiles, k, perm)]
FilePut(v, w, k) ==
  /\ Cached(v, w) /\ v.camDirs = w.camDirs
  /\ DOMAIN v.camFiles = DOMAIN w.camFiles \cup {k}

\* A file that is put on the camera is late, and lost if the cache had it.
LEMMA CamPut ==
  ASSUME NEW sure, NEW late, NEW lost, NEW w, SoundBut(w, sure, late, lost),
         NEW k \in Keys, k[1] \in w.camDirs, NEW perm \in Perms
  PROVE  /\ SoundBut(WithFile(w, k, perm), sure, late \cup {k}, lost \cup {k})
         /\ FilePut(WithFile(w, k, perm), w, k)
<1> DEFINE f == Put(w.camFiles, k, perm)
<1>1. w \in Worlds /\ OnCamera(w)
  BY DEF SoundBut, Typed
<1>2. f \in Partly(Keys, Perms)
  BY <1>1, PutAllTyped DEF Worlds, Put
<1>3. /\ DOMAIN f = DOMAIN w.camFiles \cup {k} /\ f[k] = perm
      /\ \A j \in DOMAIN w.camFiles \ {k} : f[j] = w.camFiles[j]
  BY DEF Put, PutAll
<1>4. \A j \in DOMAIN f : j[1] \in w.camDirs
  BY <1>1, <1>3 DEF OnCamera
<1> HIDE DEF f
<1>5. LET v == [w EXCEPT !.camFiles = f] IN
      /\ SoundBut(v, sure, late \cup {k}, lost \cup {k}) /\ Cached(v, w)
      /\ v.camDirs = w.camDirs /\ v.camFiles = f
  BY <1>2, <1>3, <1>4, CamFilesSound
<1>6. WithFile(w, k, perm) = [w EXCEPT !.camFiles = f]
  BY DEF f, WithFile
<1> QED
  BY <1>3, <1>5, <1>6 DEF FilePut

\* A file whose permissions change on the camera is lost.
LEMMA CamPerm ==
  ASSUME NEW sure, NEW late, NEW lost, NEW w, SoundBut(w, sure, late, lost),
         NEW k \in DOMAIN w.camFiles, NEW perm \in Perms
  PROVE  LET v == [w EXCEPT !.camFiles[k] = perm] IN
         /\ SoundBut(v, sure, late, lost \cup {k}) /\ Cached(v, w) /\ v.camDirs = w.camDirs
         /\ DOMAIN v.camFiles = DOMAIN w.camFiles /\ v.camFiles[k] = perm
<1> DEFINE f == [w.camFiles EXCEPT ![k] = perm]
<1>1. w \in Worlds /\ OnCamera(w)
  BY DEF SoundBut, Typed
<1>2. DOMAIN w.camFiles \subseteq Keys /\ w.camFiles \in [DOMAIN w.camFiles -> Perms]
  BY <1>1, WorldIs
<1>3. /\ DOMAIN f = DOMAIN w.camFiles /\ f[k] = perm /\ f \in [DOMAIN w.camFiles -> Perms]
      /\ \A j \in DOMAIN w.camFiles \ {k} : f[j] = w.camFiles[j]
  BY <1>2
<1>4. f \in Partly(Keys, Perms)
  BY <1>2, <1>3, PartlyIs
<1>5. \A j \in DOMAIN f : j[1] \in w.camDirs
  BY <1>1, <1>3 DEF OnCamera
<1> HIDE DEF f
<1>6. LET v == [w EXCEPT !.camFiles = f] IN
      /\ SoundBut(v, sure, late, lost \cup {k}) /\ Cached(v, w)
      /\ v.camDirs = w.camDirs /\ v.camFiles = f
  BY <1>3, <1>4, <1>5, CamFilesSound
<1> QED
  BY <1>3, <1>6 DEF f

\* A folder is made on the camera, and then in the cache.
LEMMA NewDirSound ==
  ASSUME NEW sure, NEW late, NEW w, Sound(w, sure, late), NEW p \in Dirs,
         p \notin w.camDirs, Parent[p] \in DOMAIN w.dirs,
         NEW c \in Worlds, Same(c, [w EXCEPT !.camDirs = w.camDirs \cup {p}])
  PROVE  Sound(NewDir(c, p), sure, late)
<1> DEFINE v == WithCamera(w, w.camDirs \cup {p}, w.camFiles)
           S == {p}
           x == NewDirs(c, S)
<1>1. Typed(w) /\ OnCamera(w) /\ ~w.stale /\ p \in Paths
  BY DEF Sound, SoundBut, Paths
<1>2. w \in Worlds /\ w.camDirs \cup {p} \subseteq Paths /\ w.camFiles \in Partly(Keys, Perms)
  BY <1>1, WorldIs DEF Typed, Worlds
<1>3. Typed(v) /\ Cached(v, w) /\ v.camDirs = w.camDirs \cup {p} /\ v.camFiles = w.camFiles
  BY <1>1, <1>2, CamIs
<1>4. Same(c, v)
  BY <1>2 DEF Worlds, WithCamera
<1> HIDE DEF v
<1>5. Typed(c)
  BY <1>3, <1>4, TypedAlike DEF Same
<1>6. /\ c.dirs = w.dirs /\ c.files = w.files /\ c.stale = w.stale
      /\ c.camDirs = w.camDirs \cup {p} /\ c.camFiles = w.camFiles
  BY <1>3, <1>4 DEF Same, Alike, Cached
<1>7. S \in SUBSET Paths /\ \A q \in S \ {Root} : Parent[q] \in DOMAIN c.dirs
  BY <1>1, <1>6
<1>8. /\ Typed(x) /\ Aside(x, c) /\ x.files = c.files
      /\ DOMAIN x.dirs = DOMAIN c.dirs \cup S
      /\ \A q \in S : x.dirs[q] = Fresh
      /\ \A q \in DOMAIN c.dirs \ S : x.dirs[q] = c.dirs[q]
  <2> HIDE DEF S
  <2> QED
    BY <1>5, <1>7, NewDirsIs
<1> HIDE DEF x
<1>9. p \notin DOMAIN w.dirs
  BY <1>1 DEF OnCamera
<1>10. OnCamera(x) /\ ~x.stale
  BY <1>1, <1>6, <1>8 DEF OnCamera, Aside, IsTree
<1>11. ASSUME sure
       PROVE  FoldersListed(x) /\ \A k \in DOMAIN x.files : TrueFile(x, k)
  <2>1. FoldersListed(x)
    BY <1>6, <1>8, <1>9, <1>11 DEF Sound, SoundBut, FoldersListed, Aside, Children, Fresh
  <2> QED
    BY <1>6, <1>8, <1>11, <2>1 DEF Sound, SoundBut, TrueFile, Aside
<1>12. ASSUME sure, Perfect
       PROVE  Full(x, late)
  BY <1>6, <1>8, <1>9, <1>12 DEF Sound, SoundBut, Full, Aside, Fresh
<1>13. Sound(x, sure, late)
  BY <1>8, <1>10, <1>11, <1>12 DEF Sound, SoundBut
<1> QED
  BY <1>13 DEF x, NewDir

\* A folder above one of the tree has a child of its own there.
LEMMA ChildTowards ==
  ASSUME NEW S, IsTree(S), NEW p \in Paths, NEW q \in S, p \in Above[q]
  PROVE  Children(S, p) # {}
<1> DEFINE Q == {r \in Paths : r \in S /\ p \in Above[r] => Children(S, p) # {}}
<1>1. ASSUME NEW r \in Paths, \A t \in Paths : Depth[t] < Depth[r] => t \in Q
      PROVE  r \in Q
  <2>1. CASE r = Root \/ r \notin S
    BY <2>1, AboveIs
  <2>2. CASE r # Root /\ r \in S
    <3>1. /\ r \in Dirs /\ Parent[r] \in Paths /\ Depth[Parent[r]] < Depth[r]
          /\ Above[r] = {Parent[r]} \cup Above[Parent[r]]
      BY <2>2, DepthFacts, AboveIs DEF Paths
    <3>2. Parent[r] \in Q /\ Parent[r] \in S
      BY <1>1, <2>2, <3>1 DEF IsTree
    <3>3. CASE p = Parent[r]
      BY <2>2, <3>3 DEF Children
    <3>4. CASE p # Parent[r]
      BY <3>1, <3>2, <3>4
    <3> QED
      BY <3>3, <3>4
  <2> QED
    BY <2>1, <2>2
<1>2. Depth \in [Paths -> Nat] /\ q \in Paths
  BY DepthFacts DEF IsTree
<1> HIDE DEF Q
<1>3. q \in Q
  BY <1>1, <1>2, RankInduction
<1> QED
  BY <1>3 DEF Q

\* The root is above every other folder.
LEMMA RootAbove ==
  ASSUME NEW p \in Paths, p # Root
  PROVE  Root \in Above[p]
<1> DEFINE Q == {r \in Paths : r # Root => Root \in Above[r]}
<1>1. ASSUME NEW r \in Paths, \A t \in Paths : Depth[t] < Depth[r] => t \in Q
      PROVE  r \in Q
  <2>1. CASE r = Root
    BY <2>1
  <2>2. CASE r # Root
    <3>1. /\ r \in Dirs /\ Parent[r] \in Paths /\ Depth[Parent[r]] < Depth[r]
          /\ Above[r] = {Parent[r]} \cup Above[Parent[r]]
      BY <2>2, DepthFacts, AboveIs DEF Paths
    <3>2. Parent[r] \in Q
      BY <1>1, <3>1
    <3> QED
      BY <3>1, <3>2
  <2> QED
    BY <2>1, <2>2
<1>2. Depth \in [Paths -> Nat]
  BY DepthFacts
<1> HIDE DEF Q
<1>3. p \in Q
  BY <1>1, <1>2, RankInduction
<1> QED
  BY <1>3 DEF Q

\* Without a folder and what is below it, a tree is a tree.
LEMMA WholeBelow ==
  ASSUME NEW D, IsTree(D), NEW p \in Dirs
  PROVE  IsTree(D \ (Below(D, p) \cup {p}))
<1>1. D \subseteq Paths /\ Root \in D /\ p # Root
  BY FilesystemAssumption DEF IsTree
<1>2. Root \notin Below(D, p)
  BY AboveIs DEF Below
<1>3. ASSUME NEW q \in D \ (Below(D, p) \cup {p}), q # Root
      PROVE  Parent[q] \in D \ (Below(D, p) \cup {p})
  <2>1. q \in Dirs /\ Parent[q] \in D
    BY <1>1, <1>3 DEF IsTree, Paths
  <2>2. Above[q] = {Parent[q]} \cup Above[Parent[q]]
    BY <2>1, AboveIs
  <2> QED
    BY <2>1, <2>2 DEF Below
<1> QED
  BY <1>1, <1>2, <1>3 DEF IsTree

\* A folder of which the cache knows no content is removed on the camera, with its
\* content, and then in the cache.
DirsWithout(D, p) == D \ (Below(D, p) \cup {p})
FilesWithout(g, p) == Drop(g, {k \in DOMAIN g : p \in Above[k[1]] \cup {k[1]}})

\* After a folder was removed on both sides the cache is sound.
LEMMA RemovedSound ==
  ASSUME NEW sure, NEW late, NEW w, Sound(w, sure, late), NEW p \in Dirs,
         p \in DOMAIN w.dirs, Children(DOMAIN w.dirs, p) = {}, In(DOMAIN w.files, p) = {},
         NEW c \in Worlds,
         Same(c, WithCamera(w, DirsWithout(w.camDirs, p), FilesWithout(w.camFiles, p)))
  PROVE  Sound(FreeDirs(c, {p}), sure, late)
<1> DEFINE d == DirsWithout(w.camDirs, p)
           f == FilesWithout(w.camFiles, p)
           v == WithCamera(w, d, f)
           S == {p}
           x == FreeDirs(c, S)
           X == {k \in DOMAIN w.camFiles : p \in Above[k[1]] \cup {k[1]}}
<1>1. Typed(w) /\ OnCamera(w) /\ ~w.stale /\ p \in Paths /\ p # Root
  BY FilesystemAssumption DEF Sound, SoundBut, Paths
<1>2. w \in Worlds /\ w.camDirs \subseteq Paths /\ IsTree(DOMAIN w.dirs)
  BY <1>1, WorldIs DEF Typed
<1>3. /\ DOMAIN f = DOMAIN w.camFiles \ X
      /\ \A k \in DOMAIN w.camFiles \ X : f[k] = w.camFiles[k]
      /\ f \in Partly(Keys, Perms)
  <2>1. f = Drop(w.camFiles, X)
    BY DEF FilesWithout
  <2>2. w.camFiles \in Partly(Keys, Perms)
    BY <1>2 DEF Worlds
  <2> HIDE DEF X, f
  <2> QED
    BY <2>1, <2>2, DropIs
<1>4. d = w.camDirs \ (Below(w.camDirs, p) \cup {p})
  BY DEF DirsWithout
<1> HIDE DEF d, f
<1>5. Typed(v) /\ Cached(v, w) /\ v.camDirs = d /\ v.camFiles = f
  <2>1. d \subseteq Paths
    BY <1>2, <1>4
  <2> QED
    BY <1>1, <1>3, <2>1, CamIs
<1> HIDE DEF v
<1>6. Typed(c)
  BY <1>5, TypedAlike DEF Same, v, d, f
<1>7. /\ c.dirs = w.dirs /\ c.files = w.files /\ c.stale = w.stale
      /\ c.camDirs = d /\ c.camFiles = f
  BY <1>5 DEF Same, Alike, Cached, v, d, f
<1>8. \A q \in DOMAIN w.dirs : p \notin Above[q]
  BY <1>1, <1>2, ChildTowards
<1>9. IsTree(DOMAIN c.dirs \ S)
  BY <1>1, <1>2, <1>7 DEF IsTree, Children
<1>10. /\ Typed(x) /\ Aside(x, c)
      /\ DOMAIN x.dirs = DOMAIN c.dirs \ S
      /\ \A q \in DOMAIN c.dirs \ S : x.dirs[q] = c.dirs[q]
      /\ DOMAIN x.files = {k \in DOMAIN c.files : k[1] \notin S}
      /\ \A k \in DOMAIN x.files : x.files[k] = c.files[k]
  <2> HIDE DEF S
  <2> QED
    BY <1>6, <1>9, FreeDirsIs
<1> HIDE DEF x
<1>11. /\ DOMAIN x.dirs = DOMAIN w.dirs \ {p} /\ DOMAIN x.files = DOMAIN w.files
       /\ \A q \in DOMAIN w.dirs \ {p} : x.dirs[q] = w.dirs[q]
       /\ \A k \in DOMAIN w.files : x.files[k] = w.files[k] /\ k[1] \in DOMAIN w.dirs \ {p}
       /\ x.camDirs = d /\ x.camFiles = f
  BY <1>1, <1>7, <1>10 DEF In, Typed, Aside
<1>12. OnCamera(x) /\ ~x.stale
  <2>1. IsTree(d)
    BY <1>1, <1>4, WholeBelow DEF OnCamera
  <2>2. DOMAIN w.dirs \ {p} \subseteq d
    BY <1>1, <1>4, <1>8 DEF OnCamera, Below
  <2>3. \A k \in DOMAIN f : k[1] \in d
    BY <1>1, <1>4, <1>3 DEF OnCamera, Below
  <2> QED
    BY <1>1, <1>7, <1>10, <1>11, <2>1, <2>2, <2>3 DEF OnCamera, Aside
<1>13. ASSUME sure
       PROVE  FoldersListed(x) /\ \A k \in DOMAIN x.files : TrueFile(x, k)
  <2>1. FoldersListed(w) /\ \A k \in DOMAIN w.files : TrueFile(w, k)
    BY <1>13 DEF Sound, SoundBut
  <2>2. FoldersListed(x)
    BY <1>4, <1>11, <2>1 DEF FoldersListed, Children
  <2>3. ASSUME NEW k \in DOMAIN w.files
        PROVE  TrueFile(x, k)
    <3>1. k \in DOMAIN w.camFiles /\ k \notin X
      BY <1>8, <1>11, <2>1 DEF TrueFile
    <3> QED
      BY <1>3, <1>11, <2>1, <3>1 DEF TrueFile
  <2> QED
    BY <1>11, <2>2, <2>3
<1>14. ASSUME sure, Perfect
       PROVE  Full(x, late)
  BY <1>3, <1>11, <1>14 DEF Sound, SoundBut, Full
<1>15. Sound(x, sure, late)
  BY <1>10, <1>12, <1>13, <1>14 DEF Sound, SoundBut
<1> QED
  BY <1>15 DEF x
-----------------------------------------------------------------------------
(* The images.                                                             *)

\* The same files, of which the image alone may have changed.
ImagesChanged(v, w) ==
  /\ Typed(v) /\ Aside(v, w) /\ v.dirs = w.dirs /\ v.freed = w.freed
  /\ DOMAIN v.files = DOMAIN w.files
  /\ \A k \in DOMAIN w.files : /\ v.files[k].infoDirty = w.files[k].infoDirty
                                /\ v.files[k].perm = w.files[k].perm

\* Soundness does not depend on the images.
LEMMA ImagesSound ==
  ASSUME NEW sure, NEW late, NEW w, Sound(w, sure, late), NEW v, ImagesChanged(v, w)
  PROVE  Sound(v, sure, late)
  BY FilesShownSound DEF ImagesChanged, Sound

\* Both the list and the image of a file change.
LEMMA ImageListIs ==
  ASSUME NEW w, Typed(w), NEW k \in DOMAIN w.files, NEW b \in BOOLEAN,
         NEW l, Chained(l), L!Members(l) \ {k} \subseteq L!Members(w.lru), k \in L!Members(l) => b
  PROVE  ImagesChanged([w EXCEPT !.lru = l, !.files[k].image = b], w)
<1> DEFINE i == [w.files[k] EXCEPT !.image = b]
           f == [w.files EXCEPT ![k] = i]
           u == [w EXCEPT !.lru = l]
           v == [u EXCEPT !.files = f]
<1>1. w \in Worlds /\ w.files[k] \in Infos /\ l \in L!Lists
  BY WorldIs, ChainedList DEF Typed
<1>2. /\ i \in Infos /\ i.image = b /\ i.infoDirty = w.files[k].infoDirty
      /\ i.perm = w.files[k].perm
  BY <1>1 DEF Infos
<1>3. DOMAIN w.files \subseteq Keys /\ w.files \in [DOMAIN w.files -> Infos]
  BY <1>1, WorldIs
<1>4. v = [w EXCEPT !.lru = l, !.files[k].image = b]
  BY <1>1 DEF Worlds
<1> HIDE DEF i
<1>5. /\ DOMAIN f = DOMAIN w.files /\ f \in [DOMAIN w.files -> Infos]
      /\ f[k] = i /\ \A j \in DOMAIN w.files \ {k} : f[j] = w.files[j]
  BY <1>2, <1>3
<1>6. f \in Partly(Keys, Infos)
  BY <1>3, <1>5, PartlyIs
<1> HIDE DEF f
<1>7. /\ u \in Worlds /\ Aside(u, w) /\ u.dirs = w.dirs /\ u.freed = w.freed /\ u.lru = l
  BY <1>1 DEF Worlds, Aside
<1> HIDE DEF u
<1>8. /\ v \in Worlds /\ Aside(v, u) /\ v.dirs = u.dirs /\ v.freed = u.freed /\ v.lru = u.lru
      /\ v.files = f
  BY <1>6, <1>7 DEF Worlds, Aside
<1> HIDE DEF v
<1>9. L!Members(l) \subseteq {j \in DOMAIN f : f[j].image}
  BY <1>2, <1>5 DEF Typed
<1>10. Typed(v)
  BY <1>5, <1>7, <1>8, <1>9 DEF Typed
<1>11. ImagesChanged(v, w)
  BY <1>2, <1>5, <1>7, <1>8, <1>10 DEF ImagesChanged, Aside
<1> QED
  BY <1>4, <1>11
-----------------------------------------------------------------------------
(* The folders on the way.                                                 *)

\* The cached folders above p are listed.
Swept(w, p) == \A a \in Above[p] \cap DOMAIN w.dirs : ~w.dirs[a].foldersDirty

\* The camera is the same, and a folder that no listing can reach is where it was.
Walked(v, w) ==
  /\ v.camDirs = w.camDirs /\ v.camFiles = w.camFiles
  /\ \A q \in DOMAIN w.dirs :
       Swept(w, q) => q \in DOMAIN v.dirs /\ Swept(v, q) /\ v.freed[q] = w.freed[q]

\* The same world was not changed by a listing.
LEMMA WalkedSame ==
  ASSUME NEW w, NEW v, Same(v, w)
  PROVE  Walked(v, w)
  BY DEF Same, Alike, Walked, Swept

\* Two listings one after the other.
LEMMA WalkedFurther ==
  ASSUME NEW w, NEW v, NEW u, Walked(v, w), Walked(u, v)
  PROVE  Walked(u, w)
  BY DEF Walked

\* The folders above p are listed in the same world too.
LEMMA SweptSame ==
  ASSUME NEW w, NEW v, Same(v, w), NEW p, Swept(w, p)
  PROVE  Swept(v, p)
  BY DEF Same, Alike, Swept

\* The last test of a lookup counts.
LEMMA KnownTwice ==
  ASSUME NEW w \in Worlds, NEW p, NEW q
  PROVE  Known(Known(w, p), q) = Known(w, q)
<1> DEFINE b == p \in DOMAIN w.dirs
           c == q \in DOMAIN w.dirs
           u == [w EXCEPT !.ok = b]
<1>1. u.dirs = w.dirs
  BY DEF Worlds
<1>2. [u EXCEPT !.ok = c] = [w EXCEPT !.ok = c]
  <2> HIDE DEF b, c
  <2> QED
    BY DEF Worlds
<1> QED
  BY <1>1, <1>2 DEF Known

\* The lookup of p finds nothing to list when all folders above p are listed.
LEMMA LookupSwept ==
  ASSUME NEW w, Typed(w), NEW p \in Paths, Swept(w, p)
  PROVE  Lookup[p][w] = Known(w, p)
<1> DEFINE Q == {r \in Paths : Swept(w, r) => Lookup[r][w] = Known(w, r)}
<1>1. w \in Worlds /\ IsTree(DOMAIN w.dirs)
  BY DEF Typed
<1>2. ASSUME NEW r \in Paths, \A t \in Paths : Depth[t] < Depth[r] => t \in Q
      PROVE  r \in Q
  <2>1. CASE r = Root
    <3>1. Known(w, r) = Ok(w)
      BY <1>1, <2>1 DEF Known, Ok, IsTree
    <3> QED
      BY <1>1, <2>1, <3>1, LookupIs
  <2>2. CASE r # Root /\ Swept(w, r)
    <3> DEFINE P == Parent[r]
               u == Known(w, P)
    <3>1. /\ r \in Dirs /\ P \in Paths /\ Depth[P] < Depth[r]
          /\ Above[r] = {P} \cup Above[P]
      BY <2>2, DepthFacts, AboveIs DEF Paths
    <3>2. Swept(w, P)
      BY <2>2, <3>1 DEF Swept
    <3>3. Lookup[P][w] = u
      BY <1>2, <3>1, <3>2
    <3>4. u \in Worlds /\ Same(u, w) /\ (u.ok <=> P \in DOMAIN w.dirs)
      BY <1>1, KnownIs
    <3>5. Lookup[r][w] = Descend(Lookup[P], w, r)
      BY <1>1, <3>1, LookupIs
    <3>6. Known(u, r) = Known(w, r)
      BY <1>1, KnownTwice
    <3>7. CASE P \in DOMAIN w.dirs
      <4>1. ~u.dirs[P].foldersDirty /\ u.ok
        BY <2>2, <3>1, <3>4, <3>7 DEF Swept, Same, Alike
      <4>2. Uses(u, P, u.freed[P]) = u
        BY <3>4, UsesIs
      <4> HIDE DEF u, P
      <4>3. Refresh(Lookup[P], u, P) = u
        BY <4>1, <4>2, RefreshCases
      <4>4. Descend(Lookup[P], w, r) = Known(u, r)
        BY <3>3, <4>1, <4>3, DescendCases DEF P
      <4> QED
        BY <3>5, <3>6, <4>4
    <3>8. CASE P \notin DOMAIN w.dirs
      <4>1. r \notin DOMAIN w.dirs
        BY <1>1, <2>2, <3>8 DEF IsTree
      <4>2. Known(w, r) = u
        BY <1>1, <3>8, <4>1 DEF Known
      <4> HIDE DEF u, P
      <4>3. Descend(Lookup[P], w, r) = u
        BY <3>3, <3>4, <3>8, DescendCases DEF P
      <4> QED
        BY <3>5, <4>2, <4>3
    <3> QED
      BY <3>7, <3>8
  <2> QED
    BY <2>1, <2>2
<1>3. Depth \in [Paths -> Nat]
  BY DepthFacts
<1> HIDE DEF Q
<1>4. p \in Q
  BY <1>2, <1>3, RankInduction
<1> QED
  BY <1>4 DEF Q

\* What a listing of the folders in p comes to, if p is known and all above are listed.
Listed(x, w, p, sure, late, lost) ==
  /\ SoundBut(x, sure, late, lost) /\ Walked(x, w) /\ x.ok
  /\ p \in DOMAIN x.dirs /\ ~x.dirs[p].foldersDirty /\ Swept(x, p)

\* Such a listing keeps the cache sound: the folder is not among those it frees.
LEMMA RelistSound ==
  ASSUME Benign, NEW sure, NEW late, NEW lost, NEW w, SoundBut(w, sure, late, lost),
         NEW p \in DOMAIN w.dirs, Swept(w, p)
  PROVE  Listed(Relist(Lookup[p], w, p), w, p, sure, late, lost)
<1> DEFINE u == Lookup[p][w]
           c == Driver(u, "folder_list", p \in u.camDirs, u)
           v == Lookup[p][c]
           x == Relisted(v, p, u.freed[p])
           S == Below(DOMAIN v.dirs, p)
           C == Children(v.camDirs, p)
<1>1. Typed(w) /\ OnCamera(w) /\ ~w.stale
  BY DEF SoundBut
<1>2. w \in Worlds /\ IsTree(DOMAIN w.dirs) /\ p \in Paths
  BY <1>1 DEF Typed, IsTree
<1>3. u = Known(w, p)
  BY <1>1, <1>2, LookupSwept
<1>4. u \in Worlds /\ Same(u, w) /\ u.ok
  BY <1>2, <1>3, KnownIs
<1> HIDE DEF u
<1>5. SoundBut(u, sure, late, lost) /\ Swept(u, p) /\ Walked(u, w) /\ p \in DOMAIN u.dirs
  <2>1. SoundBut(u, sure, late, lost)
    BY <1>4, Adjust
  <2> QED
    BY <1>4, <2>1, SweptSame, WalkedSame DEF Same, Alike
<1>6. CASE ~u.dirs[p].foldersDirty
  <2>1. Relist(Lookup[p], w, p) = u
    BY <1>4, <1>6, RelistCases DEF u
  <2> QED
    BY <1>4, <1>5, <1>6, <2>1 DEF Listed
<1>7. CASE u.dirs[p].foldersDirty
  <2>1. p \in u.camDirs
    BY <1>5 DEF SoundBut, OnCamera
  <2>2. c \in Worlds /\ Same(c, u) /\ c.ok
    <3>1. "folder_list" \notin Faulty \cup Partial
      BY DEF Benign
    <3>2. c = Driver(u, "folder_list", TRUE, u)
      BY <2>1
    <3> HIDE DEF c
    <3> QED
      BY <1>4, <3>1, <3>2, DriverIs
  <2> HIDE DEF c
  <2>3. SoundBut(c, sure, late, lost) /\ Swept(c, p) /\ p \in DOMAIN c.dirs
    <3>1. SoundBut(c, sure, late, lost)
      BY <1>5, <2>2, Adjust
    <3> QED
      BY <1>5, <2>2, <3>1, SweptSame DEF Same, Alike
  <2>4. v = Known(c, p)
    BY <1>2, <2>3, LookupSwept DEF SoundBut
  <2>5. v \in Worlds /\ Same(v, c) /\ v.ok
    BY <2>2, <2>3, <2>4, KnownIs
  <2> HIDE DEF v
  <2>6. SoundBut(v, sure, late, lost) /\ Swept(v, p) /\ p \in DOMAIN v.dirs
    <3>1. SoundBut(v, sure, late, lost)
      BY <2>3, <2>5, Adjust
    <3> QED
      BY <2>3, <2>5, <3>1, SweptSame DEF Same, Alike
  <2>7. Relist(Lookup[p], w, p) = x
    BY <1>4, <1>7, <2>2, RelistCases DEF u, c, v
  <2>8. u.freed[p] = v.freed[p] /\ v.freed[p] \in Nat
    BY <1>2, <1>4, <2>2, <2>5 DEF Same, Alike, Worlds
  <2>9. Typed(v) /\ IsTree(DOMAIN v.dirs) /\ OnCamera(v) /\ ~v.stale
    BY <2>6 DEF SoundBut, Typed
  <2>10. /\ Typed(x) /\ x.ok /\ x.stale = v.stale
         /\ x.camDirs = v.camDirs /\ x.camFiles = v.camFiles
         /\ DOMAIN x.dirs = (DOMAIN v.dirs \ S) \cup C
         /\ ~x.dirs[p].foldersDirty /\ x.dirs[p].filesDirty = v.dirs[p].filesDirty
         /\ \A q \in (DOMAIN v.dirs \ S) \ {p} : x.dirs[q] = v.dirs[q]
         /\ \A q \in C : x.dirs[q] = Fresh
         /\ DOMAIN x.files = {k \in DOMAIN v.files : k[1] \notin S}
         /\ \A k \in DOMAIN x.files : x.files[k] = v.files[k]
         /\ \A q \in Paths \ S : x.freed[q] = v.freed[q]
    <3>1. Replaced(Relisted(v, p, v.freed[p]), v, p, S, C)
      BY <2>5, <2>6, <2>8, <2>9, RelistedIs
    <3>2. Replaced(x, v, p, S, C)
      BY <2>8, <3>1
    <3> QED
      BY <3>2 DEF Replaced
  <2> HIDE DEF x, S
  <2>11. p \notin S /\ \A q \in DOMAIN v.dirs : q \in S <=> p \in Above[q]
    BY <2>6, <2>9, BelowIs DEF S, Below
  <2>12. /\ C \subseteq v.camDirs
         /\ \A q \in C : q \in Dirs /\ Parent[q] = p /\ q # p /\ p \in Above[q]
    <3>1. \A q \in C : q \in Dirs /\ q \in Paths /\ Parent[q] = p /\ q \in v.camDirs
      BY <2>9 DEF Children, OnCamera, IsTree, Paths
    <3>2. \A q \in C : p \in Above[q]
      BY <3>1, AboveIs
    <3> QED
      BY <3>1, <3>2, AboveFurther
  <2> HIDE DEF C
  <2>13. Walked(x, v)
    <3>1. ASSUME NEW q \in DOMAIN v.dirs, Swept(v, q)
          PROVE  q \in DOMAIN x.dirs /\ Swept(x, q) /\ x.freed[q] = v.freed[q]
      <4>1. p \notin Above[q]
        BY <1>7, <2>2, <2>5, <2>6, <3>1 DEF Swept, Same, Alike
      <4>2. q \in Paths /\ q \notin S
        BY <2>9, <2>11, <4>1 DEF IsTree
      <4>3. ASSUME NEW a \in Above[q] \cap DOMAIN x.dirs
            PROVE  ~x.dirs[a].foldersDirty
        <5>1. a \notin C
          BY <2>12, <4>1, <4>2, AboveFurther
        <5>2. a \in DOMAIN v.dirs \ S /\ ~v.dirs[a].foldersDirty
          BY <2>10, <3>1, <5>1 DEF Swept
        <5> QED
          BY <2>10, <5>2
      <4> QED
        BY <2>10, <4>2, <4>3 DEF Swept
    <3> QED
      BY <2>10, <3>1 DEF Walked
  <2>14. p \in DOMAIN x.dirs /\ Swept(x, p)
    BY <2>6, <2>13 DEF Walked
  <2>15. OnCamera(x) /\ ~x.stale
    BY <2>9, <2>10, <2>12 DEF OnCamera
  <2>16. ASSUME sure
         PROVE  FoldersListed(x) /\ \A k \in DOMAIN x.files \ lost : TrueFile(x, k)
    <3>1. FoldersListed(v) /\ \A k \in DOMAIN v.files \ lost : TrueFile(v, k)
      BY <2>6, <2>16 DEF SoundBut
    <3>2. ASSUME NEW q \in DOMAIN x.dirs, ~x.dirs[q].foldersDirty
          PROVE  Children(x.camDirs, q) \subseteq DOMAIN x.dirs
      <4>1. CASE q = p
        BY <2>10, <4>1 DEF C
      <4>2. CASE q # p
        <5>1. q \in DOMAIN v.dirs \ S /\ ~v.dirs[q].foldersDirty
          BY <2>10, <3>2, <4>2 DEF Fresh
        <5>2. ASSUME NEW r \in Children(v.camDirs, q)
              PROVE  r \notin S
          <6>1. r \in Dirs /\ Parent[r] = q
            BY <2>9, <5>2 DEF Children, OnCamera, IsTree, Paths
          <6>2. r \in S => p \in Above[q]
            BY <4>2, <6>1, AboveIs DEF S, Below
          <6> QED
            BY <2>11, <5>1, <6>2
        <5> QED
          BY <2>10, <3>1, <5>1, <5>2 DEF FoldersListed
      <4> QED
        BY <4>1, <4>2
    <3>3. \A k \in DOMAIN x.files \ lost : TrueFile(x, k)
      BY <2>10, <3>1 DEF TrueFile
    <3> QED
      BY <3>2, <3>3 DEF FoldersListed
  <2>17. ASSUME sure, Perfect
         PROVE  Full(x, late)
    <3>1. Full(v, late)
      BY <2>6, <2>17 DEF SoundBut
    <3>2. ASSUME NEW q \in DOMAIN x.dirs, ~x.dirs[q].filesDirty
          PROVE  q \in DOMAIN v.dirs \ S /\ ~v.dirs[q].filesDirty
      BY <2>6, <2>10, <2>11, <3>2 DEF Fresh
    <3> QED
      BY <2>10, <3>1, <3>2 DEF Full
  <2>18. Walked(x, w)
    BY <1>5, <2>2, <2>5, <2>13, WalkedSame, WalkedFurther
  <2>19. SoundBut(x, sure, late, lost)
    BY <2>10, <2>15, <2>16, <2>17 DEF SoundBut
  <2> QED
    BY <2>7, <2>10, <2>14, <2>18, <2>19 DEF Listed
<1> QED
  BY <1>6, <1>7

\* So does a listing on demand, and the pointer to the folder stays valid.
LEMMA RefreshSound ==
  ASSUME Benign, NEW sure, NEW late, NEW lost, NEW w, SoundBut(w, sure, late, lost),
         NEW p \in DOMAIN w.dirs, Swept(w, p), w.ok
  PROVE  Listed(Refresh(Lookup[p], w, p), w, p, sure, late, lost)
<1> DEFINE x == Relist(Lookup[p], w, p)
<1>1. w \in Worlds
  BY DEF SoundBut, Typed
<1>2. CASE w.dirs[p].foldersDirty
  <2>1. Listed(x, w, p, sure, late, lost)
    BY RelistSound
  <2>2. x \in Worlds /\ x.freed[p] = w.freed[p]
    BY <2>1 DEF Listed, SoundBut, Typed, Walked
  <2> HIDE DEF x
  <2>3. Uses(x, p, w.freed[p]) = x
    BY <2>2, UsesIs
  <2> QED
    BY <1>2, <2>1, <2>3, RefreshCases DEF x
<1>3. CASE ~w.dirs[p].foldersDirty
  <2>1. Refresh(Lookup[p], w, p) = w
    BY <1>1, <1>3, UsesIs, RefreshCases
  <2>2. Walked(w, w)
    BY DEF Walked
  <2> QED
    BY <1>3, <2>1, <2>2 DEF Listed
<1> QED
  BY <1>2, <1>3

\* The lookup finds a folder exactly if it is known when all above are listed.
Found(x, w, p, sure, late, lost) ==
  /\ SoundBut(x, sure, late, lost) /\ Walked(x, w) /\ Swept(x, p)
  /\ x.ok <=> p \in DOMAIN x.dirs

\* lookup_folder keeps the cache sound and lists all folders above p that it knows.
LEMMA LookupSound ==
  ASSUME Benign, NEW sure, NEW late, NEW lost, NEW w, SoundBut(w, sure, late, lost),
         NEW p \in Paths
  PROVE  Found(Lookup[p][w], w, p, sure, late, lost)
<1> DEFINE Q == {r \in Paths : Found(Lookup[r][w], w, r, sure, late, lost)}
<1>1. w \in Worlds /\ IsTree(DOMAIN w.dirs)
  BY DEF SoundBut, Typed
<1>2. ASSUME NEW r \in Paths, \A t \in Paths : Depth[t] < Depth[r] => t \in Q
      PROVE  r \in Q
  <2>1. CASE r = Root
    <3> DEFINE x == Ok(w)
    <3>1. x \in Worlds /\ Same(x, w) /\ x.ok
      BY <1>1, OkIs
    <3>2. Lookup[r][w] = x
      BY <1>1, <2>1, LookupIs
    <3> HIDE DEF x
    <3>3. SoundBut(x, sure, late, lost) /\ Walked(x, w)
      BY <3>1, Adjust, WalkedSame
    <3>4. Swept(x, r) /\ r \in DOMAIN x.dirs
      BY <1>1, <2>1, <3>1, AboveIs DEF Swept, IsTree, Same, Alike
    <3> QED
      BY <3>1, <3>2, <3>3, <3>4 DEF Found
  <2>2. CASE r # Root
    <3> DEFINE P == Parent[r]
               u == Lookup[P][w]
               y == Refresh(Lookup[P], u, P)
               x == Lookup[r][w]
    <3>1. /\ r \in Dirs /\ P \in Paths /\ Depth[P] < Depth[r]
          /\ Above[r] = {P} \cup Above[P]
      BY <2>2, DepthFacts, AboveIs DEF Paths
    <3>2. Found(u, w, P, sure, late, lost)
      BY <1>2, <3>1
    <3>3. x = IF u.ok THEN Known(y, r) ELSE u
      BY <1>1, <3>1, LookupIs, DescendCases
    <3>4. CASE u.ok
      <4>1. P \in DOMAIN u.dirs /\ SoundBut(u, sure, late, lost) /\ Swept(u, P) /\ Walked(u, w)
        BY <3>2, <3>4 DEF Found
      <4> HIDE DEF u, P, x
      <4>2. Listed(y, u, P, sure, late, lost)
        BY <3>4, <4>1, RefreshSound
      <4> HIDE DEF y
      <4>3. y \in Worlds
        BY <4>2 DEF Listed, SoundBut, Typed
      <4>4. x \in Worlds /\ Same(x, y) /\ (x.ok <=> r \in DOMAIN y.dirs)
        BY <3>3, <3>4, <4>3, KnownIs
      <4>5. SoundBut(x, sure, late, lost)
        BY <4>2, <4>4, Adjust DEF Listed
      <4>6. Walked(x, w)
        BY <4>1, <4>2, <4>4, WalkedSame, WalkedFurther DEF Listed
      <4>7. Swept(x, r) /\ (x.ok <=> r \in DOMAIN x.dirs)
        BY <3>1, <4>2, <4>4 DEF Swept, Same, Alike, Listed
      <4>8. Found(x, w, r, sure, late, lost)
        BY <4>5, <4>6, <4>7 DEF Found
      <4> QED
        BY <4>8 DEF x
    <3>5. CASE ~u.ok
      <4>1. /\ P \notin DOMAIN u.dirs /\ SoundBut(u, sure, late, lost)
            /\ Swept(u, P) /\ Walked(u, w)
        BY <3>2, <3>5 DEF Found
      <4>2. IsTree(DOMAIN u.dirs)
        BY <4>1 DEF SoundBut, Typed
      <4> HIDE DEF u, x
      <4>3. r \notin DOMAIN u.dirs
        BY <2>2, <4>1, <4>2 DEF IsTree
      <4>4. Swept(u, r)
        BY <3>1, <4>1 DEF Swept
      <4>5. Found(x, w, r, sure, late, lost)
        BY <3>3, <3>5, <4>1, <4>3, <4>4 DEF Found
      <4> QED
        BY <4>5 DEF x
    <3> QED
      BY <3>4, <3>5
  <2> QED
    BY <2>1, <2>2
<1>3. Depth \in [Paths -> Nat]
  BY DepthFacts
<1> HIDE DEF Q
<1>4. p \in Q
  BY <1>2, <1>3, RankInduction
<1> QED
  BY <1>4 DEF Q

\* When all folders above p are listed, p is known if it is on the camera.
LEMMA KnownFolder ==
  ASSUME NEW late, NEW lost, NEW w, SoundBut(w, TRUE, late, lost),
         NEW p \in w.camDirs, Swept(w, p)
  PROVE  p \in DOMAIN w.dirs
<1>1. /\ IsTree(DOMAIN w.dirs) /\ IsTree(w.camDirs) /\ FoldersListed(w)
  BY DEF SoundBut, Typed, OnCamera
<1> SUFFICES ASSUME p \notin DOMAIN w.dirs PROVE FALSE
  OBVIOUS
<1>2. p \in Paths
  BY <1>1 DEF IsTree
<1>3. PICK q \in Above[p] \cup {p} :
        q \in Dirs /\ q \notin DOMAIN w.dirs /\ Parent[q] \in DOMAIN w.dirs
  BY <1>1, <1>2, FirstOutside
<1>4. q \in w.camDirs
  BY <1>1, <1>3, TreeAbove
<1>5. Parent[q] \in Above[p]
  <2>1. Parent[q] \in Above[q]
    BY <1>3, AboveIs
  <2> QED
    BY <1>2, <1>3, <2>1, AboveFurther
<1>6. ~w.dirs[Parent[q]].foldersDirty
  BY <1>3, <1>5 DEF Swept
<1>7. q \in Children(w.camDirs, Parent[q])
  BY <1>3, <1>4, FilesystemAssumption DEF Children
<1> QED
  BY <1>1, <1>3, <1>6, <1>7 DEF FoldersListed
-----------------------------------------------------------------------------
(* The listing of files.                                                   *)

\* gp_filesystem_list_files, case by case.
LEMMA ListFilesCases ==
  ASSUME NEW w, NEW p
  PROVE  ListFiles(w, p) =
           LET u == LookupFolder(w, p)
               v == FilesEmptied(u, p)
               c == Driver(v, "file_list", p \in v.camDirs, v)
           IN IF ~u.ok THEN u
              ELSE IF ~u.dirs[p].filesDirty THEN u
              ELSE IF ~c.ok THEN c ELSE NewFiles(c, In(DOMAIN c.camFiles, p), FALSE)
  BY Zenon DEF ListFiles, Try, After

\* What is left of the listing of files once the folder is found.
Filled(u, p) ==
  LET v == FilesEmptied(u, p)
      c == Driver(v, "file_list", p \in v.camDirs, v)
  IN IF ~c.ok THEN c ELSE NewFiles(c, In(DOMAIN c.camFiles, p), FALSE)

\* Marking the folder clean before the camera is asked makes up for nothing: it is
\* the new files that do.
LEMMA FilledSound ==
  ASSUME Benign, NEW sure, NEW late, NEW lost \in SUBSET Keys, NEW u, SoundBut(u, sure, late, lost),
         NEW p \in DOMAIN u.dirs, \A k \in lost : k[1] = p
  PROVE  LET x == Filled(u, p) IN
         /\ Sound(x, sure, late) /\ Walked(x, u) /\ x.dirs = [u.dirs EXCEPT ![p].filesDirty = FALSE]
         /\ Perfect => x.ok
<1> DEFINE S == In(DOMAIN u.files, p)
           u1 == FreeFiles(u, S)
           v == [u1 EXCEPT !.dirs[p].filesDirty = FALSE]
           c == Driver(v, "file_list", p \in v.camDirs, v)
           C == In(DOMAIN c.camFiles, p)
           x == Filled(u, p)
<1>1. Typed(u) /\ OnCamera(u) /\ u \in Worlds /\ DOMAIN u.camFiles \subseteq Keys
  BY WorldIs DEF SoundBut, Typed
<1>2. /\ Typed(u1) /\ Aside(u1, u) /\ u1.dirs = u.dirs /\ u1.freed = u.freed
      /\ DOMAIN u1.files = DOMAIN u.files \ S
  BY <1>1, FreeFilesIs
<1>3. SoundBut(u1, sure, late \cup S, lost \ S)
  BY FreeFilesSound
<1> HIDE DEF u1
<1>4. /\ Typed(v) /\ Aside(v, u1) /\ v.files = u1.files /\ v.freed = u1.freed
      /\ DOMAIN v.dirs = DOMAIN u1.dirs
      /\ ~v.dirs[p].filesDirty /\ v.dirs[p].foldersDirty = u1.dirs[p].foldersDirty
      /\ \A q \in DOMAIN u1.dirs \ {p} : v.dirs[q] = u1.dirs[q]
  <2> DEFINE b == FALSE
             y == [u1 EXCEPT !.dirs[p].filesDirty = b]
  <2>1. Typed(u1) /\ p \in DOMAIN u1.dirs /\ b \in BOOLEAN
    BY <1>2
  <2> HIDE DEF b
  <2>2. /\ Typed(y) /\ Aside(y, u1) /\ y.files = u1.files /\ y.freed = u1.freed
        /\ DOMAIN y.dirs = DOMAIN u1.dirs
        /\ y.dirs[p].filesDirty = b /\ y.dirs[p].foldersDirty = u1.dirs[p].foldersDirty
        /\ \A q \in DOMAIN u1.dirs \ {p} : y.dirs[q] = u1.dirs[q]
    BY <2>1, FilesDirtyIs
  <2> HIDE DEF y
  <2>3. v = y
    BY DEF y, b
  <2>4. ~b
    BY DEF b
  <2> QED
    BY <2>2, <2>3, <2>4
<1>5. v.dirs = [u.dirs EXCEPT ![p].filesDirty = FALSE]
  BY <1>2 DEF Typed, Worlds
<1>6. SoundBut(v, sure, late \cup S \cup In(DOMAIN u.camFiles, p), lost \ S)
  <2> DEFINE l == late \cup S \cup In(DOMAIN u.camFiles, p)
  <2>1. late \cup S \subseteq l /\ In(DOMAIN u1.camFiles, p) \subseteq l /\ p \in DOMAIN u1.dirs
    BY <1>2 DEF Aside
  <2> HIDE DEF l, S
  <2>2. SoundBut(v, sure, l, lost \ S)
    BY <1>3, <2>1, FilesDirtySound
  <2> QED
    BY <2>2 DEF l
<1>7. v \in Worlds /\ p \in v.camDirs /\ v.camFiles = u.camFiles /\ v.camDirs = u.camDirs
  BY <1>1, <1>2, <1>4 DEF Typed, Aside, OnCamera
<1>8. x = IF ~c.ok THEN c ELSE NewFiles(c, C, FALSE)
  BY DEF Filled, FilesEmptied, u1, v
<1> HIDE DEF v, x
<1>9. c \in Worlds /\ Same(c, v) /\ (Perfect => c.ok)
  <2>1. c = Driver(v, "file_list", TRUE, v)
    BY <1>7
  <2> HIDE DEF c
  <2> QED
    BY <1>7, <2>1, DriverIs DEF Perfect
<1> HIDE DEF c
<1>10. Walked(c, u)
  BY <1>2, <1>4, <1>7, <1>9 DEF Walked, Same, Alike, Swept
<1>11. (lost \ S) \cap DOMAIN v.files = {}
  BY <1>2, <1>4 DEF In
<1>12. CASE ~c.ok
  <2>1. Sound(c, sure, late)
    BY <1>6, <1>9, <1>11, <1>12, Adjust DEF Sound
  <2> QED
    BY <1>5, <1>8, <1>9, <1>10, <1>12, <2>1 DEF x, Same, Alike
<1>13. CASE c.ok
  <2> DEFINE y == NewFiles(c, C, FALSE)
             l == late \cup S \cup In(DOMAIN u.camFiles, p)
  <2>1. SoundBut(c, sure, l, {})
    BY <1>6, <1>9, <1>11, Adjust
  <2>2. c.camFiles = u.camFiles /\ c.files = v.files /\ c.dirs = v.dirs /\ c.freed = v.freed
    BY <1>7, <1>9 DEF Same, Alike
  <2>3. /\ C \in SUBSET Keys /\ C \subseteq DOMAIN c.camFiles
        /\ C \cap DOMAIN c.files = {} /\ \A k \in C : k[1] \in DOMAIN c.dirs
    BY <1>1, <1>2, <1>4, <2>2 DEF In
  <2>4. FALSE \in BOOLEAN /\ Typed(c)
    BY <2>1 DEF SoundBut
  <2> HIDE DEF C, y, l
  <2>5. SoundBut(y, sure, l \ C, {})
    BY <2>1, <2>3, <2>4, NewFilesSound DEF y
  <2>6. /\ Typed(y) /\ Aside(y, c) /\ y.dirs = c.dirs /\ y.freed = c.freed
        /\ DOMAIN y.files = DOMAIN c.files \cup C
    BY <2>3, <2>4, NewFilesIs DEF y
  <2>7. ((l \ C) \cap DOMAIN y.camFiles) \ DOMAIN y.files \subseteq late
    BY <2>2, <2>6 DEF l, C, In, S, Aside
  <2>8. y \in Worlds /\ Same(y, y)
    BY <2>6 DEF Typed, Same, Alike
  <2>9. Sound(y, sure, late)
    BY <2>5, <2>7, <2>8, Adjust DEF Sound
  <2>10. Walked(y, u)
    BY <1>10, <2>6 DEF Walked, Swept, Aside
  <2>11. x = y /\ y.ok
    BY <1>8, <1>13, <2>6 DEF y, Aside
  <2> QED
    BY <1>5, <2>2, <2>6, <2>9, <2>10, <2>11 DEF x
<1> QED
  BY <1>12, <1>13

\* What the listing of the files in p comes to.
FilesListed(x, w, p, sure, late) ==
  /\ Sound(x, sure, late) /\ Walked(x, w) /\ Swept(x, p)
  /\ x.ok => p \in DOMAIN x.dirs /\ ~x.dirs[p].filesDirty
  /\ Perfect /\ p \in DOMAIN x.dirs => x.ok

\* Files that are lost are forgotten when their folder is listed again.
LEMMA ListFilesSound ==
  ASSUME Benign, NEW sure, NEW late, NEW lost \in SUBSET Keys, NEW w,
         SoundBut(w, sure, late, lost), NEW p \in Paths,
         \/ lost = {}
         \/ /\ p \in DOMAIN w.dirs /\ Swept(w, p) /\ w.dirs[p].filesDirty
            /\ \A k \in lost : k[1] = p
  PROVE  FilesListed(ListFiles(w, p), w, p, sure, late)
<1> DEFINE u == Lookup[p][w]
           x == ListFiles(w, p)
           y == Filled(u, p)
<1>1. w \in Worlds /\ Typed(w)
  BY DEF SoundBut, Typed
<1>2. Found(u, w, p, sure, late, lost)
  BY LookupSound
<1>3. lost = {} \/ (u.ok /\ u.dirs[p].filesDirty /\ \A k \in lost : k[1] = p)
  <2>1. CASE lost # {}
    <3>1. u = Known(w, p)
      BY <1>1, <2>1, LookupSwept
    <3>2. Same(u, w) /\ u.ok
      BY <1>1, <2>1, <3>1, KnownIs
    <3> QED
      BY <2>1, <3>2 DEF Same, Alike
  <2> QED
    BY <2>1
<1>4. x = IF ~u.ok THEN u ELSE IF ~u.dirs[p].filesDirty THEN u ELSE y
  BY Zenon, ListFilesCases DEF Filled, LookupFolder
<1> HIDE DEF u, x
<1>5. CASE u.ok /\ u.dirs[p].filesDirty
  <2>1. p \in DOMAIN u.dirs /\ SoundBut(u, sure, late, lost) /\ Swept(u, p) /\ Walked(u, w)
    BY <1>2, <1>5 DEF Found
  <2>2. /\ Sound(y, sure, late) /\ Walked(y, u) /\ y.dirs = [u.dirs EXCEPT ![p].filesDirty = FALSE]
        /\ Perfect => y.ok
    BY <1>3, <2>1, FilledSound
  <2> HIDE DEF y
  <2>3. Swept(y, p)
    BY <2>1, <2>2 DEF Walked
  <2>4. u.dirs \in [DOMAIN u.dirs -> Flags]
    BY <2>1, WorldIs DEF SoundBut, Typed
  <2>5. p \in DOMAIN y.dirs /\ ~y.dirs[p].filesDirty
    BY <2>1, <2>2, <2>4 DEF Flags
  <2>6. Walked(y, w)
    BY <2>1, <2>2, WalkedFurther
  <2>7. x = y
    BY <1>4, <1>5
  <2> HIDE DEF x
  <2>8. FilesListed(y, w, p, sure, late)
    BY <2>2, <2>3, <2>5, <2>6 DEF FilesListed
  <2> QED
    BY <2>7, <2>8 DEF x
<1>6. CASE ~(u.ok /\ u.dirs[p].filesDirty)
  <2>1. Sound(u, sure, late)
    BY <1>2, <1>3, <1>6 DEF Sound, Found
  <2>2. x = u
    BY <1>4, <1>6
  <2>3. FilesListed(x, w, p, sure, late)
    BY <1>2, <1>6, <2>1, <2>2 DEF FilesListed, Found
  <2> QED
    BY <2>3 DEF x
<1> QED
  BY <1>5, <1>6

\* lookup_folder_file, case by case.
LEMMA LookupFileCases ==
  ASSUME NEW w, NEW k
  PROVE  LookupFile(w, k) =
           LET u == LookupFolder(w, k[1])
               v == IF u.dirs[k[1]].filesDirty THEN ListFiles(u, k[1]) ELSE u
           IN IF ~u.ok THEN u
              ELSE [Uses(v, k[1], u.freed[k[1]]) EXCEPT !.ok = k \in DOMAIN v.files]
  BY Zenon DEF LookupFile, Try, After

\* The lookup of a file.
FileFound(x, w, k, sure, late) ==
  /\ Sound(x, sure, late) /\ Walked(x, w) /\ Swept(x, k[1])
  /\ x.ok => k \in DOMAIN x.files

\* lookup_folder_file keeps the cache sound and uses no freed node.
LEMMA LookupFileSound ==
  ASSUME Benign, NEW sure, NEW late, NEW w, Sound(w, sure, late), NEW k \in Keys
  PROVE  FileFound(LookupFile(w, k), w, k, sure, late)
<1> DEFINE p == k[1]
           u == Lookup[p][w]
           v == IF u.dirs[p].filesDirty THEN ListFiles(u, p) ELSE u
           y == Uses(v, p, u.freed[p])
           b == k \in DOMAIN v.files
           x == LookupFile(w, k)
<1>1. p \in Paths
  BY FilesystemAssumption
<1> HIDE DEF p
<1>2. Found(u, w, p, sure, late, {})
  BY <1>1, LookupSound DEF Sound
<1>3. x = IF ~u.ok THEN u ELSE [y EXCEPT !.ok = b]
  BY LookupFileCases DEF p, LookupFolder
<1> HIDE DEF u, x
<1>4. CASE u.ok
  <2>1. p \in DOMAIN u.dirs /\ Sound(u, sure, late) /\ Swept(u, p) /\ Walked(u, w)
    BY <1>2, <1>4 DEF Found, Sound
  <2>2. Sound(v, sure, late) /\ Walked(v, u)
    <3>1. CASE u.dirs[p].filesDirty
      <4>1. FilesListed(ListFiles(u, p), u, p, sure, late)
        BY <1>1, <2>1, ListFilesSound DEF Sound
      <4> QED
        BY <3>1, <4>1 DEF FilesListed
    <3>2. CASE ~u.dirs[p].filesDirty
      BY <2>1, <3>2 DEF Walked
    <3> QED
      BY <3>1, <3>2
  <2> HIDE DEF v
  <2>3. v \in Worlds /\ v.freed[p] = u.freed[p] /\ Swept(v, p)
    BY <2>1, <2>2 DEF Sound, SoundBut, Typed, Walked
  <2>4. y = v
    BY <2>3, UsesIs
  <2> HIDE DEF y
  <2>5. b \in BOOLEAN
    OBVIOUS
  <2> HIDE DEF b
  <2>6. x \in Worlds /\ Same(x, v) /\ x.ok = b
    BY <1>3, <1>4, <2>3, <2>4, <2>5 DEF Worlds, Same, Alike
  <2>7. Sound(x, sure, late) /\ Walked(x, w) /\ Swept(x, p)
    BY <2>1, <2>2, <2>3, <2>6, SoundSame, WalkedSame, WalkedFurther, SweptSame
  <2>8. x.ok => k \in DOMAIN x.files
    BY <2>6 DEF b, Same, Alike
  <2> QED
    BY <2>7, <2>8 DEF FileFound, x, p
<1>5. CASE ~u.ok
  <2>1. FileFound(x, w, k, sure, late)
    BY <1>2, <1>3, <1>5 DEF Found, FileFound, Sound, p
  <2> QED
    BY <2>1 DEF x
<1> QED
  BY <1>4, <1>5
-----------------------------------------------------------------------------
(* The calls.                                                              *)

\* A folder that no listing can reach is where it was.
Kept(v, w) ==
  \A q \in DOMAIN w.dirs :
    Swept(w, q) => q \in DOMAIN v.dirs /\ Swept(v, q) /\ v.freed[q] = w.freed[q]

\* Two calls one after the other.
LEMMA KeptFurther ==
  ASSUME NEW w, NEW v, NEW u, Kept(v, w), Kept(u, v)
  PROVE  Kept(u, w)
  BY DEF Kept

\* A listing keeps such folders.
LEMMA WalkedKept ==
  ASSUME NEW w, NEW v, Walked(v, w)
  PROVE  Kept(v, w)
  BY DEF Kept, Walked

\* The folders and what is freed are the same.
LEMMA KeptSame ==
  ASSUME NEW w, NEW v, v.dirs = w.dirs, v.freed = w.freed
  PROVE  Kept(v, w)
  BY DEF Kept, Swept

\* gp_filesystem_get_info caches what the camera says.
LEMMA GetInfoSound ==
  ASSUME Benign, NEW sure, NEW late, NEW w, Sound(w, sure, late), NEW k \in Keys
  PROVE  Sound(GetInfo(w, k), sure, late)
<1> DEFINE u == LookupFile(w, k)
           done == InfoRead(u, k, u.camFiles[k])
           c == Driver(u, "get_info", k \in DOMAIN u.camFiles, done)
           x == GetInfo(w, k)
<1>1. FileFound(u, w, k, sure, late)
  BY LookupFileSound
<1>2. x = IF ~u.ok THEN u ELSE IF ~u.files[k].infoDirty THEN u ELSE c
  BY Zenon DEF GetInfo, Try
<1> HIDE DEF u, x
<1>3. CASE u.ok /\ u.files[k].infoDirty
  <2>1. k \in DOMAIN u.files /\ Typed(u) /\ u \in Worlds /\ Sound(u, sure, late)
    BY <1>1, <1>3 DEF FileFound, Sound, SoundBut, Typed
  <2>2. CASE k \in DOMAIN u.camFiles
    <3> DEFINE perm == u.camFiles[k]
               y == InfoRead(u, k, perm)
    <3>1. perm \in Perms \cup {Absent}
      BY <2>1, <2>2, WorldIs
    <3> HIDE DEF perm
    <3>2. FileChanged(y, u, k) /\ y.files[k].perm = perm
      BY <2>1, <3>1, InfoReadIs
    <3> HIDE DEF y
    <3>3. done = y
      BY DEF y, perm
    <3>4. Sound(y, sure, late)
      <4>1. /\ Typed(y) /\ Aside(y, u) /\ y.dirs = u.dirs /\ DOMAIN y.files = DOMAIN u.files
            /\ \A j \in DOMAIN u.files \ {k} : y.files[j] = u.files[j]
        BY <3>2 DEF FileChanged
      <4>2. TrueFile(y, k)
        BY <2>2, <3>2, <4>1 DEF TrueFile, Aside, perm
      <4> QED
        BY <2>1, <4>1, <4>2, FilesShownSound DEF Sound
    <3>5. done \in Worlds /\ Sound(done, sure, late)
      BY <3>3, <3>4 DEF Sound, SoundBut, Typed
    <3>6. c = Driver(u, "get_info", TRUE, done)
      BY <2>2
    <3> HIDE DEF c, done
    <3>7. c \in Worlds /\ (Same(c, u) \/ Same(c, done))
      BY <2>1, <3>5, <3>6, DriverIs
    <3> QED
      BY <1>2, <1>3, <2>1, <3>5, <3>7, SoundSame DEF x
  <2>3. CASE k \notin DOMAIN u.camFiles
    <3>1. c = Driver(u, "get_info", FALSE, done)
      <4>1. (k \in DOMAIN u.camFiles) = FALSE
        BY <2>3
      <4> QED
        BY Zenon, <4>1
    <3> HIDE DEF c, done
    <3>2. c \in Worlds /\ Same(c, u)
      BY <2>1, <3>1, DriverFails
    <3> QED
      BY <1>2, <1>3, <2>1, <3>2, SoundSame DEF x
  <2> QED
    BY <2>2, <2>3
<1>4. CASE ~(u.ok /\ u.files[k].infoDirty)
  BY <1>1, <1>2, <1>4 DEF FileFound, x
<1> QED
  BY <1>3, <1>4

\* gp_filesystem_set_info caches what was written, or marks the information dirty.
LEMMA SetInfoSound ==
  ASSUME Benign, NEW sure, NEW late, NEW w, Sound(w, sure, late), NEW k \in Keys,
         NEW perm \in Perms
  PROVE  Sound(SetInfo(w, k, perm), sure, late)
<1> DEFINE u == LookupFile(w, k)
           done == [u EXCEPT !.camFiles[k] = perm]
           c == Driver(u, "set_info", k \in DOMAIN u.camFiles, done)
           y == [c EXCEPT !.files[k].perm = IF c.files[k].perm = Absent THEN Absent ELSE perm]
           z == [c EXCEPT !.files[k].infoDirty = TRUE]
           x == SetInfo(w, k, perm)
<1>1. FileFound(u, w, k, sure, late)
  BY LookupFileSound
<1>2. x = IF ~u.ok THEN u ELSE IF c.ok THEN y ELSE z
  <2>1. PermCached(c, k, perm) = y
    BY DEF PermCached
  <2>2. x = IF ~u.ok THEN u ELSE IF c.ok THEN PermCached(c, k, perm) ELSE z
    BY Zenon DEF SetInfo, Try, After, CameraPerm
  <2> QED
    BY <2>1, <2>2
<1> HIDE DEF u, x
<1>3. CASE u.ok
  <2>1. k \in DOMAIN u.files /\ Typed(u) /\ u \in Worlds /\ Sound(u, sure, late)
    BY <1>1, <1>3 DEF FileFound, Sound, SoundBut, Typed
  <2>2. /\ c \in Worlds /\ SoundBut(c, sure, late, {k}) /\ c.files = u.files
        /\ c.ok => k \in DOMAIN c.camFiles /\ c.camFiles[k] = perm
        /\ k \in DOMAIN u.camFiles => k \in DOMAIN c.camFiles
    <3>1. CASE k \in DOMAIN u.camFiles
      <4>1. /\ SoundBut(done, sure, late, {k}) /\ Cached(done, u)
            /\ DOMAIN done.camFiles = DOMAIN u.camFiles /\ done.camFiles[k] = perm
        <5>1. SoundBut(u, sure, late, {})
          BY <2>1 DEF Sound
        <5> DEFINE s == {} \cup {k}
        <5>2. /\ SoundBut(done, sure, late, s) /\ Cached(done, u)
              /\ DOMAIN done.camFiles = DOMAIN u.camFiles /\ done.camFiles[k] = perm
          BY <3>1, <5>1, CamPerm
        <5>3. s = {k}
          OBVIOUS
        <5> QED
          BY <5>2, <5>3
      <4>2. done \in Worlds
        BY <4>1 DEF SoundBut, Typed
      <4>3. c = Driver(u, "set_info", TRUE, done)
        BY <3>1
      <4> HIDE DEF c, done
      <4>4. c \in Worlds /\ (Same(c, done) \/ (~c.ok /\ Same(c, u)))
        BY <2>1, <4>2, <4>3, DriverIs
      <4>5. CASE Same(c, done)
        <5>1. SoundBut(c, sure, late, {k})
          BY <4>1, <4>4, <4>5, Adjust
        <5> QED
          BY <3>1, <4>1, <4>4, <4>5, <5>1 DEF Same, Alike, Cached
      <4>6. CASE ~c.ok /\ Same(c, u)
        <5>1. SoundBut(c, sure, late, {k})
          BY <2>1, <4>4, <4>6, Adjust DEF Sound
        <5> QED
          BY <3>1, <4>4, <4>6, <5>1 DEF Same, Alike
      <4> QED
        BY <4>4, <4>5, <4>6
    <3>2. CASE k \notin DOMAIN u.camFiles
      <4>1. c = Driver(u, "set_info", FALSE, done)
        <5>1. (k \in DOMAIN u.camFiles) = FALSE
          BY <3>2
        <5> QED
          BY Zenon, <5>1
      <4> HIDE DEF c, done
      <4>2. c \in Worlds /\ Same(c, u) /\ ~c.ok
        BY <2>1, <4>1, DriverFails
      <4>3. SoundBut(c, sure, late, {k})
        BY <2>1, <4>2, Adjust DEF Sound
      <4> QED
        BY <3>2, <4>2, <4>3 DEF Same, Alike
    <3> QED
      BY <3>1, <3>2
  <2> HIDE DEF c
  <2>3. Typed(c) /\ k \in DOMAIN c.files
    BY <2>1, <2>2 DEF SoundBut
  <2>4. CASE c.ok
    <3> DEFINE new == IF c.files[k].perm = Absent THEN Absent ELSE perm
    <3>1. new \in Perms \cup {Absent}
      OBVIOUS
    <3>2. new \in {Absent, perm}
      OBVIOUS
    <3> HIDE DEF new
    <3>3. FileChanged(y, c, k) /\ y.files[k].perm = new
      BY <2>3, <3>1, PermIs DEF new
    <3> HIDE DEF y
    <3>4. TrueFile(y, k)
      BY <2>2, <2>4, <3>2, <3>3 DEF TrueFile, FileChanged, Aside
    <3>5. SoundBut(y, sure, late, {})
      BY <2>2, <3>3, <3>4, FilesShownSound DEF FileChanged
    <3> QED
      BY <1>2, <1>3, <2>4, <3>5 DEF Sound, x
  <2>5. CASE ~c.ok
    <3> DEFINE b == TRUE
               v == [c EXCEPT !.files[k].infoDirty = b]
    <3>1. b \in BOOLEAN /\ b
      OBVIOUS
    <3> HIDE DEF b
    <3>2. FileChanged(v, c, k) /\ v.files[k].infoDirty = b
      BY <2>3, <3>1, InfoDirtyIs
    <3> HIDE DEF v
    <3>3. z = v
      BY DEF v, b
    <3>4. sure => TrueFile(v, k)
      BY <2>1, <2>2, <3>1, <3>2 DEF Sound, SoundBut, TrueFile, FileChanged, Aside
    <3>5. SoundBut(v, sure, late, {})
      BY <2>2, <3>2, <3>4, FilesShownSound DEF FileChanged
    <3> QED
      BY <1>2, <1>3, <2>5, <3>3, <3>5 DEF Sound, x
  <2> QED
    BY <2>4, <2>5
<1>4. CASE ~u.ok
  BY <1>1, <1>2, <1>4 DEF FileFound, x
<1> QED
  BY <1>3, <1>4

\* A file is deleted on the camera, and then in the cache.
Deleted(x, w, S, sure, late) ==
  /\ Sound(x, sure, late) /\ Kept(x, w)
  /\ Perfect /\ x.ok => DOMAIN x.camFiles = DOMAIN w.camFiles \ S

\* The file is lost between the two steps of gp_filesystem_delete_file, not after them.
LEMMA DeleteFileSound ==
  ASSUME Benign, NEW sure, NEW late, NEW w, Sound(w, sure, late), NEW k \in Keys
  PROVE  Deleted(DeleteFile(w, k), w, {k}, sure, late)
<1> DEFINE u == LookupFile(w, k)
           X == {l \in DOMAIN u.camFiles : l = k /\ u.camFiles[l] \notin Protected}
           done == [u EXCEPT !.camFiles = Drop(u.camFiles, X)]
           c == CameraDelete(u, k)
           K == {k}
           y == FreeFiles(c, K)
           x == DeleteFile(w, k)
<1>1. FileFound(u, w, k, sure, late)
  BY LookupFileSound
<1>2. x = IF ~u.ok THEN u ELSE IF ~c.ok THEN c ELSE y
  BY Zenon DEF DeleteFile, Try
<1>3. c = Driver(u, "delete_file", TRUE, done)
  BY DEF CameraDelete
<1>4. X \subseteq {k} /\ (Perfect => X = {k} \cap DOMAIN u.camFiles)
  BY DEF Perfect
<1> HIDE DEF u, X, x
<1>5. u.camFiles = w.camFiles /\ Kept(u, w) /\ Sound(u, sure, late)
  BY <1>1, WalkedKept DEF FileFound, Walked
<1>6. CASE u.ok
  <2>1. u \in Worlds /\ SoundBut(u, sure, late, {})
    BY <1>5 DEF Sound, SoundBut, Typed
  <2>2. /\ SoundBut(done, sure, late, {} \cup X) /\ Cached(done, u)
        /\ DOMAIN done.camFiles = DOMAIN u.camFiles \ X
    BY <2>1, CamDropped
  <2> HIDE DEF done, c
  <2>3. /\ c \in Worlds /\ (c.ok => Same(c, done)) /\ (~c.ok => Same(c, u))
    <3>1. "delete_file" \notin Partial /\ done \in Worlds
      BY <2>2 DEF Benign, SoundBut, Typed
    <3> QED
      BY <1>3, <2>1, <3>1, DriverIs
  <2>4. CASE c.ok
    <3>1. SoundBut(c, sure, late, X)
      BY <2>2, <2>3, <2>4, Adjust
    <3> HIDE DEF K, y
    <3>2. SoundBut(y, sure, late \cup K, X \ K)
      BY <3>1, FreeFilesSound DEF y
    <3>3. Aside(y, c) /\ y.dirs = c.dirs /\ y.freed = c.freed
      BY <3>1, FreeFilesIs DEF y, SoundBut
    <3>4. y \in Worlds /\ Same(y, y)
      BY <3>2 DEF SoundBut, Typed, Same, Alike
    <3>5. Perfect => DOMAIN y.camFiles = DOMAIN w.camFiles \ {k}
      BY <1>4, <1>5, <2>2, <2>3, <2>4, <3>3 DEF Same, Alike, Aside
    <3>6. Sound(y, sure, late)
      BY <1>4, <3>2, <3>4, <3>5, Adjust DEF Sound, K
    <3>7. Kept(y, u)
      BY <2>2, <2>3, <2>4, <3>3, KeptSame DEF Same, Alike, Cached
    <3>8. Deleted(y, w, {k}, sure, late)
      BY <1>5, <3>5, <3>6, <3>7, KeptFurther DEF Deleted
    <3> QED
      BY <1>2, <1>6, <2>4, <3>8 DEF x
  <2>5. CASE ~c.ok
    <3>1. Sound(c, sure, late) /\ Kept(c, u)
      BY <1>5, <2>3, <2>5, SoundSame, KeptSame DEF Same, Alike
    <3>2. Deleted(c, w, {k}, sure, late)
      BY <1>5, <2>5, <3>1, KeptFurther DEF Deleted
    <3> QED
      BY <1>2, <1>6, <2>5, <3>2 DEF x
  <2> QED
    BY <2>4, <2>5
<1>7. CASE ~u.ok
  <2>1. Deleted(u, w, {k}, sure, late)
    BY <1>5, <1>7 DEF Deleted
  <2> QED
    BY <1>2, <1>7, <2>1 DEF x
<1> QED
  BY <1>6, <1>7

\* The files are deleted one after the other, until one fails.
LEMMA DeleteEachSound ==
  ASSUME Benign, NEW sure, NEW late, NEW w, Sound(w, sure, late), NEW S \in SUBSET Keys
  PROVE  Deleted(DeleteEach(w, S), w, S, sure, late)
<1> DEFINE T == {v \in Worlds : Sound(v, sure, late) /\ Kept(v, w)}
           Pick(s) == CHOOSE x \in s : TRUE
           Step(k, v) == IF v.ok THEN DeleteFile(v, k) ELSE v
           op == [e \in S \X T |-> Step(e[1], e[2])]
           Folded(h) == [s \in SUBSET S |-> IF s = {} THEN w
                                            ELSE LET k == Pick(s) v == h[s \ {Pick(s)}]
                                                 IN  IF v.ok THEN DeleteFile(v, k) ELSE v]
<1>1. IsFiniteSet(S)
  BY FilesystemAssumption, FS_Subset
<1>2. \A v \in T, k \in S : Step(k, v) \in T
  <2> SUFFICES ASSUME NEW v \in T, NEW k \in S, v.ok PROVE DeleteFile(v, k) \in T
    OBVIOUS
  <2> DEFINE y == DeleteFile(v, k)
  <2>1. Deleted(y, v, {k}, sure, late)
    BY DeleteFileSound
  <2> HIDE DEF y
  <2>2. Sound(y, sure, late) /\ Kept(y, w) /\ y \in Worlds
    BY <2>1, KeptFurther DEF Deleted, Sound, SoundBut, Typed
  <2> QED
    BY <2>2 DEF y
<1>3. w \in T
  BY KeptSame DEF Sound, SoundBut, Typed
<1> HIDE DEF T, Step
<1>4. op \in [S \X T -> T] /\ \A k \in S, v \in T : op[<<k, v>>] = Step(k, v)
  BY <1>2
<1> HIDE DEF op
<1>5. PICK g : FoldsWith(g, S, T, w, op)
  BY <1>1, <1>3, <1>4, FoldRecursion
<1>6. g = Folded(g)
  <2>1. ASSUME NEW s \in SUBSET S
        PROVE  g[s] = IF s = {} THEN w ELSE Step(Pick(s), g[s \ {Pick(s)}])
    <3>1. g[s] = IF s = {} THEN w ELSE op[<<Pick(s), g[s \ {Pick(s)}]>>]
      BY Zenon, <1>5 DEF FoldsWith
    <3>2. s # {} => Pick(s) \in S
      OBVIOUS
    <3>3. g[s \ {Pick(s)}] \in T
      BY <1>5 DEF FoldsWith
    <3> QED
      BY <1>4, <3>1, <3>2, <3>3
  <2>2. g = [s \in SUBSET S |-> g[s]]
    BY <1>5 DEF FoldsWith
  <2> HIDE DEF Pick
  <2> QED
    BY <2>1, <2>2 DEF Step
<1>7. PICK h : h = Folded(h) /\ DeleteEach(w, S) = h[S]
  BY Zenon, <1>6 DEF DeleteEach, FoldSet, MapThenFoldSet
<1>8. h[{}] = w
  BY <1>7
<1>9. \A s \in SUBSET S : s # {} => Pick(s) \in s /\ h[s] = Step(Pick(s), h[s \ {Pick(s)}])
  BY <1>7 DEF Step
<1> DEFINE Q == {s \in SUBSET S : Deleted(h[s], w, s, sure, late)}
<1>10. {} \in Q
  BY <1>8, KeptSame DEF Deleted
<1>11. ASSUME NEW s \in SUBSET S, s # {}, s \ {CHOOSE x \in s : TRUE} \in Q
       PROVE  s \in Q
  <2> DEFINE k == Pick(s)
             m == h[s \ {k}]
  <2>1. k \in s /\ h[s] = Step(k, m)
    BY <1>9, <1>11
  <2>2. Deleted(m, w, s \ {k}, sure, late)
    BY <1>11
  <2> HIDE DEF k, m
  <2>3. CASE m.ok
    <3>1. Deleted(DeleteFile(m, k), m, {k}, sure, late)
      BY <2>1, <2>2, DeleteFileSound DEF Deleted
    <3>2. h[s] = DeleteFile(m, k)
      BY <2>1, <2>3 DEF Step
    <3>3. Deleted(h[s], w, s, sure, late)
      BY <2>1, <2>2, <2>3, <3>1, <3>2, KeptFurther DEF Deleted
    <3> QED
      BY <3>3
  <2>4. CASE ~m.ok
    <3>1. h[s] = m
      BY <2>1, <2>4 DEF Step
    <3>2. Deleted(h[s], w, s, sure, late)
      BY <2>2, <2>4, <3>1 DEF Deleted
    <3> QED
      BY <3>2
  <2> QED
    BY <2>3, <2>4
<1> HIDE DEF Q
<1>12. S \in Q
  BY <1>1, <1>10, <1>11, SubsetInduction
<1> QED
  BY <1>7, <1>12 DEF Q

\* All files of a folder are deleted, but for those that are late.
AllDeleted(x, w, p, sure, late) ==
  /\ Sound(x, sure, late) /\ Kept(x, w)
  /\ x.ok => p \in DOMAIN x.dirs
  /\ Perfect /\ sure /\ x.ok => In(DOMAIN x.camFiles, p) \subseteq late

\* The files that delete_all_func removed before it failed are listed no more.
LEMMA DeleteOneByOneSound ==
  ASSUME Benign, NEW sure, NEW late, NEW lost \in SUBSET Keys, NEW w,
         SoundBut(w, sure, late, lost), NEW p \in Paths,
         \/ lost = {}
         \/ /\ p \in DOMAIN w.dirs /\ Swept(w, p) /\ w.dirs[p].filesDirty
            /\ \A k \in lost : k[1] = p
  PROVE  AllDeleted(DeleteOneByOne(w, p), w, p, sure, late)
<1> DEFINE u == ListFiles(w, p)
           S == In(DOMAIN u.files, p)
           y == DeleteEach(u, S)
           x == DeleteOneByOne(w, p)
<1>1. FilesListed(u, w, p, sure, late)
  BY ListFilesSound
<1>2. x = IF u.ok THEN y ELSE u
  BY Zenon DEF DeleteOneByOne, Try
<1> HIDE DEF u, x
<1>3. Sound(u, sure, late) /\ Kept(u, w)
  BY <1>1, WalkedKept DEF FilesListed
<1>4. CASE u.ok
  <2>1. S \in SUBSET Keys
    BY <1>3, WorldIs DEF In, Sound, SoundBut, Typed
  <2>2. Deleted(y, u, S, sure, late)
    BY <1>3, <2>1, DeleteEachSound
  <2> HIDE DEF y
  <2>3. p \in DOMAIN y.dirs
    BY <1>1, <1>4, <2>2 DEF FilesListed, Deleted, Kept
  <2>4. ASSUME Perfect, sure, y.ok
        PROVE  In(DOMAIN y.camFiles, p) \subseteq late
    <3>1. DOMAIN y.camFiles = DOMAIN u.camFiles \ S
      BY <2>2, <2>4 DEF Deleted
    <3>2. \A k \in DOMAIN u.camFiles \ late : k[1] = p => k \in S
      BY <1>1, <1>4, <2>4 DEF FilesListed, Sound, SoundBut, Full, In
    <3> QED
      BY <3>1, <3>2 DEF In
  <2>5. AllDeleted(y, w, p, sure, late)
    BY <1>3, <2>2, <2>3, <2>4, KeptFurther DEF AllDeleted, Deleted
  <2> QED
    BY <1>2, <1>4, <2>5 DEF x
<1>5. CASE ~u.ok
  <2>1. AllDeleted(u, w, p, sure, late)
    BY <1>3, <1>5 DEF AllDeleted
  <2> QED
    BY <1>2, <1>5, <2>1 DEF x
<1> QED
  BY <1>4, <1>5

\* The folder p is marked.
Marked(w, p, b) == [w EXCEPT !.dirs[p].filesDirty = b]

MarkedAs(v, w, p, b) ==
  /\ Typed(v) /\ Aside(v, w) /\ v.freed = w.freed /\ v.files = w.files
  /\ DOMAIN v.dirs = DOMAIN w.dirs /\ v.dirs[p].filesDirty = b
  /\ \A q \in DOMAIN w.dirs : v.dirs[q].foldersDirty = w.dirs[q].foldersDirty

\* Marking a folder changes its flag alone.
LEMMA MarkedIs ==
  ASSUME NEW w, Typed(w), NEW p \in DOMAIN w.dirs, NEW b, b \in BOOLEAN
  PROVE  MarkedAs(Marked(w, p, b), w, p, b)
<1> DEFINE v == [w EXCEPT !.dirs[p].filesDirty = b]
<1>1. /\ Typed(v) /\ Aside(v, w) /\ v.files = w.files /\ v.freed = w.freed
      /\ DOMAIN v.dirs = DOMAIN w.dirs
      /\ v.dirs[p].filesDirty = b /\ v.dirs[p].foldersDirty = w.dirs[p].foldersDirty
      /\ \A q \in DOMAIN w.dirs \ {p} : v.dirs[q] = w.dirs[q]
  BY FilesDirtyIs
<1>2. Marked(w, p, b) = v
  BY DEF Marked
<1> HIDE DEF v
<1> QED
  BY <1>1, <1>2 DEF MarkedAs

\* Only the flag files_dirty of p may be different, and no listing changes.
LEMMA MarkedKept ==
  ASSUME NEW w, Typed(w), NEW p \in DOMAIN w.dirs, NEW b, b \in BOOLEAN
  PROVE  Kept(Marked(w, p, b), w)
  BY MarkedIs DEF MarkedAs, Kept, Swept

\* A folder may be marked as not listed at any time.
LEMMA MarkedSound ==
  ASSUME NEW sure, NEW late, NEW lost, NEW w, SoundBut(w, sure, late, lost),
         NEW p \in DOMAIN w.dirs, NEW b \in BOOLEAN,
         Perfect /\ sure /\ ~b => In(DOMAIN w.camFiles, p) \subseteq late
  PROVE  SoundBut(Marked(w, p, b), sure, late, lost)
<1> DEFINE v == [w EXCEPT !.dirs[p].filesDirty = b]
<1>1. late \subseteq late
  OBVIOUS
<1>2. SoundBut(v, sure, late, lost)
  BY <1>1, FilesDirtySound
<1>3. Marked(w, p, b) = v
  BY DEF Marked
<1> HIDE DEF v
<1> QED
  BY <1>2, <1>3

\* The driver has deleted all files, if it did not fail half way.
EachDeleted(c, w, p, sure, late) ==
  /\ SoundBut(c, sure, late, In(DOMAIN w.camFiles, p))
  /\ c.dirs = w.dirs /\ c.freed = w.freed
  /\ c.ok => In(DOMAIN c.camFiles, p) = {}
  /\ Perfect => c.ok

\* What delete_all_func comes to.
LEMMA CameraDeletedAll ==
  ASSUME NEW sure, NEW late, NEW w, Sound(w, sure, late), NEW p \in DOMAIN w.dirs
  PROVE  EachDeleted(CameraDeleteAll(w, p), w, p, sure, late)
<1> DEFINE c == CameraDeleteAll(w, p)
           X == In(DOMAIN w.camFiles, p)
           done == [w EXCEPT !.camFiles = Drop(w.camFiles, X)]
           no == {}
           yes == TRUE
<1>1. /\ SoundBut(w, sure, late, no) /\ w \in Worlds /\ p \in w.camDirs /\ no \subseteq X
      /\ yes \in BOOLEAN /\ yes
  BY DEF Sound, SoundBut, Typed, OnCamera
<1>2. c = Driver(w, "delete_all", p \in w.camDirs, done)
  BY Zenon DEF CameraDeleteAll
<1>3. (p \in w.camDirs) = yes
  BY <1>1
<1>4. c = Driver(w, "delete_all", yes, done)
  BY Zenon, <1>2, <1>3
<1>5. \A k \in DOMAIN w.camFiles : k \in X <=> k[1] = p
  BY DEF In
<1>6. \A g : In(DOMAIN g, p) = {k \in DOMAIN g : k[1] = p}
  BY DEF In
<1> HIDE DEF X, no, yes, c
<1>7. /\ SoundBut(done, sure, late, no \cup X) /\ Cached(done, w)
      /\ DOMAIN done.camFiles = DOMAIN w.camFiles \ X
  BY <1>1, CamDropped
<1> HIDE DEF done
<1>8. done \in Worlds /\ no \cup X = X
  BY <1>1, <1>7 DEF SoundBut, Typed
<1>9. /\ c \in Worlds /\ (c.ok => Same(c, done)) /\ (~c.ok => Same(c, w) \/ Same(c, done))
      /\ (Perfect => c.ok)
  BY <1>1, <1>4, <1>8, DriverIs DEF Perfect
<1>10. c.dirs = w.dirs /\ c.freed = w.freed
  BY <1>7, <1>9 DEF Same, Alike, Cached
<1>11. SoundBut(c, sure, late, X)
  <2>1. CASE Same(c, done)
    BY <1>7, <1>8, <1>9, <2>1, Adjust
  <2>2. CASE Same(c, w)
    BY <1>1, <1>9, <2>2, Adjust
  <2> QED
    BY <1>9, <2>1, <2>2
<1>12. c.ok => In(DOMAIN c.camFiles, p) = {}
  BY <1>5, <1>6, <1>7, <1>9 DEF Same, Alike
<1> QED
  BY <1>9, <1>10, <1>11, <1>12 DEF EachDeleted, X, c

\* gp_filesystem_delete_all, case by case.
LEMMA DeleteAllCases ==
  ASSUME NEW w, NEW p
  PROVE  DeleteAll(w, p) =
           LET u == LookupFolder(w, p)
               c == CameraDeleteAll(Marked(u, p, TRUE), p)
               d == IF c.ok THEN FreeFiles(c, In(DOMAIN c.files, p))
                            ELSE DeleteOneByOne(Ok(c), p)
           IN IF ~u.ok THEN u
              ELSE IF ~HasDeleteAll THEN DeleteOneByOne(u, p)
              ELSE IF d.ok THEN Marked(Uses(d, p, u.freed[p]), p, FALSE) ELSE d
  BY Zenon DEF DeleteAll, Try, After, Marked

\* gp_filesystem_delete_all keeps the cache sound; only files that are late survive it.
LEMMA DeleteAllSound ==
  ASSUME Benign, NEW sure, NEW late, NEW w, Sound(w, sure, late), NEW p \in Paths
  PROVE  LET x == DeleteAll(w, p) IN
         /\ Sound(x, sure, late)
         /\ Perfect /\ sure /\ x.ok => In(DOMAIN x.camFiles, p) \subseteq late
<1> DEFINE u == Lookup[p][w]
           c == CameraDeleteAll(Marked(u, p, TRUE), p)
           F == In(DOMAIN c.files, p)
           X == In(DOMAIN u.camFiles, p)
           d == IF c.ok THEN FreeFiles(c, F) ELSE DeleteOneByOne(Ok(c), p)
           y == DeleteOneByOne(u, p)
           b == FALSE
           z == Marked(Uses(d, p, u.freed[p]), p, b)
           x == DeleteAll(w, p)
           Good(v) == /\ Sound(v, sure, late)
                      /\ Perfect /\ sure /\ v.ok => In(DOMAIN v.camFiles, p) \subseteq late
<1>1. Found(u, w, p, sure, late, {})
  BY LookupSound DEF Sound
<1>2. x = IF ~u.ok THEN u ELSE IF ~HasDeleteAll THEN y ELSE IF d.ok THEN z ELSE d
  BY Zenon, DeleteAllCases DEF LookupFolder
<1> HIDE DEF u, x
<1>3. CASE ~u.ok
  <2>1. Sound(u, sure, late)
    BY <1>1 DEF Sound, Found
  <2> QED
    BY <1>2, <1>3, <2>1 DEF x
<1>4. CASE u.ok /\ ~HasDeleteAll
  <2>1. SoundBut(u, sure, late, {}) /\ {} \in SUBSET Keys
    BY <1>1 DEF Found
  <2>2. AllDeleted(y, u, p, sure, late)
    BY <2>1, DeleteOneByOneSound
  <2> HIDE DEF y
  <2>3. x = y
    BY <1>2, <1>4
  <2> QED
    BY <2>2, <2>3 DEF AllDeleted, x
<1>5. CASE u.ok /\ HasDeleteAll
  <2>1. p \in DOMAIN u.dirs /\ Sound(u, sure, late) /\ Swept(u, p)
    BY <1>1, <1>5 DEF Found, Sound
  <2>2. /\ SoundBut(c, sure, late, X) /\ Kept(c, u)
        /\ p \in DOMAIN c.dirs /\ Swept(c, p) /\ c.dirs[p].filesDirty
        /\ c.ok => In(DOMAIN c.camFiles, p) = {}
        /\ Perfect => c.ok
    <3> DEFINE yes == TRUE
               m == Marked(u, p, yes)
    <3>1. /\ SoundBut(u, sure, late, {}) /\ yes \in BOOLEAN /\ yes /\ Typed(u)
          /\ c = CameraDeleteAll(m, p)
      BY <2>1 DEF Sound, SoundBut
    <3> HIDE DEF yes, c
    <3>2. SoundBut(m, sure, late, {})
      BY <2>1, <3>1, MarkedSound
    <3>3. /\ Aside(m, u) /\ m.freed = u.freed
          /\ DOMAIN m.dirs = DOMAIN u.dirs /\ m.dirs[p].filesDirty = yes
      <4>1. MarkedAs(m, u, p, yes)
        BY <2>1, <3>1, MarkedIs
      <4> HIDE DEF m
      <4> QED
        BY <4>1 DEF MarkedAs
    <3>4. Kept(m, u)
      BY <2>1, <3>1, MarkedKept
    <3> HIDE DEF m
    <3>5. EachDeleted(c, m, p, sure, late)
      BY <2>1, <3>1, <3>2, <3>3, CameraDeletedAll DEF Sound
    <3>6. SoundBut(c, sure, late, X)
      BY <3>3, <3>5 DEF EachDeleted, Aside
    <3>7. Kept(c, u)
      BY <3>4, <3>5, KeptSame, KeptFurther DEF EachDeleted
    <3>8. p \in DOMAIN c.dirs /\ Swept(c, p) /\ c.dirs[p].filesDirty
      BY <2>1, <3>1, <3>3, <3>5, <3>7 DEF EachDeleted, Kept
    <3> QED
      BY <3>5, <3>6, <3>7, <3>8 DEF EachDeleted
  <2>3. Typed(c) /\ c \in Worlds
    BY <2>2 DEF SoundBut, Typed
  <2>4. \A k \in X : k[1] = p
    BY DEF In
  <2>5. X \in SUBSET Keys
    BY <2>1, WorldIs DEF In, Sound, SoundBut, Typed
  <2> HIDE DEF c, X
  <2>6. /\ Sound(d, sure, late) /\ Kept(d, u) /\ (d.ok => p \in DOMAIN d.dirs)
        /\ (Perfect => In(DOMAIN d.camFiles, p) = {})
    <3>1. CASE c.ok
      <4> DEFINE f == FreeFiles(c, F)
      <4>1. SoundBut(f, sure, late \cup F, X \ F)
        BY <2>2, FreeFilesSound
      <4>2. /\ Typed(f) /\ Aside(f, c) /\ f.dirs = c.dirs /\ f.freed = c.freed
            /\ DOMAIN f.files = DOMAIN c.files \ F
        BY <2>3, FreeFilesIs
      <4>3. In(DOMAIN f.camFiles, p) = {}
        BY <2>2, <3>1, <4>2 DEF Aside
      <4> HIDE DEF f
      <4>4. f \in Worlds /\ Same(f, f)
        BY <4>2 DEF Typed, Same, Alike
      <4>5. (X \ F) \cap DOMAIN f.files \subseteq {}
        BY <2>4, <4>2 DEF In
      <4>6. ((late \cup F) \cap DOMAIN f.camFiles) \ DOMAIN f.files \subseteq late
        BY <4>3 DEF In
      <4>7. Sound(f, sure, late)
        BY <4>1, <4>4, <4>5, <4>6, Adjust DEF Sound
      <4>8. Kept(f, u)
        BY <2>2, <4>2, KeptSame, KeptFurther
      <4>9. d = f
        BY <3>1 DEF f
      <4> QED
        BY <2>2, <4>2, <4>3, <4>7, <4>8, <4>9
    <3>2. CASE ~c.ok
      <4> DEFINE o == Ok(c)
                 f == DeleteOneByOne(o, p)
      <4>1. o \in Worlds /\ Same(o, c)
        BY <2>3, OkIs
      <4> HIDE DEF o
      <4>2. SoundBut(o, sure, late, X)
        BY <2>2, <4>1, Adjust
      <4>3. p \in DOMAIN o.dirs /\ Swept(o, p) /\ o.dirs[p].filesDirty
        BY <2>2, <4>1, SweptSame DEF Same, Alike
      <4>4. AllDeleted(f, o, p, sure, late)
        BY <2>4, <2>5, <4>2, <4>3, DeleteOneByOneSound
      <4> HIDE DEF f
      <4>5. Kept(f, u)
        BY <2>2, <4>1, <4>4, KeptSame, KeptFurther DEF AllDeleted, Same, Alike
      <4>6. d = f
        BY <3>2 DEF f, o
      <4> QED
        BY <2>2, <3>2, <4>4, <4>5, <4>6 DEF AllDeleted
    <3> QED
      BY <3>1, <3>2
  <2> HIDE DEF d, x
  <2>7. CASE d.ok
    <3> DEFINE v == Uses(d, p, u.freed[p])
    <3>1. d \in Worlds /\ d.freed[p] = u.freed[p] /\ p \in DOMAIN d.dirs /\ Typed(d)
      BY <2>1, <2>6, <2>7 DEF Kept, Sound, SoundBut, Typed
    <3>2. v = d
      BY <3>1, UsesIs
    <3> HIDE DEF v
    <3>3. b \in BOOLEAN
      OBVIOUS
    <3>4. z = Marked(d, p, b)
      BY <3>2 DEF v
    <3> HIDE DEF b, z
    <3>5. SoundBut(z, sure, late, {})
      <4>1. SoundBut(d, sure, late, {}) /\ late \subseteq late
        BY <2>6 DEF Sound
      <4>2. Perfect => In(DOMAIN d.camFiles, p) \subseteq late
        BY <2>6
      <4> QED
        BY <3>1, <3>3, <3>4, <4>1, <4>2, FilesDirtySound DEF Marked
    <3>6. z.camFiles = d.camFiles
      BY <3>1, <3>3, <3>4, MarkedIs DEF MarkedAs, Aside
    <3>7. x = z
      BY <1>2, <1>5, <2>7
    <3>8. Good(x)
      BY <2>6, <3>5, <3>6, <3>7 DEF Sound
    <3> QED
      BY <3>8 DEF x
  <2>8. CASE ~d.ok
    <3>1. x = d
      BY <1>2, <1>5, <2>8
    <3>2. Good(x)
      BY <2>6, <2>8, <3>1
    <3> QED
      BY <3>2 DEF x
  <2> QED
    BY <2>7, <2>8
<1> QED
  BY <1>3, <1>4, <1>5

\* A folder is made on the camera, and then in the cache.
LEMMA MakeDirSound ==
  ASSUME Benign, NEW sure, NEW late, NEW w, Sound(w, sure, late), NEW p \in Dirs
  PROVE  Sound(MakeDir(w, p), sure, late)
<1> DEFINE q == Parent[p]
           u == Lookup[q][w]
           able == q \in u.camDirs /\ p \notin u.camDirs
           done == [u EXCEPT !.camDirs = u.camDirs \cup {p}]
           c == Driver(u, "make_dir", able, done)
           x == MakeDir(w, p)
<1>1. q \in Paths /\ p \in Paths /\ Parent[p] = q
  BY DepthFacts DEF Paths
<1>2. x = IF ~u.ok THEN u ELSE IF ~c.ok THEN c ELSE NewDir(c, p)
  BY Zenon DEF MakeDir, LookupFolder, Try
<1> HIDE DEF q, x
<1>3. Found(u, w, q, sure, late, {})
  BY <1>1, LookupSound DEF Sound
<1> HIDE DEF u
<1>4. CASE u.ok
  <2>1. q \in DOMAIN u.dirs /\ Sound(u, sure, late) /\ u \in Worlds
    BY <1>3, <1>4 DEF Found, Sound, SoundBut, Typed
  <2>2. done \in Worlds
    BY <1>1, <2>1 DEF Worlds
  <2>3. able \in BOOLEAN
    BY Zenon
  <2>4. Parent[p] \in DOMAIN u.dirs
    BY <1>1, <2>1
  <2> DEFINE can == able
  <2>5. can \in BOOLEAN /\ c = Driver(u, "make_dir", can, done) /\ (can => p \notin u.camDirs)
    BY <2>3
  <2> HIDE DEF can, c
  <2>6. /\ c \in Worlds /\ (~c.ok => Same(c, u))
        /\ c.ok => p \notin u.camDirs /\ Same(c, done)
    <3> HIDE DEF done
    <3> QED
      BY <2>1, <2>2, <2>5, DriverIs DEF Benign
  <2>7. CASE c.ok
    <3>1. Sound(NewDir(c, p), sure, late)
      BY <2>1, <2>4, <2>6, <2>7, NewDirSound
    <3> QED
      BY <1>2, <1>4, <2>7, <3>1 DEF x
  <2>8. CASE ~c.ok
    BY <1>2, <1>4, <2>1, <2>6, <2>8, SoundSame DEF x
  <2> QED
    BY <2>7, <2>8
<1>5. CASE ~u.ok
  BY <1>2, <1>3, <1>5 DEF Found, Sound, x
<1> QED
  BY <1>4, <1>5

\* gp_filesystem_remove_dir, case by case.
LEMMA RemoveDirCases ==
  ASSUME NEW w, NEW p
  PROVE  RemoveDir(w, p) =
           LET u == LookupFolder(w, Parent[p])
               v == Refreshed(u, Parent[p])
               c == CameraRemoveDir(v, p)
           IN IF ~u.ok THEN u
              ELSE IF \/ p \notin DOMAIN v.dirs
                      \/ Children(DOMAIN v.dirs, p) # {} \/ In(DOMAIN v.files, p) # {}
              THEN Error(v)
              ELSE IF ~c.ok THEN c ELSE FreeDirs(c, {p})
  BY Zenon DEF RemoveDir, Try, After

\* A folder is removed on the camera, and then in the cache, which knew nothing in it.
LEMMA RemoveDirSound ==
  ASSUME Benign, NEW sure, NEW late, NEW w, Sound(w, sure, late), NEW p \in Dirs
  PROVE  Sound(RemoveDir(w, p), sure, late)
<1> DEFINE q == Parent[p]
           u == Lookup[q][w]
           v == Refresh(Lookup[q], u, q)
           used == \/ p \notin DOMAIN v.dirs
                   \/ Children(DOMAIN v.dirs, p) # {} \/ In(DOMAIN v.files, p) # {}
           c == CameraRemoveDir(v, p)
           x == RemoveDir(w, p)
<1>1. q \in Paths /\ p \in Paths /\ Parent[p] = q
  BY DepthFacts DEF Paths
<1>2. x = IF ~u.ok THEN u ELSE IF used THEN Error(v) ELSE IF ~c.ok THEN c ELSE FreeDirs(c, {p})
  BY Zenon, RemoveDirCases DEF LookupFolder, Refreshed
<1> HIDE DEF q, x
<1>3. Found(u, w, q, sure, late, {})
  BY <1>1, LookupSound DEF Sound
<1> HIDE DEF u
<1>4. CASE u.ok
  <2>1. q \in DOMAIN u.dirs /\ SoundBut(u, sure, late, {}) /\ Swept(u, q)
    BY <1>3, <1>4 DEF Found
  <2>2. Listed(v, u, q, sure, late, {})
    BY <1>1, <1>4, <2>1, RefreshSound
  <2> HIDE DEF v
  <2>3. Sound(v, sure, late) /\ v \in Worlds
    BY <2>2 DEF Listed, Sound, SoundBut, Typed
  <2>4. CASE used
    <3>1. Sound(Error(v), sure, late)
      BY <2>3, ErrorIs, SoundSame
    <3> QED
      BY <1>2, <1>4, <2>4, <3>1 DEF x
  <2>5. CASE ~used
    <3> DEFINE done == WithCamera(v, DirsWithout(v.camDirs, p), FilesWithout(v.camFiles, p))
               yes == TRUE
    <3>1. p \in v.camDirs /\ v.camDirs \subseteq Paths /\ yes \in BOOLEAN
      BY <2>3, <2>5, WorldIs DEF Sound, SoundBut, OnCamera
    <3>2. c = Driver(v, "remove_dir", p \in v.camDirs, done)
      BY Zenon DEF CameraRemoveDir, WithCamera, DirsWithout, FilesWithout
    <3>3. (p \in v.camDirs) = yes
      BY <3>1
    <3>4. c = Driver(v, "remove_dir", yes, done)
      BY Zenon, <3>2, <3>3
    <3> HIDE DEF yes
    <3>5. done \in Worlds
      <4> DEFINE d == DirsWithout(v.camDirs, p)
                 f == FilesWithout(v.camFiles, p)
      <4>1. d \subseteq Paths
        BY <3>1 DEF DirsWithout
      <4>2. f \in Partly(Keys, Perms)
        BY <2>3, DropIs DEF FilesWithout, Worlds
      <4>3. Typed(v)
        BY <2>3 DEF Sound, SoundBut
      <4> HIDE DEF d, f
      <4>4. Typed(WithCamera(v, d, f))
        BY <4>1, <4>2, <4>3, CamIs
      <4>5. Typed(done)
        BY <4>4 DEF d, f
      <4> QED
        BY <4>5 DEF Typed
    <3> HIDE DEF c
    <3>6. c \in Worlds /\ (c.ok => Same(c, done)) /\ (~c.ok => Same(c, v))
      <4> HIDE DEF done
      <4> QED
        BY <2>3, <3>1, <3>4, <3>5, DriverIs DEF Benign
    <3>7. CASE c.ok
      <4>1. Sound(FreeDirs(c, {p}), sure, late)
        BY <2>3, <2>5, <3>6, <3>7, RemovedSound
      <4> QED
        BY <1>2, <1>4, <2>5, <3>7, <4>1 DEF x
    <3>8. CASE ~c.ok
      BY <1>2, <1>4, <2>3, <2>5, <3>6, <3>8, SoundSame DEF x
    <3> QED
      BY <3>7, <3>8
  <2> QED
    BY <2>4, <2>5
<1>5. CASE ~u.ok
  BY <1>2, <1>3, <1>5 DEF Found, Sound, x
<1> QED
  BY <1>4, <1>5

\* gp_filesystem_put_file, case by case.
LEMMA PutFileCases ==
  ASSUME NEW w, NEW k, NEW perm
  PROVE  PutFile(w, k, perm) =
           LET u == LookupFolder(w, k[1])
               c == Driver(u, "put_file", k[1] \in u.camDirs /\ k \notin DOMAIN u.camFiles,
                           [u EXCEPT !.camFiles = Put(u.camFiles, k, perm)])
           IN IF ~u.ok THEN u
              ELSE IF ~c.ok THEN c
              ELSE IF k \in DOMAIN c.files THEN Error(c) ELSE NewFile(c, k, TRUE)
  BY Zenon DEF PutFile, Try

\* The new file is on the camera when it is put into the cache.
LEMMA PutFileSound ==
  ASSUME Benign, NEW sure, NEW late, NEW w, Sound(w, sure, late), NEW k \in Keys,
         NEW perm \in Perms
  PROVE  Sound(PutFile(w, k, perm), sure, late)
<1> DEFINE p == k[1]
           u == Lookup[p][w]
           able == p \in u.camDirs /\ k \notin DOMAIN u.camFiles
           done == WithFile(u, k, perm)
           c == Driver(u, "put_file", able, done)
           x == PutFile(w, k, perm)
           yes == TRUE
           one == {k}
           none == {}
<1>1. p \in Paths /\ yes \in BOOLEAN /\ none \cup one = one /\ one \in SUBSET Keys
  BY FilesystemAssumption
<1>2. x = IF ~u.ok THEN u ELSE IF ~c.ok THEN c
          ELSE IF k \in DOMAIN c.files THEN Error(c) ELSE NewFiles(c, one, yes)
  BY Zenon, PutFileCases DEF LookupFolder, NewFile, WithFile
<1>3. \A j : j \in one <=> j = k
  OBVIOUS
<1>4. k[1] = p
  OBVIOUS
<1>5. \A j : j \notin none
  OBVIOUS
<1> HIDE DEF p, x, yes, one
<1>6. Found(u, w, p, sure, late, none)
  BY <1>1, LookupSound DEF Sound
<1> HIDE DEF u, none
<1>7. CASE u.ok
  <2>1. p \in DOMAIN u.dirs /\ SoundBut(u, sure, late, none) /\ u \in Worlds
    BY <1>6, <1>7 DEF Found, SoundBut, Typed
  <2>2. p \in u.camDirs
    BY <2>1 DEF SoundBut, OnCamera
  <2>3. /\ SoundBut(done, sure, late \cup {k}, none \cup {k}) /\ Cached(done, u)
        /\ DOMAIN done.camFiles = DOMAIN u.camFiles \cup {k}
    BY <1>4, <2>1, <2>2, CamPut DEF FilePut
  <2> DEFINE can == able
  <2>4. /\ can \in BOOLEAN /\ c = Driver(u, "put_file", can, done)
        /\ can => k \notin DOMAIN u.camFiles
    BY Zenon
  <2> HIDE DEF can, c, done
  <2>5. done \in Worlds /\ SoundBut(done, sure, late \cup one, one)
    BY <1>1, <2>3 DEF SoundBut, Typed, one
  <2>6. /\ c \in Worlds /\ (c.ok => k \notin DOMAIN u.camFiles /\ Same(c, done))
        /\ ~c.ok => \/ Same(c, u)
                    \/ ~Perfect /\ k \notin DOMAIN u.camFiles /\ Same(c, done)
    BY <2>1, <2>4, <2>5, DriverIs DEF Perfect
  <2>7. sure /\ k \in DOMAIN u.files => k \in DOMAIN u.camFiles
    BY <1>5, <2>1 DEF SoundBut, TrueFile
  <2>8. CASE Same(c, u)
    <3>1. Sound(c, sure, late)
      BY <2>1, <2>6, <2>8, SoundSame DEF Sound, none
    <3>2. c.ok => k \in DOMAIN c.camFiles /\ k \notin DOMAIN u.camFiles /\ c.camFiles = u.camFiles
      BY <2>3, <2>6, <2>8 DEF Same, Alike
    <3> QED
      BY <1>2, <1>7, <3>1, <3>2 DEF x
  <2>9. CASE Same(c, done) /\ k \notin DOMAIN u.camFiles
    <3>1. /\ SoundBut(c, sure, late \cup one, none) /\ c.files = u.files /\ c.dirs = u.dirs
          /\ k \in DOMAIN c.camFiles
      <4>1. c.files = u.files /\ c.dirs = u.dirs /\ done.files = u.files /\ k \in DOMAIN c.camFiles
        BY <2>3, <2>9 DEF Cached, Same, Alike
      <4>2. sure => one \cap DOMAIN done.files \subseteq none
        BY <1>3, <2>7, <2>9, <4>1
      <4>3. ((late \cup one) \cap DOMAIN done.camFiles) \ DOMAIN done.files \subseteq late \cup one
        OBVIOUS
      <4>4. SoundBut(c, sure, late \cup one, none)
        BY <2>5, <2>6, <2>9, <4>2, <4>3, Adjust
      <4> QED
        BY <4>1, <4>4
    <3>2. CASE ~c.ok
      <4>1. SoundBut(c, sure, late, none)
        <5>1. ~Perfect \/ Same(c, u)
          BY <2>6, <3>2
        <5>2. ~Perfect
          BY <2>3, <2>9, <5>1, <3>1 DEF Same, Alike
        <5>3. Same(c, c)
          BY DEF Same, Alike
        <5> QED
          BY <2>6, <3>1, <5>2, <5>3, Adjust
      <4> QED
        BY <1>2, <1>7, <3>2, <4>1 DEF Sound, none, x
    <3>3. CASE c.ok /\ k \in DOMAIN c.files
      <4>1. ~sure
        BY <2>7, <2>9, <3>1, <3>3
      <4>2. Error(c) \in Worlds /\ Same(Error(c), c)
        BY <2>6, ErrorIs
      <4>3. SoundBut(Error(c), sure, late, none)
        BY <3>1, <4>1, <4>2, Adjust
      <4> QED
        BY <1>2, <1>7, <3>3, <4>3 DEF Sound, none, x
    <3>4. CASE c.ok /\ k \notin DOMAIN c.files
      <4> DEFINE y == NewFiles(c, one, yes)
      <4>1. one \cap DOMAIN c.files = {} /\ (sure => one \subseteq DOMAIN c.camFiles)
        BY <1>3, <3>1, <3>4
      <4>2. \A j \in one : j[1] \in DOMAIN c.dirs
        BY <1>3, <1>4, <2>1, <3>1
      <4>3. SoundBut(y, sure, (late \cup one) \ one, none)
        BY <1>1, <3>1, <4>1, <4>2, NewFilesSound
      <4> HIDE DEF y
      <4>4. y \in Worlds /\ Same(y, y)
        BY <4>3 DEF SoundBut, Typed, Same, Alike
      <4>5. SoundBut(y, sure, late, none)
        BY <4>3, <4>4, Adjust
      <4>6. x = y
        BY <1>2, <1>7, <3>4 DEF y
      <4> QED
        BY <4>5, <4>6 DEF Sound, none, x
    <3> QED
      BY <3>2, <3>3, <3>4
  <2> QED
    BY <2>6, <2>8, <2>9
<1>8. CASE ~u.ok
  BY <1>2, <1>6, <1>8 DEF Found, Sound, none, x
<1> QED
  BY <1>7, <1>8

\* A listing of folders is one of the folder that the lookup found.
LEMMA ListFoldersSound ==
  ASSUME Benign, NEW sure, NEW late, NEW w, Sound(w, sure, late), NEW p \in Paths
  PROVE  Sound(ListFolders(w, p), sure, late)
<1> DEFINE look == Lookup[p]
           u == look[w]
           x == ListFolders(w, p)
<1>1. Found(u, w, p, sure, late, {})
  BY LookupSound DEF Sound
<1>2. x = Relist(look, w, p)
  BY DEF ListFolders
<1>3. ~u.ok => x = u
  BY <1>2, RelistCases
<1>4. \A v : look[v] = Lookup[p][v]
  OBVIOUS
<1>5. CASE ~u.ok
  <2> HIDE DEF u
  <2> QED
    BY <1>1, <1>3, <1>5 DEF Found, Sound
<1>6. CASE u.ok
  <2>1. /\ p \in DOMAIN u.dirs /\ SoundBut(u, sure, late, {}) /\ Swept(u, p) /\ u \in Worlds
        /\ Typed(u)
    BY <1>1, <1>6 DEF Found, SoundBut, Typed
  <2>2. look[u] = u
    <3> HIDE DEF u, look
    <3>1. look[u] = Known(u, p)
      BY <1>4, <2>1, LookupSwept
    <3>2. u.ok = TRUE /\ (p \in DOMAIN u.dirs) = TRUE
      BY <1>6, <2>1, WorldIs
    <3>3. [u EXCEPT !.ok = TRUE] = u
      BY <2>1, <3>2 DEF Worlds
    <3>4. Known(u, p) = [u EXCEPT !.ok = TRUE]
      BY Zenon, <3>2 DEF Known
    <3> QED
      BY <3>1, <3>3, <3>4
  <2>3. Relist(look, w, p) = Relist(look, u, p)
    BY <2>2, RelistCases
  <2> HIDE DEF u
  <2>4. Listed(Relist(Lookup[p], u, p), u, p, sure, late, {})
    BY <2>1, RelistSound
  <2> QED
    BY <1>2, <2>3, <2>4 DEF Listed, Sound
<1> QED
  BY <1>5, <1>6

\* append_to_folder, case by case.
LEMMA AppendToCases ==
  ASSUME NEW w, NEW t, NEW k
  PROVE  AppendTo(w, t, k) =
           LET v == IF w.dirs[t].filesDirty THEN ListFiles(w, k[1]) ELSE Ok(w)
           IN IF ~v.ok THEN v ELSE FileIn(Uses(v, t, w.freed[t]), <<t, k[2]>>)
  BY Zenon DEF AppendTo, Try

\* A file is appended to a known folder, its own unless the camera may have more
\* folders than it told.
LEMMA AppendToSound ==
  ASSUME Benign, NEW sure, NEW late, NEW w, Sound(w, sure, late),
         NEW k \in Keys, k \in DOMAIN w.camFiles,
         NEW t \in DOMAIN w.dirs, Swept(w, t), <<t, k[2]>> \in Keys, sure => t = k[1]
  PROVE  Sound(AppendTo(w, t, k), sure, late \ {k})
<1> DEFINE p == k[1]
           dirty == w.dirs[t].filesDirty
           v == IF dirty THEN ListFiles(w, p) ELSE Ok(w)
           u == Uses(v, t, w.freed[t])
           j == <<t, k[2]>>
           x == AppendTo(w, t, k)
           none == {}
           one == {j}
           no == FALSE
           l == late \ {k}
<1>1. /\ p \in Paths /\ t \in Paths /\ w \in Worlds /\ SoundBut(w, sure, late, none)
      /\ none \in SUBSET Keys /\ one \in SUBSET Keys /\ no \in BOOLEAN
      /\ j[1] = t /\ j \in Keys /\ (sure => j = k)
  BY FilesystemAssumption DEF Sound, SoundBut, Typed, IsTree
<1>2. x = IF ~v.ok THEN v ELSE IF j \in DOMAIN u.files THEN u ELSE NewFiles(u, one, no)
  BY Zenon, AppendToCases DEF FileIn, NewFile
<1>3. \A i : i \in one <=> i = j
  OBVIOUS
<1>4. late \ one \subseteq late /\ (sure => late \ one \subseteq l)
  BY <1>1
<1>5. none = {} /\ \A i : i \in l <=> i \in late /\ i # k
  OBVIOUS
<1> HIDE DEF j, one, no, none, x, p, l
<1>6. /\ SoundBut(v, sure, late, none) /\ Walked(v, w)
      /\ Perfect /\ sure => v.ok
  <2>1. CASE dirty
    <3>1. FilesListed(ListFiles(w, p), w, p, sure, late)
      BY <1>1, <1>5, ListFilesSound
    <3>2. v = ListFiles(w, p)
      BY <2>1
    <3> HIDE DEF v, dirty
    <3>3. sure => p \in DOMAIN v.dirs
      <4>1. sure => p = t
        BY DEF p
      <4> QED
        BY <3>1, <3>2, <4>1 DEF FilesListed, Walked
    <3> QED
      BY <1>5, <3>1, <3>2, <3>3 DEF FilesListed, Sound
  <2>2. CASE ~dirty
    <3>1. v = Ok(w)
      BY <2>2
    <3>2. v \in Worlds /\ Same(v, w) /\ v.ok
      BY <1>1, <3>1, OkIs
    <3> HIDE DEF v
    <3> QED
      BY <1>5, <3>2, SoundSame, WalkedSame DEF Sound
  <2> QED
    BY <2>1, <2>2
<1> HIDE DEF v
<1>7. v \in Worlds /\ v.camFiles = w.camFiles /\ t \in DOMAIN v.dirs /\ v.freed[t] = w.freed[t]
  BY <1>6 DEF Walked, SoundBut, Typed
<1>8. u = v
  BY <1>7, UsesIs
<1>9. Same(v, v)
  BY DEF Same, Alike
<1> HIDE DEF u
<1>10. CASE ~v.ok
  <2>1. SoundBut(v, sure, l, none)
    BY <1>6, <1>7, <1>9, <1>10, Adjust
  <2> QED
    BY <1>2, <1>10, <2>1 DEF Sound, none, x, l
<1>11. CASE v.ok /\ j \in DOMAIN v.files
  <2>1. sure => (late \cap DOMAIN v.camFiles) \ DOMAIN v.files \subseteq l
    BY <1>1, <1>5, <1>11
  <2>2. SoundBut(v, sure, l, none)
    BY <1>6, <1>7, <1>9, <2>1, Adjust
  <2> QED
    BY <1>2, <1>8, <1>11, <2>2 DEF Sound, none, x, l
<1>12. CASE v.ok /\ j \notin DOMAIN v.files
  <2> DEFINE y == NewFiles(v, one, no)
  <2>1. one \cap DOMAIN v.files = {} /\ (sure => one \subseteq DOMAIN v.camFiles)
    BY <1>1, <1>3, <1>7, <1>12
  <2>2. \A i \in one : i[1] \in DOMAIN v.dirs
    BY <1>1, <1>3, <1>7
  <2>3. SoundBut(y, sure, late \ one, none)
    BY <1>1, <1>6, <2>1, <2>2, NewFilesSound
  <2>4. x = y
    BY <1>2, <1>8, <1>12
  <2> HIDE DEF y
  <2>5. y \in Worlds /\ Same(y, y)
    BY <2>3 DEF SoundBut, Typed, Same, Alike
  <2>6. SoundBut(y, sure, l, none)
    BY <1>4, <2>3, <2>5, Adjust
  <2> QED
    BY <2>4, <2>6 DEF Sound, none, x, l
<1> QED
  BY <1>10, <1>11, <1>12

\* gp_filesystem_append, case by case.
LEMMA Append1Cases ==
  ASSUME NEW w, NEW k
  PROVE  Append1(w, k) =
           LET u == LookupFolder(w, k[1])
               t == FirstMissing(u, k[1])
           IN IF u.ok THEN AppendTo(u, k[1], k) ELSE AppendTo(NewDir(u, t), t, k)
  BY Zenon DEF Append1, After

\* The first folder that is missing on the way is on the camera if the last one is, and
\* all above it are listed.
LEMMA FirstMissingIs ==
  ASSUME NEW late, NEW u, SoundBut(u, FALSE, late, {}), NEW p \in u.camDirs,
         p \notin DOMAIN u.dirs, Swept(u, p)
  PROVE  LET t == FirstMissing(u, p)
             n == NewDir(u, t) IN
         /\ t \in Above[p] \cup {p} /\ t \in Dirs
         /\ SoundBut(n, FALSE, late, {}) /\ t \in DOMAIN n.dirs /\ Swept(n, t)
         /\ n.camFiles = u.camFiles
<1> DEFINE t == FirstMissing(u, p)
           S == {t}
           n == NewDirs(u, S)
<1>1. /\ Typed(u) /\ OnCamera(u) /\ ~u.stale /\ IsTree(DOMAIN u.dirs) /\ IsTree(u.camDirs)
      /\ p \in Paths
  BY DEF SoundBut, Typed, OnCamera, IsTree
<1>2. t \in Above[p] \cup {p} /\ t \notin DOMAIN u.dirs /\ Parent[t] \in DOMAIN u.dirs
  <2>1. \E q \in Above[p] \cup {p} : q \notin DOMAIN u.dirs /\ Parent[q] \in DOMAIN u.dirs
    BY <1>1, FirstOutside
  <2> QED
    BY <2>1 DEF FirstMissing
<1> HIDE DEF t
<1>3. t \in Paths /\ t \in u.camDirs
  BY <1>1, <1>2, TreeAbove, AboveIs
<1>4. t \in Dirs
  BY <1>1, <1>2, <1>3 DEF IsTree, Paths
<1>5. \A q : q \in S <=> q = t
  OBVIOUS
<1> HIDE DEF S
<1>6. S \in SUBSET Paths /\ \A q \in S \ {Root} : Parent[q] \in DOMAIN u.dirs
  BY <1>2, <1>3, <1>5
<1>7. /\ Typed(n) /\ Aside(n, u)
      /\ DOMAIN n.dirs = DOMAIN u.dirs \cup S
      /\ \A q \in DOMAIN u.dirs \ S : n.dirs[q] = u.dirs[q]
  BY <1>1, <1>6, NewDirsIs
<1> HIDE DEF n
<1>8. OnCamera(n) /\ ~n.stale
  BY <1>1, <1>3, <1>5, <1>7 DEF OnCamera, Aside
<1>9. SoundBut(n, FALSE, late, {})
  BY <1>7, <1>8 DEF SoundBut
<1>10. Above[t] \subseteq Above[p] /\ t \notin Above[t]
  BY <1>1, <1>2, <1>3, AboveFurther
<1>11. Swept(n, t)
  BY <1>5, <1>7, <1>10 DEF Swept
<1>12. NewDir(u, t) = n
  BY DEF NewDir, n, S
<1> QED
  BY <1>2, <1>4, <1>5, <1>7, <1>9, <1>11, <1>12 DEF t, Aside

\* After the notice of a file, it is in the cache if the camera told of its folder.
LEMMA Append1Sound ==
  ASSUME Benign, KeysClosed, NEW sure, NEW late, NEW w, Sound(w, sure, late),
         NEW k \in Keys, k \in DOMAIN w.camFiles
  PROVE  Sound(Append1(w, k), sure, late \ {k})
<1> DEFINE p == k[1]
           u == Lookup[p][w]
           t == FirstMissing(u, p)
           n == NewDir(u, t)
           x == Append1(w, k)
<1>1. p \in Paths /\ k = <<p, k[2]>>
  BY FilesystemAssumption
<1>2. x = IF u.ok THEN AppendTo(u, p, k) ELSE AppendTo(n, t, k)
  BY Zenon, Append1Cases DEF LookupFolder
<1>3. Found(u, w, p, sure, late, {})
  BY <1>1, LookupSound DEF Sound
<1>4. \A a \in Above[p] \ {Root} : <<a, k[2]>> \in Keys
  BY DEF KeysClosed
<1>5. k[1] = p
  OBVIOUS
<1> HIDE DEF u, p, x
<1>6. /\ Sound(u, sure, late) /\ SoundBut(u, sure, late, {}) /\ Swept(u, p)
      /\ u.camFiles = w.camFiles /\ (u.ok <=> p \in DOMAIN u.dirs)
  BY <1>3 DEF Found, Sound, Walked
<1>7. CASE u.ok
  <2> DEFINE y == AppendTo(u, p, k)
  <2>1. Sound(y, sure, late \ {k})
    BY <1>1, <1>5, <1>6, <1>7, AppendToSound
  <2>2. x = y
    BY <1>2, <1>7
  <2> HIDE DEF y
  <2> QED
    BY <2>1, <2>2 DEF x
<1>8. CASE ~u.ok
  <2>1. p \in u.camDirs
    BY <1>5, <1>6 DEF SoundBut, OnCamera
  <2>2. ~sure
    BY <1>6, <1>8, <2>1, KnownFolder
  <2>3. SoundBut(u, FALSE, late, {})
    BY <1>6 DEF SoundBut
  <2>4. /\ t \in Above[p] \cup {p} /\ t \in Dirs
        /\ SoundBut(n, FALSE, late, {}) /\ t \in DOMAIN n.dirs /\ Swept(n, t)
        /\ n.camFiles = u.camFiles
    BY <1>6, <1>8, <2>1, <2>3, FirstMissingIs
  <2> HIDE DEF t, n
  <2>5. t # Root
    BY <2>4, FilesystemAssumption
  <2>6. <<t, k[2]>> \in Keys
    BY <1>1, <1>4, <2>4, <2>5
  <2>7. Sound(n, sure, late)
    BY <2>2, <2>4 DEF SoundBut, Sound
  <2> DEFINE y == AppendTo(n, t, k)
  <2>8. Sound(y, sure, late \ {k})
    BY <1>6, <2>2, <2>4, <2>6, <2>7, AppendToSound
  <2>9. x = y
    BY <1>2, <1>8
  <2> HIDE DEF y
  <2> QED
    BY <2>8, <2>9 DEF x
<1> QED
  BY <1>7, <1>8

\* One image is freed, the first in the list.
LEMMA EvictedIs ==
  ASSUME NEW w, Typed(w), Cardinality(Images(w)) > Keep
  PROVE  ImagesChanged(Evicted(w), w)
<1> DEFINE k == w.lru.first
           l == L!FirstFreed(w.lru)
           no == FALSE
           v == [w EXCEPT !.lru = l, !.files[k].image = no]
<1>1. w \in Worlds /\ Chained(w.lru) /\ no \in BOOLEAN
  BY DEF Typed
<1>2. L!Members(w.lru) # {}
  <2>1. CASE Images(w) = {}
    <3>1. Cardinality(Images(w)) = 0
      BY <2>1, FS_EmptySet
    <3> QED
      BY <3>1, FilesystemAssumption
  <2>2. CASE Images(w) # {}
    BY <2>2 DEF Images
  <2> QED
    BY <2>1, <2>2
<1>3. /\ k \in L!Members(w.lru) /\ Chained(l)
      /\ L!Members(l) = L!Members(w.lru) \ {k}
  BY <1>1, <1>2, ChainedFirst
<1>4. k \in DOMAIN w.files
  BY <1>3 DEF Typed
<1>5. Evicted(w) = v
  <2> HIDE DEF l, k
  <2> QED
    BY <1>1 DEF Evicted, Worlds, l, k
<1> HIDE DEF k, l, no
<1>6. ImagesChanged(v, w)
  BY <1>1, <1>3, <1>4, ImageListIs
<1> QED
  BY <1>5, <1>6

\* Two changes of images one after the other.
LEMMA ImagesFurther ==
  ASSUME NEW w, NEW v, NEW u, ImagesChanged(v, w), ImagesChanged(u, v)
  PROVE  ImagesChanged(u, w)
  BY DEF ImagesChanged, Aside

\* The pruning frees images and nothing else.
LEMMA PrunedIs ==
  ASSUME NEW w, Typed(w)
  PROVE  ImagesChanged(Pruned(w), w)
<1> DEFINE S == 1..Cardinality(Keys)
           T == {v \in Worlds : ImagesChanged(v, w)}
           Step(v) == IF Cardinality(Images(v)) > Keep THEN Evicted(v) ELSE v
           op == [e \in S \X T |-> Step(e[2])]
           Folded(h) == [s \in SUBSET S |->
                           IF s = {} THEN w
                           ELSE LET v == h[s \ {CHOOSE x \in s : TRUE}]
                                IN  IF Cardinality(Images(v)) > Keep THEN Evicted(v) ELSE v]
<1>1. IsFiniteSet(S)
  <2>1. IsFiniteSet(Keys)
    BY FilesystemAssumption
  <2>2. Cardinality(Keys) \in Int
    BY <2>1, FS_CardinalityType
  <2> QED
    BY <2>2, FS_Interval
<1>2. \A v \in T : Step(v) \in T
  <2> SUFFICES ASSUME NEW v \in T, Cardinality(Images(v)) > Keep PROVE Evicted(v) \in T
    OBVIOUS
  <2> DEFINE y == Evicted(v)
  <2>1. ImagesChanged(y, v)
    BY EvictedIs DEF ImagesChanged
  <2> HIDE DEF y
  <2>2. ImagesChanged(y, w) /\ y \in Worlds
    BY <2>1, ImagesFurther DEF ImagesChanged, Typed
  <2> QED
    BY <2>2 DEF y
<1>3. w \in T
  BY DEF ImagesChanged, Aside, Typed
<1> HIDE DEF S, T, Step
<1>4. op \in [S \X T -> T] /\ \A i \in S, v \in T : op[<<i, v>>] = Step(v)
  BY <1>2
<1> HIDE DEF op
<1>5. PICK g : FoldsWith(g, S, T, w, op)
  BY <1>1, <1>3, <1>4, FoldRecursion
<1>6. g = Folded(g)
  <2>1. ASSUME NEW s \in SUBSET S
        PROVE  g[s] = IF s = {} THEN w ELSE Step(g[s \ {CHOOSE x \in s : TRUE}])
    <3> DEFINE i == CHOOSE x \in s : TRUE
    <3>1. g[s] = IF s = {} THEN w ELSE op[<<i, g[s \ {i}]>>]
      BY Zenon, <1>5 DEF FoldsWith
    <3>2. s # {} => i \in S
      OBVIOUS
    <3>3. g[s \ {i}] \in T
      BY <1>5 DEF FoldsWith
    <3> QED
      BY <1>4, <3>1, <3>2, <3>3
  <2>2. g = [s \in SUBSET S |-> g[s]]
    BY <1>5 DEF FoldsWith
  <2> QED
    BY Zenon, <2>1, <2>2 DEF Step
<1>7. PICK h : h = Folded(h) /\ Pruned(w) = h[S]
  BY Zenon, <1>6 DEF Pruned, FoldSet, MapThenFoldSet, S
<1>8. h[{}] = w
  BY <1>7
<1>9. \A s \in SUBSET S : s # {} => h[s] = Step(h[s \ {CHOOSE x \in s : TRUE}])
  BY <1>7 DEF Step
<1> DEFINE Q == {s \in SUBSET S : h[s] \in T}
<1>10. {} \in Q
  BY <1>3, <1>8
<1>11. ASSUME NEW s \in SUBSET S, s # {}, s \ {CHOOSE x \in s : TRUE} \in Q
       PROVE  s \in Q
  BY <1>2, <1>9, <1>11
<1> HIDE DEF Q
<1>12. S \in Q
  BY <1>1, <1>10, <1>11, SubsetInduction
<1> QED
  BY <1>7, <1>12 DEF Q, T

\* gp_filesystem_set_file_noop, case by case.
LEMMA SetFileCases ==
  ASSUME NEW w, NEW k
  PROVE  SetFile(w, k) =
           LET u == LookupFile(w, k)
               v == LookupFile(Pruned(u), k)
               x == Linked(v, k)
           IN IF ~u.ok THEN u ELSE IF ~v.ok THEN v
              ELSE IF L!ChecksOk(x.lru)
              THEN [Uses(x, k[1], u.freed[k[1]]) EXCEPT !.files[k].image = TRUE]
              ELSE Error(x)
  BY Zenon DEF SetFile, Try, After

\* An image is kept and its file becomes the last of the list: the node of its folder
\* is not freed by the second lookup.
LEMMA SetFileSound ==
  ASSUME Benign, NEW sure, NEW late, NEW w, Sound(w, sure, late), NEW k \in Keys
  PROVE  Sound(SetFile(w, k), sure, late)
<1> DEFINE p == k[1]
           u == LookupFile(w, k)
           r == Pruned(u)
           v == LookupFile(r, k)
           x == Linked(v, k)
           y == [Uses(x, p, u.freed[p]) EXCEPT !.files[k].image = TRUE]
           z == SetFile(w, k)
<1>1. p \in Paths
  BY FilesystemAssumption
<1>2. z = IF ~u.ok THEN u ELSE IF ~v.ok THEN v ELSE IF L!ChecksOk(x.lru) THEN y ELSE Error(x)
  BY Zenon, SetFileCases
<1>3. FileFound(u, w, k, sure, late)
  BY LookupFileSound
<1> HIDE DEF u, z
<1>4. CASE u.ok
  <2>1. /\ k \in DOMAIN u.files /\ Sound(u, sure, late) /\ Swept(u, p) /\ Typed(u)
        /\ p \in DOMAIN u.dirs
    BY <1>3, <1>4 DEF FileFound, Sound, SoundBut, Typed
  <2>2. ImagesChanged(r, u)
    BY <2>1, PrunedIs
  <2> HIDE DEF r
  <2>3. /\ Sound(r, sure, late) /\ Swept(r, p) /\ p \in DOMAIN r.dirs
        /\ r.freed = u.freed
    BY <2>1, <2>2, ImagesSound DEF ImagesChanged, Swept
  <2>4. FileFound(v, r, k, sure, late)
    BY <2>3, LookupFileSound
  <2> HIDE DEF v
  <2>5. /\ Sound(v, sure, late) /\ Typed(v) /\ v \in Worlds /\ v.freed[p] = u.freed[p]
        /\ v.ok => k \in DOMAIN v.files
    BY <2>3, <2>4 DEF FileFound, Walked, Sound, SoundBut, Typed
  <2>6. CASE v.ok
    <3> DEFINE out == L!Removed(v.lru, k)
               l == L!Added(out, k)
               yes == TRUE
               f == [v EXCEPT !.lru = l, !.files[k].image = yes]
    <3>1. /\ Chained(l) /\ L!Members(l) \ {k} \subseteq L!Members(v.lru) /\ l \in L!Lists
          /\ yes \in BOOLEAN /\ yes
      <4>1. Chained(out) /\ L!Members(out) = L!Members(v.lru) \ {k}
        BY <2>5, ChainedRemoved DEF Typed
      <4> HIDE DEF out
      <4>2. Chained(l) /\ L!Members(l) = L!Members(out) \cup {k}
        BY <4>1, ChainedAdded
      <4> HIDE DEF l
      <4> QED
        BY <4>1, <4>2, ChainedList
    <3>2. x = [v EXCEPT !.lru = l]
      BY DEF Linked
    <3> HIDE DEF l, x, yes
    <3>3. x.lru = l /\ x \in Worlds /\ x.freed = v.freed
      BY <2>5, <3>1, <3>2 DEF Worlds
    <3>4. L!ChecksOk(x.lru)
      BY <3>1, <3>3, ChainedChecks
    <3>5. Uses(x, p, u.freed[p]) = x
      BY <2>5, <3>3, UsesIs
    <3>6. z = y
      BY <1>2, <1>4, <2>6, <3>4
    <3>7. y = [x EXCEPT !.files[k].image = TRUE]
      BY <3>5
    <3> HIDE DEF y
    <3>8. y = f
      BY <2>5, <3>2, <3>7 DEF yes, Worlds
    <3>9. ImagesChanged(f, v)
      BY <2>5, <2>6, <3>1, ImageListIs
    <3> HIDE DEF f
    <3> QED
      BY <2>5, <3>6, <3>8, <3>9, ImagesSound DEF z
  <2>7. CASE ~v.ok
    BY <1>2, <1>4, <2>5, <2>7 DEF z
  <2> QED
    BY <2>6, <2>7
<1>5. CASE ~u.ok
  BY <1>2, <1>3, <1>5 DEF FileFound, z
<1> QED
  BY <1>4, <1>5

\* What the driver knows of a new file has no permissions.
LEMMA SetInfoNoopSound ==
  ASSUME Benign, NEW sure, NEW late, NEW w, Sound(w, sure, late), NEW k \in Keys
  PROVE  Sound(SetInfoNoop(w, k), sure, late)
<1> DEFINE u == LookupFile(w, k)
           y == InfoRead(u, k, Absent)
           x == SetInfoNoop(w, k)
<1>1. FileFound(u, w, k, sure, late)
  BY LookupFileSound
<1>2. x = IF ~u.ok THEN u ELSE y
  BY Zenon DEF SetInfoNoop, Try
<1> HIDE DEF u, x
<1>3. CASE u.ok
  <2>1. k \in DOMAIN u.files /\ Typed(u) /\ Sound(u, sure, late)
    BY <1>1, <1>3 DEF FileFound, Sound, SoundBut
  <2>2. FileChanged(y, u, k) /\ y.files[k].perm = Absent
    BY <2>1, InfoReadIs
  <2> HIDE DEF y
  <2>3. /\ Typed(y) /\ Aside(y, u) /\ y.dirs = u.dirs /\ DOMAIN y.files = DOMAIN u.files
        /\ \A j \in DOMAIN u.files \ {k} : y.files[j] = u.files[j]
    BY <2>2 DEF FileChanged
  <2>4. sure => TrueFile(y, k)
    BY <2>1, <2>2, <2>3 DEF Sound, SoundBut, TrueFile, Aside
  <2>5. Sound(y, sure, late)
    BY <2>1, <2>3, <2>4, FilesShownSound DEF Sound
  <2> QED
    BY <1>2, <1>3, <2>5 DEF x
<1>4. CASE ~u.ok
  BY <1>1, <1>2, <1>4 DEF FileFound, x
<1> QED
  BY <1>3, <1>4

\* The three calls of the driver after a capture.
LEMMA AddAndUploadSound ==
  ASSUME Benign, KeysClosed, NEW sure, NEW late, NEW w, Sound(w, sure, late),
         NEW k \in Keys, k \in DOMAIN w.camFiles
  PROVE  Sound(AddAndUpload(w, k), sure, late \ {k})
<1> DEFINE u == Append1(w, k)
           v == SetFile(u, k)
           l == late \ {k}
           x == AddAndUpload(w, k)
           y == SetInfoNoop(v, k)
<1>1. x = IF ~u.ok THEN u ELSE IF ~v.ok THEN v ELSE y
  BY Zenon DEF AddAndUpload, Try
<1>2. Sound(u, sure, l)
  BY Append1Sound
<1> HIDE DEF u, x, l
<1>3. Sound(v, sure, l)
  BY <1>2, SetFileSound
<1> HIDE DEF v
<1>4. Sound(y, sure, l)
  BY <1>3, SetInfoNoopSound
<1> HIDE DEF y
<1>5. Sound(x, sure, l)
  BY <1>1, <1>2, <1>3, <1>4
<1> QED
  BY <1>5 DEF x, l

\* gp_filesystem_reset, case by case.
LEMMA ResetCases ==
  ASSUME NEW w
  PROVE  Reset(w) =
           LET v == FreeFiles(FreeBelow([w EXCEPT !.lru = L!Cleared(w.lru)], Root),
                              In(DOMAIN w.files, Root))
           IN IF ~L!ChecksOk(w.lru) THEN Error(w) ELSE [v EXCEPT !.dirs[Root] = Fresh]
  BY Zenon DEF Reset

\* After a reset nothing is known, whatever notices are waiting.
LEMMA ResetSound ==
  ASSUME NEW sure, NEW late, NEW w, Sound(w, sure, late), NEW yes, NEW l
  PROVE  Sound(Reset(w), yes, l)
<1> DEFINE m == L!Empty
           a == [w EXCEPT !.lru = m]
           b == FreeBelow(a, Root)
           F == In(DOMAIN w.files, Root)
           c == FreeFiles(b, F)
           x == [c EXCEPT !.dirs[Root] = Fresh]
<1>1. Typed(w) /\ OnCamera(w) /\ ~w.stale /\ Chained(w.lru) /\ w \in Worlds
  BY DEF Sound, SoundBut, Typed
<1>2. Reset(w) = x
  <2>1. L!ChecksOk(w.lru)
    BY <1>1, ChainedChecks
  <2>2. L!Cleared(w.lru) = L!Empty
    BY <2>1 DEF L!Cleared
  <2> QED
    BY <2>1, <2>2, ResetCases
<1>3. /\ Typed(a) /\ Aside(a, w) /\ a.dirs = w.dirs /\ a.files = w.files
  <2>1. Chained(m) /\ L!Members(m) = {} /\ m \in L!Lists
    BY ChainedEmpty, ChainedList
  <2> HIDE DEF m
  <2>2. /\ a \in Worlds /\ a.lru = m /\ Aside(a, w) /\ a.dirs = w.dirs /\ a.files = w.files
    BY <1>1, <2>1 DEF Worlds, Aside
  <2> HIDE DEF a
  <2> QED
    BY <1>1, <2>1, <2>2 DEF Typed
<1> HIDE DEF m, a
<1>4. /\ Typed(b) /\ Aside(b, a) /\ DOMAIN b.dirs = {Root}
      /\ DOMAIN b.files = {k \in DOMAIN a.files : k[1] \notin Below(DOMAIN a.dirs, Root)}
  <2> DEFINE S == Below(DOMAIN a.dirs, Root)
  <2>1. IsTree(DOMAIN a.dirs) /\ Root \in DOMAIN a.dirs
    BY <1>3 DEF Typed, IsTree
  <2>2. IsTree(DOMAIN a.dirs \ S) /\ Root \notin S
    BY <2>1, BelowIs
  <2>3. \A p \in DOMAIN a.dirs : p # Root => p \in S
    BY <2>1, RootAbove DEF Below, IsTree
  <2> HIDE DEF S
  <2> DEFINE y == FreeDirs(a, S)
  <2>4. /\ Typed(y) /\ Aside(y, a) /\ DOMAIN y.dirs = DOMAIN a.dirs \ S
        /\ DOMAIN y.files = {k \in DOMAIN a.files : k[1] \notin S}
    BY <1>3, <2>2, FreeDirsIs
  <2>5. b = y
    BY DEF FreeBelow, S
  <2> HIDE DEF y, b
  <2> QED
    BY <2>1, <2>2, <2>3, <2>4, <2>5 DEF S
<1> HIDE DEF b
<1>5. /\ Typed(c) /\ Aside(c, b) /\ c.dirs = b.dirs
      /\ DOMAIN c.files = DOMAIN b.files \ F
  BY <1>4, FreeFilesIs
<1> HIDE DEF c
<1>6. DOMAIN c.files = {} /\ DOMAIN c.dirs = {Root}
  <2> SUFFICES ASSUME NEW k \in DOMAIN b.files PROVE k \in F
    BY <1>4, <1>5
  <2>1. k[1] = Root
    BY <1>4 DEF Typed
  <2> QED
    BY <1>3, <1>4, <2>1 DEF In
<1>7. c \in Worlds /\ Fresh \in Flags /\ Fresh.filesDirty /\ Fresh.foldersDirty
  BY <1>5 DEF Typed, Fresh, Flags
<1>8. /\ x \in Worlds /\ DOMAIN x.dirs = {Root} /\ x.dirs[Root] = Fresh
      /\ x.files = c.files /\ x.lru = c.lru /\ x.camDirs = c.camDirs
      /\ x.camFiles = c.camFiles /\ x.stale = c.stale
  <2> DEFINE fresh == Fresh
             d == [c.dirs EXCEPT ![Root] = fresh]
             y == [c EXCEPT !.dirs = d]
  <2>1. fresh \in Flags
    BY <1>7
  <2> HIDE DEF fresh
  <2>2. d \in Partly(Paths, Flags) /\ DOMAIN d = {Root} /\ d[Root] = fresh
    <3>1. DOMAIN c.dirs \subseteq Paths /\ c.dirs \in [DOMAIN c.dirs -> Flags]
      BY <1>7, WorldIs
    <3>2. DOMAIN d = {Root} /\ d \in [DOMAIN d -> Flags] /\ d[Root] = fresh
      BY <1>6, <2>1, <3>1
    <3> HIDE DEF d
    <3> QED
      BY <1>6, <3>1, <3>2, PartlyIs
  <2>3. x = y
    BY DEF fresh
  <2> HIDE DEF d
  <2>4. /\ y \in Worlds /\ y.dirs = d /\ y.files = c.files /\ y.lru = c.lru
        /\ y.camDirs = c.camDirs /\ y.camFiles = c.camFiles /\ y.stale = c.stale
    BY <1>7, <2>2 DEF Worlds
  <2> HIDE DEF x, y
  <2> QED
    BY <2>2, <2>3, <2>4 DEF fresh
<1> HIDE DEF x
<1>9. Typed(x)
  BY <1>5, <1>6, <1>8 DEF Typed
<1>10. x.camDirs = w.camDirs /\ x.camFiles = w.camFiles /\ x.stale = w.stale
  BY <1>3, <1>4, <1>5, <1>8 DEF Aside
<1>11. OnCamera(x) /\ ~x.stale
  BY <1>1, <1>8, <1>10 DEF OnCamera, IsTree
<1>12. FoldersListed(x) /\ Full(x, l)
  BY <1>7, <1>8 DEF FoldersListed, Full
<1>13. \A k \in DOMAIN x.files : TrueFile(x, k)
  BY <1>6, <1>8
<1>14. Sound(x, yes, l)
  BY <1>9, <1>11, <1>12, <1>13 DEF Sound, SoundBut
<1> QED
  BY <1>2, <1>14
-----------------------------------------------------------------------------
(* The invariant.                                                          *)

Notices == [added : Keys] \cup [removed : Keys] \cup [folder : Dirs]

\* All notices that are not read yet are of new files, and these are the files.
Sure == \A i \in 1..Len(events) : "added" \in DOMAIN events[i]
Late == {events[i].added : i \in {j \in 1..Len(events) : "added" \in DOMAIN events[j]}}

Inv ==
  /\ Sound(World(<<>>), Sure, Late) /\ stale = FALSE
  /\ events \in Seq(Notices) /\ Len(events) <= MaxEvents

\* Less certain, and with more files that are late.
LEMMA Weakened ==
  ASSUME NEW sure, NEW late, NEW lost, NEW w, SoundBut(w, sure, late, lost),
         NEW s, s => sure /\ lost \cap DOMAIN w.files = {},
         NEW l, Perfect /\ s => late \cap DOMAIN w.camFiles \subseteq l
  PROVE  Sound(w, s, l)
<1>1. /\ Typed(w) /\ OnCamera(w) /\ ~w.stale
      /\ sure => FoldersListed(w) /\ \A k \in DOMAIN w.files \ lost : TrueFile(w, k)
      /\ Perfect /\ sure => Full(w, late)
  BY DEF SoundBut
<1>2. s => FoldersListed(w) /\ \A k \in DOMAIN w.files : TrueFile(w, k)
  BY <1>1
<1>3. Perfect /\ s => Full(w, l)
  BY <1>1 DEF Full
<1> QED
  BY <1>1, <1>2, <1>3 DEF Sound, SoundBut

\* More files may be late.
LEMMA LaterSound ==
  ASSUME NEW sure, NEW late, NEW w, Sound(w, sure, late),
         NEW l, late \cap DOMAIN w.camFiles \subseteq l
  PROVE  Sound(w, sure, l)
<1> DEFINE none == {}
<1>1. SoundBut(w, sure, late, none) /\ none \cap DOMAIN w.files = {}
  BY DEF Sound
<1> HIDE DEF none
<1> QED
  BY <1>1, Weakened

\* A call starts in the world of the state.
LEMMA WorldSame ==
  ASSUME Inv, NEW o \in Seq(Outcomes)
  PROVE  /\ Sound(World(o), Sure, Late)
         /\ World(o).camDirs = camDirs /\ World(o).camFiles = camFiles
         /\ World(o).files = files
<1>1. World(<<>>) \in Worlds /\ Sound(World(<<>>), Sure, Late)
  BY DEF Inv, Sound, SoundBut, Typed
<1> DEFINE zero == [p \in Paths |-> 0]
           v == World(<<>>)
           w == World(o)
           no == FALSE
           yes == TRUE
<1>2. /\ zero \in [Paths -> Nat] /\ no \in BOOLEAN /\ yes \in BOOLEAN
      /\ w = [dirs |-> dirs, files |-> files, lru |-> lru, camDirs |-> camDirs,
              camFiles |-> camFiles, out |-> o, ok |-> yes, stale |-> no, freed |-> zero]
      /\ v.dirs = dirs /\ v.files = files /\ v.lru = lru /\ v.camDirs = camDirs
      /\ v.camFiles = camFiles /\ v.stale = no /\ v.freed = zero
  BY DEF World
<1>3. World(o) \in Worlds /\ Same(World(o), World(<<>>))
  <2>1. v \in Worlds
    BY <1>1
  <2> HIDE DEF zero, no, yes, v, w
  <2>2. /\ dirs \in Partly(Paths, Flags) /\ files \in Partly(Keys, Infos) /\ lru \in L!Lists
        /\ camDirs \in SUBSET Paths /\ camFiles \in Partly(Keys, Perms)
    BY <1>2, <2>1 DEF Worlds
  <2>3. w \in Worlds
    BY <1>2, <2>2 DEF Worlds
  <2>4. Same(w, v)
    BY <1>2 DEF Same, Alike
  <2> QED
    BY <2>3, <2>4 DEF v, w
<1>4. World(o).camDirs = camDirs /\ World(o).camFiles = camFiles /\ World(o).files = files
  BY DEF World
<1> QED
  BY <1>1, <1>3, <1>4, SoundSame

\* The outcomes that the driver calls of an operation may have.
LEMMA OutsTyped ==
  /\ <<>> \in Seq(Outcomes)
  /\ \A o \in Outs : o \in Seq(Outcomes)
  /\ \A o \in Reads : o \in Seq(Outcomes)
<1>1. MaxCalls \in Nat /\ {"ok", "fail"} \subseteq Outcomes /\ Outcomes = {"ok", "fail", "partial"}
  BY FilesystemAssumption DEF Outcomes
<1> QED
  BY <1>1 DEF Outs, Reads

\* A sound world is a sound state, whatever was freed on the way.
LEMMA SoundState ==
  ASSUME NEW w, NEW s, NEW l, Sound(w, s, l),
         dirs' = w.dirs, files' = w.files, lru' = w.lru,
         camDirs' = w.camDirs, camFiles' = w.camFiles
  PROVE  Sound(World(<<>>)', s, l)
<1> DEFINE v == World(<<>>)'
           zero == [p \in Paths |-> 0]
           none == <<>>
           no == FALSE
           yes == TRUE
<1>1. /\ w \in Worlds /\ Typed(w) /\ zero \in [Paths -> Nat] /\ none \in Seq(Outcomes)
      /\ no \in BOOLEAN /\ yes \in BOOLEAN /\ ~no
  BY OutsTyped DEF Sound, SoundBut, Typed
<1>2. v = [dirs |-> w.dirs, files |-> w.files, lru |-> w.lru, camDirs |-> w.camDirs,
           camFiles |-> w.camFiles, out |-> none, ok |-> yes, stale |-> no, freed |-> zero]
  BY DEF World
<1> HIDE DEF v, zero, none, no, yes
<1>3. /\ v \in Worlds /\ v.dirs = w.dirs /\ v.files = w.files /\ v.lru = w.lru
      /\ v.camDirs = w.camDirs /\ v.camFiles = w.camFiles /\ v.stale = no
  BY <1>1, <1>2 DEF Worlds
<1>4. Typed(v) /\ OnCamera(v) /\ ~v.stale
  BY <1>1, <1>3 DEF Sound, SoundBut, Typed, OnCamera
<1>5. s => FoldersListed(v) /\ \A k \in DOMAIN v.files : TrueFile(v, k)
  BY <1>3 DEF Sound, SoundBut, FoldersListed, TrueFile
<1>6. Perfect /\ s => Full(v, l)
  BY <1>3 DEF Sound, SoundBut, Full
<1>7. Sound(v, s, l)
  BY <1>4, <1>5, <1>6 DEF Sound, SoundBut
<1> QED
  BY <1>7 DEF v

\* A call that ends in a sound world keeps the invariant.
LEMMA CallSound ==
  ASSUME Inv, NEW w, Sound(w, Sure, Late), Becomes(w), UNCHANGED events
  PROVE  Inv'
<1>1. Sound(World(<<>>)', Sure, Late)
  BY SoundState DEF Becomes
<1>2. Sure' = Sure /\ Late' = Late
  BY DEF Sure, Late
<1>3. stale' = FALSE
  BY DEF Inv, Becomes, Sound, SoundBut
<1>4. Sound(World(<<>>), Sure, Late)'
  BY <1>1, <1>2
<1> QED
  BY <1>3, <1>4 DEF Inv

\* The library starts with a root that is not listed.
LEMMA InitSound == Init => Inv
<1> SUFFICES ASSUME Init PROVE Inv
  OBVIOUS
<1> DEFINE w == World(<<>>)
           d == [p \in {Root} |-> Fresh]
           e == L!Empty
<1>1. /\ dirs = d /\ files = <<>> /\ lru = e /\ camDirs \subseteq Paths /\ Root \in camDirs
      /\ \A p \in camDirs \ {Root} : Parent[p] \in camDirs
      /\ events = <<>> /\ stale = FALSE
  BY DEF Init
<1>2. PICK S \in SUBSET Keys : (\A k \in S : k[1] \in camDirs) /\ camFiles \in [S -> Perms]
  BY DEF Init
<1>3. Chained(e) /\ L!Members(e) = {} /\ e \in L!Lists
  BY ChainedEmpty, ChainedList
<1>4. Root \in Paths /\ Fresh \in Flags /\ Fresh.filesDirty /\ Fresh.foldersDirty
  BY DEF Paths, Flags, Fresh
<1>5. DOMAIN d = {Root} /\ d[Root] = Fresh /\ d \in Partly(Paths, Flags)
  <2>1. DOMAIN d = {Root} /\ d[Root] = Fresh /\ d \in [DOMAIN d -> Flags]
    BY <1>4
  <2> HIDE DEF d
  <2> QED
    BY <1>4, <2>1, PartlyIs
<1>6. DOMAIN files = {} /\ files \in Partly(Keys, Infos)
  <2>1. DOMAIN files = {} /\ files \in [{} -> Infos]
    BY <1>1
  <2> QED
    BY <2>1, PartlyIs
<1>7. camFiles \in Partly(Keys, Perms) /\ DOMAIN camFiles = S
  BY <1>2, PartlyIs
<1> HIDE DEF d, e
<1>8. /\ w \in Worlds /\ w.dirs = d /\ w.files = files /\ w.lru = e /\ w.camDirs = camDirs
      /\ w.camFiles = camFiles /\ w.stale = FALSE
  <2> DEFINE zero == [p \in Paths |-> 0]
             none == <<>>
  <2>1. zero \in [Paths -> Nat] /\ none \in Seq(Outcomes)
    BY OutsTyped
  <2>2. w = [dirs |-> dirs, files |-> files, lru |-> lru, camDirs |-> camDirs,
             camFiles |-> camFiles, out |-> none, ok |-> TRUE, stale |-> FALSE, freed |-> zero]
    BY DEF World
  <2> HIDE DEF zero, none, w
  <2> QED
    BY <1>1, <1>3, <1>5, <1>6, <1>7, <2>1, <2>2 DEF Worlds
<1> HIDE DEF w
<1>9. Typed(w)
  BY <1>1, <1>3, <1>4, <1>5, <1>6, <1>8 DEF Typed, IsTree
<1>10. OnCamera(w) /\ ~w.stale
  BY <1>1, <1>2, <1>5, <1>7, <1>8 DEF OnCamera, IsTree
<1>11. FoldersListed(w) /\ Full(w, Late) /\ \A k \in DOMAIN w.files : TrueFile(w, k)
  BY <1>4, <1>5, <1>6, <1>8 DEF FoldersListed, Full
<1>12. Sound(w, Sure, Late)
  BY <1>9, <1>10, <1>11 DEF Sound, SoundBut
<1>13. events \in Seq(Notices) /\ Len(events) <= MaxEvents
  BY <1>1, FilesystemAssumption
<1> QED
  BY <1>1, <1>12, <1>13 DEF Inv, w

\* The calls that only read, and those that change the camera.
LEMMA CallsSound ==
  ASSUME Benign, Inv,
         \/ ListFilesCall \/ ListFoldersCall \/ CountCall \/ GetFileCall \/ GetInfoCall
         \/ SetInfoCall \/ DeleteFileCall \/ DeleteAllCall \/ MakeDirCall \/ RemoveDirCall
         \/ PutFileCall
  PROVE  Inv'
<1> DEFINE sure == Sure
           late == Late
<1>1. ASSUME NEW o, o \in Reads \/ o \in Outs
      PROVE  Sound(World(o), sure, late)
  BY <1>1, WorldSame, OutsTyped
<1>2. ASSUME NEW x, Sound(x, sure, late), Becomes(x), UNCHANGED events
      PROVE  Inv'
  BY <1>2, CallSound
<1> HIDE DEF sure, late
<1>3. CASE ListFilesCall
  <2>1. PICK o \in Reads, p \in Paths :
          Becomes(ListFiles(World(o), p)) /\ UNCHANGED events
    BY <1>3 DEF ListFilesCall
  <2> DEFINE w == World(o)
             x == ListFiles(w, p)
  <2>2. Sound(w, sure, late)
    BY <1>1
  <2>3. Becomes(x) /\ UNCHANGED events
    BY <2>1
  <2> HIDE DEF w
  <2> DEFINE lost == {}
  <2>4. lost \in SUBSET Keys /\ lost = {} /\ SoundBut(w, sure, late, lost)
    BY <2>2 DEF Sound
  <2> HIDE DEF lost
  <2>5. FilesListed(x, w, p, sure, late)
    BY <2>4, ListFilesSound
  <2> HIDE DEF x
  <2>6. Sound(x, sure, late)
    BY <2>5 DEF FilesListed
  <2> QED
    BY <1>2, <2>3, <2>6
<1>4. CASE ListFoldersCall
  <2>1. PICK o \in Reads, p \in Paths :
          Becomes(ListFolders(World(o), p)) /\ UNCHANGED events
    BY <1>4 DEF ListFoldersCall
  <2> DEFINE w == World(o)
             x == ListFolders(w, p)
  <2>2. Sound(w, sure, late)
    BY <1>1
  <2>3. Becomes(x) /\ UNCHANGED events
    BY <2>1
  <2> HIDE DEF w
  <2>4. Sound(x, sure, late)
    BY <2>2, ListFoldersSound
  <2> HIDE DEF x
  <2> QED
    BY <1>2, <2>3, <2>4
<1>5. CASE CountCall
  <2>1. PICK o \in Reads, p \in Paths :
          Becomes(LookupFolder(World(o), p)) /\ UNCHANGED events
    BY <1>5 DEF CountCall
  <2> DEFINE w == World(o)
             x == LookupFolder(w, p)
  <2>2. Sound(w, sure, late)
    BY <1>1
  <2>3. Becomes(x) /\ UNCHANGED events
    BY <2>1
  <2> HIDE DEF w
  <2>4. Found(Lookup[p][w], w, p, sure, late, {})
    BY <2>2, LookupSound DEF Sound
  <2>5. x = Lookup[p][w]
    BY DEF LookupFolder
  <2> HIDE DEF x
  <2>6. Sound(x, sure, late)
    BY <2>4, <2>5 DEF Found, Sound
  <2> QED
    BY <1>2, <2>3, <2>6
<1>6. CASE GetFileCall
  <2>1. PICK o \in Reads, k \in Keys :
          Becomes(LookupFile(World(o), k)) /\ UNCHANGED events
    BY <1>6 DEF GetFileCall
  <2> DEFINE w == World(o)
             x == LookupFile(w, k)
  <2>2. Sound(w, sure, late)
    BY <1>1
  <2>3. Becomes(x) /\ UNCHANGED events
    BY <2>1
  <2> HIDE DEF w
  <2>4. FileFound(x, w, k, sure, late)
    BY <2>2, LookupFileSound
  <2> HIDE DEF x
  <2>5. Sound(x, sure, late)
    BY <2>4 DEF FileFound
  <2> QED
    BY <1>2, <2>3, <2>5
<1>7. CASE GetInfoCall
  <2>1. PICK o \in Reads, k \in Keys :
          Becomes(GetInfo(World(o), k)) /\ UNCHANGED events
    BY <1>7 DEF GetInfoCall
  <2> DEFINE w == World(o)
             x == GetInfo(w, k)
  <2>2. Sound(w, sure, late)
    BY <1>1
  <2>3. Becomes(x) /\ UNCHANGED events
    BY <2>1
  <2> HIDE DEF w
  <2>4. Sound(x, sure, late)
    BY <2>2, GetInfoSound
  <2> HIDE DEF x
  <2> QED
    BY <1>2, <2>3, <2>4
<1>8. CASE SetInfoCall
  <2>1. PICK o \in Outs, k \in Keys, perm \in Perms :
          Becomes(SetInfo(World(o), k, perm)) /\ UNCHANGED events
    BY <1>8 DEF SetInfoCall
  <2> DEFINE w == World(o)
             x == SetInfo(w, k, perm)
  <2>2. Sound(w, sure, late)
    BY <1>1
  <2>3. Becomes(x) /\ UNCHANGED events
    BY <2>1
  <2> HIDE DEF w
  <2>4. Sound(x, sure, late)
    BY <2>2, SetInfoSound
  <2> HIDE DEF x
  <2> QED
    BY <1>2, <2>3, <2>4
<1>9. CASE DeleteFileCall
  <2>1. PICK o \in Outs, k \in Keys :
          Becomes(DeleteFile(World(o), k)) /\ UNCHANGED events
    BY <1>9 DEF DeleteFileCall
  <2> DEFINE w == World(o)
             x == DeleteFile(w, k)
  <2>2. Sound(w, sure, late)
    BY <1>1
  <2>3. Becomes(x) /\ UNCHANGED events
    BY <2>1
  <2> HIDE DEF w
  <2>4. Deleted(x, w, {k}, sure, late)
    BY <2>2, DeleteFileSound
  <2> HIDE DEF x
  <2>5. Sound(x, sure, late)
    BY <2>4 DEF Deleted
  <2> QED
    BY <1>2, <2>3, <2>5
<1>10. CASE DeleteAllCall
  <2>1. PICK o \in Outs, p \in Paths :
          Becomes(DeleteAll(World(o), p)) /\ UNCHANGED events
    BY <1>10 DEF DeleteAllCall
  <2> DEFINE w == World(o)
             x == DeleteAll(w, p)
  <2>2. Sound(w, sure, late)
    BY <1>1
  <2>3. Becomes(x) /\ UNCHANGED events
    BY <2>1
  <2> HIDE DEF w
  <2>4. Sound(x, sure, late)
    BY <2>2, DeleteAllSound
  <2> HIDE DEF x
  <2> QED
    BY <1>2, <2>3, <2>4
<1>11. CASE MakeDirCall
  <2>1. PICK o \in Outs, p \in Dirs :
          Becomes(MakeDir(World(o), p)) /\ UNCHANGED events
    BY <1>11 DEF MakeDirCall
  <2> DEFINE w == World(o)
             x == MakeDir(w, p)
  <2>2. Sound(w, sure, late)
    BY <1>1
  <2>3. Becomes(x) /\ UNCHANGED events
    BY <2>1
  <2> HIDE DEF w
  <2>4. Sound(x, sure, late)
    BY <2>2, MakeDirSound
  <2> HIDE DEF x
  <2> QED
    BY <1>2, <2>3, <2>4
<1>12. CASE RemoveDirCall
  <2>1. PICK o \in Outs, p \in Dirs :
          Becomes(RemoveDir(World(o), p)) /\ UNCHANGED events
    BY <1>12 DEF RemoveDirCall
  <2> DEFINE w == World(o)
             x == RemoveDir(w, p)
  <2>2. Sound(w, sure, late)
    BY <1>1
  <2>3. Becomes(x) /\ UNCHANGED events
    BY <2>1
  <2> HIDE DEF w
  <2>4. Sound(x, sure, late)
    BY <2>2, RemoveDirSound
  <2> HIDE DEF x
  <2> QED
    BY <1>2, <2>3, <2>4
<1>13. CASE PutFileCall
  <2>1. PICK o \in Outs, k \in Keys, perm \in Perms :
          Becomes(PutFile(World(o), k, perm)) /\ UNCHANGED events
    BY <1>13 DEF PutFileCall
  <2> DEFINE w == World(o)
             x == PutFile(w, k, perm)
  <2>2. Sound(w, sure, late)
    BY <1>1
  <2>3. Becomes(x) /\ UNCHANGED events
    BY <2>1
  <2> HIDE DEF w
  <2>4. Sound(x, sure, late)
    BY <2>2, PutFileSound
  <2> HIDE DEF x
  <2> QED
    BY <1>2, <2>3, <2>4
<1> QED
  BY <1>3, <1>4, <1>5, <1>6, <1>7, <1>8, <1>9, <1>10, <1>11, <1>12, <1>13

\* A reset that the application asks for.
LEMMA ResetCallSound ==
  ASSUME Inv, ResetCall
  PROVE  Inv'
<1> DEFINE sure == Sure
           late == Late
           w == World(<<>>)
           x == Reset(w)
<1>1. Sound(w, sure, late) /\ Becomes(x) /\ UNCHANGED events
  BY DEF Inv, ResetCall
<1> HIDE DEF w
<1>2. Sound(x, sure, late)
  BY <1>1, ResetSound
<1> HIDE DEF x
<1> QED
  BY <1>1, <1>2, CallSound

\* A new file is on the camera before the cache is told, or the notice is sent.
LEMMA FileArrives ==
  ASSUME NEW sure, NEW late, NEW w, Sound(w, sure, late),
         NEW k \in Keys, k[1] \in w.camDirs, k \notin DOMAIN w.camFiles, NEW perm \in Perms
  PROVE  /\ Sound(WithFile(w, k, perm), sure, late \cup {k})
         /\ FilePut(WithFile(w, k, perm), w, k)
<1> DEFINE v == WithFile(w, k, perm)
           none == {}
<1>1. SoundBut(w, sure, late, none)
  BY DEF Sound
<1>2. sure => k \notin DOMAIN w.files
  BY <1>1 DEF SoundBut, TrueFile
<1> DEFINE one == none \cup {k}
<1>3. SoundBut(v, sure, late \cup {k}, one) /\ FilePut(v, w, k)
  <2> HIDE DEF none, v
  <2> QED
    BY <1>1, CamPut DEF v
<1>4. \A j : j \in one <=> j = k
  OBVIOUS
<1> HIDE DEF v, one
<1>5. v.files = w.files
  BY <1>3 DEF FilePut, Cached
<1>6. sure => one \cap DOMAIN v.files = {}
  BY <1>2, <1>4, <1>5
<1>7. Sound(v, sure, late \cup {k})
  BY <1>3, <1>6, Weakened
<1> QED
  BY <1>3, <1>7 DEF v

\* A capture, with or without the image.
LEMMA CaptureSound ==
  ASSUME Benign, KeysClosed, Inv, Capture
  PROVE  Inv'
<1> DEFINE sure == Sure
           late == Late
<1>1. PICK o \in Reads, k \in Keys, perm \in Perms :
        /\ k[1] \in camDirs /\ k \notin DOMAIN camFiles
        /\ \/ Becomes(Append1([World(o) EXCEPT !.camFiles = Put(@, k, perm)], k))
           \/ Becomes(AddAndUpload([World(o) EXCEPT !.camFiles = Put(@, k, perm)], k))
        /\ UNCHANGED events
  BY DEF Capture
<1> DEFINE w == World(o)
           v == WithFile(w, k, perm)
           x == Append1(v, k)
           y == AddAndUpload(v, k)
           l == late \cup {k}
<1>2. Sound(w, sure, late) /\ w.camDirs = camDirs /\ w.camFiles = camFiles
  BY WorldSame, OutsTyped
<1>3. (Becomes(x) \/ Becomes(y)) /\ UNCHANGED events
  BY <1>1 DEF WithFile
<1> HIDE DEF w, sure, late
<1>4. Sound(v, sure, l) /\ FilePut(v, w, k)
  BY <1>1, <1>2, FileArrives
<1>5. k \in DOMAIN v.camFiles
  BY <1>4 DEF FilePut
<1> HIDE DEF v
<1>6. l \ {k} \subseteq late
  OBVIOUS
<1> HIDE DEF l
<1>7. Sound(x, sure, l \ {k}) /\ Sound(y, sure, l \ {k})
  BY <1>4, <1>5, Append1Sound, AddAndUploadSound
<1> HIDE DEF x, y
<1>8. Sound(x, sure, late) /\ Sound(y, sure, late)
  BY <1>6, <1>7, LaterSound
<1> QED
  BY <1>3, <1>8, CallSound DEF sure, late

\* The camera sends a notice: what it says of a new file is late.
LEMMA NoticeSent ==
  ASSUME events \in Seq(Notices), NEW n \in Notices, events' = Append(events, n)
  PROVE  /\ events' \in Seq(Notices) /\ Len(events') = Len(events) + 1
         /\ Sure' => Sure /\ "added" \in DOMAIN n
         /\ Late \subseteq Late' /\ ("added" \in DOMAIN n => n.added \in Late')
<1>1. /\ events' \in Seq(Notices) /\ Len(events') = Len(events) + 1 /\ Len(events) \in Nat
      /\ \A i \in 1..Len(events) : events'[i] = events[i]
      /\ events'[Len(events) + 1] = n
  OBVIOUS
<1>2. Sure' => Sure /\ "added" \in DOMAIN n
  <2>1. \A i \in 1..Len(events) : i \in 1..Len(events')
    BY <1>1
  <2>2. Len(events) + 1 \in 1..Len(events')
    BY <1>1
  <2> QED
    BY <1>1, <2>1, <2>2 DEF Sure
<1>3. Late \subseteq Late' /\ ("added" \in DOMAIN n => n.added \in Late')
  BY <1>1 DEF Late
<1> QED
  BY <1>1, <1>2, <1>3

\* The driver reads the first notice: its file is late no more.
LEMMA NoticeRead ==
  ASSUME events \in Seq(Notices), events # <<>>, events' = Tail(events)
  PROVE  LET n == Head(events) IN
         /\ events' \in Seq(Notices) /\ Len(events') = Len(events) - 1 /\ n \in Notices
         /\ Sure' /\ "added" \in DOMAIN n => Sure
         /\ Late \ {n.added} \subseteq Late'
<1> DEFINE n == Head(events)
<1>1. /\ events' \in Seq(Notices) /\ Len(events') = Len(events) - 1 /\ n \in Notices
      /\ Len(events) \in Nat \ {0} /\ n = events[1]
      /\ \A i \in 1..Len(events) - 1 : events'[i] = events[i + 1]
  OBVIOUS
<1>2. \A i \in 2..Len(events) : i - 1 \in 1..Len(events') /\ events'[i - 1] = events[i]
  BY <1>1
<1>3. \A i \in 1..Len(events) : i = 1 \/ i \in 2..Len(events)
  BY <1>1
<1>4. Sure' /\ "added" \in DOMAIN n => Sure
  BY <1>1, <1>2, <1>3 DEF Sure
<1>5. Late \ {n.added} \subseteq Late'
  <2> SUFFICES ASSUME NEW i \in 1..Len(events), "added" \in DOMAIN events[i],
                      events[i].added # n.added
               PROVE  events[i].added \in Late'
    BY DEF Late
  <2>1. i \in 2..Len(events)
    BY <1>1, <1>3
  <2>2. i - 1 \in 1..Len(events') /\ events'[i - 1] = events[i]
    BY <1>2, <2>1
  <2> QED
    BY <2>2 DEF Late
<1> QED
  BY <1>1, <1>4, <1>5

\* What the camera changes by itself is covered by the notice it sends.
LEMMA CameraChangeSound ==
  ASSUME Inv, CameraChange
  PROVE  Inv'
<1> DEFINE sure == Sure
           late == Late
           s == Sure'
           l == Late'
           w == World(<<>>)
<1>1. /\ Sound(w, sure, late) /\ w.camDirs = camDirs /\ w.camFiles = camFiles /\ w.dirs = dirs
      /\ w.files = files /\ w.lru = lru
  BY DEF Inv, World
<1>2. /\ UNCHANGED <<dirs, files, lru, stale>> /\ stale = FALSE /\ Len(events) < MaxEvents
      /\ events \in Seq(Notices) /\ MaxEvents \in Nat
  BY FilesystemAssumption DEF Inv, CameraChange
<1>3. w \in Worlds /\ Typed(w) /\ OnCamera(w) /\ ~w.stale /\ SoundBut(w, sure, late, {})
  BY <1>1 DEF Sound, SoundBut, Typed
<1>4. ASSUME NEW v, Sound(v, s, l), v.camDirs = camDirs', v.camFiles = camFiles',
             Cached(v, w), NEW n \in Notices, events' = Append(events, n)
      PROVE  Inv'
  <2>1. /\ dirs' = v.dirs /\ files' = v.files /\ lru' = v.lru
        /\ camDirs' = v.camDirs /\ camFiles' = v.camFiles
    BY <1>1, <1>2, <1>4 DEF Cached
  <2> HIDE DEF s, l, w
  <2>2. Sound(World(<<>>)', s, l)
    BY <1>4, <2>1, SoundState
  <2>3. Sound(World(<<>>), Sure, Late)'
    BY <2>2 DEF s, l
  <2>4. events' \in Seq(Notices) /\ Len(events') <= MaxEvents
    BY <1>2, <1>4, NoticeSent
  <2> QED
    BY <1>2, <2>3, <2>4 DEF Inv
<1> HIDE DEF w
<1>5. CASE \E k \in Keys, perm \in Perms :
             /\ k[1] \in camDirs /\ k \notin DOMAIN camFiles
             /\ camFiles' = Put(camFiles, k, perm) /\ UNCHANGED camDirs
             /\ events' = Append(events, [added |-> k])
  <2>1. PICK k \in Keys, perm \in Perms :
             /\ k[1] \in camDirs /\ k \notin DOMAIN camFiles
             /\ camFiles' = Put(camFiles, k, perm) /\ UNCHANGED camDirs
             /\ events' = Append(events, [added |-> k])
    BY <1>5
  <2> DEFINE n == [added |-> k]
             v == WithFile(w, k, perm)
  <2>2. n \in Notices /\ n.added = k /\ "added" \in DOMAIN n
    BY DEF Notices
  <2>3. events' = Append(events, n)
    BY <2>1
  <2> HIDE DEF n
  <2>4. (s => sure) /\ late \subseteq l /\ k \in l
    BY <1>2, <2>2, <2>3, NoticeSent
  <2>5. v.camFiles = camFiles'
    BY <1>1, <1>3, <2>1 DEF WithFile, Worlds
  <2> HIDE DEF v, s, l, sure, late
  <2>6. Sound(v, sure, late \cup {k}) /\ FilePut(v, w, k)
    BY <1>1, <2>1, FileArrives DEF v
  <2> DEFINE none == {}
  <2>7. SoundBut(v, sure, late \cup {k}, none) /\ none \cap DOMAIN v.files = {}
    BY <2>6 DEF Sound
  <2> HIDE DEF none
  <2>8. (late \cup {k}) \cap DOMAIN v.camFiles \subseteq l
    BY <2>4
  <2>9. Sound(v, s, l)
    BY <2>4, <2>7, <2>8, Weakened
  <2>10. v.camDirs = camDirs' /\ Cached(v, w)
    BY <1>1, <2>1, <2>6 DEF FilePut
  <2> QED
    BY <1>4, <2>2, <2>3, <2>5, <2>9, <2>10
<1>6. CASE \E k \in DOMAIN camFiles :
             /\ camFiles' = Drop(camFiles, {k}) /\ UNCHANGED camDirs
             /\ events' = Append(events, [removed |-> k])
  <2>1. PICK k \in DOMAIN camFiles :
             /\ camFiles' = Drop(camFiles, {k}) /\ UNCHANGED camDirs
             /\ events' = Append(events, [removed |-> k])
    BY <1>6
  <2> DEFINE n == [removed |-> k]
             X == {k}
             v == [w EXCEPT !.camFiles = Drop(w.camFiles, X)]
  <2>2. k \in Keys
    BY <1>1, <1>3, WorldIs
  <2>3. n \in Notices /\ "added" \notin DOMAIN n
    BY <2>2 DEF Notices
  <2>4. events' = Append(events, n)
    BY <2>1
  <2> HIDE DEF n
  <2>5. ~s
    BY <1>2, <2>3, <2>4, NoticeSent
  <2>6. v.camFiles = camFiles'
    BY <1>1, <1>3, <2>1 DEF Worlds
  <2> HIDE DEF s, l, sure, late, X
  <2> DEFINE none == {}
             lost == none \cup X
  <2>7. SoundBut(w, sure, late, none)
    BY <1>3
  <2> HIDE DEF none
  <2>8. SoundBut(v, sure, late, lost) /\ Cached(v, w) /\ v.camDirs = w.camDirs
    <3>1. SoundBut(v, sure, late, lost) /\ Cached(v, w)
      BY <2>7, CamDropped
    <3>2. v.camDirs = w.camDirs
      BY <1>3 DEF Worlds
    <3> QED
      BY <3>1, <3>2
  <2> HIDE DEF v, lost
  <2>9. Sound(v, s, l)
    BY <2>5, <2>8, Weakened
  <2>10. v.camDirs = camDirs'
    BY <1>1, <2>1, <2>8
  <2> QED
    BY <1>4, <2>3, <2>4, <2>6, <2>8, <2>9, <2>10
<1>7. CASE \E p \in Dirs \ camDirs :
             /\ Parent[p] \in camDirs /\ camDirs' = camDirs \cup {p} /\ UNCHANGED camFiles
             /\ events' = Append(events, [folder |-> p])
  <2>1. PICK p \in Dirs \ camDirs :
             /\ Parent[p] \in camDirs /\ camDirs' = camDirs \cup {p} /\ UNCHANGED camFiles
             /\ events' = Append(events, [folder |-> p])
    BY <1>7
  <2> DEFINE n == [folder |-> p]
             d == camDirs \cup {p}
             v == WithCamera(w, d, camFiles)
  <2>2. n \in Notices /\ "added" \notin DOMAIN n
    BY <2>1 DEF Notices
  <2>3. events' = Append(events, n)
    BY <2>1
  <2> HIDE DEF n
  <2>4. ~s
    BY <1>2, <2>2, <2>3, NoticeSent
  <2>5. /\ d \subseteq Paths /\ camFiles \in Partly(Keys, Perms) /\ d = camDirs'
        /\ \A q : q \in d <=> q \in camDirs \/ q = p
    BY <1>1, <1>3, <2>1, WorldIs DEF Paths, Worlds
  <2> HIDE DEF d
  <2>6. Typed(v) /\ Cached(v, w) /\ v.camDirs = d /\ v.camFiles = camFiles
    BY <1>3, <2>5, CamIs
  <2> HIDE DEF v, s, l
  <2>7. OnCamera(v) /\ ~v.stale
    BY <1>1, <1>3, <2>1, <2>5, <2>6 DEF OnCamera, Cached, IsTree
  <2>8. Sound(v, s, l)
    BY <2>4, <2>6, <2>7 DEF Sound, SoundBut
  <2>9. v.camDirs = camDirs' /\ v.camFiles = camFiles'
    BY <2>1, <2>5, <2>6
  <2> QED
    BY <1>4, <2>2, <2>3, <2>6, <2>8, <2>9
<1> QED
  BY <1>5, <1>6, <1>7 DEF CameraChange

\* Reading the notice makes up for the change.
LEMMA WaitForEventSound ==
  ASSUME Benign, KeysClosed, Inv, WaitForEvent
  PROVE  Inv'
<1> DEFINE sure == Sure
           late == Late
           s == Sure'
           l == Late'
           e == Head(events)
<1>1. PICK o \in Reads :
        Becomes(IF "added" \notin DOMAIN e THEN Reset(World(o))
                ELSE IF e.added \in DOMAIN camFiles THEN Append1(World(o), e.added)
                ELSE World(o))
  BY DEF WaitForEvent
<1> DEFINE w == World(o)
           x == Reset(w)
           y == Append1(w, e.added)
<1>2. Sound(w, sure, late) /\ w.camFiles = camFiles
  BY WorldSame, OutsTyped
<1>3. /\ events' \in Seq(Notices) /\ Len(events') <= MaxEvents /\ stale = FALSE
      /\ e \in Notices /\ (s /\ "added" \in DOMAIN e => sure) /\ late \ {e.added} \subseteq l
  <2>1. events \in Seq(Notices) /\ events # <<>> /\ events' = Tail(events) /\ stale = FALSE
        /\ Len(events) <= MaxEvents /\ MaxEvents \in Nat
    BY FilesystemAssumption DEF WaitForEvent, Inv
  <2>2. /\ events' \in Seq(Notices) /\ Len(events') = Len(events) - 1 /\ e \in Notices
        /\ (s /\ "added" \in DOMAIN e => sure) /\ late \ {e.added} \subseteq l
    BY <2>1, NoticeRead
  <2>3. Len(events) \in Nat
    BY <2>1
  <2> QED
    BY <2>1, <2>2, <2>3
<1>4. ASSUME NEW v, Sound(v, s, l), Becomes(v)
      PROVE  Inv'
  <2> HIDE DEF s, l
  <2>1. Sound(World(<<>>)', s, l)
    BY <1>4, SoundState DEF Becomes
  <2>2. Sound(World(<<>>), Sure, Late)'
    BY <2>1 DEF s, l
  <2>3. stale' = FALSE
    BY <1>3, <1>4 DEF Becomes, Sound, SoundBut
  <2> QED
    BY <1>3, <2>2, <2>3 DEF Inv
<1>5. CASE "added" \notin DOMAIN e
  <2>1. Becomes(x)
    BY <1>1, <1>5
  <2> HIDE DEF w, s, l, sure, late
  <2>2. Sound(x, s, l)
    BY <1>2, ResetSound
  <2> HIDE DEF x
  <2> QED
    BY <1>4, <2>1, <2>2
<1>6. CASE "added" \in DOMAIN e /\ e.added \in DOMAIN camFiles
  <2>1. Becomes(y)
    BY <1>1, <1>6
  <2> DEFINE k == e.added
  <2>2. k \in Keys
    BY <1>3, <1>6 DEF Notices
  <2> HIDE DEF w, s, l, sure, late
  <2>3. Sound(y, sure, late \ {k})
    BY <1>2, <1>6, <2>2, Append1Sound
  <2> HIDE DEF y
  <2>4. Sound(y, s, l)
    <3> DEFINE none == {}
               r == late \ {k}
    <3>1. SoundBut(y, sure, r, none) /\ none \cap DOMAIN y.files = {}
      BY <2>3 DEF Sound
    <3>2. (s => sure) /\ r \cap DOMAIN y.camFiles \subseteq l
      BY <1>3, <1>6
    <3> HIDE DEF none, r
    <3> QED
      BY <3>1, <3>2, Weakened
  <2> QED
    BY <1>4, <2>1, <2>4
<1>7. CASE "added" \in DOMAIN e /\ e.added \notin DOMAIN camFiles
  <2>1. Becomes(w)
    BY <1>1, <1>7
  <2> HIDE DEF w, s, l, sure, late
  <2>2. Sound(w, s, l)
    <3> DEFINE none == {}
    <3>1. SoundBut(w, sure, late, none) /\ none \cap DOMAIN w.files = {}
      BY <1>2 DEF Sound
    <3>2. (s => sure) /\ late \cap DOMAIN w.camFiles \subseteq l
      BY <1>2, <1>3, <1>7
    <3> HIDE DEF none
    <3> QED
      BY <3>1, <3>2, Weakened
  <2> QED
    BY <1>4, <2>1, <2>2
<1> QED
  BY <1>5, <1>6, <1>7

\* The invariant is inductive.
LEMMA InvAlways ==
  ASSUME Benign, KeysClosed
  PROVE  Spec => []Inv
<1>1. Init => Inv
  BY InitSound
<1>2. Inv /\ [Next]_vars => Inv'
  <2> SUFFICES ASSUME Inv, [Next]_vars PROVE Inv'
    OBVIOUS
  <2>1. CASE \/ ListFilesCall \/ ListFoldersCall \/ CountCall \/ GetFileCall \/ GetInfoCall
             \/ SetInfoCall \/ DeleteFileCall \/ DeleteAllCall \/ MakeDirCall \/ RemoveDirCall
             \/ PutFileCall
    BY <2>1, CallsSound
  <2>2. CASE ResetCall
    BY <2>2, ResetCallSound
  <2>3. CASE Capture
    BY <2>3, CaptureSound
  <2>4. CASE CameraChange
    BY <2>4, CameraChangeSound
  <2>5. CASE WaitForEvent
    BY <2>5, WaitForEventSound
  <2>6. CASE UNCHANGED vars
    BY <2>6 DEF Inv, World, Sure, Late, vars
  <2> QED
    BY <2>1, <2>2, <2>3, <2>4, <2>5, <2>6 DEF Next
<1> QED
  BY <1>1, <1>2, PTL DEF Spec
-----------------------------------------------------------------------------
(* The theorems.                                                           *)

\* The invariant, in the words of the state.
LEMMA InvIs ==
  ASSUME Inv
  PROVE  /\ DOMAIN dirs \subseteq Paths /\ dirs \in [DOMAIN dirs -> Flags]
         /\ DOMAIN files \subseteq Keys /\ files \in [DOMAIN files -> Infos]
         /\ DOMAIN camFiles \subseteq Keys /\ camFiles \in [DOMAIN camFiles -> Perms]
         /\ camDirs \subseteq Paths
         /\ IsTree(DOMAIN dirs) /\ (\A k \in DOMAIN files : k[1] \in DOMAIN dirs)
         /\ Chained(lru) /\ L!Members(lru) \subseteq {k \in DOMAIN files : files[k].image}
         /\ DOMAIN dirs \subseteq camDirs /\ IsTree(camDirs)
<1> DEFINE w == World(<<>>)
<1>1. /\ w.dirs = dirs /\ w.files = files /\ w.lru = lru /\ w.camDirs = camDirs
      /\ w.camFiles = camFiles
  BY DEF World
<1>2. Typed(w) /\ OnCamera(w) /\ w \in Worlds
  BY DEF Inv, Sound, SoundBut, Typed
<1> HIDE DEF w
<1>3. /\ DOMAIN dirs \subseteq Paths /\ dirs \in [DOMAIN dirs -> Flags]
      /\ DOMAIN files \subseteq Keys /\ files \in [DOMAIN files -> Infos]
      /\ DOMAIN camFiles \subseteq Keys /\ camFiles \in [DOMAIN camFiles -> Perms]
      /\ camDirs \subseteq Paths
  BY <1>1, <1>2, WorldIs
<1> QED
  BY <1>1, <1>2, <1>3 DEF Typed, OnCamera

\* When no notice is waiting, what is shown is true, and complete if nothing fails.
LEMMA InvQuiet ==
  ASSUME Inv, events = <<>>
  PROVE  /\ \A p \in DOMAIN dirs :
              ~dirs[p].foldersDirty => Children(camDirs, p) \subseteq DOMAIN dirs
         /\ \A k \in DOMAIN files :
              /\ k \in DOMAIN camFiles
              /\ files[k].infoDirty \/ files[k].perm \in {Absent, camFiles[k]}
         /\ Perfect => \A k \in DOMAIN camFiles :
              k[1] \in DOMAIN dirs /\ ~dirs[k[1]].filesDirty => k \in DOMAIN files
         /\ Sure /\ Late = {}
<1> DEFINE w == World(<<>>)
<1>1. /\ w.dirs = dirs /\ w.files = files /\ w.camDirs = camDirs /\ w.camFiles = camFiles
  BY DEF World
<1>2. Sure /\ Late = {}
  BY DEF Sure, Late
<1>3. SoundBut(w, Sure, Late, {})
  BY DEF Inv, Sound
<1> HIDE DEF w
<1>4. /\ FoldersListed(w) /\ (\A k \in DOMAIN w.files : TrueFile(w, k))
      /\ Perfect => Full(w, Late)
  BY <1>2, <1>3 DEF SoundBut
<1>5. \A p \in DOMAIN dirs :
        ~dirs[p].foldersDirty => Children(camDirs, p) \subseteq DOMAIN dirs
  BY <1>1, <1>4 DEF FoldersListed
<1>6. \A k \in DOMAIN files :
        /\ k \in DOMAIN camFiles
        /\ files[k].infoDirty \/ files[k].perm \in {Absent, camFiles[k]}
  BY <1>1, <1>4 DEF TrueFile
<1>7. Perfect => \A k \in DOMAIN camFiles :
        k[1] \in DOMAIN dirs /\ ~dirs[k[1]].filesDirty => k \in DOMAIN files
  BY <1>1, <1>2, <1>4 DEF Full
<1> QED
  BY <1>2, <1>5, <1>6, <1>7

\* Every variable keeps its type, the cached folders stay a tree and every cached file
\* stays in one of them, whatever calls are made and fail.
THEOREM CacheTyped ==
  ASSUME Benign, KeysClosed
  PROVE  Spec => []TypeOK
<1>1. Inv => TypeOK
  <2> SUFFICES ASSUME Inv PROVE TypeOK
    OBVIOUS
  <2>1. lru \in L!Lists
    BY InvIs, ChainedList
  <2>2. \A p \in DOMAIN dirs \ {Root} : Parent[p] \in DOMAIN dirs
    BY InvIs DEF IsTree
  <2>3. Len(events) <= MaxEvents /\ stale \in BOOLEAN
    BY DEF Inv
  <2> QED
    BY <2>1, <2>2, <2>3, InvIs DEF TypeOK
<1> QED
  BY <1>1, InvAlways, PTL

\* The LRU list stays one chain of cached files with an image: the nodes of freed files
\* and folders leave it.
THEOREM ListIntact ==
  ASSUME Benign, KeysClosed
  PROVE  Spec => []LruIntact
<1>1. Inv => LruIntact
  BY InvIs, ChainedChecks DEF LruIntact
<1> QED
  BY <1>1, InvAlways, PTL

\* No listing nested in a call frees a node that the call uses afterwards.
THEOREM NodesLive ==
  ASSUME Benign, KeysClosed
  PROVE  Spec => []NoStaleNode
<1>1. Inv => NoStaleNode
  BY DEF Inv, NoStaleNode
<1> QED
  BY <1>1, InvAlways, PTL

\* When all notices are read, no folder and no file is shown that the camera does not
\* have, whatever driver calls failed.
THEOREM ShownOnCamera ==
  ASSUME Benign, KeysClosed
  PROVE  Spec => []NothingInvented
<1>1. Inv => NothingInvented
  BY InvIs, InvQuiet DEF NothingInvented
<1> QED
  BY <1>1, InvAlways, PTL

\* When all notices are read, clean file information is what the camera has, whatever
\* driver calls failed, half way or not.
THEOREM InfoOnCamera ==
  ASSUME Benign, KeysClosed
  PROVE  Spec => []InfoTrue
<1>1. Inv => InfoTrue
  BY InvIs, InvQuiet DEF InfoTrue
<1> QED
  BY <1>1, InvAlways, PTL

\* A driver that never fails is one of the drivers the theorems speak of.
LEMMA PerfectBenign == Perfect => Benign
  BY DEF Perfect, Benign

\* When all notices are read and no driver call fails, a clean folder shows exactly the
\* files and the folders that the camera has in it.
THEOREM CacheCoherent ==
  ASSUME Perfect, KeysClosed
  PROVE  Spec => []Coherent
<1>1. Inv => Coherent
  <2> SUFFICES ASSUME Inv, events = <<>>
               PROVE  /\ DOMAIN dirs \subseteq camDirs
                      /\ \A p \in DOMAIN dirs :
                           /\ ~dirs[p].filesDirty => NamesIn(files, p) = NamesIn(camFiles, p)
                           /\ ~dirs[p].foldersDirty =>
                                Children(DOMAIN dirs, p) = Children(camDirs, p)
    BY DEF Coherent
  <2>1. ASSUME NEW p \in DOMAIN dirs, ~dirs[p].filesDirty
        PROVE  NamesIn(files, p) = NamesIn(camFiles, p)
    <3>1. \A k : k \in In(DOMAIN files, p) <=> k \in In(DOMAIN camFiles, p)
      BY <2>1, InvQuiet DEF In
    <3> QED
      BY <3>1 DEF NamesIn
  <2>2. ASSUME NEW p \in DOMAIN dirs, ~dirs[p].foldersDirty
        PROVE  Children(DOMAIN dirs, p) = Children(camDirs, p)
    BY <2>2, InvIs, InvQuiet DEF Children
  <2> QED
    BY <2>1, <2>2, InvIs
<1> QED
  BY <1>1, InvAlways, PerfectBenign, PTL

\* When all notices are read and no driver call fails, deleting all files of a folder
\* leaves none there.
THEOREM AllFilesDeleted ==
  ASSUME Perfect, KeysClosed
  PROVE  Spec => []DeleteAllDeletes
<1>1. Inv => DeleteAllDeletes
  <2> SUFFICES ASSUME Inv, events = <<>>, NEW p \in Paths
               PROVE  LET w == DeleteAll(World(<<>>), p)
                      IN  w.ok => In(DOMAIN w.camFiles, p) = {}
    BY DEF DeleteAllDeletes
  <2> DEFINE sure == Sure
             late == Late
             w == World(<<>>)
             x == DeleteAll(w, p)
  <2>1. Sound(w, sure, late) /\ sure /\ late = {}
    BY InvQuiet DEF Inv
  <2> HIDE DEF sure, late, w
  <2>2. Perfect /\ sure /\ x.ok => In(DOMAIN x.camFiles, p) \subseteq late
    BY <2>1, DeleteAllSound, PerfectBenign
  <2>3. x.ok => In(DOMAIN x.camFiles, p) = {}
    BY <2>1, <2>2
  <2> QED
    BY <2>3 DEF w
<1> QED
  BY <1>1, InvAlways, PerfectBenign, PTL
=============================================================================
