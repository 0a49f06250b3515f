----------------------------- MODULE LruProofs ------------------------------
(***************************************************************************)
(* Proofs about the image cache, for any number of file nodes and any      *)
(* setting of "cached-images".  The lemmas say what each pointer operation *)
(* of module Lru does to the sequence of nodes the list represents; the    *)
(* theorems put them together over the actions of LruList.                 *)
(***************************************************************************)
EXTENDS LruList, InductionLemmas, SequenceTheorems

\* Taking a node out leaves pointers to nodes, whatever the list was.
LEMMA RemovedTyped ==
  ASSUME NEW l \in Lists, NEW n \in Nodes
  PROVE  Removed(l, n) \in Lists
  BY DEF Removed, Lists, List, Linked

\* The sequence left when the element at position i is taken out.
LEMMA RemoveAtFacts ==
  ASSUME NEW q \in Seq(Nodes), NEW i \in 1..Len(q)
  PROVE  /\ Queue!RemoveAt(q, i) \in Seq(Nodes)
         /\ Len(Queue!RemoveAt(q, i)) = Len(q) - 1
         /\ \A j \in 1..(Len(q) - 1) :
              Queue!RemoveAt(q, i)[j] = IF j < i THEN q[j] ELSE q[j + 1]
  BY DEF Queue!RemoveAt

\* A node has a pointer back exactly when it is in the sequence.
LEMMA LinkedIffIn ==
  ASSUME NEW l \in Lists, NEW q \in Seq(Nodes), Represents(l, q), NEW n \in Nodes
  PROVE  Linked(l, n) <=> \E i \in 1..Len(q) : q[i] = n
<1>1. CASE \E i \in 1..Len(q) : q[i] = n
  <2>1. PICK i \in 1..Len(q) : q[i] = n
    BY <1>1
  <2>2. l.prev[n] = (IF i = 1 THEN q[1] ELSE q[i - 1])
    BY <2>1 DEF Represents
  <2>3. l.prev[n] \in Nodes
    BY <2>2
  <2> QED
    BY <1>1, <2>3, LruAssumption DEF Linked
<1>2. CASE ~ \E i \in 1..Len(q) : q[i] = n
  BY <1>2 DEF Represents, Linked
<1> QED
  BY <1>1, <1>2

\* The list with all pointers NULL is the empty sequence.
LEMMA EmptyRepresents == Empty \in Lists /\ Represents(Empty, <<>>)
  BY DEF Empty, List, Lists, Represents

\* Adding a node that is not in the list puts it at the end.
LEMMA AddedRepresents ==
  ASSUME NEW l \in Lists, NEW q \in Seq(Nodes), Represents(l, q),
         NEW n \in Nodes, ~Linked(l, n)
  PROVE  Added(l, n) \in Lists /\ Represents(Added(l, n), Append(q, n))
<1> DEFINE t == Append(q, n)
           m == Added(l, n)
<1>1. /\ t \in Seq(Nodes) /\ Len(t) = Len(q) + 1
      /\ \A i \in 1..Len(q) : t[i] = q[i]
      /\ t[Len(q) + 1] = n
  OBVIOUS
<1>2. \A i \in 1..Len(q) : q[i] # n
  BY LinkedIffIn
<1>3. l.prev[n] = Null /\ l.next[n] = Null
  BY <1>2 DEF Represents
<1>4. Len(q) \in Nat /\ (q = <<>> <=> Len(q) = 0)
  OBVIOUS
<1>5. l.first = Null <=> q = <<>>
  <2>1. q # <<>> => q[1] \in Nodes
    BY <1>4
  <2> QED
    BY <2>1, LruAssumption DEF Represents
<1> HIDE DEF t
<1>6. CASE q = <<>>
  <2>1. m = List(n, n, [l.prev EXCEPT ![n] = n], l.next)
    BY <1>5, <1>6 DEF Added
  <2>2. m \in Lists
    BY <2>1 DEF List, Lists
  <2>3. Represents(m, t)
    BY <1>1, <1>3, <1>4, <1>6, <2>1, LruAssumption DEF Represents, List, Lists
  <2> QED
    BY <2>2, <2>3 DEF t
<1>7. CASE q # <<>>
  <2> DEFINE k == Len(q)
  <2>0. k \in Nat /\ k >= 1 /\ l.last = q[k] /\ l.first = q[1] /\ q[k] \in Nodes
        /\ q[k] # n
    BY <1>2, <1>4, <1>7 DEF Represents
  <2>1. m = List(l.first, n, [l.prev EXCEPT ![n] = l.last],
                 [l.next EXCEPT ![n] = Null, ![l.last] = n])
    BY <1>5, <1>7 DEF Added
  <2>2. m \in Lists
    BY <2>0, <2>1 DEF List, Lists
  <2>3. Len(t) = k + 1 /\ (\A i \in 1..k : t[i] = q[i]) /\ t[k + 1] = n
    BY <1>1
  <2>4. /\ m.first = q[1] /\ m.last = n
        /\ m.prev[n] = q[k] /\ m.next[n] = Null
        /\ m.next[q[k]] = n
        /\ \A x \in Nodes : x # n => m.prev[x] = l.prev[x]
        /\ \A x \in Nodes : x # n /\ x # q[k] => m.next[x] = l.next[x]
    BY <2>0, <2>1 DEF List, Lists
  <2>5. \A i \in 1..k :
          /\ q[i] \in Nodes /\ q[i] # n
          /\ l.prev[q[i]] = (IF i = 1 THEN q[1] ELSE q[i - 1])
          /\ l.next[q[i]] = (IF i = k THEN Null ELSE q[i + 1])
          /\ (i # k => q[i] # q[k])
    BY <1>2, <2>0 DEF Represents
  <2>6. \A i, j \in 1..k : q[i] = q[j] => i = j
    BY DEF Represents
  <2>7. \A x \in Nodes : (\A i \in 1..k : q[i] # x) => l.prev[x] = Null /\ l.next[x] = Null
    BY DEF Represents
  <2> HIDE DEF m, k
  <2>8. t # <<>> /\ t[1] = q[1] /\ t[Len(t)] = n
    BY <2>0, <2>3, <1>1
  <2>9. ASSUME NEW i \in 1..Len(t)
        PROVE  /\ m.prev[t[i]] = (IF i = 1 THEN t[1] ELSE t[i - 1])
               /\ m.next[t[i]] = (IF i = Len(t) THEN Null ELSE t[i + 1])
    <3>1. CASE i = k + 1
      BY <3>1, <2>0, <2>3, <2>4
    <3>2. CASE i \in 1..k
      <4>1. m.prev[t[i]] = l.prev[q[i]]
        BY <3>2, <2>3, <2>4, <2>5
      <4>2. t[i] = q[i] /\ t[i + 1] = IF i = k THEN n ELSE q[i + 1]
        BY <3>2, <2>0, <2>3
      <4>3. m.next[t[i]] = IF i = k THEN n ELSE q[i + 1]
        BY <3>2, <4>2, <2>4, <2>5
      <4>4. i # 1 => t[i - 1] = q[i - 1]
        BY <3>2, <2>0, <2>3
      <4> QED
        BY <3>2, <4>1, <4>2, <4>3, <4>4, <2>0, <2>3, <2>5
    <3> QED
      BY <3>1, <3>2, <2>0, <2>3
  <2>10. ASSUME NEW i \in 1..Len(t), NEW j \in 1..Len(t), t[i] = t[j]
         PROVE  i = j
    BY <2>0, <2>3, <2>5, <2>6, <2>10
  <2>11. ASSUME NEW x \in Nodes, \A i \in 1..Len(t) : t[i] # x
         PROVE  m.prev[x] = Null /\ m.next[x] = Null
    <3>1. x # n /\ \A i \in 1..k : q[i] # x
      BY <2>0, <2>3, <2>11
    <3> QED
      BY <3>1, <2>0, <2>4, <2>7
  <2>12. Represents(m, t)
    BY <2>4, <2>8, <2>9, <2>10, <2>11 DEF Represents
  <2> QED
    BY <2>2, <2>12 DEF t, m
<1> QED
  BY <1>6, <1>7

\* Taking the i-th node out leaves the list of the others.
LEMMA RemovedRepresents ==
  ASSUME NEW l \in Lists, NEW q \in Seq(Nodes), Represents(l, q),
         NEW i \in 1..Len(q)
  PROVE  Removed(l, q[i]) \in Lists /\ Represents(Removed(l, q[i]), Queue!RemoveAt(q, i))
<1> DEFINE n == q[i]
           k == Len(q)
           t == Queue!RemoveAt(q, i)
           m == Removed(l, n)
           next == [l.next EXCEPT ![l.prev[n]] = l.next[n]]
           prev == IF l.next[n] = Null THEN l.prev
                   ELSE [l.prev EXCEPT ![l.next[n]] = l.prev[n]]
<1>1. k \in Nat /\ k >= 1 /\ i \in 1..k
  OBVIOUS
<1>2. \A j \in 1..k : q[j] \in Nodes /\ q[j] # Null
  BY LruAssumption
<1>3. \A j \in 1..k : /\ l.prev[q[j]] = (IF j = 1 THEN q[1] ELSE q[j - 1])
                       /\ l.next[q[j]] = (IF j = k THEN Null ELSE q[j + 1])
  BY DEF Represents
<1>4. \A j, h \in 1..k : q[j] = q[h] => j = h
  BY DEF Represents
<1>5. \A x \in Nodes : (\A j \in 1..k : q[j] # x) => l.prev[x] = Null /\ l.next[x] = Null
  BY DEF Represents
<1>6. q # <<>> /\ l.first = q[1] /\ l.last = q[k]
  BY <1>1 DEF Represents
<1>7. /\ t \in Seq(Nodes) /\ Len(t) = k - 1 /\ (t = <<>> <=> k = 1)
      /\ \A j \in 1..(k - 1) : t[j] = IF j < i THEN q[j] ELSE q[j + 1]
  <2> HIDE DEF t
  <2>1. /\ t \in Seq(Nodes) /\ Len(t) = k - 1
        /\ \A j \in 1..(k - 1) : t[j] = IF j < i THEN q[j] ELSE q[j + 1]
    BY RemoveAtFacts DEF t
  <2>2. t = <<>> <=> Len(t) = 0
    BY <2>1
  <2> QED
    BY <1>1, <2>1, <2>2
<1>8. /\ l.prev[n] = (IF i = 1 THEN q[1] ELSE q[i - 1])
      /\ l.next[n] = (IF i = k THEN Null ELSE q[i + 1])
  BY <1>1, <1>3
<1>9. Linked(l, n) /\ l.prev[n] \in Nodes
  BY <1>1, <1>2, <1>8 DEF Linked
<1>10. (l.first = n <=> i = 1) /\ (l.last = n <=> i = k)
  BY <1>1, <1>4, <1>6
<1>11. /\ l \in Lists
       /\ l.prev \in [Nodes -> Nodes \cup {Null}] /\ l.next \in [Nodes -> Nodes \cup {Null}]
  BY DEF Lists
<1>12. /\ next \in [Nodes -> Nodes \cup {Null}]
       /\ \A x \in Nodes : next[x] = IF x = l.prev[n] THEN l.next[n] ELSE l.next[x]
  BY <1>2, <1>9, <1>11
<1>13. /\ prev \in [Nodes -> Nodes \cup {Null}]
       /\ \A x \in Nodes : prev[x] = IF x = l.next[n] THEN l.prev[n] ELSE l.prev[x]
  BY <1>2, <1>9, <1>11, LruAssumption
<1> DEFINE prev1 == IF i = 1 /\ i # k THEN [prev EXCEPT ![l.next[n]] = l.next[n]] ELSE prev
<1>14. m = List(IF i = 1 THEN IF i = k THEN Null ELSE l.next[n] ELSE l.first,
                IF i = k THEN IF i = 1 THEN Null ELSE l.prev[n] ELSE l.last,
                [prev1 EXCEPT ![n] = Null], [next EXCEPT ![n] = Null])
  <2>1. CASE i = 1 /\ i = k
    BY <1>9, <1>10, <2>1 DEF Removed
  <2>2. CASE i = 1 /\ i # k
    BY <1>9, <1>10, <2>2 DEF Removed
  <2>3. CASE i # 1 /\ i = k
    BY <1>9, <1>10, <2>3 DEF Removed
  <2>4. CASE i # 1 /\ i # k
    BY <1>9, <1>10, <2>4 DEF Removed
  <2> QED
    BY <2>1, <2>2, <2>3, <2>4
<1>15. i # k => l.next[n] = q[i + 1] /\ q[i + 1] \in Nodes /\ q[i + 1] # n
  BY <1>1, <1>2, <1>4, <1>8
<1>16. i # 1 => l.prev[n] = q[i - 1] /\ q[i - 1] \in Nodes /\ q[i - 1] # n
  BY <1>1, <1>2, <1>4, <1>8
<1>17. prev1 \in [Nodes -> Nodes \cup {Null}]
  BY <1>13, <1>15
<1>18. m \in Lists
  <2> DEFINE first == IF i = 1 THEN IF i = k THEN Null ELSE l.next[n] ELSE l.first
             last == IF i = k THEN IF i = 1 THEN Null ELSE l.prev[n] ELSE l.last
  <2>1. l.first \in Nodes /\ l.last \in Nodes
    BY <1>1, <1>2, <1>6
  <2>2. first \in Nodes \cup {Null} /\ last \in Nodes \cup {Null}
    BY <1>9, <1>15, <2>1
  <2>3. /\ [prev1 EXCEPT ![n] = Null] \in [Nodes -> Nodes \cup {Null}]
        /\ [next EXCEPT ![n] = Null] \in [Nodes -> Nodes \cup {Null}]
    BY <1>12, <1>17
  <2> HIDE DEF first, last, prev1, next, n
  <2> QED
    BY <1>14, <2>2, <2>3 DEF List, Lists, first, last
<1>19. \A x \in Nodes :
         /\ m.next[x] = (IF x = n THEN Null
                         ELSE IF i # 1 /\ x = q[i - 1] THEN l.next[n] ELSE l.next[x])
         /\ m.prev[x] = (IF x = n THEN Null
                         ELSE IF i # k /\ x = q[i + 1]
                              THEN IF i = 1 THEN q[2] ELSE q[i - 1] ELSE l.prev[x])
  <2>1. TAKE x \in Nodes
  <2>2. m.next[x] = IF x = n THEN Null ELSE next[x]
    BY <1>12, <1>14 DEF List
  <2>3. m.prev[x] = IF x = n THEN Null ELSE prev1[x]
    BY <1>14, <1>17 DEF List
  <2>4. x # n => next[x] = IF i # 1 /\ x = q[i - 1] THEN l.next[n] ELSE l.next[x]
    BY <1>1, <1>8, <1>12, <1>16
  <2>5. x # n => prev1[x] = IF i # k /\ x = q[i + 1]
                              THEN IF i = 1 THEN q[2] ELSE q[i - 1] ELSE l.prev[x]
    <3>1. CASE i = k
      BY <1>1, <1>2, <1>8, <1>13, <3>1
    <3>2. CASE i # k /\ i = 1
      BY <1>1, <1>13, <1>15, <3>2
    <3>3. CASE i # k /\ i # 1
      BY <1>1, <1>13, <1>15, <1>16, <3>3
    <3> QED
      BY <3>1, <3>2, <3>3
  <2> QED
    BY <2>2, <2>3, <2>4, <2>5
<1>20. m.first = (IF k = 1 THEN Null ELSE t[1]) /\ m.last = (IF k = 1 THEN Null ELSE t[k - 1])
  <2>1. /\ m.first = (IF i = 1 THEN IF i = k THEN Null ELSE l.next[n] ELSE l.first)
        /\ m.last = (IF i = k THEN IF i = 1 THEN Null ELSE l.prev[n] ELSE l.last)
    BY <1>14 DEF List
  <2>2. CASE k = 1
    BY <1>1, <2>1, <2>2
  <2>3. CASE k # 1
    <3>1. t[1] = IF i = 1 THEN q[2] ELSE q[1]
      BY <1>1, <1>7, <2>3
    <3>2. t[k - 1] = IF i = k THEN q[k - 1] ELSE q[k]
      BY <1>1, <1>7, <2>3
    <3>3. m.first = t[1]
      <4>1. CASE i = 1
        BY <1>1, <1>15, <2>1, <2>3, <3>1, <4>1
      <4>2. CASE i # 1
        BY <1>6, <2>1, <3>1, <4>2
      <4> QED
        BY <4>1, <4>2
    <3>4. m.last = t[k - 1]
      <4>1. CASE i = k
        BY <1>1, <1>16, <2>1, <2>3, <3>2, <4>1
      <4>2. CASE i # k
        BY <1>6, <2>1, <3>2, <4>2
      <4> QED
        BY <4>1, <4>2
    <3> QED
      BY <2>3, <3>3, <3>4
  <2> QED
    BY <2>2, <2>3
<1> HIDE DEF n, k, t, m
<1>21. ASSUME NEW j \in 1..(k - 1)
       PROVE  /\ m.prev[t[j]] = (IF j = 1 THEN t[1] ELSE t[j - 1])
              /\ m.next[t[j]] = (IF j = k - 1 THEN Null ELSE t[j + 1])
  <2>1. CASE j < i
    <3>1. t[j] = q[j] /\ q[j] # n /\ q[j] \in Nodes /\ (i # k => q[j] # q[i + 1])
      BY <1>1, <1>2, <1>4, <1>7, <2>1 DEF n
    <3>2. (i # 1 /\ q[j] = q[i - 1]) <=> j = i - 1
      BY <1>1, <1>4, <2>1
    <3>3. m.prev[t[j]] = (IF j = 1 THEN q[1] ELSE q[j - 1])
      BY <1>1, <1>3, <1>19, <2>1, <3>1
    <3>4. m.next[t[j]] = (IF j = i - 1 THEN l.next[n] ELSE q[j + 1])
      <4>1. l.next[q[j]] = q[j + 1]
        BY <1>1, <1>3, <2>1
      <4> QED
        BY <1>19, <3>1, <3>2, <4>1
    <3>5. j # 1 => t[j - 1] = q[j - 1]
      BY <1>1, <1>7, <2>1
    <3>6. j # k - 1 => t[j + 1] = IF j = i - 1 THEN q[i + 1] ELSE q[j + 1]
      BY <1>1, <1>7, <2>1
    <3>7. j = 1 => t[1] = q[1]
      BY <3>1
    <3>8. j = k - 1 => i = k
      BY <1>1, <2>1
    <3> QED
      BY <1>1, <1>8, <1>15, <2>1, <3>3, <3>4, <3>5, <3>6, <3>7, <3>8
  <2>2. CASE j >= i
    <3>1. t[j] = q[j + 1] /\ q[j + 1] # n /\ q[j + 1] \in Nodes /\ i # k /\ j + 1 \in 1..k
          /\ (i # 1 => q[j + 1] # q[i - 1])
      BY <1>1, <1>2, <1>4, <1>7, <2>2 DEF n
    <3>2. q[j + 1] = q[i + 1] <=> j = i
      BY <1>1, <1>4, <2>2
    <3>3. m.prev[t[j]] = (IF j = i THEN IF i = 1 THEN q[2] ELSE q[i - 1] ELSE q[j])
      <4>1. l.prev[q[j + 1]] = q[j]
        BY <1>1, <1>3, <2>2, <3>1
      <4> QED
        BY <1>1, <1>19, <2>2, <3>1, <3>2, <4>1
    <3>4. m.next[t[j]] = (IF j + 1 = k THEN Null ELSE q[j + 2])
      <4>1. l.next[q[j + 1]] = (IF j + 1 = k THEN Null ELSE q[j + 2])
        BY <1>1, <1>3, <3>1
      <4> QED
        BY <1>19, <3>1, <4>1
    <3>5. j # 1 => t[j - 1] = IF j = i THEN q[i - 1] ELSE q[j]
      BY <1>1, <1>7, <2>2
    <3>6. j # k - 1 => t[j + 1] = q[j + 2]
      BY <1>1, <1>7, <2>2
    <3>7. j = 1 => i = 1 /\ t[1] = q[2]
      BY <1>1, <2>2, <3>1
    <3> QED
      BY <1>1, <2>2, <3>3, <3>4, <3>5, <3>6, <3>7
  <2> QED
    BY <1>1, <2>1, <2>2
<1>22. ASSUME NEW j \in 1..(k - 1), NEW h \in 1..(k - 1), t[j] = t[h]
       PROVE  j = h
  BY <1>1, <1>4, <1>7, <1>22
<1>23. ASSUME NEW x \in Nodes, \A j \in 1..(k - 1) : t[j] # x
       PROVE  m.prev[x] = Null /\ m.next[x] = Null
  <2>1. CASE x = n
    BY <1>19, <2>1
  <2>2. CASE x # n
    <3>1. \A j \in 1..k : q[j] # x
      <4>1. TAKE j \in 1..k
      <4>2. CASE j = i
        BY <2>2, <4>2 DEF n
      <4>3. CASE j < i
        BY <1>1, <1>7, <1>23, <4>3
      <4>4. CASE j > i
        <5>1. j - 1 \in 1..(k - 1) /\ t[j - 1] = q[j]
          BY <1>1, <1>7, <4>4
        <5> QED
          BY <1>23, <5>1
      <4> QED
        BY <1>1, <4>2, <4>3, <4>4
    <3>2. (i # 1 => x # q[i - 1]) /\ (i # k => x # q[i + 1])
      BY <1>1, <3>1
    <3> QED
      BY <1>5, <1>19, <2>2, <3>1, <3>2
  <2> QED
    BY <2>1, <2>2
<1>24. Represents(m, t)
  BY <1>1, <1>7, <1>20, <1>21, <1>22, <1>23 DEF Represents
<1> QED
  BY <1>18, <1>24 DEF m, t, n

\* Taking the first node out leaves the tail.
LEMMA FirstFreedRepresents ==
  ASSUME NEW l \in Lists, NEW q \in Seq(Nodes), Represents(l, q), q # <<>>
  PROVE  /\ FirstFreed(l) = Removed(l, q[1])
         /\ Tail(q) = Queue!RemoveAt(q, 1)
<1>1. Len(q) \in Nat /\ Len(q) >= 1
  OBVIOUS
<1>2. /\ l.first = q[1] /\ q[1] \in Nodes /\ l.prev[q[1]] = q[1]
      /\ l.next[q[1]] = (IF Len(q) = 1 THEN Null ELSE q[2])
      /\ l.last = q[Len(q)]
  <2>1. l.first = q[1] /\ l.last = q[Len(q)] /\ q[1] \in Nodes
    BY <1>1 DEF Represents
  <2>2. \A i \in 1..Len(q) : /\ l.prev[q[i]] = (IF i = 1 THEN q[1] ELSE q[i - 1])
                             /\ l.next[q[i]] = (IF i = Len(q) THEN Null ELSE q[i + 1])
    BY DEF Represents
  <2>3. 1 \in 1..Len(q)
    BY <1>1
  <2>4. l.prev[q[1]] = (IF 1 = 1 THEN q[1] ELSE q[1 - 1])
    BY <2>2, <2>3
  <2>5. l.next[q[1]] = (IF 1 = Len(q) THEN Null ELSE q[1 + 1])
    BY <2>2, <2>3
  <2> QED
    BY <1>1, <2>1, <2>4, <2>5
<1>3. q[1] # Null
  BY <1>2, LruAssumption
<1>4. Len(q) # 1 => q[2] \in Nodes /\ q[2] # Null /\ q[2] # q[1] /\ q[Len(q)] # q[1]
  <2>1. \A i, j \in 1..Len(q) : q[i] = q[j] => i = j
    BY DEF Represents
  <2>2. \A i \in 1..Len(q) : q[i] \in Nodes
    OBVIOUS
  <2> SUFFICES ASSUME Len(q) # 1
               PROVE  q[2] \in Nodes /\ q[2] # Null /\ q[2] # q[1] /\ q[Len(q)] # q[1]
    OBVIOUS
  <2>3. /\ 1 \in 1..Len(q) /\ 2 \in 1..Len(q) /\ Len(q) \in 1..Len(q)
        /\ Len(q) # 1
    <3> DEFINE k == Len(q)
    <3>1. k \in Nat /\ k >= 1 /\ k # 1
      BY <1>1
    <3> HIDE DEF k
    <3>2. 1 \in 1..k /\ 2 \in 1..k /\ k \in 1..k
      BY <3>1
    <3> QED
      BY <3>1, <3>2 DEF k
  <2>4. q[2] \in Nodes
    BY <2>2, <2>3
  <2>5. q[2] # q[1]
    BY <2>1, <2>3
  <2>6. q[Len(q)] # q[1]
    BY <2>1, <2>3
  <2> QED
    BY <2>4, <2>5, <2>6, LruAssumption
<1>5. Tail(q) = Queue!RemoveAt(q, 1)
  <2>1. /\ Tail(q) \in Seq(Nodes) /\ Len(Tail(q)) = Len(q) - 1
        /\ \A j \in 1..Len(Tail(q)) : Tail(q)[j] = q[j + 1]
    BY HeadTailProperties
  <2>2. /\ Queue!RemoveAt(q, 1) \in Seq(Nodes) /\ Len(Queue!RemoveAt(q, 1)) = Len(q) - 1
        /\ \A j \in 1..(Len(q) - 1) : Queue!RemoveAt(q, 1)[j] = IF j < 1 THEN q[j] ELSE q[j + 1]
    BY <1>1, RemoveAtFacts
  <2>3. \A j \in 1..Len(Tail(q)) : Tail(q)[j] = Queue!RemoveAt(q, 1)[j]
    BY <1>1, <2>1, <2>2
  <2> HIDE DEF Queue!RemoveAt
  <2> QED
    BY <2>1, <2>2, <2>3, SeqEqual
<1>6. FirstFreed(l) = Removed(l, q[1])
  <2> DEFINE n == q[1]
  <2>1. /\ l.prev \in [Nodes -> Nodes \cup {Null}]
        /\ l.next \in [Nodes -> Nodes \cup {Null}]
    BY DEF Lists
  <2>2. [[l.next EXCEPT ![n] = l.next[n]] EXCEPT ![n] = Null] = [l.next EXCEPT ![n] = Null]
    BY <1>2, <2>1
  <2>3. CASE Len(q) = 1
    BY <1>2, <1>3, <2>1, <2>2, <2>3 DEF FirstFreed, Removed, Linked, List
  <2>4. CASE Len(q) # 1
    <3>1. [[[l.prev EXCEPT ![q[2]] = n] EXCEPT ![q[2]] = q[2]] EXCEPT ![n] = Null]
            = [[l.prev EXCEPT ![q[2]] = q[2]] EXCEPT ![n] = Null]
      BY <1>2, <1>4, <2>1, <2>4
    <3> QED
      BY <1>2, <1>3, <1>4, <2>1, <2>2, <2>4, <3>1 DEF FirstFreed, Removed, Linked, List
  <2> QED
    BY <2>3, <2>4
<1> QED
  BY <1>5, <1>6

\* What the proofs keep of a list: it is well formed and its length counts.
Good(l, q) ==
  /\ l \in Lists /\ q \in Seq(Nodes) /\ Represents(l, q)
  /\ IsFiniteSet(Members(l)) /\ Cardinality(Members(l)) = Len(q)

\* Taking any node out keeps a list good, whether it was in it or not.
LEMMA RemovedGood ==
  ASSUME NEW l, NEW q, Good(l, q), NEW n \in Nodes
  PROVE  /\ Good(Removed(l, n), Queue!Without(q, n))
         /\ Members(Removed(l, n)) = Members(l) \ {n}
<1>1. l \in Lists /\ q \in Seq(Nodes) /\ Represents(l, q)
      /\ IsFiniteSet(Members(l)) /\ Cardinality(Members(l)) = Len(q) /\ Len(q) \in Nat
  BY DEF Good
<1>2. Linked(l, n) <=> \E i \in 1..Len(q) : q[i] = n
  BY <1>1, LinkedIffIn
<1>3. CASE ~Linked(l, n)
  <2>1. Removed(l, n) = l /\ Queue!Without(q, n) = q
    BY <1>2, <1>3 DEF Removed, Queue!Without
  <2>2. n \notin Members(l)
    BY <1>3 DEF Members
  <2> QED
    BY <1>1, <2>1, <2>2
<1>4. CASE Linked(l, n)
  <2> DEFINE i == Queue!Position(q, n)
             t == Queue!RemoveAt(q, i)
             m == Removed(l, n)
  <2>1. i \in 1..Len(q) /\ q[i] = n
    BY <1>2, <1>4 DEF Queue!Position
  <2>2. Queue!Without(q, n) = t
    BY <1>2, <1>4 DEF Queue!Without
  <2> HIDE DEF i
  <2>3. m \in Lists /\ Represents(m, t)
    BY <1>1, <2>1, RemovedRepresents
  <2>4. /\ t \in Seq(Nodes) /\ Len(t) = Len(q) - 1
        /\ \A j \in 1..(Len(q) - 1) : t[j] = IF j < i THEN q[j] ELSE q[j + 1]
    BY <1>1, <2>1, RemoveAtFacts
  <2> HIDE DEF t, m
  <2>5. Members(m) = Members(l) \ {n}
    <3>1. ASSUME NEW x \in Nodes PROVE Linked(m, x) <=> Linked(l, x) /\ x # n
      <4>1. Linked(m, x) <=> \E j \in 1..Len(t) : t[j] = x
        BY <2>3, <2>4, LinkedIffIn
      <4>2. Linked(l, x) <=> \E j \in 1..Len(q) : q[j] = x
        BY <1>1, LinkedIffIn
      <4>3. \A a, b \in 1..Len(q) : q[a] = q[b] => a = b
        BY <1>1 DEF Represents
      <4>4. ASSUME NEW j \in 1..Len(t), t[j] = x
            PROVE  x # n /\ \E h \in 1..Len(q) : q[h] = x
        <5>1. PICK h \in 1..Len(q) : q[h] = t[j] /\ h # i
          BY <1>1, <2>1, <2>4
        <5> QED
          BY <2>1, <4>3, <4>4, <5>1
      <4>5. ASSUME NEW h \in 1..Len(q), q[h] = x, x # n
            PROVE  \E j \in 1..Len(t) : t[j] = x
        <5>1. CASE h < i
          BY <1>1, <2>1, <2>4, <4>5, <5>1
        <5>2. CASE h > i
          <6>1. h - 1 \in 1..Len(t) /\ t[h - 1] = q[h]
            BY <1>1, <2>1, <2>4, <5>2
          <6> QED
            BY <4>5, <6>1
        <5>3. h # i
          BY <2>1, <4>5
        <5> QED
          BY <2>1, <5>1, <5>2, <5>3
      <4> QED
        BY <4>1, <4>2, <4>4, <4>5
    <3> QED
      BY <3>1 DEF Members
  <2>6. n \in Members(l)
    BY <1>4 DEF Members
  <2>7. IsFiniteSet(Members(m)) /\ Cardinality(Members(m)) = Len(q) - 1
    BY <1>1, <2>5, <2>6, FS_RemoveElement
  <2> QED
    BY <2>2, <2>3, <2>4, <2>5, <2>7 DEF Good, m
<1> QED
  BY <1>3, <1>4

\* Adding a node that is not in the list keeps it good.
LEMMA AddedGood ==
  ASSUME NEW l, NEW q, Good(l, q), NEW n \in Nodes, n \notin Members(l)
  PROVE  /\ Good(Added(l, n), Append(q, n))
         /\ Members(Added(l, n)) = Members(l) \cup {n}
<1> DEFINE t == Append(q, n)
           m == Added(l, n)
<1>1. l \in Lists /\ q \in Seq(Nodes) /\ Represents(l, q)
      /\ IsFiniteSet(Members(l)) /\ Cardinality(Members(l)) = Len(q) /\ Len(q) \in Nat
  BY DEF Good
<1>2. ~Linked(l, n)
  BY DEF Members
<1>3. m \in Lists /\ Represents(m, t)
  BY <1>1, <1>2, AddedRepresents
<1>4. /\ t \in Seq(Nodes) /\ Len(t) = Len(q) + 1 /\ t[Len(q) + 1] = n
      /\ \A j \in 1..Len(q) : t[j] = q[j]
  BY <1>1
<1> HIDE DEF t, m
<1>5. ASSUME NEW x \in Nodes PROVE Linked(m, x) <=> Linked(l, x) \/ x = n
  <2>1. Linked(m, x) <=> \E j \in 1..Len(t) : t[j] = x
    BY <1>3, <1>4, LinkedIffIn
  <2>2. Linked(l, x) <=> \E j \in 1..Len(q) : q[j] = x
    BY <1>1, LinkedIffIn
  <2>3. (\E j \in 1..Len(t) : t[j] = x) <=> (\E j \in 1..Len(q) : q[j] = x) \/ x = n
    BY <1>1, <1>4
  <2> QED
    BY <2>1, <2>2, <2>3
<1>6. Members(m) = Members(l) \cup {n}
  <2>1. ASSUME NEW x \in Nodes PROVE x \in Members(m) <=> x \in Members(l) \cup {n}
    BY <1>5 DEF Members
  <2>2. Members(m) \subseteq Nodes /\ Members(l) \subseteq Nodes
    BY DEF Members
  <2> QED
    BY <2>1, <2>2
<1>7. IsFiniteSet(Members(m)) /\ Cardinality(Members(m)) = Len(q) + 1
  <2> DEFINE S == Members(l)
  <2>1. IsFiniteSet(S) /\ Cardinality(S) = Len(q) /\ n \notin S /\ Members(m) = S \cup {n}
    BY <1>1, <1>6
  <2> HIDE DEF S
  <2>2. IsFiniteSet(S \cup {n}) /\ Cardinality(S \cup {n}) = Cardinality(S) + 1
    BY <2>1, FS_AddElement
  <2> QED
    BY <2>1, <2>2
<1> QED
  BY <1>3, <1>4, <1>6, <1>7 DEF Good, t, m
\* The list with all pointers NULL is good.
LEMMA EmptyGood == Good(Empty, <<>>)
<1>1. Members(Empty) = {}
  BY DEF Members, Linked, Empty, List
<1> QED
  BY <1>1, EmptyRepresents, FS_EmptySet DEF Good

\* A node that is not in the list has no pointers.
LEMMA GoodOutside ==
  ASSUME NEW l, NEW q, Good(l, q), NEW n \in Nodes, n \notin Members(l)
  PROVE  l.prev[n] = Null /\ l.next[n] = Null
<1>1. l \in Lists /\ q \in Seq(Nodes) /\ Represents(l, q)
  BY DEF Good
<1>2. ~Linked(l, n)
  BY DEF Members
<1>3. \A i \in 1..Len(q) : q[i] # n
  BY <1>1, <1>2, LinkedIffIn
<1> QED
  BY <1>1, <1>3 DEF Represents

\* A good list that is not empty starts with a member, and freeing the first node
\* is taking it out.
LEMMA GoodFirst ==
  ASSUME NEW l, NEW q, Good(l, q), Members(l) # {}
  PROVE  l.first \in Members(l) /\ FirstFreed(l) = Removed(l, l.first)
<1>1. l \in Lists /\ q \in Seq(Nodes) /\ Represents(l, q)
  BY DEF Good
<1>2. PICK n \in Nodes : Linked(l, n)
  BY DEF Members
<1>3. \E i \in 1..Len(q) : q[i] = n
  BY <1>1, <1>2, LinkedIffIn
<1>4. q # <<>> /\ 1 \in 1..Len(q) /\ q[1] \in Nodes
  BY <1>1, <1>3
<1>5. l.first = q[1]
  BY <1>1, <1>4 DEF Represents
<1>6. Linked(l, q[1])
  BY <1>1, <1>4, LinkedIffIn
<1> QED
  BY <1>1, <1>4, <1>5, <1>6, FirstFreedRepresents DEF Members

\* gp_filesystem_lru_check finds nothing wrong with a good list.
LEMMA GoodChecks ==
  ASSUME NEW l, NEW q, Good(l, q), Cardinality(Nodes) \in Nat
  PROVE  ChecksOk(l)
<1> DEFINE M == Cardinality(Nodes)
           Walked(h) == [k \in 0..M |-> IF k = 0 THEN l.first
                                       ELSE IF h[k - 1] = Null THEN Null ELSE l.next[h[k - 1]]]
           met == [k \in 0..M |-> IF k < Len(q) THEN q[k + 1] ELSE Null]
<1>1. l \in Lists /\ q \in Seq(Nodes) /\ Represents(l, q) /\ Len(q) \in Nat
  BY DEF Good
<1>2. \A i \in 1..Len(q) : /\ q[i] \in Nodes /\ q[i] # Null
                            /\ l.prev[q[i]] = (IF i = 1 THEN q[1] ELSE q[i - 1])
                            /\ l.next[q[i]] = (IF i = Len(q) THEN Null ELSE q[i + 1])
  BY <1>1, LruAssumption DEF Represents
<1>3. l.first = met[0]
  BY <1>1 DEF Represents
<1>4. ASSUME NEW k \in 0..M, k # 0
      PROVE  met[k] = IF met[k - 1] = Null THEN Null ELSE l.next[met[k - 1]]
  <2>1. k - 1 \in 0..M /\ met[k - 1] = IF k - 1 < Len(q) THEN q[k] ELSE Null
    BY <1>4
  <2>2. CASE k - 1 < Len(q)
    <3>1. k \in 1..Len(q)
      BY <1>1, <1>4, <2>2
    <3> QED
      BY <1>1, <1>2, <1>4, <2>1, <2>2, <3>1
  <2>3. CASE ~(k - 1 < Len(q))
    BY <1>1, <1>4, <2>1, <2>3
  <2> QED
    BY <2>2, <2>3
<1>5. met = Walked(met)
  BY <1>3, <1>4
<1>6. \A k \in 0..M : met[k] # Null => l.prev[met[k]] = met[IF k = 0 THEN 0 ELSE k - 1]
  <2> SUFFICES ASSUME NEW k \in 0..M, met[k] # Null
               PROVE  l.prev[met[k]] = met[IF k = 0 THEN 0 ELSE k - 1]
    OBVIOUS
  <2>1. k < Len(q) /\ met[k] = q[k + 1] /\ k + 1 \in 1..Len(q)
    BY <1>1
  <2>2. l.prev[met[k]] = IF k = 0 THEN q[1] ELSE q[k]
    BY <1>2, <2>1
  <2> QED
    BY <1>1, <2>1, <2>2
<1>7. PICK h : /\ h = Walked(h)
               /\ (\A k \in 0..M : h[k] # Null => l.prev[h[k]] = h[IF k = 0 THEN 0 ELSE k - 1])
                    => ChecksOk(l)
  <2> HIDE DEF met
  <2> QED
    BY Zenon, <1>5 DEF ChecksOk
<1>8. \A k \in 0..M : h[k] = met[k]
  <2> DEFINE Q == {k \in Nat : k \in 0..M => h[k] = met[k]}
  <2> HIDE DEF met
  <2>1. 0 \in Q
    BY <1>3, <1>7
  <2>2. ASSUME NEW k \in Nat, k \in Q
        PROVE  k + 1 \in Q
    <3> SUFFICES ASSUME k + 1 \in 0..M PROVE h[k + 1] = met[k + 1]
      OBVIOUS
    <3>1. k \in 0..M /\ (k + 1) - 1 = k /\ k + 1 # 0
      OBVIOUS
    <3> QED
      BY <1>4, <1>7, <2>2, <3>1
  <2> HIDE DEF Q
  <2>3. \A k \in Nat : k \in Q
    BY <2>1, <2>2, SetInduction
  <2> QED
    BY <2>3 DEF Q
<1> HIDE DEF met
<1>9. \A k \in 0..M : (IF k = 0 THEN 0 ELSE k - 1) \in 0..M
  OBVIOUS
<1> QED
  BY <1>6, <1>7, <1>8, <1>9
-----------------------------------------------------------------------------
(* The inductive invariant.  The properties are not inductive one by one:  *)
(* that an eviction finds a first node needs the count, the count needs    *)
(* every member to hold data, and that a freed node leaves the list needs  *)
(* the pointers to represent the sequence.                                 *)
Inv == TypeOK /\ Good(lru, order) /\ NoFreedMember /\ MembersHoldData /\ AtMostKeepPlusOne

\* Every member holds data, so gp_filesystem_lru_count is the length.
LEMMA CountIsLength ==
  ASSUME Inv
  PROVE  Count = Len(order) /\ Len(order) \in Nat
<1>1. {n \in Members(lru) : data[n] # {}} = Members(lru)
  BY DEF Inv, MembersHoldData
<1>2. Count = Cardinality(Members(lru))
  BY <1>1 DEF Count
<1>3. Cardinality(Members(lru)) = Len(order) /\ order \in Seq(Nodes)
  BY DEF Inv, Good
<1> QED
  BY <1>2, <1>3

\* gp_filesystem_new leaves the invariant true.
LEMMA InitInv == Init => Inv
<1> SUFFICES ASSUME Init PROVE Inv
  OBVIOUS
<1> USE DEF Init
<1>1. Members(lru) = {}
  BY DEF Members, Linked, Empty, List
<1>2. lru \in Lists /\ Represents(lru, order) /\ order \in Seq(Nodes)
  BY EmptyRepresents
<1>3. IsFiniteSet(Members(lru)) /\ Cardinality(Members(lru)) = 0 /\ Len(order) = 0
  BY <1>1, FS_EmptySet
<1>4. Good(lru, order)
  BY <1>2, <1>3 DEF Good
<1>5. NoFreedMember /\ MembersHoldData /\ AtMostKeepPlusOne
  BY <1>1, <1>3, KeepAssumption DEF NoFreedMember, MembersHoldData, AtMostKeepPlusOne
<1>6. TypeOK
  BY <1>2 DEF TypeOK
<1> QED
  BY <1>4, <1>5, <1>6 DEF Inv

\* An eviction takes the front of the queue.
LEMMA EvictStep ==
  ASSUME Inv, Evict
  PROVE  Inv' /\ Queue!Evict
<1> USE DEF Evict
<1>1. Len(order) > Keep /\ order # <<>> /\ Len(order) \in Nat
  BY CountIsLength, KeepAssumption
<1>2. lru \in Lists /\ order \in Seq(Nodes) /\ Represents(lru, order) /\ Good(lru, order)
  BY DEF Inv, Good
<1> DEFINE n == order[1]
<1>3. n \in Nodes /\ lru.first = n
  BY <1>1, <1>2 DEF Represents
<1>4. FirstFreed(lru) = Removed(lru, n) /\ Tail(order) = Queue!RemoveAt(order, 1)
  BY <1>1, <1>2, FirstFreedRepresents
<1>5. Queue!Without(order, n) = Queue!RemoveAt(order, 1)
  <2>1. \A i, j \in 1..Len(order) : order[i] = order[j] => i = j
    BY <1>2 DEF Represents
  <2>2. 1 \in 1..Len(order)
    BY <1>1
  <2>3. Queue!Position(order, n) = 1
    BY <2>1, <2>2 DEF Queue!Position
  <2> QED
    BY <2>2, <2>3 DEF Queue!Without
<1>11. lru' = Removed(lru, n) /\ order' = Queue!Without(order, n)
  BY <1>4, <1>5
<1> HIDE DEF n
<1>6. Good(lru', order') /\ Members(lru') = Members(lru) \ {n}
  <2>1. /\ Good(Removed(lru, n), Queue!Without(order, n))
        /\ Members(Removed(lru, n)) = Members(lru) \ {n}
    BY <1>2, <1>3, RemovedGood
  <2> QED
    BY <1>11, <2>1
<1>7. TypeOK'
  BY <1>3, <1>6 DEF Inv, TypeOK, Good
<1>8. NoFreedMember'
  BY <1>6 DEF Inv, NoFreedMember
<1>9. MembersHoldData'
  BY <1>3, <1>6 DEF Inv, MembersHoldData, TypeOK, Members
<1>10. AtMostKeepPlusOne'
  <2>1. Len(order') = Len(order) - 1
    BY <1>1, <1>2, HeadTailProperties
  <2>2. Len(order) <= Keep + 1
    BY DEF Inv, Good, AtMostKeepPlusOne
  <2>3. Cardinality(Members(lru')) = Len(order')
    BY <1>6 DEF Good
  <2> QED
    BY <1>1, <2>1, <2>2, <2>3, KeepAssumption DEF AtMostKeepPlusOne
<1> QED
  BY <1>1, <1>6, <1>7, <1>8, <1>9, <1>10 DEF Inv, Queue!Evict

\* The end of an update puts the file at the end of the queue.
LEMMA FinishStep ==
  ASSUME Inv, FinishUpdate
  PROVE  Inv' /\ \E n \in Nodes : Queue!Use(n)
<1> USE DEF FinishUpdate
<1> DEFINE n == pending[1]
           l == Removed(lru, n)
           q == Queue!Without(order, n)
<1>1. n \in Nodes /\ pending[2] \in Kinds /\ data \in [Nodes -> SUBSET Kinds]
  BY DEF Inv, TypeOK
<1>2. Good(lru, order)
  BY DEF Inv
<1>3. Good(l, q) /\ Members(l) = Members(lru) \ {n}
  BY <1>1, <1>2, RemovedGood
<1>4. /\ lru' = Added(l, n) /\ order' = Append(q, n)
      /\ data' = [data EXCEPT ![n] = @ \cup {pending[2]}]
  OBVIOUS
<1> HIDE DEF n, l, q
<1>5. Good(lru', order') /\ Members(lru') = Members(l) \cup {n}
  BY <1>1, <1>3, <1>4, AddedGood
<1>6. Len(order) <= Keep /\ Len(order) \in Nat
  BY CountIsLength
<1>7. TypeOK'
  BY <1>1, <1>4, <1>5 DEF Inv, TypeOK, Good
<1>8. NoFreedMember'
  <2>1. n \in live
    BY DEF n, Inv, NoFreedMember
  <2>2. Members(lru) \subseteq live /\ live' = live /\ pending' = <<>>
    BY DEF Inv, NoFreedMember
  <2>3. Members(lru') \subseteq live
    BY <1>3, <1>5, <2>1, <2>2
  <2>4. (Members(lru))' = Members(lru')
    BY DEF Members, Linked
  <2> QED
    BY <2>2, <2>3, <2>4 DEF NoFreedMember
<1>9. MembersHoldData'
  <2>1. \A x \in Members(lru) : data[x] # {}
    BY DEF Inv, MembersHoldData
  <2>2. Members(lru') \subseteq Members(lru) \cup {n}
    BY <1>3, <1>5
  <2>3. ASSUME NEW x \in Members(lru')
        PROVE  data'[x] # {}
    <3>1. x \in Nodes
      BY DEF Members
    <3>2. CASE x = n
      BY <1>1, <1>4, <3>2
    <3>3. CASE x # n
      BY <1>1, <1>4, <2>1, <2>2, <3>1, <3>3
    <3> QED
      BY <3>2, <3>3
  <2>4. (Members(lru))' = Members(lru')
    BY DEF Members, Linked
  <2> QED
    BY <2>3, <2>4 DEF MembersHoldData
<1>10. AtMostKeepPlusOne'
  <2>1. IsFiniteSet(Members(lru)) /\ Cardinality(Members(lru)) = Len(order)
    BY <1>2 DEF Good
  <2>2. Members(lru') = Members(lru) \cup {n}
    BY <1>3, <1>5
  <2>3. Cardinality(Members(lru')) <= Len(order) + 1
    <3>1. Cardinality(Members(lru) \cup {n}) =
            IF n \in Members(lru) THEN Cardinality(Members(lru)) ELSE Cardinality(Members(lru)) + 1
      BY <2>1, FS_AddElement
    <3> QED
      BY <1>6, <2>1, <2>2, <3>1
  <2>4. Cardinality(Members(lru')) = Len(order') /\ Len(order') \in Nat
    BY <1>5 DEF Good
  <2> QED
    BY <1>6, <2>3, <2>4, KeepAssumption DEF AtMostKeepPlusOne
<1>11. Queue!Use(n)
  BY <1>4, <1>6 DEF Queue!Use, q
<1> QED
  BY <1>1, <1>5, <1>7, <1>8, <1>9, <1>10, <1>11 DEF Inv

\* Freeing a node drops it from the queue.
LEMMA FreeStep ==
  ASSUME Inv, NEW n \in Nodes, Free(n)
  PROVE  Inv' /\ Queue!Drop(n)
<1> USE DEF Free
<1>1. Good(lru, order) /\ data \in [Nodes -> SUBSET Kinds]
  BY DEF Inv, TypeOK
<1>2. lru' = Removed(lru, n) /\ order' = Queue!Without(order, n)
  OBVIOUS
<1>3. Good(lru', order') /\ Members(lru') = Members(lru) \ {n}
  <2>1. /\ Good(Removed(lru, n), Queue!Without(order, n))
        /\ Members(Removed(lru, n)) = Members(lru) \ {n}
    BY <1>1, RemovedGood
  <2> QED
    BY <1>2, <2>1
<1>4. TypeOK'
  BY <1>3 DEF Inv, TypeOK, Good
<1>5. NoFreedMember'
  BY <1>3 DEF Inv, NoFreedMember
<1>6. MembersHoldData'
  BY <1>1, <1>3 DEF Inv, MembersHoldData, Members
<1>7. AtMostKeepPlusOne'
  <2>1. IsFiniteSet(Members(lru)) /\ Cardinality(Members(lru)) <= Keep + 1
    BY <1>1 DEF Inv, AtMostKeepPlusOne, Good
  <2>2. Cardinality(Members(lru')) <= Cardinality(Members(lru))
    BY <1>3, <2>1, FS_Subset
  <2>3. Cardinality(Members(lru)) \in Nat /\ Cardinality(Members(lru')) \in Nat
    BY <1>1, <1>3 DEF Good
  <2> QED
    BY <2>1, <2>2, <2>3, KeepAssumption DEF AtMostKeepPlusOne
<1> QED
  BY <1>2, <1>3, <1>4, <1>5, <1>6, <1>7 DEF Inv, Queue!Drop

\* A reset clears the queue.
LEMMA ResetStep ==
  ASSUME Inv, Reset
  PROVE  Inv' /\ Queue!Clear
<1>1. lru' = Empty /\ order' = <<>> /\ pending = <<>> /\ pending' = <<>>
      /\ live' = {} /\ data' = [n \in Nodes |-> {}]
  BY DEF Reset, Cleared
<1>2. Members(Empty) = {}
  BY DEF Members, Linked, Empty, List
<1>3. Empty \in Lists /\ Represents(Empty, <<>>)
  BY EmptyRepresents
<1>4. IsFiniteSet(Members(Empty)) /\ Cardinality(Members(Empty)) = 0 /\ Len(<<>>) = 0
  BY <1>2, FS_EmptySet
<1>5. Good(lru', order')
  BY <1>1, <1>3, <1>4 DEF Good
<1>6. TypeOK'
  BY <1>1, <1>3 DEF TypeOK
<1>7. NoFreedMember' /\ MembersHoldData' /\ AtMostKeepPlusOne'
  <2>1. Members(lru') = {} /\ Cardinality(Members(lru')) = 0
    BY <1>1, <1>2, <1>4
  <2> QED
    BY <1>1, <2>1, KeepAssumption DEF NoFreedMember, MembersHoldData, AtMostKeepPlusOne
<1> QED
  BY <1>1, <1>5, <1>6, <1>7 DEF Inv, Queue!Clear

\* Creating a node and entering an update leave the list alone.
LEMMA OtherSteps ==
  ASSUME Inv,
         \/ \E n \in Nodes : NewFile(n) \/ \E k \in Kinds : StartUpdate(n, k)
         \/ UNCHANGED vars
  PROVE  Inv' /\ order' = order
<1>1. lru' = lru /\ order' = order
  BY DEF NewFile, StartUpdate, vars
<1>2. Good(lru', order') /\ AtMostKeepPlusOne'
  BY <1>1 DEF Inv, AtMostKeepPlusOne
<1>3. CASE \E n \in Nodes : NewFile(n)
  <2>1. PICK n \in Nodes : NewFile(n)
    BY <1>3
  <2>2. n \notin Members(lru) /\ live' = live \cup {n} /\ pending' = <<>>
    BY <2>1 DEF Inv, NoFreedMember, NewFile
  <2>3. PICK d \in {{}, {"normal"}} : data' = [data EXCEPT ![n] = d]
    BY <2>1 DEF NewFile
  <2>4. TypeOK'
    BY <1>1, <2>2, <2>3 DEF Inv, TypeOK, Kinds
  <2>5. NoFreedMember'
    BY <1>1, <2>2 DEF Inv, NoFreedMember
  <2>6. MembersHoldData'
    BY <1>1, <2>2, <2>3 DEF Inv, MembersHoldData, TypeOK, Members
  <2> QED
    BY <1>1, <1>2, <2>4, <2>5, <2>6 DEF Inv
<1>4. CASE \E n \in Nodes, k \in Kinds : StartUpdate(n, k)
  BY <1>1, <1>2, <1>4 DEF Inv, StartUpdate, TypeOK, NoFreedMember, MembersHoldData
<1>5. CASE UNCHANGED vars
  BY <1>1, <1>2, <1>5 DEF Inv, vars, TypeOK, NoFreedMember, MembersHoldData
<1> QED
  BY <1>3, <1>4, <1>5

\* Every step keeps the invariant and is a step of the queue, or a stutter.
LEMMA NextInv ==
  ASSUME Inv, [Next]_vars
  PROVE  Inv' /\ [Queue!Next]_order
<1>1. CASE Evict
  BY <1>1, EvictStep DEF Queue!Next
<1>2. CASE FinishUpdate
  BY <1>2, FinishStep DEF Queue!Next
<1>3. CASE Reset
  BY <1>3, ResetStep DEF Queue!Next
<1>4. CASE \E n \in Nodes : Free(n)
  BY <1>4, FreeStep DEF Queue!Next
<1>5. CASE \/ \E n \in Nodes : NewFile(n) \/ \E k \in Kinds : StartUpdate(n, k)
           \/ UNCHANGED vars
  BY <1>5, OtherSteps
<1> QED
  BY <1>1, <1>2, <1>3, <1>4, <1>5 DEF Next

\* The invariant holds in every reachable state.
LEMMA Invariant == Spec => []Inv
<1>1. Init => Inv
  BY InitInv
<1>2. Inv /\ [Next]_vars => Inv'
  BY NextInv
<1> QED
  BY <1>1, <1>2, PTL DEF Spec

\* The variables keep their types.
THEOREM TypeCorrect == Spec => []TypeOK
<1>1. Inv => TypeOK
  BY DEF Inv
<1> QED
  BY <1>1, Invariant, PTL

\* The pointers of the LRU list always form the list of the files used and
\* not dropped since, in the order of their last use.
THEOREM Intact == Spec => []ListIntact
<1>1. Inv => ListIntact
  BY DEF Inv, Good, ListIntact
<1> QED
  BY <1>1, Invariant, PTL

\* No freed file node is in the list, and none is about to be linked.
THEOREM NothingDangles == Spec => []NoFreedMember
<1>1. Inv => NoFreedMember
  BY DEF Inv
<1> QED
  BY <1>1, Invariant, PTL

\* At most "cached-images" plus one files are in the list, each with data.
THEOREM Bounded == Spec => [](MembersHoldData /\ AtMostKeepPlusOne)
<1>1. Inv => MembersHoldData /\ AtMostKeepPlusOne
  BY DEF Inv
<1> QED
  BY <1>1, Invariant, PTL

\* The pointer code implements the queue: the file evicted is the one used
\* least recently, and only when more than "cached-images" files are held.
THEOREM ImplementsQueue == Spec => QueueSpec
<1>1. Init => Queue!Init
  BY DEF Init, Queue!Init
<1>2. Inv /\ [Next]_vars => [Queue!Next]_order
  BY NextInv
<1> QED
  BY <1>1, <1>2, Invariant, PTL DEF Spec, QueueSpec, Queue!Spec

=============================================================================
