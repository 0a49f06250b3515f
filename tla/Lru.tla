-------------------------------- MODULE Lru ---------------------------------
(***************************************************************************)
(* The LRU list of CameraFilesystem (libgphoto2/gphoto2-filesys.c): the    *)
(* doubly linked list threaded through the file nodes whose image data is  *)
(* kept in memory.  A list is a record of the two ends, fs->lru_first and  *)
(* fs->lru_last, and of the two pointers of every node.  The first node    *)
(* points back to itself: lru_prev is NULL exactly when a node is not in   *)
(* the list.                                                               *)
(***************************************************************************)
EXTENDS Integers, Sequences, FiniteSets

CONSTANTS Nodes, Null

ASSUME LruAssumption == Null \notin Nodes

Lists == [first : Nodes \cup {Null}, last : Nodes \cup {Null},
          prev : [Nodes -> Nodes \cup {Null}], next : [Nodes -> Nodes \cup {Null}]]

List(first, last, prev, next) ==
  [first |-> first, last |-> last, prev |-> prev, next |-> next]

Empty == List(Null, Null, [n \in Nodes |-> Null], [n \in Nodes |-> Null])

Linked(l, n) == l.prev[n] # Null
Members(l) == {n \in Nodes : Linked(l, n)}

\* A list, linked as the code links it, that holds the nodes of q in order.
Represents(l, q) ==
  /\ l.first = (IF q = <<>> THEN Null ELSE q[1])
  /\ l.last = (IF q = <<>> THEN Null ELSE q[Len(q)])
  /\ \A i \in 1..Len(q) :
       /\ l.prev[q[i]] = (IF i = 1 THEN q[1] ELSE q[i - 1])
       /\ l.next[q[i]] = (IF i = Len(q) THEN Null ELSE q[i + 1])
  /\ \A i, j \in 1..Len(q) : q[i] = q[j] => i = j
  /\ \A n \in Nodes : (\A i \in 1..Len(q) : q[i] # n)
                        => l.prev[n] = Null /\ l.next[n] = Null

\* The walk of gp_filesystem_lru_check: every node met from the first on
\* points back to the one before, the first one to itself.
ChecksOk(l) ==
  LET met[k \in 0..Cardinality(Nodes)] ==
        IF k = 0 THEN l.first
        ELSE IF met[k - 1] = Null THEN Null ELSE l.next[met[k - 1]]
  IN \A k \in 0..Cardinality(Nodes) :
       met[k] # Null => l.prev[met[k]] = met[IF k = 0 THEN 0 ELSE k - 1]

\* gp_filesystem_lru_clear; a corrupted list is left alone (GP_ERROR).
Cleared(l) == IF ChecksOk(l) THEN Empty ELSE l

\* Mutant: the new first node is not made to point back to itself.
RemovedStale(l, n) ==
  IF ~Linked(l, n) THEN l
  ELSE LET before == l.prev[n]
           after == l.next[n]
           next == [l.next EXCEPT ![before] = after]
           prev == IF after = Null THEN l.prev ELSE [l.prev EXCEPT ![after] = before]
           off(f) == [f EXCEPT ![n] = Null]
       IN CASE l.last = n /\ l.first = n -> List(Null, Null, off(prev), off(next))
            [] l.last = n /\ l.first # n -> List(l.first, before, off(prev), off(next))
            [] l.last # n /\ l.first = n -> List(after, l.last, off(prev), off(next))
            [] l.last # n /\ l.first # n -> List(l.first, l.last, off(prev), off(next))

\* gp_filesystem_lru_remove_one: a node that is not in the list is an error
\* every caller ignores.
Removed(l, n) ==
  IF ~Linked(l, n) THEN l
  ELSE LET before == l.prev[n]
           after == l.next[n]
           next == [l.next EXCEPT ![before] = after]
           prev == IF after = Null THEN l.prev ELSE [l.prev EXCEPT ![after] = before]
           off(f) == [f EXCEPT ![n] = Null]
       IN CASE l.last = n /\ l.first = n -> List(Null, Null, off(prev), off(next))
            [] l.last = n /\ l.first # n -> List(l.first, before, off(prev), off(next))
            [] l.last # n /\ l.first = n ->
                 List(after, l.last, off([prev EXCEPT ![after] = after]), off(next))
            [] l.last # n /\ l.first # n -> List(l.first, l.last, off(prev), off(next))

\* The end of gp_filesystem_lru_update: the node is added after the last one.
Added(l, n) ==
  IF l.first = Null
  THEN List(n, n, [l.prev EXCEPT ![n] = n], l.next)
  ELSE List(l.first, n, [l.prev EXCEPT ![n] = l.last],
            [l.next EXCEPT ![n] = Null, ![l.last] = n])

\* gp_filesystem_lru_free: the first node leaves the list.
FirstFreed(l) ==
  LET n == l.first
      second == l.next[n]
  IN List(second, IF second = Null THEN Null ELSE l.last,
          [(IF second = Null THEN l.prev ELSE [l.prev EXCEPT ![second] = second])
             EXCEPT ![n] = Null],
          [l.next EXCEPT ![n] = Null])
=============================================================================
