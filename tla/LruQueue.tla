------------------------------ MODULE LruQueue ------------------------------
(***************************************************************************)
(* What the image cache promises: it is a queue of distinct files.  Using  *)
(* an image puts its file at the end, the file at the front is the only    *)
(* one ever evicted, and eviction happens only when more than "Keep" files *)
(* are held, so that at most Keep + 1 are.                                 *)
(***************************************************************************)
EXTENDS Integers, Sequences

CONSTANTS Nodes, Keep

VARIABLE queue

Position(q, n) == CHOOSE i \in 1..Len(q) : q[i] = n
RemoveAt(q, i) == [j \in 1..(Len(q) - 1) |-> IF j < i THEN q[j] ELSE q[j + 1]]
Without(q, n) ==
  IF \E i \in 1..Len(q) : q[i] = n THEN RemoveAt(q, Position(q, n)) ELSE q

Init == queue = <<>>

Use(n) == /\ Len(queue) <= Keep
          /\ queue' = Append(Without(queue, n), n)
Evict  == /\ Len(queue) > Keep
          /\ queue' = Tail(queue)
Drop(n) == queue' = Without(queue, n)
Clear == queue' = <<>>

Next == Evict \/ Clear \/ \E n \in Nodes : Use(n) \/ Drop(n)

Spec == Init /\ [][Next]_queue
=============================================================================
