------------------------------ MODULE LruList -------------------------------
(***************************************************************************)
(* The image cache of CameraFilesystem as a machine: file nodes are        *)
(* created and freed by the listing, upload and deletion code, the driver  *)
(* attaches image data to them (gp_filesystem_set_file_noop), and the LRU  *)
(* list decides whose data is dropped.  The loop of                        *)
(* gp_filesystem_lru_update that prunes the list takes one step per node   *)
(* it evicts.                                                              *)
(***************************************************************************)
EXTENDS Lru

CONSTANT Keep  \* pictures_to_keep: the setting "cached-images", 2 by default

ASSUME KeepAssumption == Keep \in Nat

\* The data the list manages; previews, EXIF and metadata are never evicted.
Kinds == {"normal", "raw", "audio"}

VARIABLES
  live,     \* the file nodes that are allocated
  data,     \* the image data attached to each node
  lru,      \* the list
  pending,  \* <<node, kind>> of the gp_filesystem_lru_update that runs, or <<>>
  order     \* ghost: the nodes of the list, the one used last at the end

vars == <<live, data, lru, pending, order>>

\* gp_filesystem_lru_count
Count == Cardinality({n \in Members(lru) : data[n] # {}})

\* The abstract queue, read from the ghost.
Queue == INSTANCE LruQueue WITH queue <- order

Init ==
  /\ live = {} /\ data = [n \in Nodes |-> {}]
  /\ lru = Empty /\ pending = <<>> /\ order = <<>>

\* internal_append, or append_file with the data of an uploaded file.
NewFile(n) ==
  /\ pending = <<>> /\ n \notin live
  /\ live' = live \cup {n}
  /\ \E d \in {{}, {"normal"}} : data' = [data EXCEPT ![n] = d]
  /\ UNCHANGED <<lru, pending, order>>

\* Mutant: previews enter the list too.
StartPreview(n, kind) ==
  /\ pending = <<>> /\ n \in live
  /\ pending' = <<n, "preview">>
  /\ UNCHANGED <<live, data, lru, order>>

\* gp_filesystem_set_file_noop enters gp_filesystem_lru_update.
StartUpdate(n, kind) ==
  /\ pending = <<>> /\ n \in live
  /\ pending' = <<n, kind>>
  /\ UNCHANGED <<live, data, lru, order>>

\* Mutant: only the normal image is released, and the node stays linked.
EvictNormal ==
  /\ pending # <<>> /\ Count > Keep
  /\ data' = [data EXCEPT ![lru.first] = @ \ {"normal"}]
  /\ UNCHANGED <<live, pending, lru, order>>

\* One turn of the loop: gp_filesystem_lru_free.
Evict ==
  /\ pending # <<>> /\ Count > Keep
  /\ data' = [data EXCEPT ![lru.first] = {}]
  /\ lru' = FirstFreed(lru) /\ order' = Tail(order)
  /\ UNCHANGED <<live, pending>>

\* Mutant: a node that is already in the list stays where it is.
FinishUpdateInPlace ==
  /\ pending # <<>> /\ Count <= Keep
  /\ LET n == pending[1] IN
       /\ data' = [data EXCEPT ![n] = @ \cup {pending[2]}]
       /\ lru' = IF Linked(lru, n) THEN lru ELSE Added(lru, n)
       /\ order' = Append(Queue!Without(order, n), n)
  /\ pending' = <<>>
  /\ UNCHANGED live

\* Mutant: the loop stops one picture too early.
FinishUpdateEarly ==
  /\ pending # <<>> /\ Count <= Keep + 1
  /\ LET n == pending[1] IN
       /\ data' = [data EXCEPT ![n] = @ \cup {pending[2]}]
       /\ lru' = Added(Removed(lru, n), n)
       /\ order' = Append(Queue!Without(order, n), n)
  /\ pending' = <<>>
  /\ UNCHANGED live

\* The rest of gp_filesystem_lru_update, and the data is attached.
FinishUpdate ==
  /\ pending # <<>> /\ Count <= Keep
  /\ LET n == pending[1] IN
       /\ data' = [data EXCEPT ![n] = @ \cup {pending[2]}]
       /\ lru' = Added(Removed(lru, n), n)
       /\ order' = Append(Queue!Without(order, n), n)
  /\ pending' = <<>>
  /\ UNCHANGED live

\* Mutant: the node is freed without leaving the list.
FreeLinked(n) ==
  /\ pending = <<>> /\ n \in live
  /\ live' = live \ {n} /\ data' = [data EXCEPT ![n] = {}]
  /\ UNCHANGED <<pending, lru, order>>

\* delete_file, and each turn of the loop of delete_all_files.
Free(n) ==
  /\ pending = <<>> /\ n \in live
  /\ live' = live \ {n} /\ data' = [data EXCEPT ![n] = {}]
  /\ lru' = Removed(lru, n) /\ order' = Queue!Without(order, n)
  /\ UNCHANGED pending

\* gp_filesystem_reset: nothing is freed when the list is corrupted.
Reset ==
  /\ pending = <<>> /\ ChecksOk(lru)
  /\ lru' = Cleared(lru) /\ order' = <<>>
  /\ live' = {} /\ data' = [n \in Nodes |-> {}]
  /\ UNCHANGED pending

Next ==
  \/ Evict \/ FinishUpdate \/ Reset
  \/ \E n \in Nodes : NewFile(n) \/ Free(n) \/ \E k \in Kinds : StartUpdate(n, k)

Spec == Init /\ [][Next]_vars

\* The library is called and runs to the end: a started update is not left.
FairSpec == Spec /\ WF_vars(Evict \/ FinishUpdate)
-----------------------------------------------------------------------------
TypeOK ==
  /\ live \subseteq Nodes
  /\ data \in [Nodes -> SUBSET Kinds]
  /\ lru \in Lists
  /\ pending \in (Nodes \X Kinds) \cup {<<>>}
  /\ order \in Seq(Nodes)

\* The two ends and the pointers of all nodes form the doubly linked list of
\* exactly the files used and not dropped since, in the order of their last
\* use: no sequence of creations, uses, evictions and deletions breaks it, and
\* the walk of gp_filesystem_lru_check never takes it for a corrupted one.
ListIntact == Represents(lru, order)

\* A freed file node is not reachable from the list any more, nor is it the
\* one an update that runs will link, so that neither the pruning loop nor the
\* integrity check follows a dangling pointer.
NoFreedMember ==
  /\ Members(lru) \subseteq live
  /\ pending # <<>> => pending[1] \in live

\* Every file in the list has data to give back: an eviction frees memory.
MembersHoldData == \A n \in Members(lru) : data[n] # {}

\* One more file than "cached-images" says is held, never two.
AtMostKeepPlusOne == Cardinality(Members(lru)) <= Keep + 1

\* The list implements the queue: least recently used first out.
QueueSpec == Queue!Spec

\* The pruning loop of gp_filesystem_lru_update ends.
UpdateEnds == pending # <<>> ~> pending = <<>>
=============================================================================
