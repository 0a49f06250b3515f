---- MODULE PtpObjectsProofs ----
(***************************************************************************)
(* Proofs about PtpObjects, for any tree of objects, any number of faults,   *)
(* removals and events: what the array says of parents is true, and what an  *)
(* operation answers is of the object it was asked for.  As long as all is   *)
(* calm a listing is complete and a deletion takes what it names (CalmInv).  *)
(***************************************************************************)
EXTENDS PtpObjects, InductionLemmas, SequenceTheorems

(***************************************************************************)
(* The tree of objects                                                      *)
(***************************************************************************)
Nodes == Handles \cup {Root}
Depth ==
    CHOOSE depth \in [Nodes -> 0..Cardinality(Handles)] :
      depth[Root] = 0 /\ \A h \in Handles : depth[h] = depth[Parent[h]] + 1

\* The depth of an object is finite and one more than that of its folder.
LEMMA DepthFacts ==
    /\ Cardinality(Handles) \in Nat /\ Depth \in [Nodes -> 0..Cardinality(Handles)]
    /\ Depth[Root] = 0 /\ \A h \in Handles : Depth[h] = Depth[Parent[h]] + 1
    /\ \A h \in Nodes : h # Root => h \in Handles /\ Parent[h] \in Nodes
    /\ Root \in Nodes /\ Root \notin Handles /\ Handles \subseteq Nodes
BY ObjectsAssumption, ForestAssumption, FS_CardinalityType DEF Depth, Nodes

Climbs(g, T, first, step) ==
    /\ g \in [Nodes -> T]
    /\ \A h \in Nodes : g[h] = IF h = Root THEN first ELSE step[<<h, g[Parent[h]]>>]

\* A function may be defined by going from an object to its folder.
LEMMA AlongParents ==
    ASSUME NEW T, NEW first \in T, NEW step \in [Nodes \X T -> T]
    PROVE  \E g : Climbs(g, T, first, step)
<1> DEFINE up == [h \in Nodes |-> IF h = Root THEN h ELSE Parent[h]]
           base == [h \in Nodes |-> first]
<1>1. \A h \in Nodes : Depth[h] = 0 <=> h = Root
  BY DepthFacts
<1>2. Recursive(Nodes, T, Cardinality(Handles), Depth, up, base, step)
  <2>1. up \in [Nodes -> Nodes] /\ base \in [Nodes -> T]
    BY DepthFacts
  <2>2. \A h \in Nodes : Depth[h] > 0 => Depth[up[h]] < Depth[h]
    BY <1>1, DepthFacts
  <2> HIDE DEF up, base
  <2> QED
    BY <2>1, <2>2, DepthFacts DEF Recursive
<1>3. PICK g : Solves(g, Nodes, T, Depth, up, base, step)
  <2> HIDE DEF up, base
  <2> QED
    BY <1>2, Recursion
<1>4. g \in [Nodes -> T]
  BY <1>3 DEF Solves
<1>5. \A h \in Nodes : g[h] = IF h = Root THEN first ELSE step[<<h, g[Parent[h]]>>]
  <2> SUFFICES ASSUME NEW h \in Nodes
               PROVE  g[h] = IF h = Root THEN first ELSE step[<<h, g[Parent[h]]>>]
    OBVIOUS
  <2>1. g[h] = IF Depth[h] = 0 THEN base[h] ELSE step[<<h, g[up[h]]>>]
    <3> HIDE DEF up, base
    <3> QED
      BY <1>3 DEF Solves
  <2> QED
    BY <1>1, <2>1
<1> QED
  BY <1>4, <1>5 DEF Climbs

\* What is said of an object when it is said of its folder holds for all.
LEMMA DownFolders ==
    ASSUME NEW Q, Root \in Q, \A h \in Handles : Parent[h] \in Q => h \in Q
    PROVE  \A h \in Nodes : h \in Q
<1>1. ASSUME NEW h \in Nodes, \A k \in Nodes : Depth[k] < Depth[h] => k \in Q
      PROVE  h \in Q
  <2>1. CASE h # Root
    <3>1. h \in Handles /\ Parent[h] \in Nodes /\ Depth[Parent[h]] < Depth[h]
      BY <2>1, DepthFacts
    <3> QED
      BY <1>1, <3>1
  <2> QED
    BY <2>1
<1>2. Depth \in [Nodes -> Nat]
  BY DepthFacts
<1> QED
  BY <1>1, <1>2, RankInduction

\* The objects from h up to the root are h and those from its folder up.
LEMMA AncestorsAre ==
    /\ Ancestors[Root] = {}
    /\ \A h \in Handles : Ancestors[h] = {h} \cup Ancestors[Parent[h]]
<1> DEFINE step == [e \in Nodes \X SUBSET Nodes |-> {e[1]} \cup e[2]]
<1>1. step \in [Nodes \X SUBSET Nodes -> SUBSET Nodes] /\ {} \in SUBSET Nodes
  OBVIOUS
<1>2. PICK g : Climbs(g, SUBSET Nodes, {}, step)
  <2> HIDE DEF step
  <2> QED
    BY <1>1, AlongParents
<1>3. \A h \in Nodes : g[h] = IF h = Root THEN {} ELSE {h} \cup g[Parent[h]]
  BY <1>2, DepthFacts DEF Climbs
<1>4. g = [h \in Nodes |-> IF h = Root THEN {} ELSE {h} \cup g[Parent[h]]]
  BY <1>2, <1>3 DEF Climbs
<1>5. Ancestors = [h \in Nodes |-> IF h = Root THEN {} ELSE {h} \cup Ancestors[Parent[h]]]
  BY Zenon, <1>4 DEF Ancestors, Nodes
<1> QED
  BY <1>5, DepthFacts

\* The path of an object is that of its folder and its name.
LEMMA PathIs ==
    /\ Path \in [Nodes -> Seq(Names)]
    /\ Path[Root] = <<>>
    /\ \A h \in Handles : Path[h] = Append(Path[Parent[h]], Name[h])
<1> DEFINE step == [e \in Nodes \X Seq(Names) |->
                      IF e[1] = Root THEN <<>> ELSE Append(e[2], Name[e[1]])]
           Q == {h \in Nodes : Path[h] \in Seq(Names)}
<1>1. step \in [Nodes \X Seq(Names) -> Seq(Names)]
  BY DepthFacts DEF Names
<1>2. PICK g : Climbs(g, Seq(Names), <<>>, step)
  <2>1. <<>> \in Seq(Names)
    OBVIOUS
  <2> HIDE DEF step
  <2> QED
    BY <1>1, <2>1, AlongParents
<1>3. \A h \in Nodes : g[h] = IF h = Root THEN <<>> ELSE Append(g[Parent[h]], Name[h])
  BY <1>2, DepthFacts DEF Climbs
<1>4. g = [h \in Nodes |-> IF h = Root THEN <<>> ELSE Append(g[Parent[h]], Name[h])]
  BY <1>2, <1>3 DEF Climbs
<1>5. Path = [h \in Nodes |-> IF h = Root THEN <<>> ELSE Append(Path[Parent[h]], Name[h])]
  BY Zenon, <1>4 DEF Path, Nodes
<1>6. Path[Root] = <<>> /\ \A h \in Handles : Path[h] = Append(Path[Parent[h]], Name[h])
  BY <1>5, DepthFacts
<1>7. Root \in Q
  <2>1. <<>> \in Seq(Names)
    OBVIOUS
  <2> QED
    BY <1>6, <2>1, DepthFacts
<1>8. ASSUME NEW h \in Handles, Parent[h] \in Q PROVE h \in Q
  <2>1. Path[Parent[h]] \in Seq(Names) /\ Name[h] \in Names /\ h \in Nodes
    BY <1>8, DepthFacts DEF Names
  <2>2. Append(Path[Parent[h]], Name[h]) \in Seq(Names)
    BY <2>1
  <2> QED
    BY <1>6, <2>1, <2>2
<1> HIDE DEF Q
<1>9. \A h \in Nodes : h \in Q
  BY <1>7, <1>8, DownFolders
<1>10. \A h \in Nodes : Path[h] \in Seq(Names)
  BY <1>9 DEF Q
<1>11. DOMAIN Path = Nodes /\ Path = [h \in Nodes |-> Path[h]]
  BY Zenon, <1>5
<1> QED
  BY <1>6, <1>10, <1>11

\* What the proofs need to know of the tree.
LEMMA ForestFacts ==
    /\ Path \in [Handles \cup {Root} -> Seq(Names)]
    /\ Path[Root] = <<>> /\ Ancestors[Root] = {}
    /\ \A h \in Handles : /\ Path[h] = Append(Path[Parent[h]], Name[h])
                          /\ Ancestors[h] = {h} \cup Ancestors[Parent[h]]
    /\ \A h \in InitialObjects : Parent[h] \in InitialObjects \cup {Root}
BY AncestorsAre, PathIs, ForestAssumption DEF Nodes

(***************************************************************************)
(* The array                                                                *)
(***************************************************************************)
\* What an array of objects that are among u keeps true.  An object whose info was
\* read has its parent recorded.
Good(c, u) ==
    /\ DOMAIN c \subseteq u
    /\ c \in [DOMAIN c -> Entry]
    /\ \A h \in DOMAIN c :
         /\ c[h].parent \in {None, Parent[h]}
         /\ c[h].info => c[h].parent # None

LEMMA ParentType ==
    ASSUME NEW h \in Handles
    PROVE  Parent[h] \in Handles \cup {Root} /\ Parent[h] # None
BY ObjectsAssumption

LEMMA EntryFields ==
    ASSUME NEW e \in Entry
    PROVE  /\ e.parent \in Handles \cup {Root, None}
           /\ e.store \in BOOLEAN /\ e.info \in BOOLEAN /\ e.listed \in BOOLEAN
BY DEF Entry

LEMMA FreshEntry ==
    Fresh \in Entry /\ Fresh.parent = None /\ Fresh.info = FALSE
BY DEF Fresh, Entry

LEMMA GoodEmpty ==
    ASSUME NEW u
    PROVE  Good([h \in {} |-> Fresh], u)
BY DEF Good

LEMMA GoodDropped ==
    ASSUME NEW u, Good(cache, u), NEW h
    PROVE  Good(Dropped(h), u)
BY DEF Good, Dropped, Cached

LEMMA GoodInserted ==
    ASSUME NEW u, Good(cache, u), NEW h \in u
    PROVE  /\ Good(Inserted(h), u)
           /\ DOMAIN Inserted(h) = Cached \cup {h}
BY FreshEntry DEF Good, Inserted, Cached

LEMMA GoodFilled ==
    ASSUME NEW u, u \subseteq Handles, Good(cache, u), NEW h \in u
    PROVE  /\ Good(Filled(h), u)
           /\ h \in DOMAIN Filled(h) /\ Filled(h)[h].parent = Parent[h]
<1> DEFINE c == Inserted(h)
<1>1. Good(c, u) /\ h \in DOMAIN c
  BY GoodInserted
<1>2. c[h] \in Entry /\ c[h].parent \in {None, Parent[h]} /\ h \in Handles
  BY <1>1 DEF Good
<1> DEFINE e == [c[h] EXCEPT !.parent = IF @ = None THEN Parent[h] ELSE @,
                             !.store = TRUE, !.info = TRUE]
<1>3. e \in Entry /\ e.parent = Parent[h]
  BY <1>2, ParentType DEF Entry
<1>4. Filled(h) = [c EXCEPT ![h] = e]
  BY DEF Filled
<1>5. /\ DOMAIN Filled(h) = DOMAIN c /\ Filled(h)[h] = e
      /\ \A g \in DOMAIN c \ {h} : Filled(h)[g] = c[g]
      /\ Filled(h) \in [DOMAIN c -> Entry]
  BY <1>1, <1>3, <1>4 DEF Good
<1> HIDE DEF e, c
<1> QED
  BY <1>1, <1>2, <1>3, <1>5, ParentType DEF Good

LEMMA GoodMerged ==
    ASSUME NEW u, u \subseteq Handles, NEW c, Good(c, u), NEW hs, hs \subseteq u,
           NEW folder \in Handles \cup {Root}, \A h \in hs : Parent[h] = folder,
           NEW store \in BOOLEAN
    PROVE  Good(Merged(c, hs, folder, store), u)
<1> DEFINE m == Merged(c, hs, folder, store)
<1>1. DOMAIN m = DOMAIN c \cup hs
  BY DEF Merged
<1>2. folder # None
  BY ObjectsAssumption
<1>3. ASSUME NEW h \in DOMAIN m
      PROVE  /\ m[h] \in Entry
             /\ m[h].parent \in {None, Parent[h]}
             /\ m[h].info => m[h].parent # None
  <2>1. CASE h \notin hs
    BY <1>1, <2>1, <1>3 DEF Merged, Good
  <2>2. CASE h \in hs /\ h \in DOMAIN c
    <3>1. m[h] = [c[h] EXCEPT !.parent = folder, !.store = @ \/ store]
      BY <2>2 DEF Merged
    <3>2. c[h] \in Entry
      BY <2>2 DEF Good
    <3>3. /\ m[h].parent = folder /\ m[h].info = c[h].info
          /\ m[h].listed = c[h].listed
          /\ m[h].store = (c[h].store \/ store)
      BY <3>1, <3>2 DEF Entry
    <3>4. m[h].store \in BOOLEAN
      BY <3>3
    <3>5. m[h] = [parent |-> m[h].parent, store |-> m[h].store, info |-> m[h].info,
                  listed |-> m[h].listed]
      BY <3>1, <3>2 DEF Entry
    <3>6. m[h] \in Entry
      BY <3>2, <3>3, <3>4, <3>5, EntryFields DEF Entry
    <3> QED
      BY <1>2, <2>2, <3>3, <3>6
  <2>3. CASE h \in hs /\ h \notin DOMAIN c
    <3>1. m[h] = [Fresh EXCEPT !.parent = IF folder = Root THEN None ELSE folder,
                               !.store = store]
      BY <2>3 DEF Merged
    <3> QED
      BY <2>3, <3>1, FreshEntry DEF Entry, Fresh
  <2> QED
    BY <2>1, <2>2, <2>3
<1>4. m = [h \in DOMAIN m |-> m[h]]
  BY DEF Merged
<1>5. DOMAIN m \subseteq u
  BY <1>1 DEF Good
<1> HIDE DEF m
<1>6. m \in [DOMAIN m -> Entry]
  BY <1>3, <1>4
<1>7. Good(m, u)
  BY <1>3, <1>5, <1>6 DEF Good
<1> QED
  BY <1>7 DEF m

\* The array with PTPOBJECT_DIRECTORY_LOADED set for a folder that it has.
Marked(f) == IF f \in Cached THEN [cache EXCEPT ![f].listed = TRUE] ELSE cache

LEMMA GoodMarked ==
    ASSUME NEW u, Good(cache, u), NEW f
    PROVE  Good(Marked(f), u)
<1>1. CASE f \in Cached
  <2> DEFINE e == [cache[f] EXCEPT !.listed = TRUE]
  <2>1. cache[f] \in Entry
    BY <1>1 DEF Good, Cached
  <2>2. e \in Entry /\ e.parent = cache[f].parent /\ e.info = cache[f].info
    BY <2>1 DEF Entry
  <2>3. Marked(f) = [cache EXCEPT ![f] = e]
    BY <1>1 DEF Marked
  <2> HIDE DEF e
  <2>4. /\ DOMAIN Marked(f) = DOMAIN cache /\ Marked(f)[f] = e
        /\ \A g \in DOMAIN cache \ {f} : Marked(f)[g] = cache[g]
        /\ Marked(f) \in [DOMAIN cache -> Entry]
    BY <1>1, <2>2, <2>3 DEF Good, Cached
  <2> QED
    BY <1>1, <2>2, <2>4 DEF Good, Cached
<1>2. CASE f \notin Cached
  BY <1>2 DEF Marked
<1> QED
  BY <1>1, <1>2

(***************************************************************************)
(* The steps                                                                *)
(***************************************************************************)
ParentOK == op.parent \in Handles \cup {Root, Special}
ObjectsOK == present \subseteq used /\ used \subseteq Handles /\ Good(cache, used)

\* What a step does to the array.
LEMMA CacheMoves ==
    ASSUME ParentOK, [Next]_vars
    PROVE  \/ cache' = cache \/ cache' = [h \in {} |-> Fresh]
           \/ \E h : cache' = Dropped(h)
           \/ \E h \in present : cache' = Filled(h)
           \/ \E h \in Handles \ used : cache' = Inserted(h) /\ used' = used \cup {h}
           \/ cache' = Marked(op.parent)
           \/ \E c \in {cache, Marked(op.parent)}, folder \in Handles \cup {Root},
                 store \in BOOLEAN :
                cache' = Merged(c, Children(folder), folder, store)
<1>1. CASE FetchHandles
  <2> DEFINE folder == IF op.parent = Special THEN Root ELSE op.parent
  <2>1. folder \in Handles \cup {Root}
    BY DEF ParentOK
  <2>2. \/ cache' = Merged(Marked(op.parent), Children(folder), folder, TRUE)
        \/ cache' = Marked(op.parent)
    BY <1>1 DEF FetchHandles, Marked
  <2> HIDE DEF folder
  <2> QED
    BY <2>1, <2>2
<1>2. CASE FindChild
  BY <1>2 DEF FindChild, Look, ReadInfo, NoTransaction
<1>3. CASE ScanObject
  BY <1>3 DEF ScanObject, Look, ReadInfo, NoTransaction
<1>4. CASE DeleteFile
  BY <1>4 DEF DeleteFile, Deleted, NotDeleted
<1>5. CASE RemoveDir
  BY <1>5 DEF RemoveDir, Deleted, NotDeleted
<1>6. CASE SendObject
  BY <1>6 DEF SendObject, New
<1>7. CASE ReadEvent
  BY <1>7 DEF ReadEvent
<1>8. CASE ListRoot
  <2>1. \/ cache' = Merged(cache, Children(Root), Root, pc = "rootstore")
        \/ cache' = cache
    BY <1>8 DEF ListRoot
  <2>2. (pc = "rootstore") \in BOOLEAN
    OBVIOUS
  <2> QED
    BY <2>1, <2>2
<1>9. CASE PopEvent
  BY <1>9 DEF PopEvent
<1>10. CASE ReadAdded
  BY <1>10 DEF ReadAdded, ReadInfo, NoTransaction
<1>11. CASE ReadParent
  BY <1>11 DEF ReadParent, ReadInfo, NoTransaction
<1>12. CASE ReportAdded
  BY <1>12 DEF ReportAdded, NoTransaction
<1>13. CASE FolderKnown \/ NoChild \/ ScanAgain \/ ScanDone
  BY <1>13 DEF FolderKnown, NoChild, ScanAgain, ScanDone
<1>14. CASE InfoFound \/ Exists \/ NoEvent \/ TimedOut \/ Return
  BY <1>14 DEF InfoFound, Exists, NoEvent, TimedOut, Return
<1>15. CASE Frontend
  BY <1>15 DEF Frontend, List, GetInfo, Delete, RemoveFolder, Upload, WaitForEvent,
     Begin
<1>16. CASE Camera
  BY <1>16 DEF Camera, Capture, Vanish, RemoveCard, client
<1>17. CASE UNCHANGED vars
  BY <1>17 DEF vars
<1> QED
  BY <1>1, <1>2, <1>3, <1>4, <1>5, <1>6, <1>7, <1>8, <1>9, <1>10, <1>11, <1>12,
     <1>13, <1>14, <1>15, <1>16, <1>17
     DEF Next, Driver, ListFolder, Walk, Act, Events

\* What a step does to the objects of the camera: one is new, in a folder that is
\* there; a tree is gone; or all of them.
LEMMA ObjectMoves ==
    ASSUME ParentOK, present \subseteq Handles, [Next]_vars
    PROVE  \/ present' = present /\ used' = used
           \/ \E h \in Handles \ used : /\ Parent[h] \in present \cup {Root}
                                        /\ \A g \in present : Path[g] # Path[h]
                                        /\ present' = present \cup {h}
                                        /\ used' = used \cup {h}
           \/ \E h \in Handles : present' = present \ Below(h) /\ used' = used
           \/ present' = {} /\ used' = used
<1>1. CASE Deleted /\ used' = used
  <2>1. op.parent = Special => present' = {}
    BY <1>1 DEF Deleted, Victims
  <2>2. op.parent # Special => op.parent \in Handles /\ present' = present \ Below(op.parent)
    BY <1>1 DEF Deleted, Victims
  <2> QED
    BY <1>1, <2>1, <2>2
<1>2. CASE DeleteFile
  BY <1>1, <1>2 DEF DeleteFile, NotDeleted
<1>3. CASE RemoveDir
  BY <1>1, <1>3 DEF RemoveDir, NotDeleted
<1>4. CASE SendObject
  BY <1>4 DEF SendObject, New
<1>5. CASE Capture
  BY <1>5 DEF Capture, New
<1>6. CASE Vanish \/ RemoveCard
  BY <1>6 DEF Vanish, RemoveCard
<1>7. CASE Walk
  BY <1>7 DEF Walk, FindChild, NoChild, ScanObject, ScanAgain, ScanDone, camera
<1>8. CASE ListFolder
  BY <1>8 DEF ListFolder, FolderKnown, FetchHandles, camera
<1>9. CASE Events
  BY <1>9 DEF Events, NoEvent, ReadEvent, ListRoot, PopEvent, TimedOut, ReadAdded,
     ReadParent, ReportAdded, camera
<1>10. CASE InfoFound \/ Exists \/ Return
  BY <1>10 DEF InfoFound, Exists, Return, camera
<1>11. CASE Frontend
  BY <1>11 DEF Frontend, List, GetInfo, Delete, RemoveFolder, Upload, WaitForEvent,
     Begin, camera
<1>12. CASE UNCHANGED vars
  BY <1>12 DEF vars
<1> QED
  BY <1>2, <1>3, <1>4, <1>5, <1>6, <1>7, <1>8, <1>9, <1>10, <1>11, <1>12
     DEF Next, Driver, Act, Camera

\* The objects of the camera are a tree at all times.
Closed == \A h \in present : Parent[h] \in present \cup {Root}

LEMMA ClosedKept ==
    ASSUME ParentOK, ObjectsOK, Closed, [Next]_vars
    PROVE  Closed'
<1>1. CASE present' = present
  BY <1>1 DEF Closed
<1>2. CASE \E h \in Handles : /\ Parent[h] \in present \cup {Root}
                              /\ present' = present \cup {h}
  BY <1>2 DEF Closed
<1>3. ASSUME NEW h \in Handles, present' = present \ Below(h), NEW g \in present'
      PROVE  Parent[g] \in present' \cup {Root}
  <2>1. g \in Handles /\ h \notin Ancestors[g] /\ Parent[g] \in present \cup {Root}
    BY <1>3 DEF Below, Closed, ObjectsOK
  <2>2. Ancestors[g] = {g} \cup Ancestors[Parent[g]]
    BY <2>1, ForestFacts
  <2>3. Parent[g] \notin Below(h)
    BY <2>1, <2>2 DEF Below
  <2> QED
    BY <1>3, <2>1, <2>3
<1>4. CASE present' = {}
  BY <1>4 DEF Closed
<1>5. present \subseteq Handles
  BY DEF ObjectsOK
<1> QED
  BY <1>1, <1>2, <1>3, <1>4, <1>5, ObjectMoves DEF Closed

LEMMA ObjectsKept ==
    ASSUME ParentOK, ObjectsOK, [Next]_vars
    PROVE  ObjectsOK' /\ used \subseteq used'
<1>1. present' \subseteq used' /\ used' \subseteq Handles /\ used \subseteq used'
  BY ObjectMoves DEF ObjectsOK
<1>2. ASSUME NEW c, Good(c, used) PROVE Good(c, used')
  BY <1>1, <1>2 DEF Good
<1>3. Good(cache', used')
  <2>1. CASE cache' = cache \/ cache' = [h \in {} |-> Fresh]
    BY <1>2, <2>1, GoodEmpty DEF ObjectsOK
  <2>2. CASE \E h : cache' = Dropped(h)
    BY <1>2, <2>2, GoodDropped DEF ObjectsOK
  <2>3. CASE \E h \in present : cache' = Filled(h)
    BY <1>2, <2>3, GoodFilled DEF ObjectsOK
  <2>4. CASE \E h \in Handles \ used : cache' = Inserted(h) /\ used' = used \cup {h}
    BY <1>2, <2>4, GoodInserted DEF ObjectsOK
  <2>5. CASE cache' = Marked(op.parent)
    BY <1>2, <2>5, GoodMarked DEF ObjectsOK
  <2>6. CASE \E c \in {cache, Marked(op.parent)}, folder \in Handles \cup {Root},
                store \in BOOLEAN :
               cache' = Merged(c, Children(folder), folder, store)
    <3>1. PICK c \in {cache, Marked(op.parent)}, folder \in Handles \cup {Root},
               store \in BOOLEAN :
            cache' = Merged(c, Children(folder), folder, store)
      BY <2>6
    <3>2. Good(c, used)
      BY GoodMarked DEF ObjectsOK
    <3>3. Children(folder) \subseteq used /\ \A h \in Children(folder) : Parent[h] = folder
      BY DEF Children, ObjectsOK
    <3> QED
      BY <1>2, <3>1, <3>2, <3>3, GoodMerged DEF ObjectsOK
  <2> QED
    BY <2>1, <2>2, <2>3, <2>4, <2>5, <2>6, CacheMoves
<1> QED
  BY <1>1, <1>3 DEF ObjectsOK

(***************************************************************************)
(* Events and counters                                                      *)
(***************************************************************************)
WireOK == wire \in Seq(Event) /\ events \in Seq(Event)
CountOK == /\ vanished \in Nat /\ faults \in Nat /\ vanished + faults <= MaxTrouble
           /\ astray \in BOOLEAN

LEMMA TransactionWire ==
    ASSUME WireOK, Transaction
    PROVE  WireOK'
<1> DEFINE most == IF EventsInTransactions THEN Len(wire) ELSE 0
<1>0. Len(wire) \in Nat /\ most \in {0, Len(wire)}
  BY DEF WireOK
<1>1. PICK n \in 0 .. Len(wire) :
        /\ events' = events \o SubSeq(wire, 1, n)
        /\ wire' = SubSeq(wire, n + 1, Len(wire))
  <2>1. \E n \in 0 .. most : /\ events' = events \o SubSeq(wire, 1, n)
                             /\ wire' = SubSeq(wire, n + 1, Len(wire))
    BY DEF Transaction
  <2> HIDE DEF most
  <2>2. 0 .. most \subseteq 0 .. Len(wire)
    BY <1>0
  <2> QED
    BY <2>1, <2>2
<1>2. SubSeq(wire, 1, n) \in Seq(Event) /\ SubSeq(wire, n + 1, Len(wire)) \in Seq(Event)
  BY SubSeqProperties DEF WireOK
<1> QED
  BY <1>1, <1>2 DEF WireOK

\* What a step does to the events and the counters.
WireMove ==
    \/ Transaction \/ UNCHANGED <<wire, events>>
    \/ Camera /\ \E e \in Event : wire' = Append(wire, e) /\ events' = events
    \/ wire # <<>> /\ events' = Append(events, Head(wire)) /\ wire' = Tail(wire)
    \/ PopEvent /\ events # <<>> /\ events' = Tail(events) /\ wire' = wire
CountMove ==
    \/ UNCHANGED <<vanished, faults>>
    \/ Trouble /\ vanished' = vanished + 1 /\ faults' = faults
    \/ Trouble /\ faults' = faults + 1 /\ vanished' = vanished
AstrayMove ==
    astray' = astray \/ (DeleteFile /\ astray' = (astray \/ op.parent = Special))

LEMMA WireMoves ==
    [Next]_vars /\ present \subseteq Handles => WireMove /\ CountMove /\ AstrayMove
<1> SUFFICES ASSUME [Next]_vars, present \subseteq Handles
             PROVE  WireMove /\ CountMove /\ AstrayMove
  OBVIOUS
<1> USE DEF WireMove, CountMove, AstrayMove, Succeeds, Fails, Refused, camera
<1>1. CASE ListFolder
  BY <1>1 DEF ListFolder, FolderKnown, FetchHandles
<1>2. CASE Walk
  BY <1>2 DEF Walk, FindChild, NoChild, ScanObject, ScanAgain, ScanDone, Look, ReadInfo,
     NoTransaction
<1>3. CASE Act
  BY <1>3 DEF Act, InfoFound, DeleteFile, RemoveDir, Exists, SendObject, Deleted,
     NotDeleted
<1>4. CASE NoEvent \/ ReadEvent \/ ListRoot \/ PopEvent \/ TimedOut
  BY <1>4 DEF NoEvent, ReadEvent, ListRoot, PopEvent, TimedOut
<1>5. CASE ReadAdded \/ ReadParent \/ ReportAdded
  BY <1>5 DEF ReadAdded, ReadParent, ReportAdded, ReadInfo, NoTransaction
<1>6. CASE Return \/ Frontend
  BY <1>6 DEF Return, Frontend, List, GetInfo, Delete, RemoveFolder, Upload,
     WaitForEvent, Begin
<1>7. CASE Capture
  BY <1>7 DEF Capture, Event, Camera
<1>8. CASE Vanish
  BY <1>8 DEF Vanish, Event, Camera
<1>9. CASE RemoveCard
  BY <1>9 DEF RemoveCard, Event, Camera
<1>10. CASE UNCHANGED vars
  BY <1>10 DEF vars
<1> QED
  BY <1>1, <1>2, <1>3, <1>4, <1>5, <1>6, <1>7, <1>8, <1>9, <1>10
     DEF Next, Driver, Events, Camera

LEMMA WireKept ==
    ASSUME WireOK, CountOK, present \subseteq Handles, [Next]_vars
    PROVE  WireOK' /\ CountOK'
<1>1. WireOK'
  <2>1. CASE Transaction
    BY <2>1, TransactionWire
  <2>2. CASE UNCHANGED <<wire, events>>
    BY <2>2 DEF WireOK
  <2>3. CASE Camera /\ \E e \in Event : wire' = Append(wire, e) /\ events' = events
    BY <2>3 DEF WireOK
  <2>4. CASE wire # <<>> /\ events' = Append(events, Head(wire)) /\ wire' = Tail(wire)
    BY <2>4 DEF WireOK
  <2>5. CASE events # <<>> /\ events' = Tail(events) /\ wire' = wire
    BY <2>5 DEF WireOK
  <2> QED
    BY <2>1, <2>2, <2>3, <2>4, <2>5, WireMoves DEF WireMove
<1>2. CountOK'
  <2>1. vanished' \in Nat /\ faults' \in Nat /\ vanished' + faults' <= MaxTrouble
    BY WireMoves, ObjectsAssumption DEF CountMove, CountOK, Trouble
  <2>2. astray' \in BOOLEAN
    BY WireMoves DEF AstrayMove, CountOK
  <2> QED
    BY <2>1, <2>2 DEF CountOK
<1> QED
  BY <1>1, <1>2

(***************************************************************************)
(* The running operation                                                    *)
(***************************************************************************)
OpFields == {"kind", "path", "todo", "parent", "dest", "i", "redone", "got", "result",
             "last", "before"}
\* The paths of objects; the empty one is the root's.
Paths == Seq(Names) \ {<<>>}

OpOK ==
    /\ DOMAIN op = OpFields /\ op.kind \in Kinds
    /\ op.path \in Seq(Names) /\ op.todo \in Seq(Names)
    /\ op.got \subseteq Names
    /\ pc \in Phases /\ known \subseteq Paths

\* What is left to be looked up, under the folder that was found, is what was asked
\* for.
Position(o) == o.parent \in Handles \cup {Root} => Path[o.parent] \o o.todo = o.path
Looking == pc \in {"event", "folder", "find", "scan", "act", "rootall", "rootstore"}

\* What is known about the operation in each phase.
OpInv ==
    /\ Looking => Position(op)
    /\ pc = "find" => op.todo # <<>>
    /\ pc \in {"scan", "act"} => op.todo = <<>>
    /\ pc \in {"pop", "added", "path"} => op.kind = "wait"
    /\ pc = "added" => op.parent \in Handles
    /\ op.kind = "info" /\ Looking /\ pc # "act" => op.todo # <<>>
    /\ pc = "path" \/ op.kind \in Uploads => op.path # <<>>
    /\ pc # "return" => op.result = "none"
    /\ op.kind \in Listings =>
         \A n \in op.got : \E h \in used : Path[h] = Append(op.path, n)
    /\ pc = "return" /\ op.kind = "info" /\ op.result = "ok" => Path[op.parent] = op.path

\* An object that was reported or will be: its path is complete, or under the folder
\* that is read next, which is there if the object is.
AddedInv ==
    /\ pc = "path" =>
         /\ op.dest \in used /\ op.parent \in Handles \cup {Root}
         /\ Ancestors[op.parent] \subseteq Ancestors[op.dest]
         /\ op.dest \in present => op.parent \in present \cup {Root}
         /\ Path[op.parent] \o op.path = Path[op.dest]
    /\ op.result = "added" =>
         /\ op.dest \in used
         /\ op.dest \in present /\ faults = 0 => op.path = Path[op.dest]

ObjectsInv ==
    /\ ObjectsOK /\ Closed /\ WireOK /\ CountOK
    /\ ParentOK /\ OpOK /\ OpInv /\ AddedInv

\* The goal of each of the lemmas that follow.
OpGoal == ParentOK' /\ OpOK' /\ OpInv' /\ AddedInv'

LEMMA AppendConcat ==
    ASSUME NEW p \in Seq(Names), NEW x \in Names, NEW q \in Seq(Names)
    PROVE  Append(p, x) \o q = p \o (<<x>> \o q)
<1>1. <<x>> \in Seq(Names) /\ Append(p, x) = p \o <<x>>
  BY AppendIsConcat
<1>2. (p \o <<x>>) \o q = p \o (<<x>> \o q)
  BY <1>1, ConcatAssociative
<1> QED
  BY <1>1, <1>2

LEMMA PathStep ==
    ASSUME NEW h \in Handles, NEW todo \in Seq(Names), todo # <<>>, Name[h] = Head(todo)
    PROVE  Path[h] \o Tail(todo) = Path[Parent[h]] \o todo
<1> DEFINE p == Path[Parent[h]]
<1>1. p \in Seq(Names) /\ Path[h] = Append(p, Head(todo)) /\ Head(todo) \in Names
  BY ParentType, ForestFacts
<1>2. Tail(todo) \in Seq(Names) /\ todo = <<Head(todo)>> \o Tail(todo)
  BY HeadTailProperties
<1> HIDE DEF p
<1>3. Append(p, Head(todo)) \o Tail(todo) = p \o (<<Head(todo)>> \o Tail(todo))
  BY <1>1, <1>2, AppendConcat
<1>4. Path[h] \o Tail(todo) = p \o todo
  BY <1>1, <1>2, <1>3
<1> QED
  BY <1>4 DEF p

LEMMA DescendOp ==
    ASSUME NEW o, DOMAIN o = OpFields, NEW h, NEW todo
    PROVE  LET d == Descend(o, h, todo)
           IN  /\ DOMAIN d = OpFields /\ d.kind = o.kind /\ d.path = o.path
               /\ d.todo = todo /\ d.parent \in {h, Special} /\ d.got = o.got
               /\ d.result = o.result
BY DEF Descend, OpFields

LEMMA ReplyStep ==
    ASSUME ObjectsInv, NEW r \in {"ok", "error", "timeout"}, Reply(r),
           known' \subseteq Paths, used \subseteq used',
           op.kind = "info" /\ r = "ok" => Path[op.parent] = op.path
    PROVE  OpGoal
<1>1. /\ DOMAIN op' = OpFields /\ op'.kind = op.kind /\ op'.path = op.path
      /\ op'.todo = op.todo /\ op'.parent = op.parent /\ op'.got = op.got
      /\ op'.result = r /\ pc' = "return"
  BY DEF Reply, ObjectsInv, OpOK, OpFields
<1>2. ParentOK' /\ OpOK'
  BY <1>1 DEF ObjectsInv, ParentOK, OpOK, Phases
<1>3. OpInv'
  BY <1>1 DEF ObjectsInv, OpInv, Looking
<1>4. AddedInv'
  BY <1>1 DEF AddedInv
<1> QED
  BY <1>2, <1>3, <1>4 DEF OpGoal

LEMMA FoundStep ==
    ASSUME ObjectsInv, pc \in {"find", "folder"}, op.todo # <<>>, known' = known,
           used \subseteq used', NEW h \in Handles \cup {Special}, Found(h),
           h \in Handles => Parent[h] = op.parent /\ Name[h] = Head(op.todo)
    PROVE  OpGoal
<1>1. /\ DOMAIN op' = OpFields /\ op'.kind = op.kind /\ op'.path = op.path
      /\ op'.todo = Tail(op.todo) /\ op'.parent \in {h, Special} /\ op'.got = op.got
      /\ op'.result = op.result
  BY DescendOp DEF Found, ObjectsInv, OpOK
<1>2. /\ pc' \in {"act", "folder"}
      /\ pc' = "act" => Tail(op.todo) = <<>>
      /\ pc' = "folder" /\ op.kind = "info" => Tail(op.todo) # <<>>
  <2>1. /\ pc' \in {"act", "folder"} /\ (pc' = "act" => Len(op.todo) = 1)
        /\ pc' = "folder" /\ op.kind = "info" => Len(op.todo) # 1
    BY DEF Found, Listings
  <2>2. Len(op.todo) = 1 <=> Len(Tail(op.todo)) = 0 /\ Tail(op.todo) \in Seq(Names)
    BY HeadTailProperties DEF ObjectsInv, OpOK
  <2> QED
    BY <2>1, <2>2, EmptySeq
<1>3. ParentOK' /\ OpOK'
  BY <1>1, <1>2 DEF ObjectsInv, ParentOK, OpOK, Phases
<1>4. Position(op')
  <2> SUFFICES ASSUME op'.parent \in Handles \cup {Root}
               PROVE  Path[op'.parent] \o op'.todo = op'.path
    BY DEF Position
  <2>1. op'.parent = h /\ h \in Handles
    BY <1>1, ObjectsAssumption
  <2>2. Path[h] \o Tail(op.todo) = Path[op.parent] \o op.todo
    BY <2>1, PathStep DEF ObjectsInv, OpOK
  <2>3. op.parent \in Handles \cup {Root} /\ Looking
    BY <2>1, ParentType DEF Looking
  <2> QED
    BY <1>1, <2>1, <2>2, <2>3 DEF ObjectsInv, OpInv, Position
<1>5. OpInv'
  BY <1>1, <1>2, <1>4 DEF ObjectsInv, OpInv, Looking
<1>6. AddedInv'
  BY <1>1, <1>2 DEF ObjectsInv, OpInv, AddedInv
<1> QED
  BY <1>3, <1>5, <1>6 DEF OpGoal

\* Steps of a walk: the operation stays where it is.
LEMMA WalkStep ==
    ASSUME ObjectsInv, Looking, pc # "act", known' = known, used \subseteq used',
           pc' \in {"event", "folder", "find", "scan", "rootall", "rootstore"},
           pc' = "find" => op.todo # <<>>, pc' = "scan" => op.todo = <<>>,
           DOMAIN op' = OpFields, op'.kind = op.kind, op'.path = op.path,
           op'.todo = op.todo, op'.parent = op.parent, op'.result = op.result,
           op'.got \subseteq Names,
           op.kind \in Listings =>
             \A n \in op'.got : \E h \in used : Path[h] = Append(op.path, n)
    PROVE  OpGoal
<1>1. ParentOK' /\ OpOK'
  BY DEF ObjectsInv, ParentOK, OpOK, Phases
<1>2. Position(op')
  BY DEF ObjectsInv, OpInv, Position
<1>3. OpInv'
  <2>1. pc # "return" /\ pc' # "return"
    BY DEF Looking
  <2> QED
    BY <1>2, <2>1 DEF ObjectsInv, OpInv, Looking
<1>4. AddedInv'
  BY DEF ObjectsInv, OpInv, AddedInv, Looking
<1> QED
  BY <1>1, <1>3, <1>4 DEF OpGoal

LEMMA BeginStep ==
    ASSUME ObjectsInv, NEW kind \in Kinds, NEW path \in Seq(Names), Begin(kind, path),
           kind \in {"info"} \cup Uploads => path # <<>>
    PROVE  OpGoal
<1> DEFINE o == NewOp(kind, path)
<1>1. /\ DOMAIN o = OpFields /\ o.kind = kind /\ o.path = path /\ o.todo = path
      /\ o.got = {} /\ o.result = "none"
  BY DEF NewOp, OpFields
<1>2. op' = Descend(o, Root, path)
  BY DEF Begin
<1> HIDE DEF o
<1>3. /\ DOMAIN op' = OpFields /\ op'.kind = kind /\ op'.path = path /\ op'.todo = path
      /\ op'.parent \in {Root, Special} /\ op'.got = {} /\ op'.result = "none"
  BY <1>1, <1>2, DescendOp
<1>4. known' = known /\ pc' \in {"event", "folder"}
  BY DEF Begin
<1>5. ParentOK' /\ OpOK'
  BY <1>3, <1>4 DEF ObjectsInv, ParentOK, OpOK, Phases
<1>6. Position(op')
  <2>1. <<>> \o path = path
    BY ConcatEmptySeq
  <2>2. Root # Special
    BY ObjectsAssumption
  <2> QED
    BY <1>3, <2>1, <2>2, ForestFacts, ObjectsAssumption DEF Position
<1>7. OpInv'
  BY <1>3, <1>4, <1>6 DEF OpInv
<1>8. AddedInv'
  BY <1>3, <1>4 DEF AddedInv
<1> QED
  BY <1>5, <1>7, <1>8 DEF OpGoal

\* What a step of the camera leaves of the object that is being reported.
LEMMA CameraStep ==
    ASSUME ObjectsInv, [Next]_vars, Camera
    PROVE  OpGoal
<1>1. /\ UNCHANGED <<known, pc, op, faults>> /\ used \subseteq used'
      /\ \/ \E h \in Handles \ used : present' = present \cup {h}
         \/ \E h \in Handles : present' = present \ Below(h)
         \/ present' = {}
  BY DEF Camera, Capture, New, Vanish, RemoveCard, client, ObjectsInv, ObjectsOK
<1>2. ParentOK' /\ OpOK'
  BY <1>1 DEF ObjectsInv, ParentOK, OpOK
<1>3. OpInv'
  BY <1>1 DEF ObjectsInv, OpInv, Looking, Position
<1>4. ASSUME op.dest \in used PROVE op.dest \in present' => op.dest \in present
  BY <1>1, <1>4
<1>5. AddedInv'
  <2>1. CASE \E h \in Handles \ used : present' = present \cup {h}
    BY <1>1, <1>4, <2>1 DEF ObjectsInv, AddedInv
  <2>2. ASSUME NEW h \in Handles, present' = present \ Below(h), pc = "path",
               op.dest \in present'
        PROVE  op.parent \in present' \cup {Root}
    <3>1. /\ op.dest \in present /\ op.dest \notin Below(h)
          /\ Ancestors[op.parent] \subseteq Ancestors[op.dest]
          /\ op.parent \in present \cup {Root}
      BY <1>4, <2>2 DEF ObjectsInv, AddedInv
    <3>2. op.dest \in Handles
      BY <3>1 DEF ObjectsInv, ObjectsOK
    <3>3. op.parent \notin Below(h)
      BY <3>1, <3>2 DEF Below
    <3> QED
      BY <2>2, <3>1, <3>3
  <2>3. CASE \E h \in Handles : present' = present \ Below(h)
    BY <1>1, <1>4, <2>2, <2>3 DEF ObjectsInv, AddedInv
  <2>4. CASE present' = {}
    BY <1>1, <2>4 DEF ObjectsInv, AddedInv
  <2> QED
    BY <1>1, <2>1, <2>3, <2>4
<1> QED
  BY <1>2, <1>3, <1>5 DEF OpGoal

\* What a successful look at an object leaves: its parent is recorded.
LEMMA Looked ==
    ASSUME ObjectsInv, NEW h \in Cached, Look(h), InThisFolder(h)
    PROVE  h \in used /\ h \in Handles /\ Parent[h] = op.parent
<1>1. h \in used /\ used \subseteq Handles /\ present \subseteq used
  BY DEF ObjectsInv, ObjectsOK, Good, Cached
<1>2. CASE NeedsInfo(h)
  <2>1. h \in present /\ cache' = Filled(h)
    BY <1>2 DEF Look, ReadInfo
  <2> QED
    BY <1>1, <2>1, GoodFilled DEF ObjectsInv, ObjectsOK, InThisFolder
<1>3. CASE ~NeedsInfo(h)
  <2>1. cache' = cache /\ cache[h].parent # None
    BY <1>3 DEF Look, NoTransaction, NeedsInfo, Placed
  <2> QED
    BY <1>1, <2>1 DEF ObjectsInv, ObjectsOK, Good, Cached, InThisFolder
<1> QED
  BY <1>2, <1>3

LEMMA FindStep ==
    ASSUME ObjectsInv, used \subseteq used', FindChild
    PROVE  OpGoal
<1>1. pc = "find" /\ op.todo # <<>> /\ known' = known
  BY DEF FindChild, ObjectsInv, OpInv
<1>2. CASE Skip
  <2>1. op' = [op EXCEPT !.i = @ + 1] /\ pc' = pc
    BY <1>2 DEF Skip
  <2>2. /\ DOMAIN op' = OpFields /\ op'.kind = op.kind /\ op'.path = op.path
        /\ op'.todo = op.todo /\ op'.parent = op.parent /\ op'.got = op.got
        /\ op'.result = op.result
    BY <2>1 DEF ObjectsInv, OpOK, OpFields
  <2> QED
    BY <1>1, <2>1, <2>2, WalkStep DEF ObjectsInv, OpOK, OpInv, Looking
<1>3. CASE \E h \in Cached : /\ Look(h) /\ Found(h)
                             /\ InThisFolder(h) /\ Name[h] = Head(op.todo)
  BY <1>1, <1>3, Looked, FoundStep
<1> QED
  BY <1>2, <1>3 DEF FindChild

LEMMA ScanStep ==
    ASSUME ObjectsInv, used \subseteq used', ScanObject
    PROVE  OpGoal
<1>1. pc = "scan" /\ op.todo = <<>> /\ known' = known
  BY DEF ScanObject, ObjectsInv, OpInv
<1>2. CASE Reply("error")
  BY <1>1, <1>2, ReplyStep DEF ObjectsInv, OpOK
<1>3. CASE Skip
  <2>1. op' = [op EXCEPT !.i = @ + 1] /\ pc' = pc
    BY <1>3 DEF Skip
  <2>2. /\ DOMAIN op' = OpFields /\ op'.kind = op.kind /\ op'.path = op.path
        /\ op'.todo = op.todo /\ op'.parent = op.parent /\ op'.got = op.got
        /\ op'.result = op.result
    BY <2>1 DEF ObjectsInv, OpOK, OpFields
  <2> QED
    BY <1>1, <2>1, <2>2, WalkStep DEF ObjectsInv, OpOK, OpInv, Looking
<1>4. ASSUME NEW h \in Cached, Look(h), pc' = pc,
             op' = [op EXCEPT !.i = @ + 1,
                              !.got = IF Wanted(h) THEN @ \cup {Name[h]} ELSE @]
      PROVE  OpGoal
  <2> DEFINE got == IF Wanted(h) THEN op.got \cup {Name[h]} ELSE op.got
  <2>1. /\ DOMAIN op' = OpFields /\ op'.kind = op.kind /\ op'.path = op.path
        /\ op'.todo = op.todo /\ op'.parent = op.parent /\ op'.got = got
        /\ op'.result = op.result
    BY <1>4 DEF ObjectsInv, OpOK, OpFields
  <2>2. ASSUME Wanted(h) PROVE h \in used /\ h \in Handles /\ Path[h] = Append(op.path, Name[h])
    <3>1. h \in used /\ h \in Handles /\ Parent[h] = op.parent
      BY <1>4, <2>2, Looked DEF Wanted
    <3>2. Position(op) /\ op.parent \in Handles \cup {Root}
      BY <1>1, <3>1, ParentType DEF ObjectsInv, OpInv, Looking
    <3>3. Path[op.parent] = op.path
      BY <1>1, <3>2, ForestFacts, ConcatEmptySeq DEF Position
    <3> QED
      BY <3>1, <3>3, ForestFacts
  <2>3. got \subseteq Names
    BY <2>2 DEF ObjectsInv, OpOK, Names
  <2>4. op.kind \in Listings =>
          \A n \in got : \E g \in used : Path[g] = Append(op.path, n)
    BY <2>2 DEF ObjectsInv, OpInv
  <2> HIDE DEF got
  <2> QED
    BY <1>1, <1>4, <2>1, <2>3, <2>4, WalkStep DEF Looking
<1> QED
  BY <1>2, <1>3, <1>4 DEF ScanObject

LEMMA FolderStep ==
    ASSUME ObjectsInv, used \subseteq used', ListFolder
    PROVE  OpGoal
<1>1. pc = "folder" /\ known' = known
  BY DEF ListFolder, FolderKnown, FetchHandles
<1>2. CASE FolderListed
  <2>1. op' = [op EXCEPT !.i = 0] /\ pc' = IF op.todo = <<>> THEN "scan" ELSE "find"
    BY <1>2 DEF FolderListed
  <2>2. /\ DOMAIN op' = OpFields /\ op'.kind = op.kind /\ op'.path = op.path
        /\ op'.todo = op.todo /\ op'.parent = op.parent /\ op'.got = op.got
        /\ op'.result = op.result
    BY <2>1 DEF ObjectsInv, OpOK, OpFields
  <2> QED
    BY <1>1, <2>1, <2>2, WalkStep DEF ObjectsInv, OpOK, OpInv, Looking
<1>3. CASE FolderFailed /\ op.todo = <<>>
  BY <1>1, <1>3, ReplyStep DEF FolderFailed, ObjectsInv, OpOK
<1>4. CASE FolderFailed /\ op.todo # <<>>
  BY <1>1, <1>4, FoundStep, ObjectsAssumption DEF FolderFailed
<1> QED
  BY <1>2, <1>3, <1>4 DEF ListFolder, FolderKnown, FetchHandles

LEMMA EndOfWalkStep ==
    ASSUME ObjectsInv, used \subseteq used', NoChild \/ ScanAgain \/ ScanDone
    PROVE  OpGoal
<1>1. CASE NoChild
  BY <1>1, FoundStep, ObjectsAssumption DEF NoChild, ObjectsInv, OpInv
<1>2. CASE ScanAgain
  <2>1. /\ op' = [op EXCEPT !.i = 0, !.got = {}, !.redone = TRUE,
                            !.last = Cardinality(Cached)]
        /\ pc = "scan" /\ pc' = pc /\ known' = known
    BY <1>2 DEF ScanAgain
  <2>2. /\ DOMAIN op' = OpFields /\ op'.kind = op.kind /\ op'.path = op.path
        /\ op'.todo = op.todo /\ op'.parent = op.parent /\ op'.got = {}
        /\ op'.result = op.result
    BY <2>1 DEF ObjectsInv, OpOK, OpFields
  <2> QED
    BY <2>1, <2>2, WalkStep DEF ObjectsInv, OpOK, OpInv, Looking
<1>3. CASE ScanDone
  <2>1. /\ known' = known \cup {Append(op.path, n) : n \in op.got}
        /\ pc = "scan" /\ Reply("ok")
    BY <1>3 DEF ScanDone
  <2>2. \A n \in op.got : Append(op.path, n) \in Paths
    BY DEF ObjectsInv, OpOK, Paths
  <2>3. known' \subseteq Paths
    BY <2>1, <2>2 DEF ObjectsInv, OpOK
  <2>4. op.kind # "info"
    BY <2>1 DEF ObjectsInv, OpInv, Looking
  <2> QED
    BY <2>1, <2>3, <2>4, ReplyStep
<1> QED
  BY <1>1, <1>2, <1>3

LEMMA ActStep ==
    ASSUME ObjectsInv, used \subseteq used', Act
    PROVE  OpGoal
<1>1. pc = "act" /\ op.todo = <<>>
  BY DEF Act, InfoFound, DeleteFile, RemoveDir, Exists, SendObject, ObjectsInv, OpInv
<1>2. CASE InfoFound
  <2>1. CASE op.parent = Special
    BY <1>2, <2>1, ReplyStep DEF InfoFound, ObjectsInv, OpOK
  <2>2. CASE op.parent # Special
    <3>1. op.parent \in Handles \cup {Root} /\ Position(op)
      BY <1>1, <2>2 DEF ObjectsInv, ParentOK, OpInv, Looking
    <3>2. Path[op.parent] = op.path
      BY <1>1, <3>1, ForestFacts, ConcatEmptySeq DEF Position
    <3> QED
      BY <1>2, <2>2, <3>2, ReplyStep DEF InfoFound, ObjectsInv, OpOK
  <2> QED
    BY <2>1, <2>2
<1>3. op.path \in Seq(Names)
  BY DEF ObjectsInv, OpOK
<1>4. CASE DeleteFile \/ RemoveDir \/ Exists \/ SendObject
  <2>1. op.kind # "info" /\ (Reply("ok") \/ Reply("error"))
    BY <1>4 DEF DeleteFile, RemoveDir, Exists, SendObject, Deleted, NotDeleted,
       Removals, Uploads
  <2>2. known' \subseteq known \/ (op.kind \in Uploads /\ known' \subseteq known \cup {op.path})
    BY <1>4 DEF DeleteFile, RemoveDir, Exists, SendObject, Deleted, NotDeleted, Forget
  <2>3. known' \subseteq Paths
    BY <1>3, <2>2 DEF ObjectsInv, OpOK, OpInv, Paths
  <2> QED
    BY <2>1, <2>3, ReplyStep
<1> QED
  BY <1>2, <1>4 DEF Act

LEMMA FrontendStep ==
    ASSUME ObjectsInv, Frontend
    PROVE  OpGoal
<1>1. known \subseteq Paths /\ <<>> \in Seq(Names)
  BY DEF ObjectsInv, OpOK
<1>2. \A h \in Handles : Path[h] \in Paths
  BY ForestFacts, ParentType DEF Paths
<1> USE DEF Kinds, Listings, Removals, Uploads, Paths
<1>3. CASE List
  BY <1>1, <1>3, BeginStep DEF List
<1>4. CASE GetInfo \/ Delete \/ RemoveFolder
  BY <1>1, <1>4, BeginStep DEF GetInfo, Delete, RemoveFolder
<1>5. CASE Upload
  BY <1>2, <1>5, BeginStep DEF Upload
<1>6. CASE WaitForEvent
  BY <1>1, <1>6, BeginStep DEF WaitForEvent
<1> QED
  BY <1>3, <1>4, <1>5, <1>6 DEF Frontend

LEMMA ReturnStep ==
    ASSUME ObjectsInv, Return
    PROVE  OpGoal
<1>1. /\ DOMAIN NoOp = OpFields /\ NoOp.kind = "init" /\ NoOp.path = <<>>
      /\ NoOp.todo = <<>> /\ NoOp.parent = Root /\ NoOp.got = {}
      /\ NoOp.result = "none"
  BY DEF NoOp, OpFields
<1>2. pc' = "idle" /\ op' = NoOp /\ known' = known
  BY DEF Return
<1>3. ParentOK' /\ OpOK'
  <2>1. "init" \in Kinds /\ "idle" \in Phases /\ <<>> \in Seq(Names)
    BY DEF Kinds, Phases
  <2>2. known' \subseteq Paths
    BY <1>2 DEF ObjectsInv, OpOK
  <2> QED
    BY <1>1, <1>2, <2>1, <2>2 DEF ParentOK, OpOK
<1>4. OpInv' /\ AddedInv'
  BY <1>1, <1>2 DEF OpInv, AddedInv, Looking, Listings, Uploads
<1> QED
  BY <1>3, <1>4 DEF OpGoal

\* An object whose info is there, or was read just now, has its parent recorded.
Known(h) == IF HasInfo(h) THEN NoTransaction ELSE ReadInfo(h)

LEMMA KnownParent ==
    ASSUME ObjectsInv, NEW h, Known(h)
    PROVE  h \in Handles /\ h \in used /\ cache'[h].parent = Parent[h]
<1>1. used \subseteq Handles /\ present \subseteq used
  BY DEF ObjectsInv, ObjectsOK
<1>2. CASE HasInfo(h)
  BY <1>1, <1>2 DEF Known, HasInfo, NoTransaction, ObjectsInv, ObjectsOK, Good, Cached
<1>3. CASE ~HasInfo(h)
  BY <1>1, <1>3, GoodFilled DEF Known, ReadInfo, ObjectsInv, ObjectsOK
<1> QED
  BY <1>2, <1>3

LEMMA EventStep ==
    ASSUME ObjectsInv, used \subseteq used', NoEvent \/ ReadEvent \/ ListRoot
    PROVE  OpGoal
<1>1. /\ pc \in {"event", "rootall", "rootstore"} /\ op' = op /\ known' = known
      /\ pc' \in {"rootall", "rootstore", "idle", NextPhase}
  BY DEF NoEvent, ReadEvent, ListRoot
<1>2. CASE pc' \in {"rootall", "rootstore", "folder"}
  BY <1>1, <1>2, WalkStep DEF ObjectsInv, OpOK, OpInv, Looking
<1>3. CASE pc' = "idle" \/ (pc' = "pop" /\ op.kind = "wait")
  <2>1. ParentOK' /\ OpOK'
    BY <1>1, <1>3 DEF ObjectsInv, ParentOK, OpOK, Phases
  <2>2. OpInv' /\ AddedInv'
    BY <1>1, <1>3 DEF ObjectsInv, OpInv, AddedInv, Looking
  <2> QED
    BY <2>1, <2>2 DEF OpGoal
<1>4. NextPhase = "folder" \/ (NextPhase = "pop" /\ op.kind = "wait")
  BY DEF NextPhase
<1> QED
  BY <1>1, <1>2, <1>3, <1>4

LEMMA PopStep ==
    ASSUME ObjectsInv, used \subseteq used', PopEvent \/ TimedOut
    PROVE  OpGoal
<1>1. pc = "pop" /\ op.kind = "wait"
  BY DEF PopEvent, TimedOut, ObjectsInv, OpInv
<1>2. CASE Reply("ok") \/ Reply("timeout")
  <2>1. known' \subseteq known
    BY <1>2 DEF PopEvent, TimedOut, Reply
  <2> QED
    BY <1>1, <1>2, <2>1, ReplyStep DEF ObjectsInv, OpOK
<1>3. CASE ~(Reply("ok") \/ Reply("timeout"))
  <2>1. /\ PopEvent /\ events # <<>> /\ Head(events).type = "Added" /\ pc' = "added"
        /\ op' = [op EXCEPT !.parent = Head(events).handle] /\ known' = known
    BY <1>3 DEF PopEvent, TimedOut
  <2>2. Head(events) \in Event
    BY <2>1, HeadTailProperties DEF ObjectsInv, WireOK
  <2>3. Head(events).handle \in Handles
    BY <2>1, <2>2 DEF Event
  <2>4. /\ DOMAIN op' = OpFields /\ op'.kind = op.kind /\ op'.path = op.path
        /\ op'.todo = op.todo /\ op'.got = op.got /\ op'.result = op.result
        /\ op'.parent = Head(events).handle
    BY <2>1 DEF ObjectsInv, OpOK, OpFields
  <2>5. ParentOK' /\ OpOK'
    BY <2>1, <2>3, <2>4 DEF ObjectsInv, ParentOK, OpOK, Phases
  <2>6. OpInv' /\ AddedInv'
    BY <1>1, <2>1, <2>3, <2>4
       DEF ObjectsInv, OpInv, AddedInv, Looking, Listings, Uploads
  <2> QED
    BY <2>5, <2>6 DEF OpGoal
<1> QED
  BY <1>2, <1>3

LEMMA ReadAddedStep ==
    ASSUME ObjectsInv, used \subseteq used', ReadAdded
    PROVE  OpGoal
<1>1. pc = "added" /\ op.kind = "wait" /\ known' = known /\ op.result = "none"
  BY DEF ReadAdded, ObjectsInv, OpInv
<1>2. CASE Reply("error")
  BY <1>1, <1>2, ReplyStep DEF ObjectsInv, OpOK
<1>3. CASE ~Reply("error")
  <2> DEFINE d == op.parent
  <2>1. /\ Known(d) /\ pc' = "path" /\ present' = present
        /\ op' = [op EXCEPT !.dest = d, !.path = <<Name[d]>>, !.parent = cache'[d].parent]
    BY <1>3 DEF ReadAdded, Known, camera
  <2>2. d \in Handles /\ d \in used /\ cache'[d].parent = Parent[d]
    BY <2>1, KnownParent
  <2>3. /\ DOMAIN op' = OpFields /\ op'.kind = op.kind /\ op'.path = <<Name[d]>>
        /\ op'.todo = op.todo /\ op'.got = op.got /\ op'.result = op.result
        /\ op'.parent = Parent[d] /\ op'.dest = d
    BY <2>1, <2>2 DEF ObjectsInv, OpOK, OpFields
  <2> HIDE DEF d
  <2>4. Parent[d] \in Handles \cup {Root} /\ <<Name[d]>> \in Paths
    BY <2>2, ParentType DEF Paths, Names
  <2>5. ParentOK' /\ OpOK'
    BY <1>1, <2>1, <2>3, <2>4 DEF ObjectsInv, ParentOK, OpOK, Phases, Paths
  <2>6. OpInv'
    BY <1>1, <2>1, <2>3, <2>4 DEF ObjectsInv, OpInv, Looking, Listings, Paths
  <2>7. Path[Parent[d]] \o <<Name[d]>> = Path[d]
    <3>1. Path[Parent[d]] \in Seq(Names) /\ Name[d] \in Names
      BY <2>2, <2>4, ForestFacts DEF Names
    <3>2. Append(Path[Parent[d]], Name[d]) = Path[Parent[d]] \o <<Name[d]>>
      BY <3>1, AppendIsConcat
    <3> QED
      BY <2>2, <3>2, ForestFacts
  <2>8. Ancestors[Parent[d]] \subseteq Ancestors[d]
    BY <2>2, ForestFacts
  <2>9. d \in present => Parent[d] \in present \cup {Root}
    BY DEF ObjectsInv, Closed
  <2>10. AddedInv'
    BY <1>1, <2>1, <2>2, <2>3, <2>4, <2>7, <2>8, <2>9 DEF AddedInv
  <2> QED
    BY <2>5, <2>6, <2>10 DEF OpGoal
<1> QED
  BY <1>2, <1>3

LEMMA ReadParentStep ==
    ASSUME ObjectsInv, used \subseteq used', ReadParent
    PROVE  OpGoal
<1> DEFINE f == op.parent
<1>1. /\ pc = "path" /\ op.kind = "wait" /\ op.result = "none" /\ f # Root
      /\ UNCHANGED <<known, pc, present>>
  BY DEF ReadParent, ObjectsInv, OpInv, camera
<1>2. /\ Known(f)
      /\ op' = [op EXCEPT !.path = <<Name[f]>> \o @, !.parent = cache'[f].parent]
  BY DEF ReadParent, Known
<1>3. f \in Handles /\ f \in used /\ cache'[f].parent = Parent[f]
  BY <1>2, KnownParent
<1>4. /\ DOMAIN op' = OpFields /\ op'.kind = op.kind /\ op'.path = <<Name[f]>> \o op.path
      /\ op'.todo = op.todo /\ op'.got = op.got /\ op'.result = op.result
      /\ op'.parent = Parent[f] /\ op'.dest = op.dest
  BY <1>2, <1>3 DEF ObjectsInv, OpOK, OpFields
<1>5. /\ op.dest \in used /\ Ancestors[f] \subseteq Ancestors[op.dest]
      /\ op.dest \in present => f \in present
      /\ Path[f] \o op.path = Path[op.dest]
  BY <1>1 DEF ObjectsInv, AddedInv
<1>6. op.path \in Seq(Names)
  BY DEF ObjectsInv, OpOK
<1> HIDE DEF f
<1>7. /\ Parent[f] \in Handles \cup {Root} /\ Name[f] \in Names
      /\ Path[Parent[f]] \in Seq(Names)
  BY <1>3, ParentType, ForestFacts DEF Names
<1>8. <<Name[f]>> \o op.path \in Paths
  BY <1>6, <1>7 DEF Paths
<1>9. ParentOK' /\ OpOK'
  BY <1>1, <1>4, <1>7, <1>8 DEF ObjectsInv, ParentOK, OpOK, Phases, Paths
<1>10. OpInv'
  BY <1>1, <1>4, <1>7, <1>8 DEF ObjectsInv, OpInv, Looking, Listings, Paths
<1>11. Path[Parent[f]] \o (<<Name[f]>> \o op.path) = Path[op.dest]
  <2> DEFINE p == Path[Parent[f]]
  <2>1. Path[f] = Append(p, Name[f]) /\ p \in Seq(Names)
    BY <1>3, <1>7, ForestFacts
  <2> HIDE DEF p
  <2>2. Append(p, Name[f]) \o op.path = p \o (<<Name[f]>> \o op.path)
    BY <1>6, <1>7, <2>1, AppendConcat
  <2>3. p \o (<<Name[f]>> \o op.path) = Path[op.dest]
    BY <1>5, <2>1, <2>2
  <2> QED
    BY <2>3 DEF p
<1>12. Ancestors[Parent[f]] \subseteq Ancestors[f]
  BY <1>3, ForestFacts
<1>13. f \in present => Parent[f] \in present \cup {Root}
  BY DEF ObjectsInv, Closed
<1>14. AddedInv'
  BY <1>1, <1>4, <1>5, <1>7, <1>11, <1>12, <1>13 DEF AddedInv
<1> QED
  BY <1>9, <1>10, <1>14 DEF OpGoal

LEMMA ReportStep ==
    ASSUME ObjectsInv, used \subseteq used', ReportAdded
    PROVE  OpGoal
<1> DEFINE path == IF op.parent = Root THEN op.path ELSE <<Name[op.dest]>>
<1>1. /\ pc = "path" /\ op.kind = "wait" /\ pc' = "return" /\ present' = present
      /\ op' = [op EXCEPT !.result = "added", !.path = path]
      /\ known' \in {{}, known \cup {path}}
  BY DEF ReportAdded, ObjectsInv, OpInv, camera
<1>2. /\ DOMAIN op' = OpFields /\ op'.kind = op.kind /\ op'.path = path
      /\ op'.todo = op.todo /\ op'.got = op.got /\ op'.result = "added"
      /\ op'.parent = op.parent /\ op'.dest = op.dest
  BY <1>1 DEF ObjectsInv, OpOK, OpFields
<1>3. /\ op.dest \in used /\ op.dest \in Handles /\ op.parent \in Handles \cup {Root}
      /\ op.dest \in present => op.parent \in present \cup {Root}
      /\ Path[op.parent] \o op.path = Path[op.dest]
      /\ op.path \in Seq(Names) /\ op.path # <<>>
  BY <1>1 DEF ObjectsInv, ObjectsOK, AddedInv, OpOK, OpInv
<1>4. path \in Paths
  BY <1>3 DEF Paths, Names
<1>5. op.dest \in present /\ faults' = 0 => path = Path[op.dest]
  <2>1. CASE op.parent = Root
    BY <1>3, <2>1, ForestFacts, ConcatEmptySeq
  <2>2. CASE op.parent # Root
    <3>1. op.parent \notin present \/ faults' = faults + 1
      BY <2>2 DEF ReportAdded, Refused, Fails
    <3>2. faults \in Nat
      BY DEF ObjectsInv, CountOK
    <3> QED
      BY <1>3, <2>2, <3>1, <3>2
  <2> QED
    BY <2>1, <2>2
<1> HIDE DEF path
<1>6. known' \subseteq Paths
  BY <1>1, <1>4 DEF ObjectsInv, OpOK
<1>7. ParentOK' /\ OpOK'
  BY <1>1, <1>2, <1>4, <1>6 DEF ObjectsInv, ParentOK, OpOK, Phases, Paths
<1>8. OpInv'
  BY <1>1, <1>2 DEF OpInv, Looking, Listings, Uploads
<1>9. AddedInv'
  BY <1>1, <1>2, <1>3, <1>5 DEF AddedInv
<1> QED
  BY <1>7, <1>8, <1>9 DEF OpGoal

(***************************************************************************)
(* Theorems                                                                 *)
(***************************************************************************)
LEMMA ObjectsInvKept == ObjectsInv /\ [Next]_vars => ObjectsInv'
<1> SUFFICES ASSUME ObjectsInv, [Next]_vars PROVE ObjectsInv'
  OBVIOUS
<1>1. ObjectsOK' /\ used \subseteq used' /\ Closed'
  BY ObjectsKept, ClosedKept DEF ObjectsInv
<1>2. WireOK' /\ CountOK'
  BY WireKept DEF ObjectsInv, ObjectsOK
<1>3. OpGoal
  <2>1. CASE UNCHANGED vars
    <3>1. ParentOK' /\ OpOK'
      BY <2>1 DEF vars, ObjectsInv, ParentOK, OpOK
    <3>2. OpInv'
      BY <2>1 DEF vars, ObjectsInv, OpInv, Looking, Position
    <3>3. AddedInv'
      BY <2>1 DEF vars, ObjectsInv, AddedInv
    <3> QED
      BY <3>1, <3>2, <3>3 DEF OpGoal
  <2>2. CASE Walk
    BY <1>1, <2>2, FindStep, ScanStep, EndOfWalkStep DEF Walk
  <2>3. CASE Events
    BY <1>1, <2>3, EventStep, PopStep, ReadAddedStep, ReadParentStep, ReportStep
       DEF Events
  <2> QED
    BY <1>1, <2>1, <2>2, <2>3, FolderStep, ActStep, ReturnStep, FrontendStep,
       CameraStep DEF Next, Driver
<1> QED
  BY <1>1, <1>2, <1>3 DEF OpGoal, ObjectsInv

LEMMA ObjectsInvStarts == Init => ObjectsInv
<1> SUFFICES ASSUME Init PROVE ObjectsInv
  OBVIOUS
<1>1. ObjectsOK /\ Closed
  <2>1. cache = [h \in {} |-> Fresh] /\ present = InitialObjects /\ used = InitialObjects
    BY DEF Init
  <2> QED
    BY <2>1, GoodEmpty, ObjectsAssumption, ForestFacts DEF ObjectsOK, Closed
<1>2. WireOK /\ CountOK
  <2>1. vanished + faults <= MaxTrouble /\ WireOK
    BY ObjectsAssumption DEF Init, WireOK
  <2>2. vanished \in Nat /\ faults \in Nat /\ astray \in BOOLEAN
    BY DEF Init
  <2> QED
    BY <2>1, <2>2 DEF CountOK
<1>3. /\ DOMAIN NoOp = OpFields /\ NoOp.kind = "init" /\ NoOp.path = <<>>
      /\ NoOp.todo = <<>> /\ NoOp.parent = Root /\ NoOp.got = {}
      /\ NoOp.result = "none"
  BY DEF NoOp, OpFields
<1>4. op = NoOp /\ pc = "rootall" /\ known = {}
  BY DEF Init
<1>5. "init" \in Kinds /\ "rootall" \in Phases /\ <<>> \in Seq(Names)
  BY DEF Kinds, Phases
<1>6. ParentOK /\ OpOK
  BY <1>3, <1>4, <1>5 DEF ParentOK, OpOK
<1>7. Position(op)
  BY <1>3, <1>4, <1>5, ForestFacts, ConcatEmptySeq DEF Position
<1>8. OpInv /\ AddedInv
  BY <1>3, <1>4, <1>7 DEF OpInv, AddedInv, Looking, Listings, Uploads
<1> QED
  BY <1>1, <1>2, <1>6, <1>8 DEF ObjectsInv

LEMMA ObjectsInvAlways == Spec => []ObjectsInv
BY ObjectsInvStarts, ObjectsInvKept, PTL DEF Spec

\* Type correctness of the object cache, for any tree of objects.
THEOREM ObjectsTypes == Spec => []TypeOK
<1>1. ObjectsInv => TypeOK
  BY DEF ObjectsInv, TypeOK, ObjectsOK, Good, Cached, WireOK, CountOK, ParentOK, OpOK
<1> QED
  BY <1>1, ObjectsInvAlways, PTL

\* The parent recorded for an object is its folder (ptp_list_folder,
\* ptp_object_want).
THEOREM ParentsAreTrue == Spec => []ParentsTrue
<1>1. ObjectsInv => ParentsTrue
  BY DEF ObjectsInv, ObjectsOK, Good, Cached, ParentsTrue
<1> QED
  BY <1>1, ObjectsInvAlways, PTL

\* Listings, get_info and reports of new objects speak of the object that was asked
\* for (file_list_func, folder_list_func, get_info_func, find_child,
\* get_folder_from_handle).
THEOREM AnswersAreTrue == Spec => []AnswersTrue
<1>1. ObjectsInv => AnswersTrue
  BY DEF ObjectsInv, OpInv, AddedInv, AnswersTrue
<1> QED
  BY <1>1, ObjectsInvAlways, PTL

(***************************************************************************)
(* Loaded folders                                                           *)
(***************************************************************************)
\* The events on their way, sent or queued.
Queue == Range(wire) \cup Range(events)
Added(h) == [type |-> "Added", handle |-> h]
Removed(h) == [type |-> "Removed", handle |-> h]

LEMMA RangeAppend ==
    ASSUME NEW S, NEW s \in Seq(S), NEW x \in S
    PROVE  Range(Append(s, x)) = Range(s) \cup {x}
<1>1. Append(s, x) = s \o <<x>> /\ <<x>> \in Seq(S)
  BY AppendIsConcat
<1>2. Range(<<x>>) = {x}
  BY DEF Range
<1>3. Range(s \o <<x>>) = Range(s) \cup Range(<<x>>)
  BY <1>1, RangeConcatenation
<1> QED
  BY <1>1, <1>2, <1>3

LEMMA RangeTail ==
    ASSUME NEW S, NEW s \in Seq(S), s # <<>>
    PROVE  Range(s) = Range(Tail(s)) \cup {Head(s)}
<1>1. /\ Tail(s) \in Seq(S) /\ Head(s) \in S /\ <<Head(s)>> \in Seq(S)
      /\ s = <<Head(s)>> \o Tail(s)
  BY HeadTailProperties
<1>2. Range(<<Head(s)>>) = {Head(s)}
  BY DEF Range
<1>3. Range(<<Head(s)>> \o Tail(s)) = Range(<<Head(s)>>) \cup Range(Tail(s))
  <2> DEFINE a == <<Head(s)>>
             b == Tail(s)
  <2>1. a \in Seq(S) /\ b \in Seq(S)
    BY <1>1
  <2> HIDE DEF a, b
  <2>2. Range(a \o b) = Range(a) \cup Range(b)
    BY ONLY <2>1, RangeConcatenation
  <2> QED
    BY <2>2 DEF a, b
<1> QED
  BY <1>1, <1>2, <1>3

LEMMA RangeSplit ==
    ASSUME NEW S, NEW s \in Seq(S), NEW n \in 0 .. Len(s)
    PROVE  Range(s) = Range(SubSeq(s, 1, n)) \cup Range(SubSeq(s, n + 1, Len(s)))
<1> DEFINE a == SubSeq(s, 1, n)
           b == SubSeq(s, n + 1, Len(s))
<1>1. /\ a \in Seq(S) /\ Len(a) = n /\ \A i \in 1 .. n : a[i] = s[i]
      /\ b \in Seq(S) /\ Len(b) = Len(s) - n
      /\ \A i \in 1 .. Len(s) - n : b[i] = s[i + n]
  BY SubSeqProperties
<1>2. /\ Range(a) = {a[i] : i \in 1 .. Len(a)} /\ Range(b) = {b[i] : i \in 1 .. Len(b)}
      /\ Range(s) = {s[i] : i \in 1 .. Len(s)}
  BY <1>1, RangeEquality
<1> HIDE DEF a, b
<1>3. ASSUME NEW i \in 1 .. Len(s) PROVE s[i] \in Range(a) \cup Range(b)
  <2>1. CASE i <= n
    BY <1>1, <1>2, <2>1
  <2>2. CASE i > n
    <3>1. i - n \in 1 .. Len(b) /\ b[i - n] = s[i]
      BY <1>1, <2>2
    <3> QED
      BY <1>2, <3>1
  <2> QED
    BY <2>1, <2>2
<1>4. \A i \in 1 .. Len(a) : i \in 1 .. Len(s) /\ a[i] = s[i]
  BY <1>1
<1>5. \A i \in 1 .. Len(b) : i + n \in 1 .. Len(s) /\ b[i] = s[i + n]
  BY <1>1
<1>6. Range(s) = Range(a) \cup Range(b)
  BY <1>2, <1>3, <1>4, <1>5
<1> QED
  BY <1>6 DEF a, b

\* An event is lost only by being handled.
LEMMA QueueMoves ==
    ASSUME WireOK, WireMove
    PROVE  \/ Queue' = Queue
           \/ /\ Camera
              /\ \E e \in Event : wire' = Append(wire, e) /\ Queue' = Queue \cup {e}
           \/ PopEvent /\ Queue = Queue' \cup {Head(events)}
<1>1. CASE Transaction
  <2> DEFINE most == IF EventsInTransactions THEN Len(wire) ELSE 0
  <2>1. PICK n \in 0 .. most : /\ events' = events \o SubSeq(wire, 1, n)
                               /\ wire' = SubSeq(wire, n + 1, Len(wire))
    BY <1>1 DEF Transaction
  <2>2. Len(wire) \in Nat /\ most \in {0, Len(wire)}
    BY DEF WireOK
  <2>3. 0 .. most \subseteq 0 .. Len(wire)
    BY <2>2
  <2>4. n \in 0 .. Len(wire)
    BY <2>3
  <2> HIDE DEF most
  <2>5. Range(wire) = Range(SubSeq(wire, 1, n)) \cup Range(wire')
    BY <2>1, <2>4, RangeSplit DEF WireOK
  <2>6. SubSeq(wire, 1, n) \in Seq(Event)
    BY <2>4, SubSeqProperties DEF WireOK
  <2>7. Range(events') = Range(events) \cup Range(SubSeq(wire, 1, n))
    <3> DEFINE read == SubSeq(wire, 1, n)
    <3>1. events \in Seq(Event) /\ read \in Seq(Event) /\ events' = events \o read
      BY <2>1, <2>6 DEF WireOK
    <3> HIDE DEF read
    <3>2. Range(events \o read) = Range(events) \cup Range(read)
      BY ONLY <3>1, RangeConcatenation
    <3> QED
      BY <3>1, <3>2 DEF read
  <2> QED
    BY <2>5, <2>7 DEF Queue
<1>2. CASE UNCHANGED <<wire, events>>
  BY <1>2 DEF Queue
<1>3. CASE Camera /\ \E e \in Event : wire' = Append(wire, e) /\ events' = events
  BY <1>3, RangeAppend DEF Queue, WireOK
<1>4. CASE wire # <<>> /\ events' = Append(events, Head(wire)) /\ wire' = Tail(wire)
  <2>1. Head(wire) \in Event
    BY <1>4 DEF WireOK
  <2>2. Range(wire) = Range(Tail(wire)) \cup {Head(wire)}
    BY <1>4, RangeTail DEF WireOK
  <2>3. Range(events') = Range(events) \cup {Head(wire)}
    BY <1>4, <2>1, RangeAppend DEF WireOK
  <2> QED
    BY <1>4, <2>2, <2>3 DEF Queue
<1>5. CASE PopEvent /\ events # <<>> /\ events' = Tail(events) /\ wire' = wire
  BY <1>5, RangeTail DEF Queue, WireOK
<1> QED
  BY <1>1, <1>2, <1>3, <1>4, <1>5 DEF WireMove

\* A handle whose removal was announced is gone for good.
RemovedGone == \A h \in Handles : Removed(h) \in Queue => h \in used /\ h \notin present

LEMMA RemovedGoneKept ==
    ASSUME ObjectsInv, RemovedGone, [Next]_vars
    PROVE  RemovedGone'
<1> SUFFICES ASSUME NEW h \in Handles, Removed(h) \in Queue'
             PROVE  h \in used' /\ h \notin present'
  BY DEF RemovedGone, Removed
<1>1. present \subseteq used /\ used \subseteq used' /\ used \subseteq Handles
  BY ObjectsKept DEF ObjectsInv, ObjectsOK
<1>2. CASE Removed(h) \in Queue
  <2>1. h \in used /\ h \notin present
    BY <1>2 DEF RemovedGone
  <2> QED
    BY <1>1, <2>1, ObjectMoves DEF ObjectsInv
<1>3. CASE Removed(h) \notin Queue
  <2>0. Camera /\ \E e \in Event : wire' = Append(wire, e) /\ Queue' = Queue \cup {e}
    BY <1>1, <1>3, QueueMoves, WireMoves DEF ObjectsInv
  <2>1. PICK e \in Event : wire' = Append(wire, e) /\ Queue' = Queue \cup {e}
    BY <2>0
  <2>2. e = Removed(h) /\ wire' = Append(wire, Removed(h)) /\ wire' # wire
    BY <1>3, <2>1 DEF ObjectsInv, WireOK
  <2>3. CASE Vanish
    <3>1. PICK g \in present : /\ present' = present \ Below(g)
                               /\ wire' = Append(wire, Removed(g))
      BY <2>3 DEF Vanish, Removed
    <3>2. Removed(g) = Removed(h)
      BY <1>1, <2>2, <3>1 DEF ObjectsInv, WireOK, Removed, Event
    <3>3. g = h
      BY <3>2 DEF Removed
    <3>4. h \in Below(h)
      BY ForestFacts DEF Below
    <3> QED
      BY <1>1, <3>1, <3>3, <3>4
  <2>4. CASE Capture
    <3>1. PICK g \in Handles : wire' = Append(wire, Added(g))
      BY <2>4 DEF Capture, Added
    <3>2. Added(g) = Removed(h)
      BY <2>2, <3>1 DEF ObjectsInv, WireOK, Added, Removed, Event
    <3> QED
      BY <3>2 DEF Added, Removed
  <2>5. CASE RemoveCard
    <3>1. wire' = Append(wire, [type |-> "Store"])
      BY <2>5 DEF RemoveCard
    <3>2. [type |-> "Store"] = Removed(h)
      BY <2>2, <3>1 DEF ObjectsInv, WireOK, Removed, Event
    <3> QED
      BY <3>2 DEF Removed
  <2> QED
    BY <2>0, <2>3, <2>4, <2>5 DEF Camera
<1> QED
  BY <1>2, <1>3

\* What a step does to the announcement of an object that the camera still has.
LEMMA AnnouncedKept ==
    ASSUME ObjectsInv, [Next]_vars, faults' = 0, NEW h \in present', Announced(h)
    PROVE  Announced(h)' \/ h \in Cached'
<1>1. Announced(h) <=> Added(h) \in Queue \/ (pc = "added" /\ op.parent = h)
  BY DEF Announced, Added, Queue
<1>2. Announced(h)' <=> Added(h) \in Queue' \/ (pc' = "added" /\ op'.parent = h)
  BY DEF Announced, Added, Queue
<1>3. CASE Added(h) \in Queue /\ Added(h) \notin Queue'
  <2>1. PopEvent /\ Head(events) = Added(h)
    BY <1>3, QueueMoves, WireMoves DEF ObjectsInv, ObjectsOK
  <2>2. Head(events).type = "Added" /\ Head(events).handle = h
    BY <2>1 DEF Added
  <2>3. pc' = "added" /\ op' = [op EXCEPT !.parent = h]
    BY <2>1, <2>2 DEF PopEvent
  <2>4. op'.parent = h
    BY <2>3 DEF ObjectsInv, OpOK, OpFields
  <2> QED
    BY <1>2, <2>3, <2>4
<1>4. CASE pc = "added" /\ op.parent = h
  <2>1. CASE ReadAdded
    <3>1. CASE Known(h)
      <4>1. CASE HasInfo(h)
        BY <3>1, <4>1 DEF Known, NoTransaction, HasInfo, Cached
      <4>2. CASE ~HasInfo(h)
        BY <3>1, <4>2, GoodFilled
           DEF Known, ReadInfo, Cached, ObjectsInv, ObjectsOK
      <4> QED
        BY <4>1, <4>2
    <3>2. CASE ~Known(h)
      <4>1. Refused(h) \/ Fails
        BY <1>4, <2>1, <3>2 DEF ReadAdded, Known
      <4>2. present' = present
        BY <2>1 DEF ReadAdded, camera
      <4>3. ~Fails
        BY DEF Fails, ObjectsInv, CountOK
      <4> QED
        BY <4>1, <4>2, <4>3 DEF Refused
    <3> QED
      BY <3>1, <3>2
  <2>2. CASE Camera \/ UNCHANGED vars
    <3>1. pc' = pc /\ op' = op
      BY <2>2 DEF Camera, Capture, Vanish, RemoveCard, client, vars
    <3> QED
      BY <1>2, <1>4, <3>1
  <2>3. CASE Frontend \/ Return \/ ListFolder \/ Walk \/ Act
    BY <1>4, <2>3 DEF Frontend, List, GetInfo, Delete, RemoveFolder, Upload,
       WaitForEvent, Begin, Return, ListFolder, FolderKnown, FetchHandles, Walk,
       FindChild, NoChild, ScanObject, ScanAgain, ScanDone, Act, InfoFound, DeleteFile,
       RemoveDir, Exists, SendObject
  <2>4. CASE NoEvent \/ ReadEvent \/ ListRoot \/ PopEvent \/ TimedOut
    BY <1>4, <2>4 DEF NoEvent, ReadEvent, ListRoot, PopEvent, TimedOut
  <2>5. CASE ReadParent \/ ReportAdded
    BY <1>4, <2>5 DEF ReadParent, ReportAdded
  <2> QED
    BY <2>1, <2>2, <2>3, <2>4, <2>5 DEF Next, Driver, Events
<1> QED
  BY <1>1, <1>2, <1>3, <1>4

\* No operation on the array marks a folder as loaded but Marked.
LEMMA FilledListed ==
    ASSUME ObjectsOK, NEW g
    PROVE  /\ DOMAIN Filled(g) = Cached \cup {g}
           /\ \A x \in DOMAIN Filled(g) : Filled(g)[x].listed => x \in Cached /\ cache[x].listed
<1> DEFINE c == Inserted(g)
<1>1. /\ DOMAIN c = Cached \cup {g}
      /\ \A x \in DOMAIN c : /\ c[x] \in Entry
                             /\ c[x].listed => x \in Cached /\ cache[x].listed
  BY FreshEntry DEF Inserted, Fresh, ObjectsOK, Good, Cached
<1> DEFINE e == [c[g] EXCEPT !.parent = IF @ = None THEN Parent[g] ELSE @,
                             !.store = TRUE, !.info = TRUE]
<1>2. e.listed = c[g].listed
  BY <1>1 DEF Entry
<1>3. Filled(g) = [c EXCEPT ![g] = e]
  BY DEF Filled
<1> HIDE DEF c, e
<1> QED
  BY <1>1, <1>2, <1>3

LEMMA MergedListed ==
    ASSUME NEW c, NEW u, Good(c, u), NEW hs, NEW folder, NEW store
    PROVE  LET m == Merged(c, hs, folder, store)
           IN  /\ DOMAIN m = DOMAIN c \cup hs
               /\ \A x \in DOMAIN m : m[x].listed => x \in DOMAIN c /\ c[x].listed
<1> DEFINE m == Merged(c, hs, folder, store)
<1>1. DOMAIN m = DOMAIN c \cup hs
  BY DEF Merged
<1>2. ASSUME NEW x \in DOMAIN m, m[x].listed
      PROVE  x \in DOMAIN c /\ c[x].listed
  <2>1. CASE x \notin hs
    BY <1>1, <1>2, <2>1 DEF Merged
  <2>2. CASE x \in hs /\ x \in DOMAIN c
    <3>1. m[x] = [c[x] EXCEPT !.parent = folder, !.store = @ \/ store]
      BY <2>2 DEF Merged
    <3>2. c[x] \in Entry
      BY <2>2 DEF Good
    <3>3. m[x].listed = c[x].listed
      BY <3>1, <3>2 DEF Entry
    <3> QED
      BY <1>2, <2>2, <3>3
  <2>3. CASE x \in hs /\ x \notin DOMAIN c
    <3>1. m[x] = [Fresh EXCEPT !.parent = IF folder = Root THEN None ELSE folder,
                               !.store = store]
      BY <2>3 DEF Merged
    <3>2. m[x].listed = FALSE
      BY <3>1 DEF Fresh
    <3> QED
      BY <1>2, <3>2
  <2> QED
    BY <2>1, <2>2, <2>3
<1> QED
  BY <1>1, <1>2

LEMMA MarkedListed ==
    ASSUME NEW f
    PROVE  /\ DOMAIN Marked(f) = Cached
           /\ \A x \in Cached : Marked(f)[x].listed => x = f \/ cache[x].listed
BY DEF Marked, Cached

LEMMA InsertedListed ==
    ASSUME NEW g
    PROVE  /\ DOMAIN Inserted(g) = Cached \cup {g}
           /\ \A x \in DOMAIN Inserted(g) :
                Inserted(g)[x].listed => x \in Cached /\ cache[x].listed
BY DEF Inserted, Fresh, Cached

\* What a step that does not fail does to the array, outside of ListRoot.
LEMMA CacheEffects ==
    ASSUME ObjectsInv, RemovedGone, [Next]_vars, faults' = 0,
           pc \notin {"rootall", "rootstore"}, pc' \notin {"rootall", "rootstore"}
    PROVE  \/ cache' = cache
           \/ \E g : cache' = Filled(g) \/ cache' = Inserted(g)
           \/ \E g : g \notin present' /\ cache' = Dropped(g)
           \/ /\ cache' = Marked(op.parent) /\ op.parent \notin present \cup {Root}
              /\ present' = present
           \/ \E f \in Handles \cup {Root} :
                /\ op.parent \in {f, Special} /\ present' = present
                /\ cache' = Merged(Marked(op.parent), Children(f), f, TRUE)
<1>0. ~Fails
  BY DEF Fails, ObjectsInv, CountOK
<1>1. CASE FetchHandles
  <2> DEFINE f == IF op.parent = Special THEN Root ELSE op.parent
  <2>1. /\ f \in Handles \cup {Root} /\ op.parent \in {f, Special}
        /\ f # Root => op.parent = f
        /\ op.parent = Root => f = Root
    BY DEF ObjectsInv, ParentOK
  <2>2. present' = present
    BY <1>1 DEF FetchHandles, camera
  <2>3. \/ cache' = Merged(Marked(op.parent), Children(f), f, TRUE)
        \/ f # Root /\ f \notin present /\ cache' = Marked(op.parent)
    BY <1>0, <1>1 DEF FetchHandles, Marked, Refused
  <2> HIDE DEF f
  <2> QED
    BY <2>1, <2>2, <2>3
<1>2. CASE FindChild
  BY <1>0, <1>2 DEF FindChild, Look, ReadInfo, NoTransaction, Refused, camera
<1>3. CASE ScanObject
  BY <1>0, <1>3 DEF ScanObject, Look, ReadInfo, NoTransaction, Refused, camera
<1>4. CASE DeleteFile \/ RemoveDir
  <2>1. CASE Deleted
    <3>1. present' = present \ Victims(op.parent) /\ cache' = Dropped(op.parent)
      BY <2>1 DEF Deleted
    <3>2. op.parent \in Handles => op.parent \in Below(op.parent)
      BY ForestFacts DEF Below
    <3>3. present \subseteq Handles
      BY DEF ObjectsInv, ObjectsOK
    <3>4. op.parent \notin present'
      BY <3>1, <3>2, <3>3, ObjectsAssumption DEF Victims
    <3> QED
      BY <3>1, <3>4
  <2>2. CASE ~Deleted
    BY <1>4, <2>2 DEF DeleteFile, RemoveDir, NotDeleted
  <2> QED
    BY <2>1, <2>2
<1>5. CASE SendObject
  BY <1>5 DEF SendObject, New
<1>6. CASE ReadEvent \/ ListRoot
  BY <1>6 DEF ReadEvent, ListRoot
<1>7. CASE PopEvent
  <2>1. CASE Head(events).type = "Removed"
    <3>1. events \in Seq(Event) /\ events # <<>>
      BY <1>7 DEF PopEvent, ObjectsInv, WireOK
    <3>2. Head(events) \in Event /\ Head(events) \in Range(events)
      BY <3>1, RangeTail
    <3>3. Head(events).handle \in Handles /\ Head(events) = Removed(Head(events).handle)
      BY <2>1, <3>2 DEF Event, Removed
    <3>4. Head(events).handle \notin present
      BY <3>2, <3>3 DEF RemovedGone, Queue
    <3> QED
      BY <1>7, <2>1, <3>4 DEF PopEvent, camera
  <2>2. CASE Head(events).type # "Removed"
    BY <1>7, <2>2 DEF PopEvent
  <2> QED
    BY <2>1, <2>2
<1>8. CASE ReadAdded
  BY <1>0, <1>8 DEF ReadAdded, ReadInfo, NoTransaction, Refused, camera
<1>9. CASE ReadParent
  BY <1>9 DEF ReadParent, ReadInfo, NoTransaction
<1>10. CASE ReportAdded
  BY <1>0, <1>10 DEF ReportAdded, NoTransaction, Refused, camera
<1>11. CASE FolderKnown \/ NoChild \/ ScanAgain \/ ScanDone
  BY <1>11 DEF FolderKnown, NoChild, ScanAgain, ScanDone
<1>12. CASE InfoFound \/ Exists \/ NoEvent \/ TimedOut \/ Return
  BY <1>12 DEF InfoFound, Exists, NoEvent, TimedOut, Return
<1>13. CASE Frontend
  BY <1>13 DEF Frontend, List, GetInfo, Delete, RemoveFolder, Upload, WaitForEvent,
     Begin
<1>14. CASE Camera
  BY <1>14 DEF Camera, Capture, Vanish, RemoveCard, client
<1>15. CASE UNCHANGED vars
  BY <1>15 DEF vars
<1> QED
  BY <1>1, <1>2, <1>3, <1>4, <1>5, <1>6, <1>7, <1>8, <1>9, <1>10, <1>11, <1>12,
     <1>13, <1>14, <1>15 DEF Next, Driver, ListFolder, Walk, Act, Events

\* The camera has it, and its folder is one that is never fetched again.
Due(h) == Parent[h] = Root \/ (Parent[h] \in Cached /\ cache[Parent[h]].listed)

LoadedInv ==
    /\ RemovedGone
    /\ pc \in {"rootall", "rootstore"} => \A h \in Cached : ~cache[h].listed
    /\ LoadedFoldersComplete

LEMMA CompleteKept ==
    ASSUME ObjectsInv, LoadedInv, [Next]_vars, faults' = 0,
           pc \notin {"rootall", "rootstore"}, pc' \notin {"rootall", "rootstore"},
           NEW h \in present', Due(h)'
    PROVE  h \in Cached' \/ Announced(h)'
<1>1. faults = 0
  BY WireMoves DEF CountMove, ObjectsInv, ObjectsOK, CountOK
<1>2. ObjectsOK /\ present \subseteq Handles
  BY DEF ObjectsInv, ObjectsOK
<1>3. CASE h \notin present
  <2>1. Capture \/ SendObject
    <3>1. ~(Vanish \/ RemoveCard \/ UNCHANGED vars \/ Frontend \/ Return)
      BY <1>3 DEF Vanish, RemoveCard, vars, Frontend, List, GetInfo, Delete,
         RemoveFolder, Upload, WaitForEvent, Begin, Return, camera
    <3>2. ~(ListFolder \/ Walk)
      BY <1>3 DEF ListFolder, FolderKnown, FetchHandles, Walk, FindChild, NoChild,
         ScanObject, ScanAgain, ScanDone, camera
    <3>3. ~(InfoFound \/ DeleteFile \/ RemoveDir \/ Exists)
      BY <1>3 DEF InfoFound, DeleteFile, RemoveDir, Exists, Deleted, NotDeleted, camera
    <3>4. ~Events
      BY <1>3 DEF Events, NoEvent, ReadEvent, ListRoot, PopEvent, TimedOut, ReadAdded,
         ReadParent, ReportAdded, camera
    <3> QED
      BY <3>1, <3>2, <3>3, <3>4 DEF Next, Driver, Act, Camera
  <2>2. CASE Capture
    <3>1. wire' = Append(wire, Added(h)) /\ Added(h) \in Event
      BY <1>3, <2>2 DEF Capture, Added, Event
    <3>2. Added(h) \in Range(wire')
      BY <3>1, RangeAppend DEF ObjectsInv, WireOK
    <3> QED
      BY <3>2 DEF Announced, Added
  <2>3. CASE SendObject
    <3>1. PICK g \in Handles : present' = present \cup {g} /\ cache' = Inserted(g)
      BY <1>3, <2>3 DEF SendObject
    <3> QED
      BY <1>3, <3>1, InsertedListed DEF Cached
  <2> QED
    BY <2>1, <2>2, <2>3
<1>4. ASSUME h \in present, Due(h), h \in Cached => h \in Cached'
      PROVE  h \in Cached' \/ Announced(h)'
  <2>1. h \in Cached \/ Announced(h)
    BY <1>1, <1>4 DEF LoadedInv, LoadedFoldersComplete, Due
  <2> QED
    BY <1>4, <2>1, AnnouncedKept
<1>5. CASE h \in present
  <2>1. CASE cache' = cache
    BY <1>4, <1>5, <2>1 DEF Due, Cached
  <2>2. CASE \E g : cache' = Filled(g) \/ cache' = Inserted(g)
    BY <1>2, <1>4, <1>5, <2>2, FilledListed, InsertedListed DEF Due, Cached
  <2>3. CASE \E g : g \notin present' /\ cache' = Dropped(g)
    BY <1>4, <1>5, <2>3 DEF Due, Cached, Dropped
  <2>4. CASE /\ cache' = Marked(op.parent) /\ op.parent \notin present \cup {Root}
             /\ present' = present
    <3>1. Parent[h] \in present \cup {Root}
      BY <1>5 DEF ObjectsInv, Closed
    <3>2. Due(h) /\ Cached' = Cached
      BY <2>4, <3>1, MarkedListed DEF Due, Cached
    <3> QED
      BY <1>4, <1>5, <3>2
  <2>5. CASE \E f \in Handles \cup {Root} :
               /\ op.parent \in {f, Special} /\ present' = present
               /\ cache' = Merged(Marked(op.parent), Children(f), f, TRUE)
    <3>1. PICK f \in Handles \cup {Root} :
            /\ op.parent \in {f, Special}
            /\ cache' = Merged(Marked(op.parent), Children(f), f, TRUE)
      BY <2>5
    <3> DEFINE m == Marked(op.parent)
    <3>2. Good(m, used) /\ DOMAIN m = Cached
      BY <1>2, GoodMarked, MarkedListed DEF ObjectsOK
    <3>3. /\ Cached' = Cached \cup Children(f)
          /\ \A x \in Cached' : cache'[x].listed => x \in Cached /\ m[x].listed
      <4> DEFINE c == Merged(m, Children(f), f, TRUE)
      <4>1. /\ DOMAIN c = DOMAIN m \cup Children(f)
            /\ \A x \in DOMAIN c : c[x].listed => x \in DOMAIN m /\ m[x].listed
        BY <3>2, MergedListed
      <4>2. cache' = c
        BY <3>1
      <4> HIDE DEF c, m
      <4> QED
        BY <3>2, <4>1, <4>2 DEF Cached
    <3>4. \A x \in Cached : m[x].listed => x = op.parent \/ cache[x].listed
      BY MarkedListed
    <3> HIDE DEF m
    <3>5. CASE Due(h)
      BY <1>4, <1>5, <3>3, <3>5
    <3>6. CASE ~Due(h)
      <4>1. Parent[h] \in Cached /\ Parent[h] = op.parent
        BY <3>3, <3>4, <3>6 DEF Due
      <4>2. Parent[h] = f
        BY <1>2, <1>5, <3>1, <4>1, ParentType, ObjectsAssumption
      <4> QED
        BY <1>5, <3>3, <4>2 DEF Children
    <3> QED
      BY <3>5, <3>6
  <2> QED
    BY <2>1, <2>2, <2>3, <2>4, <2>5, CacheEffects DEF LoadedInv
<1> QED
  BY <1>3, <1>5

LEMMA LoadedKept ==
    ASSUME ObjectsInv, LoadedInv, [Next]_vars
    PROVE  LoadedInv'
<1>1. RemovedGone'
  BY RemovedGoneKept DEF LoadedInv
<1>2. ObjectsOK /\ (faults' = 0 => faults = 0)
  BY WireMoves DEF CountMove, ObjectsInv, ObjectsOK, CountOK
<1>3. CASE ListRoot
  <2>1. /\ pc \in {"rootall", "rootstore"} /\ present' = present
        /\ \/ cache' = Merged(cache, Children(Root), Root, pc = "rootstore")
           \/ Fails /\ cache' = cache
    BY <1>3 DEF ListRoot, camera
  <2> DEFINE m == Merged(cache, Children(Root), Root, pc = "rootstore")
  <2>5. Good(cache, used)
    BY <1>2 DEF ObjectsOK
  <2>6. /\ DOMAIN m = Cached \cup Children(Root)
        /\ \A x \in DOMAIN m : m[x].listed => x \in Cached /\ cache[x].listed
    BY <2>5, MergedListed DEF Cached
  <2>7. \A h \in Cached : ~cache[h].listed
    BY <2>1 DEF LoadedInv
  <2> HIDE DEF m
  <2>8. Fails => faults' # 0
    BY DEF Fails, ObjectsInv, CountOK
  <2>10. cache' = m \/ (cache' = cache /\ faults' # 0)
    BY <2>1, <2>8 DEF m
  <2>2. \A h \in Cached' : ~cache'[h].listed
    BY <2>6, <2>7, <2>10 DEF Cached
  <2>3. faults' = 0 => Children(Root) \subseteq Cached'
    BY <2>6, <2>10 DEF Cached
  <2>4. LoadedFoldersComplete'
    BY <2>1, <2>2, <2>3 DEF LoadedFoldersComplete, Children
  <2> QED
    BY <1>1, <2>2, <2>4 DEF LoadedInv
<1>4. CASE pc \in {"rootall", "rootstore"} /\ ~ListRoot
  <2>1. Camera \/ UNCHANGED vars
    <3>1. ~(Frontend \/ Return \/ ListFolder \/ Walk \/ Act)
      BY <1>4 DEF Frontend, List, GetInfo, Delete, RemoveFolder, Upload,
         WaitForEvent, Begin, Return, ListFolder, FolderKnown, FetchHandles, Walk,
         FindChild, NoChild, ScanObject, ScanAgain, ScanDone, Act, InfoFound,
         DeleteFile, RemoveDir, Exists, SendObject
    <3>2. ~(NoEvent \/ ReadEvent \/ PopEvent \/ TimedOut)
      BY <1>4 DEF NoEvent, ReadEvent, PopEvent, TimedOut
    <3>3. ~(ReadAdded \/ ReadParent \/ ReportAdded)
      BY <1>4 DEF ReadAdded, ReadParent, ReportAdded
    <3> QED
      BY <1>4, <3>1, <3>2, <3>3 DEF Next, Driver, Events
  <2>2. pc' = pc /\ cache' = cache
    BY <2>1 DEF Camera, Capture, Vanish, RemoveCard, client, vars
  <2> QED
    BY <1>1, <1>4, <2>2 DEF LoadedInv, LoadedFoldersComplete, Cached
<1>5. CASE pc \notin {"rootall", "rootstore"} /\ pc' \in {"rootall", "rootstore"}
  <2>1. ReadEvent
    <3>1. ~(Frontend \/ Return \/ ListFolder \/ Walk \/ Act \/ UNCHANGED vars \/ Camera)
      BY <1>5 DEF Frontend, List, GetInfo, Delete, RemoveFolder, Upload,
         WaitForEvent, Begin, Return, ListFolder, FolderKnown, FetchHandles, Walk,
         FindChild, NoChild, ScanObject, ScanAgain, ScanDone, Act, InfoFound,
         DeleteFile, RemoveDir, Exists, SendObject, Deleted, NotDeleted, FolderListed,
         FolderFailed, Found, Skip, Reply, vars, Camera, Capture, Vanish, RemoveCard,
         client
    <3>2. ~(NoEvent \/ ListRoot \/ PopEvent \/ TimedOut)
      BY <1>5 DEF NoEvent, ListRoot, PopEvent, TimedOut, NextPhase, Reply
    <3>3. ~(ReadAdded \/ ReadParent \/ ReportAdded)
      BY <1>5 DEF ReadAdded, ReadParent, ReportAdded, Reply
    <3> QED
      BY <3>1, <3>2, <3>3 DEF Next, Driver, Events
  <2>2. cache' = [h \in {} |-> Fresh]
    BY <1>5, <2>1 DEF ReadEvent, NextPhase
  <2> QED
    BY <1>1, <1>5, <2>2 DEF LoadedInv, LoadedFoldersComplete, Cached
<1>6. CASE pc \notin {"rootall", "rootstore"} /\ pc' \notin {"rootall", "rootstore"}
  <2>1. LoadedFoldersComplete'
    BY <1>6, CompleteKept DEF LoadedFoldersComplete, Due
  <2> QED
    BY <1>1, <1>6, <2>1 DEF LoadedInv
<1> QED
  BY <1>3, <1>4, <1>5, <1>6

\* A folder that is marked as loaded, and the root, holds nothing that is neither in
\* the array nor announced, as long as no transaction fails: objects may vanish, be
\* taken, sent or deleted in any order (ptp_list_folder, ptp_remove_object_from_cache,
\* camera_wait_for_event).
THEOREM LoadedFoldersAreComplete == Spec => []LoadedFoldersComplete
<1>1. Init => LoadedInv
  BY DEF Init, LoadedInv, RemovedGone, LoadedFoldersComplete, Queue, Range, Removed,
     Cached
<1>2. ObjectsInv /\ LoadedInv /\ [Next]_vars => LoadedInv'
  BY LoadedKept
<1>3. LoadedInv => LoadedFoldersComplete
  BY DEF LoadedInv
<1> QED
  BY <1>1, <1>2, <1>3, ObjectsInvAlways, PTL DEF Spec

(***************************************************************************)
(* Listings and removals while all is calm                                  *)
(***************************************************************************)
\* The path under which a file is reported when its folders could not be read.
Misnamed(p) == \E g \in Handles \ Folders : p = <<Name[g]>>

\* The camera has the object, and the array has it and its folders.
There(t) == t \in present \cup {Root} /\ Ancestors[t] \subseteq Cached

\* Whatever goes wrong: no two objects have the same path.
Unique == \A g, h \in present : Path[g] = Path[h] => g = h
UsedClosed == \A h \in used : Parent[h] \in used \cup {Root}
AlwaysInv == Unique /\ UsedClosed /\ op.before \subseteq used

OnlyAdded == \A e \in Queue : e.type = "Added"
\* A path that the frontend knows is that of an object which the driver finds.
KnownThere == \A p \in known : Misnamed(p) \/ \E t \in present : Path[t] = p /\ There(t)
\* What is left in the array of an object that is gone is not looked at again.
GonePlaced ==
    \A g \in Cached \ present : Placed(g) /\ Parent[g] \notin present \cup {Root}
\* An object whose place is not known is not in a folder that may be removed.
UnplacedKnown ==
    \A g \in Cached \cap present : ~Placed(g) =>
        \A f \in Ancestors[g] \ {g} : Path[f] \in known => Path[g] \in known
WorldInv == OnlyAdded /\ KnownThere /\ GonePlaced /\ UnplacedKnown

\* What the frontend asks for.
FoldersKnown == (known \cap FolderPaths) \cup {<<>>}
Searching == pc \in {"event", "folder", "find", "scan"}
AskedInv ==
    /\ Searching \/ pc = "act" =>
         /\ op.kind \in Listings => op.path \in FoldersKnown
         /\ op.kind \in {"info", "delete"} => op.path \in known \ FolderPaths
         /\ op.kind = "rmdir" =>
              /\ op.path \in known \cap FolderPaths
              /\ \A p \in known : ~IsStrictPrefix(op.path, p)
         /\ op.kind \in Uploads =>
              \E p \in FoldersKnown, n \in Names : op.path = Append(p, n)
         /\ op.kind # "init" /\ (op.kind = "wait" => pc = "event")
    /\ pc \in {"rootall", "rootstore"} => op.kind = "init"
    /\ pc \in {"event", "folder", "find"} => op.got = {}
    /\ pc \in {"event", "folder"} /\ op.todo = <<>> => op.kind \in Listings \cup {"wait"}
    /\ pc = "scan" => op.kind \in Listings
    /\ pc \in {"find", "scan"} => op.i \in Nat

\* Where the search stands: at an object that is there, or at the root of an upload.
Dest ==
    \/ op.dest = Special /\ Len(op.path) = 1
    \/ op.dest \in Handles /\ There(op.dest)
       /\ \E n \in Names : op.path = Append(Path[op.dest], n)
ReachedInv ==
    /\ Searching =>
         /\ op.parent = Special =>
              op.kind \in Uploads /\ Len(op.todo) = 1 /\ Len(op.path) = 1
         /\ op.parent # Special => There(op.parent)
         /\ op.kind \in Uploads /\ Len(op.todo) = 1 => op.dest = op.parent /\ op.parent # Root
    /\ pc = "act" =>
         /\ op.parent # Special => There(op.parent)
         /\ op.kind \in Uploads => Dest

\* What the search has not found is not there, or the driver will still hear of it.
ListedInv ==
    pc \in {"find", "scan"} =>
        \A h \in present : Parent[h] = op.parent => h \in Cached \/ Announced(h)
FindInv ==
    pc = "find" =>
        \A h \in Cached : Parent[h] = op.parent /\ Name[h] = Head(op.todo) => Index(h) >= op.i
MissedInv ==
    pc = "act" /\ op.kind = "delete" /\ op.parent = Special =>
        \A h \in present : Path[h] = op.path => Announced(h)

\* What a listing has passed is placed, and collected if it is wanted.
Sought(h) == Parent[h] = op.parent /\ (h \in Folders <=> op.kind = "folders")
ScanInv ==
    pc = "scan" =>
        /\ \A h \in Cached : Index(h) < op.i =>
             Placed(h) /\ (Sought(h) => Name[h] \in op.got)
        /\ \A n \in op.got : \E c \in Cached \cap present : Parent[c] = op.parent /\ Name[c] = n

\* The folders that were read for the path of a new object.
PathInv ==
    pc = "path" =>
        IF op.dest \in present THEN Ancestors[op.dest] \ Ancestors[op.parent] \subseteq Cached
        ELSE op.parent \notin present \cup {Root}

OpCalm == /\ AskedInv /\ ReachedInv /\ ListedInv /\ FindInv /\ MissedInv /\ ScanInv
          /\ PathInv /\ ListingComplete
CalmInv == AlwaysInv /\ (Calm => WorldInv /\ OpCalm)

(***************************************************************************)
(* Paths and indices                                                        *)
(***************************************************************************)
Starts(p, q) == Len(p) <= Len(q) /\ \A i \in 1 .. Len(p) : q[i] = p[i]

LEMMA PrefixStarts ==
    ASSUME NEW p \in Seq(Names), NEW q \in Seq(Names)
    PROVE  IsPrefix(p, q) <=> Starts(p, q)
<1>1. CASE Len(p) <= Len(q)
  <2> DEFINE r == SubSeq(q, 1, Len(p))
  <2>1. Len(p) \in 0 .. Len(q) /\ 1 \in 1 .. Len(q) + 1 /\ SubSeq(p, 1, Len(p)) = p
    BY <1>1, SubSeqFull
  <2>2. r \in Seq(Names) /\ Len(r) = Len(p) /\ \A i \in 1 .. Len(p) : r[i] = q[i]
    BY <2>1, SubSeqProperties
  <2> HIDE DEF r
  <2>3. p = r <=> \A i \in 1 .. Len(p) : r[i] = p[i]
    BY <2>2, SeqEqual
  <2> QED
    BY <1>1, <2>1, <2>2, <2>3 DEF IsPrefix, Starts, r
<1> QED
  BY <1>1 DEF IsPrefix, Starts

LEMMA PathLast ==
    ASSUME NEW h \in Handles
    PROVE  /\ Parent[h] \in Nodes /\ Name[h] \in Names
           /\ Path[h] \in Seq(Names) /\ Path[Parent[h]] \in Seq(Names)
           /\ Path[h] = Append(Path[Parent[h]], Name[h]) /\ Path[h] # <<>>
           /\ Len(Path[h]) = Len(Path[Parent[h]]) + 1
           /\ Starts(Path[Parent[h]], Path[h])
<1>1. /\ Parent[h] \in Nodes /\ Name[h] \in Names /\ h \in Nodes
      /\ Path[h] = Append(Path[Parent[h]], Name[h])
  BY DepthFacts, PathIs DEF Names
<1>2. Path[h] \in Seq(Names) /\ Path[Parent[h]] \in Seq(Names)
  BY <1>1, PathIs
<1>3. /\ Len(Path[h]) = Len(Path[Parent[h]]) + 1
      /\ \A i \in 1 .. Len(Path[Parent[h]]) : Path[h][i] = Path[Parent[h]][i]
  <2> DEFINE p == Path[Parent[h]]
             x == Name[h]
  <2>1. p \in Seq(Names) /\ x \in Names /\ Path[h] = Append(p, x)
    BY <1>1, <1>2
  <2> HIDE DEF p, x
  <2>2. Len(Append(p, x)) = Len(p) + 1 /\ \A i \in 1 .. Len(p) : Append(p, x)[i] = p[i]
    BY <2>1, AppendProperties
  <2> QED
    BY <2>1, <2>2 DEF p
<1>4. Len(Path[Parent[h]]) \in Nat
  BY <1>2
<1>5. Path[h] # <<>>
  BY <1>3, <1>4
<1> QED
  BY <1>1, <1>2, <1>3, <1>4, <1>5 DEF Starts

LEMMA StartsTransitive ==
    ASSUME NEW p \in Seq(Names), NEW q \in Seq(Names), NEW r \in Seq(Names),
           Starts(p, q), Starts(q, r)
    PROVE  Starts(p, r)
BY DEF Starts

LEMMA StartsEqual ==
    ASSUME NEW p \in Seq(Names), NEW q \in Seq(Names), Starts(p, q), Len(q) <= Len(p)
    PROVE  p = q
<1>1. Len(p) = Len(q)
  BY DEF Starts
<1> QED
  BY <1>1, SeqEqual DEF Starts

\* The path of a folder is how the paths in it start.
LEMMA AncestorStarts ==
    ASSUME NEW g \in Nodes, NEW f \in Ancestors[g]
    PROVE  /\ f \in Handles /\ Starts(Path[f], Path[g])
           /\ Ancestors[f] \subseteq Ancestors[g]
           /\ f # g => f \in Folders /\ Len(Path[f]) < Len(Path[g])
<1> DEFINE Q == {h \in Nodes : \A a \in Ancestors[h] :
                   /\ a \in Handles /\ Starts(Path[a], Path[h])
                   /\ Ancestors[a] \subseteq Ancestors[h]
                   /\ a # h => a \in Folders /\ Len(Path[a]) < Len(Path[h])}
<1>1. Root \in Q
  BY ForestFacts, DepthFacts
<1>2. ASSUME NEW h \in Handles, Parent[h] \in Q PROVE h \in Q
  <2>1. h \in Nodes /\ Ancestors[h] = {h} \cup Ancestors[Parent[h]]
    BY ForestFacts, DepthFacts
  <2>2. SUFFICES ASSUME NEW a \in Ancestors[h]
                 PROVE  /\ a \in Handles /\ Starts(Path[a], Path[h])
                        /\ Ancestors[a] \subseteq Ancestors[h]
                        /\ a # h => a \in Folders /\ Len(Path[a]) < Len(Path[h])
    BY <2>1
  <2>3. CASE a = h
    <3>1. Path[h] \in Seq(Names)
      BY PathLast
    <3>2. Starts(Path[h], Path[h])
      BY <3>1 DEF Starts
    <3> QED
      BY <2>3, <3>2
  <2>4. CASE a # h
    <3>1. /\ a \in Ancestors[Parent[h]] /\ Parent[h] \in Nodes
          /\ a \in Handles /\ Starts(Path[a], Path[Parent[h]])
          /\ Ancestors[a] \subseteq Ancestors[Parent[h]]
          /\ a # Parent[h] => a \in Folders /\ Len(Path[a]) < Len(Path[Parent[h]])
      BY <1>2, <2>1, <2>2, <2>4
    <3>2. a \in Folders
      BY <3>1, ObjectsAssumption, DepthFacts
    <3>3. Path[a] \in Seq(Names)
      BY <3>1, PathLast
    <3>4. Starts(Path[a], Path[h]) /\ Len(Path[a]) < Len(Path[h])
      BY <3>1, <3>3, PathLast, StartsTransitive DEF Starts
    <3> QED
      BY <2>1, <3>1, <3>2, <3>4
  <2> QED
    BY <2>3, <2>4
<1> HIDE DEF Q
<1>3. g \in Q
  BY <1>1, <1>2, DownFolders
<1> QED
  BY <1>3 DEF Q

\* What a path starts with is the path of a folder on the way.
LEMMA AncestorAt ==
    ASSUME NEW t \in Nodes, NEW p \in Seq(Names), p # <<>>, Starts(p, Path[t])
    PROVE  \E a \in Ancestors[t] : Path[a] = p
<1> DEFINE Q == {h \in Nodes : Starts(p, Path[h]) => \E a \in Ancestors[h] : Path[a] = p}
<1>1. Root \in Q
  BY ForestFacts, DepthFacts DEF Starts
<1>2. ASSUME NEW h \in Handles, Parent[h] \in Q, Starts(p, Path[h])
      PROVE  \E a \in Ancestors[h] : Path[a] = p
  <2>1. Ancestors[h] = {h} \cup Ancestors[Parent[h]]
    BY ForestFacts
  <2>2. CASE Len(Path[h]) <= Len(p)
    <3>1. Path[h] = p
      BY <1>2, <2>2, PathLast, StartsEqual
    <3> QED
      BY <2>1, <3>1
  <2>3. CASE Len(p) < Len(Path[h])
    <3>1. Starts(p, Path[Parent[h]])
      BY <1>2, <2>3, PathLast DEF Starts
    <3> QED
      BY <1>2, <2>1, <3>1
  <2> QED
    BY <2>2, <2>3, PathLast
<1>3. \A h \in Handles : Parent[h] \in Q => h \in Q
  BY <1>2, DepthFacts
<1> HIDE DEF Q
<1>4. t \in Q
  BY <1>1, <1>3, DownFolders
<1> QED
  BY <1>4 DEF Q

LEMMA AncestorsPresent ==
    ASSUME Closed, present \subseteq Handles, NEW t \in present \cup {Root}
    PROVE  t \in Nodes /\ Ancestors[t] \subseteq present
<1> DEFINE Q == {h \in Nodes : h \in present => Ancestors[h] \subseteq present}
<1>1. Root \in Q
  BY ForestFacts, DepthFacts
<1>2. ASSUME NEW h \in Handles, Parent[h] \in Q PROVE h \in Q
  <2>1. h \in Nodes /\ Ancestors[h] = {h} \cup Ancestors[Parent[h]] /\ Ancestors[Root] = {}
    BY ForestFacts, DepthFacts
  <2>2. h \in present => Parent[h] \in present \cup {Root}
    BY DEF Closed
  <2>3. Parent[h] \in present => Ancestors[Parent[h]] \subseteq present
    BY <1>2
  <2>4. h \in present => Ancestors[h] \subseteq present
    BY <2>1, <2>2, <2>3
  <2> QED
    BY <2>1, <2>4
<1>3. t \in Nodes
  BY DepthFacts
<1> HIDE DEF Q
<1>4. t \in Q
  BY <1>1, <1>2, <1>3, DownFolders
<1> QED
  BY <1>3, <1>4, ForestFacts DEF Q

LEMMA SamePath ==
    ASSUME Unique, present \subseteq Handles, NEW g \in present \cup {Root},
           NEW h \in present \cup {Root}, Path[g] = Path[h]
    PROVE  g = h
BY PathLast, ForestFacts DEF Unique

\* A set of objects is finite, and the indices of two of them are different.
Rank(S, h) == Cardinality({g \in S : g < h})

LEMMA IndexFacts ==
    ASSUME NEW S, S \subseteq Handles
    PROVE  /\ Cardinality(S) \in Nat
           /\ \A h \in S : Rank(S, h) \in Nat /\ Rank(S, h) < Cardinality(S)
           /\ \A g, h \in S : g # h => Rank(S, g) # Rank(S, h)
<1>1. IsFiniteSet(S)
  BY FS_Subset, ObjectsAssumption
<1>2. ASSUME NEW h \in S
      PROVE  /\ {g \in S : g < h} \in SUBSET S /\ IsFiniteSet({g \in S : g < h})
             /\ Rank(S, h) \in Nat /\ Rank(S, h) < Cardinality(S)
  <2> DEFINE T == {g \in S : g < h}
  <2>1. T \in SUBSET S /\ h \notin T
    BY ObjectsAssumption
  <2> HIDE DEF T
  <2>2. /\ IsFiniteSet(T) /\ Cardinality(T) <= Cardinality(S)
        /\ Cardinality(S) = Cardinality(T) => S = T
    BY <1>1, <2>1, FS_Subset
  <2>3. Cardinality(T) \in Nat /\ Cardinality(S) \in Nat
    BY <1>1, <2>2, FS_CardinalityType
  <2>4. Cardinality(T) < Cardinality(S)
    BY <2>1, <2>2, <2>3
  <2> QED
    BY <2>1, <2>2, <2>3, <2>4 DEF T, Rank
<1>3. ASSUME NEW g \in S, NEW h \in S, g < h PROVE Rank(S, g) < Rank(S, h)
  <2> DEFINE L == {x \in S : x < g}
             T == {x \in S : x < h}
  <2>0. \A x \in S : x \in Nat
    BY ObjectsAssumption
  <2>1. L \in SUBSET T /\ g \in T /\ g \notin L
    BY <1>3, <2>0
  <2>2. IsFiniteSet(T) /\ IsFiniteSet(L)
    BY <1>2
  <2> HIDE DEF L, T
  <2>3. /\ Cardinality(L) <= Cardinality(T)
        /\ Cardinality(T) = Cardinality(L) => T = L
    BY <2>1, <2>2, FS_Subset
  <2>4. Cardinality(L) \in Nat /\ Cardinality(T) \in Nat
    BY <2>2, FS_CardinalityType
  <2> QED
    BY <2>1, <2>3, <2>4 DEF L, T, Rank
<1>4. ASSUME NEW g \in S, NEW h \in S, g # h PROVE Rank(S, g) # Rank(S, h)
  <2>1. g \in Nat /\ h \in Nat
    BY ObjectsAssumption
  <2>2. g < h \/ h < g
    BY <1>4, <2>1
  <2>3. Rank(S, g) < Rank(S, h) \/ Rank(S, h) < Rank(S, g)
    BY <1>3, <2>2
  <2>4. Rank(S, g) \in Nat /\ Rank(S, h) \in Nat
    BY <1>2
  <2> QED
    BY <2>3, <2>4
<1> QED
  BY <1>1, <1>2, <1>4, FS_CardinalityType

(***************************************************************************)
(* What holds whatever goes wrong                                           *)
(***************************************************************************)
\* What a step leaves of the objects that a listing began with.
LEMMA BeforeKept ==
    ASSUME ObjectsInv, [Next]_vars
    PROVE  op'.before = op.before \/ op'.before \subseteq present
<1>0. DOMAIN op = OpFields
  BY DEF ObjectsInv, OpOK
<1>1. CASE op' = op
  BY <1>1
<1>2. CASE \E r : Reply(r)
  BY <1>0, <1>2 DEF Reply, OpFields
<1>3. CASE Skip
  BY <1>0, <1>3 DEF Skip, OpFields
<1>4. CASE \E h : Found(h)
  BY <1>0, <1>4 DEF Found, Descend, OpFields
<1>5. CASE ListFolder
  BY <1>0, <1>2, <1>4, <1>5
     DEF ListFolder, FolderKnown, FetchHandles, FolderListed, FolderFailed, OpFields
<1>6. CASE Walk
  BY <1>0, <1>2, <1>3, <1>4, <1>6
     DEF Walk, FindChild, NoChild, ScanObject, ScanAgain, ScanDone, OpFields
<1>7. CASE Act
  BY <1>2, <1>7
     DEF Act, InfoFound, DeleteFile, RemoveDir, Exists, SendObject, Deleted, NotDeleted
<1>8. CASE NoEvent \/ ReadEvent \/ ListRoot \/ TimedOut
  BY <1>1, <1>2, <1>8 DEF NoEvent, ReadEvent, ListRoot, TimedOut
<1>9. CASE PopEvent \/ ReadAdded \/ ReadParent \/ ReportAdded
  BY <1>0, <1>2, <1>9 DEF PopEvent, ReadAdded, ReadParent, ReportAdded, OpFields
<1>10. CASE Return
  BY <1>10 DEF Return, NoOp
<1>11. CASE \E kind, path : Begin(kind, path)
  BY <1>11 DEF Begin, Descend, NewOp
<1>12. CASE Frontend
  BY <1>11, <1>12 DEF Frontend, List, GetInfo, Delete, RemoveFolder, Upload, WaitForEvent
<1>13. CASE Camera \/ UNCHANGED vars
  BY <1>1, <1>13 DEF Camera, Capture, Vanish, RemoveCard, client, vars
<1> QED
  BY <1>5, <1>6, <1>7, <1>8, <1>9, <1>10, <1>12, <1>13 DEF Next, Driver, Events

LEMMA AlwaysKept ==
    ASSUME ObjectsInv, AlwaysInv, [Next]_vars
    PROVE  AlwaysInv'
<1>1. present \subseteq used /\ used \subseteq used'
  BY ObjectsKept DEF ObjectsInv, ObjectsOK
<1>2. op'.before \subseteq used'
  BY <1>1, BeforeKept DEF AlwaysInv
<1>3. Unique' /\ UsedClosed'
  <2>1. CASE used' = used /\ present' \subseteq present
    BY <2>1 DEF AlwaysInv, Unique, UsedClosed
  <2>2. ASSUME NEW h \in Handles, Parent[h] \in present \cup {Root},
               \A g \in present : Path[g] # Path[h],
               present' = present \cup {h}, used' = used \cup {h}
        PROVE  Unique' /\ UsedClosed'
    BY <1>1, <2>2 DEF AlwaysInv, Unique, UsedClosed
  <2> QED
    BY <2>1, <2>2, ObjectMoves DEF ObjectsInv, ObjectsOK
<1> QED
  BY <1>2, <1>3 DEF AlwaysInv

LEMMA CalmBefore ==
    ASSUME ObjectsInv, [Next]_vars, Calm'
    PROVE  /\ Calm /\ ~Fails /\ faults' = 0 /\ ~Vanish /\ ~RemoveCard
           /\ DeleteFile /\ Deleted => op.parent # Special
<1>1. /\ vanished \in Nat /\ faults \in Nat /\ astray \in BOOLEAN
      /\ vanished' = 0 /\ faults' = 0 /\ ~astray'
  BY DEF ObjectsInv, CountOK, Calm
<1>2. CountMove /\ AstrayMove
  BY WireMoves DEF ObjectsInv, ObjectsOK
<1>3. vanished = 0 /\ faults = 0
  BY <1>1, <1>2 DEF CountMove
<1>4. ~Fails /\ ~Vanish /\ ~RemoveCard
  BY <1>1, <1>3 DEF Fails, Vanish, RemoveCard
<1>5. ~astray
  BY <1>1, <1>2 DEF AstrayMove
<1>6. ASSUME DeleteFile, Deleted PROVE op.parent # Special
  <2>1. astray' = (astray \/ op.parent = Special) \/ NotDeleted("ok")
    BY <1>6 DEF DeleteFile
  <2>2. ~NotDeleted("ok") \/ op.parent # Special
    BY <1>4 DEF NotDeleted
  <2> QED
    BY <1>1, <2>1, <2>2
<1> QED
  BY <1>1, <1>3, <1>4, <1>5, <1>6 DEF Calm

\* An announcement is there until the event is taken from the queue.
LEMMA AnnouncedStays ==
    ASSUME ObjectsInv, [Next]_vars, pc \notin {"pop", "added"}, NEW h, Announced(h)
    PROVE  Announced(h)'
<1>1. Announced(h) <=> Added(h) \in Queue \/ (pc = "added" /\ op.parent = h)
  BY DEF Announced, Added, Queue
<1>2. Added(h) \in Queue' => Announced(h)'
  BY DEF Announced, Added, Queue
<1>3. ~PopEvent
  BY DEF PopEvent
<1> QED
  BY <1>1, <1>2, <1>3, QueueMoves, WireMoves DEF ObjectsInv, ObjectsOK

LEMMA OnlyAddedKept ==
    ASSUME ObjectsInv, OnlyAdded, [Next]_vars, ~Vanish, ~RemoveCard
    PROVE  OnlyAdded'
<1>1. CASE Camera /\ \E e \in Event : wire' = Append(wire, e) /\ Queue' = Queue \cup {e}
  <2>1. PICK e \in Event : wire' = Append(wire, e) /\ Queue' = Queue \cup {e}
    BY <1>1
  <2>2. PICK h \in Handles : wire' = Append(wire, Added(h))
    BY <1>1 DEF Camera, Capture, Added
  <2>3. e = Added(h)
    <3>1. Added(h) \in Event /\ wire \in Seq(Event)
      BY DEF ObjectsInv, WireOK, Added, Event
    <3>2. \A x \in Event : Append(wire, x)[Len(wire) + 1] = x
      BY <3>1
    <3>3. Append(wire, e)[Len(wire) + 1] = e
      BY <3>2
    <3>4. Append(wire, Added(h))[Len(wire) + 1] = Added(h)
      BY <3>1, <3>2
    <3>5. Append(wire, e) = Append(wire, Added(h))
      BY <2>1, <2>2
    <3> QED
      BY <3>3, <3>4, <3>5
  <2> QED
    BY <2>1, <2>3 DEF OnlyAdded, Added
<1>2. CASE Queue' \subseteq Queue
  BY <1>2 DEF OnlyAdded
<1> QED
  BY <1>1, <1>2, QueueMoves, WireMoves DEF ObjectsInv, ObjectsOK

(***************************************************************************)
(* The array while all is calm                                              *)
(***************************************************************************)
\* The place of an object is recorded in the array c.
PlacedIn(c, h) == h \in DOMAIN c /\ c[h].parent # None /\ c[h].store

\* The array loses only what is gone, gains only what the camera has, and forgets no
\* place; what it gains without a place is in the root.
Gentle(c) ==
    /\ DOMAIN c \subseteq Cached \cup present
    /\ Cached \cap present \subseteq DOMAIN c
    /\ \A h \in DOMAIN c \cap Cached : PlacedIn(cache, h) => PlacedIn(c, h)
    /\ \A h \in DOMAIN c \ Cached : PlacedIn(c, h) \/ Parent[h] = Root

LEMMA GentleFilled ==
    ASSUME ObjectsOK, NEW h \in present
    PROVE  /\ Gentle(Filled(h)) /\ DOMAIN Filled(h) = Cached \cup {h}
           /\ PlacedIn(Filled(h), h)
<1> DEFINE c == Inserted(h)
<1>1. Good(c, used) /\ DOMAIN c = Cached \cup {h} /\ h \in Handles
  BY GoodInserted DEF ObjectsOK
<1>2. c[h] \in Entry /\ \A g \in Cached : c[g] = cache[g]
  BY <1>1 DEF Good, Inserted
<1> DEFINE e == [c[h] EXCEPT !.parent = IF @ = None THEN Parent[h] ELSE @,
                             !.store = TRUE, !.info = TRUE]
<1>3. e.store /\ e.parent # None
  BY <1>1, <1>2, ParentType DEF Entry
<1>4. Filled(h) = [c EXCEPT ![h] = e]
  BY DEF Filled
<1> HIDE DEF c, e
<1>5. /\ DOMAIN Filled(h) = Cached \cup {h} /\ Filled(h)[h] = e
      /\ \A g \in Cached \ {h} : Filled(h)[g] = cache[g]
  BY <1>1, <1>2, <1>4
<1> QED
  BY <1>3, <1>5 DEF Gentle, PlacedIn, Cached

LEMMA GentleMerged ==
    ASSUME ObjectsOK, NEW c \in {cache, Marked(op.parent)},
           NEW folder \in Handles \cup {Root}, NEW store \in BOOLEAN, store \/ folder = Root
    PROVE  /\ Gentle(Merged(c, Children(folder), folder, store))
           /\ DOMAIN Merged(c, Children(folder), folder, store) = Cached \cup Children(folder)
<1> DEFINE m == Merged(c, Children(folder), folder, store)
<1>1. Good(c, used) /\ DOMAIN c = Cached /\ \A h \in Cached : PlacedIn(cache, h) => PlacedIn(c, h)
  <2>1. Good(c, used)
    BY GoodMarked DEF ObjectsOK
  <2>2. CASE c = cache
    BY <2>1, <2>2 DEF Cached
  <2>3. CASE c = Marked(op.parent) /\ op.parent \in Cached
    <3>1. c = [cache EXCEPT ![op.parent].listed = TRUE]
      BY <2>3 DEF Marked
    <3>2. cache[op.parent] \in Entry
      BY <2>3 DEF ObjectsOK, Good, Cached
    <3>3. /\ DOMAIN c = Cached /\ \A h \in Cached \ {op.parent} : c[h] = cache[h]
          /\ c[op.parent] = [cache[op.parent] EXCEPT !.listed = TRUE]
      BY <2>3, <3>1 DEF Cached
    <3>4. c[op.parent].parent = cache[op.parent].parent
          /\ c[op.parent].store = cache[op.parent].store
      BY <3>2, <3>3 DEF Entry
    <3> QED
      BY <2>1, <3>3, <3>4 DEF PlacedIn, Cached
  <2>4. CASE c = Marked(op.parent) /\ op.parent \notin Cached
    BY <2>1, <2>4 DEF Marked, Cached
  <2> QED
    BY <2>2, <2>3, <2>4
<1>2. DOMAIN m = Cached \cup Children(folder) /\ folder # None
  BY <1>1, ObjectsAssumption DEF Merged
<1>3. ASSUME NEW h \in Cached, PlacedIn(cache, h) PROVE PlacedIn(m, h)
  <2>1. PlacedIn(c, h) /\ h \in DOMAIN c
    BY <1>1, <1>3
  <2>2. CASE h \notin Children(folder)
    BY <1>2, <2>1, <2>2 DEF Merged, PlacedIn
  <2>3. CASE h \in Children(folder)
    <3>1. m[h] = [c[h] EXCEPT !.parent = folder, !.store = @ \/ store] /\ c[h] \in Entry
      BY <2>1, <2>3, <1>1 DEF Merged, Good
    <3>2. m[h].parent = folder
      BY <3>1 DEF Entry
    <3>3. m[h].store = (c[h].store \/ store)
      BY <3>1 DEF Entry
    <3>4. m[h].store
      BY <2>1, <3>3 DEF PlacedIn
    <3> QED
      BY <1>2, <3>2, <3>4 DEF PlacedIn
  <2> QED
    BY <2>2, <2>3
<1>4. ASSUME NEW h \in Children(folder), h \notin Cached
      PROVE  PlacedIn(m, h) \/ Parent[h] = Root
  <2>1. m[h] = [Fresh EXCEPT !.parent = IF folder = Root THEN None ELSE folder,
                             !.store = store]
    BY <1>1, <1>4 DEF Merged
  <2>2. m[h].parent = (IF folder = Root THEN None ELSE folder)
    BY <2>1 DEF Fresh
  <2>3. m[h].store = store
    BY <2>1 DEF Fresh
  <2>4. Parent[h] = folder
    BY DEF Children
  <2> QED
    BY <1>2, <2>2, <2>3, <2>4 DEF PlacedIn
<1>5. Children(folder) \subseteq present
  BY DEF Children
<1> HIDE DEF m
<1>6. Gentle(m)
  BY <1>2, <1>3, <1>4, <1>5 DEF Gentle
<1> QED
  BY <1>2, <1>6 DEF m

LEMMA GentleMarked ==
    ASSUME ObjectsOK
    PROVE  Gentle(Marked(op.parent)) /\ DOMAIN Marked(op.parent) = Cached
<1>1. DOMAIN Marked(op.parent) = Cached
  BY MarkedListed
<1>2. ASSUME NEW h \in Cached, PlacedIn(cache, h) PROVE PlacedIn(Marked(op.parent), h)
  <2>1. cache[h] \in Entry
    BY DEF ObjectsOK, Good, Cached
  <2>2. \/ Marked(op.parent)[h] = cache[h]
        \/ Marked(op.parent)[h] = [cache[h] EXCEPT !.listed = TRUE]
    BY DEF Marked, Cached
  <2>3. /\ Marked(op.parent)[h].parent = cache[h].parent
        /\ Marked(op.parent)[h].store = cache[h].store
    BY <2>1, <2>2 DEF Entry
  <2> QED
    BY <1>1, <1>2, <2>3 DEF PlacedIn
<1> QED
  BY <1>1, <1>2 DEF Gentle

\* An object is taken out of the array.
LEMMA GentleDropped ==
    ASSUME NEW h, h \notin present
    PROVE  Gentle(Dropped(h)) /\ DOMAIN Dropped(h) = Cached \ {h}
BY DEF Gentle, Dropped, PlacedIn, Cached

LEMMA GentleSame == Gentle(cache)
BY DEF Gentle, PlacedIn, Cached

(***************************************************************************)
(* The world while all is calm                                              *)
(***************************************************************************)
\* A step that leaves the objects of the camera as they are.
LEMMA WorldSteady ==
    ASSUME ObjectsInv, WorldInv, OnlyAdded', present' = present, Gentle(cache'),
           \A p \in known' : \/ p \in known \/ Misnamed(p)
                             \/ \E t \in present : Path[t] = p /\ There(t)',
           \/ known \subseteq known'
              /\ \A f \in present \cap Folders : Path[f] \in known' => Path[f] \in known
           \/ known' = {}
           \/ \A g \in Cached' \cap present : Placed(g)'
    PROVE  WorldInv'
<1>1. /\ present \subseteq Handles /\ Closed
      /\ Cached' \subseteq Cached \cup present /\ Cached \cap present \subseteq Cached'
  BY DEF ObjectsInv, ObjectsOK, Gentle, Cached
<1>2. KnownThere'
  <2> SUFFICES ASSUME NEW p \in known', ~Misnamed(p)
               PROVE  \E t \in present' : Path[t] = p /\ There(t)'
    BY DEF KnownThere, Misnamed
  <2>1. CASE p \in known
    <3>1. PICK t \in present : Path[t] = p /\ There(t)
      BY <2>1 DEF WorldInv, KnownThere
    <3>2. Ancestors[t] \subseteq Cached \cap present
      BY <1>1, <3>1, AncestorsPresent DEF There
    <3>3. There(t)'
      BY <1>1, <3>2 DEF There
    <3> QED
      BY <3>1, <3>3
  <2> QED
    BY <2>1
<1>3. GonePlaced'
  <2> SUFFICES ASSUME NEW g \in Cached', g \notin present
               PROVE  PlacedIn(cache', g) /\ Parent[g] \notin present \cup {Root}
    BY DEF GonePlaced, Placed, PlacedIn, Cached
  <2>1. g \in Cached \ present
    BY <1>1
  <2>2. PlacedIn(cache, g) /\ Parent[g] \notin present \cup {Root}
    BY <2>1 DEF WorldInv, GonePlaced, Placed, PlacedIn, Cached
  <2> QED
    BY <2>1, <2>2 DEF Gentle, Cached
<1>4. UnplacedKnown'
  <2> SUFFICES ASSUME NEW g \in Cached', g \in present, ~Placed(g)',
                      NEW f \in Ancestors[g] \ {g}, Path[f] \in known'
               PROVE  Path[g] \in known'
    BY DEF UnplacedKnown
  <2>1. g \in Cached
    <3>1. CASE Parent[g] = Root
      <4>1. Ancestors[g] = {g}
        BY <1>1, <3>1, ForestFacts
      <4> QED
        BY <4>1
    <3>2. CASE Parent[g] # Root
      BY <3>2 DEF Gentle, Placed, PlacedIn, Cached
    <3> QED
      BY <3>1, <3>2
  <2>2. ~Placed(g)
    BY <2>1 DEF Gentle, Placed, PlacedIn, Cached
  <2>3. f \in present /\ f \in Folders
    BY <1>1, AncestorsPresent, AncestorStarts
  <2>4. known \subseteq known' /\ Path[f] \in known
    BY <2>3
  <2> QED
    BY <2>1, <2>2, <2>4 DEF WorldInv, UnplacedKnown
<1> QED
  BY <1>2, <1>3, <1>4 DEF WorldInv

\* A step after which the camera has one more object, of which the array has nothing
\* or nothing but the handle.
LEMMA WorldGrown ==
    ASSUME ObjectsInv, AlwaysInv, WorldInv, OnlyAdded',
           NEW h \in Handles, New(h), present' = present \cup {h},
           \/ cache' = cache /\ known' = known
           \/ /\ cache' = Inserted(h) /\ known' = known \cup {Path[h]}
              /\ There(Parent[h])
    PROVE  WorldInv'
<1>1. /\ present \subseteq Handles /\ Closed /\ h \notin Cached /\ h \notin present
      /\ Cached \subseteq Cached' /\ Cached' \subseteq Cached \cup {h}
      /\ \A g \in Cached : cache'[g] = cache[g]
      /\ \A g \in present : Path[g] # Path[h]
  BY DEF ObjectsInv, ObjectsOK, Good, Cached, Inserted, New
<1>2. KnownThere'
  <2> SUFFICES ASSUME NEW p \in known', ~Misnamed(p)
               PROVE  \E t \in present' : Path[t] = p /\ There(t)'
    BY DEF KnownThere, Misnamed
  <2>1. CASE p \in known
    <3>1. PICK t \in present : Path[t] = p /\ There(t)
      BY <2>1 DEF WorldInv, KnownThere
    <3> QED
      BY <1>1, <3>1 DEF There
  <2>2. CASE p \notin known
    <3>1. p = Path[h] /\ There(Parent[h]) /\ Cached' = Cached \cup {h}
      BY <2>2 DEF Inserted, Cached
    <3>2. Ancestors[h] \subseteq Cached'
      BY <3>1, ForestFacts DEF There
    <3> QED
      BY <3>1, <3>2 DEF There
  <2> QED
    BY <2>1, <2>2
<1>3. GonePlaced'
  <2> SUFFICES ASSUME NEW g \in Cached', g \notin present'
               PROVE  Placed(g)' /\ Parent[g] \notin present' \cup {Root}
    BY DEF GonePlaced
  <2>1. g \in Cached \ present
    BY <1>1
  <2>2. Placed(g) /\ Parent[g] \notin present \cup {Root}
    BY <2>1 DEF WorldInv, GonePlaced
  <2>3. Parent[g] \in used \cup {Root} /\ h \notin used
    BY <2>1 DEF AlwaysInv, UsedClosed, ObjectsInv, ObjectsOK, Good, Cached, New
  <2> QED
    BY <1>1, <2>1, <2>2, <2>3 DEF Placed
<1>4. UnplacedKnown'
  <2> SUFFICES ASSUME NEW g \in Cached', g \in present', ~Placed(g)',
                      NEW f \in Ancestors[g] \ {g}, Path[f] \in known'
               PROVE  Path[g] \in known'
    BY DEF UnplacedKnown
  <2>1. CASE g = h
    BY <1>1, <2>1 DEF Inserted, Cached
  <2>2. CASE g # h
    <3>1. g \in Cached \cap present /\ ~Placed(g)
      BY <1>1, <2>2 DEF Placed
    <3>2. f \in present
      BY <1>1, <3>1, AncestorsPresent
    <3>3. Path[f] \in known
      BY <1>1, <3>2
    <3> QED
      BY <3>1, <3>3 DEF WorldInv, UnplacedKnown
  <2> QED
    BY <2>1, <2>2
<1> QED
  BY <1>2, <1>3, <1>4 DEF WorldInv

\* A file, or a folder in which the frontend knows nothing, is deleted.
LEMMA WorldShrunk ==
    ASSUME ObjectsInv, AlwaysInv, WorldInv, OnlyAdded', NEW x \in present,
           present' = present \ Below(x), cache' = Dropped(x),
           known' = {p \in known : ~IsPrefix(Path[x], p)}, Path[x] \in known,
           \/ Path[x] \notin FolderPaths
           \/ \A p \in known : ~IsStrictPrefix(Path[x], p)
    PROVE  WorldInv'
<1>1. /\ present \subseteq Handles /\ Closed /\ x \in Handles
      /\ Cached' = Cached \ {x} /\ \A g \in Cached' : cache'[g] = cache[g]
      /\ Cached \subseteq Handles
  BY DEF ObjectsInv, ObjectsOK, Good, Cached, Dropped
<1>2. ASSUME NEW t \in Handles
      PROVE  /\ Path[t] \in Seq(Names)
             /\ IsPrefix(Path[x], Path[t]) <=> Starts(Path[x], Path[t])
             /\ t \in Below(x) => Starts(Path[x], Path[t])
  BY <1>1, PathLast, PrefixStarts, AncestorStarts, DepthFacts DEF Below
<1>3. KnownThere'
  <2> SUFFICES ASSUME NEW p \in known', ~Misnamed(p)
               PROVE  \E t \in present' : Path[t] = p /\ There(t)'
    BY DEF KnownThere, Misnamed
  <2>1. PICK t \in present : Path[t] = p /\ There(t)
    BY DEF WorldInv, KnownThere
  <2>2. t \notin Below(x)
    BY <1>1, <1>2, <2>1
  <2>3. x \notin Ancestors[t]
    BY <1>1, <2>2 DEF Below
  <2>4. Ancestors[t] \subseteq Cached'
    BY <1>1, <2>1, <2>3 DEF There
  <2> QED
    BY <2>1, <2>2, <2>4 DEF There
<1>4. GonePlaced'
  <2> SUFFICES ASSUME NEW g \in Cached', g \notin present'
               PROVE  Placed(g)' /\ Parent[g] \notin present' \cup {Root}
    BY DEF GonePlaced
  <2>1. CASE g \notin present
    BY <1>1, <2>1 DEF WorldInv, GonePlaced, Placed
  <2>2. CASE g \in present
    <3>1. g \in Below(x) /\ g # x /\ x \in Ancestors[g] /\ g \in Cached /\ g \in Handles
      BY <1>1, <2>2 DEF Below
    <3>2. Parent[g] \in Below(x)
      <4>1. x \in Ancestors[Parent[g]]
        BY <3>1, ForestFacts
      <4>2. Parent[g] \in Handles
        BY <3>1, <4>1, ForestFacts, ParentType
      <4> QED
        BY <4>1, <4>2 DEF Below
    <3>3. Parent[g] \notin present' \cup {Root}
      BY <3>2, ObjectsAssumption DEF Below
    <3>4. Placed(g)
      <4> SUFFICES ASSUME ~Placed(g) PROVE FALSE
        OBVIOUS
      <4>1. Path[g] \in known
        BY <2>2, <3>1 DEF WorldInv, UnplacedKnown
      <4>2. x \in Folders /\ Len(Path[x]) < Len(Path[g])
        BY <3>1, AncestorStarts, DepthFacts
      <4>3. IsStrictPrefix(Path[x], Path[g])
        BY <1>2, <3>1, <4>2 DEF IsStrictPrefix
      <4> QED
        BY <4>1, <4>2, <4>3 DEF FolderPaths
    <3> QED
      BY <1>1, <3>3, <3>4 DEF Placed
  <2> QED
    BY <2>1, <2>2
<1>5. UnplacedKnown'
  <2> SUFFICES ASSUME NEW g \in Cached', g \in present', ~Placed(g)',
                      NEW f \in Ancestors[g] \ {g}, Path[f] \in known'
               PROVE  Path[g] \in known'
    BY DEF UnplacedKnown
  <2>1. g \in Cached \cap present /\ ~Placed(g) /\ g \notin Below(x) /\ g \in Handles
    BY <1>1 DEF Placed
  <2>2. Path[g] \in known
    BY <2>1 DEF WorldInv, UnplacedKnown
  <2>3. ~Starts(Path[x], Path[g])
    <3> SUFFICES ASSUME Starts(Path[x], Path[g]) PROVE FALSE
      OBVIOUS
    <3>1. PICK a \in Ancestors[g] : Path[a] = Path[x]
      BY <1>1, <2>1, PathLast, AncestorAt, DepthFacts
    <3>2. a \in present
      BY <1>1, <2>1, AncestorsPresent
    <3>3. a = x
      BY <3>1, <3>2 DEF AlwaysInv, Unique
    <3> QED
      BY <2>1, <3>1, <3>3 DEF Below
  <2> QED
    BY <1>2, <2>1, <2>2, <2>3
<1> QED
  BY <1>3, <1>4, <1>5 DEF WorldInv

(***************************************************************************)
(* The running operation while all is calm                                  *)
(***************************************************************************)
CalmNow ==
    /\ ObjectsInv /\ LoadedInv /\ AlwaysInv /\ WorldInv /\ OpCalm
    /\ [Next]_vars /\ Calm'
CalmGoal == WorldInv' /\ OpCalm'

LEMMA CalmFacts ==
    ASSUME CalmNow
    PROVE  /\ OnlyAdded' /\ LoadedInv' /\ ObjectsInv' /\ AlwaysInv'
           /\ ~Fails /\ faults = 0 /\ faults' = 0 /\ ~Vanish /\ ~RemoveCard
           /\ DeleteFile /\ Deleted => op.parent # Special
           /\ present \subseteq Handles /\ Cached \subseteq Handles /\ Closed
           /\ DOMAIN op = OpFields
<1>1. /\ ~Fails /\ faults = 0 /\ faults' = 0 /\ ~Vanish /\ ~RemoveCard
      /\ DeleteFile /\ Deleted => op.parent # Special
  BY CalmBefore DEF CalmNow, Calm
<1>2. OnlyAdded'
  BY <1>1, OnlyAddedKept DEF CalmNow, WorldInv
<1>3. ObjectsInv' /\ LoadedInv' /\ AlwaysInv'
  BY ObjectsInvKept, LoadedKept, AlwaysKept DEF CalmNow
<1> QED
  BY <1>1, <1>2, <1>3 DEF CalmNow, ObjectsInv, ObjectsOK, Good, Cached, OpOK

\* Nothing is said of an operation that looks for no object.
LEMMA Quiet ==
    ASSUME pc' \in {"return", "idle", "pop", "added"},
           pc' = "return" => op'.kind \notin Listings \/ op'.result # "ok"
    PROVE  OpCalm'
BY DEF OpCalm, AskedInv, ReachedInv, ListedInv, FindInv, MissedInv, ScanInv, PathInv,
   ListingComplete, Searching

\* What a step keeps that leaves the objects, the array and the known paths alone.
LEMMA WorldSame ==
    ASSUME CalmNow, UNCHANGED <<present, cache, known>>
    PROVE  WorldInv'
<1>1. Gentle(cache')
  BY GentleSame
<1> QED
  BY <1>1, CalmFacts, WorldSteady DEF CalmNow

LEMMA ReplyGoal ==
    ASSUME CalmNow, NEW r, Reply(r), op.kind \notin Listings, UNCHANGED <<present, cache, known>>
    PROVE  CalmGoal
<1>1. op'.kind = op.kind /\ pc' = "return"
  BY CalmFacts DEF Reply, OpFields
<1> QED
  BY <1>1, WorldSame, Quiet DEF CalmGoal

LEMMA BeginGoal ==
    ASSUME CalmNow, Frontend
    PROVE  CalmGoal
<1>1. known \subseteq Paths
  BY DEF CalmNow, ObjectsInv, OpOK
<1>8. \A p \in FoldersKnown : p \in Seq(Names)
  <2>1. <<>> \in Seq(Names)
    OBVIOUS
  <2> QED
    BY <1>1, <2>1 DEF FoldersKnown, Paths
<1>2. PICK kind \in Kinds \ {"init"}, path \in Seq(Names) :
        /\ Begin(kind, path)
        /\ kind \in Listings => path \in FoldersKnown
        /\ kind \in {"info", "delete"} => path \in known \ FolderPaths
        /\ kind = "rmdir" => /\ path \in known \cap FolderPaths
                             /\ \A p \in known : ~IsStrictPrefix(path, p)
        /\ kind \in Uploads => \E p \in FoldersKnown, n \in Names : path = Append(p, n)
  <2> USE DEF Kinds, Listings, Removals, Uploads
  <2>1. CASE List
    <3>1. PICK kind \in Listings, path \in FoldersKnown : Begin(kind, path)
      BY <2>1 DEF List, FoldersKnown
    <3>2. path \in Seq(Names)
      BY <1>8
    <3> QED
      BY <3>1, <3>2
  <2>2. CASE GetInfo \/ Delete \/ RemoveFolder
    BY <1>1, <2>2 DEF GetInfo, Delete, RemoveFolder, Paths
  <2>3. CASE Upload
    <3>1. PICK h \in Handles : /\ Parent[h] = Root \/ Path[Parent[h]] \in known
                               /\ Begin(IF h \in Folders THEN "mkdir" ELSE "put", Path[h])
      BY <2>3 DEF Upload
    <3>2. Path[Parent[h]] \in FoldersKnown
      BY <3>1, ObjectsAssumption, ForestFacts DEF FoldersKnown, FolderPaths
    <3>3. /\ Path[h] \in Seq(Names) /\ Name[h] \in Names
          /\ Path[h] = Append(Path[Parent[h]], Name[h])
      BY PathLast
    <3>4. \E p \in FoldersKnown, n \in Names : Path[h] = Append(p, n)
      BY <3>2, <3>3
    <3>5. PICK kind \in Uploads : Begin(kind, Path[h])
      BY <3>1
    <3> HIDE DEF Uploads
    <3>6. kind \in Kinds \ {"init"} /\ kind \notin Listings \cup {"info", "delete", "rmdir"}
      BY DEF Uploads
    <3> QED
      BY <3>3, <3>4, <3>5, <3>6
  <2>4. CASE WaitForEvent
    <3>1. Begin("wait", <<>>) /\ <<>> \in Seq(Names)
      BY <2>4 DEF WaitForEvent
    <3>2. "wait" \in Kinds \ {"init"}
      OBVIOUS
    <3> QED
      BY <3>1, <3>2
  <2> QED
    BY <2>1, <2>2, <2>3, <2>4 DEF Frontend
<1> DEFINE o == NewOp(kind, path)
           special == kind \in Uploads /\ Len(path) = 1
<1>3. /\ DOMAIN o = OpFields /\ o.kind = kind /\ o.path = path /\ o.todo = path
      /\ o.got = {} /\ o.dest = Root
  BY DEF NewOp, OpFields
<1>4. op' = Descend(o, Root, path)
  BY <1>2 DEF Begin
<1> HIDE DEF o
<1>5. /\ op'.kind = kind /\ op'.path = path /\ op'.todo = path /\ op'.got = {}
      /\ op'.parent = (IF special THEN Special ELSE Root)
      /\ special => op'.dest = Special
  BY <1>3, <1>4 DEF Descend, OpFields
<1>6. /\ UNCHANGED <<present, cache, known>> /\ pc' \in {"event", "folder"}
      /\ pc' = "folder" => kind # "wait"
  BY <1>2 DEF Begin, camera
<1>7. path = <<>> => kind \in Listings \cup {"wait"}
  <2>1. \A p \in Seq(Names), n \in Names : Append(p, n) # <<>>
    OBVIOUS
  <2>3. kind \in Uploads => path # <<>>
    BY <1>2, <1>8, <2>1
  <2>4. kind \in {"info", "delete", "rmdir"} => path # <<>>
    BY <1>1, <1>2 DEF Paths
  <2> QED
    BY <1>2, <2>3, <2>4 DEF Kinds, Removals
<1> HIDE DEF special
<1>12. AskedInv'
  BY <1>2, <1>5, <1>6, <1>7 DEF AskedInv, FoldersKnown
<1>9. There(Root)' /\ Special # Root
  BY ForestFacts, ObjectsAssumption DEF There
<1>10. ReachedInv'
  <2>1. CASE special
    BY <1>5, <1>6, <1>9, <2>1 DEF ReachedInv, special
  <2>2. CASE ~special
    BY <1>5, <1>6, <1>9, <2>2 DEF ReachedInv, special
  <2> QED
    BY <2>1, <2>2
<1>11. OpCalm'
  BY <1>6, <1>12, <1>10 DEF OpCalm, ListedInv, FindInv, MissedInv, ScanInv, PathInv,
     ListingComplete
<1> QED
  BY <1>6, <1>11, WorldSame DEF CalmGoal

\* Steps before the search, and those of an event.
LEMMA EventGoal ==
    ASSUME CalmNow, NoEvent \/ ReadEvent
    PROVE  CalmGoal
<1>1. /\ pc = "event" /\ pc' = NextPhase
      /\ UNCHANGED <<present, cache, known, op>>
  <2>1. CASE NoEvent
    BY <2>1 DEF NoEvent, camera
  <2>2. CASE ReadEvent
    <3>1. wire # <<>> /\ wire \in Seq(Event)
      BY <2>2 DEF ReadEvent, CalmNow, ObjectsInv, WireOK
    <3>2. Head(wire) \in Queue
      BY <3>1, RangeTail DEF Queue
    <3>3. Head(wire).type = "Added"
      BY <3>2 DEF CalmNow, WorldInv, OnlyAdded
    <3> QED
      BY <2>2, <3>3 DEF ReadEvent, camera
  <2> QED
    BY <2>1, <2>2
<1>2. CASE op.kind = "wait"
  BY <1>1, <1>2, WorldSame, Quiet DEF NextPhase, CalmGoal
<1>3. CASE op.kind # "wait"
  <2>1. pc' = "folder"
    BY <1>1, <1>3 DEF NextPhase
  <2>2. AskedInv'
    BY <1>1, <1>3, <2>1 DEF CalmNow, OpCalm, AskedInv, Searching, FoldersKnown
  <2>3. ReachedInv'
    BY <1>1, <2>1 DEF CalmNow, OpCalm, ReachedInv, Searching, There, Cached
  <2>4. OpCalm'
    BY <2>1, <2>2, <2>3 DEF OpCalm, ListedInv, FindInv, MissedInv, ScanInv, PathInv,
       ListingComplete
  <2> QED
    BY <1>1, <2>4, WorldSame DEF CalmGoal
<1> QED
  BY <1>2, <1>3

LEMMA ListRootGoal ==
    ASSUME CalmNow, ListRoot
    PROVE  CalmGoal
<1>1. /\ pc \in {"rootall", "rootstore"} /\ pc' \in {"rootstore", "idle"}
      /\ UNCHANGED <<present, known, op>> /\ op.kind = "init"
      /\ cache' = Merged(cache, Children(Root), Root, pc = "rootstore")
  BY CalmFacts DEF ListRoot, CalmNow, OpCalm, AskedInv, camera
<1>2. Gentle(cache')
  <2>1. (pc = "rootstore") \in BOOLEAN
    OBVIOUS
  <2> QED
    BY <1>1, <2>1, GentleMerged DEF CalmNow, ObjectsInv
<1>3. WorldInv'
  BY <1>1, <1>2, CalmFacts, WorldSteady DEF CalmNow
<1>4. OpCalm'
  BY <1>1 DEF OpCalm, AskedInv, ReachedInv, ListedInv, FindInv, MissedInv, ScanInv,
     PathInv, ListingComplete, Searching
<1> QED
  BY <1>3, <1>4 DEF CalmGoal

\* The search of a folder begins: the folder is there, and so is, in the array, what
\* it holds.
LEMMA FolderGoal ==
    ASSUME CalmNow, ListFolder
    PROVE  CalmGoal
<1> USE CalmFacts DEF CalmNow
<1>1. /\ pc = "folder" /\ op.got = {} /\ UNCHANGED <<present, known>>
      /\ op.parent # Special => There(op.parent)
      /\ op.todo = <<>> => op.kind \in Listings
  BY DEF ListFolder, FolderKnown, FetchHandles, camera, OpCalm, AskedInv, ReachedInv,
     Searching
<1>2. /\ FolderListed /\ Gentle(cache')
      /\ \A h \in present : Parent[h] = op.parent => h \in Cached' \/ Announced(h)'
  <2>1. CASE FolderKnown
    <3>1. FolderListed /\ IsLoaded /\ UNCHANGED <<cache, wire, events, faults>>
      BY <2>1 DEF FolderKnown
    <3>2. ASSUME NEW h \in present, Parent[h] = op.parent PROVE h \in Cached' \/ Announced(h)'
      <4>1. Parent[h] = Root \/ (Parent[h] \in Cached /\ cache[Parent[h]].listed)
        BY <3>1, <3>2 DEF IsLoaded
      <4>2. h \in Cached \/ Announced(h)
        BY <1>1, <4>1 DEF LoadedInv, LoadedFoldersComplete
      <4> QED
        BY <1>1, <3>1, <4>2, AnnouncedStays DEF Cached
    <3> QED
      BY <3>1, <3>2, GentleSame
  <2>2. CASE FetchHandles
    <3> DEFINE folder == IF op.parent = Special THEN Root ELSE op.parent
    <3>1. folder \in Handles \cup {Root} /\ folder \in present \cup {Root}
      BY <1>1, ObjectsAssumption DEF ObjectsInv, ParentOK, There
    <3>2. /\ cache' = Merged(Marked(op.parent), Children(folder), folder, TRUE)
          /\ FolderListed
      BY <2>2, <3>1 DEF FetchHandles, Marked, Refused
    <3>3. op.parent \in {folder, Special} /\ \A h \in Handles : Parent[h] # Special
      BY ObjectsAssumption, ParentType
    <3> HIDE DEF folder
    <3>4. Gentle(cache') /\ Cached' = Cached \cup Children(folder)
      BY <3>1, <3>2, GentleMerged DEF ObjectsInv, Cached
    <3>5. ASSUME NEW h \in present, Parent[h] = op.parent PROVE h \in Cached'
      BY <3>3, <3>4, <3>5 DEF Children
    <3> QED
      BY <3>2, <3>4, <3>5
  <2> QED
    BY <2>1, <2>2 DEF ListFolder
<1>3. WorldInv'
  BY <1>1, <1>2, WorldSteady
<1>4. /\ pc' = (IF op.todo = <<>> THEN "scan" ELSE "find")
      /\ op'.kind = op.kind /\ op'.path = op.path /\ op'.todo = op.todo
      /\ op'.parent = op.parent /\ op'.dest = op.dest /\ op'.got = op.got /\ op'.i = 0
  BY <1>2 DEF FolderListed, OpFields
<1>5. AskedInv'
  BY <1>1, <1>4 DEF OpCalm, AskedInv, Searching, FoldersKnown
<1>6. \A t : There(t) => There(t)'
  <2> SUFFICES ASSUME NEW t, There(t) PROVE There(t)'
    OBVIOUS
  <2>1. Ancestors[t] \subseteq present
    BY AncestorsPresent DEF There
  <2> QED
    BY <1>1, <1>2, <2>1 DEF There, Gentle, Cached
<1>7. ReachedInv'
  BY <1>1, <1>4, <1>6 DEF OpCalm, ReachedInv, Searching
<1>8. ListedInv'
  BY <1>1, <1>2, <1>4 DEF ListedInv
<1>9. \A h \in Cached' : Index(h)' \in Nat
  <2>1. Cached' \subseteq Handles
    BY DEF ObjectsInv, ObjectsOK, Good, Cached
  <2> QED
    BY <2>1, IndexFacts DEF Index, Rank
<1>10. FindInv' /\ ScanInv'
  BY <1>1, <1>4, <1>9 DEF FindInv, ScanInv
<1>11. MissedInv' /\ PathInv' /\ ListingComplete'
  BY <1>4 DEF MissedInv, PathInv, ListingComplete
<1> QED
  BY <1>3, <1>5, <1>7, <1>8, <1>10, <1>11 DEF CalmGoal, OpCalm

\* What a walk reads is there; what is gone is not in a folder that is walked.
LEMMA ObjectLooked ==
    ASSUME CalmNow, pc \in {"find", "scan"}, NEW h \in Cached, present' = present
    PROVE  /\ NeedsInfo(h) => h \in present
           /\ Look(h) => /\ Gentle(cache') /\ Cached' = Cached /\ Placed(h)'
                         /\ cache'[h].parent = Parent[h]
                         /\ Parent[h] = op.parent => h \in present /\ There(h)
<1> USE CalmFacts DEF CalmNow
<1>1. /\ Parent[h] \in Nodes /\ h \in Handles /\ ObjectsOK
      /\ cache[h].parent \in {None, Parent[h]}
      /\ op.parent = Special \/ There(op.parent)
  BY DepthFacts DEF ObjectsInv, ObjectsOK, Good, Cached, OpCalm, ReachedInv, Searching
<1>2. Parent[h] = op.parent => There(op.parent) /\ op.parent \in present \cup {Root}
  <2>1. Parent[h] # Special
    BY <1>1, ObjectsAssumption DEF Nodes
  <2> QED
    BY <1>1, <2>1 DEF There
<1>3. h \notin present => Placed(h) /\ Parent[h] # op.parent
  BY <1>2 DEF WorldInv, GonePlaced
<1>4. ASSUME NeedsInfo(h) PROVE h \in present
  BY <1>1, <1>3, <1>4 DEF NeedsInfo, Placed
<1>5. ASSUME Look(h)
      PROVE  /\ Gentle(cache') /\ Cached' = Cached /\ Placed(h)'
             /\ cache'[h].parent = Parent[h]
  <2>1. CASE NeedsInfo(h)
    <3>1. h \in present /\ cache' = Filled(h)
      BY <1>5, <2>1 DEF Look, ReadInfo
    <3>2. h \in used
      BY <1>1, <3>1 DEF ObjectsOK
    <3>3. Gentle(Filled(h)) /\ DOMAIN Filled(h) = Cached \cup {h} /\ PlacedIn(Filled(h), h)
      BY <1>1, <3>1, GentleFilled
    <3>4. Filled(h)[h].parent = Parent[h]
      BY <1>1, <3>2, GoodFilled DEF ObjectsOK
    <3> QED
      BY <3>1, <3>3, <3>4 DEF Placed, PlacedIn, Cached
  <2>2. CASE ~NeedsInfo(h)
    <3>1. cache' = cache /\ Placed(h)
      BY <1>5, <2>2 DEF Look, NoTransaction, NeedsInfo
    <3>2. cache[h].parent = Parent[h]
      BY <1>1, <3>1 DEF Placed
    <3> QED
      BY <3>1, <3>2, GentleSame DEF Placed, Cached
  <2> QED
    BY <2>1, <2>2
<1>6. ASSUME Parent[h] = op.parent PROVE h \in present /\ There(h)
  <2>1. h \in present
    BY <1>3, <1>6
  <2>2. Ancestors[h] \subseteq Cached
    BY <1>1, <1>2, <1>6, ForestFacts DEF There
  <2> QED
    BY <2>1, <2>2 DEF There
<1> QED
  BY <1>4, <1>5, <1>6

\* What is there stays there.
LEMMA ThereStays ==
    ASSUME Closed, present \subseteq Handles, present' = present, Gentle(cache'), NEW t, There(t)
    PROVE  There(t)'
<1>1. Ancestors[t] \subseteq present
  BY AncestorsPresent DEF There
<1> QED
  BY <1>1 DEF There, Gentle, Cached

\* An upload that has found the folder of its object.
LEMMA DestFound ==
    ASSUME CalmNow, pc = "find", op.kind \in Uploads, Len(op.todo) = 1
    PROVE  Dest
<1> USE CalmFacts DEF CalmNow
<1>1. op.dest = op.parent /\ op.parent # Root
  BY DEF OpCalm, ReachedInv, Searching
<1>2. CASE op.parent = Special
  BY <1>1, <1>2 DEF OpCalm, ReachedInv, Searching, Dest
<1>3. CASE op.parent # Special
  <2>1. op.parent \in Handles /\ There(op.parent)
    BY <1>1, <1>3 DEF ObjectsInv, ParentOK, OpCalm, ReachedInv, Searching
  <2>2. Path[op.parent] \o op.todo = op.path
    BY <2>1 DEF ObjectsInv, OpInv, Looking, Position
  <2>3. op.todo = <<op.todo[1]>> /\ op.todo[1] \in Names
    BY DEF ObjectsInv, OpOK
  <2>4. Path[op.parent] \o <<op.todo[1]>> = Append(Path[op.parent], op.todo[1])
    BY <2>1, <2>3, PathLast, AppendIsConcat
  <2> QED
    BY <1>1, <2>1, <2>2, <2>3, <2>4 DEF Dest
<1> QED
  BY <1>2, <1>3

LEMMA FindGoal ==
    ASSUME CalmNow, FindChild
    PROVE  CalmGoal
<1> USE CalmFacts DEF CalmNow
<1>1. /\ pc = "find" /\ op.todo # <<>> /\ op.todo \in Seq(Names) /\ op.got = {}
      /\ UNCHANGED <<present, known>> /\ op.i \in Nat
  BY DEF FindChild, camera, OpCalm, AskedInv, ObjectsInv, OpInv, OpOK
<1>2. PICK h \in Cached :
        /\ Index(h) = op.i /\ Look(h)
        /\ IF InThisFolder(h) /\ Name[h] = Head(op.todo) THEN Found(h) ELSE Skip
  <2>1. \A h \in Cached : ~(NeedsInfo(h) /\ Refused(h))
    BY <1>1, ObjectLooked DEF Refused
  <2> QED
    BY <2>1 DEF FindChild
<1>3. /\ Gentle(cache') /\ Cached' = Cached /\ h \in Handles
      /\ InThisFolder(h) <=> Parent[h] = op.parent
      /\ Parent[h] = op.parent => h \in present /\ There(h)
  BY <1>1, <1>2, ObjectLooked DEF InThisFolder
<1>4. WorldInv'
  BY <1>1, <1>3, WorldSteady
<1>5. \A t : There(t) => There(t)'
  BY <1>1, <1>3, ThereStays
<1>6. CASE Parent[h] = op.parent /\ Name[h] = Head(op.todo)
  <2>1. Found(h) /\ h # Root /\ h # Special
    BY <1>2, <1>3, <1>6, ObjectsAssumption
  <2>2. Tail(op.todo) \in Seq(Names) /\ Len(Tail(op.todo)) = Len(op.todo) - 1
    BY <1>1
  <2> DEFINE uploads == op.kind \in Uploads /\ Len(Tail(op.todo)) = 1
  <2>3. /\ op'.kind = op.kind /\ op'.path = op.path /\ op'.todo = Tail(op.todo)
        /\ op'.parent = h /\ op'.got = {}
        /\ op'.dest = (IF uploads THEN h ELSE op.dest)
        /\ pc' = IF op.kind \notin Listings /\ Len(op.todo) = 1 THEN "act" ELSE "folder"
    BY <1>1, <2>1 DEF Found, Descend, OpFields
  <2>4. /\ Tail(op.todo) = <<>> => Len(op.todo) = 1
        /\ Len(op.todo) = 1 => Len(Tail(op.todo)) = 0
    <3>1. Len(op.todo) \in Nat
      BY <1>1
    <3>2. Tail(op.todo) = <<>> <=> Len(Tail(op.todo)) = 0
      BY <2>2, EmptySeq
    <3> QED
      BY <2>2, <3>1, <3>2
  <2>5. AskedInv'
    BY <1>1, <2>3, <2>4 DEF OpCalm, AskedInv, Searching, FoldersKnown
  <2>6. There(h)' /\ h # Special /\ h # Root
    BY <1>3, <1>5, <1>6, <2>1
  <2>7. pc' = "act" /\ op.kind \in Uploads => Dest'
    <3>1. ASSUME pc' = "act", op.kind \in Uploads PROVE Dest'
      <4>1. Len(op.todo) = 1 /\ op'.dest = op.dest
        <5>1. Len(op.todo) = 1
          BY <2>3, <3>1
        <5>2. ~uploads
          <6>1. Len(Tail(op.todo)) = 0
            BY <2>4, <5>1
          <6> QED
            BY ONLY <6>1
        <5>3. op'.dest = IF uploads THEN h ELSE op.dest
          BY <2>3
        <5> HIDE DEF uploads
        <5> QED
          BY ONLY <5>1, <5>2, <5>3
      <4>2. Dest
        BY <1>1, <3>1, <4>1, DestFound
      <4> QED
        BY <1>5, <2>3, <4>1, <4>2 DEF Dest
    <3> QED
      BY <3>1
  <2>8. ReachedInv'
    BY <2>3, <2>6, <2>7 DEF ReachedInv, Searching
  <2>9. pc' \in {"act", "folder"} /\ op'.parent # Special
    BY <2>3, <2>6
  <2>10. ListedInv' /\ FindInv' /\ MissedInv' /\ ScanInv' /\ PathInv' /\ ListingComplete'
    BY <2>9 DEF ListedInv, FindInv, MissedInv, ScanInv, PathInv, ListingComplete
  <2> QED
    BY <1>4, <2>5, <2>8, <2>10 DEF CalmGoal, OpCalm
<1>7. CASE ~(Parent[h] = op.parent /\ Name[h] = Head(op.todo))
  <2>1. Skip
    BY <1>2, <1>3, <1>7
  <2>2. /\ op'.kind = op.kind /\ op'.path = op.path /\ op'.todo = op.todo
        /\ op'.parent = op.parent /\ op'.dest = op.dest /\ op'.got = {}
        /\ op'.i = op.i + 1 /\ pc' = "find"
    BY <1>1, <2>1 DEF Skip, OpFields
  <2>3. AskedInv'
    BY <1>1, <2>2 DEF OpCalm, AskedInv, Searching, FoldersKnown
  <2>4. ReachedInv'
    BY <1>1, <1>5, <2>2 DEF OpCalm, ReachedInv, Searching
  <2>5. ListedInv'
    BY <1>1, <1>3, <2>2, AnnouncedStays DEF OpCalm, ListedInv
  <2>6. FindInv'
    <3> SUFFICES ASSUME NEW g \in Cached, Parent[g] = op.parent, Name[g] = Head(op.todo)
                 PROVE  Index(g) >= op.i + 1
      BY <1>3, <2>2 DEF FindInv, Index
    <3>1. Index(g) >= op.i /\ g # h
      BY <1>1, <1>7 DEF OpCalm, FindInv
    <3>2. Index(g) # Index(h) /\ Index(g) \in Nat
      BY <3>1, IndexFacts DEF Index, Rank
    <3> QED
      BY <1>1, <1>2, <3>1, <3>2
  <2>7. MissedInv' /\ ScanInv' /\ PathInv' /\ ListingComplete'
    BY <2>2 DEF MissedInv, ScanInv, PathInv, ListingComplete
  <2> QED
    BY <1>4, <2>3, <2>4, <2>5, <2>6, <2>7 DEF CalmGoal, OpCalm
<1> QED
  BY <1>6, <1>7

LEMMA AppendEqual ==
    ASSUME NEW p \in Seq(Names), NEW q \in Seq(Names), NEW x \in Names, NEW y \in Names,
           Append(p, x) = Append(q, y)
    PROVE  p = q /\ x = y
<1>1. /\ Len(Append(p, x)) = Len(p) + 1 /\ Append(p, x)[Len(p) + 1] = x
      /\ \A i \in 1 .. Len(p) : Append(p, x)[i] = p[i]
  BY AppendProperties
<1>2. /\ Len(Append(q, y)) = Len(q) + 1 /\ Append(q, y)[Len(q) + 1] = y
      /\ \A i \in 1 .. Len(q) : Append(q, y)[i] = q[i]
  BY AppendProperties
<1>3. Len(p) = Len(q) /\ Len(p) \in Nat
  BY <1>1, <1>2
<1>4. \A i \in 1 .. Len(p) : p[i] = q[i]
  BY <1>1, <1>2, <1>3
<1> QED
  BY <1>1, <1>2, <1>3, <1>4, SeqEqual

\* The child of a folder that is there is found by its name.
LEMMA SameChild ==
    ASSUME Unique, Closed, present \subseteq Handles, NEW f \in present \cup {Root},
           NEW h \in present, NEW n \in Names, Path[h] = Append(Path[f], n)
    PROVE  Parent[h] = f /\ Name[h] = n
<1>1. /\ Path[f] \in Seq(Names) /\ Path[Parent[h]] \in Seq(Names) /\ Name[h] \in Names
      /\ Path[h] = Append(Path[Parent[h]], Name[h])
  BY PathLast, ForestFacts
<1>2. Path[Parent[h]] = Path[f] /\ Name[h] = n
  <2> DEFINE p == Path[Parent[h]]
             q == Path[f]
  <2>1. p \in Seq(Names) /\ q \in Seq(Names) /\ Append(p, Name[h]) = Append(q, n)
    BY <1>1
  <2> HIDE DEF p, q
  <2>2. p = q /\ Name[h] = n
    BY <1>1, <2>1, AppendEqual
  <2> QED
    BY <2>2 DEF p, q
<1>3. Parent[h] \in present \cup {Root}
  BY DEF Closed
<1> QED
  BY <1>2, <1>3, SamePath

\* The folder of a known path, or an object whose path is known and not that of a
\* misnamed file, is there.
LEMMA KnownFound ==
    ASSUME CalmNow, NamesApart, NEW p \in known, p \in FolderPaths \/ Len(p) > 1
    PROVE  \E t \in present : Path[t] = p /\ There(t)
<1> USE CalmFacts DEF CalmNow
<1>1. ~Misnamed(p)
  <2> SUFFICES ASSUME NEW g \in Handles \ Folders, p = <<Name[g]>> PROVE FALSE
    BY DEF Misnamed
  <2>1. Len(p) = 1
    OBVIOUS
  <2>2. PICK f \in Folders : Path[f] = <<Name[g]>>
    BY <2>1 DEF FolderPaths
  <2>3. /\ f \in Handles /\ Path[f] = Append(Path[Parent[f]], Name[f])
        /\ Path[Parent[f]] \in Seq(Names) /\ Name[f] \in Names /\ Parent[f] \in Nodes
    BY PathLast, ObjectsAssumption
  <2>4. <<Name[g]>> = Append(<<>>, Name[g]) /\ Name[g] \in Names /\ <<>> \in Seq(Names)
    BY DEF Names
  <2>5. Path[Parent[f]] = <<>> /\ Name[f] = Name[g]
    <3> DEFINE p1 == Path[Parent[f]]
               q == <<>>
               x == Name[f]
               y == Name[g]
    <3>1. /\ p1 \in Seq(Names) /\ q \in Seq(Names) /\ x \in Names /\ y \in Names
          /\ Append(p1, x) = Append(q, y)
      BY <2>2, <2>3, <2>4
    <3> HIDE DEF p1, q, x, y
    <3>2. p1 = q /\ x = y
      BY ONLY <3>1, AppendEqual
    <3> QED
      BY <3>2 DEF p1, q, x, y
  <2>6. Parent[f] = Root
    BY <2>3, <2>5, PathLast, DepthFacts
  <2> QED
    BY <2>5, <2>6 DEF NamesApart
<1> QED
  BY <1>1 DEF WorldInv, KnownThere

\* While the search has further to go, the next object on the way is there.
LEMMA NextThere ==
    ASSUME CalmNow, NamesApart, pc = "find", op.kind \in Listings \/ Len(op.todo) > 1
    PROVE  \E c \in Cached : Parent[c] = op.parent /\ Name[c] = Head(op.todo)
<1> USE CalmFacts DEF CalmNow
<1>1. /\ op.todo \in Seq(Names) /\ op.path \in Seq(Names) /\ op.todo # <<>>
      /\ known \subseteq Paths /\ op.kind \in Kinds
      /\ op.kind \in Listings => op.path \in FoldersKnown
      /\ op.kind \in {"info", "delete"} => op.path \in known
      /\ op.kind = "rmdir" => op.path \in known \cap FolderPaths
      /\ op.kind \in Uploads => \E p \in FoldersKnown, n \in Names : op.path = Append(p, n)
      /\ op.kind \notin {"init", "wait"}
  BY DEF ObjectsInv, OpOK, OpInv, OpCalm, AskedInv, Searching
<1>2. op.parent # Special /\ There(op.parent) /\ op.parent \in present \cup {Root}
  <2>1. /\ op.parent = Special => op.kind \in Uploads /\ Len(op.todo) = 1
        /\ op.parent # Special => There(op.parent)
    BY DEF OpCalm, ReachedInv, Searching
  <2>2. op.kind \in Uploads => op.kind \notin Listings
    BY DEF Uploads, Listings
  <2>3. ASSUME op.parent = Special PROVE FALSE
    <3>1. op.kind \notin Listings /\ Len(op.todo) = 1
      BY <2>1, <2>2, <2>3
    <3> QED
      BY <3>1
  <2> QED
    BY <2>1, <2>3 DEF There
<1> DEFINE n == Head(op.todo)
           r == Append(Path[op.parent], n)
           f == Path[op.parent]
<1>3. /\ f \in Seq(Names) /\ n \in Names /\ r \in Seq(Names) /\ r # <<>>
      /\ Len(r) = Len(f) + 1
      /\ f \o op.todo = op.path /\ Len(op.path) = Len(f) + Len(op.todo)
      /\ Starts(r, op.path)
  <2>1. op.parent \in Handles \cup {Root} /\ Path[op.parent] \in Seq(Names)
    BY <1>2, ForestFacts, PathLast
  <2>2. f \o op.todo = op.path
    BY <2>1 DEF ObjectsInv, OpInv, Looking, Position
  <2>3. f \in Seq(Names) /\ n \in Names /\ Len(op.todo) \in Nat \ {0}
        /\ op.todo[1] = n
    BY <1>1, <2>1, EmptySeq, HeadTailProperties
  <2> HIDE DEF f, n
  <2>4. /\ Append(f, n) \in Seq(Names) /\ Append(f, n) # <<>>
        /\ Len(Append(f, n)) = Len(f) + 1 /\ Append(f, n)[Len(f) + 1] = n
        /\ \A i \in 1 .. Len(f) : Append(f, n)[i] = f[i]
    BY <2>3, AppendProperties
  <2>5. /\ Len(f \o op.todo) = Len(f) + Len(op.todo)
        /\ \A i \in 1 .. Len(f) : (f \o op.todo)[i] = f[i]
        /\ (f \o op.todo)[Len(f) + 1] = op.todo[1]
    BY <1>1, <2>3
  <2>6. r = Append(f, n) /\ Len(f) \in Nat
    BY <2>3 DEF f
  <2>7. Starts(Append(f, n), op.path)
    BY <2>2, <2>3, <2>4, <2>5, <2>6 DEF Starts
  <2> QED
    BY <2>2, <2>3, <2>4, <2>5, <2>6, <2>7
<1> HIDE DEF f, n, r
<1>4. \E t \in present : There(t) /\ Starts(r, Path[t])
  <2>1. CASE op.kind \in Listings \cup {"rmdir"}
    <3>1. op.path # <<>>
      BY <1>1, <1>3, EmptySeq
    <3>2. op.path \in known /\ op.path \in FolderPaths
      BY <1>1, <2>1, <3>1 DEF FoldersKnown
    <3> QED
      BY <1>3, <3>2, KnownFound
  <2>2. CASE op.kind \in {"info", "delete"}
    <3>1. Len(op.path) > 1
      BY <1>1, <1>3, <2>2 DEF Listings
    <3> QED
      BY <1>1, <1>3, <2>2, <3>1, KnownFound
  <2>3. CASE op.kind \in Uploads
    <3>1. PICK p \in FoldersKnown, m \in Names : op.path = Append(p, m)
      BY <1>1, <2>3
    <3>2. p \in Seq(Names)
      BY <1>1, EmptySeq DEF FoldersKnown, Paths
    <3>3. /\ Len(op.path) = Len(p) + 1 /\ Len(p) \in Nat
          /\ \A i \in 1 .. Len(p) : op.path[i] = p[i]
      BY <3>1, <3>2, AppendProperties
    <3>4. Len(op.todo) > 1
      BY <2>3 DEF Listings, Uploads
    <3>5. Len(r) <= Len(p) /\ p # <<>>
      BY <1>1, <1>3, <3>2, <3>3, <3>4, EmptySeq
    <3>6. Starts(r, p)
      <4>1. \A i \in 1 .. Len(r) : i \in 1 .. Len(p) /\ op.path[i] = r[i]
        BY <1>3, <3>3, <3>5 DEF Starts
      <4> QED
        BY <3>3, <3>5, <4>1 DEF Starts
    <3>7. p \in known /\ p \in FolderPaths
      BY <3>1, <3>5 DEF FoldersKnown
    <3> QED
      BY <3>6, <3>7, KnownFound
  <2> QED
    BY <1>1, <2>1, <2>2, <2>3 DEF Kinds, Removals
<1>5. PICK t \in present : There(t) /\ Starts(r, Path[t])
  BY <1>4
<1>6. PICK c \in Ancestors[t] : Path[c] = r
  BY <1>3, <1>5, AncestorAt, DepthFacts
<1>7. c \in present /\ c \in Cached
  BY <1>5, <1>6, AncestorsPresent DEF There
<1>8. Parent[c] = op.parent /\ Name[c] = n
  BY <1>2, <1>3, <1>6, <1>7, SameChild DEF AlwaysInv, r
<1> QED
  BY <1>7, <1>8 DEF n

LEMMA NoChildGoal ==
    ASSUME CalmNow, NamesApart, NoChild
    PROVE  CalmGoal
<1> USE CalmFacts DEF CalmNow
<1>1. /\ pc = "find" /\ op.todo # <<>> /\ op.todo \in Seq(Names) /\ op.got = {}
      /\ UNCHANGED <<present, known, cache>> /\ op.i >= Cardinality(Cached) /\ op.i \in Nat
      /\ Found(Special)
  BY DEF NoChild, AtEnd, camera, OpCalm, AskedInv, ObjectsInv, OpInv, OpOK
<1>2. ~(\E c \in Cached : Parent[c] = op.parent /\ Name[c] = Head(op.todo))
  <2> SUFFICES ASSUME NEW c \in Cached, Parent[c] = op.parent, Name[c] = Head(op.todo)
               PROVE  FALSE
    OBVIOUS
  <2>1. Index(c) >= op.i
    BY <1>1 DEF OpCalm, FindInv
  <2>2. Index(c) \in Nat /\ Index(c) < Cardinality(Cached) /\ Cardinality(Cached) \in Nat
    BY IndexFacts DEF Index, Rank
  <2> QED
    BY <1>1, <2>1, <2>2
<1>3. op.kind \notin Listings /\ Len(op.todo) = 1
  <2>1. Len(op.todo) \in Nat \ {0}
    BY <1>1, EmptySeq
  <2>2. op.kind \notin Listings /\ ~(Len(op.todo) > 1)
    BY <1>1, <1>2, NextThere
  <2>3. \A k \in Nat \ {0} : ~(k > 1) => k = 1
    OBVIOUS
  <2> QED
    BY <2>1, <2>2, <2>3
<1>4. Len(Tail(op.todo)) = 0
  BY <1>1, <1>3
<1>5. /\ op'.kind = op.kind /\ op'.path = op.path /\ op'.parent = Special
      /\ op'.dest = op.dest /\ pc' = "act"
  <2> DEFINE uploads == op.kind \in Uploads /\ Len(Tail(op.todo)) = 1
  <2>1. ~uploads
    BY <1>4
  <2>2. op' = [op EXCEPT !.todo = Tail(op.todo), !.parent = Special, !.i = 0, !.dest = @]
    BY <1>1, <2>1 DEF Found, Descend
  <2> QED
    BY <1>1, <1>3, <2>2 DEF Found, OpFields
<1>6. AskedInv'
  BY <1>1, <1>5 DEF OpCalm, AskedInv, Searching, FoldersKnown
<1>7. ReachedInv'
  <2>1. op.kind \in Uploads => Dest
    BY <1>1, <1>3, DestFound
  <2>2. Dest => Dest'
    BY <1>1, <1>5 DEF Dest, There, Cached
  <2> QED
    BY <1>5, <2>1, <2>2 DEF ReachedInv, Searching
<1>8. MissedInv'
  <2> SUFFICES ASSUME op.kind = "delete", NEW h \in present, Path[h] = op.path
               PROVE  Announced(h)'
    BY <1>1, <1>5 DEF MissedInv
  <2>1. There(op.parent) /\ op.parent \in present \cup {Root}
    BY <1>1 DEF OpCalm, ReachedInv, Searching, Uploads, There
  <2>2. Path[op.parent] \in Seq(Names) /\ op.parent \in Nodes
    BY <2>1, ForestFacts, PathLast DEF Nodes
  <2>3. Path[op.parent] \o op.todo = op.path
    BY <1>1, <2>2 DEF ObjectsInv, OpInv, Looking, Position, Nodes
  <2>4. op.todo = <<Head(op.todo)>> /\ Head(op.todo) \in Names
    BY <1>1, <1>3
  <2>5. Path[op.parent] \o <<Head(op.todo)>> = Append(Path[op.parent], Head(op.todo))
    <3> DEFINE p == Path[op.parent]
    <3>1. p \in Seq(Names)
      BY <2>2
    <3> HIDE DEF p
    <3>2. p \o <<Head(op.todo)>> = Append(p, Head(op.todo))
      BY <2>4, <3>1, AppendIsConcat
    <3> QED
      BY <3>2 DEF p
  <2>6. Path[h] = Append(Path[op.parent], Head(op.todo))
    BY <2>3, <2>4, <2>5
  <2>7. Parent[h] = op.parent /\ Name[h] = Head(op.todo)
    BY <2>1, <2>4, <2>6, SameChild DEF AlwaysInv
  <2>8. Announced(h)
    BY <1>1, <1>2, <2>7 DEF OpCalm, ListedInv
  <2> QED
    BY <1>1, <2>8, AnnouncedStays
<1>9. ListedInv' /\ FindInv' /\ ScanInv' /\ PathInv' /\ ListingComplete'
  BY <1>5 DEF ListedInv, FindInv, ScanInv, PathInv, ListingComplete
<1> QED
  BY <1>1, <1>6, <1>7, <1>8, <1>9, WorldSame DEF CalmGoal, OpCalm

LEMMA ScanGoal ==
    ASSUME CalmNow, ScanObject
    PROVE  CalmGoal
<1> USE CalmFacts DEF CalmNow
<1>1. /\ pc = "scan" /\ op.kind \in Listings /\ UNCHANGED <<present, known>>
      /\ op.i \in Nat
  BY DEF ScanObject, camera, OpCalm, AskedInv
<1>2. PICK h \in Cached :
        /\ Index(h) = op.i /\ Look(h) /\ pc' = pc
        /\ op' = [op EXCEPT !.i = @ + 1,
                            !.got = IF Wanted(h) THEN @ \cup {Name[h]} ELSE @]
  <2>1. \A h \in Cached : ~(NeedsInfo(h) /\ Refused(h))
    BY <1>1, ObjectLooked DEF Refused
  <2> QED
    BY <2>1 DEF ScanObject
<1>3. /\ Gentle(cache') /\ Cached' = Cached /\ h \in Handles /\ Placed(h)'
      /\ Wanted(h) <=> Sought(h)
      /\ Sought(h) => h \in present /\ Parent[h] = op.parent
  BY <1>1, <1>2, ObjectLooked DEF InThisFolder, Wanted, Sought
<1> DEFINE got == IF Wanted(h) THEN op.got \cup {Name[h]} ELSE op.got
<1>4. /\ op'.kind = op.kind /\ op'.path = op.path /\ op'.todo = op.todo
      /\ op'.parent = op.parent /\ op'.dest = op.dest /\ op'.got = got
      /\ op'.i = op.i + 1 /\ pc' = "scan"
  BY <1>1, <1>2 DEF OpFields
<1>5. /\ op.got \subseteq got /\ (Sought(h) => Name[h] \in got)
      /\ \A n \in got : n \in op.got \/ (Sought(h) /\ n = Name[h])
  BY <1>3
<1> HIDE DEF got
<1>6. WorldInv'
  BY <1>1, <1>3, WorldSteady
<1>7. AskedInv'
  BY <1>1, <1>4 DEF OpCalm, AskedInv, Searching, FoldersKnown
<1>8. ReachedInv'
  BY <1>1, <1>3, <1>4, ThereStays DEF OpCalm, ReachedInv, Searching
<1>9. ListedInv'
  BY <1>1, <1>3, <1>4, AnnouncedStays DEF OpCalm, ListedInv
<1>10. ScanInv'
  <2>1. ASSUME NEW g \in Cached, Index(g) < op.i + 1
        PROVE  Placed(g)' /\ (Sought(g) => Name[g] \in got)
    <3>1. Index(g) \in Nat
      BY IndexFacts DEF Index, Rank
    <3>2. CASE g = h
      BY <1>3, <1>5, <3>2
    <3>3. CASE g # h
      <4>1. Index(g) # Index(h)
        BY <3>3, IndexFacts DEF Index, Rank
      <4>2. Index(g) < op.i
        BY <1>1, <1>2, <2>1, <3>1, <4>1
      <4>3. Placed(g) /\ (Sought(g) => Name[g] \in op.got)
        BY <1>1, <4>2 DEF OpCalm, ScanInv
      <4> QED
        BY <1>3, <1>5, <4>3 DEF Gentle, Placed, PlacedIn, Cached
    <3> QED
      BY <3>2, <3>3
  <2>2. ASSUME NEW n \in got
        PROVE  \E c \in Cached \cap present : Parent[c] = op.parent /\ Name[c] = n
    <3>1. CASE n \in op.got
      BY <1>1, <3>1 DEF OpCalm, ScanInv
    <3>2. CASE Sought(h) /\ n = Name[h]
      BY <1>3, <3>2
    <3> QED
      BY <1>5, <3>1, <3>2
  <2>3. \A g \in Cached : Index(g)' = Index(g) /\ Sought(g)' = Sought(g)
    BY <1>3, <1>4 DEF Index, Sought
  <2> QED
    BY <1>1, <1>3, <1>4, <2>1, <2>2, <2>3 DEF ScanInv
<1>11. FindInv' /\ MissedInv' /\ PathInv' /\ ListingComplete'
  BY <1>4 DEF FindInv, MissedInv, PathInv, ListingComplete
<1> QED
  BY <1>6, <1>7, <1>8, <1>9, <1>10, <1>11 DEF CalmGoal, OpCalm

LEMMA ScanAgainGoal ==
    ASSUME CalmNow, ScanAgain
    PROVE  CalmGoal
<1> USE CalmFacts DEF CalmNow
<1>1. /\ pc = "scan" /\ UNCHANGED <<present, known, cache>>
      /\ op'.kind = op.kind /\ op'.path = op.path /\ op'.todo = op.todo
      /\ op'.parent = op.parent /\ op'.dest = op.dest /\ op'.got = {}
      /\ op'.i = 0 /\ pc' = "scan"
  BY DEF ScanAgain, camera, OpFields
<1>2. AskedInv'
  BY <1>1 DEF OpCalm, AskedInv, Searching, FoldersKnown
<1>3. ReachedInv'
  BY <1>1, ThereStays, GentleSame DEF OpCalm, ReachedInv, Searching
<1>4. ListedInv'
  BY <1>1, AnnouncedStays DEF OpCalm, ListedInv, Cached
<1>5. ScanInv'
  <2>1. \A h \in Cached : Index(h) \in Nat
    BY IndexFacts DEF Index, Rank
  <2>2. \A h \in Cached' : Index(h)' \in Nat
    BY <1>1, <2>1 DEF Index, Cached
  <2> QED
    BY <1>1, <2>2 DEF ScanInv
<1>6. FindInv' /\ MissedInv' /\ PathInv' /\ ListingComplete'
  BY <1>1 DEF FindInv, MissedInv, PathInv, ListingComplete
<1> QED
  BY <1>1, <1>2, <1>3, <1>4, <1>5, <1>6, WorldSame DEF CalmGoal, OpCalm

\* A listing ends: it has passed every object of the array.
LEMMA ScanDoneGoal ==
    ASSUME CalmNow, ScanDone
    PROVE  CalmGoal
<1> USE CalmFacts DEF CalmNow
<1>1. /\ pc = "scan" /\ op.kind \in Listings /\ UNCHANGED <<present, cache>>
      /\ op.i \in Nat /\ op.i >= Cardinality(Cached) /\ op.todo = <<>>
      /\ known' = known \cup {Append(op.path, n) : n \in op.got}
      /\ op' = [op EXCEPT !.result = "ok"] /\ pc' = "return"
  BY DEF ScanDone, AtEnd, Reply, camera, OpCalm, AskedInv, ObjectsInv, OpInv
<1>2. \A h \in Cached : Placed(h) /\ (Sought(h) => Name[h] \in op.got)
  <2> SUFFICES ASSUME NEW h \in Cached
               PROVE  Placed(h) /\ (Sought(h) => Name[h] \in op.got)
    OBVIOUS
  <2>1. Index(h) \in Nat /\ Index(h) < Cardinality(Cached) /\ Cardinality(Cached) \in Nat
    BY IndexFacts DEF Index, Rank
  <2>2. Index(h) < op.i
    BY <1>1, <2>1
  <2> QED
    BY <1>1, <2>2 DEF OpCalm, ScanInv
<1>3. /\ op.parent \in present \cup {Root} /\ There(op.parent)
      /\ Path[op.parent] = op.path /\ Path[op.parent] \in Seq(Names)
  <2>1. op.parent # Special
    BY <1>1 DEF OpCalm, ReachedInv, Searching, Uploads, Listings
  <2>2. There(op.parent) /\ op.parent \in present \cup {Root}
    BY <1>1, <2>1 DEF OpCalm, ReachedInv, Searching, There
  <2>3. op.parent \in Handles \cup {Root} /\ Path[op.parent] \in Seq(Names)
    BY <2>2, ForestFacts
  <2>4. Path[op.parent] \o op.todo = op.path
    BY <1>1, <2>3 DEF ObjectsInv, OpInv, Looking, Position
  <2> QED
    BY <1>1, <2>2, <2>3, <2>4, ConcatEmptySeq
<1>4. ASSUME NEW p \in known', p \notin known
      PROVE  \E t \in present : Path[t] = p /\ There(t)'
  <2>1. PICK n \in op.got : p = Append(op.path, n)
    BY <1>1, <1>4
  <2>2. PICK c \in Cached \cap present : Parent[c] = op.parent /\ Name[c] = n
    BY <1>1 DEF OpCalm, ScanInv
  <2>3. Path[c] = p
    BY <1>3, <2>1, <2>2, PathLast
  <2>4. There(c)
    BY <1>3, <2>2, ForestFacts DEF There
  <2>5. There(c)'
    BY <1>1, <2>4 DEF There, Cached
  <2> QED
    BY <2>2, <2>3, <2>5
<1>5. WorldInv'
  <2>1. Gentle(cache')
    BY <1>1, GentleSame
  <2>2. \A g \in Cached' \cap present : Placed(g)'
    BY <1>1, <1>2 DEF Placed, Cached
  <2> QED
    BY <1>1, <1>4, <2>1, <2>2, WorldSteady
<1>6. ListingComplete'
  <2> SUFFICES ASSUME NEW h \in op.before, h \in present, Path[Parent[h]] = op.path,
                      h \in Folders <=> op.kind = "folders"
               PROVE  Name[h] \in op.got \/ Announced(h)'
    BY <1>1 DEF ListingComplete, OpFields
  <2>1. Parent[h] = op.parent
    <3>1. Parent[h] \in present \cup {Root}
      BY DEF Closed
    <3> QED
      BY <1>3, <3>1, SamePath DEF AlwaysInv
  <2>2. h \in Cached \/ Announced(h)
    BY <1>1, <2>1 DEF OpCalm, ListedInv
  <2>3. h \in Cached => Name[h] \in op.got
    BY <1>2, <2>1 DEF Sought
  <2>4. Announced(h) => Announced(h)'
    BY <1>1, AnnouncedStays
  <2> QED
    BY <2>2, <2>3, <2>4
<1>7. /\ AskedInv' /\ ReachedInv' /\ ListedInv' /\ FindInv' /\ MissedInv' /\ ScanInv'
      /\ PathInv'
  BY <1>1 DEF AskedInv, ReachedInv, ListedInv, FindInv, MissedInv, ScanInv, PathInv,
     Searching
<1> QED
  BY <1>5, <1>6, <1>7 DEF CalmGoal, OpCalm

\* The child that was found is asked about, deleted, or in the way of an upload.
LEMMA ActGoal ==
    ASSUME CalmNow, Act
    PROVE  CalmGoal
<1> USE CalmFacts DEF CalmNow
<1>1. /\ pc = "act" /\ op.todo = <<>> /\ op.kind \notin Listings
      /\ op.parent # Special => There(op.parent)
  BY DEF Act, InfoFound, DeleteFile, RemoveDir, Exists, SendObject, ObjectsInv, OpInv,
     Listings, Removals, Uploads, OpCalm, ReachedInv
<1>2. ASSUME Deleted, DeleteFile \/ RemoveDir PROVE CalmGoal
  <2> DEFINE x == op.parent
  <2>1. x # Special
    <3>1. op'.result = "ok"
      BY <1>2 DEF Deleted, Reply, OpFields
    <3>2. ~Reply("error")
      BY <3>1 DEF Reply, OpFields
    <3> QED
      BY <1>2, <3>2 DEF RemoveDir
  <2>2. x \in present /\ Path[x] = op.path
    <3>1. x \in present
      BY <1>2, <2>1 DEF Deleted
    <3>2. Path[x] \o op.todo = op.path /\ Path[x] \in Seq(Names)
      BY <1>1, <3>1, ForestFacts DEF ObjectsInv, OpInv, Looking, Position
    <3> QED
      BY <1>1, <3>1, <3>2, ConcatEmptySeq
  <2>3. /\ present' = present \ Below(x) /\ cache' = Dropped(x)
        /\ known' = {p \in known : ~IsPrefix(Path[x], p)} /\ Reply("ok")
    BY <1>2, <2>1, <2>2 DEF Deleted, Victims, Forget
  <2>4. /\ Path[x] \in known
        /\ Path[x] \notin FolderPaths \/ \A p \in known : ~IsStrictPrefix(Path[x], p)
    BY <1>1, <1>2, <2>2 DEF DeleteFile, RemoveDir, OpCalm, AskedInv
  <2> HIDE DEF x
  <2>5. WorldInv'
    BY <2>2, <2>3, <2>4, WorldShrunk
  <2>6. op'.kind = op.kind /\ pc' = "return"
    BY <2>3 DEF Reply, OpFields
  <2> QED
    BY <1>1, <2>5, <2>6, Quiet DEF CalmGoal
<1>3. ASSUME NEW r, NotDeleted(r), DeleteFile \/ RemoveDir PROVE FALSE
  <2>1. op.parent # Special /\ op.parent \notin present
    BY <1>3 DEF NotDeleted, Refused
  <2>2. op.parent = Root
    BY <1>1, <2>1 DEF There
  <2>3. op.path = <<>>
    BY <1>1, <2>2, ForestFacts, ConcatEmptySeq DEF ObjectsInv, OpInv, Looking, Position
  <2>4. op.path \in known /\ known \subseteq Paths
    BY <1>1, <1>3 DEF DeleteFile, RemoveDir, OpCalm, AskedInv, ObjectsInv, OpOK
  <2> QED
    BY <2>3, <2>4 DEF Paths
<1>4. CASE DeleteFile
  BY <1>2, <1>3, <1>4 DEF DeleteFile
<1>5. CASE RemoveDir
  <2>1. CASE Deleted
    BY <1>2, <1>5, <2>1
  <2>2. CASE ~Deleted
    <3>1. Reply("error") /\ UNCHANGED <<present, cache, known>>
      BY <1>3, <1>5, <2>2 DEF RemoveDir
    <3> QED
      BY <1>1, <3>1, ReplyGoal
  <2> QED
    BY <2>1, <2>2
<1>6. CASE InfoFound \/ Exists
  <2>1. UNCHANGED <<present, cache, known>> /\ \E r : Reply(r)
    BY <1>6 DEF InfoFound, Exists, camera
  <2> QED
    BY <1>1, <2>1, ReplyGoal
<1>7. CASE SendObject
  <2>1. CASE Reply("error") /\ UNCHANGED <<present, cache, known>>
    BY <1>1, <2>1, ReplyGoal
  <2>2. CASE ~(Reply("error") /\ UNCHANGED <<present, cache, known>>)
    <3>1. PICK h \in Handles :
            /\ New(h)
            /\ Parent[h] = IF op.dest = Special THEN Root ELSE op.dest
            /\ Name[h] = Last(op.path)
            /\ present' = present \cup {h}
            /\ cache' = Inserted(h) /\ known' = known \cup {op.path} /\ Reply("ok")
      BY <1>7, <2>2 DEF SendObject
    <3>2. Dest
      BY <1>1, <1>7 DEF SendObject, OpCalm, ReachedInv
    <3>3. Path[h] = op.path /\ There(Parent[h])
      <4>0. op.path \in Seq(Names) /\ Path[h] = Append(Path[Parent[h]], Name[h])
            /\ Special \notin Handles
        BY PathLast, ObjectsAssumption DEF ObjectsInv, OpOK
      <4>1. CASE op.dest = Special /\ Len(op.path) = 1
        <5>1. Parent[h] = Root /\ Name[h] = op.path[1]
          BY <3>1, <4>1 DEF Last
        <5>2. op.path = Append(<<>>, op.path[1])
          BY <4>0, <4>1
        <5>3. There(Root) /\ Path[Root] = <<>>
          BY ForestFacts DEF There
        <5> QED
          BY <4>0, <5>1, <5>2, <5>3
      <4>2. CASE /\ op.dest \in Handles /\ There(op.dest)
                 /\ \E n \in Names : op.path = Append(Path[op.dest], n)
        <5>1. PICK n \in Names : op.path = Append(Path[op.dest], n)
          BY <4>2
        <5>2. Parent[h] = op.dest /\ Path[op.dest] \in Seq(Names)
          BY <3>1, <4>0, <4>2, PathLast
        <5>3. Last(op.path) = n
          <6>1. /\ Len(Append(Path[op.dest], n)) = Len(Path[op.dest]) + 1
                /\ Append(Path[op.dest], n)[Len(Path[op.dest]) + 1] = n
            BY <5>2, AppendProperties
          <6> QED
            BY <5>1, <6>1 DEF Last
        <5> QED
          BY <3>1, <4>0, <4>2, <5>1, <5>2, <5>3
      <4> QED
        BY <3>2, <4>1, <4>2 DEF Dest
    <3>4. WorldInv'
      BY <3>1, <3>3, WorldGrown
    <3>5. op'.kind = op.kind /\ pc' = "return"
      BY <3>1 DEF Reply, OpFields
    <3> QED
      BY <1>1, <3>4, <3>5, Quiet DEF CalmGoal
  <2> QED
    BY <2>1, <2>2
<1> QED
  BY <1>4, <1>5, <1>6, <1>7 DEF Act

\* The next event is taken from the queue: a new object.
LEMMA PopGoal ==
    ASSUME CalmNow, PopEvent \/ TimedOut \/ Return
    PROVE  CalmGoal
<1> USE CalmFacts DEF CalmNow
<1>1. CASE PopEvent
  <2>1. events # <<>> /\ events \in Seq(Event)
    BY <1>1 DEF PopEvent, ObjectsInv, WireOK
  <2>2. Head(events) \in Queue
    BY <2>1, RangeTail DEF Queue
  <2>3. Head(events).type = "Added"
    BY <2>2 DEF WorldInv, OnlyAdded
  <2>4. pc' = "added" /\ UNCHANGED <<present, cache, known>>
    BY <1>1, <2>3 DEF PopEvent, camera
  <2> QED
    BY <2>4, WorldSame, Quiet DEF CalmGoal
<1>2. CASE TimedOut
  <2>1. op.kind \notin Listings
    BY <1>2 DEF TimedOut, ObjectsInv, OpInv, Listings
  <2> QED
    BY <1>2, <2>1, ReplyGoal DEF TimedOut, camera
<1>3. CASE Return
  <2>1. pc' = "idle" /\ UNCHANGED <<present, cache, known>>
    BY <1>3 DEF Return, camera
  <2> QED
    BY <2>1, WorldSame, Quiet DEF CalmGoal
<1> QED
  BY <1>1, <1>2, <1>3

\* An object of whose info the driver has read is in the array, with its folder; it
\* may be gone, and its folder with it.
LEMMA InfoKnown ==
    ASSUME CalmNow, NEW h, Known(h), UNCHANGED <<present, known>>
    PROVE  /\ WorldInv' /\ Gentle(cache') /\ h \in Cached' /\ h \in Handles
           /\ cache'[h].parent = Parent[h]
           /\ h \notin present => Parent[h] \notin present \cup {Root}
<1> USE CalmFacts DEF CalmNow
<1>1. h \in Handles /\ cache'[h].parent = Parent[h]
  BY KnownParent
<1>2. /\ Gentle(cache') /\ h \in Cached'
      /\ h \notin present => Parent[h] \notin present \cup {Root}
  <2>1. CASE HasInfo(h)
    <3>1. cache' = cache /\ h \in Cached
      BY <2>1 DEF Known, NoTransaction, HasInfo
    <3> QED
      BY <3>1, GentleSame DEF WorldInv, GonePlaced, Cached
  <2>2. CASE ~HasInfo(h)
    <3>1. h \in present /\ cache' = Filled(h)
      BY <2>2 DEF Known, ReadInfo
    <3> QED
      BY <3>1, GentleFilled DEF ObjectsInv, Cached
  <2> QED
    BY <2>1, <2>2
<1> QED
  BY <1>1, <1>2, WorldSteady

\* The goal in the phase path.
LEMMA PathGoal ==
    ASSUME pc' = "path", PathInv'
    PROVE  OpCalm'
BY DEF OpCalm, AskedInv, ReachedInv, ListedInv, FindInv, MissedInv, ScanInv,
   ListingComplete, Searching

LEMMA ReadAddedGoal ==
    ASSUME CalmNow, ReadAdded
    PROVE  CalmGoal
<1> USE CalmFacts DEF CalmNow
<1> DEFINE d == op.parent
<1>1. pc = "added" /\ op.kind = "wait" /\ d \in Handles /\ UNCHANGED <<present, known>>
  BY DEF ReadAdded, camera, ObjectsInv, OpInv
<1>2. CASE Known(d)
  <2>1. /\ pc' = "path"
        /\ op' = [op EXCEPT !.dest = d, !.path = <<Name[d]>>, !.parent = cache'[d].parent]
    BY <1>2 DEF ReadAdded, Known, HasInfo, ReadInfo, NoTransaction, Refused
  <2>2. /\ WorldInv' /\ d \in Cached' /\ cache'[d].parent = Parent[d]
        /\ d \notin present => Parent[d] \notin present \cup {Root}
    BY <1>1, <1>2, InfoKnown
  <2>3. op'.dest = d /\ op'.parent = Parent[d]
    BY <2>1, <2>2 DEF OpFields
  <2> HIDE DEF d
  <2>4. Ancestors[d] \ Ancestors[Parent[d]] \subseteq {d}
    BY <1>1, ForestFacts
  <2>5. PathInv'
    BY <1>1, <2>2, <2>3, <2>4 DEF PathInv
  <2> QED
    BY <2>1, <2>2, <2>5, PathGoal DEF CalmGoal
<1>3. CASE ~Known(d)
  <2>1. Reply("error") /\ Refused(d) /\ cache' = Dropped(d)
    BY <1>3 DEF ReadAdded, Known
  <2>2. Gentle(cache')
    BY <2>1, GentleDropped DEF Refused
  <2>3. WorldInv'
    BY <1>1, <2>2, WorldSteady
  <2>4. op'.kind = "wait" /\ pc' = "return"
    BY <1>1, <2>1 DEF Reply, OpFields
  <2>5. OpCalm'
    BY <2>4, Quiet DEF Listings
  <2> QED
    BY <2>3, <2>5 DEF CalmGoal
<1> QED
  BY <1>2, <1>3

LEMMA ReadParentGoal ==
    ASSUME CalmNow, ReadParent
    PROVE  CalmGoal
<1> USE CalmFacts DEF CalmNow
<1> DEFINE f == op.parent
<1>1. /\ pc = "path" /\ pc' = "path" /\ f # Root /\ UNCHANGED <<present, known>>
      /\ Known(f)
      /\ op' = [op EXCEPT !.path = <<Name[f]>> \o @, !.parent = cache'[f].parent]
  BY DEF ReadParent, Known, camera
<1>2. /\ WorldInv' /\ Gentle(cache') /\ f \in Cached' /\ f \in Handles
      /\ cache'[f].parent = Parent[f]
      /\ f \notin present => Parent[f] \notin present \cup {Root}
  BY <1>1, InfoKnown
<1>3. op'.dest = op.dest /\ op'.parent = Parent[f]
  BY <1>1, <1>2 DEF OpFields
<1> HIDE DEF f
<1>4. PathInv'
  <2>1. CASE op.dest \in present
    <3>1. Ancestors[op.dest] \ Ancestors[f] \subseteq Cached
      BY <1>1, <2>1 DEF OpCalm, PathInv, f
    <3>2. Ancestors[op.dest] \subseteq present /\ Ancestors[f] = {f} \cup Ancestors[Parent[f]]
      BY <1>2, <2>1, AncestorsPresent, ForestFacts
    <3>3. Ancestors[op.dest] \ Ancestors[Parent[f]] \subseteq Cached'
      BY <1>2, <3>1, <3>2 DEF Gentle, Cached
    <3> QED
      BY <1>1, <1>3, <2>1, <3>3 DEF PathInv
  <2>2. CASE op.dest \notin present
    <3>1. f \notin present
      BY <1>1, <2>2 DEF OpCalm, PathInv, f
    <3> QED
      BY <1>1, <1>2, <1>3, <2>2, <3>1 DEF PathInv
  <2> QED
    BY <2>1, <2>2
<1> QED
  BY <1>1, <1>2, <1>4, PathGoal DEF CalmGoal

\* A new object is reported: a file whose folders were read becomes known.
LEMMA ReportGoal ==
    ASSUME CalmNow, NamesApart, ReportAdded
    PROVE  CalmGoal
<1> USE CalmFacts DEF CalmNow
<1> DEFINE path == IF op.parent = Root THEN op.path ELSE <<Name[op.dest]>>
<1>1. /\ pc = "path" /\ op.kind = "wait" /\ pc' = "return" /\ present' = present
      /\ op' = [op EXCEPT !.result = "added", !.path = path]
      /\ known' = IF op.dest \in Folders THEN {} ELSE known \cup {path}
      /\ op.dest \in Handles
      /\ \/ op.parent = Root /\ cache' = cache
         \/ op.parent # Root /\ op.parent \notin present /\ cache' = Dropped(op.parent)
  BY DEF ReportAdded, NoTransaction, Refused, ObjectsInv, ObjectsOK, OpInv, AddedInv, camera
<1>2. Gentle(cache')
  BY <1>1, GentleSame, GentleDropped
<1>3. op.dest \in present => op.parent = Root
  BY <1>1 DEF ObjectsInv, AddedInv
<1>4. op.dest \in present => path = Path[op.dest] /\ There(op.dest)'
  <2> SUFFICES ASSUME op.dest \in present PROVE path = Path[op.dest] /\ There(op.dest)'
    OBVIOUS
  <2>1. op.parent = Root /\ cache' = cache
    BY <1>1, <1>3
  <2>2. Ancestors[op.dest] \ Ancestors[op.parent] \subseteq Cached
    BY <1>1 DEF OpCalm, PathInv
  <2>3. There(op.dest)'
    BY <1>1, <2>1, <2>2, ForestFacts DEF There, Cached
  <2>4. Path[Root] \o op.path = Path[op.dest] /\ Path[Root] = <<>> /\ op.path \in Seq(Names)
    BY <1>1, <2>1, ForestFacts DEF ObjectsInv, AddedInv, OpOK
  <2>5. path = Path[op.dest]
    BY <2>1, <2>4, ConcatEmptySeq
  <2> QED
    BY <2>3, <2>5
<1>5. op.dest \notin present => path = <<Name[op.dest]>>
  <2>1. op.dest \notin present => op.parent # Root
    BY <1>1 DEF OpCalm, PathInv
  <2> QED
    BY <2>1
<1> HIDE DEF path
<1>6. CASE op.dest \in Folders
  <2>1. WorldInv'
    BY <1>1, <1>2, <1>6, WorldSteady
  <2> QED
    BY <1>1, <2>1, Quiet DEF CalmGoal, OpFields, Listings
<1>7. CASE op.dest \notin Folders
  <2>1. known' = known \cup {path}
    BY <1>1, <1>7
  <2>2. Misnamed(path) \/ \E t \in present : Path[t] = path /\ There(t)'
    BY <1>1, <1>4, <1>5, <1>7 DEF Misnamed
  <2>3. ASSUME NEW f \in present \cap Folders PROVE Path[f] # path
    <3>1. CASE op.dest \in present
      BY <1>4, <1>7, <3>1 DEF AlwaysInv, Unique
    <3>2. CASE op.dest \notin present
      <4> SUFFICES ASSUME Path[f] = <<Name[op.dest]>> PROVE FALSE
        BY <1>5, <3>2
      <4>1. /\ Root \in present \cup {Root} /\ Path[Root] = <<>> /\ f \in present
            /\ Name[op.dest] \in Names
        BY <1>1, ForestFacts DEF Names
      <4>2. <<Name[op.dest]>> = Append(<<>>, Name[op.dest])
        OBVIOUS
      <4>4. Path[f] = Append(Path[Root], Name[op.dest])
        BY <4>1, <4>2
      <4>3. Parent[f] = Root /\ Name[f] = Name[op.dest]
        BY <4>1, <4>4, SameChild DEF AlwaysInv
      <4> QED
        BY <1>1, <1>7, <4>3 DEF NamesApart
    <3> QED
      BY <3>1, <3>2
  <2>4. WorldInv'
    BY <1>1, <1>2, <2>1, <2>2, <2>3, WorldSteady
  <2> QED
    BY <1>1, <2>4, Quiet DEF CalmGoal, OpFields, Listings
<1> QED
  BY <1>6, <1>7

\* What is above an object that was used was used.
LEMMA AncestorsUsed ==
    ASSUME UsedClosed, used \subseteq Handles, NEW t \in used
    PROVE  Ancestors[t] \subseteq used
<1> DEFINE Q == {h \in Nodes : h \in used => Ancestors[h] \subseteq used}
<1>1. Root \in Q
  BY ForestFacts, DepthFacts
<1>2. ASSUME NEW h \in Handles, Parent[h] \in Q PROVE h \in Q
  <2>1. h \in Nodes /\ Ancestors[h] = {h} \cup Ancestors[Parent[h]] /\ Ancestors[Root] = {}
    BY ForestFacts, DepthFacts
  <2>2. h \in used => Parent[h] \in used \cup {Root}
    BY DEF UsedClosed
  <2>3. Parent[h] \in used => Ancestors[Parent[h]] \subseteq used
    BY <1>2
  <2>4. h \in used => Ancestors[h] \subseteq used
    BY <2>1, <2>2, <2>3
  <2> QED
    BY <2>1, <2>4
<1>3. t \in Nodes
  BY DepthFacts
<1> HIDE DEF Q
<1>4. t \in Q
  BY <1>1, <1>2, <1>3, DownFolders
<1> QED
  BY <1>4 DEF Q

\* The camera takes a picture: the new object is announced.
LEMMA CaptureGoal ==
    ASSUME CalmNow, Capture
    PROVE  CalmGoal
<1> USE CalmFacts DEF CalmNow
<1>1. PICK h \in Handles :
        /\ New(h) /\ present' = present \cup {h}
        /\ wire' = Append(wire, Added(h)) /\ UNCHANGED <<cache, known, pc, op>>
  BY DEF Capture, client, Added
<1>2. WorldInv'
  BY <1>1, WorldGrown
<1>3. h \notin used /\ op.before \subseteq used /\ used \subseteq Handles
  BY <1>1 DEF New, AlwaysInv, ObjectsInv, ObjectsOK
<1>4. Announced(h)'
  <2>1. Added(h) \in Event /\ wire \in Seq(Event)
    BY DEF Added, Event, ObjectsInv, WireOK
  <2>2. Added(h) \in Range(wire')
    BY <1>1, <2>1, RangeAppend
  <2> QED
    BY <2>2 DEF Announced, Added
<1>5. \A g : pc \notin {"pop", "added"} /\ Announced(g) => Announced(g)'
  BY AnnouncedStays
<1>6. \A t : There(t) => There(t)'
  BY <1>1 DEF There, Cached
<1>7. AskedInv' /\ FindInv'
  BY <1>1 DEF OpCalm, AskedInv, FindInv, Searching, FoldersKnown, Cached, Index
<1>8. ReachedInv'
  <2>1. Dest => Dest'
    BY <1>1, <1>6 DEF Dest
  <2> QED
    BY <1>1, <1>6, <2>1 DEF OpCalm, ReachedInv, Searching
<1>9. ListedInv' /\ MissedInv'
  BY <1>1, <1>4, <1>5 DEF OpCalm, ListedInv, MissedInv, Cached
<1>10. ScanInv'
  <2>1. \A g : Index(g)' = Index(g) /\ Placed(g)' = Placed(g) /\ Sought(g)' = Sought(g)
    BY <1>1 DEF Index, Placed, Sought, Cached
  <2> QED
    BY <1>1, <2>1 DEF OpCalm, ScanInv, Cached
<1>11. PathInv'
  <2> SUFFICES ASSUME pc = "path" PROVE PathInv'
    BY <1>1 DEF PathInv
  <2>1. op.dest \in used /\ Ancestors[op.parent] \subseteq Ancestors[op.dest]
        /\ op.parent \in Handles \cup {Root}
    BY DEF ObjectsInv, AddedInv
  <2>2. Ancestors[op.dest] \subseteq used
    BY <1>3, <2>1, AncestorsUsed DEF AlwaysInv
  <2>3. op.parent # h /\ op.dest # h
    <3>1. h \in Ancestors[h]
      BY ForestFacts
    <3> QED
      BY <1>3, <2>1, <2>2, <3>1
  <2> QED
    BY <1>1, <2>3 DEF OpCalm, PathInv, Cached
<1>12. ListingComplete'
  <2> SUFFICES ASSUME pc = "return", op.kind \in Listings, op.result = "ok",
                      NEW g \in op.before, g \in present',
                      Path[Parent[g]] = op.path, g \in Folders <=> op.kind = "folders"
               PROVE  Name[g] \in op.got \/ Announced(g)'
    BY <1>1 DEF ListingComplete
  <2>1. g \in present
    BY <1>1, <1>3
  <2>2. Name[g] \in op.got \/ Announced(g)
    BY <2>1, CalmBefore DEF OpCalm, ListingComplete
  <2> QED
    BY <1>5, <2>2
<1> QED
  BY <1>2, <1>7, <1>8, <1>9, <1>10, <1>11, <1>12 DEF CalmGoal, OpCalm

LEMMA CalmKept ==
    ASSUME ObjectsInv, LoadedInv, CalmInv, NamesApart, [Next]_vars
    PROVE  CalmInv'
<1>1. AlwaysInv'
  BY AlwaysKept DEF CalmInv
<1>2. ASSUME Calm' PROVE WorldInv' /\ OpCalm'
  <2>1. CalmNow
    BY <1>2, CalmBefore DEF CalmInv, CalmNow
  <2>2. CASE UNCHANGED vars
    <3>1. WorldInv'
      BY <2>1, <2>2, WorldSame DEF vars
    <3>2. OpCalm
      BY <2>1 DEF CalmNow
    <3>3. AskedInv' /\ ReachedInv'
      BY <2>2, <3>2 DEF vars, OpCalm, AskedInv, ReachedInv, Searching, FoldersKnown, Cached,
         There, Dest
    <3>4. ListedInv' /\ FindInv' /\ MissedInv'
      BY <2>2, <3>2 DEF vars, OpCalm, ListedInv, FindInv, MissedInv, Cached, Announced, Index
    <3>5. ScanInv' /\ PathInv'
      BY <2>2, <3>2 DEF vars, OpCalm, ScanInv, PathInv, Cached, Index, Placed, Sought
    <3>6. ListingComplete'
      BY <2>2, <3>2 DEF vars, OpCalm, ListingComplete, Announced, Calm
    <3>7. OpCalm'
      BY <3>3, <3>4, <3>5, <3>6 DEF OpCalm
    <3> QED
      BY <3>1, <3>7
  <2>3. CASE ListFolder \/ Walk
    BY <2>1, <2>3, FolderGoal, FindGoal, NoChildGoal, ScanGoal, ScanAgainGoal, ScanDoneGoal
       DEF Walk, CalmGoal
  <2>4. CASE Events
    BY <2>1, <2>4, EventGoal, ListRootGoal, PopGoal, ReadAddedGoal, ReadParentGoal, ReportGoal
       DEF Events, CalmGoal
  <2>5. CASE Act \/ Return \/ Frontend
    BY <2>1, <2>5, ActGoal, PopGoal, BeginGoal DEF CalmGoal
  <2>6. CASE Camera
    BY <2>1, <2>6, CaptureGoal, CalmFacts DEF Camera, CalmGoal
  <2> QED
    BY <2>2, <2>3, <2>4, <2>5, <2>6 DEF Next, Driver
<1> QED
  BY <1>1, <1>2 DEF CalmInv

LEMMA CalmStarts == Init => CalmInv
<1> SUFFICES ASSUME Init PROVE CalmInv
  OBVIOUS
<1>1. /\ NoOp.before = {} /\ NoOp.kind = "init" /\ NoOp.todo = <<>> /\ NoOp.got = {}
  BY DEF NoOp
<1>2. /\ op = NoOp /\ pc = "rootall" /\ known = {} /\ wire = <<>> /\ events = <<>>
      /\ present = InitialObjects /\ used = InitialObjects /\ Cached = {}
  BY DEF Init, Cached
<1>3. AlwaysInv
  BY <1>1, <1>2, ForestAssumption DEF AlwaysInv, Unique, UsedClosed
<1>4. WorldInv
  <2>1. Queue = {}
    BY <1>2 DEF Queue, Range
  <2> QED
    BY <1>2, <2>1 DEF WorldInv, OnlyAdded, KnownThere, GonePlaced, UnplacedKnown
<1>5. OpCalm
  BY <1>1, <1>2 DEF OpCalm, AskedInv, ReachedInv, ListedInv, FindInv, MissedInv, ScanInv,
     PathInv, ListingComplete, Searching
<1> QED
  BY <1>3, <1>4, <1>5 DEF CalmInv

\* A listing that succeeds while all is calm has every object that was in the folder all
\* the time it ran, or its announcement is on its way (file_list_func, folder_list_func,
\* which walk the array by index while ptp_object_want and the events change it).
THEOREM ListingsAreComplete ==
    ASSUME NamesApart
    PROVE  Spec => []ListingComplete
<1>1. Init => LoadedInv
  BY DEF Init, LoadedInv, RemovedGone, LoadedFoldersComplete, Queue, Range, Removed,
     Cached
<1>2. ObjectsInv /\ LoadedInv /\ [Next]_vars => LoadedInv'
  BY LoadedKept
<1>3. ObjectsInv /\ LoadedInv /\ CalmInv /\ [Next]_vars => CalmInv'
  BY CalmKept
<1>4. CalmInv => ListingComplete
  BY DEF CalmInv, OpCalm, ListingComplete
<1> QED
  BY <1>1, <1>2, <1>3, <1>4, CalmStarts, ObjectsInvAlways, PTL DEF Spec

\* What a removal takes away is what was asked for, or a file that the camera did not
\* have, or of which the driver was still to hear.
LEMMA RemovesNamed ==
    ASSUME ObjectsInv, CalmInv, DeleteFile \/ RemoveDir
    PROVE  \/ present \ present' \subseteq UNION {Below(h) : h \in Named}
           \/ DeleteFile /\ ~(Calm /\ \E h \in Named \cap present : ~Announced(h))
<1>1. pc = "act" /\ op.todo = <<>>
  BY DEF DeleteFile, RemoveDir, ObjectsInv, OpInv
<1>2. CASE Deleted /\ op.parent # Special
  <2>1. op.parent \in present /\ present' = present \ Below(op.parent)
    BY <1>2 DEF Deleted, Victims
  <2>2. op.parent \in Handles
    BY <2>1 DEF ObjectsInv, ObjectsOK
  <2>3. Path[op.parent] = op.path
    BY <1>1, <2>2, ForestFacts, ConcatEmptySeq DEF ObjectsInv, OpInv, Looking, Position
  <2> QED
    BY <2>1, <2>2, <2>3 DEF Named
<1>3. CASE present' = present
  BY <1>3
<1>4. CASE DeleteFile /\ op.parent = Special
  BY <1>1, <1>4 DEF DeleteFile, CalmInv, OpCalm, MissedInv, Named
<1> QED
  BY <1>2, <1>3, <1>4 DEF DeleteFile, RemoveDir, NotDeleted, Deleted

\* Deleting takes nothing away but what has the path that was asked for: a folder
\* always, a file as long as all is calm and the driver has heard of it
\* (delete_file_func, remove_dir_func).
THEOREM RemovalsAreNamed ==
    ASSUME NamesApart
    PROVE  Spec => RemovesOnlyNamed
<1>1. Init => LoadedInv
  BY DEF Init, LoadedInv, RemovedGone, LoadedFoldersComplete, Queue, Range, Removed,
     Cached
<1>2. ObjectsInv /\ LoadedInv /\ [Next]_vars => LoadedInv'
  BY LoadedKept
<1>3. ObjectsInv /\ LoadedInv /\ CalmInv /\ [Next]_vars => CalmInv'
  BY CalmKept
<1>4. ObjectsInv /\ CalmInv /\ [Next]_vars =>
        [present \ present' \subseteq UNION {Below(h) : h \in Named}
           \/ ~(DeleteFile \/ RemoveDir)
           \/ (DeleteFile /\ ~(Calm /\ \E h \in Named \cap present : ~Announced(h)))]_vars
  BY RemovesNamed
<1> QED
  BY <1>1, <1>2, <1>3, <1>4, CalmStarts, ObjectsInvAlways, PTL DEF Spec, RemovesOnlyNamed
====
