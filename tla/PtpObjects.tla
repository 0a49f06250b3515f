---- MODULE PtpObjects ----
(***************************************************************************)
(* The object cache of the ptp2 driver: params->objects, the array of       *)
(* object handles sorted by handle, with what is known of each object, and  *)
(* the filesystem functions of the driver that fill it, walk it by index    *)
(* and act on what they find (camlibs/ptp2/ptp.c, camlibs/ptp2/library.c).  *)
(*                                                                          *)
(* Every PTP transaction is a step of its own: between two of them the      *)
(* camera takes pictures, loses objects (deleted at the camera, a card       *)
(* removed) and sends events.  There is one store.  The names in a folder,  *)
(* the folder and the kind of an object never change; a handle is not used  *)
(* twice.  Over PTP/IP the driver also reads events inside a transaction    *)
(* (EventsInTransactions); the vendor branches (Canon EOS listing, Fuji's   *)
(* counted handles, DELETE_SENDS_EVENT) are left out.                       *)
(***************************************************************************)
EXTENDS Integers, Sequences, FiniteSets, SequencesExt

CONSTANTS
    Handles,                \* the object handles the camera can hand out
    Folders,                \* those that are associations
    Parent,                 \* Parent[h]: the folder h is in, or Root
    Name,                   \* Name[h]: its file name
    InitialObjects,         \* the objects on the card at first
    Special,                \* PTP_HANDLER_SPECIAL, 0xffffffff
    None,                   \* an unset PTPOBJECT_PARENTOBJECT_LOADED
    EventsInTransactions,   \* PTP/IP: sendreq and cmd_read look for events
    MaxTrouble              \* bound: removals made at the camera and
                            \* transactions that fail, together

Root == 0                   \* PTP_HANDLER_ROOT

ASSUME ObjectsAssumption ==
    /\ Handles \subseteq Nat \ {Root} /\ IsFiniteSet(Handles)
    /\ Folders \subseteq Handles /\ InitialObjects \subseteq Handles
    /\ Parent \in [Handles -> Folders \cup {Root}]
    /\ DOMAIN Name = Handles
    /\ Special \notin Handles \cup {Root} /\ None \notin Handles \cup {Root}
    /\ EventsInTransactions \in BOOLEAN
    /\ MaxTrouble \in Nat

VARIABLES
    present,    \* the camera: the objects it has
    used,       \* the camera: the handles it has given out
    wire,       \* events sent and not read yet
    events,     \* params->events
    cache,      \* params->objects: handle -> what is known of it
    known,      \* the paths the filesystem cache and the frontend have seen
    pc, op,     \* the operation of the driver that is running
    vanished, faults,
    astray      \* history: some DeleteObject has asked for all objects

vars == <<present, used, wire, events, cache, known, pc, op, vanished, faults, astray>>
camera == <<present, used, vanished, astray>>
client == <<cache, known, pc, op>>

Ancestors[h \in Handles \cup {Root}] ==
    IF h = Root THEN {} ELSE {h} \cup Ancestors[Parent[h]]
Path[h \in Handles \cup {Root}] ==
    IF h = Root THEN <<>> ELSE Append(Path[Parent[h]], Name[h])
Below(h) == {g \in Handles : h \in Ancestors[g]}
Names == {Name[h] : h \in Handles}

\* Folders are not in each other: every object has a finite depth.
ASSUME ForestAssumption ==
    /\ \E depth \in [Handles \cup {Root} -> 0..Cardinality(Handles)] :
         depth[Root] = 0 /\ \A h \in Handles : depth[h] = depth[Parent[h]] + 1
    /\ \A h \in InitialObjects : Parent[h] \in InitialObjects \cup {Root}
    /\ \A g, h \in InitialObjects : Path[g] = Path[h] => g = h

Event == [type : {"Added", "Removed"}, handle : Handles] \cup [type : {"Store"}]
Listings == {"files", "folders"}
Removals == {"delete", "rmdir"}
Uploads == {"put", "mkdir"}
Kinds == Listings \cup Removals \cup Uploads \cup {"init", "info", "wait"}

(***************************************************************************)
(* The array                                                                *)
(***************************************************************************)
Cached == DOMAIN cache
Entry == [parent : Handles \cup {Root, None}, store : BOOLEAN,
          info : BOOLEAN, listed : BOOLEAN]
Fresh == [parent |-> None, store |-> FALSE, info |-> FALSE, listed |-> FALSE]

\* The index of an object in the sorted array.
Index(h) == Cardinality({g \in Cached : g < h})

Placed(h) == h \in Cached /\ cache[h].parent # None /\ cache[h].store
HasInfo(h) == h \in Cached /\ cache[h].info

\* ptp_object_find_or_insert
Inserted(h) ==
    [g \in Cached \cup {h} |-> IF g \in Cached THEN cache[g] ELSE Fresh]

\* Mutant: the saved parent is put back although none was recorded.
FilledSaved(h) ==
    [Inserted(h) EXCEPT
        ![h].parent = IF @ = None THEN Root ELSE @,
        ![h].store = TRUE, ![h].info = TRUE]

\* ptp_object_want after GetObjectInfo answered: a parent recorded before is kept.
Filled(h) ==
    [Inserted(h) EXCEPT
        ![h].parent = IF @ = None THEN Parent[h] ELSE @,
        ![h].store = TRUE, ![h].info = TRUE]

\* ptp_remove_object_from_cache
Dropped(h) == [g \in Cached \ {h} |-> cache[g]]

\* The merge of fetched handles into the array by ptp_list_folder(store, folder):
\* new objects of the root are not tagged with their parent, old ones are.
Merged(objects, handles, folder, store) ==
    [h \in DOMAIN objects \cup handles |->
        IF h \notin handles THEN objects[h]
        ELSE IF h \in DOMAIN objects
             THEN [objects[h] EXCEPT !.parent = folder, !.store = @ \/ store]
             ELSE [Fresh EXCEPT !.parent = IF folder = Root THEN None ELSE folder,
                                !.store = store]]

(***************************************************************************)
(* Transactions                                                             *)
(***************************************************************************)
\* A transaction runs; over PTP/IP it may find events that were sent before.
Transaction ==
    \E n \in 0 .. IF EventsInTransactions THEN Len(wire) ELSE 0 :
        /\ events' = events \o SubSeq(wire, 1, n)
        /\ wire' = SubSeq(wire, n + 1, Len(wire))

Children(folder) == {h \in present : Parent[h] = folder}

\* The camera can make h: a handle is not used twice, and a name not while the
\* object that has it is there.
New(h) == h \notin used /\ \A g \in present : Path[g] # Path[h]

Trouble == vanished + faults < MaxTrouble

\* A transaction that the camera can carry out succeeds, or fails for another
\* reason: it is busy, a packet is lost.
Succeeds == Transaction /\ UNCHANGED <<faults>>
Fails == Transaction /\ Trouble /\ faults' = faults + 1
\* It refuses what concerns an object it does not have.
Refused(h) == h \notin present /\ Succeeds

(***************************************************************************)
(* The operations                                                           *)
(***************************************************************************)
NewOp(kind, path) ==
    [kind |-> kind, path |-> path, todo |-> path, parent |-> Root, dest |-> Root,
     i |-> 0, redone |-> FALSE, got |-> {}, result |-> "none",
     last |-> IF kind \in Listings THEN Cardinality(Cached) ELSE 0,
     before |-> IF kind \in Listings THEN present ELSE {}]
NoOp == [kind |-> "init", path |-> <<>>, todo |-> <<>>, parent |-> Root,
         dest |-> Root, i |-> 0, redone |-> FALSE, got |-> {}, result |-> "none",
         last |-> 0, before |-> {}]

Reply(result) == pc' = "return" /\ op' = [op EXCEPT !.result = result]

\* The loop of folder_to_handle goes on with the parent found for the first of
\* todo; a put or mkdir in the root of the store replaces Root by Special.
Descend(o, h, todo) ==
    LET uploads == o.kind \in Uploads /\ Len(todo) = 1
        parent == IF uploads /\ h = Root THEN Special ELSE h
    IN  [o EXCEPT !.todo = todo, !.parent = parent, !.i = 0,
                  !.dest = IF uploads THEN parent ELSE @]

\* find_child returned h, or Special if there is no such child.
Found(h) ==
    /\ op' = Descend(op, h, Tail(op.todo))
    /\ pc' = IF op.kind \notin Listings /\ Len(op.todo) = 1 THEN "act" ELSE "folder"

Begin(kind, path) ==
    /\ pc = "idle"
    /\ op' = Descend(NewOp(kind, path), Root, path)
    /\ pc' = IF kind \in Removals \cup {"wait"} THEN "event" ELSE "folder"
    /\ UNCHANGED <<camera, wire, events, cache, known, faults>>

\* The filesystem above calls with names it knows, of the right kind.
FolderPaths == {Path[h] : h \in Folders}
List == \E kind \in Listings, path \in (known \cap FolderPaths) \cup {<<>>} :
            Begin(kind, path)
GetInfo == \E path \in known \ FolderPaths : Begin("info", path)
Delete == \E path \in known \ FolderPaths : Begin("delete", path)
\* gp_filesystem_remove_dir refuses a folder in which it knows something.
RemoveFolder ==
    \E path \in known \cap FolderPaths :
        (\A p \in known : ~IsStrictPrefix(path, p)) /\ Begin("rmdir", path)
\* gp_filesystem_put_file and gp_filesystem_make_dir look the folder up first.
Upload == \E h \in Handles :
            /\ Parent[h] = Root \/ Path[Parent[h]] \in known
            /\ Begin(IF h \in Folders THEN "mkdir" ELSE "put", Path[h])
WaitForEvent == Begin("wait", <<>>)

Return ==
    /\ pc = "return"
    /\ pc' = "idle" /\ op' = NoOp
    /\ UNCHANGED <<camera, wire, events, cache, known, faults>>

(***************************************************************************)
(* ptp_list_folder(storage, op.parent)                                      *)
(***************************************************************************)
\* Its caller goes on: file_list_func and folder_list_func with their own scan,
\* find_child with the search for the first of op.todo.
FolderListed ==
    /\ pc' = IF op.todo = <<>> THEN "scan" ELSE "find"
    /\ op' = [op EXCEPT !.i = 0]
FolderFailed ==
    IF op.todo = <<>> THEN Reply("error") ELSE Found(Special)

IsLoaded ==
    \/ op.parent = Root /\ Cached # {}
    \/ op.parent \in Cached /\ cache[op.parent].listed

\* Nothing has to be fetched.  (The ptp_object_want of the folder, 2737-2740, finds
\* the info that finding the folder has read.)
FolderKnown ==
    /\ pc = "folder" /\ IsLoaded /\ FolderListed
    /\ UNCHANGED <<camera, wire, events, cache, known, faults>>

\* Mutant: the special handle is not replaced by the root.
FetchHandlesSpecial ==
    /\ pc = "folder" /\ ~IsLoaded
    /\ Succeeds /\ FolderListed
    /\ cache' = Merged(cache, Children(Root), op.parent, TRUE)
    /\ UNCHANGED <<camera, known>>

\* PTPOBJECT_DIRECTORY_LOADED is set before the handles are fetched.
FetchHandles ==
    LET marked == IF op.parent \in Cached
                  THEN [cache EXCEPT ![op.parent].listed = TRUE] ELSE cache
        folder == IF op.parent = Special THEN Root ELSE op.parent
    IN  /\ pc = "folder" /\ ~IsLoaded
        /\ \/ /\ folder \in present \cup {Root} /\ Succeeds
              /\ cache' = Merged(marked, Children(folder), folder, TRUE)
              /\ FolderListed
           \/ /\ (folder # Root /\ Refused(folder)) \/ Fails
              /\ cache' = marked /\ FolderFailed
        /\ UNCHANGED <<camera, known>>

(***************************************************************************)
(* The walks over the array by index                                        *)
(***************************************************************************)
AtEnd == op.i >= Cardinality(Cached)
Skip == op' = [op EXCEPT !.i = @ + 1] /\ UNCHANGED pc

\* One round of a walk at object h: ptp_object_want reads what is missing (the
\* place of h, and its info if it is in the folder), then the caller Visits it.
\* A failing read takes h out of the array, under the index of the walk.
NeedsInfo(h) == ~Placed(h) \/ (cache[h].parent = op.parent /\ ~HasInfo(h))
ReadInfo(h) == h \in present /\ Succeeds /\ cache' = Filled(h)
NoTransaction == UNCHANGED <<cache, wire, events, faults>>
Look(h) == IF NeedsInfo(h) THEN ReadInfo(h) ELSE NoTransaction
\* Mutant: the parent is not compared.
AnyFolder(h) == TRUE
InThisFolder(h) == cache'[h].parent = op.parent

\* find_child
FindChild ==
    /\ pc = "find" /\ ~AtEnd
    /\ \E h \in Cached :
        /\ Index(h) = op.i
        /\ \/ /\ Look(h)
              /\ IF InThisFolder(h) /\ Name[h] = Head(op.todo) THEN Found(h) ELSE Skip
           \/ /\ NeedsInfo(h) /\ (Refused(h) \/ Fails)
              /\ cache' = Dropped(h) /\ Skip
    /\ UNCHANGED <<camera, known>>

NoChild ==
    /\ pc = "find" /\ AtEnd /\ Found(Special)
    /\ UNCHANGED <<camera, wire, events, cache, known, faults>>

\* The filter of file_list_func and of folder_list_func.
Wanted(h) == InThisFolder(h) /\ (h \in Folders <=> op.kind = "folders")

\* The loop of file_list_func and folder_list_func.  Losing an object whose
\* place was known is taken for a race and skipped, any other failure ends it.
ScanObject ==
    /\ pc = "scan" /\ ~AtEnd
    /\ \E h \in Cached :
        /\ Index(h) = op.i
        /\ \/ /\ Look(h)
              /\ op' = [op EXCEPT !.i = @ + 1,
                                  !.got = IF Wanted(h) THEN @ \cup {Name[h]} ELSE @]
              /\ UNCHANGED pc
           \/ /\ NeedsInfo(h) /\ Refused(h) /\ Placed(h)
              /\ cache' = Dropped(h) /\ Skip
           \/ /\ NeedsInfo(h) /\ ((Refused(h) /\ ~Placed(h)) \/ Fails)
              /\ cache' = Dropped(h) /\ Reply("error")
    /\ UNCHANGED <<camera, known>>

\* Mutants: the new scan starts where the last one ended; nobody counts the scans.
ScanAgainAtEnd ==
    /\ pc = "scan" /\ AtEnd /\ Cardinality(Cached) # op.last /\ ~op.redone
    /\ op' = [op EXCEPT !.got = {}, !.redone = TRUE, !.last = Cardinality(Cached)]
    /\ UNCHANGED <<camera, wire, events, cache, known, pc, faults>>
ScanAgainForever ==
    /\ pc = "scan" /\ AtEnd /\ Cardinality(Cached) # op.last
    /\ op' = [op EXCEPT !.i = 0, !.got = {}]
    /\ UNCHANGED <<camera, wire, events, cache, known, pc, faults>>

\* The array has another size than at the last look: scan once more, once.
ScanAgain ==
    /\ pc = "scan" /\ AtEnd /\ Cardinality(Cached) # op.last /\ ~op.redone
    /\ op' = [op EXCEPT !.i = 0, !.got = {}, !.redone = TRUE,
                        !.last = Cardinality(Cached)]
    /\ UNCHANGED <<camera, wire, events, cache, known, pc, faults>>

ScanDone ==
    /\ pc = "scan" /\ AtEnd /\ (Cardinality(Cached) = op.last \/ op.redone)
    /\ known' = known \cup {Append(op.path, n) : n \in op.got}
    /\ Reply("ok")
    /\ UNCHANGED <<camera, wire, events, cache, faults>>

(***************************************************************************)
(* The operations on the child that was found, op.parent                    *)
(***************************************************************************)
\* get_info_func
InfoFound ==
    /\ pc = "act" /\ op.kind = "info"
    /\ Reply(IF op.parent = Special THEN "error" ELSE "ok")
    /\ UNCHANGED <<camera, wire, events, cache, known, faults>>

\* What the camera deletes for a handle: 0xffffffff stands for all objects.
Victims(h) == IF h = Special THEN present ELSE Below(h)
Forget(path) == known' = {p \in known : ~IsPrefix(path, p)}

Deleted ==
    /\ op.parent \in present \cup {Special} /\ Succeeds
    /\ present' = present \ Victims(op.parent)
    /\ cache' = Dropped(op.parent)
    /\ Forget(op.path) /\ Reply("ok")
NotDeleted(result) ==
    /\ (op.parent # Special /\ Refused(op.parent)) \/ Fails
    /\ Reply(result)
    /\ UNCHANGED <<present, cache>>

\* delete_file_func looks at neither the handle nor the result of DeleteObject.
DeleteFile ==
    /\ pc = "act" /\ op.kind = "delete"
    /\ \/ Deleted /\ astray' = (astray \/ op.parent = Special)
       \/ NotDeleted("ok") /\ Forget(op.path) /\ UNCHANGED astray
    /\ UNCHANGED <<used, vanished>>

\* Mutant: the handle is not checked.
RemoveDirUnchecked ==
    /\ pc = "act" /\ op.kind = "rmdir"
    /\ Deleted \/ (NotDeleted("error") /\ UNCHANGED known)
    /\ UNCHANGED <<used, vanished, astray>>

\* remove_dir_func
RemoveDir ==
    /\ pc = "act" /\ op.kind = "rmdir"
    /\ \/ /\ op.parent = Special /\ Reply("error")
          /\ UNCHANGED <<present, wire, events, cache, known, faults>>
       \/ /\ op.parent # Special
          /\ Deleted \/ (NotDeleted("error") /\ UNCHANGED known)
    /\ UNCHANGED <<used, vanished, astray>>

\* put_file_func and make_dir_func: send the object, then add_object, which
\* inserts the handle without asking for its info.
Exists ==
    /\ pc = "act" /\ op.kind \in Uploads
    /\ op.parent # Special /\ Reply("error")
    /\ UNCHANGED <<camera, wire, events, cache, known, faults>>

\* Mutant: the new object is not added to the array.
SendObjectOnly ==
    /\ pc = "act" /\ op.kind \in Uploads /\ op.parent = Special
    /\ \/ \E h \in Handles \ used :
            /\ Path[h] = op.path /\ Parent[h] \in present \cup {Root}
            /\ Succeeds
            /\ present' = present \cup {h} /\ used' = used \cup {h}
            /\ known' = known \cup {op.path} /\ Reply("ok")
       \/ Succeeds /\ Reply("error") /\ UNCHANGED <<present, used, known>>
    /\ UNCHANGED <<vanished, cache, astray>>

SendObject ==
    /\ pc = "act" /\ op.kind \in Uploads /\ op.parent = Special
    /\ \/ \E h \in Handles :
            /\ New(h)
            /\ Parent[h] = IF op.dest = Special THEN Root ELSE op.dest
            /\ Parent[h] \in present \cup {Root}
            /\ Name[h] = Last(op.path) /\ (h \in Folders <=> op.kind = "mkdir")
            /\ Succeeds
            /\ present' = present \cup {h} /\ used' = used \cup {h}
            /\ cache' = Inserted(h) /\ known' = known \cup {op.path}
            /\ Reply("ok")
       \/ /\ Succeeds \* no room on the card, or no such folder any more
          /\ Reply("error") /\ UNCHANGED <<present, used, cache, known>>
    /\ UNCHANGED <<vanished, astray>>

(***************************************************************************)
(* Events                                                                   *)
(***************************************************************************)
\* ptp_check_event and ptp_wait_event: no event, or the next one is queued and
\* handle_event_internal looks at it: a store event empties the array.
NextPhase == IF op.kind = "wait" THEN "pop" ELSE "folder"

NoEvent ==
    /\ pc = "event" /\ pc' = NextPhase
    /\ UNCHANGED <<camera, wire, events, cache, known, op, faults>>

ReadEvent ==
    /\ pc = "event" /\ wire # <<>>
    /\ events' = Append(events, Head(wire)) /\ wire' = Tail(wire)
    /\ IF Head(wire).type = "Store"
       THEN pc' = "rootall" /\ cache' = [h \in {} |-> Fresh]
       ELSE pc' = NextPhase /\ UNCHANGED cache
    /\ UNCHANGED <<camera, known, op, faults>>

\* camera_init and a store event list the root, first of all stores (nothing is
\* known of the new objects), then of the store; the results are ignored.
ListRoot ==
    /\ pc \in {"rootall", "rootstore"}
    /\ \/ /\ Succeeds
          /\ cache' = Merged(cache, Children(Root), Root, pc = "rootstore")
       \/ Fails /\ UNCHANGED cache
    /\ \/ pc = "rootall" /\ pc' = "rootstore" /\ UNCHANGED op
       \/ pc = "rootstore" /\ op.kind = "init" /\ pc' = "idle" /\ UNCHANGED op
       \/ pc = "rootstore" /\ op.kind # "init" /\ pc' = NextPhase /\ UNCHANGED op
    /\ UNCHANGED <<camera, known>>

\* ptp_get_one_event and the switch of camera_wait_for_event; gp_filesystem_reset
\* makes the frontend forget the paths.
PopEvent ==
    /\ pc = "pop" /\ events # <<>> /\ events' = Tail(events)
    /\ LET e == Head(events)
       IN  \/ /\ e.type = "Added"
              /\ pc' = "added" /\ op' = [op EXCEPT !.parent = e.handle]
              /\ UNCHANGED <<cache, known>>
           \/ /\ e.type = "Removed"
              /\ cache' = Dropped(e.handle) /\ known' = {} /\ Reply("ok")
           \/ /\ e.type = "Store"
              /\ known' = {} /\ Reply("ok") /\ UNCHANGED cache
    /\ UNCHANGED <<camera, wire, faults>>

TimedOut ==
    /\ pc = "pop" /\ events = <<>> /\ Reply("timeout")
    /\ UNCHANGED <<camera, wire, events, cache, known, faults>>

\* PTP_EC_ObjectAdded: the object is read; op.dest is its handle, op.parent the
\* folder that is looked up next, op.path the path built so far.
ReadAdded ==
    /\ pc = "added"
    /\ \/ /\ IF HasInfo(op.parent) THEN NoTransaction ELSE ReadInfo(op.parent)
          /\ pc' = "path"
          /\ op' = [op EXCEPT !.dest = op.parent, !.path = <<Name[op.parent]>>,
                              !.parent = cache'[op.parent].parent]
       \/ /\ ~HasInfo(op.parent) /\ (Refused(op.parent) \/ Fails)
          /\ cache' = Dropped(op.parent) /\ Reply("error")
    /\ UNCHANGED <<camera, known>>

\* get_folder_from_handle
ReadParent ==
    /\ pc = "path" /\ op.parent # Root
    /\ IF HasInfo(op.parent) THEN NoTransaction ELSE ReadInfo(op.parent)
    /\ op' = [op EXCEPT !.path = <<Name[op.parent]>> \o @,
                        !.parent = cache'[op.parent].parent]
    /\ UNCHANGED <<camera, known, pc>>

\* The path is complete, or reading a folder failed, which nobody looks at: the
\* object is then reported in the root of the store.
ReportAdded ==
    LET path == IF op.parent = Root THEN op.path ELSE <<Name[op.dest]>>
    IN  /\ pc = "path"
        /\ \/ op.parent = Root /\ NoTransaction
           \/ /\ op.parent # Root /\ ~HasInfo(op.parent)
              /\ (Refused(op.parent) \/ Fails)
              /\ cache' = Dropped(op.parent)
        /\ known' = IF op.dest \in Folders THEN {} ELSE known \cup {path}
        /\ pc' = "return" /\ op' = [op EXCEPT !.result = "added", !.path = path]
        /\ UNCHANGED camera

(***************************************************************************)
(* The camera                                                               *)
(***************************************************************************)
Capture ==
    \E h \in Handles :
        /\ New(h) /\ Parent[h] \in present \cup {Root}
        /\ present' = present \cup {h} /\ used' = used \cup {h}
        /\ wire' = Append(wire, [type |-> "Added", handle |-> h])
        /\ UNCHANGED <<events, vanished, faults, astray, client>>

Vanish ==
    \E h \in present :
        /\ Trouble /\ vanished' = vanished + 1
        /\ present' = present \ Below(h)
        /\ wire' = Append(wire, [type |-> "Removed", handle |-> h])
        /\ UNCHANGED <<used, events, faults, astray, client>>

RemoveCard ==
    /\ Trouble /\ vanished' = vanished + 1
    /\ present' = {} /\ wire' = Append(wire, [type |-> "Store"])
    /\ UNCHANGED <<used, events, faults, astray, client>>

Init ==
    /\ present = InitialObjects /\ used = InitialObjects
    /\ wire = <<>> /\ events = <<>>
    /\ cache = [h \in {} |-> Fresh] /\ known = {}
    /\ pc = "rootall" /\ op = NoOp
    /\ vanished = 0 /\ faults = 0 /\ astray = FALSE

Walk == FindChild \/ NoChild \/ ScanObject \/ ScanAgain \/ ScanDone
ListFolder == FolderKnown \/ FetchHandles
Act == InfoFound \/ DeleteFile \/ RemoveDir \/ Exists \/ SendObject
Events == NoEvent \/ ReadEvent \/ ListRoot \/ PopEvent \/ TimedOut
            \/ ReadAdded \/ ReadParent \/ ReportAdded
Driver == ListFolder \/ Walk \/ Act \/ Events \/ Return
Frontend == List \/ GetInfo \/ Delete \/ RemoveFolder \/ Upload \/ WaitForEvent
Camera == Capture \/ Vanish \/ RemoveCard
Next == Driver \/ Frontend \/ Camera

\* A running operation goes on: it waits for nothing but the camera's answers,
\* which Fails covers when they do not come.
Spec == Init /\ [][Next]_vars
FairSpec == Spec /\ WF_vars(Driver)

(***************************************************************************)
(* Properties                                                               *)
(***************************************************************************)
Phases == {"idle", "event", "folder", "find", "scan", "act", "return",
           "rootall", "rootstore", "pop", "added", "path"}

\* Type invariant.
TypeOK ==
    /\ present \subseteq used /\ used \subseteq Handles
    /\ wire \in Seq(Event) /\ events \in Seq(Event)
    /\ Cached \subseteq Handles /\ cache \in [Cached -> Entry]
    /\ pc \in Phases /\ op.kind \in Kinds
    /\ op.parent \in Handles \cup {Root, Special}
    /\ vanished \in Nat /\ faults \in Nat /\ vanished + faults <= MaxTrouble
    /\ astray \in BOOLEAN

\* The parent recorded for an object, by a listing or by its info, is its folder,
\* through every listing, failure, removal and reload (ptp_list_folder,
\* ptp_object_want keep what is recorded and never ask again).
ParentsTrue ==
    \A h \in Cached : cache[h].parent \in {None, Parent[h]}

\* An object of which the driver will still hear: its event is on its way.
Announced(h) ==
    \/ [type |-> "Added", handle |-> h] \in Range(wire) \cup Range(events)
    \/ pc = "added" /\ op.parent = h

\* A folder that is marked as loaded, and the root, is never fetched again: as long
\* as no transaction fails, every object it holds is in the array or announced.
LoadedFoldersComplete ==
    faults = 0 /\ pc # "rootall" /\ pc # "rootstore" =>
        \A h \in present :
            Parent[h] = Root \/ (Parent[h] \in Cached /\ cache[Parent[h]].listed)
                => h \in Cached \/ Announced(h)

\* Nothing has vanished, no transaction has failed, and no DeleteObject has asked
\* for all objects.
Calm == vanished = 0 /\ faults = 0 /\ ~astray

\* No file has the name of a folder in the root.
NamesApart ==
    \A f \in Folders, g \in Handles \ Folders : Parent[f] = Root => Name[f] # Name[g]

\* A listing that succeeds has every object that was in the folder all the time it
\* ran, unless the object is still announced: the walk by index survives the array
\* growing under it, as long as nothing else goes wrong.
ListingComplete ==
    pc = "return" /\ op.kind \in Listings /\ op.result = "ok" /\ Calm =>
        \A h \in op.before \cap present :
            /\ Path[Parent[h]] = op.path
            /\ h \in Folders <=> op.kind = "folders"
            => Name[h] \in op.got \/ Announced(h)

\* What an operation answers is of the object that was asked for, whatever vanished
\* or failed while the array was walked: a listing names only objects of its folder,
\* get_info reports on an object of that name in that folder; the path of a new
\* object that is still there is right unless reading a folder on the way failed.
AnswersTrue ==
    pc = "return" =>
        /\ op.kind \in Listings =>
             \A n \in op.got : \E h \in used : Path[h] = Append(op.path, n)
        /\ op.kind = "info" /\ op.result = "ok" => Path[op.parent] = op.path
        /\ op.result = "added" /\ op.dest \in present /\ faults = 0 =>
             op.path = Path[op.dest]

\* Deleting a file or a folder takes nothing away but what has that path
\* (gphoto2-camera.c:1809 "Deletes the file from folder").
Named == {h \in Handles : Path[h] = op.path}
DeletesOnlyNamed ==
    [][present \ present' \subseteq UNION {Below(h) : h \in Named}
         \/ ~(DeleteFile \/ RemoveDir)]_vars

\* remove_dir_func, which checks the handle it found, does so whatever happened;
\* delete_file_func does as long as all is calm and the camera has the file, of
\* which the driver has heard.
RemovesOnlyNamed ==
    [][present \ present' \subseteq UNION {Below(h) : h \in Named}
         \/ ~(DeleteFile \/ RemoveDir)
         \/ (DeleteFile /\ ~(Calm /\ \E h \in Named \cap present : ~Announced(h)))]_vars

\* Every operation ends.
OperationsReturn == pc # "idle" ~> pc = "idle"
====
