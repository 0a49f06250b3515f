----------------------------- MODULE Filesystem -----------------------------
(***************************************************************************)
(* CameraFilesystem (libgphoto2/gphoto2-filesys.c): a cache of the         *)
(* camera's folders, files, file information and images, filled on demand  *)
(* by the functions of the camera driver.  Every folder has two flags,     *)
(* files_dirty and folders_dirty, that say which part of it must be listed *)
(* again.                                                                  *)
(*                                                                         *)
(* The library is sequential, so one action is one call of the API or of   *)
(* the driver.  A call is written as operators that pass on a world: the   *)
(* cache, the camera, the outcomes of the driver calls still to come, and  *)
(* the result so far.  A driver call that fails leaves the world as the C  *)
(* code leaves it where it returns.                                        *)
(***************************************************************************)
EXTENDS Integers, Sequences, FiniteSets, FiniteSetsExt, Functions

CONSTANTS
  Root, Dirs,     \* the root folder and the other paths that may exist
  Parent,         \* the folder above each of Dirs
  Keys,           \* the files that may exist: pairs of a folder and a name
  Perms,          \* values of the permissions in CameraFileInfo
  Protected,      \* those with which the camera refuses to delete a file
  Null, Keep,     \* see Lru, LruList
  HasDeleteAll,   \* the driver has a delete_all_func
  Faulty,         \* driver functions that may fail without having done anything
  Partial,        \* driver functions that may fail having done their work
  MaxCalls,       \* bound on the driver calls of one operation that may fail
  MaxEvents       \* bound on the changes made on the camera and not yet read

Paths == Dirs \cup {Root}
Absent == "absent"  \* the permissions are not among the fields of the info

\* The folders above p.
Above[p \in Paths] == IF p = Root THEN {} ELSE {Parent[p]} \cup Above[Parent[p]]

ASSUME FilesystemAssumption ==
  /\ Root \notin Dirs /\ Parent \in [Dirs -> Paths]
  /\ \A k \in Keys : k[1] \in Paths /\ k = <<k[1], k[2]>>
  /\ Absent \notin Perms /\ Protected \subseteq Perms /\ Keep \in Nat
  /\ MaxCalls \in Nat /\ MaxEvents \in Nat
  /\ IsFiniteSet(Dirs) /\ IsFiniteSet(Keys) /\ Null \notin Keys

\* The folders form a tree.
ASSUME TreeAssumption ==
  \E depth \in [Paths -> 0..Cardinality(Dirs)] :
    depth[Root] = 0 /\ \A p \in Dirs : depth[p] = depth[Parent[p]] + 1

VARIABLES
  dirs,      \* the cached folders: their flags files_dirty and folders_dirty
  files,     \* the cached files: image (file->normal), info_dirty, permissions
  lru,       \* the list of the files whose images are kept
  camDirs,   \* the folders on the camera
  camFiles,  \* the files on the camera: their permissions
  events,    \* what changed on the camera by itself and was not read yet
  stale      \* a node was used after it was freed

vars == <<dirs, files, lru, camDirs, camFiles, events, stale>>

L == INSTANCE Lru WITH Nodes <- Keys

Flags == [filesDirty : BOOLEAN, foldersDirty : BOOLEAN]
Infos == [image : BOOLEAN, infoDirty : BOOLEAN, perm : Perms \cup {Absent}]
Outcomes == {"ok", "fail", "partial"}

Fresh == [filesDirty |-> TRUE, foldersDirty |-> TRUE]
PutAll(f, S, v) == [y \in DOMAIN f \cup S |-> IF y \in S THEN v ELSE f[y]]
Put(f, x, v) == PutAll(f, {x}, v)
Drop(f, S) == Restrict(f, DOMAIN f \ S)
In(S, d) == {k \in S : k[1] = d}
Below(S, p) == {q \in S : p \in Above[q]}
NamesIn(f, d) == {k[2] : k \in In(DOMAIN f, d)}
Children(S, p) == {q \in S \ {Root} : Parent[q] = p}

\* freed counts how often each folder node was freed during the call: a
\* pointer obtained before a node was freed and used afterwards dangles.
World(out) ==
  [dirs |-> dirs, files |-> files, lru |-> lru,
   camDirs |-> camDirs, camFiles |-> camFiles,
   out |-> out, ok |-> TRUE, stale |-> FALSE, freed |-> [p \in Paths |-> 0]]

Partly(S, R) == UNION {[D -> R] : D \in SUBSET S}
Worlds ==
  [dirs : Partly(Paths, Flags), files : Partly(Keys, Infos), lru : L!Lists,
   camDirs : SUBSET Paths, camFiles : Partly(Keys, Perms),
   out : Seq(Outcomes), ok : BOOLEAN, stale : BOOLEAN, freed : [Paths -> Nat]]

Ok(w) == [w EXCEPT !.ok = TRUE]
Error(w) == [w EXCEPT !.ok = FALSE]
Uses(w, p, before) == [w EXCEPT !.stale = @ \/ w.freed[p] # before]

\* The rest of a call, after a step that succeeded (the CR macro), and
\* whatever came of the step.
Try(w, Rest(_)) == IF w.ok THEN Rest(w) ELSE w
After(w, Rest(_)) == Rest(w)

\* A call of the driver's function f, which is "possible" or else fails.
Outcome(w, f) ==
  IF /\ w.out # <<>>
     /\ \/ Head(w.out) = "fail" /\ f \in Faulty
        \/ Head(w.out) = "partial" /\ f \in Partial
  THEN Head(w.out) ELSE "ok"
Ended(w, done, o) ==
  [(IF o = "fail" THEN w ELSE done) EXCEPT
     !.out = IF w.out = <<>> THEN <<>> ELSE Tail(w.out), !.ok = (o = "ok")]
Driver(w, f, possible, done) ==
  Ended(w, done, IF possible THEN Outcome(w, f) ELSE "fail")
-----------------------------------------------------------------------------
(* The nodes of the cache.                                                 *)

\* Mutant: the files are freed without leaving the LRU list.
FreeFilesLinked(w, S) == [w EXCEPT !.files = Drop(@, S)]

\* delete_all_files, delete_file
AllRemoved(l, S) == FoldSet(LAMBDA k, m : L!Removed(m, k), l, S)
FreeFiles(w, S) ==
  [w EXCEPT !.lru = AllRemoved(@, S \cap DOMAIN w.files), !.files = Drop(@, S)]

\* Mutant: the files of a freed folder are not freed.
FreeDirsOnly(w, S) ==
  [w EXCEPT !.dirs = Drop(@, S),
            !.freed = [p \in Paths |-> IF p \in S THEN @[p] + 1 ELSE @[p]]]

\* delete_folder
FreeDirs(w, S) ==
  [FreeFiles(w, {k \in DOMAIN w.files : k[1] \in S}) EXCEPT
     !.dirs = Drop(@, S),
     !.freed = [p \in Paths |-> IF p \in S THEN @[p] + 1 ELSE @[p]]]

\* Mutant: the folder is freed with its content.
FreeWhole(w, p) == FreeDirs(w, Below(DOMAIN w.dirs, p) \cup ({p} \ {Root}))

\* recurse_delete_folder
FreeBelow(w, p) == FreeDirs(w, Below(DOMAIN w.dirs, p))

\* append_folder_one
NewDirs(w, S) == [w EXCEPT !.dirs = PutAll(@, S, Fresh)]
NewDir(w, p) == NewDirs(w, {p})

\* internal_append, append_file: zeroed nodes, in no list.
Unlinked(f, S) == [k \in DOMAIN f |-> IF k \in S THEN Null ELSE f[k]]
NewFiles(w, S, image) ==
  [w EXCEPT !.files = PutAll(@, S, [image |-> image, infoDirty |-> TRUE, perm |-> Absent]),
            !.lru = L!List(@.first, @.last, Unlinked(@.prev, S), Unlinked(@.next, S))]
NewFile(w, k, image) == NewFiles(w, {k}, image)

Known(w, p) == [w EXCEPT !.ok = p \in DOMAIN w.dirs]
FoldersClean(w, p) ==
  [w EXCEPT !.dirs = IF p \in DOMAIN @ THEN [@ EXCEPT ![p].foldersDirty = FALSE] ELSE @]

\* gp_filesystem_list_folders of p, where look is the lookup of p: the folder stays
\* dirty when the driver fails; otherwise p is looked up again, all folders below are
\* freed and the children made anew.
Relist(look, w, p) ==
  Try(look[w], LAMBDA u :
    IF ~u.dirs[p].foldersDirty THEN u
    ELSE Try(Driver(u, "folder_list", p \in u.camDirs, u), LAMBDA c :
      After(look[c], LAMBDA v :
        Ok(FoldersClean(NewDirs(Uses(IF v.ok THEN FreeBelow(v, p) ELSE v, p, u.freed[p]),
                                Children(v.camDirs, p)), p)))))

\* The folder pointer p is used after its subfolders were listed on demand.
Refresh(look, w, p) ==
  Uses(IF w.dirs[p].foldersDirty THEN Relist(look, w, p) ELSE w, p, w.freed[p])

\* lookup_folder: walks down from the root and lists every dirty folder on the way,
\* which looks it up in turn; a listing that fails leaves the children known so far.
Descend(look, w, p) ==
  Try(look[w], LAMBDA u : Known(Refresh(look, u, Parent[p]), p))
Lookup[p \in Paths] ==
  [w \in Worlds |-> IF p = Root THEN Ok(w) ELSE Descend(Lookup[Parent[p]], w, p)]

LookupFolder(w, p) == Lookup[p][w]
ListFolders(w, p) == Relist(Lookup[p], w, p)
Refreshed(w, p) == Refresh(Lookup[p], w, p)

\* gp_filesystem_list_files: the files are deleted and the folder is marked
\* clean before the driver is asked.
FilesEmptied(w, p) ==
  [FreeFiles(w, In(DOMAIN w.files, p)) EXCEPT !.dirs[p].filesDirty = FALSE]
ListFiles(w, p) ==
  Try(LookupFolder(w, p), LAMBDA u :
    IF ~u.dirs[p].filesDirty THEN u
    ELSE After(FilesEmptied(u, p), LAMBDA v :
      Try(Driver(v, "file_list", p \in v.camDirs, v), LAMBDA c :
        NewFiles(c, In(DOMAIN c.camFiles, p), FALSE))))

\* lookup_folder_file: the result of the listing is ignored.
LookupFile(w, k) ==
  Try(LookupFolder(w, k[1]), LAMBDA u :
    After(IF u.dirs[k[1]].filesDirty THEN ListFiles(u, k[1]) ELSE u, LAMBDA v :
      [Uses(v, k[1], u.freed[k[1]]) EXCEPT !.ok = k \in DOMAIN v.files]))
-----------------------------------------------------------------------------
(* The calls.                                                              *)

\* gp_filesystem_get_info
InfoRead(w, k, perm) == [w EXCEPT !.files[k].infoDirty = FALSE, !.files[k].perm = perm]
GetInfo(w, k) ==
  Try(LookupFile(w, k), LAMBDA u :
    IF ~u.files[k].infoDirty THEN u
    ELSE Driver(u, "get_info", k \in DOMAIN u.camFiles, InfoRead(u, k, u.camFiles[k])))

\* gp_filesystem_set_info, for the permissions
CameraPerm(w, k, perm) ==
  Driver(w, "set_info", k \in DOMAIN w.camFiles, [w EXCEPT !.camFiles[k] = perm])
PermCached(w, k, perm) == [w EXCEPT !.files[k].perm = IF @ = Absent THEN @ ELSE perm]

\* Mutant: a failure does not mark the information dirty.
SetInfoClean(w, k, perm) ==
  Try(LookupFile(w, k), LAMBDA u :
    Try(CameraPerm(u, k, perm), LAMBDA c : PermCached(c, k, perm)))

SetInfo(w, k, perm) ==
  Try(LookupFile(w, k), LAMBDA u :
    After(CameraPerm(u, k, perm), LAMBDA c :
      IF c.ok THEN PermCached(c, k, perm) ELSE [c EXCEPT !.files[k].infoDirty = TRUE]))

\* delete_file_func of ptp2 ignores the result of the deletion: a file that the
\* camera refuses to delete, or does not have any more, is no error.
CameraDelete(w, k) ==
  Driver(w, "delete_file", TRUE,
         [w EXCEPT !.camFiles = Drop(@, {l \in DOMAIN @ : l = k /\ @[l] \notin Protected})])

\* Mutant of gp_filesystem_delete_file: the file stays in the cache.
DeleteFileKept(w, k) == Try(LookupFile(w, k), LAMBDA u : CameraDelete(u, k))

\* gp_filesystem_delete_file
DeleteFile(w, k) ==
  Try(LookupFile(w, k), LAMBDA u :
    Try(CameraDelete(u, k), LAMBDA c : FreeFiles(c, {k})))

\* Mutant: one file too few.
DeleteEachButOne(w, S) ==
  FoldSet(LAMBDA k, v : IF v.ok THEN DeleteFile(v, k) ELSE v, w,
          {k \in S : \E l \in S : l # k})

\* gp_filesystem_delete_all_one_by_one: stops at the first file that fails.
DeleteEach(w, S) ==
  FoldSet(LAMBDA k, v : IF v.ok THEN DeleteFile(v, k) ELSE v, w, S)
DeleteOneByOne(w, p) ==
  Try(ListFiles(w, p), LAMBDA u : DeleteEach(u, In(DOMAIN u.files, p)))

\* gp_filesystem_delete_all
CameraDeleteAll(w, p) ==
  Driver(w, "delete_all", p \in w.camDirs, [w EXCEPT !.camFiles = Drop(@, In(DOMAIN @, p))])
DeleteAll(w, p) ==
  Try(LookupFolder(w, p), LAMBDA u :
    IF ~HasDeleteAll THEN DeleteOneByOne(u, p)
    ELSE Try(After(CameraDeleteAll([u EXCEPT !.dirs[p].filesDirty = TRUE], p), LAMBDA c :
               IF c.ok THEN FreeFiles(c, In(DOMAIN c.files, p)) ELSE DeleteOneByOne(Ok(c), p)),
             LAMBDA d : [Uses(d, p, u.freed[p]) EXCEPT !.dirs[p].filesDirty = FALSE]))

\* gp_filesystem_make_dir
MakeDir(w, p) ==
  Try(LookupFolder(w, Parent[p]), LAMBDA u :
    Try(Driver(u, "make_dir", Parent[p] \in u.camDirs /\ p \notin u.camDirs,
               [u EXCEPT !.camDirs = @ \cup {p}]),
        LAMBDA c : NewDir(c, p)))

\* gp_filesystem_remove_dir: what is known of the folder must be empty.
CameraRemoveDir(w, p) ==
  Driver(w, "remove_dir", p \in w.camDirs,
         [w EXCEPT !.camDirs = @ \ (Below(w.camDirs, p) \cup {p}),
                   !.camFiles = Drop(@, {k \in DOMAIN @ : p \in Above[k[1]] \cup {k[1]}})])
RemoveDir(w, p) ==
  Try(LookupFolder(w, Parent[p]), LAMBDA u :
    After(Refreshed(u, Parent[p]), LAMBDA v :
      IF \/ p \notin DOMAIN v.dirs
         \/ Children(DOMAIN v.dirs, p) # {} \/ In(DOMAIN v.files, p) # {}
      THEN Error(v)
      ELSE Try(CameraRemoveDir(v, p), LAMBDA c : FreeDirs(c, {p}))))

\* gp_filesystem_put_file: the driver refuses a name that is on the camera.
PutFile(w, k, perm) ==
  Try(LookupFolder(w, k[1]), LAMBDA u :
    Try(Driver(u, "put_file", k[1] \in u.camDirs /\ k \notin DOMAIN u.camFiles,
               [u EXCEPT !.camFiles = Put(@, k, perm)]),
        LAMBDA c : IF k \in DOMAIN c.files THEN Error(c) ELSE NewFile(c, k, TRUE)))

\* append_folder: creates the first missing folder of the path, no other, and
\* the file goes there.
FirstMissing(w, p) ==
  CHOOSE q \in Above[p] \cup {p} : q \notin DOMAIN w.dirs /\ Parent[q] \in DOMAIN w.dirs
FileIn(w, k) == IF k \in DOMAIN w.files THEN w ELSE NewFile(w, k, FALSE)

\* Mutant: a dirty folder is not listed before the file is appended.
AppendToUnlisted(w, t, k) ==
  FileIn([Ok(w) EXCEPT !.dirs[t].filesDirty = FALSE], <<t, k[2]>>)

AppendTo(w, t, k) ==
  Try(IF w.dirs[t].filesDirty THEN ListFiles(w, k[1]) ELSE Ok(w), LAMBDA v :
    FileIn(Uses(v, t, w.freed[t]), <<t, k[2]>>))

\* gp_filesystem_append
Append1(w, k) ==
  After(LookupFolder(w, k[1]), LAMBDA u :
    IF u.ok THEN AppendTo(u, k[1], k)
    ELSE LET t == FirstMissing(u, k[1]) IN AppendTo(NewDir(u, t), t, k))

\* gp_filesystem_lru_free, until at most Keep images are left.
Images(w) == {k \in L!Members(w.lru) : w.files[k].image}
Evicted(w) == [w EXCEPT !.files[w.lru.first].image = FALSE, !.lru = L!FirstFreed(@)]
Pruned(w) ==
  FoldSet(LAMBDA i, v : IF Cardinality(Images(v)) > Keep THEN Evicted(v) ELSE v,
          w, 1..Cardinality(Keys))

\* gp_filesystem_set_file_noop of a normal image with a modification time:
\* the file is looked up here and, after the pruning, in lru_update again.
Linked(w, k) == [w EXCEPT !.lru = L!Added(L!Removed(@, k), k)]
SetFile(w, k) ==
  Try(LookupFile(w, k), LAMBDA u :
    Try(LookupFile(Pruned(u), k), LAMBDA v :
      After(Linked(v, k), LAMBDA x :
        IF L!ChecksOk(x.lru)
        THEN [Uses(x, k[1], u.freed[k[1]]) EXCEPT !.files[k].image = TRUE] ELSE Error(x))))

\* gp_filesystem_set_info_noop; the driver's info has no permissions.
SetInfoNoop(w, k) ==
  Try(LookupFile(w, k), LAMBDA u : InfoRead(u, k, Absent))

\* The driver's add_objectid_and_upload after a capture.
AddAndUpload(w, k) ==
  Try(Append1(w, k), LAMBDA u : Try(SetFile(u, k), LAMBDA v : SetInfoNoop(v, k)))

\* gp_filesystem_reset
Reset(w) ==
  IF ~L!ChecksOk(w.lru) THEN Error(w)
  ELSE [FreeFiles(FreeBelow([w EXCEPT !.lru = L!Cleared(@)], Root), In(DOMAIN w.files, Root))
          EXCEPT !.dirs[Root] = Fresh]
-----------------------------------------------------------------------------
Init ==
  /\ dirs = [p \in {Root} |-> Fresh] /\ files = <<>> /\ lru = L!Empty
  /\ camDirs \in {S \in SUBSET Paths : Root \in S /\ \A p \in S \ {Root} : Parent[p] \in S}
  /\ \E S \in SUBSET Keys :
       /\ \A k \in S : k[1] \in camDirs
       /\ camFiles \in [S -> Perms]
  /\ events = <<>> /\ stale = FALSE

Becomes(w) ==
  /\ dirs' = w.dirs /\ files' = w.files /\ lru' = w.lru
  /\ camDirs' = w.camDirs /\ camFiles' = w.camFiles
  /\ stale' = (stale \/ w.stale)

\* What the driver calls of one operation come to; a driver function that
\* only reads has nothing it could do half.
Outs == [1..MaxCalls -> {"ok", "fail", "partial"}]
Reads == [1..MaxCalls -> {"ok", "fail"}]

\* The calls that only read: they fill the cache.
ListFilesCall == \E o \in Reads, p \in Paths :
  Becomes(ListFiles(World(o), p)) /\ UNCHANGED events
ListFoldersCall == \E o \in Reads, p \in Paths :
  Becomes(ListFolders(World(o), p)) /\ UNCHANGED events
\* gp_filesystem_count counts the nodes that are known and lists nothing.
CountCall == \E o \in Reads, p \in Paths :
  Becomes(LookupFolder(World(o), p)) /\ UNCHANGED events
\* gp_filesystem_get_file downloads what is not cached and caches nothing.
GetFileCall == \E o \in Reads, k \in Keys :
  Becomes(LookupFile(World(o), k)) /\ UNCHANGED events
GetInfoCall == \E o \in Reads, k \in Keys :
  Becomes(GetInfo(World(o), k)) /\ UNCHANGED events

\* The calls that change the camera.
SetInfoCall == \E o \in Outs, k \in Keys, perm \in Perms :
  Becomes(SetInfo(World(o), k, perm)) /\ UNCHANGED events
DeleteFileCall == \E o \in Outs, k \in Keys :
  Becomes(DeleteFile(World(o), k)) /\ UNCHANGED events
DeleteAllCall == \E o \in Outs, p \in Paths :
  Becomes(DeleteAll(World(o), p)) /\ UNCHANGED events
MakeDirCall == \E o \in Outs, p \in Dirs :
  Becomes(MakeDir(World(o), p)) /\ UNCHANGED events
RemoveDirCall == \E o \in Outs, p \in Dirs :
  Becomes(RemoveDir(World(o), p)) /\ UNCHANGED events
PutFileCall == \E o \in Outs, k \in Keys, perm \in Perms :
  Becomes(PutFile(World(o), k, perm)) /\ UNCHANGED events
ResetCall == Becomes(Reset(World(<<>>))) /\ UNCHANGED events

\* A capture: the driver tells the filesystem of the new file, and of its
\* image when it has downloaded it already.
Capture == \E o \in Reads, k \in Keys, perm \in Perms :
  LET w == [World(o) EXCEPT !.camFiles = Put(@, k, perm)] IN
  /\ k[1] \in camDirs /\ k \notin DOMAIN camFiles
  /\ Becomes(Append1(w, k)) \/ Becomes(AddAndUpload(w, k))
  /\ UNCHANGED events

\* The camera, or its user, changes files and folders; the camera sends a
\* notice that waits for gp_camera_wait_for_event.
CameraChange ==
  /\ Len(events) < MaxEvents
  /\ \/ \E k \in Keys, perm \in Perms :
          /\ k[1] \in camDirs /\ k \notin DOMAIN camFiles
          /\ camFiles' = Put(camFiles, k, perm) /\ UNCHANGED camDirs
          /\ events' = Append(events, [added |-> k])
     \/ \E k \in DOMAIN camFiles :
          /\ camFiles' = Drop(camFiles, {k}) /\ UNCHANGED camDirs
          /\ events' = Append(events, [removed |-> k])
     \/ \E p \in Dirs \ camDirs :
          /\ Parent[p] \in camDirs /\ camDirs' = camDirs \cup {p} /\ UNCHANGED camFiles
          /\ events' = Append(events, [folder |-> p])
  /\ UNCHANGED <<dirs, files, lru, stale>>

\* The ptp2 driver reads a notice: a new file is appended if its information
\* can still be read; a new folder or a removal resets the filesystem.
WaitForEvent ==
  /\ events # <<>> /\ events' = Tail(events)
  /\ LET e == Head(events) IN
     \E o \in Reads :
       Becomes(IF "added" \notin DOMAIN e THEN Reset(World(o))
               ELSE IF e.added \in DOMAIN camFiles THEN Append1(World(o), e.added)
               ELSE World(o))

Next ==
  \/ ListFilesCall \/ ListFoldersCall \/ CountCall \/ GetFileCall \/ GetInfoCall
  \/ SetInfoCall \/ DeleteFileCall \/ DeleteAllCall \/ MakeDirCall \/ RemoveDirCall
  \/ PutFileCall \/ ResetCall \/ Capture \/ CameraChange \/ WaitForEvent

Spec == Init /\ [][Next]_vars
-----------------------------------------------------------------------------
\* Every variable has its type; the cached folders form a tree and every
\* cached file is in one of them.
TypeOK ==
  /\ DOMAIN dirs \subseteq Paths
  /\ dirs \in [DOMAIN dirs -> Flags]
  /\ \A p \in DOMAIN dirs \ {Root} : Parent[p] \in DOMAIN dirs
  /\ DOMAIN files \subseteq Keys /\ files \in [DOMAIN files -> Infos]
  /\ \A k \in DOMAIN files : k[1] \in DOMAIN dirs
  /\ lru \in L!Lists
  /\ camDirs \subseteq Paths /\ camFiles \in [DOMAIN camFiles -> Perms]
  /\ Len(events) <= MaxEvents /\ stale \in BOOLEAN

\* Once every notice of the camera was read, whatever calls were made in the
\* meantime, a clean folder holds what the camera holds: its files when
\* files_dirty is not set, its folders when folders_dirty is not set, and no
\* folder is known that the camera does not have.
Coherent ==
  events = <<>> =>
    /\ DOMAIN dirs \subseteq camDirs
    /\ \A p \in DOMAIN dirs :
         /\ ~dirs[p].filesDirty => NamesIn(files, p) = NamesIn(camFiles, p)
         /\ ~dirs[p].foldersDirty => Children(DOMAIN dirs, p) = Children(camDirs, p)

\* Nothing is shown that is not on the camera, even when driver calls fail.
NothingInvented ==
  events = <<>> => DOMAIN dirs \subseteq camDirs /\ DOMAIN files \subseteq DOMAIN camFiles

\* Information that is not marked dirty and names the permissions names those
\* on the camera, even when a change failed half way (gp_filesystem_set_info:
\* "mark info as dirty, because the operation could have been partially
\* successful").
InfoTrue ==
  events = <<>> =>
    \A k \in DOMAIN files \cap DOMAIN camFiles :
      files[k].infoDirty \/ files[k].perm \in {Absent, camFiles[k]}

\* The LRU list holds cached files with an image, in one chain.
LruIntact ==
  /\ L!ChecksOk(lru)
  /\ L!Members(lru) \subseteq {k \in DOMAIN files : files[k].image}

\* No folder or file node is used after a nested listing freed it.
NoStaleNode == ~stale

\* gp_filesystem_delete_all ("We can be sure that all files have been
\* deleted"): if it succeeds no file is left in the folder.
DeleteAllDeletes ==
  events = <<>> => \A p \in Paths :
    LET w == DeleteAll(World(<<>>), p) IN w.ok => In(DOMAIN w.camFiles, p) = {}
=============================================================================
