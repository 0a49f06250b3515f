---- MODULE Settings ----
(***************************************************************************)
(* The settings of libgphoto2 (libgphoto2/gphoto2-setting.c): a table in     *)
(* memory, loaded from ~/.gphoto/settings whenever it is empty, and written  *)
(* as a whole after every gp_setting_set, over the file, whose old content   *)
(* is gone from the moment it is opened.  The process can end at any point   *)
(* and the disk can be full.                                                 *)
(*                                                                           *)
(* A key is an (id, key) pair.  The table is a function: the order of its    *)
(* entries, which decides the ones an interrupted save has written, is left  *)
(* open.  The limit of 512 settings, which nobody checks, is left out.       *)
(***************************************************************************)
EXTENDS Naturals

CONSTANTS
    Keys,
    Values,
    Unset,          \* what gp_setting_get says of a key it does not find
    Cut,            \* a value that lost its end
    MaxTrouble      \* bound: ends of the process and saves that fail

ASSUME SettingsAssumption ==
    /\ Unset \notin Values \cup {Cut} /\ Cut \notin Values
    /\ MaxTrouble \in Nat

VARIABLES
    table,          \* glob_setting[0 .. glob_setting_count - 1]
    file,           \* the file: its lines, and whether a fragment of one that is
                    \* too short to be a setting follows
    saving,         \* save_settings has opened the file and not closed it
    last,           \* ghost: the value each key was last set to
    interrupted,    \* ghost: a save has ended before everything was written
    refused,        \* ghost: a save could not open the file
    trouble

settings == <<table, file, saving, last, interrupted, refused, trouble>>

Table == UNION {[K -> Values \cup {Cut}] : K \in SUBSET Keys}
Nothing == [k \in {} |-> Cut]
Erased == [lines |-> Nothing, damaged |-> FALSE]

SettingsInit ==
    /\ table = Nothing /\ file = Erased /\ saving = FALSE
    /\ last = [k \in Keys |-> Unset]
    /\ interrupted = FALSE /\ refused = FALSE /\ trouble = 0

\* load_settings: verify_settings deletes a file with a line that is none.
Loaded == IF file.damaged THEN Nothing ELSE file.lines
\* Mutant: nothing is loaded before the table is used.
NotLoaded == table
\* The table after load_settings, which is called when it is empty.
Current == IF table = Nothing THEN Loaded ELSE table

\* gp_setting_get
Value(k) == IF k \in DOMAIN Current THEN Current[k] ELSE Unset

\* gp_setting_set: load_settings if the table is empty, the table, then
\* save_settings as far as fopen (.., "w+").  Nobody learns that it failed.
Set(k, v) ==
    /\ ~saving
    /\ table' = [x \in DOMAIN Current \cup {k} |-> IF x = k THEN v ELSE Current[x]]
    /\ last' = [last EXCEPT ![k] = v]
    /\ UNCHANGED interrupted
    /\ \/ file' = Erased /\ saving' = TRUE /\ UNCHANGED <<refused, trouble>>
       \/ /\ trouble < MaxTrouble /\ trouble' = trouble + 1
          /\ file' = IF table = Nothing /\ file.damaged THEN Erased ELSE file
          /\ refused' = TRUE /\ UNCHANGED saving

\* What can be in the file when writing it stops: some settings, the one that was
\* being written cut in its key, or in its value, or not at all.
Written(K, d) == [lines |-> [k \in K |-> table[k]], damaged |-> d]
Torn(K, c) ==
    [lines |-> [k \in K \cup {c} |-> IF k = c THEN Cut ELSE table[k]], damaged |-> FALSE]
Fragments ==
    {Written(K, d) : K \in SUBSET DOMAIN table, d \in BOOLEAN}
    \cup {Torn(K, c) : K \in SUBSET DOMAIN table, c \in DOMAIN table}

\* The lines are written and the file is closed.
Save ==
    /\ saving /\ saving' = FALSE
    /\ file' = [lines |-> table, damaged |-> FALSE]
    /\ UNCHANGED <<table, last, interrupted, refused, trouble>>

\* The disk is full: the results of fwrite and fclose are ignored.
SaveFails ==
    /\ saving /\ saving' = FALSE
    /\ trouble < MaxTrouble /\ trouble' = trouble + 1
    /\ file' \in Fragments /\ interrupted' = TRUE
    /\ UNCHANGED <<table, last, refused>>

\* The process ends and starts again.
Restart ==
    /\ trouble < MaxTrouble /\ trouble' = trouble + 1
    /\ table' = Nothing /\ saving' = FALSE
    /\ IF saving THEN file' \in Fragments /\ interrupted' = TRUE
                 ELSE UNCHANGED <<file, interrupted>>
    /\ UNCHANGED <<last, refused>>

SettingsTypeOK ==
    /\ table \in Table
    /\ file \in [lines : Table, damaged : BOOLEAN]
    /\ last \in [Keys -> Values \cup {Unset}]
    /\ saving \in BOOLEAN /\ interrupted \in BOOLEAN /\ refused \in BOOLEAN
    /\ trouble \in 0 .. MaxTrouble

\* A setting reads as it was last set, however often the process ended in between,
\* if every save could open the file.  A save that was cut short by the end of the
\* process or a full disk can lose any setting, also those it was not about, or cut
\* a value; but it never brings an older value back (gp_setting_get,
\* gp_setting_set, load_settings, save_settings).
SettingsTrue ==
    ~refused =>
        \A k \in Keys :
            \/ Value(k) = last[k]
            \/ interrupted /\ Value(k) \in {Unset, Cut}
====
