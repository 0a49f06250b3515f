---- MODULE MC_PtpObjects ----
(* A folder DCIM (2) with a file, and a file in the root; handles for objects to
   come: another file of that name in the folder, once the first one is gone, and
   one of the same name in the root, before the folder in the array. *)
EXTENDS PtpObjects

MCHandles == 1 .. 5
MCFolders == {2}
MCParent == <<0, 0, 2, 2, 0>>
MCName == <<"a", "DCIM", "a", "a", "d">>
MCInitial == {2, 3, 5}

\* The hypothesis of the theorems about complete listings and removals.
ASSUME MCNamesApart == NamesApart
====
