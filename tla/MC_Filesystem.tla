--------------------------- MODULE MC_Filesystem ---------------------------
(* Instances of Filesystem for TLC: a root with one storage folder and one *)
(* folder of images in it.                                                 *)
EXTENDS Filesystem, TLC

CONSTANTS store, dcim, img1, img2

Tree == (store :> Root) @@ (dcim :> store)
ThreeFiles == {<<store, img1>>, <<store, img2>>, <<dcim, img1>>}
TwoFiles == {<<dcim, img1>>, <<dcim, img2>>}
NoFunctions == {}
Listing == {"file_list"}
AllButFolderList ==
  {"file_list", "get_info", "set_info", "delete_file", "delete_all", "make_dir",
   "remove_dir", "put_file"}
\* Functions that may do their work and fail all the same.
MayHaveWorked == {"set_info", "delete_all", "put_file"}
=============================================================================
