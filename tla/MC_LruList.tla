----------------------------- MODULE MC_LruList -----------------------------
(* Instances of LruList for TLC: the constants are given in the .cfg.      *)
EXTENDS LruList
=============================================================================
