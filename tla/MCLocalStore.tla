----------------------------- MODULE MCLocalStore -----------------------------
(***************************************************************************)
(* The files of a run for TLC: the manifest and the dumps of one engine.   *)
(***************************************************************************)
EXTENDS LocalStore

TwoFiles == {"manifest.json", "postgresql"}
===============================================================================
