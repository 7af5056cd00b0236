--------------------------- MODULE MCUpdateManager ---------------------------
(***************************************************************************)
(* Instances of UpdateManager for TLC.                                     *)
(***************************************************************************)
EXTENDS UpdateManager
=============================================================================
