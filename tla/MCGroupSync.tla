---------------------------- MODULE MCGroupSync ----------------------------
(* Model-checking instance of GroupSync.                                   *)
EXTENDS GroupSync, TLC
=============================================================================
