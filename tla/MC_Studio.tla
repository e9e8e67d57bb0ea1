------------------------------ MODULE MC_Studio ------------------------------
(***************************************************************************)
(* Instance of Studio for TLC.  Bounds: MaxRuns commands in a directory,   *)
(* two sets of data, one split plan.                                       *)
(***************************************************************************)
EXTENDS Studio
=============================================================================
