------------------------------ MODULE MCCreative ------------------------------
(***************************************************************************)
(* Small instances of CreativeRun for TLC.                                 *)
(***************************************************************************)
EXTENDS CreativeRun
=============================================================================
