--------------------------- MODULE MCProjectExport ---------------------------
(***************************************************************************)
(* A small instance of ProjectExport for TLC.                              *)
(***************************************************************************)
EXTENDS ProjectExport, TLC

Makes(c, s, p) == [content |-> c, scope |-> s, protocol |-> p]
MCUploads == {"u1", "u2"}
\* the exported project shares one media with bob, who may be deleted as well
MCUploadOf == [u \in Upload |->
  CASE u = "u1" -> Makes("c1", "ann", "put")
    [] u = "u2" -> Makes("c1", "bob", "put")]
\* one fault or one restart, not both
OneInterruption == faults + restarts <= 1
Symmetry == Permutations(Executor)
=============================================================================
