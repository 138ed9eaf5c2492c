----------------------------- MODULE MCDeletion -----------------------------
(***************************************************************************)
(* Small instances of Deletion for TLC.                                    *)
(***************************************************************************)
EXTENDS Deletion

Makes(c, s, p) == [content |-> c, scope |-> s, protocol |-> p]
MCUploads == {"u1", "u2", "u3"}
\* the same bytes for two owners, and different ones for the first
MCUploadOf == [u \in Upload |->
  CASE u = "u1" -> Makes("c1", "ann", "prepared")
    [] u = "u2" -> Makes("c1", "bob", "checked")
    [] u = "u3" -> Makes("c2", "ann", "put")]

=============================================================================
