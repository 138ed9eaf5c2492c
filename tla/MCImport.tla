------------------------------ MODULE MCImport ------------------------------
(***************************************************************************)
(* Small instances of Import for TLC.                                      *)
(***************************************************************************)
EXTENDS Import

Makes(c, s, p) == [content |-> c, scope |-> s, protocol |-> p]
MCItem == {"i1", "i2"}
MCUpload == MCItem \cup {"u1", "u2", "u3"}
\* an archive of two media; ann's project, the target, may use the first one and
\* one that is not in the archive, which bob may store before, meanwhile or again
MCUploadOf == [u \in Upload |->
  CASE u = "i1" -> Makes("c1", "new", "checked")
    [] u = "i2" -> Makes("c2", "new", "checked")
    [] u = "u1" -> Makes("c1", "ann", "checked")
    [] u = "u2" -> Makes("c3", "bob", "prepared")
    [] u = "u3" -> Makes("c3", "ann", "prepared")]
=============================================================================
