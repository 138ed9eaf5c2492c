---------------------------- MODULE MCPhotoIntake ----------------------------
(***************************************************************************)
(* A small instance of PhotoIntake for TLC: a family of two with a look,   *)
(* and two uploads of the same file.                                       *)
(***************************************************************************)
EXTENDS PhotoIntake

MCLookOf == [l \in Look |-> "ann"]
MCAims == [p \in Photo |-> IF p = "u1" THEN {New, "coat"} ELSE {New}]
MCSourceOf == [p \in Photo |-> "file"]
=============================================================================
