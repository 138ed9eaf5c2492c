----------------------------- MODULE MCProduction -----------------------------
(***************************************************************************)
(* Small instances of PrintProduction for TLC.                             *)
(***************************************************************************)
EXTENDS PrintProduction, TLC

MCModes == <<"cmyk", "rgb">>
MCPlain == <<"rgb">>
\* at most one of the settings changes
OneSettingChanges == watermark + profile <= 2
Symmetry == Permutations(Kind) \cup Permutations(Clerk)
=============================================================================
