------------------------------ MODULE MCFiles ------------------------------
(* One or two files, one name of each kind that commands make up. *)
EXTENDS Files, TLC

MCNew   == <<"NEWFOLD1">>
MCRen   == <<"R01">>
MCDup   == <<"D01">>
AnyText == Permutations(Texts) \cup Permutations(Windows)
=============================================================================
