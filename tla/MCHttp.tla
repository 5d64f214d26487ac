------------------------------- MODULE MCHttp -------------------------------
(* Two servers' pages: one whose body has empty lines of both kinds, and   *)
(* a short one.                                                            *)
EXTENDS Http, TLC

AnyPort  == Permutations(Ports)
ThePages == {<<"h", "rn", "a", "n", "rn">>, <<"g", "rn", "b">>}
=============================================================================
