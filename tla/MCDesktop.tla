----------------------------- MODULE MCDesktop ------------------------------
(* A few slots for windows, and short animations. *)
EXTENDS Desktop
=============================================================================
