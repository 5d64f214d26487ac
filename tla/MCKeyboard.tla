----------------------------- MODULE MCKeyboard -----------------------------
(* A keyboard with a few keys, and rings of a few bytes. *)
EXTENDS Keyboard

Key(c, e) == [code |-> c, ext |-> e]
MCKeys    == {Key("lshift", FALSE), Key("rshift", FALSE), Key("ctrl", FALSE), Key("ctrl", TRUE),
              Key("letter", FALSE), Key("pad", TRUE)}
=============================================================================
