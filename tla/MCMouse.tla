------------------------------ MODULE MCMouse -------------------------------
(* A small screen, a handful of reports and a ring of a few bytes. *)
EXTENDS Mouse

Report(b, x, y, o) == [buttons |-> b, dx |-> x, dy |-> y, over |-> o]

Bytes256  == 0 .. 255
MCReports == {Report(1, 5, -16, TRUE),      \* the left button, and too far for the mouse to tell
              Report(0, 5, -16, FALSE),     \* a movement whose data look like data
              Report(2, 12, -2, FALSE),     \* a movement whose data look like headers
              Report(0, 209, 0, FALSE)}     \* one too fast for a signed byte
=============================================================================
