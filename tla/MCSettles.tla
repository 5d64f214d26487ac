----------------------------- MODULE MCSettles ------------------------------
(***************************************************************************)
(* What must happen in the end: the mouse's bytes are used up, and a page  *)
(* arrives.  A behaviour is of one of the two; the other stays as it is.   *)
(***************************************************************************)
EXTENDS Integers, Sequences

CONSTANTS Byte, Size, Width, Height, Reports, KeyCodes, MaxReports, MaxStrokes
CONSTANTS MaxCalls, Ports, NoPort, Pages, CRLF2, LF2, Mod, ServerISS, AsmMax, Margin, OutCap

VARIABLES ring, head, tail, stage, byte, arrived, missed, mousePc, status, pointer, packet, full, aux, latch,
          config, reply, outgoing, made, course, strokes, early, sent, mark
VARIABLES pc, call, port, tcp_state, tcp_rcv_nxt, tcp_asm, result, up, srv
VARIABLE which

Mouse_ == INSTANCE Mouse WITH pc <- mousePc
Http_  == INSTANCE Http

mouseVars == <<ring, head, tail, stage, byte, arrived, missed, mousePc, status, pointer, packet, full, aux, latch,
               config, reply, outgoing, made, course, strokes, early, sent, mark>>
httpVars  == <<pc, call, port, tcp_state, tcp_rcv_nxt, tcp_asm, result, up, srv>>
vars      == <<mouseVars, httpVars, which>>

Bytes256  == 0 .. 255
Report(b, x, y, o) == [buttons |-> b, dx |-> x, dy |-> y, over |-> o]
MCReports == {Report(1, 5, -16, TRUE), Report(0, 5, -16, FALSE), Report(2, 12, -2, FALSE), Report(0, 209, 0, FALSE)}
ThePages  == {<<"h", "rn", "a", "n", "rn">>, <<"g", "rn", "b">>}

OfMouse == which = "mouse" /\ UNCHANGED <<httpVars, which>>
OfHttp  == which = "http" /\ UNCHANGED <<mouseVars, which>>

Init == Mouse_!Init /\ Http_!Init /\ which \in {"mouse", "http"}
Next == (OfMouse /\ Mouse_!Next) \/ (OfHttp /\ Http_!Next) \/ (OfHttp /\ \E u \in up : Http_!Lose(u))

(* The fairness of Mouse's Spec and of Http's FairSpec. *)
Fairness ==
  /\ WF_vars(OfMouse /\ Mouse_!Send) /\ WF_vars(OfMouse /\ Mouse_!Answer)
  /\ WF_vars(OfMouse /\ Mouse_!IrqMouse) /\ WF_vars(OfMouse /\ Mouse_!IrqKeyboard) /\ WF_vars(OfMouse /\ Mouse_!Main)
  /\ WF_vars(OfHttp /\ Http_!Stop) /\ SF_vars(OfHttp /\ Http_!Retransmitted) /\ SF_vars(OfHttp /\ Http_!Acked)
Spec == Init /\ [][Next]_vars /\ Fairness

(* Mouse's PointerSettles: no byte waits for ever.  IrqMouse, IrqKeyboard, mouse_process_bytes. *)
PointerSettles == Mouse_!PointerSettles
(* Http's PageArrives: the page is stored whatever is lost on the way.  net_http_get. *)
PageArrives == Http_!PageArrives
=============================================================================
