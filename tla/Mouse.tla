------------------------------- MODULE Mouse --------------------------------
(***************************************************************************)
(* The mouse driver of kernel/mouse.c: mouse_init, which runs with         *)
(* interrupts on, the handler of IRQ 12, which fills mouse_buf, and        *)
(* mouse_process_bytes, which the main loop calls in every frame.          *)
(*                                                                         *)
(* The 8042 controller has one output buffer for both devices.  Bytes are  *)
(* numbers here, since the driver tells a header from data by a bit that   *)
(* data may have too.  Drawing the cursor changes nothing but the screen.  *)
(***************************************************************************)
EXTENDS InputRing

CONSTANTS
  Width, Height,   \* VGA13_WIDTH, VGA13_HEIGHT
  Reports,         \* what the user may do between two reports of the mouse
  KeyCodes,        \* scancodes the keyboard may send meanwhile
  MaxReports, MaxStrokes    \* bounds on both

Movement == -256 .. 255

ASSUME MouseAssumption ==
  /\ Byte = 0 .. 255 /\ KeyCodes \subseteq Byte
  /\ Width \in Nat \ {0} /\ Height \in Nat \ {0} /\ MaxReports \in Nat /\ MaxStrokes \in Nat
  /\ Reports \subseteq [buttons : 0 .. 7, dx : Movement, dy : Movement, over : BOOLEAN]

VARIABLES
  pc, status,            \* mouse_init: where it is, and its local variable
  pointer,               \* mouse_x, mouse_y, mouse_buttons
  packet,                \* the first mouse_idx bytes of mouse_packet
  full, aux, latch,      \* the output buffer, and whose byte it holds or held last
  config,                \* the controller's configuration byte
  reply,                 \* the answer that is due: "none", "config" or "ack"
  outgoing,              \* bytes the mouse has still to send
  made,                  \* the reports the mouse made
  strokes, early,        \* key strokes, and whether one came before the configuration was read
  course,                \* ghost: the pointers the user brought about, the first one included
  sent, mark             \* ghosts: report bytes sent, and how many of them at the last mishap (-1: none)

setup    == <<pc, status, config, reply>>
decoder  == <<pointer, packet>>
buffer   == <<full, aux, latch>>
user     == <<made, course, strokes, early>>
mouse    == <<outgoing, sent, mark>>
vars     == <<rvars, setup, decoder, buffer, user, mouse>>

(* The bits of a byte, by their masks. *)
Bit(b, m)        == (b \div m) % 2 = 1
Set(b, m)        == IF Bit(b, m) THEN b ELSE b + m
Unset(b, m)      == IF Bit(b, m) THEN b - m ELSE b
Signed(b)        == IF b < 128 THEN b ELSE b - 256
Clamp(v, limit)  == IF v < 0 THEN 0 ELSE IF v >= limit THEN limit - 1 ELSE v
KbdIrq == 1
AuxIrq == 2
KbdOff == 16
AuxOff == 32
ACK    == 250

----------------------------------------------------------------------------
(* The devices.  Each puts a byte into the output buffer when it is empty. *)

Filled(b, a) == ~full /\ full' = TRUE /\ aux' = a /\ latch' = b
Emptied      == full' = FALSE /\ UNCHANGED <<aux, latch>>

(* A report goes out when the one before has, while streaming is enabled. *)
Bytes(r) == <<8 + r.buttons + (IF r.dx < 0 THEN 16 ELSE 0) + (IF r.dy < 0 THEN 32 ELSE 0)
                + (IF r.over THEN 64 ELSE 0), r.dx % 256, r.dy % 256>>

(* What the user means by a report, with the pointer at p. *)
Meant(p, r) ==
  IF r.over THEN [p EXCEPT !.buttons = r.buttons]
  ELSE [x |-> Clamp(p.x + r.dx, Width), y |-> Clamp(p.y - r.dy, Height), buttons |-> r.buttons]

Streaming == pc \in {"ack", "loop"} /\ ~Bit(config, AuxOff)

Move(r) ==
  /\ Streaming /\ outgoing = <<>> /\ Len(made) < MaxReports
  /\ made' = Append(made, r) /\ outgoing' = Bytes(r)
  /\ course' = Append(course, Meant(course[Len(course)], r))
  /\ UNCHANGED <<rvars, setup, decoder, buffer, strokes, early, sent, mark>>

Send ==
  /\ outgoing # <<>> /\ reply # "ack" /\ Filled(Head(outgoing), TRUE)
  /\ outgoing' = Tail(outgoing) /\ sent' = sent + 1
  /\ UNCHANGED <<rvars, setup, decoder, user, mark>>

Answer ==
  /\ reply # "none" /\ reply' = "none"
  /\ IF reply = "ack" THEN Filled(ACK, TRUE) ELSE Filled(config, FALSE)
  /\ UNCHANGED <<rvars, pc, status, config, decoder, user, mouse>>

Stroke(b) ==
  /\ ~Bit(config, KbdOff) /\ strokes < MaxStrokes /\ strokes' = strokes + 1 /\ Filled(b, FALSE)
  /\ early' = (early \/ pc \in {"aux", "ask", "status"})
  /\ UNCHANGED <<rvars, setup, decoder, made, course, mouse>>

----------------------------------------------------------------------------
(* The interrupt handlers: irq_handler_mouse, and the keyboard's for its part in emptying *)
(* the buffer.                                                                            *)

(* A byte of a report is lost, or the answer, sent before all reports, ends up among them. *)
Mishap == mark' = sent

IrqMouse ==
  /\ full /\ aux /\ Bit(config, AuxIrq) /\ Put(latch) /\ Emptied
  /\ IF missed' > missed \/ sent = 0 THEN Mishap ELSE UNCHANGED mark
  /\ UNCHANGED <<setup, decoder, user, outgoing, sent>>

IrqKeyboard ==
  /\ full /\ ~aux /\ Bit(config, KbdIrq) /\ Emptied
  /\ UNCHANGED <<rvars, setup, decoder, user, mouse>>

----------------------------------------------------------------------------
(* mouse_init.  ps2_read waits for a byte, whoever sent it, gives up after a while, and   *)
(* reads the buffer in any case; an empty buffer repeats its last byte.  The time-out is  *)
(* long enough for a device to answer.                                                    *)

Ps2Read == (full \/ reply = "none") /\ Emptied

EnableAux ==
  /\ pc = "aux" /\ pc' = "ask"
  /\ config' = Unset(config, AuxOff)
  /\ UNCHANGED <<rvars, status, reply, decoder, buffer, user, mouse>>

AskConfig ==
  /\ pc = "ask" /\ pc' = "status" /\ reply' = "config"
  /\ UNCHANGED <<rvars, status, config, decoder, buffer, user, mouse>>

\* Mutant: the other bits of the configuration are lost.
ReadStatusAfresh ==
  /\ pc = "status" /\ pc' = "write" /\ Ps2Read
  /\ status' = Set(0, AuxIrq)
  /\ UNCHANGED <<rvars, config, reply, decoder, user, mouse>>

ReadStatus ==
  /\ pc = "status" /\ pc' = "write" /\ Ps2Read
  /\ status' = Set(latch, AuxIrq)
  /\ UNCHANGED <<rvars, config, reply, decoder, user, mouse>>

WriteConfig ==
  /\ pc = "write" /\ pc' = "stream"
  /\ config' = status
  /\ UNCHANGED <<rvars, status, reply, decoder, buffer, user, mouse>>

StartStream ==
  /\ pc = "stream" /\ pc' = "ack"
  /\ reply' = IF Bit(config, AuxOff) THEN "none" ELSE "ack"
  /\ UNCHANGED <<rvars, status, config, decoder, buffer, user, mouse>>

ReadAck ==
  /\ pc = "ack" /\ pc' = "loop" /\ Ps2Read
  /\ IF full /\ aux /\ sent > 0 THEN Mishap ELSE UNCHANGED mark
  /\ UNCHANGED <<rvars, status, config, reply, decoder, user, outgoing, sent>>

----------------------------------------------------------------------------
(* mouse_process_bytes. *)

\* Mutant: the two bounds are swapped.
ReportedSwapped(p, st, dx, dy) ==
  IF Bit(st, 64) \/ Bit(st, 128) THEN [p EXCEPT !.buttons = st % 8]
  ELSE [x |-> Clamp(p.x + Signed(dx), Height), y |-> Clamp(p.y - Signed(dy), Width), buttons |-> st % 8]

Reported(p, st, dx, dy) ==
  IF Bit(st, 64) \/ Bit(st, 128) THEN [p EXCEPT !.buttons = st % 8]
  ELSE [x |-> Clamp(p.x + Signed(dx), Width), y |-> Clamp(p.y - Signed(dy), Height), buttons |-> st % 8]

\* Mutant: any byte begins a packet.
DecodeUnsynced(b) ==
  IF Len(packet) < 2 THEN packet' = Append(packet, b) /\ UNCHANGED pointer
  ELSE packet' = <<>> /\ pointer' = Reported(pointer, packet[1], packet[2], b)

\* Mutant: a packet is forgotten between two calls.
DecodeForgets(b) ==
  CASE packet = <<>>   -> packet' = (IF Bit(b, 8) THEN <<b>> ELSE <<>>) /\ UNCHANGED pointer
    [] Len(packet) = 1 -> packet' = (IF tail = head THEN <<>> ELSE Append(packet, b)) /\ UNCHANGED pointer
    [] Len(packet) = 2 -> packet' = <<>> /\ pointer' = Reported(pointer, packet[1], packet[2], b)

Decode(b) ==
  CASE packet = <<>>   -> packet' = (IF Bit(b, 8) THEN <<b>> ELSE <<>>) /\ UNCHANGED pointer
    [] Len(packet) = 1 -> packet' = Append(packet, b) /\ UNCHANGED pointer
    [] Len(packet) = 2 -> packet' = <<>> /\ pointer' = Reported(pointer, packet[1], packet[2], b)

Process ==
  /\ pc = "loop"
  /\ \/ (See \/ Read \/ Advance) /\ UNCHANGED decoder
     \/ Handled /\ Decode(byte)
  /\ UNCHANGED <<setup, buffer, user, mouse>>

----------------------------------------------------------------------------
(* The firmware leaves the keyboard enabled with its interrupt, and the mouse disabled. *)
Init ==
  /\ RingInit /\ pc = "aux" /\ status = 0 /\ config = KbdIrq + AuxOff + 64
  /\ pointer = [x |-> Width \div 2, y |-> Height \div 2, buttons |-> 0] /\ packet = <<>>
  /\ course = <<pointer>>
  /\ full = FALSE /\ aux = FALSE /\ latch = 0 /\ reply = "none" /\ outgoing = <<>>
  /\ made = <<>> /\ strokes = 0 /\ early = FALSE /\ sent = 0 /\ mark = -1

Main == EnableAux \/ AskConfig \/ ReadStatus \/ WriteConfig \/ StartStream \/ ReadAck \/ Process

Next ==
  \/ \E r \in Reports : Move(r)
  \/ \E b \in KeyCodes : Stroke(b)
  \/ Send \/ Answer \/ IrqMouse \/ IrqKeyboard \/ Main

(* Interrupts are on, the devices send what they have, and the main loop never stops. *)
Fairness == WF_vars(Send) /\ WF_vars(Answer) /\ WF_vars(IrqMouse) /\ WF_vars(IrqKeyboard) /\ WF_vars(Main)

Spec == Init /\ [][Next]_vars /\ Fairness

----------------------------------------------------------------------------
(* Properties. *)

\* The types of the driver's state; the pointer is always on the screen.
TypeOK ==
  /\ RingOK /\ status \in Byte /\ config \in Byte /\ latch \in Byte /\ full \in BOOLEAN /\ aux \in BOOLEAN
  /\ pc \in {"aux", "ask", "status", "write", "stream", "ack", "loop"}
  /\ reply \in {"none", "config", "ack"} /\ outgoing \in Seq(Byte)
  /\ pointer \in [x : 0 .. Width - 1, y : 0 .. Height - 1, buttons : 0 .. 7]
  /\ packet \in Seq(Byte) /\ Len(packet) <= 2

Quiet    == pc = "loop" /\ ~full /\ reply = "none" /\ outgoing = <<>> /\ stage = "idle" /\ tail = head
Slow     == \A i \in DOMAIN made : made[i].dx \in -128 .. 127 /\ made[i].dy \in -128 .. 127
Plain    == \A i \in DOMAIN made : ~Bit(made[i].dx % 256, 8) /\ ~Bit(made[i].dy % 256, 8)

\* While no byte is lost and no answer strays among them, the pointer only shows states the
\* user brought about, in their order, and shows the last one when the bytes are used up.
\* A movement of more than a signed byte is beyond what the driver can tell.
PointerFaithful ==
  Slow /\ mark = -1 =>
    /\ \E n \in DOMAIN course : pointer = course[n]
    /\ Quiet => pointer = course[Len(course)]

(* Reports of which no byte was sent before the last mishap. *)
Whole == Len(made) - (mark + 2) \div 3

\* A lost or stray byte does no lasting harm as long as data look like data: two reports
\* later the packets are in step again and the buttons are the user's.
ResyncsAfterLoss ==
  Quiet /\ Plain /\ Whole >= 2 =>
    packet = <<>> /\ pointer.buttons = made[Len(made)].buttons

\* mouse_init turns on the mouse's interrupt and changes nothing else, unless a key is struck
\* before it has read the configuration; whoever reads the answer first.
DevicesStayOn ==
  pc \in {"stream", "ack", "loop"} /\ ~early => config = KbdIrq + AuxIrq + 64

\* No byte waits for ever in the buffer that the two devices share, nor in the ring.
PointerSettles == (Len(made) = MaxReports /\ ~early) ~> Quiet
=============================================================================
