---------------------------- MODULE MouseProofs -----------------------------
(* The mouse driver, for every screen, size of the ring and set of reports. *)
EXTENDS Mouse, InputProofs

(* The set-up: until the configuration is read, the answer to mouse_init's question is the *)
(* only byte that can come, and reading it twice is as good as reading it once.            *)

SetupInv ==
  /\ pc \in {"aux", "ask", "status", "write", "stream"} => outgoing = <<>>
  /\ pc \in {"aux", "ask"} => reply = "none"
  /\ pc = "status" => reply \in {"none", "config"}
  /\ ~early =>
       /\ pc \in {"aux", "ask"} => ~full
       /\ pc = "aux" => config = KbdIrq + AuxOff + 64
       /\ pc \in {"ask", "status"} => config = KbdIrq + 64
       /\ pc = "status" => IF reply = "config" THEN ~full ELSE latch = KbdIrq + 64
       /\ pc = "write" => status = KbdIrq + AuxIrq + 64
       /\ pc \in {"stream", "ack", "loop"} => config = KbdIrq + AuxIrq + 64

LEMMA SetupBits ==
  /\ Unset(KbdIrq + AuxOff + 64, AuxOff) = KbdIrq + 64
  /\ Set(KbdIrq + 64, AuxIrq) = KbdIrq + AuxIrq + 64
  BY SMT DEF Unset, Set, Bit, KbdIrq, AuxIrq, AuxOff

LEMMA SetupNext == SetupInv /\ [Next]_vars => SetupInv'
<1> SUFFICES ASSUME SetupInv, [Next]_vars PROVE SetupInv'
  OBVIOUS
<1> USE DEF SetupInv
<1>1. ASSUME NEW r \in Reports, Move(r) PROVE SetupInv'
  BY <1>1 DEF Move, Streaming, setup, buffer
<1>2. ASSUME NEW b \in KeyCodes, Stroke(b) PROVE SetupInv'
  BY <1>2 DEF Stroke, Filled, setup, mouse
<1>3. CASE Send
  BY <1>3 DEF Send, Filled, setup, user
<1>4. CASE Answer
  BY <1>4 DEF Answer, Filled, user, mouse
<1>5. CASE IrqMouse
  BY <1>5 DEF IrqMouse, Emptied, setup, user
<1>6. CASE IrqKeyboard
  BY <1>6 DEF IrqKeyboard, Emptied, setup, user, mouse
<1>7. CASE EnableAux
  BY <1>7, SetupBits DEF EnableAux, buffer, user, mouse
<1>8. CASE AskConfig
  BY <1>8 DEF AskConfig, buffer, user, mouse
<1>9. CASE ReadStatus
  BY <1>9, SetupBits DEF ReadStatus, Ps2Read, Emptied, user, mouse
<1>10. CASE WriteConfig
  BY <1>10 DEF WriteConfig, buffer, user, mouse
<1>11. CASE StartStream
  BY <1>11 DEF StartStream, buffer, user, mouse
<1>12. CASE ReadAck
  BY <1>12 DEF ReadAck, Ps2Read, Emptied, user
<1>13. CASE Process
  BY <1>13 DEF Process, setup, buffer, user, mouse
<1>14. CASE UNCHANGED vars
  BY <1>14 DEF vars, setup, buffer, user, mouse
<1> QED
  BY <1>1, <1>2, <1>3, <1>4, <1>5, <1>6, <1>7, <1>8, <1>9, <1>10, <1>11, <1>12, <1>13, <1>14
  DEF Next, Main

\* Although mouse_init polls for answers that the interrupt handlers may take from it, the
\* controller ends up with both devices and both interrupts on, if no key is struck too early.
THEOREM SetupSafe == Spec => []DevicesStayOn
<1>1. Init => SetupInv
  BY DEF Init, SetupInv
<1>2. SetupInv /\ [Next]_vars => SetupInv'
  BY SetupNext
<1>3. SetupInv => DevicesStayOn
  BY DEF SetupInv, DevicesStayOn
<1> QED BY <1>1, <1>2, <1>3, PTL DEF Spec

----------------------------------------------------------------------------
(* The types. *)

Pointers == [x : 0 .. Width - 1, y : 0 .. Height - 1, buttons : 0 .. 7]
MouseInv == TypeOK /\ RingInv

LEMMA BitsType ==
  ASSUME NEW b \in 0 .. 255
  PROVE  /\ Set(b, AuxIrq) \in 0 .. 255 /\ Unset(b, AuxOff) \in 0 .. 255
         /\ Signed(b) \in Int /\ b % 8 \in 0 .. 7
<1>1. Set(b, AuxIrq) \in 0 .. 255
  BY SMT DEF Set, Bit, AuxIrq
<1>2. Unset(b, AuxOff) \in 0 .. 255
  BY SMT DEF Unset, Bit, AuxOff
<1>3. Signed(b) \in Int /\ b % 8 \in 0 .. 7
  BY SMT DEF Signed
<1> QED BY <1>1, <1>2, <1>3

\* A report takes three bytes, whatever the movement: the sign and the rest are cut off.
LEMMA BytesType ==
  ASSUME NEW r \in Reports
  PROVE  Bytes(r) \in Seq(Byte)
<1>1. /\ r.buttons \in 0 .. 7 /\ r.dx \in -256 .. 255 /\ r.dy \in -256 .. 255
      /\ Byte = 0 .. 255
  BY MouseAssumption DEF Movement
<1>2. /\ 8 + r.buttons + (IF r.dx < 0 THEN 16 ELSE 0) + (IF r.dy < 0 THEN 32 ELSE 0)
           + (IF r.over THEN 64 ELSE 0) \in Byte
      /\ r.dx % 256 \in Byte /\ r.dy % 256 \in Byte
  BY SMTT(20), <1>1
<1> QED BY <1>2 DEF Bytes

LEMMA ClampType ==
  ASSUME NEW v \in Int, NEW limit \in Nat \ {0}
  PROVE  Clamp(v, limit) \in 0 .. limit - 1
  BY DEF Clamp

\* Whatever three bytes a packet is made of, the pointer stays on the screen.
LEMMA ReportedType ==
  ASSUME NEW p \in Pointers, NEW st \in 0 .. 255, NEW dx \in 0 .. 255, NEW dy \in 0 .. 255
  PROVE  Reported(p, st, dx, dy) \in Pointers
<1>0. p.x \in Int /\ p.y \in Int
  BY MouseAssumption DEF Pointers
<1>1. p.x + Signed(dx) \in Int /\ p.y - Signed(dy) \in Int /\ st % 8 \in 0 .. 7
  <2>1. Signed(dx) \in Int /\ Signed(dy) \in Int /\ st % 8 \in 0 .. 7
    BY BitsType
  <2> QED BY <1>0, <2>1
<1>2. /\ Clamp(p.x + Signed(dx), Width) \in 0 .. Width - 1
      /\ Clamp(p.y - Signed(dy), Height) \in 0 .. Height - 1
  BY <1>1, ClampType, MouseAssumption
<1>3. [p EXCEPT !.buttons = st % 8] \in Pointers
  BY <1>1 DEF Pointers
<1>4. [x |-> Clamp(p.x + Signed(dx), Width), y |-> Clamp(p.y - Signed(dy), Height),
       buttons |-> st % 8] \in Pointers
  BY <1>1, <1>2 DEF Pointers
<1> QED BY <1>3, <1>4 DEF Reported

LEMMA DecodedInto ==
  ASSUME TypeOK, NEW b \in Byte, Decode(b)
  PROVE  /\ packet \in Seq(Byte) /\ Len(packet) \in 0 .. 2
         /\ Len(packet) = 0 => pointer' = pointer /\ packet' = IF Bit(b, 8) THEN <<b>> ELSE <<>>
         /\ Len(packet) = 1 => pointer' = pointer /\ packet' = Append(packet, b)
         /\ Len(packet) = 2 => pointer' = Reported(pointer, packet[1], packet[2], b) /\ packet' = <<>>
<1>1. packet \in Seq(Byte) /\ Len(packet) <= 2
  BY DEF TypeOK
<1>2. Len(packet) \in Nat /\ (Len(packet) = 0 <=> packet = <<>>)
  BY <1>1, EmptySeq
<1>3. Len(packet) \in 0 .. 2
  <2>1. \A n \in Nat : n <= 2 => n \in 0 .. 2
    OBVIOUS
  <2> QED BY <1>1, <1>2, <2>1, Zenon
<1>4. CASE packet = <<>>
  <2>1. Len(packet) # 1 /\ Len(packet) # 2
    BY <1>4
  <2> QED BY <1>1, <1>2, <1>3, <1>4, <2>1, Zenon DEF Decode
<1>5. CASE Len(packet) = 1
  <2>1. packet # <<>> /\ Len(packet) # 2 /\ Len(packet) # 0
    BY <1>5, <1>2
  <2> QED BY <1>1, <1>2, <1>3, <1>5, <2>1, Zenon DEF Decode
<1>6. CASE Len(packet) = 2
  <2>1. packet # <<>> /\ Len(packet) # 1 /\ Len(packet) # 0
    BY <1>6, <1>2
  <2> QED BY <1>1, <1>2, <1>3, <1>6, <2>1, Zenon DEF Decode
<1>7. packet = <<>> \/ Len(packet) = 1 \/ Len(packet) = 2
  BY <1>2, <1>3
<1> QED BY <1>4, <1>5, <1>6, <1>7, Zenon

LEMMA DecodePacket ==
  ASSUME TypeOK, NEW b \in Byte, Decode(b)
  PROVE  packet' \in Seq(Byte) /\ Len(packet') <= 2 /\ pointer' \in Pointers
<1>1. /\ packet \in Seq(Byte) /\ Len(packet) \in 0 .. 2 /\ pointer \in Pointers
      /\ Len(packet) = 0 => pointer' = pointer /\ packet' = IF Bit(b, 8) THEN <<b>> ELSE <<>>
      /\ Len(packet) = 1 => pointer' = pointer /\ packet' = Append(packet, b)
      /\ Len(packet) = 2 => pointer' = Reported(pointer, packet[1], packet[2], b) /\ packet' = <<>>
  BY DecodedInto DEF TypeOK, Pointers
<1>2. /\ <<b>> \in Seq(Byte) /\ <<>> \in Seq(Byte) /\ Len(<<b>>) = 1 /\ Len(<<>>) = 0
      /\ Append(packet, b) \in Seq(Byte) /\ Len(Append(packet, b)) = Len(packet) + 1
  BY <1>1, AppendProperties
<1>3. CASE Len(packet) = 0
  <2>1. (packet' = <<b>> \/ packet' = <<>>) /\ pointer' \in Pointers
    BY <1>1, <1>3, Zenon
  <2>2. 0 <= 2 /\ 1 <= 2
    OBVIOUS
  <2> QED BY <1>2, <2>1, <2>2, Zenon
<1>4. CASE Len(packet) = 1
  BY <1>1, <1>2, <1>4
<1>5. CASE Len(packet) = 2
  <2>1. packet[1] \in Byte /\ packet[2] \in Byte
    BY <1>1, <1>5
  <2>2. Reported(pointer, packet[1], packet[2], b) \in Pointers
    BY <1>1, <2>1, ReportedType, MouseAssumption
  <2> QED BY <1>1, <1>2, <1>5, <2>2
<1> QED BY <1>1, <1>3, <1>4, <1>5

LEMMA MouseInitInv == Init => MouseInv
<1> SUFFICES ASSUME Init PROVE MouseInv
  OBVIOUS
<1>1. RingInv /\ RingOK
  BY RingInitInv DEF Init, RingInv
<1>2. <<>> \in Seq(Byte) /\ Len(<<>>) <= 2
  OBVIOUS
<1>3. pointer \in Pointers
  BY MouseAssumption DEF Init, Pointers
<1>4. config \in 0 .. 255 /\ latch \in 0 .. 255 /\ status \in 0 .. 255
  BY DEF Init, KbdIrq, AuxOff
<1> QED BY <1>1, <1>2, <1>3, <1>4, MouseAssumption DEF Init, MouseInv, TypeOK, Pointers

LEMMA MouseOnRing == TypeOK /\ [Next]_vars => [RingNext]_rvars
<1> SUFFICES ASSUME TypeOK, [Next]_vars PROVE [RingNext]_rvars
  OBVIOUS
<1>1. CASE IrqMouse
  <2>1. Put(latch) /\ latch \in Byte
    BY <1>1 DEF IrqMouse, TypeOK
  <2> QED BY <2>1 DEF RingNext
<1>2. CASE Process
  BY <1>2 DEF Process, RingNext
<1>3. CASE (\E r \in Reports : Move(r)) \/ (\E b \in KeyCodes : Stroke(b)) \/ Send \/ Answer \/ IrqKeyboard
  BY <1>3 DEF Move, Stroke, Send, Answer, IrqKeyboard
<1>4. CASE EnableAux \/ AskConfig \/ ReadStatus \/ WriteConfig \/ StartStream \/ ReadAck
  BY <1>4 DEF EnableAux, AskConfig, ReadStatus, WriteConfig, StartStream, ReadAck
<1>5. CASE UNCHANGED vars
  BY <1>5 DEF vars
<1> QED BY <1>1, <1>2, <1>3, <1>4, <1>5 DEF Next, Main

LEMMA MouseNextInv == MouseInv /\ [Next]_vars => MouseInv'
<1> SUFFICES ASSUME MouseInv, [Next]_vars PROVE MouseInv'
  OBVIOUS
<1>0. RingInv' /\ RingOK'
  BY MouseOnRing, RingNextInv DEF MouseInv, RingInv
<1> USE <1>0 DEF MouseInv, TypeOK
<1>1. ASSUME NEW r \in Reports, Move(r) PROVE MouseInv'
  BY <1>1, BytesType DEF Move, setup, decoder, buffer
<1>2. ASSUME NEW b \in KeyCodes, Stroke(b) PROVE MouseInv'
  BY <1>2, MouseAssumption DEF Stroke, Filled, setup, decoder, mouse
<1>3. CASE Send
  <2>1. Head(outgoing) \in Byte /\ Tail(outgoing) \in Seq(Byte)
    BY <1>3 DEF Send
  <2> QED BY <1>3, <2>1 DEF Send, Filled, setup, decoder, user
<1>4. CASE Answer
  <2>1. latch' \in Byte /\ full' \in BOOLEAN /\ aux' \in BOOLEAN
    <3>1. ACK \in Byte /\ config \in Byte
      BY MouseAssumption DEF ACK
    <3>2. CASE reply = "ack"
      BY <1>4, <3>1, <3>2 DEF Answer, Filled
    <3>3. CASE reply # "ack"
      BY <1>4, <3>1, <3>3 DEF Answer, Filled
    <3> QED BY <3>2, <3>3
  <2> QED BY <1>4, <2>1 DEF Answer, decoder, user, mouse
<1>5. CASE IrqMouse
  BY <1>5 DEF IrqMouse, Emptied, setup, decoder, user
<1>6. CASE IrqKeyboard
  BY <1>6 DEF IrqKeyboard, Emptied, setup, decoder, user, mouse
<1>7. CASE EnableAux
  <2>1. config' \in Byte
    BY <1>7, BitsType, MouseAssumption DEF EnableAux
  <2> QED BY <1>7, <2>1 DEF EnableAux, decoder, buffer, user, mouse
<1>8. CASE AskConfig
  BY <1>8 DEF AskConfig, decoder, buffer, user, mouse
<1>9. CASE ReadStatus
  <2>1. status' \in Byte
    BY <1>9, BitsType, MouseAssumption DEF ReadStatus
  <2> QED BY <1>9, <2>1 DEF ReadStatus, Ps2Read, Emptied, decoder, user, mouse
<1>10. CASE WriteConfig
  BY <1>10 DEF WriteConfig, decoder, buffer, user, mouse
<1>11. CASE StartStream
  BY <1>11 DEF StartStream, decoder, buffer, user, mouse
<1>12. CASE ReadAck
  BY <1>12 DEF ReadAck, Ps2Read, Emptied, decoder, user
<1>13. CASE Process
  <2>1. CASE (See \/ Read \/ Advance) /\ UNCHANGED decoder
    BY <1>13, <2>1 DEF Process, setup, decoder, buffer, user, mouse
  <2>2. CASE Handled /\ Decode(byte)
    <3>1. packet' \in Seq(Byte) /\ Len(packet') <= 2 /\ pointer' \in Pointers
      BY <2>2, DecodePacket DEF RingOK
    <3> QED BY <1>13, <3>1 DEF Process, setup, buffer, user, mouse, Pointers
  <2> QED BY <1>13, <2>1, <2>2 DEF Process
<1>14. CASE UNCHANGED vars
  BY <1>14 DEF vars, setup, decoder, buffer, user, mouse
<1> QED
  BY <1>1, <1>2, <1>3, <1>4, <1>5, <1>6, <1>7, <1>8, <1>9, <1>10, <1>11, <1>12, <1>13, <1>14
  DEF Next, Main

\* For every screen, ring and set of movements the pointer stays on the screen, mouse_packet
\* and mouse_buf are accessed within their bounds, and every byte written to the controller
\* is a byte.
THEOREM MouseTypeCorrect == Spec => []TypeOK
<1>1. Init => MouseInv
  BY MouseInitInv
<1>2. MouseInv /\ [Next]_vars => MouseInv'
  BY MouseNextInv
<1>3. MouseInv => TypeOK
  BY DEF MouseInv
<1> QED BY <1>1, <1>2, <1>3, PTL DEF Spec

\* mouse_buf is a bounded FIFO queue between IRQ 12 and the main loop.
THEOREM MouseIsQueue == Spec => ImplementsQueue
<1>1. Spec => []MouseInv
  BY MouseInitInv, MouseNextInv, PTL DEF Spec
<1>2. Init => RingInit
  BY DEF Init
<1>3. MouseInv /\ [Next]_vars => [RingNext]_rvars
  BY MouseOnRing DEF MouseInv
<1>4. Spec => RingSpec
  BY <1>1, <1>2, <1>3, PTL DEF Spec, RingSpec
<1> QED BY <1>4, RingIsQueue


----------------------------------------------------------------------------
(* Where the decoder is in the stream of report bytes.  Byte j of report c + 1 is the      *)
(* stream's byte 3 * c + j.  Line has the bytes that the mouse has sent and that are not   *)
(* handled, so the next one to be handled is byte Done + 1, unless some were lost.         *)

InBuffer == IF full /\ aux /\ sent > 0 THEN <<latch>> ELSE <<>>
Line == InHand \o (Waiting \o InBuffer)
Done == sent - Len(Line)
From == 3 * ((mark + 2) \div 3)      \* where the first report begins that no mishap has touched

\* All that is sent after a mishap arrives, and before the first one everything does.
UserInv ==
  /\ made \in Seq(Reports) /\ course \in Seq(Pointers) /\ Len(course) = Len(made) + 1
  /\ \A i \in 1 .. Len(made) : course[i + 1] = Meant(course[i], made[i])
SentInv ==
  /\ sent \in Nat /\ mark \in -1 .. sent /\ sent + Len(outgoing) = 3 * Len(made)
  /\ outgoing # <<>> \/ sent > 0 \/ reply = "ack" => pc \in {"ack", "loop"}
  /\ reply = "ack" => sent = 0
  /\ \A i \in 1 .. Len(outgoing), c \in Nat, j \in 1 .. 3 :
       sent + i = 3 * c + j => outgoing[i] = Bytes(made[c + 1])[j]
LineInv ==
  /\ mark = -1 => Done >= 0
  /\ \A i \in 1 .. Len(Line), c \in Nat, j \in 1 .. 3 :
       Done + i > mark /\ Done + i = 3 * c + j => Line[i] = Bytes(made[c + 1])[j]

\* One whole report later the decoder is in step: whatever is left of an old packet is completed by
\* the header, or by the first byte of data, and the rest is no header.
Synced == mark = -1 \/ (Plain /\ Done >= From + 3)
StepInv ==
  \A c \in Nat, j \in 0 .. 2 : Done = 3 * c + j =>
    /\ Synced => Len(packet) = j /\ \A i \in 1 .. j : packet[i] = Bytes(made[c + 1])[i]
    /\ Plain /\ Done = From + 2 => Len(packet) # 1
    /\ Slow /\ mark = -1 => pointer = course[c + 1]
    /\ c > 0 /\ Synced /\ (mark = -1 \/ Done >= From + 6) => pointer.buttons = made[c].buttons
StreamInv == MouseInv /\ UserInv /\ SentInv /\ LineInv /\ StepInv

\* What a report's bytes say.
LEMMA BytesSay ==
  ASSUME NEW r \in Reports
  PROVE  /\ Bytes(r)[1] \in Byte /\ Bytes(r)[2] \in Byte /\ Bytes(r)[3] \in Byte
         /\ Bytes(r)[1] % 8 = r.buttons /\ Bit(Bytes(r)[1], 8) /\ ~Bit(Bytes(r)[1], 128)
         /\ Bit(Bytes(r)[1], 64) <=> r.over
         /\ Bytes(r)[2] = r.dx % 256 /\ Bytes(r)[3] = r.dy % 256
         /\ r.dx \in -128 .. 127 => Signed(Bytes(r)[2]) = r.dx
         /\ r.dy \in -128 .. 127 => Signed(Bytes(r)[3]) = r.dy
<1>1. /\ r.buttons \in 0 .. 7 /\ r.dx \in -256 .. 255 /\ r.dy \in -256 .. 255 /\ r.over \in BOOLEAN
      /\ Byte = 0 .. 255
  BY MouseAssumption DEF Movement
<1> DEFINE s == 8 + r.buttons + (IF r.dx < 0 THEN 16 ELSE 0) + (IF r.dy < 0 THEN 32 ELSE 0)
                  + (IF r.over THEN 64 ELSE 0)
<1>2. Bytes(r)[1] = s /\ Bytes(r)[2] = r.dx % 256 /\ Bytes(r)[3] = r.dy % 256
  BY DEF Bytes
<1>3. s \in Byte /\ r.dx % 256 \in Byte /\ r.dy % 256 \in Byte
  BY <1>1, SMTT(20)
<1>4. PICK u \in 0 .. 1, v \in 0 .. 1, w \in 0 .. 1 :
        s = 8 + r.buttons + 16 * u + 32 * v + 64 * w /\ (w = 1 <=> r.over)
  <2>1. \E u \in 0 .. 1 : 16 * u = (IF r.dx < 0 THEN 16 ELSE 0)
    OBVIOUS
  <2>2. \E v \in 0 .. 1 : 32 * v = (IF r.dy < 0 THEN 32 ELSE 0)
    OBVIOUS
  <2>3. \E w \in 0 .. 1 : 64 * w = (IF r.over THEN 64 ELSE 0) /\ (w = 1 <=> r.over)
    BY <1>1
  <2> QED BY <1>1, <2>1, <2>2, <2>3
<1> HIDE DEF s
<1>5. s % 8 = r.buttons
  BY <1>1, <1>4, SMTT(20)
<1>6. Bit(s, 8)
  BY <1>1, <1>4, SMTT(20) DEF Bit
<1>7. ~Bit(s, 128)
  BY <1>1, <1>4, SMTT(20) DEF Bit
<1>8. Bit(s, 64) <=> r.over
  BY <1>1, <1>4, SMTT(20) DEF Bit
<1>9. ASSUME NEW d \in -128 .. 127 PROVE Signed(d % 256) = d
  BY SMTT(20) DEF Signed
<1>10. /\ Bytes(r)[1] \in Byte /\ Bytes(r)[2] \in Byte /\ Bytes(r)[3] \in Byte
       /\ Bytes(r)[1] % 8 = r.buttons /\ Bit(Bytes(r)[1], 8) /\ ~Bit(Bytes(r)[1], 128)
       /\ Bit(Bytes(r)[1], 64) <=> r.over
  <2>1. Bytes(r)[1] \in Byte /\ Bytes(r)[2] \in Byte /\ Bytes(r)[3] \in Byte
    BY <1>2, <1>3, Zenon
  <2>2. Bytes(r)[1] % 8 = r.buttons /\ Bit(Bytes(r)[1], 8) /\ ~Bit(Bytes(r)[1], 128)
    BY <1>2, <1>5, <1>6, <1>7, Zenon
  <2>3. Bit(Bytes(r)[1], 64) <=> r.over
    BY <1>2, <1>8, Zenon
  <2> QED BY <2>1, <2>2, <2>3, Zenon
<1>11. /\ r.dx \in -128 .. 127 => Signed(Bytes(r)[2]) = r.dx
       /\ r.dy \in -128 .. 127 => Signed(Bytes(r)[3]) = r.dy
  <2>1. Bytes(r)[2] = r.dx % 256 /\ Bytes(r)[3] = r.dy % 256
    BY <1>2, Zenon
  <2>2. r.dx \in -128 .. 127 => Signed(r.dx % 256) = r.dx
    BY <1>9, Zenon
  <2>3. r.dy \in -128 .. 127 => Signed(r.dy % 256) = r.dy
    BY <1>9, Zenon
  <2> QED BY <2>1, <2>2, <2>3, Zenon
<1> QED BY <1>2, <1>10, <1>11, Zenon

LEMMA ReportedAsMeant ==
  ASSUME NEW p \in Pointers, NEW r \in Reports
  PROVE  LET q == Reported(p, Bytes(r)[1], Bytes(r)[2], Bytes(r)[3]) IN
         /\ q.buttons = r.buttons
         /\ r.dx \in -128 .. 127 /\ r.dy \in -128 .. 127 => q = Meant(p, r)
  BY BytesSay DEF Reported, Meant, Pointers

----------------------------------------------------------------------------
(* The steps. *)

LEMMA LineType ==
  ASSUME MouseInv
  PROVE  /\ RingInv /\ InHand \in Seq(Byte) /\ Waiting \in Seq(Byte) /\ InBuffer \in Seq(Byte) /\ latch \in Byte
         /\ Waiting \o InBuffer \in Seq(Byte) /\ Line \in Seq(Byte) /\ Len(Line) \in Nat
<1>1. RingInv /\ latch \in Byte
  BY DEF MouseInv, TypeOK
<1>2. InHand \in Seq(Byte) /\ Waiting \in Seq(Byte)
  BY <1>1, QueuedType
<1>3. InBuffer \in Seq(Byte)
  BY <1>1, EmptySeq DEF InBuffer
<1>4. Waiting \o InBuffer \in Seq(Byte)
  BY <1>2, <1>3, ConcatProperties
<1>5. Line \in Seq(Byte)
  BY <1>2, <1>4, ConcatProperties DEF Line
<1> QED BY <1>1, <1>2, <1>3, <1>4, <1>5, LenProperties

LEMMA LineSame ==
  ASSUME UNCHANGED rvars, InBuffer' = InBuffer
  PROVE  Line' = Line
  BY DEF rvars, Line, InHand, Waiting, Contents, Used

LEMMA StreamStays ==
  ASSUME StreamInv, MouseInv', Line' = Line, UNCHANGED <<decoder, made, course, outgoing, sent, mark>>,
         outgoing # <<>> \/ sent > 0 \/ reply' = "ack" => pc' \in {"ack", "loop"},
         reply' = "ack" => sent = 0
  PROVE  StreamInv'
<1>1. Done' = Done /\ From' = From /\ (Plain' <=> Plain) /\ (Slow' <=> Slow) /\ (Synced' <=> Synced)
  BY DEF Done, From, Plain, Slow, Synced
<1>2. UserInv' /\ SentInv'
  BY DEF StreamInv, UserInv, SentInv
<1>3. LineInv'
  BY <1>1 DEF StreamInv, LineInv
<1>4. StepInv'
  BY <1>1 DEF StreamInv, StepInv, decoder
<1> QED BY <1>2, <1>3, <1>4 DEF StreamInv

LEMMA FromBounds ==
  ASSUME NEW m \in Nat \cup {-1}
  PROVE  /\ (m + 2) \div 3 \in Nat /\ 3 * ((m + 2) \div 3) >= m
         /\ m = -1 => 3 * ((m + 2) \div 3) = 0
<1>1. CASE m = -1
  BY <1>1, SMT
<1>2. CASE m \in Nat
  BY <1>2, SMT
<1> QED BY <1>1, <1>2

\* A byte lost or astray: the stream begins anew with the next one sent.
LEMMA MishapStream ==
  ASSUME StreamInv, MouseInv', mark' = sent, UNCHANGED <<decoder, made, course, outgoing, sent, reply>>,
         pc' = pc \/ pc' = "loop"
  PROVE  StreamInv'
<1>1. sent \in Nat /\ sent' = sent /\ Len(Line') \in Nat
  BY LineType DEF StreamInv, SentInv
<1>2. Done' <= sent /\ Done' \in Int
  BY <1>1 DEF Done
<1>3. From' >= sent /\ From' \in Int
  <2>1. (sent + 2) \div 3 \in Nat /\ 3 * ((sent + 2) \div 3) >= sent
    BY <1>1, FromBounds
  <2> QED BY <1>1, <2>1 DEF From
<1>4. mark' # -1 /\ ~(Done' >= From' + 3) /\ ~(Done' >= From' + 6) /\ Done' # From' + 2
  <2>1. \A n \in Nat, d, f \in Int : d <= n /\ f >= n => ~(d >= f + 3) /\ ~(d >= f + 6) /\ d # f + 2
    OBVIOUS
  <2>2. sent # -1
    BY <1>1
  <2> QED BY <1>1, <1>2, <1>3, <2>1, <2>2, Zenon
<1>5. UserInv' /\ SentInv'
  BY <1>1 DEF StreamInv, UserInv, SentInv
<1>6. LineInv'
  <2>1. \A i \in 1 .. Len(Line') : ~(Done' + i > mark')
    BY <1>1 DEF Done
  <2> QED BY <1>4, <2>1 DEF LineInv
<1>7. StepInv'
  BY <1>4 DEF StepInv, Synced
<1> QED BY <1>5, <1>6, <1>7 DEF StreamInv

LEMMA MoveStream ==
  ASSUME StreamInv, MouseInv', NEW r \in Reports, Move(r)
  PROVE  StreamInv'
<1>1. /\ UNCHANGED <<rvars, setup, decoder, buffer, sent, mark>> /\ Streaming /\ outgoing = <<>>
      /\ made' = Append(made, r) /\ outgoing' = Bytes(r) /\ course' = Append(course, Meant(course[Len(course)], r))
  BY DEF Move
<1>2. /\ made \in Seq(Reports) /\ course \in Seq(Pointers) /\ Len(course) = Len(made) + 1 /\ Len(made) \in Nat
      /\ \A i \in 1 .. Len(made) : course[i + 1] = Meant(course[i], made[i])
  BY DEF StreamInv, UserInv
<1>3. /\ made' \in Seq(Reports) /\ Len(made') = Len(made) + 1 /\ made'[Len(made) + 1] = r
      /\ \A i \in 1 .. Len(made) : made'[i] = made[i]
  BY <1>1, <1>2, AppendProperties
<1>4. Meant(course[Len(course)], r) \in Pointers
  <2>1. course[Len(course)] \in Pointers
    BY <1>2
  <2>2. PICK q \in Pointers : q = course[Len(course)]
    BY <2>1, Zenon
  <2>3. r.buttons \in 0 .. 7 /\ r.dx \in Int /\ r.dy \in Int
    BY MouseAssumption DEF Movement
  <2>4. q.x + r.dx \in Int /\ q.y - r.dy \in Int
    BY <2>2, <2>3, MouseAssumption DEF Pointers
  <2>5. Clamp(q.x + r.dx, Width) \in 0 .. Width - 1 /\ Clamp(q.y - r.dy, Height) \in 0 .. Height - 1
    BY <2>4, ClampType, MouseAssumption
  <2>6. Meant(q, r) \in Pointers
    BY <2>3, <2>5 DEF Meant, Pointers
  <2> QED BY <2>2, <2>6
<1>5. /\ course' \in Seq(Pointers) /\ Len(course') = Len(course) + 1
      /\ course'[Len(course) + 1] = Meant(course[Len(course)], r)
      /\ \A i \in 1 .. Len(course) : course'[i] = course[i]
  BY <1>1, <1>2, <1>4, AppendProperties
<1>6. UserInv'
  <2>1. ASSUME NEW i \in 1 .. Len(made') PROVE course'[i + 1] = Meant(course'[i], made'[i])
    <3>1. CASE i = Len(made) + 1
      BY <3>1, <1>2, <1>3, <1>5
    <3>2. CASE i # Len(made) + 1
      <4>1. i \in 1 .. Len(made) /\ i \in 1 .. Len(course) /\ i + 1 \in 1 .. Len(course)
        BY <3>2, <1>2, <1>3
      <4> QED BY <4>1, <1>2, <1>3, <1>5
    <3> QED BY <3>1, <3>2
  <2> QED BY <2>1, <1>2, <1>3, <1>5 DEF UserInv
<1>7. sent \in Nat /\ sent = 3 * Len(made) /\ mark \in -1 .. sent /\ sent' = sent /\ mark' = mark
  BY <1>1 DEF StreamInv, SentInv
<1>8. Bytes(r) \in Seq(Byte) /\ Len(Bytes(r)) = 3
  BY BytesType DEF Bytes
<1>9. SentInv'
  <2>1. ASSUME NEW i \in 1 .. 3, NEW c \in Nat, NEW j \in 1 .. 3, sent + i = 3 * c + j
        PROVE  Bytes(r)[i] = Bytes(made'[c + 1])[j]
    <3>1. c = Len(made) /\ i = j
      BY <1>2, <1>7, <2>1
    <3> QED BY <3>1, <1>3
  <2>2. pc' = pc /\ reply' = reply /\ pc \in {"ack", "loop"}
    BY <1>1 DEF setup, Streaming
  <2>3. reply' = "ack" => sent' = 0
    BY <1>7, <2>2 DEF StreamInv, SentInv
  <2>4. sent' + Len(outgoing') = 3 * Len(made')
    BY <1>1, <1>2, <1>3, <1>7, <1>8
  <2>5. sent' \in Nat /\ mark' \in -1 .. sent'
    BY <1>7
  <2>6. \A i \in 1 .. Len(outgoing'), c \in Nat, j \in 1 .. 3 :
          sent' + i = 3 * c + j => outgoing'[i] = Bytes(made'[c + 1])[j]
    <3>1. sent' = sent /\ outgoing' = Bytes(r) /\ 1 .. Len(outgoing') = 1 .. 3
      BY <1>1, <1>7, <1>8
    <3>2. \A i \in 1 .. 3, c \in Nat, j \in 1 .. 3 : sent + i = 3 * c + j => Bytes(r)[i] = Bytes(made'[c + 1])[j]
      BY <2>1
    <3>3. SUFFICES ASSUME NEW i \in 1 .. Len(outgoing'), NEW c \in Nat, NEW j \in 1 .. 3, sent' + i = 3 * c + j
                   PROVE  outgoing'[i] = Bytes(made'[c + 1])[j]
      OBVIOUS
    <3>4. i \in 1 .. 3 /\ sent + i = 3 * c + j
      BY <3>1, <3>3
    <3>5. Bytes(r)[i] = Bytes(made'[c + 1])[j]
      BY <3>2, <3>4, Zenon
    <3> QED BY <3>1, <3>5, Zenon
  <2> QED BY <2>2, <2>3, <2>4, <2>5, <2>6, Zenon DEF SentInv
<1>10. Line' = Line /\ Done' = Done /\ From' = From
  <2>1. InBuffer' = InBuffer
    BY <1>1 DEF InBuffer, buffer
  <2> QED BY <1>1, <2>1, LineSame DEF Done, From
<1>11. Done \in Int /\ Done <= sent /\ Len(Line) \in Nat /\ From \in Nat
  <2>1. (mark + 2) \div 3 \in Nat
    BY <1>7, FromBounds
  <2> QED BY <1>7, <2>1, LineType DEF StreamInv, Done, From
<1>12. LineInv'
  <2>1. ASSUME NEW i \in 1 .. Len(Line), NEW c \in Nat, NEW j \in 1 .. 3, Done + i > mark, Done + i = 3 * c + j
        PROVE  Line[i] = Bytes(made'[c + 1])[j]
    <3>1. Line[i] = Bytes(made[c + 1])[j]
      BY <2>1 DEF StreamInv, LineInv
    <3>2. c + 1 \in 1 .. Len(made)
      <4>1. Done + i <= sent
        BY <1>7, <1>11 DEF Done
      <4> QED BY <1>2, <1>7, <1>11, <2>1, <4>1
    <3> QED BY <3>1, <3>2, <1>3
  <2>2. mark = -1 => Done >= 0
    BY DEF StreamInv, LineInv
  <2>3. mark' = mark /\ Line' = Line /\ Done' = Done
    BY <1>7, <1>10
  <2> QED BY <2>1, <2>2, <2>3, Zenon DEF LineInv
<1>13. (Plain' => Plain) /\ (Slow' => Slow)
  <2>1. DOMAIN made = 1 .. Len(made) /\ DOMAIN made' = 1 .. Len(made')
    BY <1>2, <1>3, LenProperties
  <2>2. \A i \in 1 .. Len(made) : i \in 1 .. Len(made') /\ made'[i] = made[i]
    BY <1>2, <1>3
  <2>3. ASSUME NEW i \in DOMAIN made PROVE i \in DOMAIN made' /\ made'[i] = made[i]
    BY <2>1, <2>2
  <2>4. Plain' => Plain
    BY <2>3, Zenon DEF Plain
  <2>5. Slow' => Slow
    BY <2>3, Zenon DEF Slow
  <2> QED BY <2>4, <2>5
<1>14. StepInv'
  <2>1. ASSUME NEW c \in Nat, NEW j \in 0 .. 2, Done = 3 * c + j
        PROVE  /\ Synced' => Len(packet) = j /\ \A i \in 1 .. j : packet[i] = Bytes(made'[c + 1])[i]
               /\ Plain' /\ Done = From + 2 => Len(packet) # 1
               /\ Slow' /\ mark = -1 => pointer = course'[c + 1]
               /\ c > 0 /\ Synced' /\ (mark = -1 \/ Done >= From + 6) => pointer.buttons = made'[c].buttons
    <3>1. c <= Len(made) /\ (j > 0 => c + 1 \in 1 .. Len(made)) /\ c + 1 \in 1 .. Len(course) /\ (c > 0 => c \in 1 .. Len(made))
      BY <1>2, <1>7, <1>11, <2>1
    <3>2. Synced' => Synced
      BY <1>1, <1>10, <1>13 DEF Synced
    <3>3. (j > 0 => made'[c + 1] = made[c + 1]) /\ course'[c + 1] = course[c + 1] /\ (c > 0 => made'[c] = made[c])
      BY <3>1, <1>3, <1>5
    <3>4. /\ Synced => Len(packet) = j /\ \A i \in 1 .. j : packet[i] = Bytes(made[c + 1])[i]
          /\ Plain /\ Done = From + 2 => Len(packet) # 1
          /\ Slow /\ mark = -1 => pointer = course[c + 1]
          /\ c > 0 /\ Synced /\ (mark = -1 \/ Done >= From + 6) => pointer.buttons = made[c].buttons
      BY <2>1 DEF StreamInv, StepInv
    <3>5. \A i \in 1 .. j : j > 0
      OBVIOUS
    <3> QED BY <1>13, <3>2, <3>3, <3>4, <3>5, Zenon
  <2>2. packet' = packet /\ pointer' = pointer /\ mark' = mark
    BY <1>1 DEF decoder
  <2> QED BY <1>10, <2>1, <2>2, Zenon DEF StepInv
<1> QED BY <1>6, <1>9, <1>12, <1>14 DEF StreamInv

LEMMA SendStream ==
  ASSUME StreamInv, MouseInv', Send
  PROVE  StreamInv'
<1>1. /\ UNCHANGED <<rvars, setup, decoder, user, mark>> /\ ~full /\ full' /\ aux' /\ latch' = Head(outgoing)
      /\ reply # "ack" /\ outgoing # <<>> /\ outgoing' = Tail(outgoing) /\ sent' = sent + 1
  BY DEF Send, Filled
<1>2. /\ outgoing \in Seq(Byte) /\ Head(outgoing) \in Byte /\ Head(outgoing) = outgoing[1]
      /\ Tail(outgoing) \in Seq(Byte) /\ Len(outgoing) \in Nat \ {0} /\ Len(Tail(outgoing)) = Len(outgoing) - 1
      /\ \A i \in 1 .. Len(outgoing) - 1 : Tail(outgoing)[i] = outgoing[i + 1]
  BY <1>1, EmptySeq, HeadTailProperties DEF StreamInv, MouseInv, TypeOK
<1>3. sent \in Nat /\ mark \in -1 .. sent /\ Len(Line) \in Nat /\ Line \in Seq(Byte)
  BY LineType DEF StreamInv, SentInv
<1>4. Line' = Append(Line, Head(outgoing))
  <2>1. InBuffer = <<>> /\ InBuffer' = <<Head(outgoing)>>
    <3>1. sent' > 0
      BY <1>1, <1>3
    <3> QED BY <1>1, <3>1 DEF InBuffer
  <2>2. InHand' = InHand /\ Waiting' = Waiting /\ InHand \in Seq(Byte) /\ Waiting \in Seq(Byte)
    BY <1>1, LineType DEF StreamInv, rvars, InHand, Waiting, Contents, Used
  <2>3. Waiting \o <<>> = Waiting /\ Waiting \o <<Head(outgoing)>> = Append(Waiting, Head(outgoing))
    BY <1>2, <2>2, ConcatEmptySeq, AppendIsConcat
  <2>4. InHand \o Append(Waiting, Head(outgoing)) = Append(InHand \o Waiting, Head(outgoing))
    BY <1>2, <2>2, AppendOut
  <2> QED BY <2>1, <2>2, <2>3, <2>4, Zenon DEF Line
<1>5. Len(Line') = Len(Line) + 1 /\ Line'[Len(Line) + 1] = Head(outgoing) /\ \A i \in 1 .. Len(Line) : Line'[i] = Line[i]
  BY <1>2, <1>3, <1>4, AppendProperties
<1>6. Done' = Done /\ From' = From /\ Done \in Int /\ Done + (Len(Line) + 1) = sent + 1
  BY <1>1, <1>3, <1>5 DEF Done, From
<1>7. UserInv'
  BY <1>1 DEF StreamInv, UserInv, user
<1>8. SentInv'
  <2>1. sent' \in Nat /\ mark' \in -1 .. sent' /\ sent' + Len(outgoing') = 3 * Len(made')
    <3>1. sent + Len(outgoing) = 3 * Len(made) /\ Len(made) \in Nat /\ made' = made
      BY <1>1 DEF StreamInv, SentInv, UserInv, user
    <3>2. sent' \in Nat /\ mark' \in -1 .. sent'
      BY <1>1, <1>3
    <3>3. \A l, m, n \in Nat : l > 0 /\ n + l = 3 * m => (n + 1) + (l - 1) = 3 * m
      OBVIOUS
    <3>4. Len(outgoing) \in Nat /\ Len(outgoing) > 0
      BY <1>2
    <3>5. (sent + 1) + (Len(outgoing) - 1) = 3 * Len(made)
      BY <1>3, <3>1, <3>3, <3>4, Zenon
    <3>6. sent' = sent + 1 /\ Len(outgoing') = Len(outgoing) - 1
      BY <1>1, <1>2, Zenon
    <3> QED BY <3>1, <3>2, <3>5, <3>6, Zenon
  <2>2. pc' \in {"ack", "loop"} /\ reply' # "ack"
    BY <1>1 DEF StreamInv, SentInv, setup
  <2>3. ASSUME NEW i \in 1 .. Len(outgoing'), NEW c \in Nat, NEW j \in 1 .. 3, sent' + i = 3 * c + j
        PROVE  outgoing'[i] = Bytes(made'[c + 1])[j]
    <3>1. i + 1 \in 1 .. Len(outgoing) /\ sent + (i + 1) = 3 * c + j /\ i \in 1 .. Len(outgoing) - 1
      BY <1>1, <1>2, <1>3, <2>3
    <3>2. outgoing[i + 1] = Bytes(made[c + 1])[j]
      BY <3>1 DEF StreamInv, SentInv
    <3> QED BY <1>1, <1>2, <3>1, <3>2 DEF user
  <2> QED BY <2>1, <2>2, <2>3, Zenon DEF SentInv
<1>9. LineInv'
  <2>1. mark' = -1 => Done' >= 0
    BY <1>1, <1>6 DEF StreamInv, LineInv
  <2>2. ASSUME NEW i \in 1 .. Len(Line) + 1, NEW c \in Nat, NEW j \in 1 .. 3, Done + i > mark, Done + i = 3 * c + j
        PROVE  Line'[i] = Bytes(made[c + 1])[j]
    <3>1. CASE i = Len(Line) + 1
      <4>1. sent + 1 = 3 * c + j /\ 1 \in 1 .. Len(outgoing)
        BY <1>2, <1>6, <2>2, <3>1
      <4>2. outgoing[1] = Bytes(made[c + 1])[j]
        BY <4>1 DEF StreamInv, SentInv
      <4> QED BY <1>2, <1>5, <3>1, <4>2
    <3>2. CASE i # Len(Line) + 1
      <4>1. i \in 1 .. Len(Line)
        BY <1>3, <3>2
      <4>2. Line[i] = Bytes(made[c + 1])[j]
        BY <2>2, <4>1 DEF StreamInv, LineInv
      <4> QED BY <1>5, <4>1, <4>2
    <3> QED BY <3>1, <3>2
  <2>3. made' = made /\ mark' = mark
    BY <1>1 DEF user
  <2> QED BY <1>5, <1>6, <2>1, <2>2, <2>3, Zenon DEF LineInv
<1>10. StepInv'
  <2>1. (Plain' <=> Plain) /\ (Slow' <=> Slow) /\ (Synced' <=> Synced)
    BY <1>1, <1>6 DEF Plain, Slow, Synced, user
  <2> QED BY <1>1, <1>6, <2>1 DEF StreamInv, StepInv, decoder, user
<1> QED BY <1>7, <1>8, <1>9, <1>10 DEF StreamInv

\* The bytes of the line pass from the controller to the ring, and from there to the main loop.
LEMMA IrqMouseStream ==
  ASSUME StreamInv, MouseInv', IrqMouse
  PROVE  StreamInv'
<1>1. /\ full /\ aux /\ Put(latch) /\ full' = FALSE /\ UNCHANGED <<setup, decoder, user, outgoing, sent>>
      /\ IF missed' > missed \/ sent = 0 THEN Mishap ELSE UNCHANGED mark
  BY DEF IrqMouse, Emptied
<1>2. /\ RingInv /\ InHand \in Seq(Byte) /\ Waiting \in Seq(Byte) /\ latch \in Byte
      /\ sent \in Nat /\ missed \in Nat /\ missed' \in {missed, missed + 1}
  <2>1. missed' \in {missed, missed + 1}
    BY <1>1 DEF Put
  <2> QED BY <2>1, LineType DEF StreamInv, SentInv, RingInv, RingOK
<1>3. CASE missed' > missed \/ sent = 0
  BY <1>1, <1>3, MishapStream DEF Mishap, setup, user
<1>4. CASE ~(missed' > missed \/ sent = 0)
  <2>1. missed' = missed /\ sent > 0 /\ mark' = mark
    BY <1>1, <1>2, <1>4
  <2>2. InHand' = InHand /\ Waiting' = Append(Waiting, latch)
    BY <1>1, <1>2, <2>1, PutQueued
  <2>3. InBuffer = <<latch>> /\ InBuffer' = <<>>
    BY <1>1, <2>1 DEF InBuffer
  <2>4. Append(Waiting, latch) \o <<>> = Waiting \o <<latch>>
    <3>1. Append(Waiting, latch) \in Seq(Byte)
      BY <1>2, AppendProperties
    <3> QED BY <1>2, <3>1, ConcatEmptySeq, AppendIsConcat
  <2>5. Line' = Line
    BY <2>2, <2>3, <2>4, Zenon DEF Line
  <2>6. outgoing # <<>> \/ sent > 0 \/ reply' = "ack" => pc' \in {"ack", "loop"}
    BY <1>1 DEF StreamInv, SentInv, setup
  <2>7. reply' = "ack" => sent = 0
    BY <1>1 DEF StreamInv, SentInv, setup
  <2> QED BY <1>1, <2>1, <2>5, <2>6, <2>7, StreamStays DEF user
<1> QED BY <1>3, <1>4

LEMMA TakenStream ==
  ASSUME StreamInv, MouseInv', See \/ Read \/ Advance, UNCHANGED <<decoder, setup, buffer, user, mouse>>
  PROVE  StreamInv'
<1>1. RingInv /\ InBuffer \in Seq(Byte)
  BY LineType DEF StreamInv
<1>2. InBuffer' = InBuffer
  BY DEF InBuffer, buffer, mouse
<1>3. Line' = Line
  <2>1. InHand' \o (Waiting' \o InBuffer) = InHand \o (Waiting \o InBuffer)
    BY <1>1, TakenQueued
  <2> QED BY <1>2, <2>1, Zenon DEF Line
<1>4. outgoing # <<>> \/ sent > 0 \/ reply' = "ack" => pc' \in {"ack", "loop"}
  BY DEF StreamInv, SentInv, setup
<1>5. reply' = "ack" => sent = 0
  BY DEF StreamInv, SentInv, setup
<1> QED BY <1>3, <1>4, <1>5, StreamStays DEF user, mouse

\* A byte handled is the next of the line, and takes the decoder one byte further in the stream.
LEMMA HandledLine ==
  ASSUME StreamInv, Handled, UNCHANGED <<setup, buffer, user, mouse>>
  PROVE  /\ Done \in Int /\ Done' = Done + 1 /\ Done + 1 <= 3 * Len(made) /\ byte \in Byte
         /\ Len(Line) \in Nat /\ Len(Line') + 1 = Len(Line)
         /\ Line[1] = byte /\ \A i \in 1 .. Len(Line') : Line'[i] = Line[i + 1]
<1>1. /\ RingInv /\ Waiting \o InBuffer \in Seq(Byte) /\ byte \in Byte /\ Len(Line) \in Nat
      /\ sent \in Nat /\ Len(outgoing) \in Nat /\ sent + Len(outgoing) = 3 * Len(made)
  BY LineType DEF StreamInv, SentInv, MouseInv, TypeOK, RingInv, RingOK
<1>2. PICK w \in Seq(Byte) : w = Waiting \o InBuffer
  BY <1>1
<1>3. InBuffer' = InBuffer
  BY DEF InBuffer, buffer, mouse
<1>4. Line = <<byte>> \o w /\ Line' = <<>> \o w
  BY <1>2, <1>3, HandledQueued, Zenon DEF Line
<1>5. Line' = w
  BY <1>2, <1>4, ConcatEmptySeq
<1>6. <<byte>> \in Seq(Byte) /\ Len(<<byte>>) = 1 /\ <<byte>>[1] = byte
  BY <1>1
<1>7. /\ Len(Line) = 1 + Len(w) /\ Len(w) \in Nat
      /\ \A i \in 1 .. 1 + Len(w) : Line[i] = IF i <= 1 THEN <<byte>>[i] ELSE w[i - 1]
  BY <1>2, <1>4, <1>6, ConcatProperties
<1>8. Line[1] = byte /\ \A i \in 1 .. Len(w) : Line[i + 1] = w[i]
  BY <1>6, <1>7
<1>9. sent' = sent
  BY DEF mouse
<1> QED BY <1>1, <1>5, <1>7, <1>8, <1>9 DEF Done

LEMMA HandledStream ==
  ASSUME StreamInv, MouseInv', Handled, Decode(byte), UNCHANGED <<setup, buffer, user, mouse>>
  PROVE  StreamInv'
<1>1. /\ Done \in Int /\ Done' = Done + 1 /\ Done + 1 <= 3 * Len(made) /\ byte \in Byte
      /\ Len(Line) \in Nat /\ Len(Line') + 1 = Len(Line)
      /\ Line[1] = byte /\ \A i \in 1 .. Len(Line') : Line'[i] = Line[i + 1]
  BY HandledLine
<1>2. /\ made' = made /\ course' = course /\ mark' = mark /\ From' = From
      /\ (Plain' <=> Plain) /\ (Slow' <=> Slow)
  BY DEF From, Plain, Slow, user, mouse
<1>3. /\ mark \in Nat \cup {-1} /\ From \in Nat /\ From >= mark /\ (mark = -1 => Done >= 0)
      /\ \E n \in Nat : From = 3 * n
  <2>1. mark \in Nat \cup {-1}
    BY DEF StreamInv, SentInv
  <2> QED BY <2>1, FromBounds DEF From, StreamInv, LineInv
<1>4. UserInv' /\ SentInv'
  BY DEF StreamInv, UserInv, SentInv, user, mouse, setup
<1>5. LineInv'
  <2>1. mark' = -1 => Done' >= 0
    BY <1>1, <1>2, <1>3
  <2>2. ASSUME NEW i \in 1 .. Len(Line'), NEW c \in Nat, NEW j \in 1 .. 3, Done' + i > mark, Done' + i = 3 * c + j
        PROVE  Line'[i] = Bytes(made[c + 1])[j]
    <3>1. i + 1 \in 1 .. Len(Line) /\ Done + (i + 1) > mark /\ Done + (i + 1) = 3 * c + j
      BY <1>1, <1>3, <2>2
    <3>2. Line[i + 1] = Bytes(made[c + 1])[j]
      BY <3>1 DEF StreamInv, LineInv
    <3> QED BY <1>1, <3>2
  <2> QED BY <1>2, <2>1, <2>2, Zenon DEF LineInv
<1>6. /\ packet \in Seq(Byte) /\ Len(packet) \in 0 .. 2
      /\ Len(packet) = 0 => pointer' = pointer /\ packet' = IF Bit(byte, 8) THEN <<byte>> ELSE <<>>
      /\ Len(packet) = 1 => pointer' = pointer /\ packet' = Append(packet, byte)
      /\ Len(packet) = 2 => pointer' = Reported(pointer, packet[1], packet[2], byte) /\ packet' = <<>>
  BY <1>1, DecodedInto DEF StreamInv, MouseInv
<1>7. /\ Len(Append(packet, byte)) = Len(packet) + 1 /\ Append(packet, byte)[Len(packet) + 1] = byte
       /\ \A i \in 1 .. Len(packet) : Append(packet, byte)[i] = packet[i]
  BY <1>1, <1>6, AppendProperties
<1>8. ASSUME NEW c \in Nat, NEW j \in 0 .. 2, Done = 3 * c + j
      PROVE  /\ c + 1 \in 1 .. Len(made) /\ made[c + 1] \in Reports
             /\ Done + 1 > mark => byte = Bytes(made[c + 1])[j + 1]
             /\ Synced => Len(packet) = j /\ \A i \in 1 .. j : packet[i] = Bytes(made[c + 1])[i]
             /\ Plain /\ Done = From + 2 => Len(packet) # 1
             /\ Slow /\ mark = -1 => pointer = course[c + 1]
             /\ c > 0 /\ Synced /\ (mark = -1 \/ Done >= From + 6) => pointer.buttons = made[c].buttons
  <2>1. Len(made) \in Nat /\ made \in Seq(Reports)
    BY DEF StreamInv, UserInv
  <2>2. c + 1 \in 1 .. Len(made) /\ made[c + 1] \in Reports
    BY <1>1, <1>8, <2>1
  <2>3. Done + 1 > mark => byte = Bytes(made[c + 1])[j + 1]
    <3>1. 1 \in 1 .. Len(Line) /\ j + 1 \in 1 .. 3 /\ Done + 1 = 3 * c + (j + 1)
      BY <1>1, <1>8
    <3> QED BY <1>1, <3>1 DEF StreamInv, LineInv
  <2> QED BY <1>8, <2>2, <2>3, Zenon DEF StreamInv, StepInv
\* No byte of data is taken for a header.
<1>9. ASSUME Plain, NEW c \in Nat, c + 1 \in 1 .. Len(made), made[c + 1] \in Reports, NEW j \in {2, 3},
             byte = Bytes(made[c + 1])[j]
      PROVE  ~Bit(byte, 8)
  <2>1. c + 1 \in DOMAIN made
    BY <1>9, LenProperties DEF StreamInv, UserInv
  <2>2. ~Bit(made[c + 1].dx % 256, 8) /\ ~Bit(made[c + 1].dy % 256, 8)
    BY <1>9, <2>1 DEF Plain
  <2>3. Bytes(made[c + 1])[2] = made[c + 1].dx % 256 /\ Bytes(made[c + 1])[3] = made[c + 1].dy % 256
    BY <1>9, BytesSay
  <2>4. j = 2 \/ j = 3
    OBVIOUS
  <2> QED BY <1>9, <2>2, <2>3, <2>4, Zenon
\* Within a report.
<1>10. ASSUME NEW c \in Nat, NEW j \in 0 .. 1, Done = 3 * c + j
      PROVE  /\ Synced' => Len(packet') = j + 1 /\ \A i \in 1 .. j + 1 : packet'[i] = Bytes(made[c + 1])[i]
             /\ Plain /\ Done + 1 = From + 2 => Len(packet') # 1
             /\ Slow /\ mark = -1 => pointer' = course[c + 1]
             /\ c > 0 /\ Synced' /\ (mark = -1 \/ Done + 1 >= From + 6) => pointer'.buttons = made[c].buttons
  <2>1. Synced' => Synced /\ (mark = -1 \/ Done >= From + 3)
    BY <1>1, <1>2, <1>3, <1>10 DEF Synced
  <2>2. Done + 1 >= From + 6 => Done >= From + 6
    BY <1>1, <1>3, <1>10
  <2>3. /\ c + 1 \in 1 .. Len(made) /\ made[c + 1] \in Reports
        /\ Done + 1 > mark => byte = Bytes(made[c + 1])[j + 1]
        /\ Synced => Len(packet) = j /\ \A i \in 1 .. j : packet[i] = Bytes(made[c + 1])[i]
        /\ Slow /\ mark = -1 => pointer = course[c + 1]
        /\ c > 0 /\ Synced /\ (mark = -1 \/ Done >= From + 6) => pointer.buttons = made[c].buttons
    <3>1. j \in 0 .. 2
      OBVIOUS
    <3> QED BY <1>8, <1>10, <3>1, Zenon
  <2>4. ASSUME Synced'
        PROVE  /\ Len(packet') = j + 1 /\ \A i \in 1 .. j + 1 : packet'[i] = Bytes(made[c + 1])[i]
               /\ pointer' = pointer
    <3>1. byte = Bytes(made[c + 1])[j + 1] /\ Len(packet) = j /\ \A i \in 1 .. j : packet[i] = Bytes(made[c + 1])[i]
      <4>1. Done + 1 > mark
        BY <1>1, <1>3, <2>1, <2>4
      <4> QED BY <2>1, <2>3, <2>4, <4>1, Zenon
    <3>2. CASE j = 0
      <4>1. Bit(byte, 8)
        BY <2>3, <3>1, <3>2, BytesSay
      <4>2. packet' = <<byte>> /\ pointer' = pointer
        BY <1>6, <3>1, <3>2, <4>1
      <4> QED BY <3>1, <3>2, <4>2
    <3>3. CASE j = 1
      <4>1. packet' = Append(packet, byte) /\ pointer' = pointer
        BY <1>6, <3>1, <3>3
      <4>2. Len(packet') = 2 /\ packet'[2] = byte /\ packet'[1] = packet[1]
        <5>1. 1 + 1 = 2 /\ 1 \in 1 .. 1
          OBVIOUS
        <5> QED BY <1>7, <3>1, <3>3, <4>1, <5>1
      <4> QED BY <3>1, <3>3, <4>1, <4>2
    <3> QED BY <3>2, <3>3
  <2>5. ASSUME Plain, Done + 1 = From + 2 PROVE Len(packet') # 1
    <3>1. j = 1 /\ Done + 1 > mark
      BY <1>1, <1>3, <1>10, <2>5
    <3>2. ~Bit(byte, 8)
      BY <1>9, <2>3, <2>5, <3>1
    <3>3. CASE Len(packet) = 0
      BY <1>6, <3>2, <3>3
    <3>4. CASE Len(packet) = 1
      <4>1. Len(Append(packet, byte)) = 2
        BY <1>7, <3>4
      <4> QED BY <1>6, <3>4, <4>1
    <3>5. CASE Len(packet) = 2
      BY <1>6, <3>5
    <3> QED BY <1>6, <3>3, <3>4, <3>5
  <2>6. ASSUME Slow, mark = -1 PROVE pointer' = course[c + 1]
    <3>1. Synced'
      BY <1>2, <2>6 DEF Synced
    <3> QED BY <2>3, <2>4, <2>6, <3>1
  <2>7. ASSUME c > 0, Synced', mark = -1 \/ Done + 1 >= From + 6 PROVE pointer'.buttons = made[c].buttons
    BY <2>1, <2>2, <2>3, <2>4, <2>7
  <2> QED BY <2>4, <2>5, <2>6, <2>7, Zenon
\* The last byte of a report.
<1>11. ASSUME NEW c \in Nat, Done = 3 * c + 2
       PROVE  /\ Synced' => Len(packet') = 0
              /\ Slow /\ mark = -1 => pointer' = course[c + 2]
              /\ Synced' /\ (mark = -1 \/ Done + 1 >= From + 6) => pointer'.buttons = made[c + 1].buttons
  <2>1. /\ c + 1 \in 1 .. Len(made) /\ made[c + 1] \in Reports
        /\ Done + 1 > mark => byte = Bytes(made[c + 1])[3]
        /\ Synced => Len(packet) = 2 /\ \A i \in 1 .. 2 : packet[i] = Bytes(made[c + 1])[i]
        /\ Plain /\ Done = From + 2 => Len(packet) # 1
        /\ Slow /\ mark = -1 => pointer = course[c + 1]
    <3>1. 2 \in 0 .. 2 /\ 2 + 1 = 3
      OBVIOUS
    <3> QED BY <1>8, <1>11, <3>1, Zenon
  <2>2. ASSUME Synced, Done + 1 > mark
        PROVE  /\ packet' = <<>>
               /\ pointer' = Reported(pointer, Bytes(made[c + 1])[1], Bytes(made[c + 1])[2], Bytes(made[c + 1])[3])
    BY <1>6, <2>1, <2>2
  <2>3. pointer \in Pointers
    BY DEF StreamInv, MouseInv, TypeOK, Pointers
  <2>4. ASSUME Synced' PROVE Len(packet') = 0
    <3>1. Done + 1 > mark
      BY <1>1, <1>2, <1>3, <2>4 DEF Synced
    <3>2. CASE Synced
      BY <2>2, <3>1, <3>2
    <3>3. CASE ~Synced
      <4>1. Plain /\ Done = From + 2
        BY <1>1, <1>2, <1>3, <2>4, <3>3 DEF Synced
      <4>2. ~Bit(byte, 8)
        BY <1>9, <2>1, <3>1, <4>1
      <4>3. Len(packet) = 0 \/ Len(packet) = 2
        BY <1>6, <2>1, <4>1
      <4> QED BY <1>6, <4>2, <4>3
    <3> QED BY <3>2, <3>3
  <2>5. ASSUME Slow, mark = -1 PROVE pointer' = course[c + 2]
    <3>1. Synced /\ Done + 1 > mark
      BY <1>1, <1>3, <2>5 DEF Synced
    <3>2. made[c + 1].dx \in -128 .. 127 /\ made[c + 1].dy \in -128 .. 127
      <4>1. c + 1 \in DOMAIN made
        BY <2>1, LenProperties DEF StreamInv, UserInv
      <4> QED BY <2>5, <4>1 DEF Slow
    <3>3. pointer' = Meant(pointer, made[c + 1])
      BY <2>1, <2>2, <2>3, <3>1, <3>2, ReportedAsMeant, Zenon
    <3>4. course[(c + 1) + 1] = Meant(course[c + 1], made[c + 1]) /\ (c + 1) + 1 = c + 2
      BY <2>1 DEF StreamInv, UserInv
    <3> QED BY <2>1, <2>5, <3>3, <3>4, Zenon
  <2>6. ASSUME Synced', mark = -1 \/ Done + 1 >= From + 6 PROVE pointer'.buttons = made[c + 1].buttons
    <3>1. Synced /\ Done + 1 > mark
      BY <1>1, <1>2, <1>3, <2>6 DEF Synced
    <3> QED BY <2>1, <2>2, <2>3, <3>1, ReportedAsMeant, Zenon
  <2> QED BY <2>4, <2>5, <2>6, Zenon
<1>12. StepInv'
  <2>1. ASSUME NEW c \in Nat, NEW j \in 0 .. 2, Done + 1 = 3 * c + j
        PROVE  /\ Synced' => Len(packet') = j /\ \A i \in 1 .. j : packet'[i] = Bytes(made[c + 1])[i]
               /\ Plain /\ Done + 1 = From + 2 => Len(packet') # 1
               /\ Slow /\ mark = -1 => pointer' = course[c + 1]
               /\ c > 0 /\ Synced' /\ (mark = -1 \/ Done + 1 >= From + 6) => pointer'.buttons = made[c].buttons
    <3>1. CASE j > 0
      <4>1. PICK k \in 0 .. 1 : j = k + 1
        BY <3>1
      <4>2. Done = 3 * c + k
        BY <1>1, <2>1, <4>1
      <4> QED BY <1>10, <4>1, <4>2, Zenon
    <3>2. CASE j = 0 /\ c > 0
      <4>1. PICK k \in Nat : c = k + 1
        BY <3>2
      <4>2. Done = 3 * k + 2 /\ c + 1 = k + 2 /\ Done + 1 # From + 2
        <5>1. PICK n \in Nat : From = 3 * n
          BY <1>3
        <5>2. Done + 1 = 3 * c
          BY <2>1, <3>2
        <5>3. 3 * c # 3 * n + 2
          OBVIOUS
        <5>4. Done + 1 # From + 2
          BY <5>1, <5>2, <5>3, Zenon
        <5>5. \A d \in Int : d + 1 = 3 * (k + 1) => d = 3 * k + 2
          OBVIOUS
        <5>6. Done = 3 * k + 2
          BY <1>1, <4>1, <5>2, <5>5, Zenon
        <5>7. c + 1 = k + 2
          BY <4>1
        <5> QED BY <5>4, <5>6, <5>7, Zenon
      <4>3. \A i \in 1 .. j : FALSE
        BY <3>2
      <4> QED BY <1>11, <3>2, <4>1, <4>2, <4>3, Zenon
    <3>3. CASE j = 0 /\ c = 0
      <4>1. Done + 1 = 0
        BY <1>1, <2>1, <3>3
      <4>2. mark # -1 /\ ~(Done + 1 >= From + 3) /\ Done + 1 # From + 2 /\ ~(c > 0)
        BY <1>1, <1>3, <3>3, <4>1
      <4>3. ~Synced'
        BY <1>1, <1>2, <4>2 DEF Synced
      <4> QED BY <4>2, <4>3, Zenon
    <3>4. j > 0 \/ (j = 0 /\ c > 0) \/ (j = 0 /\ c = 0)
      OBVIOUS
    <3> QED BY <3>1, <3>2, <3>3, <3>4, Zenon
  <2> QED BY <1>1, <1>2, <2>1, Zenon DEF StepInv
<1> QED BY <1>4, <1>5, <1>12 DEF StreamInv

\* The others: the keyboard's bytes, the set-up's, and an answer are no part of the line.
LEMMA AsideStream ==
  ASSUME StreamInv, MouseInv', UNCHANGED <<rvars, decoder, user, mouse>>, InBuffer' = InBuffer,
         outgoing # <<>> \/ sent > 0 \/ reply' = "ack" => pc' \in {"ack", "loop"},
         reply' = "ack" => sent = 0
  PROVE  StreamInv'
<1>1. Line' = Line
  BY LineSame
<1> QED BY <1>1, StreamStays DEF user, mouse

LEMMA SetupStream ==
  ASSUME StreamInv, MouseInv', EnableAux \/ AskConfig \/ ReadStatus \/ WriteConfig \/ StartStream \/ ReadAck
  PROVE  StreamInv'
<1>1. /\ sent \in Nat /\ sent' = sent
      /\ pc \notin {"ack", "loop"} => outgoing = <<>> /\ ~(sent > 0) /\ reply # "ack" /\ sent = 0
      /\ reply = "ack" => sent = 0
  <2>1. sent' = sent
    BY DEF EnableAux, AskConfig, ReadStatus, WriteConfig, StartStream, ReadAck, mouse
  <2> QED BY <2>1 DEF StreamInv, SentInv
<1>2. CASE EnableAux \/ AskConfig \/ WriteConfig
  <2>1. /\ UNCHANGED <<rvars, decoder, buffer, user, mouse>> /\ pc \in {"aux", "ask", "write"}
        /\ reply' \in {reply, "config"}
    BY <1>2 DEF EnableAux, AskConfig, WriteConfig
  <2>2. InBuffer' = InBuffer
    BY <2>1 DEF InBuffer, buffer, mouse
  <2> QED BY <1>1, <2>1, <2>2, AsideStream
<1>3. CASE ReadStatus
  <2>1. UNCHANGED <<rvars, decoder, user, mouse>> /\ pc = "status" /\ reply' = reply
    BY <1>3 DEF ReadStatus
  <2>2. InBuffer' = InBuffer
    BY <1>1, <2>1 DEF InBuffer
  <2> QED BY <1>1, <2>1, <2>2, AsideStream
<1>4. CASE StartStream
  <2>1. UNCHANGED <<rvars, decoder, buffer, user, mouse>> /\ pc = "stream" /\ pc' = "ack"
    BY <1>4 DEF StartStream
  <2>2. InBuffer' = InBuffer
    BY <2>1 DEF InBuffer, buffer, mouse
  <2> QED BY <1>1, <2>1, <2>2, AsideStream
<1>5. CASE ReadAck
  <2>1. /\ UNCHANGED <<rvars, status, config, reply, decoder, user, outgoing, sent>> /\ pc' = "loop" /\ full' = FALSE
        /\ IF full /\ aux /\ sent > 0 THEN Mishap ELSE UNCHANGED mark
    BY <1>5 DEF ReadAck, Ps2Read, Emptied
  <2>2. CASE full /\ aux /\ sent > 0
    BY <2>1, <2>2, MishapStream DEF Mishap, user
  <2>3. CASE ~(full /\ aux /\ sent > 0)
    <3>1. InBuffer' = InBuffer
      BY <2>1, <2>3 DEF InBuffer
    <3>2. UNCHANGED <<rvars, decoder, user, mouse>>
      BY <2>1, <2>3 DEF mouse
    <3>3. outgoing # <<>> \/ sent > 0 \/ reply' = "ack" => pc' \in {"ack", "loop"}
      BY <2>1
    <3>4. reply' = "ack" => sent = 0
      BY <1>1, <2>1
    <3> QED BY <3>1, <3>2, <3>3, <3>4, AsideStream
  <2> QED BY <2>2, <2>3
<1> QED BY <1>2, <1>3, <1>4, <1>5

LEMMA StreamNext == StreamInv /\ [Next]_vars => StreamInv'
<1> SUFFICES ASSUME StreamInv, [Next]_vars PROVE StreamInv'
  OBVIOUS
<1>0. MouseInv'
  BY MouseNextInv DEF StreamInv
<1>1. ASSUME NEW r \in Reports, Move(r) PROVE StreamInv'
  BY <1>0, <1>1, MoveStream
<1>2. CASE Send
  BY <1>0, <1>2, SendStream
<1>3. CASE IrqMouse
  BY <1>0, <1>3, IrqMouseStream
<1>4. CASE (\E b \in KeyCodes : Stroke(b)) \/ IrqKeyboard
  <2>1. /\ UNCHANGED <<rvars, setup, decoder, made, course, mouse>>
        /\ (~full /\ ~aux') \/ (~aux /\ ~full')
    BY <1>4 DEF Stroke, IrqKeyboard, Filled, Emptied, user
  <2>2. Line' = Line
    <3>1. InBuffer' = InBuffer
      BY <2>1 DEF InBuffer
    <3> QED BY <2>1, <3>1, LineSame
  <2>3. outgoing # <<>> \/ sent > 0 \/ reply' = "ack" => pc' \in {"ack", "loop"}
    BY <2>1 DEF StreamInv, SentInv, setup
  <2>4. reply' = "ack" => sent = 0
    BY <2>1 DEF StreamInv, SentInv, setup
  <2> QED BY <1>0, <2>1, <2>2, <2>3, <2>4, StreamStays DEF mouse
<1>5. CASE Answer
  <2>1. /\ UNCHANGED <<rvars, pc, decoder, user, mouse>> /\ reply' = "none" /\ ~full
        /\ ~aux' \/ reply = "ack"
    BY <1>5 DEF Answer, Filled
  <2>2. InBuffer' = InBuffer
    <3>1. reply = "ack" => ~(sent' > 0)
      BY <2>1 DEF StreamInv, SentInv, mouse
    <3> QED BY <2>1, <3>1 DEF InBuffer
  <2>3. outgoing # <<>> \/ sent > 0 \/ reply' = "ack" => pc' \in {"ack", "loop"}
    BY <2>1 DEF StreamInv, SentInv
  <2> QED BY <1>0, <2>1, <2>2, <2>3, AsideStream
<1>6. CASE EnableAux \/ AskConfig \/ ReadStatus \/ WriteConfig \/ StartStream \/ ReadAck
  BY <1>0, <1>6, SetupStream
<1>7. CASE Process
  <2>1. UNCHANGED <<setup, buffer, user, mouse>>
    BY <1>7 DEF Process
  <2>2. CASE (See \/ Read \/ Advance) /\ UNCHANGED decoder
    BY <1>0, <2>1, <2>2, TakenStream
  <2>3. CASE Handled /\ Decode(byte)
    BY <1>0, <2>1, <2>3, HandledStream
  <2> QED BY <1>7, <2>2, <2>3 DEF Process
<1>8. CASE UNCHANGED vars
  <2>1. UNCHANGED <<rvars, setup, decoder, buffer, user, mouse>>
    BY <1>8 DEF vars
  <2>2. InBuffer' = InBuffer
    BY <2>1 DEF InBuffer, buffer, mouse
  <2>3. outgoing # <<>> \/ sent > 0 \/ reply' = "ack" => pc' \in {"ack", "loop"}
    BY <2>1 DEF StreamInv, SentInv, setup
  <2>4. reply' = "ack" => sent = 0
    BY <2>1 DEF StreamInv, SentInv, setup
  <2> QED BY <1>0, <2>1, <2>2, <2>3, <2>4, AsideStream
<1> QED BY <1>1, <1>2, <1>3, <1>4, <1>5, <1>6, <1>7, <1>8 DEF Next, Main

LEMMA StreamInit == Init => StreamInv
<1> SUFFICES ASSUME Init PROVE StreamInv
  OBVIOUS
<1>1. MouseInv
  BY MouseInitInv
<1>2. /\ made = <<>> /\ course = <<pointer>> /\ outgoing = <<>> /\ packet = <<>> /\ sent = 0 /\ mark = -1
      /\ reply = "none" /\ ~full /\ RingInit
  BY DEF Init
<1>3. pointer \in Pointers /\ Len(made) = 0 /\ Len(course) = 1 /\ course[1] = pointer /\ Len(outgoing) = 0
      /\ Len(packet) = 0
  BY <1>1, <1>2 DEF MouseInv, TypeOK, Pointers
<1>4. UserInv
  <2>1. made \in Seq(Reports) /\ course \in Seq(Pointers)
    BY <1>2, <1>3
  <2> QED BY <1>3, <2>1 DEF UserInv
<1>5. SentInv
  BY <1>2, <1>3 DEF SentInv
<1>6. Line = <<>> /\ Len(Line) = 0
  <2>1. Contents = <<>> /\ stage = "idle"
    BY <1>2, ContentsIs, EmptySpan DEF RingInit, Between
  <2>2. InHand = <<>> /\ Waiting = <<>> /\ InBuffer = <<>>
    BY <1>2, <2>1 DEF InHand, Waiting, InBuffer
  <2>3. <<>> \o <<>> = <<>>
    BY EmptySeq, ConcatEmptySeq
  <2>4. Line = <<>>
    BY <2>2, <2>3, Zenon DEF Line
  <2> QED BY <2>4
<1>7. Done = 0
  <2>1. 0 - 0 = 0
    OBVIOUS
  <2> QED BY <1>2, <1>6, <2>1, Zenon DEF Done
<1>8. LineInv
  BY <1>6, <1>7 DEF LineInv
<1>9. StepInv
  <2>1. ASSUME NEW c \in Nat, NEW j \in 0 .. 2, 0 = 3 * c + j PROVE c = 0 /\ j = 0
    BY <2>1
  <2>2. From = 0
    BY <1>2, FromBounds DEF From
  <2> QED BY <1>2, <1>3, <1>7, <2>1, <2>2 DEF StepInv, Synced
<1> QED BY <1>1, <1>4, <1>5, <1>8, <1>9 DEF StreamInv

LEMMA StreamAlways == Spec => []StreamInv
  BY StreamInit, StreamNext, PTL DEF Spec

\* When nothing is under way, all that was sent is done with.
LEMMA QuietDone ==
  ASSUME StreamInv, Quiet
  PROVE  Done = sent /\ sent = 3 * Len(made) /\ Len(made) \in Nat
<1>1. stage = "idle" /\ tail = head /\ ~full /\ outgoing = <<>>
  BY DEF Quiet
<1>2. /\ RingInv /\ sent \in Nat /\ sent + Len(outgoing) = 3 * Len(made) /\ Len(made) \in Nat
      /\ head \in Index /\ tail \in Index /\ ring \in [Index -> Byte]
  BY DEF StreamInv, SentInv, UserInv, MouseInv, RingInv, RingOK
<1>3. Contents = <<>>
  <2>1. Span(head, tail) = 0
    BY <1>1, <1>2, UsedOf, RingAssumption DEF Span, Index
  <2> QED BY <2>1, ContentsIs DEF Between
<1>4. InHand = <<>> /\ Waiting = <<>> /\ InBuffer = <<>>
  BY <1>1, <1>3 DEF InHand, Waiting, InBuffer
<1>5. <<>> \o <<>> = <<>>
  BY EmptySeq, ConcatEmptySeq
<1>6. Line = <<>>
  BY <1>4, <1>5, Zenon DEF Line
<1> QED BY <1>1, <1>2, <1>6 DEF Done

\* For every screen, ring and set of reports, and however the interrupts fall between the
\* accesses of mouse_process_bytes: until a byte is lost or an answer strays among them, the
\* pointer is always where the user has brought it at some moment, and where he brought it
\* last once the bytes are used up.
THEOREM PointerIsFaithful == Spec => []PointerFaithful
<1>1. StreamInv => PointerFaithful
  <2> SUFFICES ASSUME StreamInv, Slow, mark = -1
               PROVE  /\ \E n \in DOMAIN course : pointer = course[n]
                      /\ Quiet => pointer = course[Len(course)]
    BY DEF PointerFaithful
  <2>1. /\ Len(made) \in Nat /\ course \in Seq(Pointers) /\ Len(course) = Len(made) + 1
        /\ sent \in Nat /\ sent + Len(outgoing) = 3 * Len(made) /\ Len(outgoing) \in Nat
        /\ Len(Line) \in Nat
    BY LineType DEF StreamInv, UserInv, SentInv, MouseInv, TypeOK
  <2>2. Done \in Int /\ Done >= 0 /\ Done <= sent
    BY <2>1 DEF Done, StreamInv, LineInv
  <2>3. \A c \in Nat, j \in 0 .. 2 : Done = 3 * c + j => pointer = course[c + 1]
    BY DEF StreamInv, StepInv
  <2>4. \E n \in DOMAIN course : pointer = course[n]
    <3>1. PICK c \in Nat, j \in 0 .. 2 : Done = 3 * c + j
      <4>1. \A d \in Nat : d \div 3 \in Nat /\ d % 3 \in 0 .. 2 /\ d = 3 * (d \div 3) + (d % 3)
        BY SMT
      <4>2. Done \in Nat
        BY <2>2
      <4> QED BY <4>1, <4>2, Zenon
    <3>2. c + 1 \in 1 .. Len(course)
      BY <2>1, <2>2, <3>1
    <3>3. c + 1 \in DOMAIN course
      BY <2>1, <3>2, LenProperties
    <3> QED BY <2>3, <3>1, <3>3, Zenon
  <2>5. ASSUME Quiet PROVE pointer = course[Len(course)]
    <3>1. Done = 3 * Len(made) + 0 /\ 0 \in 0 .. 2
      BY <2>5, QuietDone, <2>1
    <3>2. pointer = course[Len(made) + 1]
      BY <2>1, <2>3, <3>1, Zenon
    <3> QED BY <2>1, <3>2, Zenon
  <2> QED BY <2>4, <2>5
<1> QED BY <1>1, StreamAlways, PTL

\* After any loss of bytes, or an answer among them, two reports put the packets in step
\* again, as long as the data have not the bit of a header.
THEOREM ResyncIsSound == Spec => []ResyncsAfterLoss
<1>1. StreamInv => ResyncsAfterLoss
  <2> SUFFICES ASSUME StreamInv, Quiet, Plain, Whole >= 2
               PROVE  packet = <<>> /\ pointer.buttons = made[Len(made)].buttons
    BY DEF ResyncsAfterLoss
  <2>1. Done = 3 * Len(made) /\ Len(made) \in Nat
    BY QuietDone
  <2>2. (mark + 2) \div 3 \in Nat
    BY FromBounds DEF StreamInv, SentInv
  <2>3. Done >= From + 6 /\ Done >= From + 3 /\ Len(made) > 0
    <3>1. PICK n \in Nat : n = (mark + 2) \div 3
      BY <2>2
    <3>2. Len(made) - n >= 2 /\ From = 3 * n
      BY <3>1 DEF Whole, From
    <3> QED BY <2>1, <3>2
  <2>4. Synced
    BY <2>3 DEF Synced
  <2>5. Len(packet) = 0 /\ pointer.buttons = made[Len(made)].buttons
    <3>1. Done = 3 * Len(made) + 0 /\ 0 \in 0 .. 2
      BY <2>1
    <3> QED BY <2>1, <2>3, <2>4, <3>1 DEF StreamInv, StepInv
  <2>6. packet \in Seq(Byte)
    BY DEF StreamInv, MouseInv, TypeOK
  <2> QED BY <2>5, <2>6, EmptySeq
<1> QED BY <1>1, StreamAlways, PTL

=============================================================================
