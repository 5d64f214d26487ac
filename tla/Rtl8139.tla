------------------------------ MODULE Rtl8139 ------------------------------
(***************************************************************************)
(* The network card's driver, kernel/rtl8139.c, with the card it drives.   *)
(* The card writes each frame into a ring shared with the driver: a header *)
(* of Align cells (status, length), the data, a checksum of Align cells,   *)
(* and padding up to the next multiple of Align.  What a cell of data      *)
(* would say if it were read as a header is left open.                     *)
(***************************************************************************)
EXTENDS Integers, Sequences

CONSTANTS
  Ring,                \* cells of the ring, a multiple of Align; 64 K in the code
  Align, Lag,          \* 4 and 16 in the code
  Lengths,             \* lengths of the data of a frame
  MinRaw, MaxRaw,      \* 18 and 1518: the lengths the driver accepts, checksum included
  MaxFrames, MaxSends  \* bounds on the frames that arrive (and are handed on) and that are sent

VARIABLES
  ring,                \* rx_ring: per cell what was written there last
  rxOffset,            \* rx_offset, where the driver reads; the card is told this place
  cbr,                 \* the card's write pointer
  accepted, delivered, \* frames the card wrote, frames recv handed on (ghosts)
  misled,              \* ghost: an empty ring where once was written, or a frame too long, was read
  txBuf, txSlot,       \* tx_buf and tx_slot; 0 in txBuf: nothing yet
  sending,             \* rtl8139_send waits for the card
  own, cardSlot,       \* the slots handed to the card, and the one it sends next
  submitted, wire,     \* frames passed to send, frames on the wire (ghosts)
  late                 \* ghost: send has given up waiting for one

rx   == <<ring, rxOffset, cbr, accepted, delivered, misled>>
tx   == <<txBuf, txSlot, sending, own, cardSlot, submitted, wire, late>>
vars == <<rx, tx>>

Slots == 0 .. 3
Unwritten == [kind |-> "zero"]
Header(n, len) == [kind |-> "head", frame |-> n, raw |-> len + Align]
Datum(n, i)   == [kind |-> "data", frame |-> n, at |-> i]
RoundUp(n)    == ((n + Align - 1) \div Align) * Align
At(p)         == p % Ring

(* Mutant: the next header is looked for right behind the data. *)
AdvanceUnrounded(raw) == raw + Align
(* What a frame of this raw length takes in the ring, header included. *)
Advance(raw) == RoundUp(raw + Align)

Init ==    \* rtl8139_init
  /\ ring = [p \in 0 .. Ring - 1 |-> Unwritten] /\ rxOffset = 0 /\ cbr = 0
  /\ accepted = <<>> /\ delivered = <<>> /\ misled = FALSE
  /\ txBuf = 0 /\ txSlot = 0 /\ sending = FALSE /\ own = {} /\ cardSlot = 0
  /\ submitted = <<>> /\ wire = <<>> /\ late = FALSE

----------------------------------------------------------------------------
(* The card (external): it drops a frame for which there is no room.       *)
Room(raw) == LET free == (rxOffset - cbr) % Ring IN free = 0 \/ RoundUp(raw + Align) < free
FrameOf(n, len) == [i \in 1 .. len |-> Datum(n, i)]
Arrive(len) ==
  /\ Len(accepted) < MaxFrames /\ Room(len + Align)
  /\ LET n == Len(accepted) + 1
         Cell(k) == IF k = 0 THEN Header(n, len)
                    ELSE IF k < Align \/ k >= Align + len THEN [kind |-> "rest"] ELSE Datum(n, k - Align + 1)
     IN /\ ring' = [p \in DOMAIN ring |-> LET k == (p - cbr) % Ring
                                          IN IF k < RoundUp(len + 2 * Align) THEN Cell(k) ELSE ring[p]]
        /\ accepted' = Append(accepted, FrameOf(n, len))
  /\ cbr' = At(cbr + RoundUp(len + 2 * Align))
  /\ UNCHANGED <<rxOffset, delivered, misled, tx>>

(* rtl8139_recv.  Its test for an empty ring compares the card's pointer   *)
(* with a place Align cells before the one the card counts from (16 bytes  *)
(* in the code): it is the status, zero where nothing was written, that    *)
(* says there is no frame.                                                 *)
Readings(c) ==      \* the headers the cell may be read as: status bit and raw length
  CASE c.kind = "head" -> {[ok |-> TRUE, raw |-> c.raw]}
    [] c.kind = "zero" -> {[ok |-> FALSE, raw |-> 0]}
    [] OTHER           -> {[ok |-> FALSE, raw |-> 0], [ok |-> TRUE, raw |-> 0], [ok |-> TRUE, raw |-> MinRaw]}
ToldEmpty == cbr = At(rxOffset - Lag)
Copied(raw) == [i \in 1 .. raw - Align |-> ring[At(rxOffset + Align + i - 1)]]
Recv ==
  LET cell == ring[rxOffset]
  IN /\ ~sending /\ ~ToldEmpty /\ Len(delivered) <= MaxFrames
     /\ \E h \in Readings(cell) :
          /\ misled' = (misled \/ (cbr = rxOffset /\ cell.kind # "zero") \/ (h.ok /\ h.raw > MaxRaw))
          /\ \/ ~h.ok /\ UNCHANGED <<rxOffset, delivered>>
             \/ /\ h.ok /\ (h.raw < MinRaw \/ h.raw > MaxRaw)
                /\ rxOffset' = At(rxOffset + Align) /\ UNCHANGED delivered
             \/ /\ h.ok /\ h.raw >= MinRaw /\ h.raw <= MaxRaw
                /\ rxOffset' = At(rxOffset + Advance(h.raw))
                /\ delivered' = Append(delivered, Copied(h.raw))
     /\ UNCHANGED <<ring, cbr, accepted, tx>>

----------------------------------------------------------------------------
(* rtl8139_send copies the frame into the one buffer all slots share,      *)
(* hands a slot to the card, and waits for it or for 500 ticks.  The card  *)
(* sends the slots in turn, from the buffer as it is then.                 *)
Send ==
  /\ ~sending /\ Len(submitted) < MaxSends
  /\ txBuf' = Len(submitted) + 1 /\ submitted' = Append(submitted, Len(submitted) + 1)
  /\ own' = own \cup {txSlot} /\ sending' = TRUE
  /\ UNCHANGED <<txSlot, cardSlot, wire, late, rx>>
CardSends ==
  /\ cardSlot \in own
  /\ wire' = Append(wire, txBuf) /\ own' = own \ {cardSlot} /\ cardSlot' = (cardSlot + 1) % 4
  /\ UNCHANGED <<txBuf, txSlot, sending, submitted, late, rx>>
(* Mutant: the slot stays the first one, as if the card did not take turns. *)
StaySlot(s) == s
NextSlot(s) == (s + 1) % 4
Sent ==
  /\ sending /\ txSlot \notin own
  /\ sending' = FALSE /\ txSlot' = NextSlot(txSlot)
  /\ UNCHANGED <<txBuf, own, cardSlot, submitted, wire, late, rx>>
TimeOut ==
  /\ sending /\ txSlot \in own
  /\ sending' = FALSE /\ late' = TRUE
  /\ UNCHANGED <<txBuf, txSlot, own, cardSlot, submitted, wire, rx>>

Next == (\E len \in Lengths : Arrive(len)) \/ Recv \/ Send \/ CardSends \/ Sent \/ TimeOut
Spec == Init /\ [][Next]_vars
----------------------------------------------------------------------------
TypeOK ==
  /\ rxOffset \in 0 .. Ring - 1 /\ cbr \in 0 .. Ring - 1 /\ rxOffset % Align = 0
  /\ txSlot \in Slots /\ cardSlot \in Slots /\ own \subseteq Slots

(* FramesWhole: the driver hands on the card's frames, whole, each once    *)
(* and in order, also where a frame goes round the end of the ring, and    *)
(* after the last one looks where the card writes the next, until          *)
(* it reads an empty ring at a place that was written before (the old      *)
(* cells are taken for a frame) or meets a frame it thinks too long (whose *)
(* data are).  rtl8139_recv.                                               *)
FramesWhole ==
  ~misled => /\ Len(delivered) <= Len(accepted)
             /\ \A i \in DOMAIN delivered : delivered[i] = accepted[i]
             /\ Len(delivered) = Len(accepted) => rxOffset = cbr
(* SentInOrder: until send has once given up, the card sends every frame   *)
(* once, unmixed and in order, and waits for the slot the driver uses      *)
(* next, so that no send can wait in vain.  rtl8139_send.                  *)
SentInOrder ==
  ~late => /\ \A i \in DOMAIN wire : wire[i] = submitted[i]
           /\ ~sending => wire = submitted /\ txSlot = cardSlot
           /\ sending /\ txSlot \in own => txSlot = cardSlot
=============================================================================
