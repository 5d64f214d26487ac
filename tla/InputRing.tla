----------------------------- MODULE InputRing ------------------------------
(***************************************************************************)
(* The ring between an interrupt handler and the main loop, of which       *)
(* kernel/keyboard.c (irq_raw) and kernel/mouse.c (mouse_buf) each have    *)
(* one.  The handler runs with interrupts off, in one step; the main loop  *)
(* can be interrupted between any two of its accesses to the ring.         *)
(***************************************************************************)
EXTENDS Integers, Sequences

CONSTANTS
  Byte,     \* what the device sends
  Size      \* IRQ_RAW_SZ, MOUSE_BUF

ASSUME RingAssumption == Size \in Nat \ {0} /\ Byte # {}

VARIABLES
  ring, head, tail,   \* the bytes; where the handler stores, where the main loop reads
  stage,              \* where the main loop is
  byte,               \* its local variable: the byte it took
  arrived, missed     \* ghosts: bytes the device sent, and those the main loop never sees

rvars == <<ring, head, tail, stage, byte, arrived, missed>>

Index   == 0 .. Size - 1
Succ(i) == (i + 1) % Size
Used    == (head + Size - tail) % Size
Stages  == {"idle", "seen", "read", "got", "reset"}

(* The rings are static, so all their bytes are alike at first; nobody reads them. *)
Zero == CHOOSE b \in Byte : TRUE

RingInit ==
  /\ ring = [i \in Index |-> Zero] /\ byte = Zero
  /\ head = 0 /\ tail = 0 /\ stage = "idle"
  /\ arrived = 0 /\ missed = 0

(* The handler.  What it stores while the indices are being reset is never read. *)
Stored(b) == ring' = [ring EXCEPT ![head] = b] /\ head' = Succ(head)

\* Mutant: the handler does not look for the reader.
PutBlindly(b) ==
  /\ Stored(b) /\ arrived' = arrived + 1
  /\ missed' = IF stage = "reset" THEN missed + 1 ELSE missed
  /\ UNCHANGED <<tail, stage, byte>>

Put(b) ==
  /\ IF Succ(head) # tail THEN Stored(b) ELSE UNCHANGED <<ring, head>>
  /\ arrived' = arrived + 1
  /\ missed' = IF stage = "reset" \/ Succ(head) = tail THEN missed + 1 ELSE missed
  /\ UNCHANGED <<tail, stage, byte>>

(* The main loop: while (tail != head) { byte = ring[tail]; tail = next; handle byte }. *)
See ==
  /\ stage = "idle" /\ tail # head
  /\ stage' = "seen" /\ UNCHANGED <<ring, head, tail, byte, arrived, missed>>

\* Mutant: the slot is given back before it is read.
ReadLate ==
  /\ stage = "seen"
  /\ stage' = "read" /\ UNCHANGED <<ring, head, tail, byte, arrived, missed>>

Read ==
  /\ stage = "seen"
  /\ byte' = ring[tail] /\ stage' = "read"
  /\ UNCHANGED <<ring, head, tail, arrived, missed>>

Advance ==
  /\ stage = "read"
  /\ tail' = Succ(tail) /\ stage' = "got"
  /\ UNCHANGED <<ring, head, byte, arrived, missed>>

Handled ==
  /\ stage = "got"
  /\ stage' = "idle" /\ UNCHANGED <<ring, head, tail, byte, arrived, missed>>

(* head = tail = 0, with interrupts on: C assigns the right-hand variable first. *)
ResetTail ==
  /\ stage = "idle"
  /\ tail' = 0 /\ stage' = "reset" /\ missed' = missed + Used
  /\ UNCHANGED <<ring, head, byte, arrived>>

ResetHead ==
  /\ stage = "reset"
  /\ head' = 0 /\ stage' = "idle"
  /\ UNCHANGED <<ring, tail, byte, arrived, missed>>

RingNext ==
  \/ \E b \in Byte : Put(b)
  \/ See \/ Read \/ Advance \/ Handled \/ ResetTail \/ ResetHead

RingSpec == RingInit /\ [][RingNext]_rvars

----------------------------------------------------------------------------
(* The refinement mapping: the queue is what lies between the two indices. *)

Contents == [i \in 1 .. Used |-> ring[(tail + i - 1) % Size]]

Queue == INSTANCE InputQueue WITH
           Capacity <- Size - 1, looking <- (stage = "read"), open <- (stage # "reset"),
           queue <- IF stage = "reset" THEN <<>> ELSE Contents

RingOK ==
  /\ ring \in [Index -> Byte] /\ head \in Index /\ tail \in Index
  /\ stage \in Stages /\ byte \in Byte /\ arrived \in Nat /\ missed \in Nat

\* The main loop gets the bytes the interrupt handler stored, each once and in order, and
\* a byte is turned away only when the ring is full or being reset: whatever the moment of
\* an interrupt, irq_raw and mouse_buf are bounded FIFO queues.
ImplementsQueue == Queue!Spec
=============================================================================
