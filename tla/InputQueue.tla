----------------------------- MODULE InputQueue -----------------------------
(***************************************************************************)
(* What an interrupt handler and the main loop expect of the buffer that   *)
(* carries bytes from the one to the other: a FIFO queue of bounded length *)
(* that turns a byte away only when it is full or being cleared.           *)
(***************************************************************************)
EXTENDS Naturals, Sequences

CONSTANTS
  Byte,       \* what the device sends
  Capacity    \* bytes the queue can hold

VARIABLES
  queue,      \* the bytes that wait
  byte,       \* the byte the main loop looked at last
  looking,    \* whether it still has to remove that byte
  open,       \* FALSE while the queue is being cleared
  arrived,    \* how many bytes the device sent
  missed      \* how many of them the main loop will never see

qvars == <<queue, byte, looking, open, arrived, missed>>

Init ==
  /\ queue = <<>> /\ byte \in Byte /\ looking = FALSE /\ open = TRUE
  /\ arrived = 0 /\ missed = 0

Put(b) ==
  /\ open /\ Len(queue) < Capacity
  /\ queue' = Append(queue, b) /\ arrived' = arrived + 1
  /\ UNCHANGED <<byte, looking, open, missed>>

TurnAway ==
  /\ ~open \/ Len(queue) = Capacity
  /\ arrived' = arrived + 1 /\ missed' = missed + 1
  /\ UNCHANGED <<queue, byte, looking, open>>

Look ==
  /\ open /\ ~looking /\ queue # <<>>
  /\ byte' = Head(queue) /\ looking' = TRUE
  /\ UNCHANGED <<queue, open, arrived, missed>>

Remove ==
  /\ looking /\ queue # <<>> /\ byte = Head(queue)
  /\ queue' = Tail(queue) /\ looking' = FALSE
  /\ UNCHANGED <<byte, open, arrived, missed>>

Clear ==
  /\ open /\ ~looking
  /\ missed' = missed + Len(queue) /\ queue' = <<>> /\ open' = FALSE
  /\ UNCHANGED <<byte, looking, arrived>>

Reopen ==
  /\ ~open /\ open' = TRUE
  /\ UNCHANGED <<queue, byte, looking, arrived, missed>>

Next == (\E b \in Byte : Put(b)) \/ TurnAway \/ Look \/ Remove \/ Clear \/ Reopen

Spec == Init /\ [][Next]_qvars
=============================================================================
