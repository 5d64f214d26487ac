-------------------------------- MODULE Ata --------------------------------
(***************************************************************************)
(* The disk driver, kernel/ata.c, on a bus with one drive or two.  Each    *)
(* access moves one sector, the only kind the file system asks for; it     *)
(* tries the master drive and, where that does not answer, the slave.  A   *)
(* poll that ran out is one that saw the drive not ready in 100000 reads   *)
(* of the status: it may run out whenever the drive is not ready.          *)
(***************************************************************************)
EXTENDS Integers

CONSTANTS
  Sectors, Data,       \* Data includes 0, what the sectors hold at first
  MaxAccesses,         \* bound on reads and writes
  MaxCuts              \* bound on power cuts

VARIABLES
  present,             \* the drives on the bus
  cache, medium,       \* per drive and sector what the drive returns, and what outlives a power cut
  drive,               \* per drive: "ready", "busy", "asking" (DRQ) or "error" (ERR, DF); its command
  access,              \* the access under way and which poll it is at; whether all polls went well
  answer,              \* of the last access: whether it succeeded, what it read, from which drive
  accesses, cuts,
  may,                 \* ghost: per drive and sector what the writes that it answered leave there
  doubt,               \* ghost: per drive the sectors whose last write was a success that it did not report
  abandoned            \* ghost: a drive was given up on while it worked on a command

vars   == <<present, cache, medium, drive, access, answer, accesses, cuts, may, doubt, abandoned>>
disks  == <<present, cache, medium>>
ghosts == <<may, doubt, abandoned>>
bounds == <<accesses, cuts>>

Drives == {"master", "slave"}
None   == [kind |-> "none", sector |-> 0, data |-> 0, drive |-> "master", at |-> "idle", heard |-> TRUE]
Fail   == [ok |-> FALSE, sector |-> 0, data |-> 0, drive |-> "master"]
Rest   == [is |-> "ready", does |-> "none", sector |-> 0, data |-> 0]
Init ==
  /\ present \in {{"master"}, Drives}
  /\ cache = [d \in Drives |-> [s \in Sectors |-> 0]] /\ medium = cache
  /\ drive = [d \in Drives |-> Rest]
  /\ access = None /\ answer = Fail /\ accesses = 0 /\ cuts = 0
  /\ may = [d \in Drives |-> [s \in Sectors |-> {0}]]
  /\ doubt = [d \in Drives |-> {}] /\ abandoned = FALSE

(* Which of two commands a drive obeys that got the second while it worked *)
(* on the first is up to the drive: nothing is claimed from there on.      *)
Begin(kind, s, v) ==
  /\ access = None /\ accesses < MaxAccesses /\ ~abandoned
  /\ access' = [None EXCEPT !.kind = kind, !.sector = s, !.data = v, !.at = "ready"]
  /\ answer' = Fail /\ accesses' = accesses + 1
  /\ UNCHANGED <<disks, drive, cuts, ghosts>>
ReadSectors(s)     == Begin("read", s, 0)
WriteSectors(s, v) == Begin("write", s, v)

Selected == access.drive
Busy(d)  == drive[d].is = "busy"
Order(d, does) == [drive EXCEPT ![d] = [is |-> "busy", does |-> does, sector |-> access.sector, data |-> access.data]]

(* The selected drive is ready: it gets the command. *)
Command ==
  /\ access.at = "ready" /\ Selected \in present /\ ~Busy(Selected)
  /\ drive' = Order(Selected, access.kind) /\ access' = [access EXCEPT !.at = "drq"]
  /\ UNCHANGED <<disks, answer, bounds, ghosts>>
(* It does not get ready, does not ask for the data or reports an error.   *)
NotAnswering ==
  /\ \/ access.at = "ready" /\ (Selected \notin present \/ Busy(Selected)) /\ UNCHANGED abandoned
     \/ access.at = "drq" /\ drive[Selected].is # "asking" /\ abandoned' = (abandoned \/ Busy(Selected))
  /\ IF Selected = "master" THEN access' = [access EXCEPT !.drive = "slave", !.at = "ready"] /\ UNCHANGED answer
     ELSE access' = None /\ answer' = Fail
  /\ UNCHANGED <<disks, drive, bounds, may, doubt>>
Asking(kind) == access.at = "drq" /\ access.kind = kind /\ drive[Selected].is = "asking"
(* The sector goes through the data port. *)
ReadAnswered ==
  /\ Asking("read")
  /\ answer' = [ok |-> TRUE, sector |-> access.sector, data |-> cache[Selected][access.sector], drive |-> Selected]
  /\ drive' = [drive EXCEPT ![Selected] = Rest] /\ access' = None
  /\ UNCHANGED <<disks, bounds, ghosts>>
DataOut ==
  /\ Asking("write")
  /\ drive' = Order(Selected, "store") /\ access' = [access EXCEPT !.at = "stored"]
  /\ may' = [may EXCEPT ![Selected][access.sector] = @ \cup {access.data}]
  /\ UNCHANGED <<disks, answer, bounds, doubt, abandoned>>
(* The poll after the data and the one after the flush end when the drive  *)
(* is ready, has reported an error or was waited for in vain, and which of *)
(* these it was is not looked at.  A drive still busy drops the flush.     *)
Heard == drive[Selected].is = "ready"
\* Mutant: no flush, the write is over when the drive has the data.
FlushNot ==
  /\ access.at = "stored"
  /\ access' = [access EXCEPT !.at = "flushed", !.heard = Heard]
  /\ UNCHANGED <<disks, drive, answer, bounds, ghosts>>
Flush ==
  /\ access.at = "stored"
  /\ drive' = IF Busy(Selected) THEN drive ELSE Order(Selected, "flush")
  /\ access' = [access EXCEPT !.at = "flushed", !.heard = Heard]
  /\ UNCHANGED <<disks, answer, bounds, ghosts>>
WriteAnswered ==
  /\ access.at = "flushed"
  /\ answer' = [ok |-> TRUE, sector |-> access.sector, data |-> access.data, drive |-> Selected]
  /\ may' = [may EXCEPT ![Selected][access.sector] = {access.data}]
  /\ doubt' = [doubt EXCEPT ![Selected] = IF access.heard /\ Heard THEN @ \ {access.sector} ELSE @ \cup {access.sector}]
  /\ access' = None
  /\ UNCHANGED <<disks, drive, bounds, abandoned>>

----------------------------------------------------------------------------
(* What a drive does by itself (external). *)
Becomes(d, is) == drive' = [drive EXCEPT ![d] = [Rest EXCEPT !.is = is]]
DriveFails(d) ==
  /\ Busy(d) /\ Becomes(d, "error")
  /\ UNCHANGED <<disks, access, answer, bounds, ghosts>>
DriveWorks(d) ==
  /\ Busy(d)
  /\ Becomes(d, IF drive[d].does \in {"read", "write"} THEN "asking" ELSE "ready")
  /\ cache' = IF drive[d].does = "store" THEN [cache EXCEPT ![d][drive[d].sector] = drive[d].data] ELSE cache
  /\ medium' = IF drive[d].does = "flush" THEN [medium EXCEPT ![d] = cache[d]] ELSE medium
  /\ UNCHANGED <<present, access, answer, bounds, ghosts>>
(* It may write a sector of its cache to the medium at any time. *)
DriveSaves(d) ==
  /\ d \in present /\ \E s \in Sectors : medium' = [medium EXCEPT ![d][s] = cache[d][s]]
  /\ UNCHANGED <<present, cache, drive, access, answer, bounds, ghosts>>
(* A restart loses the caches and what the driver was doing. *)
PowerCut ==
  /\ cuts < MaxCuts /\ cuts' = cuts + 1
  /\ cache' = medium /\ drive' = [d \in Drives |-> Rest] /\ access' = None /\ answer' = Fail /\ abandoned' = FALSE
  /\ UNCHANGED <<present, medium, accesses, may, doubt>>
(* ata_init, before a volume is mounted: the reset ends every command.     *)
AtaInit ==
  /\ access = None
  /\ drive' = [d \in Drives |-> Rest] /\ abandoned' = FALSE
  /\ UNCHANGED <<disks, access, answer, bounds, may, doubt>>

Next ==
  \/ \E s \in Sectors : ReadSectors(s) \/ \E v \in Data : WriteSectors(s, v)
  \/ Command \/ NotAnswering \/ ReadAnswered \/ DataOut \/ Flush \/ WriteAnswered
  \/ (\E d \in Drives : DriveFails(d) \/ DriveWorks(d) \/ DriveSaves(d)) \/ PowerCut \/ AtaInit
Spec == Init /\ [][Next]_vars
----------------------------------------------------------------------------
TypeOK ==
  /\ access.drive \in Drives /\ access.at \in {"idle", "ready", "drq", "stored", "flushed"}
  /\ cache \in [Drives -> [Sectors -> Data]] /\ medium \in [Drives -> [Sectors -> Data]]

(* WrittenSurvives: a read that succeeds returns what the last successful  *)
(* write of the sector to that drive wrote, or what a later write of it    *)
(* would have that the power cut short, whatever restarts, resets and      *)
(* failed accesses lie in between; but for a sector whose last write the   *)
(* driver reported as done while the drive had not reported it done.       *)
(* ata_write_sectors' order of data, wait, flush and wait.                 *)
WrittenSurvives ==
  answer.ok /\ answer.sector \notin doubt[answer.drive] => answer.data \in may[answer.drive][answer.sector]
=============================================================================
