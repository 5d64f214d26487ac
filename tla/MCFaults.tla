----------------------------- MODULE MCFaults ------------------------------
(* The faulty volume, with room in the driver's bounds for everything it   *)
(* does, or with tight bounds that a directory of two clusters exceeds,    *)
(* and without an FSInfo sector.                                           *)
EXTENDS MCFat32

CONSTANTS TightScan, TightFree
VARIABLE tight

Tight == INSTANCE Fat32 WITH DirScanMax <- TightScan, FreeStepMax <- TightFree, FsInfo <- 0

Same == UNCHANGED tight

(* The steps of Fat32; those that look at a bound look at the one chosen.  *)
EitherInit == Init /\ tight \in BOOLEAN
EitherNext ==
  \/ Same /\ Call
  \/ Same /\ Crash
  \/ Same /\ (IF tight THEN Tight!Mount ELSE Mount)
  \/ Same /\ (IF tight THEN Tight!FindScan ELSE FindScan)
  \/ Same /\ (IF tight THEN Tight!FindOver ELSE FindOver)
  \/ Same /\ DataDone
  \/ Same /\ WriteMore
  \/ Same /\ CopyMore
  \/ Same /\ WritePayload
  \/ Same /\ WriteDots
  \/ Same /\ SetFatCopy
  \/ Same /\ SetFatStray
  \/ Same /\ Alloc
  \/ Same /\ Alloced
  \/ Same /\ Linked
  \/ Same /\ (IF tight THEN Tight!SlotScan ELSE SlotScan)
  \/ Same /\ (IF tight THEN Tight!SlotOver ELSE SlotOver)
  \/ Same /\ WriteZeroes
  \/ Same /\ WriteEntry
  \/ Same /\ (IF tight THEN Tight!EmptyScan ELSE EmptyScan)
  \/ Same /\ (IF tight THEN Tight!EmptyOver ELSE EmptyOver)
  \/ Same /\ (IF tight THEN Tight!FreeStep ELSE FreeStep)
  \/ Same /\ (IF tight THEN Tight!FreeStray ELSE FreeStray)
  \/ Same /\ (IF tight THEN Tight!FreeOver ELSE FreeOver)
  \/ Same /\ Freed
  \/ Same /\ MarkDeleted
Either == EitherInit /\ [][EitherNext]_<<vars, tight>>
=============================================================================
