------------------------------- MODULE Fat32 -------------------------------
(***************************************************************************)
(* The FAT32 driver of kernel/fat32.c, write by write.  The kernel calls   *)
(* one operation at a time, but a power cut or a failing sector can fall   *)
(* between any two of its disk writes, so every action below performs at   *)
(* most one write (one FAT copy of one entry, or one cluster).             *)
(*                                                                         *)
(* Abstractions.  File sizes are counted in clusters; a cluster is one     *)
(* unit of I/O; a cluster of file data holds one value of Data; a          *)
(* directory cluster holds SlotsPerCluster entries; 8.3 names are model    *)
(* values that have already been parsed.  Cluster numbers are the code's.  *)
(***************************************************************************)
EXTENDS Naturals, FiniteSets

CONSTANTS
  NumClusters,      \* fat32_ctx.total_clusters
  SlotsPerCluster,  \* directory entries in one cluster
  NumFats,          \* bpb.num_fats
  Names,            \* 8.3 names
  Data,             \* what one cluster of a file can hold
  MaxLen,           \* longest file written, in clusters
  DirScanMax,       \* the directory scans' bound: 64 in the code
  FreeStepMax,      \* fat32_free_chain's bound: 4096 in the code
  FsInfo,           \* the free count in the FSInfo sector, 0 where there is none or it is not valid
  CountMax,         \* 0xFFFFFFFF, where free_clusters stops
  Calls,            \* the operations a run exercises, a subset of Kinds
  MaxFaults,        \* bound on the faults: failing sector accesses and power cuts
  Junk, NoName      \* model values: bytes that mean nothing, no name at all

ASSUME VolumeAssumption ==
  /\ NumClusters \in Nat \ {0} /\ SlotsPerCluster \in Nat /\ SlotsPerCluster >= 2
  /\ NumFats \in Nat \ {0} /\ MaxLen \in Nat
  /\ DirScanMax \in Nat \ {0} /\ FreeStepMax \in Nat \ {0}
  /\ FsInfo \in Nat /\ CountMax \in Nat /\ FsInfo + NumClusters <= CountMax
  /\ MaxFaults \in Nat
ASSUME NamesAssumption ==
  /\ NoName \notin Names /\ Junk \notin Names \cup Data /\ NoName \notin Data

Cluster == 2 .. NumClusters + 1
Root    == 2                    \* bpb.root_cluster
FREE    == 0                    \* FAT32_CLUSTER_FREE
BAD     == NumClusters + 2      \* FAT32_CLUSTER_BAD, what a failed FAT read yields
END     == NumClusters + 3      \* FAT32_CLUSTER_END and every end-of-chain mark
Copy    == 1 .. NumFats
Slot    == 1 .. SlotsPerCluster
Link    == {FREE, END} \cup Cluster        \* what a FAT entry holds
Number  == Link \cup {BAD}                 \* what a cluster variable holds

(***************************************************************************)
(* A directory entry.  "unused" is a first byte of 0x00, "deleted" one of  *)
(* 0xE5, "dot" the two entries that fat32_mkdir_in_dir writes; file data   *)
(* read as a directory is "bytes".                                         *)
(***************************************************************************)
Live  == {"file", "dir"}
Entry == [kind : Live, name : Names \cup {NoName}, first : {0} \cup Cluster, len : 0 .. MaxLen]
         \cup [kind : {"unused", "deleted", "dot"}, name : {NoName}, first : {0}, len : {0}]
         \cup [kind : {"bytes"}, name : Data \cup {Junk}, first : {0}, len : {0}]

Blank(k)   == [kind |-> k, name |-> NoName, first |-> 0, len |-> 0]
Zeroed     == [i \in Slot |-> Blank("unused")]
Dots       == [i \in Slot |-> Blank(IF i <= 2 THEN "dot" ELSE "unused")]
Payload(d) == [i \in Slot |-> [Blank("bytes") EXCEPT !.name = d]]

VARIABLES
  fat,            \* fat[i][c]: entry c of copy i; the driver reads copy 1
  disk,           \* disk[c]: what cluster c of the data area holds
  free_clusters,  \* fat32_ctx.free_clusters
  pc,             \* where the driver is
  o,              \* the operation's arguments and local variables
  wr,             \* the fat32_set_fat_entry call in progress and where it returns
  ret,            \* what the last operation returned
  errs, crashes,  \* failed sector accesses and power cuts so far
  base,           \* ghost: errs, free_clusters and the number of free entries at the mount
  mishap,         \* ghost: the unsafe windows in which an operation was cut short
  torn,           \* ghost: clusters whose FAT copies an interrupted write left apart
  lost            \* ghost: orphans left behind by operations that failed or were cut

vars == <<fat, disk, free_clusters, pc, o, wr, ret, errs, crashes, base, mishap, torn, lost>>
media == <<fat, disk>>
ghosts == <<base, mishap, torn, lost>>

Kinds    == {"mkdir", "write", "copy", "unlink", "rmdir"}
Removals == {"unlink", "rmdir"}
Resume   == {"alloced", "linked", "payload", "extlinked", "zero", "freed"}
Steps    == {"idle", "off", "find", "data", "alloc", "setfat", "dots", "slot", "entry",
             "empty", "free", "mark"} \cup Resume
Answers  == {"none", "ok", "exists", "absent", "kind", "notempty", "short", "nospace", "io"}
Hurts    == {"dangling", "garbage", "stray", "overlong"}

NoFrame == [kind |-> "none", dir |-> 0, name |-> NoName, tdir |-> 0, tname |-> NoName,
            len |-> 0, left |-> 0, buf |-> Junk, cl |-> 0, steps |-> 0,
            at |-> 0, index |-> 1, victim |-> 0, want |-> "none",
            first |-> 0, prev |-> 0, new |-> 0, src |-> 0, next |-> 0]
NoWrite == [cl |-> 0, val |-> 0, i |-> 1, then |-> "none"]

----------------------------------------------------------------------------
(* What is on the disk. *)

LiveSlots == {p \in Cluster \X Slot : disk[p[1]][p[2]].kind \in Live}
EntryAt(p) == disk[p[1]][p[2]]
LiveDirs  == {Root} \cup {EntryAt(p).first : p \in {q \in LiveSlots : EntryAt(q).kind = "dir"}}

\* A pointer is a FAT link or a live entry's first cluster; Target says where it leads.
FatLinks   == {c \in Cluster : fat[1][c] \in Cluster}
HeadSlots  == {p \in LiveSlots : EntryAt(p).first # 0}
Targets    == {fat[1][c] : c \in FatLinks} \cup {EntryAt(p).first : p \in HeadSlots}
Allocated  == {c \in Cluster : fat[1][c] # FREE}
Orphans    == Allocated \ (Targets \cup {Root})

NextOf(c)    == fat[1][c]               \* fat32_get_next_cluster, when the read succeeds
FreeOnes     == {c \in Cluster : fat[1][c] = FREE}
InChain(c)   == c >= 2 /\ c < END       \* the while condition of every chain walk

IOError == errs + crashes < MaxFaults /\ errs' = errs + 1
IOFine  == UNCHANGED errs

(* The value fat32_get_next_cluster returns for c, BAD when the FAT read fails. *)
GetNext(c, n) ==
  \/ IOFine  /\ c \in Cluster /\ n = NextOf(c)
  \/ IOFine  /\ c = BAD /\ n = BAD
  \/ IOError /\ c \in Cluster /\ n = BAD

\* The first n steps of a chain walk from c on; at the end of the chain it stays at END.
Trail(c, n) ==
  LET at[k \in 0 .. n] ==
        IF k = 0 THEN c ELSE IF InChain(at[k - 1]) THEN NextOf(at[k - 1]) ELSE END
  IN  at

\* The scans of entries and of the FAT take the lowest number that will do.
Least(n, S) == n \in S /\ \A m \in S : n <= m

----------------------------------------------------------------------------
(* Control: going on, returning, and calling fat32_set_fat_entry. *)

Goto(p, f) == pc' = p /\ o' = f /\ wr' = NoWrite /\ UNCHANGED <<ret, lost>>

(* The operation ends with answer r; its orphans are charged to a failure only. *)
Return(r) ==
  /\ pc' = "idle" /\ o' = NoFrame /\ wr' = NoWrite /\ ret' = r
  /\ lost' = IF r = "ok" THEN lost ELSE Orphans'

SetFat(f, c, v, k) ==
  /\ pc' = "setfat" /\ o' = f
  /\ wr' = [cl |-> c, val |-> v, i |-> 1, then |-> k]
  /\ UNCHANGED <<ret, lost>>

(* The windows in which stopping is not safe: a removal has freed clusters of an entry *)
(* it has not marked yet; a directory has grown by a cluster that is not zeroed yet.   *)
FreeWindow ==
  o.kind \in Removals /\ o.steps > 0 /\ pc \in {"setfat", "freed", "free", "mark"}
LinkWindow ==
  \/ pc = "setfat" /\ wr.then \in {"extlinked", "zero"}
  \/ pc \in {"extlinked", "zero"}

Harm == (IF FreeWindow THEN {"dangling"} ELSE {}) \cup (IF LinkWindow THEN {"garbage"} ELSE {})

(* An I/O error makes the operation return r where it stands. *)
Abort(r) == Return(r) /\ mishap' = mishap \cup Harm

Still == UNCHANGED <<fat, disk, free_clusters, crashes, base, torn>>
Calm  == UNCHANGED mishap
Hurt(h) == mishap' = mishap \cup h

----------------------------------------------------------------------------
(* The operations, as the rest of the kernel calls them. *)

Frame(k, d, n) == [NoFrame EXCEPT !.kind = k, !.dir = d, !.name = n, !.tdir = d,
                                  !.tname = n, !.cl = d]

\* Nothing is claimed about a volume once an unsafe window was cut short.
Begin(f) ==
  /\ pc = "idle" /\ mishap = {} /\ f.kind \in Calls
  /\ pc' = "find" /\ o' = f /\ ret' = "none"
  /\ IOFine /\ Still /\ Calm /\ UNCHANGED <<wr, lost>>

Mkdir(d, n)  == Begin(Frame("mkdir", d, n))
Unlink(d, n) == Begin(Frame("unlink", d, n))
Rmdir(d, n)  == Begin(Frame("rmdir", d, n))
WriteFile(d, n, len, x) ==
  Begin([Frame("write", d, n) EXCEPT !.len = len, !.left = len, !.buf = x])
CopyFile(d, n, td, tn) ==
  Begin([Frame("copy", d, n) EXCEPT !.tdir = td, !.tname = tn])

----------------------------------------------------------------------------
(* fat32_dir_find_entry.  Every caller treats a failed read as "not there". *)

NotFound ==
  CASE o.kind = "mkdir" -> Goto("alloc", [o EXCEPT !.want = "dir"])
    [] o.kind = "write" -> Goto("data", o)
    [] OTHER            -> Return("absent")

\* Mutant: unlink and rmdir no longer look at the entry's attributes.
FoundAnyKind(c, i) ==
  LET e == disk[c][i]
      f == [o EXCEPT !.at = c, !.index = i, !.victim = e.first, !.cl = e.first, !.steps = 0]
  IN  CASE o.kind \in {"mkdir", "write"} -> Return("exists")
        [] o.kind = "rmdir"  -> IF e.first # 0 THEN Goto("empty", f) ELSE Goto("mark", f)
        [] o.kind = "unlink" -> Goto(IF e.first # 0 THEN "free" ELSE "mark", f)
        [] OTHER -> Goto("data", [o EXCEPT !.src = e.first, !.len = e.len, !.left = e.len])

Found(c, i) ==
  LET e == disk[c][i]
      f == [o EXCEPT !.at = c, !.index = i, !.victim = e.first, !.cl = e.first, !.steps = 0]
  IN  IF o.kind \in {"mkdir", "write"} THEN Return("exists")
      ELSE IF ~(o.kind = "rmdir" <=> e.kind = "dir") THEN Return("kind")
      ELSE CASE o.kind = "rmdir"  -> Goto("empty", f)
             [] o.kind = "unlink" -> Goto(IF e.first # 0 THEN "free" ELSE "mark", f)
             [] OTHER -> Goto("data", [o EXCEPT !.src = e.first, !.len = e.len, !.left = e.len])

\* Mutant: the name comparison is lost.
StopsFindUnnamed(e) == e.kind = "unused"
StopsFind(e) == e.kind = "unused" \/ (e.kind \in Live /\ e.name = o.name)

FindScan ==
  /\ pc = "find" /\ InChain(o.cl) /\ o.steps < DirScanMax
  /\ Still /\ Calm
  /\ \/ IOError /\ NotFound
     \/ IOFine /\ o.cl = BAD /\ NotFound
     \/ LET stops == {i \in Slot : StopsFind(disk[o.cl][i])} IN
        /\ o.cl \in Cluster
        /\ \/ \E i \in Slot :
                /\ Least(i, stops) /\ IOFine
                /\ IF disk[o.cl][i].kind = "unused" THEN NotFound ELSE Found(o.cl, i)
           \/ /\ stops = {}
              /\ \E n \in Number : /\ GetNext(o.cl, n)
                                   /\ IF n = END THEN NotFound
                                      ELSE Goto("find", [o EXCEPT !.cl = n, !.steps = @ + 1])
FindOver ==
  /\ pc = "find" /\ ~(InChain(o.cl) /\ o.steps < DirScanMax)
  /\ IOFine /\ Still /\ Calm /\ NotFound

----------------------------------------------------------------------------
(* The data loops of fat32_write_file_new_in_dir and fat32_copy_file_in_dir. *)

DataDone ==
  /\ pc = "data" /\ o.left = 0
  /\ IOFine /\ Still /\ Calm /\ Goto("slot", [o EXCEPT !.cl = o.tdir, !.steps = 0])

WriteMore ==
  /\ pc = "data" /\ o.left > 0 /\ o.kind = "write"
  /\ IOFine /\ Still /\ Calm /\ Goto("alloc", [o EXCEPT !.want = "data"])

Content(c) == IF disk[c][1].kind = "bytes" THEN disk[c][1].name ELSE Junk

CopyMore ==
  /\ pc = "data" /\ o.left > 0 /\ o.kind = "copy"
  /\ Still
  /\ IF ~InChain(o.src) THEN IOFine /\ Calm /\ Return("short")
     ELSE \/ (IF o.src = BAD THEN IOFine ELSE IOError) /\ Abort("io")
          \/ /\ IOFine /\ Calm
             /\ Goto("alloc", [o EXCEPT !.want = "data",
                                        !.buf = IF o.src = BAD THEN Junk ELSE Content(o.src)])

WritePayload ==
  /\ pc = "payload"
  /\ UNCHANGED <<fat, free_clusters, crashes, base, torn>>
  /\ LET done == [disk EXCEPT ![o.new] = Payload(o.buf)] IN
     \/ /\ o.kind = "write" /\ IOFine /\ Calm
        /\ disk' = done /\ Goto("data", [o EXCEPT !.left = @ - 1])
     \/ \E n \in Number :
        /\ o.kind = "copy" /\ GetNext(o.src, n) /\ Calm
        /\ disk' = done /\ Goto("data", [o EXCEPT !.left = @ - 1, !.src = n])
     \/ IOError /\ disk' \in {disk, done} /\ Abort("io")

WriteDots ==
  /\ pc = "dots"
  /\ UNCHANGED <<fat, free_clusters, crashes, base, torn>>
  /\ LET done == [disk EXCEPT ![o.new] = Dots] IN
     \/ IOFine /\ Calm /\ disk' = done /\ Goto("slot", [o EXCEPT !.cl = o.tdir, !.steps = 0])
     \/ IOError /\ disk' \in {disk, done} /\ Abort("io")

----------------------------------------------------------------------------
(* fat32_set_fat_entry and its callers fat32_alloc_cluster and the linkers. *)

\* Mutant: the loop over the FAT copies runs once too often.
SetFatCopyTooFar ==
  /\ pc = "setfat" /\ wr.cl \in Cluster /\ IOFine /\ Calm
  /\ UNCHANGED <<disk, free_clusters, crashes, base>>
  /\ fat' = IF wr.i \in Copy THEN [fat EXCEPT ![wr.i][wr.cl] = wr.val] ELSE fat
  /\ IF wr.i <= NumFats THEN wr' = [wr EXCEPT !.i = @ + 1] /\ UNCHANGED <<pc, o, ret, torn, lost>>
     ELSE torn' = torn \ {wr.cl} /\ Goto(wr.then, o)

\* Mutant: only the first FAT is written.
SetFatCopyFirstOnly ==
  /\ pc = "setfat" /\ wr.cl \in Cluster /\ IOFine /\ Calm
  /\ UNCHANGED <<disk, free_clusters, crashes, base>>
  /\ fat' = [fat EXCEPT ![1][wr.cl] = wr.val] /\ torn' = torn \ {wr.cl} /\ Goto(wr.then, o)

SetFatCopy ==
  LET done == [fat EXCEPT ![wr.i][wr.cl] = wr.val]
  IN  /\ pc = "setfat" /\ wr.cl \in Cluster
      /\ UNCHANGED <<disk, free_clusters, crashes, base>>
      /\ \/ /\ wr.i < NumFats /\ IOFine /\ Calm /\ fat' = done
            /\ wr' = [wr EXCEPT !.i = @ + 1] /\ UNCHANGED <<pc, o, ret, torn, lost>>
         \/ /\ wr.i = NumFats /\ IOFine /\ Calm /\ fat' = done
            /\ torn' = torn \ {wr.cl} /\ Goto(wr.then, o)
         \/ /\ IOError /\ fat' \in {fat, done} /\ torn' = torn \cup {wr.cl}
            /\ IF wr.then = "freed" THEN Calm /\ Goto("mark", o)
               ELSE Abort(IF wr.then = "alloced" THEN "nospace" ELSE "io")

\* The entry of cluster BAD lies far outside the FAT: the access fails, or it hits data.
SetFatStray ==
  /\ pc = "setfat" /\ wr.cl \notin Cluster
  /\ IOFine /\ Still
  /\ \/ Abort("io")
     \/ wr.cl = BAD /\ Hurt({"stray"}) /\ Goto(wr.then, o)

\* Mutant: the cluster is handed out without its end-of-chain mark.
AllocUnreserved ==
  /\ pc = "alloc" /\ Still
  /\ \/ FreeOnes = {} /\ IOFine /\ Abort("nospace")
     \/ \E c \in Cluster : Least(c, FreeOnes) /\ IOFine /\ Calm /\ Goto("alloced", [o EXCEPT !.new = c])

Alloc ==
  /\ pc = "alloc" /\ Still
  /\ \/ /\ \/ IOError
           \/ FreeOnes = {} /\ IOFine
        /\ Abort("nospace")
     \/ \E c \in Cluster : /\ Least(c, FreeOnes) /\ IOFine /\ Calm
                          /\ SetFat([o EXCEPT !.new = c], c, END, "alloced")

Alloced ==
  /\ pc = "alloced"
  /\ free_clusters' = IF free_clusters > 0 THEN free_clusters - 1 ELSE 0
  /\ IOFine /\ Calm /\ UNCHANGED <<fat, disk, crashes, base, torn>>
  /\ LET f == [o EXCEPT !.first = IF @ = 0 THEN o.new ELSE @, !.prev = o.new] IN
     CASE o.want = "dir"  -> Goto("dots", f)
       [] o.want = "ext"  -> SetFat(o, o.cl, o.new, "extlinked")
       [] OTHER -> IF o.prev # 0 THEN SetFat(f, o.prev, o.new, "linked")
                   ELSE SetFat(f, o.new, END, "payload")

Linked ==
  /\ pc \in {"linked", "extlinked"}
  /\ IOFine /\ Calm /\ Still
  /\ SetFat(o, o.new, END, IF pc = "linked" THEN "payload" ELSE "zero")

----------------------------------------------------------------------------
(* fat32_dir_find_free_slot and fat32_dir_write_entry_at. *)

IsFreeSlot(e) == e.kind \in {"unused", "deleted"}

\* LBA28 wraps cluster BAD onto the FAT's tail, where a zero byte looks like a free slot.
SlotScan ==
  /\ pc = "slot" /\ InChain(o.cl) /\ o.steps < DirScanMax
  /\ Still
  /\ \/ (IF o.cl = BAD THEN IOFine ELSE IOError) /\ Abort("io")
     \/ o.cl = BAD /\ IOFine /\ Calm /\ Goto("entry", [o EXCEPT !.at = BAD, !.index = 1])
     \/ LET stops == {i \in Slot : IsFreeSlot(disk[o.cl][i])} IN
        /\ o.cl \in Cluster /\ Calm
        /\ \/ \E i \in Slot :
                Least(i, stops) /\ IOFine /\ Goto("entry", [o EXCEPT !.at = o.cl, !.index = i])
           \/ /\ stops = {}
              /\ \E n \in Number :
                   /\ GetNext(o.cl, n)
                   /\ IF n = END THEN Goto("alloc", [o EXCEPT !.want = "ext"])
                      ELSE Goto("slot", [o EXCEPT !.cl = n, !.steps = @ + 1])

\* Past the bound the directory grows behind the cluster the scan stopped at, and what
\* that cluster was linked to is cut off.
SlotOver ==
  /\ pc = "slot" /\ ~(InChain(o.cl) /\ o.steps < DirScanMax)
  /\ IOFine /\ Still
  /\ Hurt(IF o.cl \in Cluster /\ NextOf(o.cl) = END THEN {} ELSE {"overlong"})
  /\ Goto("alloc", [o EXCEPT !.want = "ext"])

\* Mutant: the new directory cluster is not zeroed.
WriteZeroesNot ==
  /\ pc = "zero" /\ IOFine /\ Still /\ Calm
  /\ Goto("entry", [o EXCEPT !.at = o.new, !.index = 1])

WriteZeroes ==
  /\ pc = "zero"
  /\ UNCHANGED <<fat, free_clusters, crashes, base, torn>>
  /\ LET done == [disk EXCEPT ![o.new] = Zeroed] IN
     \/ IOFine /\ Calm /\ disk' = done /\ Goto("entry", [o EXCEPT !.at = o.new, !.index = 1])
     \/ IOError /\ disk' \in {disk, done} /\ Abort("io")

NewEntry == [kind |-> IF o.kind = "mkdir" THEN "dir" ELSE "file",
             name |-> o.tname, first |-> o.first, len |-> o.len]

WriteEntry ==
  /\ pc = "entry"
  /\ UNCHANGED <<fat, free_clusters, crashes, base, torn>>
  /\ IF o.at = BAD THEN IOFine /\ UNCHANGED disk /\ Hurt({"stray"}) /\ Return("ok")
     ELSE LET done == [disk EXCEPT ![o.at][o.index] = NewEntry] IN
          \/ IOFine /\ Calm /\ disk' = done /\ Return("ok")
          \/ IOError /\ disk' \in {disk, done} /\ Abort("io")

----------------------------------------------------------------------------
(* fat32_dir_is_empty, fat32_free_chain and the 0xE5 mark: a removal frees first. *)

Emptied == Goto("free", [o EXCEPT !.cl = o.victim, !.steps = 0])

StopsEmpty(e) == e.kind \notin {"deleted", "dot"}

EmptyScan ==
  /\ pc = "empty" /\ InChain(o.cl) /\ o.steps < DirScanMax
  /\ Still
  /\ \/ (IF o.cl = BAD THEN IOFine ELSE IOError) /\ Calm /\ Return("notempty")
     \/ o.cl = BAD /\ IOFine /\ Hurt({"stray"}) /\ Emptied
     \/ LET stops == {i \in Slot : StopsEmpty(disk[o.cl][i])} IN
        /\ o.cl \in Cluster /\ Calm
        /\ \/ \E i \in Slot :
                /\ Least(i, stops) /\ IOFine
                /\ IF disk[o.cl][i].kind = "unused" THEN Emptied ELSE Return("notempty")
           \/ /\ stops = {}
              /\ \E n \in Number : /\ GetNext(o.cl, n)
                                   /\ IF n = END THEN Emptied
                                      ELSE Goto("empty", [o EXCEPT !.cl = n, !.steps = @ + 1])
EmptyOver ==
  /\ pc = "empty" /\ ~(InChain(o.cl) /\ o.steps < DirScanMax)
  /\ IOFine /\ Still /\ Hurt({"overlong"}) /\ Emptied

FreeStep ==
  /\ pc = "free" /\ o.cl \in Cluster /\ o.steps < FreeStepMax
  /\ Still /\ Calm
  /\ \E n \in Number :
       GetNext(o.cl, n) /\ SetFat([o EXCEPT !.next = n, !.steps = @ + 1], o.cl, FREE, "freed")

FreeStray ==
  /\ pc = "free" /\ o.cl = BAD /\ o.steps < FreeStepMax
  /\ IOFine /\ Still
  /\ Hurt({}) \/ Hurt({"stray"})
  /\ Goto("mark", o)

FreeOver ==
  /\ pc = "free" /\ ~(InChain(o.cl) /\ o.steps < FreeStepMax)
  /\ IOFine /\ Still /\ Hurt({"overlong"}) /\ Goto("mark", o)

Counted == IF free_clusters = CountMax THEN CountMax ELSE free_clusters + 1

\* Mutant: only the chain's first cluster is freed.
FreedOnlyHead ==
  /\ pc = "freed" /\ free_clusters' = Counted
  /\ IOFine /\ Calm /\ UNCHANGED <<fat, disk, crashes, base, torn>>
  /\ Goto("mark", o)

\* Mutant: the free count is not given back.
FreedUncounted ==
  /\ pc = "freed" /\ IOFine /\ Calm /\ Still
  /\ IF o.next = END THEN Goto("mark", o) ELSE Goto("free", [o EXCEPT !.cl = o.next])

Freed ==
  /\ pc = "freed" /\ free_clusters' = Counted
  /\ IOFine /\ Calm /\ UNCHANGED <<fat, disk, crashes, base, torn>>
  /\ IF o.next = END THEN Goto("mark", o) ELSE Goto("free", [o EXCEPT !.cl = o.next])

\* Mutant: the entry of a removed file or directory stays in place.
MarkDeletedNot == pc = "mark" /\ IOFine /\ Still /\ Calm /\ Return("ok")

MarkDeleted ==
  /\ pc = "mark"
  /\ UNCHANGED <<fat, free_clusters, crashes, base, torn>>
  /\ LET done == [disk EXCEPT ![o.at][o.index] = Blank("deleted")] IN
     \/ IOFine /\ Calm /\ disk' = done /\ Return("ok")
     \/ IOError /\ disk' \in {disk, done} /\ Abort("io")

----------------------------------------------------------------------------
(* A power cut loses everything in memory.                                 *)

Crash ==
  /\ pc # "off" /\ errs + crashes < MaxFaults /\ crashes' = crashes + 1
  /\ pc' = "off" /\ o' = NoFrame /\ wr' = NoWrite /\ ret' = "none"
  /\ free_clusters' = 0 /\ lost' = Orphans
  /\ mishap' = mishap \cup Harm
  /\ torn' = IF pc = "setfat" /\ wr.i > 1 THEN torn \cup {wr.cl} ELSE torn
  /\ UNCHANGED <<fat, disk, errs, base>>

(* fat32_mount reads the boot sector and then FSInfo, which the driver     *)
(* never writes back.  Where that access fails the count is left at the 0  *)
(* of fat32_unmount, which fs.c calls before each mount.  The volume is a  *)
(* FAT32 one, so the tests of its boot sector never fail.                  *)
Mount ==
  /\ pc = "off" /\ Calm /\ UNCHANGED <<fat, disk, o, wr, ret, crashes, torn, lost>>
  /\ \/ IOError /\ UNCHANGED <<pc, free_clusters, base>>
     \/ /\ pc' = "idle"
        /\ \/ IOFine /\ free_clusters' = FsInfo
           \/ IOError /\ free_clusters' = 0
        /\ base' = [errs |-> errs', count |-> free_clusters', free |-> Cardinality(FreeOnes)]

----------------------------------------------------------------------------
Init ==
  /\ fat = [i \in Copy |-> [c \in Cluster |-> IF c = Root THEN END ELSE FREE]]
  /\ disk = [c \in Cluster |-> Zeroed]
  /\ pc = "off" /\ o = NoFrame /\ wr = NoWrite /\ ret = "none"
  /\ free_clusters = 0 /\ errs = 0 /\ crashes = 0
  /\ base = [errs |-> 0, count |-> 0, free |-> 0]
  /\ mishap = {} /\ torn = {} /\ lost = {}

Call ==
  \/ \E d \in LiveDirs, n \in Names : Mkdir(d, n) \/ Unlink(d, n) \/ Rmdir(d, n)
  \/ \E d \in LiveDirs, n \in Names, len \in 0 .. MaxLen, x \in Data : WriteFile(d, n, len, x)
  \/ \E d \in LiveDirs, n \in Names, td \in LiveDirs, tn \in Names : CopyFile(d, n, td, tn)

Step ==
  \/ FindScan \/ FindOver \/ DataDone \/ WriteMore \/ CopyMore \/ WritePayload \/ WriteDots
  \/ SetFatCopy \/ SetFatStray \/ Alloc \/ Alloced \/ Linked
  \/ SlotScan \/ SlotOver \/ WriteZeroes \/ WriteEntry
  \/ EmptyScan \/ EmptyOver \/ FreeStep \/ FreeStray \/ FreeOver \/ Freed \/ MarkDeleted

Next == Call \/ Step \/ Crash \/ Mount

Spec == Init /\ [][Next]_vars

----------------------------------------------------------------------------
(* Properties. *)

Frames == [kind : Kinds \cup {"none"}, dir : {0} \cup Cluster, name : Names \cup {NoName},
           tdir : {0} \cup Cluster, tname : Names \cup {NoName},
           len : 0 .. MaxLen, left : 0 .. MaxLen, buf : Data \cup {Junk},
           cl : Number \ {END}, steps : Nat, at : {0, BAD} \cup Cluster, index : Slot,
           victim : {0} \cup Cluster, want : {"none", "data", "dir", "ext"},
           first : {0} \cup Cluster, prev : {0} \cup Cluster, new : {0} \cup Cluster,
           src : Number, next : Number]

Writes == [cl : {0, BAD} \cup Cluster, val : Link, i : Copy, then : Resume \cup {"none"}]

MediaOK  == fat \in [Copy -> [Cluster -> Link]] /\ disk \in [Cluster -> [Slot -> Entry]]
DriverOK == pc \in Steps /\ o \in Frames /\ wr \in Writes /\ ret \in Answers
LedgerOK ==
  /\ free_clusters \in Nat /\ errs \in 0 .. MaxFaults /\ crashes \in 0 .. MaxFaults
  /\ base \in [errs : 0 .. MaxFaults, count : Nat, free : Nat]
  /\ mishap \subseteq Hurts /\ torn \subseteq Cluster /\ lost \subseteq Cluster

\* The types of the disk, of the driver's variables, and of the counters and ghosts.
TypeOK == MediaOK /\ DriverOK /\ LedgerOK

\* No cluster belongs to two chains: at every write, whatever fails, two FAT links or
\* directory entries never lead to the same cluster, and none leads to the root.
NoCrossLink ==
  mishap = {} =>
  /\ \A c, d \in FatLinks : fat[1][c] = fat[1][d] => c = d
  /\ \A p, q \in HeadSlots : EntryAt(p).first = EntryAt(q).first => p = q
  /\ \A c \in FatLinks, p \in HeadSlots : fat[1][c] # EntryAt(p).first
  /\ Root \notin Targets

\* Nothing leads to a free cluster, except the entry whose removal is under way between
\* fat32_free_chain and the 0xE5 mark.
NoDangling ==
  mishap = {} => \A c \in Targets \cap FreeOnes : FreeWindow /\ c = o.victim

\* The FAT copies agree on every cluster but the one being written and those on which a
\* failed or interrupted write left them apart.
MirrorsAgree ==
  \A c \in Cluster \ torn, i \in Copy :
    fat[i][c] # fat[1][c] => pc = "setfat" /\ wr.cl = c /\ wr.i > 1

\* Whatever fails and wherever the power goes, short of the unsafe windows: a directory's
\* chain holds entries and never file data, and a file's chain has its size in clusters of
\* data.  The directory being grown and the entry being removed are still in their window.
HoldsData(c) == \E i \in Slot : disk[c][i].kind = "bytes"
TreeIntact ==
  mishap = {} =>
  /\ \A d \in LiveDirs : LET at == Trail(d, NumClusters) IN
       \A k \in DOMAIN at :
         InChain(at[k]) /\ HoldsData(at[k]) => LinkWindow /\ at[k] = o.new
  /\ \A p \in LiveSlots :
       EntryAt(p).kind = "file" /\ ~(FreeWindow /\ p = <<o.at, o.index>>) =>
         LET n == EntryAt(p).len  at == Trail(EntryAt(p).first, n) IN
         /\ \A k \in 0 .. n : InChain(at[k]) <=> k < n
         /\ \A k \in 0 .. n : k < n => disk[at[k]][1].kind = "bytes"

\* While no sector access fails, an operation that reports success leaks no cluster:
\* every allocated cluster is reachable or was lost by one that failed or was cut short.
\* (With failing sectors a removal reports success although fat32_free_chain gave up.)
LeakOnlyOnFailure == pc = "idle" /\ errs = 0 /\ mishap = {} => Orphans \subseteq lost

\* Since no access has failed after the mount, fat32_ctx.free_clusters has followed the free
\* FAT entries.  What FSInfo said too much, as it does after a restart, it says too much by
\* the same number; what it said too little, as where FSInfo is missing, gets no worse and
\* never turns into too much.
FreeCountKeeps ==
  LET free == Cardinality(FreeOnes) IN
  pc = "idle" /\ errs = base.errs =>
    IF base.count >= base.free THEN free_clusters + base.free = free + base.count
    ELSE free_clusters <= free /\ free_clusters + base.free >= free + base.count
=============================================================================
