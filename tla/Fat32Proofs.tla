---------------------------- MODULE Fat32Proofs ----------------------------
(* Theorems about Fat32, for every volume and every number of faults. *)
EXTENDS Fat32, TLAPS, FiniteSetTheorems, WellFoundedInduction

----------------------------------------------------------------------------
(* Types.  TypeOK alone is not inductive: a set_fat call must know where it returns, *)
(* and the data loop must have data left while it builds a cluster.                  *)

DataSteps == {"alloc", "alloced", "linked", "payload"}
InData    == pc \in DataSteps \/ (pc = "setfat" /\ wr.then \in DataSteps)

Control ==
  /\ pc = "setfat" => wr.then \in Resume /\ (wr.i > 1 => wr.cl \in Cluster)
  /\ InData /\ o.want = "data" => o.left > 0
  /\ pc \in {"alloc", "alloced"} => o.want # "none"
  /\ pc = "setfat" /\ wr.then = "alloced" => o.want # "none"
  /\ pc \in {"linked", "payload"} => o.want = "data"
  /\ pc = "setfat" /\ wr.then \in {"linked", "payload"} => o.want = "data"

TypeInv == TypeOK /\ Control

----------------------------------------------------------------------------
(* Constants. *)

LEMMA Constants ==
  /\ 1 \in Copy /\ 1 \in Slot /\ 2 \in Slot /\ Root \in Cluster
  /\ 0 \notin Cluster /\ BAD \notin Cluster /\ END \notin Cluster /\ 0 # BAD /\ END # BAD /\ END # 0
  /\ Cluster \subseteq Nat /\ Cluster \subseteq Number
  BY VolumeAssumption DEF Copy, Slot, Root, Cluster, BAD, END, Number, Link

LEMMA NoWriteType == NoWrite \in Writes
  BY Constants DEF NoWrite, Writes, Link, FREE

LEMMA NoFrameType == NoFrame \in Frames
  BY Constants, VolumeAssumption DEF NoFrame, Frames, Number, Link, FREE

LEMMA EntryTypes ==
  /\ Zeroed \in [Slot -> Entry] /\ Dots \in [Slot -> Entry]
  /\ \A d \in Data \cup {Junk} : Payload(d) \in [Slot -> Entry]
  /\ Blank("deleted") \in Entry
  BY DEF Zeroed, Dots, Payload, Blank, Entry

----------------------------------------------------------------------------
(* Going on, returning and calling set_fat keep the driver's variables well typed. *)

LEMMA GotoType ==
  ASSUME DriverOK, NEW p \in Steps, NEW f \in Frames, Goto(p, f)
  PROVE  DriverOK' /\ pc' = p /\ o' = f /\ lost' = lost
  BY NoWriteType DEF DriverOK, Goto

LEMMA ReturnType ==
  ASSUME DriverOK, NEW r \in Answers, Return(r), lost \subseteq Cluster
  PROVE  DriverOK' /\ pc' = "idle" /\ o' = NoFrame /\ lost' \subseteq Cluster
  BY NoWriteType, NoFrameType DEF DriverOK, Return, Orphans, Allocated, Steps

LEMMA SetFatType ==
  ASSUME DriverOK, NEW f \in Frames, NEW c \in {0, BAD} \cup Cluster, NEW v \in Link,
         NEW k \in Resume, SetFat(f, c, v, k)
  PROVE  DriverOK' /\ pc' = "setfat" /\ o' = f /\ wr'.then = k /\ ~(wr'.i > 1) /\ lost' = lost
  BY Constants DEF DriverOK, SetFat, Writes, Steps

\* Every chain walk stays on the clusters, but for the number a failed read yields.
LEMMA InChainType == ASSUME NEW n \in Number, InChain(n) PROVE n \in Cluster \cup {BAD}
<1>1. END \in Nat /\ n # END /\ n # FREE
  BY VolumeAssumption DEF InChain, END, FREE
<1> QED BY <1>1 DEF Number, Link

\* The frame of an iteration of the data loop.
LEMMA LoopType ==
  ASSUME o \in Frames, NEW b \in Data \cup {Junk}, NEW f, f = [o EXCEPT !.want = "data", !.buf = b]
  PROVE  f \in Frames /\ f.want = "data" /\ f.left = o.left
<1>1. f.want = "data" /\ f.left = o.left
  BY DEF Frames
<1>2. f \in Frames
  BY DEF Frames
<1> QED BY <1>1, <1>2

\* The place of a new entry.
LEMMA PlaceType ==
  ASSUME o \in Frames, NEW c \in {0, BAD} \cup Cluster, NEW i \in Slot
  PROVE  [o EXCEPT !.at = c, !.index = i] \in Frames
<1> DEFINE g == [o EXCEPT !.at = c]
<1>1. g \in Frames
  BY DEF Frames
<1>2. [o EXCEPT !.at = c, !.index = i] = [g EXCEPT !.index = i]
  OBVIOUS
<1> HIDE DEF g
<1>3. [g EXCEPT !.index = i] \in Frames
  BY <1>1 DEF Frames
<1> QED BY <1>2, <1>3

\* A chain walk that starts anew.
LEMMA WalkFromType ==
  ASSUME o \in Frames, NEW c \in {0} \cup Cluster
  PROVE  [o EXCEPT !.cl = c, !.steps = 0] \in Frames
<1>1. c \in Number \ {END}
  BY Constants DEF Number, Link, FREE
<1> QED BY ZenonT(30), <1>1 DEF Frames

\* A step of a chain walk keeps the frame well typed.
LEMMA WalkOnType ==
  ASSUME o \in Frames, NEW n \in Number \ {END}
  PROVE  [o EXCEPT !.cl = n, !.steps = @ + 1] \in Frames
<1>1. o.steps + 1 \in Nat
  BY DEF Frames
<1> QED BY ZenonT(30), <1>1 DEF Frames

LEMMA InitType == Init => TypeInv
<1> SUFFICES ASSUME Init PROVE TypeInv
  OBVIOUS
<1>1. MediaOK
  BY EntryTypes DEF Init, MediaOK, Link
<1>2. DriverOK
  BY NoWriteType, NoFrameType DEF Init, DriverOK, Steps, Answers
<1>3. LedgerOK
  BY VolumeAssumption DEF Init, LedgerOK
<1>4. Control
  BY DEF Init, Control, InData, DataSteps
<1> QED BY <1>1, <1>2, <1>3, <1>4 DEF TypeInv, TypeOK

----------------------------------------------------------------------------
(* Every action keeps the types. *)

\* What an operation's end and an abort do to the ghosts.
LEMMA HarmType == Harm \subseteq Hurts
  BY DEF Harm, Hurts

LEMMA GetNextType ==
  ASSUME TypeOK, NEW c \in Number, NEW n \in Number, GetNext(c, n)
  PROVE  errs' \in 0 .. MaxFaults
  BY VolumeAssumption DEF TypeOK, LedgerOK, GetNext, IOFine, IOError

LEMMA IOType ==
  ASSUME TypeOK, IOFine \/ IOError
  PROVE  errs' \in 0 .. MaxFaults
  BY VolumeAssumption DEF TypeOK, LedgerOK, IOFine, IOError

\* The two ways out of a lookup.
LEMMA NotFoundType ==
  ASSUME TypeOK, pc = "find", NotFound
  PROVE  DriverOK' /\ lost' \subseteq Cluster /\ Control'
<1>1. CASE o.kind = "mkdir"
  <2>1. Goto("alloc", [o EXCEPT !.want = "dir"])
    BY <1>1 DEF NotFound
  <2>2. [o EXCEPT !.want = "dir"] \in Frames /\ "alloc" \in Steps
    BY DEF TypeOK, DriverOK, Frames, Steps
  <2>3. DriverOK' /\ pc' = "alloc" /\ o' = [o EXCEPT !.want = "dir"] /\ lost' = lost
    BY <2>1, <2>2, GotoType DEF TypeOK
  <2> QED BY <2>3 DEF TypeOK, DriverOK, Frames, LedgerOK, Control, InData, DataSteps
<1>2. CASE o.kind = "write"
  <2>1. Goto("data", o)
    BY <1>2 DEF NotFound
  <2>2. DriverOK' /\ pc' = "data" /\ lost' = lost
    BY <2>1, GotoType DEF TypeOK, DriverOK, Steps
  <2> QED BY <2>2 DEF TypeOK, LedgerOK, Control, InData, DataSteps
<1>3. CASE o.kind \notin {"mkdir", "write"}
  <2>1. Return("absent")
    BY <1>3 DEF NotFound
  <2>2. DriverOK' /\ pc' = "idle" /\ lost' \subseteq Cluster
    BY <2>1, ReturnType DEF TypeOK, LedgerOK, Answers
  <2> QED BY <2>2 DEF Control, InData, DataSteps
<1> QED BY <1>1, <1>2, <1>3

LEMMA FoundType ==
  ASSUME TypeOK, pc = "find", NEW c \in Cluster, NEW i \in Slot, disk[c][i].kind \in Live, Found(c, i)
  PROVE  DriverOK' /\ lost' \subseteq Cluster /\ Control'
<1> DEFINE e == disk[c][i]
           f == [o EXCEPT !.at = c, !.index = i, !.victim = e.first, !.cl = e.first, !.steps = 0]
           g == [o EXCEPT !.src = e.first, !.len = e.len, !.left = e.len]
<1>1. e \in Entry /\ o \in Frames
  BY DEF TypeOK, MediaOK, DriverOK
<1>2. e.first \in {0} \cup Cluster /\ e.len \in 0 .. MaxLen
  BY <1>1 DEF Entry, Live
<1>5. \/ \E r \in {"exists", "kind"} : Return(r)
      \/ \E p \in {"empty", "free", "mark"} : Goto(p, f)
      \/ Goto("data", g)
  BY DEF Found
<1> HIDE DEF e
<1>9. e.first \in Number \ {END}
  BY <1>2, Constants DEF Number, Link, FREE
<1>3. f \in Frames
  BY ZenonT(30), <1>1, <1>2, <1>9 DEF Frames
<1>4. g \in Frames
  BY ZenonT(30), <1>1, <1>2, <1>9 DEF Frames
<1> HIDE DEF f, g
<1>6. CASE \E r \in {"exists", "kind"} : Return(r)
  <2>1. DriverOK' /\ pc' = "idle" /\ lost' \subseteq Cluster
    BY <1>6, ReturnType DEF TypeOK, LedgerOK, Answers
  <2> QED BY <2>1 DEF Control, InData, DataSteps
<1>7. CASE \E p \in {"empty", "free", "mark"} : Goto(p, f)
  <2>1. DriverOK' /\ pc' \in {"empty", "free", "mark"} /\ lost' = lost
    BY <1>3, <1>7, GotoType DEF TypeOK, Steps
  <2> QED BY <2>1 DEF TypeOK, LedgerOK, Control, InData, DataSteps
<1>8. CASE Goto("data", g)
  <2>1. DriverOK' /\ pc' = "data" /\ lost' = lost
    BY <1>4, <1>8, GotoType DEF TypeOK, Steps
  <2> QED BY <2>1 DEF TypeOK, LedgerOK, Control, InData, DataSteps
<1> QED BY <1>5, <1>6, <1>7, <1>8

\* Actions that leave the disk alone.
LEMMA QuietType ==
  ASSUME TypeOK, Still, errs' \in 0 .. MaxFaults, mishap' \subseteq Hurts, lost' \subseteq Cluster,
         DriverOK', Control'
  PROVE  TypeInv'
  BY DEF TypeOK, TypeInv, MediaOK, LedgerOK, Still

LEMMA FindType == ASSUME TypeInv, FindScan \/ FindOver PROVE TypeInv'
<1> USE DEF TypeInv
<1>1. mishap' \subseteq Hurts /\ Still
  BY DEF FindScan, FindOver, Calm, TypeOK, LedgerOK
<1>2. CASE NotFound /\ errs' \in 0 .. MaxFaults
  <2>1. pc = "find"
    BY DEF FindScan, FindOver
  <2> QED BY <1>1, <1>2, <2>1, NotFoundType, QuietType
<1>3. CASE FindOver
  BY <1>2, <1>3, IOType DEF FindOver
<1>4. CASE FindScan
  <2>1. CASE IOError /\ NotFound
    BY <1>2, <2>1, IOType
  <2>2. CASE IOFine /\ NotFound
    BY <1>2, <2>2, IOType
  <2>3. ASSUME NEW i \in Slot, StopsFind(disk[o.cl][i]), disk[o.cl][i].kind # "unused",
               o.cl \in Cluster, IOFine, Found(o.cl, i)
        PROVE  TypeInv'
    <3>1. pc = "find" /\ disk[o.cl][i].kind \in Live
      BY <1>4, <2>3 DEF FindScan, StopsFind
    <3>2. DriverOK' /\ lost' \subseteq Cluster /\ Control'
      BY <2>3, <3>1, FoundType
    <3> QED BY <1>1, <2>3, <3>2, IOType, QuietType
  <2>4. ASSUME NEW n \in Number, GetNext(o.cl, n),
               IF n = END THEN NotFound ELSE Goto("find", [o EXCEPT !.cl = n, !.steps = @ + 1])
        PROVE  TypeInv'
    <3>1. errs' \in 0 .. MaxFaults
      BY <2>4, GetNextType DEF TypeOK, DriverOK, Frames
    <3>2. CASE n = END
      <4>1. NotFound
        BY <2>4, <3>2
      <4> QED BY <1>2, <3>1, <4>1
    <3>3. CASE n # END
      <4>1. [o EXCEPT !.cl = n, !.steps = @ + 1] \in Frames
        BY <3>3, WalkOnType DEF TypeOK, DriverOK
      <4>2. DriverOK' /\ pc' = "find" /\ lost' = lost
        BY <2>4, <3>3, <4>1, GotoType DEF TypeOK, Steps
      <4>3. Control' /\ lost' \subseteq Cluster
        BY <4>2 DEF Control, InData, DataSteps, TypeOK, LedgerOK
      <4> QED BY <1>1, <3>1, <4>2, <4>3, QuietType
    <3> QED BY <3>2, <3>3
  <2> QED BY <1>4, <2>1, <2>2, <2>3, <2>4 DEF FindScan, Least
<1> QED BY <1>3, <1>4

\* Ends of an operation: an answer, or an abort in whatever window it is.
LEMMA EndType ==
  ASSUME TypeOK, NEW r \in Answers, (Calm /\ Return(r)) \/ Abort(r)
  PROVE  DriverOK' /\ Control' /\ lost' \subseteq Cluster /\ mishap' \subseteq Hurts
<1>1. DriverOK' /\ pc' = "idle" /\ lost' \subseteq Cluster
  BY ReturnType DEF TypeOK, LedgerOK, Abort
<1>2. mishap' \subseteq Hurts
  BY HarmType DEF Calm, Abort, TypeOK, LedgerOK
<1> QED BY <1>1, <1>2 DEF Control, InData, DataSteps

\* Going on to a step of which Control asks nothing.
LEMMA GoType ==
  ASSUME TypeOK, NEW p \in Steps \ ({"setfat"} \cup DataSteps), NEW f \in Frames, Goto(p, f)
  PROVE  DriverOK' /\ Control' /\ lost' \subseteq Cluster
<1>1. DriverOK' /\ pc' = p /\ lost' = lost
  BY GotoType DEF TypeOK
<1> QED BY <1>1 DEF Control, InData, DataSteps, TypeOK, LedgerOK

\* Going on inside the loop that allocates a cluster.
LEMMA BuildType ==
  ASSUME TypeOK, NEW p \in DataSteps, NEW f \in Frames, Goto(p, f),
         f.want # "none", f.want = "data" => f.left > 0,
         p \in {"linked", "payload"} => f.want = "data"
  PROVE  DriverOK' /\ Control' /\ lost' \subseteq Cluster
<1>1. DriverOK' /\ pc' = p /\ o' = f /\ lost' = lost
  BY GotoType DEF TypeOK, DataSteps, Steps, Resume
<1> QED BY <1>1 DEF Control, InData, DataSteps, TypeOK, LedgerOK

\* Calling fat32_set_fat_entry.
LEMMA CallType ==
  ASSUME TypeOK, NEW f \in Frames, NEW c \in {0, BAD} \cup Cluster, NEW v \in Link, NEW k \in Resume,
         SetFat(f, c, v, k),
         k \in DataSteps => f.want # "none" /\ (f.want = "data" => f.left > 0),
         k \in {"linked", "payload"} => f.want = "data"
  PROVE  DriverOK' /\ Control' /\ lost' \subseteq Cluster
<1>1. DriverOK' /\ pc' = "setfat" /\ o' = f /\ wr'.then = k /\ ~(wr'.i > 1) /\ lost' = lost
  BY SetFatType DEF TypeOK
<1>2. wr'.then \in Resume /\ (wr'.i > 1 => wr'.cl \in Cluster)
  BY <1>1
<1>3. InData' => k \in DataSteps
  BY <1>1 DEF InData, DataSteps
<1>4. Control'
  BY <1>1, <1>2, <1>3 DEF Control, DataSteps
<1> QED BY <1>1, <1>4 DEF TypeOK, LedgerOK

\* Actions that write at most one cluster.
LEMMA DiskType ==
  ASSUME TypeOK, MediaOK', UNCHANGED <<free_clusters, crashes, base, torn>>, errs' \in 0 .. MaxFaults,
         mishap' \subseteq Hurts, lost' \subseteq Cluster, DriverOK', Control'
  PROVE  TypeInv'
  BY DEF TypeOK, TypeInv, LedgerOK

LEMMA ClusterWriteType ==
  ASSUME MediaOK, NEW c, NEW v \in [Slot -> Entry], UNCHANGED fat,
         disk' \in {disk, [disk EXCEPT ![c] = v]}
  PROVE  MediaOK'
  BY DEF MediaOK

LEMMA CalmType == ASSUME TypeOK, Calm PROVE mishap' \subseteq Hurts
  BY DEF TypeOK, LedgerOK, Calm

LEMMA DataDoneType == ASSUME TypeInv, DataDone PROVE TypeInv'
<1> USE DEF TypeInv
<1>0. o \in Frames /\ o.tdir \in {0} \cup Cluster
  BY DEF TypeOK, DriverOK, Frames
<1>1. [o EXCEPT !.cl = o.tdir, !.steps = 0] \in Frames
  BY <1>0, WalkFromType
<1>2. DriverOK' /\ Control' /\ lost' \subseteq Cluster
  BY <1>1, GoType DEF DataDone, Steps, DataSteps
<1> QED BY <1>2, CalmType, IOType, QuietType DEF DataDone

LEMMA WriteMoreType == ASSUME TypeInv, WriteMore PROVE TypeInv'
<1> USE DEF TypeInv
<1>1. [o EXCEPT !.want = "data"] \in Frames /\ [o EXCEPT !.want = "data"].want = "data"
      /\ [o EXCEPT !.want = "data"].left > 0
  BY DEF TypeOK, DriverOK, Frames, WriteMore
<1>2. DriverOK' /\ Control' /\ lost' \subseteq Cluster
  BY <1>1, BuildType DEF WriteMore, DataSteps
<1> QED BY <1>2, CalmType, IOType, QuietType DEF WriteMore

LEMMA CopyMoreType == ASSUME TypeInv, CopyMore PROVE TypeInv'
<1> USE DEF TypeInv
<1>1. CASE (Calm /\ Return("short")) \/ Abort("io")
  <2>1. DriverOK' /\ Control' /\ lost' \subseteq Cluster /\ mishap' \subseteq Hurts
    BY <1>1, EndType DEF Answers
  <2> QED BY <2>1, IOType, QuietType DEF CopyMore
<1>2. ASSUME o.src \in Cluster \cup {BAD}, Calm, IOFine,
             Goto("alloc", [o EXCEPT !.want = "data",
                                     !.buf = IF o.src = BAD THEN Junk ELSE Content(o.src)])
      PROVE  TypeInv'
  <2> DEFINE b == IF o.src = BAD THEN Junk ELSE Content(o.src)
             f == [o EXCEPT !.want = "data", !.buf = b]
  <2>1. b \in Data \cup {Junk}
    <3>1. CASE o.src = BAD
      BY <3>1
    <3>2. CASE o.src \in Cluster
      <4>1. disk[o.src][1] \in Entry
        BY <3>2, Constants DEF TypeOK, MediaOK
      <4>2. Content(o.src) \in Data \cup {Junk}
        BY <4>1 DEF Content, Entry, Live
      <4> QED BY <3>2, <4>2
    <3> QED BY <1>2, <3>1, <3>2
  <2> HIDE DEF b
  <2>0. o \in Frames
    BY DEF TypeOK, DriverOK
  <2>2. f \in Frames /\ f.want = "data" /\ f.left = o.left
    BY <2>0, <2>1, LoopType
  <2>3. Goto("alloc", f) /\ o.left > 0
    BY <1>2 DEF CopyMore, b
  <2> HIDE DEF f
  <2>4. DriverOK' /\ Control' /\ lost' \subseteq Cluster
    BY <2>2, <2>3, BuildType DEF DataSteps
  <2> QED BY <1>2, <2>4, CalmType, IOType, QuietType DEF CopyMore
<1>0. o \in Frames /\ o.src \in Number
  BY DEF TypeOK, DriverOK, Frames
<1>3. InChain(o.src) => o.src \in Cluster \cup {BAD}
  BY <1>0, InChainType
<1> QED BY <1>1, <1>2, <1>3 DEF CopyMore

\* A cluster of the data loop is written: one less to go.
LEMMA LeftType ==
  ASSUME o \in Frames, o.left > 0, NEW n \in Number
  PROVE  /\ [o EXCEPT !.left = @ - 1] \in Frames
         /\ [o EXCEPT !.left = @ - 1, !.src = n] \in Frames
<1>1. o.left - 1 \in 0 .. MaxLen
  BY VolumeAssumption DEF Frames
<1>2. [o EXCEPT !.left = @ - 1] \in Frames
  BY <1>1 DEF Frames
<1>3. [o EXCEPT !.left = @ - 1, !.src = n] \in Frames
  BY ZenonT(30), <1>1 DEF Frames
<1> QED BY <1>2, <1>3

LEMMA WritePayloadType == ASSUME TypeInv, WritePayload PROVE TypeInv'
<1> DEFINE g(n) == [o EXCEPT !.left = @ - 1, !.src = n]
           h == [o EXCEPT !.left = @ - 1]
<1>1. TypeOK /\ MediaOK /\ o \in Frames /\ o.buf \in Data \cup {Junk} /\ o.left > 0 /\ o.src \in Number
  BY DEF TypeInv, TypeOK, DriverOK, Frames, WritePayload, Control, InData, DataSteps
<1>2. MediaOK' /\ UNCHANGED <<free_clusters, crashes, base, torn>>
  BY <1>1, EntryTypes, ClusterWriteType DEF WritePayload
<1>3. h \in Frames /\ \A n \in Number : g(n) \in Frames
  BY <1>1, LeftType
<1>4. \/ IOFine /\ Calm /\ Goto("data", h)
      \/ \E n \in Number : GetNext(o.src, n) /\ Calm /\ Goto("data", g(n))
      \/ IOError /\ Abort("io")
  BY DEF WritePayload
<1> HIDE DEF g, h
<1>5. CASE IOFine /\ Calm /\ Goto("data", h)
  BY <1>1, <1>2, <1>3, <1>5, GoType, CalmType, IOType, DiskType DEF Steps, DataSteps
<1>6. ASSUME NEW n \in Number, GetNext(o.src, n), Calm, Goto("data", g(n)) PROVE TypeInv'
  <2>1. errs' \in 0 .. MaxFaults
    BY <1>1, <1>6, GetNextType
  <2>2. DriverOK' /\ Control' /\ lost' \subseteq Cluster
    BY <1>1, <1>3, <1>6, GoType DEF Steps, DataSteps
  <2> QED BY <1>1, <1>2, <1>6, <2>1, <2>2, CalmType, DiskType
<1>7. CASE IOError /\ Abort("io")
  BY <1>1, <1>2, <1>7, EndType, IOType, DiskType DEF Answers
<1> QED BY <1>4, <1>5, <1>6, <1>7

LEMMA WriteDotsType == ASSUME TypeInv, WriteDots PROVE TypeInv'
<1>1. TypeOK /\ MediaOK /\ o \in Frames /\ o.tdir \in {0} \cup Cluster
  BY DEF TypeInv, TypeOK, DriverOK, Frames
<1>2. MediaOK' /\ UNCHANGED <<free_clusters, crashes, base, torn>>
  BY <1>1, EntryTypes, ClusterWriteType DEF WriteDots
<1>3. CASE IOFine /\ Calm /\ Goto("slot", [o EXCEPT !.cl = o.tdir, !.steps = 0])
  <2>1. [o EXCEPT !.cl = o.tdir, !.steps = 0] \in Frames
    BY <1>1, WalkFromType
  <2> QED BY <1>1, <1>2, <1>3, <2>1, GoType, CalmType, IOType, DiskType DEF Steps, DataSteps
<1>4. CASE IOError /\ Abort("io")
  BY <1>1, <1>2, <1>4, EndType, IOType, DiskType DEF Answers
<1> QED BY <1>3, <1>4 DEF WriteDots

LEMMA WriteZeroesType == ASSUME TypeInv, WriteZeroes PROVE TypeInv'
<1> DEFINE f == [o EXCEPT !.at = o.new, !.index = 1]
<1>1. TypeOK /\ MediaOK /\ o \in Frames /\ o.new \in {0} \cup Cluster
  BY DEF TypeInv, TypeOK, DriverOK, Frames
<1>2. MediaOK' /\ UNCHANGED <<free_clusters, crashes, base, torn>>
  BY <1>1, EntryTypes, ClusterWriteType DEF WriteZeroes
<1>3. f \in Frames
  BY <1>1, PlaceType, Constants
<1>4. CASE IOFine /\ Calm /\ Goto("entry", f)
  BY <1>1, <1>2, <1>3, <1>4, GoType, CalmType, IOType, DiskType DEF Steps, DataSteps
<1>5. CASE IOError /\ Abort("io")
  BY <1>1, <1>2, <1>5, EndType, IOType, DiskType DEF Answers
<1> QED BY <1>4, <1>5 DEF WriteZeroes

\* Actions that write one entry of a directory.
LEMMA EntryWriteType ==
  ASSUME MediaOK, NEW c, NEW i, NEW e \in Entry, UNCHANGED fat,
         disk' \in {disk, [disk EXCEPT ![c][i] = e]}
  PROVE  MediaOK'
<1> DEFINE v == [disk[c] EXCEPT ![i] = e]
<1>1. CASE c \in Cluster
  <2>1. disk[c] \in [Slot -> Entry]
    BY <1>1 DEF MediaOK
  <2>2. v \in [Slot -> Entry]
    BY <2>1
  <2>3. [disk EXCEPT ![c][i] = e] = [disk EXCEPT ![c] = v]
    OBVIOUS
  <2> HIDE DEF v
  <2> QED BY <2>2, <2>3, ClusterWriteType
<1>2. CASE c \notin Cluster
  <2>1. [disk EXCEPT ![c][i] = e] = disk
    BY <1>2 DEF MediaOK
  <2> QED BY <2>1 DEF MediaOK
<1> QED BY <1>1, <1>2

LEMMA WriteEntryType == ASSUME TypeInv, WriteEntry PROVE TypeInv'
<1>1. TypeOK /\ MediaOK /\ o \in Frames
  BY DEF TypeInv, TypeOK, DriverOK
<1>2. NewEntry \in Entry
  BY <1>1 DEF NewEntry, Entry, Frames, Live
<1>3. CASE o.at = BAD
  <2>1. Return("ok") /\ IOFine /\ mishap' = mishap \cup {"stray"} /\ UNCHANGED media
        /\ UNCHANGED <<free_clusters, crashes, base, torn>>
    BY <1>3 DEF WriteEntry, Hurt, media
  <2>2. MediaOK' /\ mishap' \subseteq Hurts
    BY <1>1, <2>1 DEF MediaOK, media, TypeOK, LedgerOK, Hurts
  <2>3. DriverOK' /\ pc' = "idle" /\ lost' \subseteq Cluster
    BY <1>1, <2>1, ReturnType DEF TypeOK, LedgerOK, Answers
  <2>4. Control'
    BY <2>3 DEF Control, InData, DataSteps
  <2> QED BY <1>1, <2>1, <2>2, <2>3, <2>4, IOType, DiskType
<1>4. CASE o.at # BAD
  <2>1. MediaOK' /\ UNCHANGED <<free_clusters, crashes, base, torn>>
    BY <1>1, <1>2, <1>4, EntryWriteType DEF WriteEntry
  <2>2. CASE IOFine /\ Calm /\ Return("ok")
    BY <1>1, <2>1, <2>2, EndType, IOType, DiskType DEF Answers
  <2>3. CASE IOError /\ Abort("io")
    BY <1>1, <2>1, <2>3, EndType, IOType, DiskType DEF Answers
  <2> QED BY <1>4, <2>2, <2>3 DEF WriteEntry
<1> QED BY <1>3, <1>4

LEMMA MarkDeletedType == ASSUME TypeInv, MarkDeleted PROVE TypeInv'
<1>1. TypeOK /\ MediaOK
  BY DEF TypeInv, TypeOK
<1>2. MediaOK' /\ UNCHANGED <<free_clusters, crashes, base, torn>>
  BY <1>1, EntryTypes, EntryWriteType DEF MarkDeleted
<1>3. CASE IOFine /\ Calm /\ Return("ok")
  BY <1>1, <1>2, <1>3, EndType, IOType, DiskType DEF Answers
<1>4. CASE IOError /\ Abort("io")
  BY <1>1, <1>2, <1>4, EndType, IOType, DiskType DEF Answers
<1> QED BY <1>3, <1>4 DEF MarkDeleted

LEMMA SetFatCopyType == ASSUME TypeInv, SetFatCopy PROVE TypeInv'
<1> DEFINE done == [fat EXCEPT ![wr.i][wr.cl] = wr.val]
<1>1. /\ TypeOK /\ MediaOK /\ DriverOK /\ wr \in Writes /\ o \in Frames /\ wr.then \in Resume
      /\ pc = "setfat" /\ wr.cl \in Cluster /\ UNCHANGED <<disk, free_clusters, crashes, base>>
  BY DEF TypeInv, TypeOK, DriverOK, SetFatCopy, Control
<1>2. done \in [Copy -> [Cluster -> Link]]
  <2>1. fat[wr.i] \in [Cluster -> Link] /\ wr.i \in Copy /\ wr.val \in Link
    BY <1>1 DEF MediaOK, Writes
  <2>2. [fat[wr.i] EXCEPT ![wr.cl] = wr.val] \in [Cluster -> Link]
    BY <2>1
  <2> QED BY <1>1, <2>1, <2>2 DEF MediaOK
<1>3. torn \subseteq Cluster /\ torn \cup {wr.cl} \subseteq Cluster /\ torn \ {wr.cl} \subseteq Cluster
      /\ torn' \subseteq Cluster
  BY <1>1 DEF TypeOK, LedgerOK, SetFatCopy
<1>4. fat' \in {fat, done}
  BY DEF SetFatCopy
<1>5. MediaOK'
  BY <1>1, <1>2, <1>4 DEF MediaOK
<1> HIDE DEF done
<1>6. ASSUME errs' \in 0 .. MaxFaults, mishap' \subseteq Hurts, lost' \subseteq Cluster, DriverOK', Control'
      PROVE  TypeInv'
  BY <1>1, <1>3, <1>5, <1>6 DEF TypeInv, TypeOK, LedgerOK
<1>7. CASE wr.i < NumFats /\ IOFine /\ Calm /\ wr' = [wr EXCEPT !.i = @ + 1]
           /\ UNCHANGED <<pc, o, ret, torn, lost>>
  <2>1. wr.i + 1 \in Copy
    BY <1>1, <1>7, VolumeAssumption DEF Writes, Copy
  <2>2. wr' \in Writes /\ wr'.then = wr.then /\ wr'.cl = wr.cl
    BY <1>1, <1>7, <2>1 DEF Writes
  <2>3. DriverOK'
    BY <1>1, <1>7, <2>2 DEF DriverOK
  <2>4. Control'
    BY <1>1, <1>7, <2>2 DEF TypeInv, Control, InData, DataSteps
  <2>5. lost' \subseteq Cluster
    BY <1>1, <1>7 DEF TypeOK, LedgerOK
  <2> QED BY <1>1, <1>6, <1>7, <2>3, <2>4, <2>5, CalmType, IOType
<1>8. CASE IOFine /\ Calm /\ Goto(wr.then, o)
  <2>1. CASE wr.then \in DataSteps
    <3>1. o.want # "none" /\ (o.want = "data" => o.left > 0)
          /\ (wr.then \in {"linked", "payload"} => o.want = "data")
      BY <1>1, <2>1 DEF TypeInv, Control, InData, DataSteps, Resume
    <3>2. DriverOK' /\ Control' /\ lost' \subseteq Cluster
      BY <1>1, <1>8, <2>1, <3>1, BuildType
    <3> QED BY <1>1, <1>6, <1>8, <3>2, CalmType, IOType
  <2>2. CASE wr.then \notin DataSteps
    <3>1. wr.then \in Steps \ ({"setfat"} \cup DataSteps)
      BY <1>1, <2>2 DEF Resume, Steps
    <3>2. DriverOK' /\ Control' /\ lost' \subseteq Cluster
      BY <1>1, <1>8, <3>1, GoType
    <3> QED BY <1>1, <1>6, <1>8, <3>2, CalmType, IOType
  <2> QED BY <2>1, <2>2
<1>9. CASE IOError /\ Calm /\ Goto("mark", o)
  <2>1. DriverOK' /\ Control' /\ lost' \subseteq Cluster
    BY <1>1, <1>9, GoType DEF Steps, DataSteps
  <2> QED BY <1>1, <1>6, <1>9, <2>1, CalmType, IOType
<1>10. ASSUME NEW r \in {"nospace", "io"}, IOError, Abort(r) PROVE TypeInv'
  BY <1>1, <1>6, <1>10, EndType, IOType DEF Answers
<1> QED BY <1>7, <1>8, <1>9, <1>10 DEF SetFatCopy

LEMMA SetFatStrayType == ASSUME TypeInv, SetFatStray PROVE TypeInv'
<1>1. TypeOK /\ o \in Frames /\ wr.then \in Resume /\ IOFine /\ Still
  BY DEF TypeInv, TypeOK, DriverOK, SetFatStray, Control
<1>2. CASE Abort("io")
  BY <1>1, <1>2, EndType, IOType, QuietType DEF Answers
<1>3. CASE Hurt({"stray"}) /\ Goto(wr.then, o)
  <2>1. mishap' \subseteq Hurts
    BY <1>1, <1>3 DEF Hurt, Hurts, TypeOK, LedgerOK
  <2>2. CASE wr.then \in DataSteps
    <3>1. o.want # "none" /\ (o.want = "data" => o.left > 0)
          /\ (wr.then \in {"linked", "payload"} => o.want = "data")
      BY <1>1, <2>2 DEF TypeInv, Control, InData, DataSteps, Resume, SetFatStray
    <3>2. DriverOK' /\ Control' /\ lost' \subseteq Cluster
      BY <1>1, <1>3, <2>2, <3>1, BuildType
    <3> QED BY <1>1, <2>1, <3>2, IOType, QuietType
  <2>3. CASE wr.then \notin DataSteps
    <3>1. wr.then \in Steps \ ({"setfat"} \cup DataSteps)
      BY <1>1, <2>3 DEF Resume, Steps
    <3>2. DriverOK' /\ Control' /\ lost' \subseteq Cluster
      BY <1>1, <1>3, <3>1, GoType
    <3> QED BY <1>1, <2>1, <3>2, IOType, QuietType
  <2> QED BY <2>2, <2>3
<1> QED BY <1>2, <1>3 DEF SetFatStray

LEMMA AllocType == ASSUME TypeInv, Alloc PROVE TypeInv'
<1>1. TypeOK /\ o \in Frames /\ Still /\ pc = "alloc"
  BY DEF TypeInv, TypeOK, DriverOK, Alloc
<1>2. CASE (IOError \/ IOFine) /\ Abort("nospace")
  BY <1>1, <1>2, EndType, IOType, QuietType DEF Answers
<1>3. ASSUME NEW c \in Cluster, IOFine, Calm, SetFat([o EXCEPT !.new = c], c, END, "alloced")
      PROVE  TypeInv'
  <2> DEFINE f == [o EXCEPT !.new = c]
  <2>1. f \in Frames /\ f.want = o.want /\ f.left = o.left
    BY <1>1 DEF Frames
  <2>2. o.want # "none" /\ (o.want = "data" => o.left > 0)
    BY <1>1 DEF TypeInv, Control, InData, DataSteps
  <2> HIDE DEF f
  <2>3. SetFat(f, c, END, "alloced")
    BY <1>3 DEF f
  <2>4. DriverOK' /\ Control' /\ lost' \subseteq Cluster
    BY <1>1, <2>1, <2>2, <2>3, CallType DEF Link, Resume
  <2> QED BY <1>1, <1>3, <2>4, CalmType, IOType, QuietType
<1> QED BY <1>2, <1>3 DEF Alloc

\* Actions that only move free_clusters.
LEMMA CountType ==
  ASSUME TypeOK, UNCHANGED <<fat, disk, crashes, base, torn>>, free_clusters' \in Nat, Calm, IOFine,
         DriverOK', Control', lost' \subseteq Cluster
  PROVE  TypeInv'
<1>1. MediaOK' /\ mishap' \subseteq Hurts /\ errs' \in 0 .. MaxFaults
  BY CalmType, IOType DEF TypeOK, MediaOK
<1> QED BY <1>1 DEF TypeInv, TypeOK, LedgerOK

LEMMA AllocedType == ASSUME TypeInv, Alloced PROVE TypeInv'
<1> DEFINE f == [o EXCEPT !.first = IF @ = 0 THEN o.new ELSE @, !.prev = o.new]
<1>1. /\ TypeOK /\ UNCHANGED <<fat, disk, crashes, base, torn>> /\ Calm /\ IOFine
      /\ o \in Frames /\ o.want # "none" /\ (o.want = "data" => o.left > 0)
  BY DEF TypeInv, TypeOK, DriverOK, Alloced, Control, InData, DataSteps
<1>2. /\ o.new \in {0} \cup Cluster /\ o.prev \in {0} \cup Cluster /\ o.first \in {0} \cup Cluster
      /\ o.want \in {"none", "data", "dir", "ext"}
  BY <1>1 DEF Frames
<1>3. o.cl \in {0, BAD} \cup Cluster /\ o.new \in Link
  <2>1. o.cl \in Number \ {END}
    BY <1>1 DEF Frames
  <2> QED BY <1>2, <2>1 DEF Number, Link, FREE
<1>4. free_clusters' \in Nat
  BY <1>1 DEF Alloced, TypeOK, LedgerOK
<1>5. f \in Frames /\ f.want = o.want /\ f.left = o.left
  <2> DEFINE h == IF o.first = 0 THEN o.new ELSE o.first
  <2>1. h \in {0} \cup Cluster
    BY <1>2
  <2> HIDE DEF h
  <2>2. f = [o EXCEPT !.first = h, !.prev = o.new]
    BY <1>1 DEF h, Frames
  <2>3. f = [o EXCEPT !.first = h, !.prev = o.new] => f \in Frames /\ f.want = o.want /\ f.left = o.left
    <3> HIDE DEF f
    <3> HAVE f = [o EXCEPT !.first = h, !.prev = o.new]
    <3>1. f.want = o.want /\ f.left = o.left
      BY <1>1 DEF Frames
    <3>2. f \in Frames
      BY <1>1, <1>2, <2>1 DEF Frames
    <3> QED BY <3>1, <3>2
  <2> QED BY <2>2, <2>3
<1>6. \/ o.want = "dir" /\ Goto("dots", f)
      \/ o.want = "ext" /\ SetFat(o, o.cl, o.new, "extlinked")
      \/ o.want = "data" /\ SetFat(f, o.prev, o.new, "linked")
      \/ o.want = "data" /\ SetFat(f, o.new, END, "payload")
  BY <1>1, <1>2 DEF Alloced
<1> HIDE DEF f
<1>7. CASE o.want = "dir" /\ Goto("dots", f)
  BY <1>1, <1>4, <1>5, <1>7, GoType, CountType DEF Steps, DataSteps
<1>8. CASE o.want = "ext" /\ SetFat(o, o.cl, o.new, "extlinked")
  BY <1>1, <1>3, <1>4, <1>8, CallType, CountType DEF Resume, DataSteps
<1>9. CASE o.want = "data" /\ SetFat(f, o.prev, o.new, "linked")
  BY <1>1, <1>2, <1>3, <1>4, <1>5, <1>9, CallType, CountType DEF Resume
<1>10. CASE o.want = "data" /\ SetFat(f, o.new, END, "payload")
  BY <1>1, <1>2, <1>4, <1>5, <1>10, CallType, CountType DEF Resume, Link
<1> QED BY <1>6, <1>7, <1>8, <1>9, <1>10

LEMMA LinkedType == ASSUME TypeInv, Linked PROVE TypeInv'
<1> DEFINE k == IF pc = "linked" THEN "payload" ELSE "zero"
<1>1. TypeOK /\ o \in Frames /\ Still /\ Calm /\ IOFine /\ pc \in {"linked", "extlinked"}
      /\ SetFat(o, o.new, END, k)
  BY DEF TypeInv, TypeOK, DriverOK, Linked
<1>2. o.new \in {0} \cup Cluster /\ END \in Link /\ k \in Resume
  BY <1>1 DEF Frames, Link, Resume
<1>3. k \in DataSteps => o.want = "data" /\ o.left > 0
  BY <1>1 DEF TypeInv, Control, InData, DataSteps
<1> HIDE DEF k
<1>4. DriverOK' /\ Control' /\ lost' \subseteq Cluster
  BY <1>1, <1>2, <1>3, CallType DEF DataSteps
<1> QED BY <1>1, <1>4, CalmType, IOType, QuietType

LEMMA SlotType == ASSUME TypeInv, SlotScan \/ SlotOver PROVE TypeInv'
<1>1. TypeOK /\ o \in Frames /\ Still /\ o.cl \in Number
  BY DEF TypeInv, TypeOK, DriverOK, SlotScan, SlotOver, Frames
<1>2. ASSUME NEW c \in {BAD} \cup Cluster, NEW i \in Slot, IOFine, Calm,
             Goto("entry", [o EXCEPT !.at = c, !.index = i])
      PROVE  TypeInv'
  <2>1. [o EXCEPT !.at = c, !.index = i] \in Frames
    BY <1>1, PlaceType
  <2> QED BY <1>1, <1>2, <2>1, GoType, CalmType, IOType, QuietType DEF Steps, DataSteps
<1>3. ASSUME errs' \in 0 .. MaxFaults, mishap' \subseteq Hurts, Goto("alloc", [o EXCEPT !.want = "ext"])
      PROVE  TypeInv'
  <2>1. [o EXCEPT !.want = "ext"] \in Frames /\ [o EXCEPT !.want = "ext"].want = "ext"
    BY <1>1 DEF Frames
  <2>2. DriverOK' /\ Control' /\ lost' \subseteq Cluster
    BY <1>1, <1>3, <2>1, BuildType DEF DataSteps
  <2> QED BY <1>1, <1>3, <2>2, QuietType
<1>4. CASE SlotOver
  <2>1. mishap' \subseteq Hurts
    BY <1>1, <1>4 DEF SlotOver, Hurt, Hurts, TypeOK, LedgerOK
  <2> QED BY <1>1, <1>3, <1>4, <2>1, IOType DEF SlotOver
<1>5. CASE SlotScan
  <2>1. CASE (IOFine \/ IOError) /\ Abort("io")
    BY <1>1, <2>1, EndType, IOType, QuietType DEF Answers
  <2>2. ASSUME NEW n \in Number, GetNext(o.cl, n), Calm,
               IF n = END THEN Goto("alloc", [o EXCEPT !.want = "ext"])
               ELSE Goto("slot", [o EXCEPT !.cl = n, !.steps = @ + 1])
        PROVE  TypeInv'
    <3>1. errs' \in 0 .. MaxFaults /\ mishap' \subseteq Hurts
      BY <1>1, <2>2, GetNextType, CalmType
    <3>2. CASE n = END
      BY <1>3, <2>2, <3>1, <3>2
    <3>3. CASE n # END
      <4>1. [o EXCEPT !.cl = n, !.steps = @ + 1] \in Frames
        BY <1>1, <3>3, WalkOnType
      <4>2. DriverOK' /\ Control' /\ lost' \subseteq Cluster
        BY <1>1, <2>2, <3>3, <4>1, GoType DEF Steps, DataSteps
      <4> QED BY <1>1, <3>1, <4>2, QuietType
    <3> QED BY <3>2, <3>3
  <2> QED BY <1>2, <1>5, <2>1, <2>2, Constants DEF SlotScan
<1> QED BY <1>4, <1>5

LEMMA EmptyType == ASSUME TypeInv, EmptyScan \/ EmptyOver PROVE TypeInv'
<1>1. TypeOK /\ o \in Frames /\ Still /\ o.cl \in Number /\ o.victim \in {0} \cup Cluster
  BY DEF TypeInv, TypeOK, DriverOK, EmptyScan, EmptyOver, Frames
<1>2. ASSUME errs' \in 0 .. MaxFaults, mishap' \subseteq Hurts, Emptied PROVE TypeInv'
  <2>1. [o EXCEPT !.cl = o.victim, !.steps = 0] \in Frames
    BY <1>1, WalkFromType
  <2>2. DriverOK' /\ Control' /\ lost' \subseteq Cluster
    BY <1>1, <1>2, <2>1, GoType DEF Emptied, Steps, DataSteps
  <2> QED BY <1>1, <1>2, <2>2, QuietType
<1>3. ASSUME NEW h \in Hurts, Hurt({h}) PROVE mishap' \subseteq Hurts
  BY <1>1, <1>3 DEF Hurt, TypeOK, LedgerOK
<1>4. CASE EmptyOver
  BY <1>1, <1>2, <1>3, <1>4, IOType DEF EmptyOver, Hurts
<1>5. CASE EmptyScan
  <2>1. CASE (IOFine \/ IOError) /\ Calm /\ Return("notempty")
    BY <1>1, <2>1, EndType, IOType, QuietType DEF Answers
  <2>2. CASE IOFine /\ Hurt({"stray"}) /\ Emptied
    BY <1>1, <1>2, <1>3, <2>2, IOType DEF Hurts
  <2>3. CASE IOFine /\ Calm /\ Emptied
    BY <1>1, <1>2, <2>3, IOType, CalmType
  <2>4. ASSUME NEW n \in Number, GetNext(o.cl, n), Calm,
               IF n = END THEN Emptied ELSE Goto("empty", [o EXCEPT !.cl = n, !.steps = @ + 1])
        PROVE  TypeInv'
    <3>1. errs' \in 0 .. MaxFaults /\ mishap' \subseteq Hurts
      BY <1>1, <2>4, GetNextType, CalmType
    <3>2. CASE n = END
      BY <1>2, <2>4, <3>1, <3>2
    <3>3. CASE n # END
      <4>1. [o EXCEPT !.cl = n, !.steps = @ + 1] \in Frames
        BY <1>1, <3>3, WalkOnType
      <4>2. DriverOK' /\ Control' /\ lost' \subseteq Cluster
        BY <1>1, <2>4, <3>3, <4>1, GoType DEF Steps, DataSteps
      <4> QED BY <1>1, <3>1, <4>2, QuietType
    <3> QED BY <3>2, <3>3
  <2> QED BY <1>5, <2>1, <2>2, <2>3, <2>4 DEF EmptyScan
<1> QED BY <1>4, <1>5

LEMMA FreeStepType == ASSUME TypeInv, FreeStep PROVE TypeInv'
<1>1. TypeOK /\ o \in Frames /\ Still /\ Calm /\ o.cl \in Cluster /\ o.cl \in Number
  BY Constants DEF TypeInv, TypeOK, DriverOK, FreeStep
<1>2. PICK n \in Number : GetNext(o.cl, n)
                          /\ SetFat([o EXCEPT !.next = n, !.steps = @ + 1], o.cl, FREE, "freed")
  BY DEF FreeStep
<1>3. [o EXCEPT !.next = n, !.steps = @ + 1] \in Frames
  <2>1. o.steps + 1 \in Nat
    BY <1>1 DEF Frames
  <2> QED BY ZenonT(30), <1>1, <2>1 DEF Frames
<1>4. DriverOK' /\ Control' /\ lost' \subseteq Cluster
  BY <1>1, <1>2, <1>3, CallType DEF Link, Resume, DataSteps
<1> QED BY <1>1, <1>2, <1>4, GetNextType, CalmType, QuietType

LEMMA FreeEndType == ASSUME TypeInv, FreeStray \/ FreeOver PROVE TypeInv'
<1>1. TypeOK /\ o \in Frames /\ Still /\ IOFine /\ Goto("mark", o)
  BY DEF TypeInv, TypeOK, DriverOK, FreeStray, FreeOver
<1>2. mishap' \subseteq Hurts
  BY <1>1 DEF FreeStray, FreeOver, Hurt, Hurts, TypeOK, LedgerOK
<1>3. DriverOK' /\ Control' /\ lost' \subseteq Cluster
  BY <1>1, GoType DEF Steps, DataSteps
<1> QED BY <1>1, <1>2, <1>3, IOType, QuietType

LEMMA FreedType == ASSUME TypeInv, Freed PROVE TypeInv'
<1>1. TypeOK /\ o \in Frames /\ UNCHANGED <<fat, disk, crashes, base, torn>> /\ Calm /\ IOFine
  BY DEF TypeInv, TypeOK, DriverOK, Freed
<1>2. free_clusters' \in Nat
  BY <1>1, VolumeAssumption DEF Freed, Counted, TypeOK, LedgerOK
<1>3. CASE o.next = END
  BY <1>1, <1>2, <1>3, GoType, CountType DEF Freed, Steps, DataSteps
<1>4. CASE o.next # END
  <2>1. [o EXCEPT !.cl = o.next] \in Frames
    BY <1>1, <1>4 DEF Frames
  <2>2. Goto("free", [o EXCEPT !.cl = o.next])
    BY <1>4 DEF Freed
  <2> QED BY <1>1, <1>2, <2>1, <2>2, GoType, CountType DEF Steps, DataSteps
<1> QED BY <1>3, <1>4

LEMMA CrashType == ASSUME TypeInv, Crash PROVE TypeInv'
<1>1. TypeOK
  BY DEF TypeInv
<1>2. MediaOK'
  BY <1>1 DEF Crash, TypeOK, MediaOK
<1>3. DriverOK' /\ Control'
  BY NoFrameType, NoWriteType DEF Crash, DriverOK, Steps, Answers, Control, InData, DataSteps
<1>4. torn' \subseteq Cluster
  <2>1. torn \subseteq Cluster /\ (pc = "setfat" /\ wr.i > 1 => wr.cl \in Cluster)
    BY <1>1 DEF TypeInv, TypeOK, LedgerOK, Control
  <2> QED BY <2>1 DEF Crash
<1>5. lost' \subseteq Cluster /\ mishap' \subseteq Hurts /\ free_clusters' \in Nat
  BY <1>1, HarmType DEF Crash, Orphans, Allocated, TypeOK, LedgerOK
<1>6. errs' \in 0 .. MaxFaults /\ crashes' \in 0 .. MaxFaults /\ base' = base
  BY <1>1, VolumeAssumption DEF Crash, TypeOK, LedgerOK
<1> QED BY <1>1, <1>2, <1>3, <1>4, <1>5, <1>6 DEF TypeInv, TypeOK, LedgerOK

\* The free entries are finitely many, and no more than there are clusters.
LEMMA FreeFinite ==
  IsFiniteSet(FreeOnes) /\ Cardinality(FreeOnes) \in Nat /\ Cardinality(FreeOnes) <= NumClusters
<1>1. IsFiniteSet(Cluster) /\ Cardinality(Cluster) = NumClusters
  BY FS_Interval, VolumeAssumption DEF Cluster
<1>2. FreeOnes \subseteq Cluster
  BY DEF FreeOnes
<1> QED BY <1>1, <1>2, FS_Subset, FS_CardinalityType

\* The mount counts at most what FSInfo says, and the count at it is taken down.
LEMMA MountType == ASSUME TypeInv, Mount PROVE TypeInv'
<1>1. /\ TypeOK /\ UNCHANGED <<fat, disk, o, wr, ret, crashes, torn, lost>> /\ mishap' = mishap
      /\ pc' \in {"off", "idle"} /\ Control
  BY DEF TypeInv, Mount, Calm
<1>2. MediaOK' /\ DriverOK'
  BY <1>1 DEF TypeOK, MediaOK, DriverOK, Steps
<1>3. Control'
  BY <1>1 DEF Control, InData, DataSteps
<1>4. errs' \in 0 .. MaxFaults /\ free_clusters' \in Nat
  BY <1>1, VolumeAssumption DEF Mount, IOFine, IOError, TypeOK, LedgerOK
<1>5. base' \in [errs : 0 .. MaxFaults, count : Nat, free : Nat]
  BY <1>1, <1>4, FreeFinite DEF Mount, TypeOK, LedgerOK
<1> QED BY <1>1, <1>2, <1>3, <1>4, <1>5 DEF TypeInv, TypeOK, LedgerOK

\* Every call starts with a lookup in an existing directory.
LEMMA LiveDirType == ASSUME TypeOK PROVE LiveDirs \subseteq {0} \cup Cluster
<1>1. \A p \in LiveSlots : EntryAt(p) \in Entry
  BY DEF LiveSlots, EntryAt, TypeOK, MediaOK
<1>2. \A p \in LiveSlots : EntryAt(p).first \in {0} \cup Cluster
  BY <1>1 DEF Entry
<1> QED BY <1>2, Constants DEF LiveDirs

LEMMA FrameType ==
  ASSUME NEW k \in Kinds, NEW d \in {0} \cup Cluster, NEW n \in Names
  PROVE  Frame(k, d, n) \in Frames
<1>1. d \in Number \ {END}
  BY Constants DEF Number, Link, FREE
<1> QED BY <1>1, NoFrameType DEF Frame, Frames

LEMMA BeginType == ASSUME TypeInv, NEW f \in Frames, Begin(f) PROVE TypeInv'
<1>1. TypeOK /\ Still /\ Calm /\ IOFine
  BY DEF TypeInv, Begin
<1>2. DriverOK' /\ Control' /\ lost' \subseteq Cluster
  BY <1>1 DEF Begin, TypeOK, DriverOK, LedgerOK, Steps, Answers, Control, InData, DataSteps
<1> QED BY <1>1, <1>2, CalmType, IOType, QuietType

LEMMA CallsType == ASSUME TypeInv, Call PROVE TypeInv'
<1>1. LiveDirs \subseteq {0} \cup Cluster
  BY LiveDirType DEF TypeInv
<1>2. ASSUME NEW d \in LiveDirs, NEW n \in Names, Mkdir(d, n) \/ Unlink(d, n) \/ Rmdir(d, n)
      PROVE  TypeInv'
  BY <1>1, <1>2, FrameType, BeginType DEF Mkdir, Unlink, Rmdir, Kinds
<1>3. ASSUME NEW d \in LiveDirs, NEW n \in Names, NEW len \in 0 .. MaxLen, NEW x \in Data,
             WriteFile(d, n, len, x)
      PROVE  TypeInv'
  <2>1. Frame("write", d, n) \in Frames
    BY <1>1, FrameType DEF Kinds
  <2>2. [Frame("write", d, n) EXCEPT !.len = len, !.left = len, !.buf = x] \in Frames
    BY ZenonT(30), <2>1 DEF Frames
  <2> QED BY <1>3, <2>2, BeginType DEF WriteFile
<1>4. ASSUME NEW d \in LiveDirs, NEW n \in Names, NEW td \in LiveDirs, NEW tn \in Names,
             CopyFile(d, n, td, tn)
      PROVE  TypeInv'
  <2>1. Frame("copy", d, n) \in Frames
    BY <1>1, FrameType DEF Kinds
  <2>2. [Frame("copy", d, n) EXCEPT !.tdir = td, !.tname = tn] \in Frames
    BY <1>1, <2>1 DEF Frames
  <2> QED BY <1>4, <2>2, BeginType DEF CopyFile
<1> QED BY <1>2, <1>3, <1>4 DEF Call

LEMMA StutterType == ASSUME TypeInv, UNCHANGED vars PROVE TypeInv'
  BY DEF TypeInv, TypeOK, MediaOK, DriverOK, LedgerOK, Control, InData, vars

LEMMA NextType == ASSUME TypeInv, [Next]_vars PROVE TypeInv'
<1>1. CASE Step
  BY <1>1, FindType, DataDoneType, WriteMoreType, CopyMoreType, WritePayloadType, WriteDotsType,
     SetFatCopyType, SetFatStrayType, AllocType, AllocedType, LinkedType, SlotType, WriteZeroesType,
     WriteEntryType, EmptyType, FreeStepType, FreeEndType, FreedType, MarkDeletedType DEF Step
<1> QED BY <1>1, CallsType, CrashType, MountType, StutterType DEF Next

\* Whatever is called, fails or is cut short, the disk, the driver's variables and the
\* counters stay in their types: TypeOK holds for every volume.
THEOREM TypeCorrect == Spec => []TypeOK
<1>1. Spec => []TypeInv
  BY InitType, NextType, PTL DEF Spec
<1>2. TypeInv => TypeOK
  BY DEF TypeInv
<1> QED BY <1>1, <1>2, PTL

----------------------------------------------------------------------------
(* The copies of the FAT.  MirrorsAgree is not inductive: that the last copy written  *)
(* makes all of them equal rests on what the earlier iterations of the loop wrote.    *)

WrittenSoFar == pc = "setfat" => \A j \in Copy : j < wr.i => fat[j][wr.cl] = wr.val

MirrorInv == TypeInv /\ MirrorsAgree /\ WrittenSoFar

\* What every action but a FAT write and a power cut does to the copies: nothing.
FatQuiet == UNCHANGED <<fat, torn>> /\ (pc' = "setfat" => wr'.i = 1)
Quiescent == pc # "setfat" \/ wr.cl \notin Cluster

LEMMA InitMirror == Init => MirrorInv
<1> SUFFICES ASSUME Init PROVE MirrorInv
  OBVIOUS
<1>1. MirrorsAgree
  BY Constants DEF Init, MirrorsAgree
<1>2. WrittenSoFar
  BY DEF Init, WrittenSoFar
<1> QED BY <1>1, <1>2, InitType DEF MirrorInv

LEMMA QuietMirror == ASSUME MirrorInv, TypeInv', FatQuiet, Quiescent PROVE MirrorInv'
<1>1. \A c \in Cluster \ torn, i \in Copy : fat[i][c] = fat[1][c]
  BY DEF MirrorInv, MirrorsAgree, Quiescent
<1>2. MirrorsAgree'
  BY <1>1 DEF MirrorsAgree, FatQuiet
<1>3. WrittenSoFar'
  <2>1. ASSUME pc' = "setfat", NEW j \in Copy, j < 1 PROVE FALSE
    BY <2>1 DEF Copy
  <2> QED BY <2>1 DEF WrittenSoFar, FatQuiet
<1> QED BY <1>2, <1>3 DEF MirrorInv

LEMMA CallQuiet == ASSUME Call PROVE FatQuiet /\ Quiescent
  BY DEF Call, Mkdir, Unlink, Rmdir, WriteFile, CopyFile, Begin, Still, FatQuiet, Quiescent

LEMMA FindQuiet == ASSUME FindScan \/ FindOver PROVE FatQuiet /\ Quiescent
<1>1. NotFound => pc' # "setfat"
  BY DEF NotFound, Goto, Return
<1>2. \A c \in Cluster, i \in Slot : Found(c, i) => pc' # "setfat"
  BY DEF Found, Goto, Return
<1>3. Still /\ pc = "find" /\ pc' # "setfat"
  BY <1>1, <1>2 DEF FindScan, FindOver, Goto
<1> QED BY <1>3 DEF Still, FatQuiet, Quiescent

LEMMA DataQuiet ==
  ASSUME DataDone \/ WriteMore \/ CopyMore \/ WritePayload \/ WriteDots
  PROVE  FatQuiet /\ Quiescent
  BY DEF DataDone, WriteMore, CopyMore, WritePayload, WriteDots, Still, Goto, Abort, Return,
         FatQuiet, Quiescent

LEMMA StrayQuiet == ASSUME TypeInv, SetFatStray PROVE FatQuiet /\ Quiescent
<1>1. wr.then # "setfat"
  BY DEF TypeInv, Control, SetFatStray, Resume
<1> QED BY <1>1 DEF SetFatStray, Still, Goto, Abort, Return, FatQuiet, Quiescent

LEMMA AllocQuiet == ASSUME Alloc \/ Alloced \/ Linked PROVE FatQuiet /\ Quiescent
<1>1. CASE Alloc
  BY <1>1 DEF Alloc, Still, SetFat, Abort, Return, FatQuiet, Quiescent
<1>2. CASE Alloced
  BY <1>2 DEF Alloced, SetFat, Goto, FatQuiet, Quiescent
<1>3. CASE Linked
  BY <1>3 DEF Linked, Still, SetFat, FatQuiet, Quiescent
<1> QED BY <1>1, <1>2, <1>3

LEMMA DirQuiet ==
  ASSUME SlotScan \/ SlotOver \/ WriteZeroes \/ WriteEntry \/ EmptyScan \/ EmptyOver \/ MarkDeleted
  PROVE  FatQuiet /\ Quiescent
<1>1. CASE SlotScan \/ SlotOver
  BY <1>1 DEF SlotScan, SlotOver, Still, Goto, Abort, Return, FatQuiet, Quiescent
<1>2. CASE WriteZeroes \/ WriteEntry \/ MarkDeleted
  BY <1>2 DEF WriteZeroes, WriteEntry, MarkDeleted, Goto, Abort, Return, FatQuiet, Quiescent
<1>3. CASE EmptyScan \/ EmptyOver
  BY <1>3 DEF EmptyScan, EmptyOver, Emptied, Still, Goto, Return, FatQuiet, Quiescent
<1> QED BY <1>1, <1>2, <1>3

LEMMA FreeQuiet == ASSUME FreeStep \/ FreeStray \/ FreeOver \/ Freed PROVE FatQuiet /\ Quiescent
<1>1. CASE FreeStep
  <2>1. pc = "free" /\ UNCHANGED <<fat, torn>>
    BY <1>1 DEF FreeStep, Still
  <2>2. \E f : SetFat(f, o.cl, FREE, "freed")
    BY <1>1 DEF FreeStep
  <2>3. wr'.i = 1
    BY <2>2 DEF SetFat
  <2> QED BY <2>1, <2>3 DEF FatQuiet, Quiescent
<1>2. CASE FreeStray \/ FreeOver \/ Freed
  <2>1. pc # "setfat" /\ UNCHANGED <<fat, torn>>
    BY <1>2 DEF FreeStray, FreeOver, Freed, Still
  <2>2. pc' # "setfat"
    BY <1>2 DEF FreeStray, FreeOver, Freed, Goto
  <2> QED BY <2>1, <2>2 DEF FatQuiet, Quiescent
<1> QED BY <1>1, <1>2

LEMMA WriteMirror == ASSUME MirrorInv, TypeInv', SetFatCopy PROVE MirrorInv'
<1> DEFINE done == [fat EXCEPT ![wr.i][wr.cl] = wr.val]
<1>1. /\ pc = "setfat" /\ wr.cl \in Cluster /\ wr.i \in Copy /\ wr.then # "setfat"
      /\ fat \in [Copy -> [Cluster -> Link]] /\ 1 \in Copy
  BY Constants DEF MirrorInv, TypeInv, TypeOK, MediaOK, DriverOK, Writes, Control, Resume, SetFatCopy
<1>2. /\ \A i \in Copy, c \in Cluster :
           done[i][c] = IF i = wr.i /\ c = wr.cl THEN wr.val ELSE fat[i][c]
  BY <1>1
<1> HIDE DEF done
<1>3. \A c \in Cluster \ (torn \cup {wr.cl}), i \in Copy : fat[i][c] = fat[1][c]
  BY <1>1 DEF MirrorInv, MirrorsAgree
<1>4. \A c \in Cluster \ (torn \cup {wr.cl}), i \in Copy : fat'[i][c] = fat'[1][c]
  <2>1. fat' \in {fat, done}
    BY DEF SetFatCopy, done
  <2> QED BY <1>1, <1>2, <1>3, <2>1
<1>5. CASE wr.i < NumFats /\ fat' = done /\ wr' = [wr EXCEPT !.i = @ + 1] /\ UNCHANGED <<pc, torn>>
  <2>1. wr'.i = wr.i + 1 /\ wr'.cl = wr.cl /\ wr'.val = wr.val /\ wr.i + 1 > 1
    BY <1>1, <1>5 DEF MirrorInv, TypeInv, TypeOK, DriverOK, Writes, Copy
  <2>2. MirrorsAgree'
    BY <1>1, <1>4, <1>5, <2>1 DEF MirrorsAgree
  <2>3. ASSUME NEW j \in Copy, j < wr.i + 1 PROVE fat'[j][wr.cl] = wr.val
    <3>1. j = wr.i \/ j < wr.i
      BY <1>1, <2>3 DEF Copy
    <3> QED BY <1>1, <1>2, <1>5, <3>1 DEF MirrorInv, WrittenSoFar
  <2> QED BY <2>1, <2>2, <2>3 DEF MirrorInv, WrittenSoFar
<1>6. CASE wr.i = NumFats /\ fat' = done /\ torn' = torn \ {wr.cl} /\ pc' # "setfat"
  <2>1. ASSUME NEW j \in Copy PROVE fat'[j][wr.cl] = wr.val
    <3>1. j = wr.i \/ j < wr.i
      BY <1>1, <1>6, VolumeAssumption DEF Copy
    <3> QED BY <1>1, <1>2, <1>6, <3>1 DEF MirrorInv, WrittenSoFar
  <2>2. MirrorsAgree'
    BY <1>1, <1>4, <1>6, <2>1 DEF MirrorsAgree
  <2> QED BY <1>6, <2>2 DEF MirrorInv, WrittenSoFar
<1>7. CASE torn' = torn \cup {wr.cl} /\ pc' # "setfat"
  BY <1>4, <1>7 DEF MirrorInv, MirrorsAgree, WrittenSoFar
<1> QED BY <1>1, <1>5, <1>6, <1>7 DEF SetFatCopy, done, Goto, Abort, Return

LEMMA CrashMirror == ASSUME MirrorInv, TypeInv', Crash PROVE MirrorInv'
  BY DEF MirrorInv, MirrorsAgree, WrittenSoFar, Crash

LEMMA StutterMirror == ASSUME MirrorInv, TypeInv', UNCHANGED vars PROVE MirrorInv'
  BY DEF MirrorInv, MirrorsAgree, WrittenSoFar, vars

LEMMA MountMirror == ASSUME MirrorInv, TypeInv', Mount PROVE MirrorInv'
  BY QuietMirror DEF Mount, FatQuiet, Quiescent

LEMMA NextMirror == ASSUME MirrorInv, [Next]_vars PROVE MirrorInv'
<1>1. TypeInv /\ TypeInv'
  BY NextType DEF MirrorInv
<1>2. CASE FatQuiet /\ Quiescent
  BY <1>1, <1>2, QuietMirror
<1>3. CASE Step
  BY <1>1, <1>2, <1>3, FindQuiet, DataQuiet, StrayQuiet, AllocQuiet, DirQuiet, FreeQuiet, WriteMirror
     DEF Step
<1> QED BY <1>1, <1>2, <1>3, CallQuiet, CrashMirror, MountMirror, StutterMirror DEF Next

\* Whatever is called and wherever the power goes, the FAT copies differ only on the entry
\* being written and on those an interrupted or failed write left apart: MirrorsAgree.
THEOREM MirrorsSafe == Spec => []MirrorsAgree
<1>1. Spec => []MirrorInv
  BY InitMirror, NextMirror, PTL DEF Spec
<1>2. MirrorInv => MirrorsAgree
  BY DEF MirrorInv
<1> QED BY <1>1, <1>2, PTL

----------------------------------------------------------------------------
(* Chains.  What the pointers of a volume are at any write, and what the operation in  *)
(* progress may rely on.                                                               *)

\* Each cluster has at most one pointer leading to it, and the root has none.
OneOwner ==
  /\ \A c, d \in FatLinks : fat[1][c] = fat[1][d] => c = d
  /\ \A p, q \in HeadSlots : EntryAt(p).first = EntryAt(q).first => p = q
  /\ \A c \in FatLinks, p \in HeadSlots : fat[1][c] # EntryAt(p).first
  /\ Root \notin Targets

Clean == OneOwner /\ Root \notin FreeOnes /\ Targets \cap FreeOnes = {}

LEMMA TargetsAre ==
  ASSUME NEW t
  PROVE  t \in Targets <=> \/ \E c \in FatLinks : fat[1][c] = t
                           \/ \E p \in HeadSlots : EntryAt(p).first = t
  BY DEF Targets

\* One entry of the first copy is overwritten.
FatWrite(c, v) == fat'[1] = [fat[1] EXCEPT ![c] = v] /\ disk' = disk

LEMMA FatWriteSets ==
  ASSUME MediaOK, NEW c \in Cluster, NEW v \in Link, FatWrite(c, v)
  PROVE  /\ \A d \in Cluster : fat'[1][d] = IF d = c THEN v ELSE fat[1][d]
         /\ FatLinks' = (IF v \in Cluster THEN FatLinks \cup {c} ELSE FatLinks \ {c})
         /\ FreeOnes' = (IF v = FREE THEN FreeOnes \cup {c} ELSE FreeOnes \ {c})
         /\ HeadSlots' = HeadSlots /\ \A p : EntryAt(p)' = EntryAt(p)
<1>1. fat[1] \in [Cluster -> Link]
  BY Constants DEF MediaOK
<1>2. \A d \in Cluster : fat'[1][d] = IF d = c THEN v ELSE fat[1][d]
  BY <1>1 DEF FatWrite
<1>3. FatLinks' = (IF v \in Cluster THEN FatLinks \cup {c} ELSE FatLinks \ {c})
  BY <1>2 DEF FatLinks
<1>4. FreeOnes' = (IF v = FREE THEN FreeOnes \cup {c} ELSE FreeOnes \ {c})
  BY <1>2 DEF FreeOnes
<1>5. HeadSlots' = HeadSlots /\ \A p : EntryAt(p)' = EntryAt(p)
  BY DEF FatWrite, HeadSlots, LiveSlots, EntryAt
<1> QED BY <1>2, <1>3, <1>4, <1>5

\* An end mark or a free mark takes one link away.
LEMMA CutLink ==
  ASSUME MediaOK, OneOwner, NEW c \in Cluster, NEW v \in {FREE, END}, FatWrite(c, v)
  PROVE  /\ OneOwner' /\ Targets' \subseteq Targets
         /\ FreeOnes' = (IF v = FREE THEN FreeOnes \cup {c} ELSE FreeOnes \ {c})
         /\ fat[1][c] \notin Targets'
<1>1. v \in Link /\ v \notin Cluster
  BY Constants DEF Link, FREE
<1>2. /\ \A d \in Cluster : fat'[1][d] = IF d = c THEN v ELSE fat[1][d]
      /\ FatLinks' = FatLinks \ {c}
      /\ FreeOnes' = (IF v = FREE THEN FreeOnes \cup {c} ELSE FreeOnes \ {c})
      /\ HeadSlots' = HeadSlots /\ \A p : EntryAt(p)' = EntryAt(p)
  BY <1>1, FatWriteSets
<1>3. FatLinks \subseteq Cluster
  BY DEF FatLinks
<1>4. \A d \in FatLinks' : d \in FatLinks /\ d # c /\ fat'[1][d] = fat[1][d]
  BY <1>2, <1>3
<1>5. \A t : t \in Targets' <=> \/ \E d \in FatLinks' : fat'[1][d] = t
                                \/ \E p \in HeadSlots' : EntryAt(p)' = EntryAt(p) /\ EntryAt(p)'.first = t
  BY <1>2 DEF Targets
<1>6. Targets' \subseteq Targets
  BY <1>2, <1>4, <1>5, TargetsAre
<1>7. fat[1][c] \notin Targets'
  <2>1. SUFFICES ASSUME fat[1][c] \in Targets' PROVE FALSE
    OBVIOUS
  <2>2. CASE c \in FatLinks
    BY <1>2, <1>4, <1>5, <2>1, <2>2 DEF OneOwner
  <2>3. CASE c \notin FatLinks
    <3>1. fat[1][c] \notin Cluster
      BY <2>3 DEF FatLinks
    <3>2. fat[1][c] \in Cluster
      <4>1. \A p \in HeadSlots : EntryAt(p).first \in Cluster
        BY DEF HeadSlots, LiveSlots, EntryAt, MediaOK, Entry, Live
      <4>2. \A d \in FatLinks : fat[1][d] \in Cluster
        BY DEF FatLinks
      <4> QED BY <1>6, <2>1, <4>1, <4>2, TargetsAre
    <3> QED BY <3>1, <3>2
  <2> QED BY <2>2, <2>3
<1>8. OneOwner'
  BY <1>2, <1>4, <1>6 DEF OneOwner
<1> QED BY <1>2, <1>6, <1>7, <1>8

\* A link to a cluster that nobody leads to.
LEMMA AddLink ==
  ASSUME MediaOK, OneOwner, NEW c \in Cluster, NEW v \in Cluster, FatWrite(c, v),
         v \notin Targets, v # Root
  PROVE  OneOwner' /\ Targets' \subseteq Targets \cup {v} /\ FreeOnes' = FreeOnes \ {c}
<1>1. v \in Link /\ v # FREE
  BY Constants DEF Link, FREE
<1>2. /\ \A d \in Cluster : fat'[1][d] = IF d = c THEN v ELSE fat[1][d]
      /\ FatLinks' = FatLinks \cup {c}
      /\ FreeOnes' = FreeOnes \ {c}
      /\ HeadSlots' = HeadSlots /\ \A p : EntryAt(p)' = EntryAt(p)
  BY <1>1, FatWriteSets
<1>3. FatLinks \subseteq Cluster
  BY DEF FatLinks
<1>4. fat'[1][c] = v /\ \A d \in FatLinks' : d = c \/ (d \in FatLinks /\ fat'[1][d] = fat[1][d])
  BY <1>2, <1>3
<1>5. \A t : t \in Targets' <=> \/ \E d \in FatLinks' : fat'[1][d] = t
                                \/ \E p \in HeadSlots' : EntryAt(p)' = EntryAt(p) /\ EntryAt(p)'.first = t
  BY <1>2 DEF Targets
<1>6. Targets' \subseteq Targets \cup {v}
  BY <1>2, <1>4, <1>5, TargetsAre
<1>7. OneOwner'
  <2>1. \A d \in FatLinks : fat[1][d] # v
    BY TargetsAre
  <2>2. \A p \in HeadSlots : EntryAt(p).first # v
    BY TargetsAre
  <2>3. Root \notin Targets'
    BY <1>6 DEF OneOwner
  <2>4. \A d, e \in FatLinks' : fat'[1][d] = fat'[1][e] => d = e
    BY <1>4, <2>1 DEF OneOwner
  <2>5. \A d \in FatLinks', p \in HeadSlots' : fat'[1][d] # EntryAt(p)'.first
    BY <1>2, <1>4, <2>2 DEF OneOwner
  <2>6. \A p, q \in HeadSlots' : EntryAt(p)'.first = EntryAt(q)'.first => p = q
    BY <1>2 DEF OneOwner
  <2> QED BY <2>3, <2>4, <2>5, <2>6 DEF OneOwner
<1> QED BY <1>2, <1>6, <1>7

\* Entries change: what stays or is gone leaves each cluster at most its old pointer.
LEMMA FewerHeads ==
  ASSUME OneOwner, fat' = fat,
         \A p \in HeadSlots' : p \in HeadSlots /\ EntryAt(p)' = EntryAt(p)
  PROVE  OneOwner' /\ Targets' \subseteq Targets /\ FreeOnes' = FreeOnes
         /\ \A p \in HeadSlots \ HeadSlots' : EntryAt(p).first \notin Targets'
<1>1. FatLinks' = FatLinks /\ FreeOnes' = FreeOnes
  BY DEF FatLinks, FreeOnes
<1>2. \A t : t \in Targets' <=> \/ \E d \in FatLinks' : fat'[1][d] = t
                                \/ \E p \in HeadSlots' : EntryAt(p)' = EntryAt(p) /\ EntryAt(p)'.first = t
  BY DEF Targets
<1>3. Targets' \subseteq Targets
  BY <1>1, <1>2, TargetsAre
<1>4. \A p \in HeadSlots \ HeadSlots' : EntryAt(p).first \notin Targets'
  BY <1>1, <1>2 DEF OneOwner
<1>5. OneOwner'
  BY <1>1, <1>3 DEF OneOwner
<1> QED BY <1>1, <1>3, <1>4, <1>5

\* One entry more, or another one in its place, that leads to a cluster without a pointer.
LEMMA OneMoreHead ==
  ASSUME OneOwner, fat' = fat, NEW q, NEW v, v # Root, v \notin Targets,
         \A p \in HeadSlots' : \/ p = q /\ EntryAt(p)'.first = v
                               \/ p \in HeadSlots /\ EntryAt(p)' = EntryAt(p)
  PROVE  OneOwner' /\ Targets' \subseteq Targets \cup {v} /\ FreeOnes' = FreeOnes
<1>1. FatLinks' = FatLinks /\ FreeOnes' = FreeOnes
  BY DEF FatLinks, FreeOnes
<1>2. \A t : t \in Targets' <=> \/ \E d \in FatLinks' : fat'[1][d] = t
                                \/ \E p \in HeadSlots' : EntryAt(p)'.first = t
  BY DEF Targets
<1>3. Targets' \subseteq Targets \cup {v}
  BY <1>1, <1>2, TargetsAre
<1>4. \A d \in FatLinks : fat[1][d] # v
  BY TargetsAre
<1>5. \A p \in HeadSlots : EntryAt(p).first # v
  BY TargetsAre
<1>6. \A p, r \in HeadSlots' : EntryAt(p)'.first = EntryAt(r)'.first => p = r
  BY <1>5 DEF OneOwner
<1>7. \A d \in FatLinks', p \in HeadSlots' : fat'[1][d] # EntryAt(p)'.first
  BY <1>1, <1>4 DEF OneOwner
<1> QED BY <1>1, <1>3, <1>6, <1>7 DEF OneOwner

----------------------------------------------------------------------------
(* What each point of an operation knows. *)

Writing(K) == pc = "setfat" /\ wr.then \in K
Removing   == pc \in {"empty", "free", "freed", "mark"} \/ Writing({"freed"})
Creating   == pc \in {"data", "alloc", "dots", "slot", "entry"} \cup (Resume \ {"freed"})
              \/ Writing(Resume \ {"freed"})

\* Which operation is where, and what its fat32_set_fat_entry call is to write.
Course ==
  /\ Removing => o.kind \in Removals
  /\ Creating => o.kind \notin Removals
  /\ ~Creating => o.first = 0
  /\ o.first = 0 => o.prev = 0
  /\ Writing({"alloced", "payload", "zero"}) => wr.cl = o.new /\ wr.val = END
  /\ Writing({"linked", "extlinked"}) => wr.val = o.new
  /\ Writing({"freed"}) => wr.cl = o.cl /\ wr.val = FREE /\ o.steps > 0
  /\ pc = "freed" => o.steps > 0

Unclaimed(c) == c \in Cluster /\ c \notin Targets /\ c # Root

\* The cluster just taken is nobody's until it is linked.
NewInv ==
  /\ pc = "alloced" \/ Writing({"alloced"}) => Unclaimed(o.new) /\ o.new # o.first
  /\ pc = "alloced" \/ (Writing({"alloced"}) /\ wr.i > 1) => o.new \notin FreeOnes
  /\ Writing({"linked", "extlinked"}) =>
       /\ o.new \in Cluster \ FreeOnes /\ o.new # o.first /\ o.new # Root
       /\ wr.i = 1 => o.new \notin Targets

\* The head of the chain being built is nobody's until the entry is written.
FirstInv == o.first # 0 => Unclaimed(o.first) /\ o.first \notin FreeOnes

\* A removal frees the chain of the entry it found, and behind it nobody leads there.
Victim == EntryAt(<<o.at, o.index>>)
Unread == pc = "free" \/ (Writing({"freed"}) /\ wr.i = 1)
RemoveInv ==
  /\ Removing => o.at \in Cluster /\ Victim.kind \in Live /\ Victim.first = o.victim
  /\ Unread /\ o.cl \in Cluster => o.cl # Root /\ (o.cl \in Targets => o.cl = o.victim)
  /\ Writing({"freed"}) /\ wr.i = 1 => o.next \in {fat[1][o.cl], BAD}
  /\ (Writing({"freed"}) /\ wr.i > 1) \/ pc = "freed" => (o.next \in Cluster => Unclaimed(o.next))

OnlyVictimDangles == \A c \in Targets \cap FreeOnes : FreeWindow /\ c = o.victim

\* Nothing more is claimed once a cut left an entry dangling or a stray cluster was written;
\* a scan that stopped at its bound does no harm here.
Sound == mishap \subseteq {"overlong"}

Chains ==
  Sound => /\ OneOwner /\ Root \notin FreeOnes /\ OnlyVictimDangles
           /\ NewInv /\ FirstInv /\ RemoveInv

ChainInv == TypeInv /\ Course /\ Chains

----------------------------------------------------------------------------
(* The ways in which a step ends. *)

LEMMA PointersStill ==
  ASSUME fat'[1] = fat[1], disk' = disk
  PROVE  /\ FatLinks' = FatLinks /\ FreeOnes' = FreeOnes /\ HeadSlots' = HeadSlots
         /\ Targets' = Targets /\ (OneOwner' <=> OneOwner) /\ (Clean' <=> Clean)
         /\ \A p : EntryAt(p)' = EntryAt(p)
<1>1. /\ FatLinks' = FatLinks /\ FreeOnes' = FreeOnes /\ HeadSlots' = HeadSlots /\ Targets' = Targets
      /\ \A p : EntryAt(p)' = EntryAt(p)
  BY DEF FatLinks, FreeOnes, HeadSlots, LiveSlots, EntryAt, Targets
<1>2. OneOwner' <=> OneOwner
  BY DEF OneOwner, FatLinks, HeadSlots, LiveSlots, EntryAt, Targets
<1> QED BY <1>1, <1>2 DEF Clean

LEMMA MishapGrows == ASSUME Next PROVE mishap \subseteq mishap'
<1>1. CASE Call \/ Mount \/ Crash
  BY <1>1 DEF Call, Mount, Crash, Mkdir, Unlink, Rmdir, WriteFile, CopyFile, Begin, Calm
<1>2. CASE Step
  <2>1. CASE FindScan \/ FindOver \/ DataDone \/ WriteMore \/ Alloced \/ Linked \/ FreeStep \/ Freed
    BY <2>1 DEF FindScan, FindOver, DataDone, WriteMore, Alloced, Linked, FreeStep, Freed, Calm
  <2>2. CASE CopyMore \/ WritePayload \/ WriteDots \/ SetFatCopy \/ SetFatStray \/ Alloc
    BY <2>2 DEF CopyMore, WritePayload, WriteDots, SetFatCopy, SetFatStray, Alloc, Calm, Abort, Hurt
  <2>3. CASE SlotScan \/ SlotOver \/ WriteZeroes \/ WriteEntry
    BY <2>3 DEF SlotScan, SlotOver, WriteZeroes, WriteEntry, Calm, Abort, Hurt
  <2>4. CASE EmptyScan \/ EmptyOver \/ FreeStray \/ FreeOver \/ MarkDeleted
    BY <2>4 DEF EmptyScan, EmptyOver, FreeStray, FreeOver, MarkDeleted, Calm, Abort, Hurt
  <2> QED BY <1>2, <2>1, <2>2, <2>3, <2>4 DEF Step
<1> QED BY <1>1, <1>2 DEF Next

LEMMA SoundBefore == ASSUME Next, Sound' PROVE Sound
  BY MishapGrows DEF Sound

\* Outside a removal nothing dangles.
LEMMA ChainsClean ==
  ASSUME Course, Chains, Sound, ~FreeWindow
  PROVE  Clean
  BY DEF Chains, OnlyVictimDangles, Clean

LEMMA CreatingWindow == ASSUME TypeInv, Course, ~Removing PROVE ~FreeWindow
<1>1. CASE pc = "setfat"
  <2>1. Creating
    BY <1>1 DEF TypeInv, Control, Removing, Creating, Writing
  <2> QED BY <2>1 DEF Course, FreeWindow
<1>2. CASE pc # "setfat"
  BY <1>2 DEF Removing, FreeWindow
<1> QED BY <1>1, <1>2

\* An operation is over, or looks up a name.
LEMMA RestChains ==
  ASSUME TypeInv', pc' \in {"idle", "off", "find"}, o'.first = 0, o'.prev = 0, Sound' => Clean'
  PROVE  ChainInv'
<1>1. ~Removing' /\ ~Creating' /\ ~Unread' /\ \A K : ~Writing(K)'
  BY DEF Removing, Creating, Writing, Unread, Resume
<1>2. Course'
  BY <1>1 DEF Course
<1>3. Chains'
  BY <1>1 DEF Chains, NewInv, FirstInv, RemoveInv, Clean, OnlyVictimDangles
<1> QED BY <1>2, <1>3 DEF ChainInv

\* An operation that builds something goes on.
LEMMA GrowChains ==
  ASSUME TypeInv',
         pc' \in {"data", "alloc", "payload", "dots", "slot", "zero", "entry", "linked", "extlinked"},
         o'.kind \notin Removals, o'.first = 0 => o'.prev = 0, Sound' => Clean' /\ FirstInv'
  PROVE  ChainInv'
<1>1. ~Removing' /\ ~Unread' /\ pc' # "alloced" /\ \A K : ~Writing(K)'
  BY DEF Removing, Writing, Unread
<1>2. Creating'
  BY DEF Creating, Resume
<1>3. Course'
  BY <1>1, <1>2 DEF Course
<1>4. Chains'
  BY <1>1 DEF Chains, NewInv, RemoveInv, Clean, OnlyVictimDangles
<1> QED BY <1>3, <1>4 DEF ChainInv

\* It calls fat32_set_fat_entry.
LEMMA GrowCallChains ==
  ASSUME TypeInv', pc' = "setfat", wr'.then \in Resume \ {"freed"},
         o'.kind \notin Removals, o'.first = 0 => o'.prev = 0,
         wr'.then \in {"alloced", "payload", "zero"} => wr'.cl = o'.new /\ wr'.val = END,
         wr'.then \in {"linked", "extlinked"} => wr'.val = o'.new,
         Sound' => Clean' /\ FirstInv' /\ NewInv'
  PROVE  ChainInv'
<1>1. ~Removing' /\ ~Unread' /\ ~Writing({"freed"})' /\ Creating'
  BY DEF Removing, Writing, Unread, Creating, Resume
<1>2. Course'
  BY <1>1 DEF Course, Writing
<1>3. Chains'
  BY <1>1 DEF Chains, RemoveInv, Clean, OnlyVictimDangles
<1> QED BY <1>2, <1>3 DEF ChainInv

\* A removal goes on.
LEMMA RemoveChains ==
  ASSUME TypeInv', Removing', o'.kind \in Removals, o'.first = 0, o'.prev = 0,
         Writing({"freed"})' => wr'.cl = o'.cl /\ wr'.val = FREE /\ o'.steps > 0,
         pc' = "freed" => o'.steps > 0,
         Sound' => OneOwner' /\ Root \notin FreeOnes' /\ OnlyVictimDangles' /\ RemoveInv'
  PROVE  ChainInv'
<1>1. /\ ~Creating' /\ pc' # "alloced"
      /\ ~Writing({"alloced"})' /\ ~Writing({"linked", "extlinked"})'
      /\ ~Writing({"alloced", "payload", "zero"})'
  BY DEF Removing, Writing, Creating, Resume
<1>2. Course'
  BY <1>1 DEF Course
<1>3. Chains'
  BY <1>1 DEF Chains, NewInv, FirstInv
<1> QED BY <1>2, <1>3 DEF ChainInv

LEMMA InitChains == Init => ChainInv
<1> SUFFICES ASSUME Init PROVE ChainInv
  OBVIOUS
<1>0. TypeInv
  BY InitType
<1>1. FatLinks = {} /\ HeadSlots = {} /\ Root \notin FreeOnes
  BY Constants DEF Init, FatLinks, HeadSlots, LiveSlots, EntryAt, FreeOnes, Zeroed, Blank, Live, FREE, END
<1>2. Targets = {}
  BY <1>1 DEF Targets
<1>3. OneOwner
  BY <1>1, <1>2 DEF OneOwner
<1>4. /\ ~Removing /\ ~Creating /\ ~Unread /\ \A K : ~Writing(K)
      /\ o.first = 0 /\ o.prev = 0 /\ pc = "off"
  BY DEF Init, Removing, Creating, Writing, Unread, Resume, NoFrame
<1>5. Course
  BY <1>4 DEF Course
<1>6. Chains
  BY <1>1, <1>2, <1>3, <1>4 DEF Chains, NewInv, FirstInv, RemoveInv, OnlyVictimDangles
<1> QED BY <1>0, <1>5, <1>6 DEF ChainInv

\* Between calls and while something is built the volume is clean.
LEMMA CleanNow ==
  ASSUME ChainInv, Sound, ~Removing
  PROVE  Clean /\ FirstInv /\ NewInv
  BY ChainsClean, CreatingWindow DEF ChainInv, Chains

LEMMA ReturnChains ==
  ASSUME TypeInv', NEW r, Return(r), Sound' => Clean'
  PROVE  ChainInv'
<1>1. pc' = "idle" /\ o'.first = 0 /\ o'.prev = 0
  BY DEF Return, NoFrame
<1> QED BY <1>1, RestChains

\* An abort outside the unsafe windows leaves a clean volume behind.
LEMMA AbortClean ==
  ASSUME ChainInv, NEW r, Abort(r), Sound'
  PROVE  Clean /\ ~FreeWindow /\ ~LinkWindow
<1>1. Sound /\ ~FreeWindow /\ ~LinkWindow
  BY DEF Abort, Sound, Harm
<1> QED BY <1>1, ChainsClean DEF ChainInv

LEMMA AbortChains ==
  ASSUME ChainInv, TypeInv', NEW r, Abort(r), fat' = fat, disk' = disk
  PROVE  ChainInv'
<1>1. Sound' => Clean'
  BY AbortClean, PointersStill
<1> QED BY <1>1, ReturnChains DEF Abort

LEMMA FirstStill ==
  ASSUME fat' = fat, disk' = disk, o'.first = o.first, FirstInv
  PROVE  FirstInv'
  BY PointersStill DEF FirstInv, Unclaimed

LEMMA BeginChains ==
  ASSUME ChainInv, TypeInv', Sound' => Sound, NEW f \in Frames, f.first = 0, f.prev = 0, Begin(f)
  PROVE  ChainInv'
<1>1. pc' = "find" /\ o' = f /\ fat' = fat /\ disk' = disk /\ pc = "idle"
  BY DEF Begin, Still
<1>2. ~Removing
  BY <1>1 DEF Removing, Writing
<1>3. Sound' => Clean'
  BY <1>1, <1>2, CleanNow, PointersStill
<1> QED BY <1>1, <1>3, RestChains

LEMMA CallChains == ASSUME ChainInv, TypeInv', Sound' => Sound, Call PROVE ChainInv'
<1>1. LiveDirs \subseteq {0} \cup Cluster
  BY LiveDirType DEF ChainInv, TypeInv
<1>2. ASSUME NEW k \in Kinds, NEW d \in LiveDirs, NEW n \in Names
      PROVE  Frame(k, d, n) \in Frames /\ Frame(k, d, n).first = 0 /\ Frame(k, d, n).prev = 0
  <2>1. Frame(k, d, n) \in Frames
    BY <1>1, FrameType
  <2>2. Frame(k, d, n).first = 0 /\ Frame(k, d, n).prev = 0
    BY DEF Frame, NoFrame
  <2> QED BY <2>1, <2>2
<1>3. ASSUME NEW d \in LiveDirs, NEW n \in Names, Mkdir(d, n) \/ Unlink(d, n) \/ Rmdir(d, n)
      PROVE  ChainInv'
  BY <1>2, <1>3, BeginChains DEF Mkdir, Unlink, Rmdir, Kinds
<1>4. ASSUME NEW d \in LiveDirs, NEW n \in Names, NEW len \in 0 .. MaxLen, NEW x \in Data,
             WriteFile(d, n, len, x)
      PROVE  ChainInv'
  <2> DEFINE f == [Frame("write", d, n) EXCEPT !.len = len, !.left = len, !.buf = x]
  <2>1. Frame("write", d, n) \in Frames /\ Frame("write", d, n).first = 0
        /\ Frame("write", d, n).prev = 0
    BY <1>2 DEF Kinds
  <2>2. f \in Frames
    BY ZenonT(30), <2>1 DEF Frames
  <2>3. f.first = 0 /\ f.prev = 0
    BY <2>1 DEF Frames
  <2> QED BY <1>4, <2>2, <2>3, BeginChains DEF WriteFile
<1>5. ASSUME NEW d \in LiveDirs, NEW n \in Names, NEW td \in LiveDirs, NEW tn \in Names,
             CopyFile(d, n, td, tn)
      PROVE  ChainInv'
  <2> DEFINE f == [Frame("copy", d, n) EXCEPT !.tdir = td, !.tname = tn]
  <2>1. Frame("copy", d, n) \in Frames /\ Frame("copy", d, n).first = 0
        /\ Frame("copy", d, n).prev = 0
    BY <1>2 DEF Kinds
  <2>2. f \in Frames
    BY ZenonT(30), <1>1, <2>1 DEF Frames
  <2>3. f.first = 0 /\ f.prev = 0
    BY <2>1 DEF Frames
  <2> QED BY <1>5, <2>2, <2>3, BeginChains DEF CopyFile
<1> QED BY <1>3, <1>4, <1>5 DEF Call

LEMMA NotFoundChains ==
  ASSUME ChainInv, TypeInv', Sound' => Sound, pc = "find", Still, NotFound
  PROVE  ChainInv'
<1>1. /\ fat' = fat /\ disk' = disk /\ ~Removing /\ ~Creating /\ o \in Frames
      /\ o.first = 0 /\ o.prev = 0
  BY DEF Still, Removing, Writing, Creating, Resume, ChainInv, Course, TypeInv, TypeOK, DriverOK
<1>2. Sound' => Clean'
  BY <1>1, CleanNow, PointersStill
<1>3. CASE Return("absent")
  BY <1>2, <1>3, ReturnChains
<1>4. ASSUME NEW p \in {"alloc", "data"}, NEW f, Goto(p, f), o.kind \in {"mkdir", "write"},
             f.kind = o.kind, f.first = o.first, f.prev = o.prev
      PROVE  ChainInv'
  <2>1. pc' = p /\ o' = f
    BY <1>4 DEF Goto
  <2>2. FirstInv'
    BY <1>1, <1>4, <2>1 DEF FirstInv
  <2>3. f.kind \notin Removals
    BY <1>4 DEF Removals
  <2> QED BY <1>1, <1>2, <1>4, <2>1, <2>2, <2>3, GrowChains
<1>5. /\ [o EXCEPT !.want = "dir"].kind = o.kind /\ [o EXCEPT !.want = "dir"].first = o.first
      /\ [o EXCEPT !.want = "dir"].prev = o.prev
  BY <1>1 DEF Frames
<1> QED BY <1>3, <1>4, <1>5 DEF NotFound

LEMMA FoundChains ==
  ASSUME ChainInv, TypeInv', Sound' => Sound, pc = "find", Still,
         NEW c \in Cluster, NEW i \in Slot, disk[c][i].kind \in Live, Found(c, i)
  PROVE  ChainInv'
<1> DEFINE e == disk[c][i]
           f == [o EXCEPT !.at = c, !.index = i, !.victim = e.first, !.cl = e.first, !.steps = 0]
           g == [o EXCEPT !.src = e.first, !.len = e.len, !.left = e.len]
<1>1. /\ fat' = fat /\ disk' = disk /\ ~Removing /\ ~Creating /\ o \in Frames
      /\ o.first = 0 /\ o.prev = 0 /\ MediaOK
  BY DEF Still, Removing, Writing, Creating, Resume, ChainInv, Course, TypeInv, TypeOK, DriverOK
<1>2. Sound' => Clean /\ Clean'
  BY <1>1, CleanNow, PointersStill
<1>3. \/ \E r : Return(r)
      \/ \E p \in {"empty", "free", "mark"} : Goto(p, f) /\ o.kind \in Removals
      \/ Goto("data", g) /\ o.kind \notin Removals
  BY DEF Found, Removals
<1>4. e \in Entry /\ EntryAt(<<c, i>>) = e /\ (e.first # 0 => <<c, i>> \in HeadSlots)
  BY <1>1 DEF MediaOK, EntryAt, HeadSlots, LiveSlots
<1> HIDE DEF e
<1>5. /\ f.at = c /\ f.index = i /\ f.victim = e.first /\ f.cl = e.first /\ f.steps = 0
      /\ f.kind = o.kind /\ f.first = o.first /\ f.prev = o.prev
  BY <1>1 DEF Frames
<1>6. g.kind = o.kind /\ g.first = o.first /\ g.prev = o.prev
  BY <1>1 DEF Frames
<1> HIDE DEF f, g
<1>7. CASE \E r : Return(r)
  BY <1>2, <1>7, ReturnChains
<1>8. ASSUME NEW p \in {"empty", "free", "mark"}, Goto(p, f), o.kind \in Removals
      PROVE  ChainInv'
  <2>1. pc' = p /\ o' = f
    BY <1>8 DEF Goto
  <2>2. Removing' /\ \A K : ~Writing(K)'
    BY <1>8, <2>1 DEF Removing, Writing
  <2>3. Sound' => (e.first # 0 => e.first # Root)
    BY <1>2, <1>4, TargetsAre DEF Clean, OneOwner
  <2>4. Victim' = e
    BY <1>1, <1>4, <1>5, <2>1 DEF Victim, EntryAt
  <2>5. Sound' => RemoveInv'
    BY <1>4, <1>5, <1>8, <2>1, <2>2, <2>3, <2>4, Constants DEF RemoveInv, Unread, e
  <2>6. Sound' => OnlyVictimDangles'
    BY <1>2 DEF Clean, OnlyVictimDangles
  <2> QED BY <1>1, <1>2, <1>5, <1>8, <2>1, <2>2, <2>5, <2>6, RemoveChains DEF Clean
<1>9. CASE Goto("data", g) /\ o.kind \notin Removals
  <2>1. pc' = "data" /\ o' = g
    BY <1>9 DEF Goto
  <2>2. FirstInv'
    BY <1>1, <1>6, <2>1 DEF FirstInv
  <2> QED BY <1>1, <1>2, <1>6, <1>9, <2>1, <2>2, GrowChains
<1> QED BY <1>3, <1>7, <1>8, <1>9

LEMMA FindChains ==
  ASSUME ChainInv, TypeInv', Sound' => Sound, FindScan \/ FindOver PROVE ChainInv'
<1>1. pc = "find" /\ Still
  BY DEF FindScan, FindOver
<1>2. CASE NotFound
  BY <1>1, <1>2, NotFoundChains
<1>3. ASSUME NEW i \in Slot, StopsFind(disk[o.cl][i]), disk[o.cl][i].kind # "unused",
             o.cl \in Cluster, Found(o.cl, i)
      PROVE  ChainInv'
  BY <1>1, <1>3, FoundChains DEF StopsFind
<1>4. ASSUME NEW n, Goto("find", [o EXCEPT !.cl = n, !.steps = @ + 1]) PROVE ChainInv'
  <2>1. /\ ~Removing /\ ~Creating /\ o \in Frames /\ fat' = fat /\ disk' = disk
        /\ o.first = 0 /\ o.prev = 0
    BY <1>1 DEF Still, Removing, Writing, Creating, Resume, ChainInv, Course, TypeInv, TypeOK, DriverOK
  <2>2. pc' = "find" /\ o'.first = 0 /\ o'.prev = 0
    BY <1>4, <2>1 DEF Goto, Frames
  <2>3. Sound' => Clean'
    BY <2>1, CleanNow, PointersStill
  <2> QED BY <2>2, <2>3, RestChains
<1> QED BY <1>2, <1>3, <1>4 DEF FindScan, FindOver, Least

\* Pointers go or stay: what was clean or nobody's remains so.
LEMMA FewerClean ==
  ASSUME Clean, FirstInv, OneOwner', Targets' \subseteq Targets, FreeOnes' \subseteq FreeOnes,
         o'.first = o.first
  PROVE  Clean' /\ FirstInv'
  BY DEF Clean, FirstInv, Unclaimed

\* An operation that builds goes on, and no pointer is added.
LEMMA GrowOn ==
  ASSUME ChainInv, TypeInv', Sound' => Sound, Creating, ~Removing,
         NEW p \in {"data", "alloc", "payload", "dots", "slot", "zero", "entry", "linked", "extlinked"},
         NEW f, Goto(p, f), f.kind = o.kind, f.first = o.first, f.prev = o.prev,
         Sound' => OneOwner' /\ Targets' \subseteq Targets /\ FreeOnes' \subseteq FreeOnes
  PROVE  ChainInv'
<1>1. pc' = p /\ o' = f
  BY DEF Goto
<1>2. Sound' => Clean' /\ FirstInv'
  BY <1>1, CleanNow, FewerClean
<1>3. o.kind \notin Removals /\ (o.first = 0 => o.prev = 0)
  BY DEF ChainInv, Course
<1> QED BY <1>1, <1>2, <1>3, GrowChains

LEMMA GrowStill ==
  ASSUME ChainInv, TypeInv', Sound' => Sound, Creating, ~Removing, fat' = fat, disk' = disk,
         NEW p \in {"data", "alloc", "payload", "dots", "slot", "zero", "entry", "linked", "extlinked"},
         NEW f, Goto(p, f), f.kind = o.kind, f.first = o.first, f.prev = o.prev
  PROVE  ChainInv'
<1>1. Sound' => OneOwner' /\ Targets' \subseteq Targets /\ FreeOnes' \subseteq FreeOnes
  BY CleanNow, PointersStill DEF Clean
<1> QED BY <1>1, GrowOn

LEMMA DataDoneChains ==
  ASSUME ChainInv, TypeInv', Sound' => Sound, DataDone PROVE ChainInv'
<1> DEFINE f == [o EXCEPT !.cl = o.tdir, !.steps = 0]
<1>1. /\ Creating /\ ~Removing /\ fat' = fat /\ disk' = disk /\ o \in Frames /\ Goto("slot", f)
  BY DEF DataDone, Still, Creating, Removing, Writing, ChainInv, TypeInv, TypeOK, DriverOK
<1>2. f.kind = o.kind /\ f.first = o.first /\ f.prev = o.prev
  BY <1>1 DEF Frames
<1> HIDE DEF f
<1> QED BY <1>1, <1>2, GrowStill

LEMMA WriteMoreChains ==
  ASSUME ChainInv, TypeInv', Sound' => Sound, WriteMore PROVE ChainInv'
<1> DEFINE f == [o EXCEPT !.want = "data"]
<1>1. /\ Creating /\ ~Removing /\ fat' = fat /\ disk' = disk /\ o \in Frames /\ Goto("alloc", f)
  BY DEF WriteMore, Still, Creating, Removing, Writing, ChainInv, TypeInv, TypeOK, DriverOK
<1>2. f.kind = o.kind /\ f.first = o.first /\ f.prev = o.prev
  BY <1>1 DEF Frames
<1> HIDE DEF f
<1> QED BY <1>1, <1>2, GrowStill

LEMMA CopyMoreChains ==
  ASSUME ChainInv, TypeInv', Sound' => Sound, CopyMore PROVE ChainInv'
<1>1. /\ Creating /\ ~Removing /\ fat' = fat /\ disk' = disk /\ o \in Frames
  BY DEF CopyMore, Still, Creating, Removing, Writing, ChainInv, TypeInv, TypeOK, DriverOK
<1>2. CASE Return("short")
  BY <1>1, <1>2, CleanNow, PointersStill, ReturnChains
<1>3. CASE Abort("io")
  BY <1>1, <1>3, AbortChains
<1>4. ASSUME NEW b, Goto("alloc", [o EXCEPT !.want = "data", !.buf = b]) PROVE ChainInv'
  <2> DEFINE f == [o EXCEPT !.want = "data", !.buf = b]
  <2>1. f.kind = o.kind /\ f.first = o.first /\ f.prev = o.prev
    BY <1>1 DEF Frames
  <2>2. Goto("alloc", f)
    BY <1>4
  <2> HIDE DEF f
  <2> QED BY <1>1, <2>1, <2>2, GrowStill
<1> QED BY <1>2, <1>3, <1>4 DEF CopyMore

\* A cluster is overwritten with something that holds no entry of a file or directory.
LEMMA Overwritten ==
  ASSUME MediaOK, OneOwner, fat' = fat, NEW c, NEW v \in [Slot -> Entry],
         \A i \in Slot : v[i].kind \notin Live, disk' \in {disk, [disk EXCEPT ![c] = v]}
  PROVE  OneOwner' /\ Targets' \subseteq Targets /\ FreeOnes' = FreeOnes
<1>1. CASE disk' = disk
  BY <1>1, PointersStill
<1>2. CASE disk' = [disk EXCEPT ![c] = v]
  <2>1. \A d \in Cluster : disk'[d] = IF d = c THEN v ELSE disk[d]
    BY <1>2 DEF MediaOK
  <2>2. ASSUME NEW p \in HeadSlots' PROVE p \in HeadSlots /\ EntryAt(p)' = EntryAt(p)
    BY <2>1, <2>2 DEF HeadSlots, LiveSlots, EntryAt
  <2> QED BY <2>2, FewerHeads
<1> QED BY <1>1, <1>2

LEMMA NoLive ==
  /\ \A i \in Slot : Zeroed[i].kind \notin Live /\ Dots[i].kind \notin Live
  /\ \A d, i : i \in Slot => Payload(d)[i].kind \notin Live
  BY DEF Zeroed, Dots, Payload, Blank, Live

\* The write of a whole cluster ends the operation or goes on.
LEMMA ClusterChains ==
  ASSUME ChainInv, TypeInv', Sound' => Sound, Creating, ~Removing, fat' = fat,
         NEW c, NEW v \in [Slot -> Entry], \A i \in Slot : v[i].kind \notin Live,
         disk' \in {disk, [disk EXCEPT ![c] = v]}
  PROVE  /\ \A r : Abort(r) => ChainInv'
         /\ \A p, f : /\ p \in {"data", "slot", "entry"} /\ Goto(p, f)
                      /\ f.kind = o.kind /\ f.first = o.first /\ f.prev = o.prev
                      => ChainInv'
<1>0. MediaOK
  BY DEF ChainInv, TypeInv, TypeOK
<1>1. Sound' => OneOwner' /\ Targets' \subseteq Targets /\ FreeOnes' = FreeOnes
  BY <1>0, CleanNow, Overwritten DEF Clean
<1>2. ASSUME NEW r, Abort(r) PROVE ChainInv'
  <2>1. Sound' => Clean'
    BY <1>1, CleanNow DEF Clean
  <2> QED BY <1>2, <2>1, ReturnChains DEF Abort
<1>3. ASSUME NEW p \in {"data", "slot", "entry"}, NEW f, Goto(p, f),
             f.kind = o.kind, f.first = o.first, f.prev = o.prev
      PROVE  ChainInv'
  <2>1. Sound' => OneOwner' /\ Targets' \subseteq Targets /\ FreeOnes' \subseteq FreeOnes
    BY <1>1
  <2> QED BY <1>3, <2>1, GrowOn
<1> QED BY <1>2, <1>3

LEMMA WritePayloadChains ==
  ASSUME ChainInv, TypeInv', Sound' => Sound, WritePayload PROVE ChainInv'
<1> DEFINE v == Payload(o.buf)
           f == [o EXCEPT !.left = @ - 1]
           g(n) == [o EXCEPT !.left = @ - 1, !.src = n]
<1>1. /\ Creating /\ ~Removing /\ fat' = fat /\ o \in Frames /\ o.buf \in Data \cup {Junk}
  BY DEF WritePayload, Creating, Removing, Writing, Resume, ChainInv, TypeInv, TypeOK, DriverOK, Frames
<1>2. v \in [Slot -> Entry] /\ \A i \in Slot : v[i].kind \notin Live
  BY <1>1, EntryTypes, NoLive
<1>3. disk' \in {disk, [disk EXCEPT ![o.new] = v]}
  BY DEF WritePayload
<1>4. \/ Goto("data", f) \/ Abort("io") \/ \E n \in Number : Goto("data", g(n))
  BY DEF WritePayload
<1>5. f.kind = o.kind /\ f.first = o.first /\ f.prev = o.prev
  BY <1>1 DEF Frames
<1>6. \A n : g(n).kind = o.kind /\ g(n).first = o.first /\ g(n).prev = o.prev
  BY <1>1 DEF Frames
<1> HIDE DEF v, f, g
<1> QED BY <1>1, <1>2, <1>3, <1>4, <1>5, <1>6, ClusterChains

LEMMA WriteDotsChains ==
  ASSUME ChainInv, TypeInv', Sound' => Sound, WriteDots PROVE ChainInv'
<1> DEFINE f == [o EXCEPT !.cl = o.tdir, !.steps = 0]
<1>1. /\ Creating /\ ~Removing /\ fat' = fat /\ o \in Frames
  BY DEF WriteDots, Creating, Removing, Writing, ChainInv, TypeInv, TypeOK, DriverOK
<1>2. disk' \in {disk, [disk EXCEPT ![o.new] = Dots]} /\ (Goto("slot", f) \/ Abort("io"))
  BY DEF WriteDots
<1>3. f.kind = o.kind /\ f.first = o.first /\ f.prev = o.prev
  BY <1>1 DEF Frames
<1> HIDE DEF f
<1> QED BY <1>1, <1>2, <1>3, EntryTypes, NoLive, ClusterChains

LEMMA WriteZeroesChains ==
  ASSUME ChainInv, TypeInv', Sound' => Sound, WriteZeroes PROVE ChainInv'
<1> DEFINE f == [o EXCEPT !.at = o.new, !.index = 1]
<1>1. /\ Creating /\ ~Removing /\ fat' = fat /\ o \in Frames
  BY DEF WriteZeroes, Creating, Removing, Writing, Resume, ChainInv, TypeInv, TypeOK, DriverOK
<1>2. disk' \in {disk, [disk EXCEPT ![o.new] = Zeroed]} /\ (Goto("entry", f) \/ Abort("io"))
  BY DEF WriteZeroes
<1>3. f.kind = o.kind /\ f.first = o.first /\ f.prev = o.prev
  BY <1>1 DEF Frames
<1> HIDE DEF f
<1> QED BY <1>1, <1>2, <1>3, EntryTypes, NoLive, ClusterChains

\* The outcomes of writing one copy of an entry; only the first copy matters to the driver.
Written  == [fat EXCEPT ![wr.i][wr.cl] = wr.val]
NextCopy == /\ fat' = Written /\ UNCHANGED <<pc, o>>
            /\ wr'.i > 1 /\ wr'.cl = wr.cl /\ wr'.val = wr.val /\ wr'.then = wr.then
LastCopy == fat' = Written /\ Goto(wr.then, o)
FreeCut  == fat' \in {fat, Written} /\ wr.then = "freed" /\ Goto("mark", o)
CopyCut  == fat' \in {fat, Written} /\ wr.then # "freed" /\ \E r : Abort(r)

LEMMA CopyOutcomes ==
  ASSUME TypeInv, SetFatCopy
  PROVE  NextCopy \/ LastCopy \/ FreeCut \/ CopyCut
<1>1. wr \in Writes /\ wr.i \in Nat /\ wr.i >= 1
  BY VolumeAssumption DEF TypeInv, TypeOK, DriverOK, Writes, Copy
<1>2. wr' = [wr EXCEPT !.i = @ + 1] =>
        wr'.i > 1 /\ wr'.cl = wr.cl /\ wr'.val = wr.val /\ wr'.then = wr.then
  BY <1>1 DEF Writes
<1>3. \/ fat' = Written /\ wr' = [wr EXCEPT !.i = @ + 1] /\ UNCHANGED <<pc, o>>
      \/ LastCopy \/ FreeCut \/ CopyCut
  BY Zenon DEF SetFatCopy, Written, LastCopy, FreeCut, CopyCut
<1> QED BY <1>2, <1>3 DEF NextCopy

LEMMA CopyWritten ==
  ASSUME TypeInv, SetFatCopy
  PROVE  /\ fat' = fat \/ fat' = Written
         /\ fat' = fat => fat'[1] = fat[1]
         /\ fat' = Written => IF wr.i = 1 THEN FatWrite(wr.cl, wr.val) ELSE fat'[1] = fat[1]
         /\ wr.i = 1 \/ wr.i > 1
<1>1. /\ fat \in [Copy -> [Cluster -> Link]] /\ wr.i \in Copy /\ 1 \in Copy
      /\ disk' = disk /\ wr.cl \in Cluster
  BY Constants DEF TypeInv, TypeOK, MediaOK, DriverOK, Writes, SetFatCopy
<1>2. fat' = fat \/ fat' = Written
  BY CopyOutcomes DEF NextCopy, LastCopy, FreeCut, CopyCut
<1>3. ASSUME fat' = Written PROVE IF wr.i = 1 THEN FatWrite(wr.cl, wr.val) ELSE fat'[1] = fat[1]
  <2>1. Written[1] = IF wr.i = 1 THEN [fat[1] EXCEPT ![wr.cl] = wr.val] ELSE fat[1]
    BY <1>1 DEF Written
  <2> QED BY <1>1, <1>3, <2>1 DEF FatWrite
<1>4. wr.i = 1 \/ wr.i > 1
  BY <1>1 DEF Copy
<1> QED BY <1>2, <1>3, <1>4

\* An end mark is written: fat32_alloc_cluster's and the callers' own.
LEMMA MarkEndChains ==
  ASSUME ChainInv, TypeInv', Sound' => Sound, SetFatCopy, wr.then \in {"alloced", "payload", "zero"}
  PROVE  ChainInv'
<1>1. NextCopy \/ LastCopy \/ FreeCut \/ CopyCut
  BY CopyOutcomes DEF ChainInv
<1>2. /\ pc = "setfat" /\ wr.cl \in Cluster /\ wr.cl = o.new /\ wr.val = END /\ disk' = disk
      /\ Creating /\ ~Removing /\ MediaOK /\ TypeInv /\ wr.i \in Nat
      /\ o.kind \notin Removals /\ (o.first = 0 => o.prev = 0)
  BY DEF SetFatCopy, ChainInv, Course, Writing, Creating, Removing, Resume, TypeInv, TypeOK, DriverOK,
         Writes, Copy
<1>3. Sound' => OneOwner' /\ Targets' \subseteq Targets /\ FreeOnes' \subseteq FreeOnes
  <2> SUFFICES ASSUME Sound' PROVE OneOwner' /\ Targets' \subseteq Targets /\ FreeOnes' \subseteq FreeOnes
    OBVIOUS
  <2>1. OneOwner
    BY <1>2, CleanNow DEF Clean
  <2>2. fat'[1] = fat[1] \/ FatWrite(wr.cl, END)
    BY <1>2, CopyWritten
  <2>3. CASE FatWrite(wr.cl, END)
    BY <1>2, <2>1, <2>3, CutLink, Constants DEF FREE
  <2>4. CASE fat'[1] = fat[1]
    BY <1>2, <2>1, <2>4, PointersStill
  <2> QED BY <2>2, <2>3, <2>4
<1>4. fat' = Written /\ wr.i = 1 /\ Sound' => FreeOnes' = FreeOnes \ {o.new}
  BY <1>2, CopyWritten, CutLink, CleanNow, Constants DEF Clean, FREE
<1>5. Sound' => Clean /\ FirstInv /\ NewInv
  BY <1>2, CleanNow
<1>6. wr.then = "alloced" /\ Sound' => Unclaimed(o.new) /\ o.new # o.first
                                       /\ (wr.i > 1 => o.new \notin FreeOnes)
  BY <1>2, <1>5 DEF NewInv, Writing
<1>7. CASE NextCopy
  <2>1. Sound' => Clean' /\ FirstInv'
    BY <1>3, <1>5, <1>7, FewerClean DEF NextCopy
  <2>2. wr.i = 1 \/ wr.i > 1
    BY <1>2, CopyWritten
  <2>3. Sound' /\ wr.then = "alloced" => Unclaimed(o.new)' /\ o'.new # o'.first /\ o'.new \notin FreeOnes'
    BY <1>3, <1>4, <1>6, <1>7, <2>2 DEF Unclaimed, NextCopy
  <2>4. Sound' => NewInv'
    BY <1>2, <1>7, <2>3 DEF NewInv, Writing, NextCopy
  <2>5. pc' = "setfat" /\ wr'.then \in Resume \ {"freed"} /\ wr'.cl = o'.new /\ wr'.val = END
        /\ wr'.then \notin {"linked", "extlinked"}
    BY <1>2, <1>7 DEF Resume, NextCopy
  <2> QED BY <1>2, <1>7, <2>1, <2>4, <2>5, GrowCallChains DEF NextCopy
<1>8. CASE LastCopy
  <2>1. CASE wr.then = "alloced"
    <3>1. pc' = "alloced" /\ o' = o
      BY <1>8, <2>1 DEF Goto, LastCopy
    <3>2. Sound' => Clean' /\ FirstInv'
      BY <1>3, <1>5, <3>1, FewerClean
    <3>3. Sound' => NewInv'
      BY <1>3, <1>4, <1>6, <1>8, <2>1, <3>1, CopyWritten DEF ChainInv, NewInv, Writing, Unclaimed, LastCopy
    <3>4. /\ ~Removing' /\ Creating' /\ ~Unread' /\ \A K : ~Writing(K)'
      BY <3>1 DEF Removing, Creating, Resume, Unread, Writing
    <3>5. Course'
      BY <1>2, <3>1, <3>4 DEF Course
    <3>6. Chains'
      BY <3>1, <3>2, <3>3, <3>4 DEF Chains, Clean, OnlyVictimDangles, RemoveInv
    <3> QED BY <3>5, <3>6 DEF ChainInv
  <2>2. CASE wr.then # "alloced"
    BY <1>2, <1>3, <1>8, <2>2, GrowOn DEF LastCopy
  <2> QED BY <2>1, <2>2
<1>9. ASSUME NEW r, Abort(r) PROVE ChainInv'
  <2>1. Sound' => Clean'
    BY <1>3, <1>5 DEF Clean
  <2> QED BY <1>9, <2>1, ReturnChains DEF Abort
<1> QED BY <1>1, <1>7, <1>8, <1>9 DEF FreeCut, CopyCut

\* A link to the new cluster is written.
LEMMA LinkChains ==
  ASSUME ChainInv, TypeInv', Sound' => Sound, SetFatCopy, wr.then \in {"linked", "extlinked"}
  PROVE  ChainInv'
<1>1. NextCopy \/ LastCopy \/ FreeCut \/ CopyCut
  BY CopyOutcomes DEF ChainInv
<1>2. /\ pc = "setfat" /\ wr.cl \in Cluster /\ wr.val = o.new /\ disk' = disk
      /\ Creating /\ ~Removing /\ MediaOK /\ TypeInv
      /\ o.kind \notin Removals /\ (o.first = 0 => o.prev = 0)
  BY DEF SetFatCopy, ChainInv, Course, Writing, Creating, Removing, Resume, TypeInv, TypeOK
<1>3. Sound' => /\ Clean /\ FirstInv
                /\ o.new \in Cluster \ FreeOnes /\ o.new # o.first /\ o.new # Root
                /\ wr.i = 1 => o.new \notin Targets
  BY <1>2, CleanNow DEF NewInv, Writing
<1>4. Sound' => OneOwner' /\ Targets' \subseteq Targets \cup {o.new} /\ FreeOnes' \subseteq FreeOnes
  <2> SUFFICES ASSUME Sound'
               PROVE  OneOwner' /\ Targets' \subseteq Targets \cup {o.new} /\ FreeOnes' \subseteq FreeOnes
    OBVIOUS
  <2>1. fat'[1] = fat[1] \/ (wr.i = 1 /\ FatWrite(wr.cl, o.new))
    BY <1>2, CopyWritten
  <2>2. CASE wr.i = 1 /\ FatWrite(wr.cl, o.new)
    BY <1>2, <1>3, <2>2, AddLink DEF Clean
  <2>3. CASE fat'[1] = fat[1]
    BY <1>2, <1>3, <2>3, PointersStill DEF Clean
  <2> QED BY <2>1, <2>2, <2>3
<1>5. Sound' => Clean'
  BY <1>3, <1>4 DEF Clean
<1>6. Sound' /\ o'.first = o.first => FirstInv'
  BY <1>3, <1>4 DEF FirstInv, Unclaimed
<1>7. CASE NextCopy
  <2>1. wr'.i # 1
    BY <1>7 DEF NextCopy
  <2>2. Sound' => NewInv'
    BY <1>2, <1>3, <1>4, <1>7, <2>1 DEF NewInv, Writing, NextCopy
  <2>3. pc' = "setfat" /\ wr'.then \in Resume \ {"freed"} /\ wr'.val = o'.new
        /\ wr'.then \notin {"alloced", "payload", "zero"}
    BY <1>2, <1>7 DEF Resume, NextCopy
  <2> QED BY <1>2, <1>5, <1>6, <1>7, <2>2, <2>3, GrowCallChains DEF NextCopy
<1>8. CASE LastCopy
  <2>1. pc' = wr.then /\ o' = o
    BY <1>8 DEF Goto, LastCopy
  <2> QED BY <1>2, <1>5, <1>6, <2>1, GrowChains
<1>9. ASSUME NEW r, Abort(r) PROVE ChainInv'
  BY <1>5, <1>9, ReturnChains DEF Abort
<1> QED BY <1>1, <1>7, <1>8, <1>9 DEF FreeCut, CopyCut

\* What a removal knows while it writes a free mark.
LEMMA FreeMarkChains ==
  ASSUME ChainInv, TypeInv', Sound' => Sound, SetFatCopy, wr.then = "freed"
  PROVE  ChainInv'
<1>1. NextCopy \/ LastCopy \/ FreeCut
  BY CopyOutcomes DEF ChainInv, CopyCut
<1>2. /\ pc = "setfat" /\ wr.cl \in Cluster /\ wr.cl = o.cl /\ wr.val = FREE /\ disk' = disk
      /\ Removing /\ ~Creating /\ MediaOK /\ TypeInv /\ o.steps > 0
      /\ o.kind \in Removals /\ o.first = 0 /\ o.prev = 0 /\ o' = o /\ FreeWindow
  BY <1>1 DEF SetFatCopy, ChainInv, Course, Writing, Creating, Removing, Resume, TypeInv, TypeOK,
              NextCopy, LastCopy, FreeCut, Goto, FreeWindow
<1>3. Sound' => /\ OneOwner /\ Root \notin FreeOnes /\ OnlyVictimDangles /\ RemoveInv
  BY DEF ChainInv, Chains
<1>4. Sound' => /\ o.at \in Cluster /\ Victim.kind \in Live /\ Victim.first = o.victim
                /\ wr.i = 1 => /\ o.cl # Root /\ (o.cl \in Targets => o.cl = o.victim)
                               /\ o.next \in {fat[1][o.cl], BAD}
                /\ wr.i > 1 => (o.next \in Cluster => Unclaimed(o.next))
  BY <1>2, <1>3 DEF RemoveInv, Unread, Writing
<1>5. Sound' => /\ OneOwner' /\ Targets' \subseteq Targets
                /\ FreeOnes' = FreeOnes \/ (wr.i = 1 /\ FreeOnes' = FreeOnes \cup {o.cl})
                /\ fat' = Written /\ wr.i = 1 => fat[1][o.cl] \notin Targets'
  <2> SUFFICES ASSUME Sound'
               PROVE  /\ OneOwner' /\ Targets' \subseteq Targets
                      /\ FreeOnes' = FreeOnes \/ (wr.i = 1 /\ FreeOnes' = FreeOnes \cup {o.cl})
                      /\ fat' = Written /\ wr.i = 1 => fat[1][o.cl] \notin Targets'
    OBVIOUS
  <2>1. /\ fat'[1] = fat[1] \/ (wr.i = 1 /\ FatWrite(o.cl, FREE))
        /\ fat' = Written /\ wr.i = 1 => FatWrite(o.cl, FREE)
    BY <1>2, CopyWritten
  <2>2. CASE wr.i = 1 /\ FatWrite(o.cl, FREE)
    BY <1>2, <1>3, <2>2, CutLink
  <2>3. CASE ~(wr.i = 1 /\ FatWrite(o.cl, FREE))
    BY <1>2, <1>3, <2>1, <2>3, PointersStill
  <2> QED BY <2>2, <2>3
<1>6. Sound' => Root \notin FreeOnes'
  BY <1>3, <1>4, <1>5
<1>7. FreeWindow' /\ Removing'
  BY <1>1, <1>2 DEF FreeWindow, NextCopy, LastCopy, FreeCut, Goto, Removing, Writing
<1>8. Sound' => OnlyVictimDangles'
  BY <1>2, <1>3, <1>4, <1>5, <1>7 DEF OnlyVictimDangles
<1>9. Sound' /\ fat' = Written => (o.next \in Cluster => Unclaimed(o.next)')
  <2> SUFFICES ASSUME Sound', fat' = Written, o.next \in Cluster PROVE Unclaimed(o.next)'
    OBVIOUS
  <2>1. CASE wr.i > 1
    BY <1>2, <1>4, <1>5, <2>1 DEF Unclaimed
  <2>2. CASE wr.i = 1
    <3>1. o.next = fat[1][o.cl] /\ o.cl \in FatLinks
      BY <1>2, <1>4, <2>2, Constants DEF FatLinks
    <3>2. o.next # Root
      BY <1>3, <3>1, TargetsAre DEF OneOwner
    <3> QED BY <1>2, <1>5, <2>2, <3>1, <3>2 DEF Unclaimed
  <2> QED BY <1>2, <2>1, <2>2, CopyWritten
<1>10. Victim' = Victim
  BY <1>2 DEF Victim, EntryAt
<1>11. CASE NextCopy
  <2>1. pc' = "setfat" /\ wr'.then = "freed" /\ wr'.cl = o'.cl /\ wr'.val = FREE /\ wr'.i # 1
        /\ ~Unread'
    BY <1>2, <1>11 DEF NextCopy, Unread
  <2>2. Sound' => RemoveInv'
    BY <1>2, <1>4, <1>9, <1>10, <1>11, <2>1 DEF RemoveInv, Writing, NextCopy
  <2> QED BY <1>2, <1>5, <1>6, <1>7, <1>8, <2>1, <2>2, RemoveChains
<1>12. CASE LastCopy
  <2>1. pc' = "freed" /\ ~Unread' /\ \A K : ~Writing(K)'
    BY <1>12 DEF LastCopy, Goto, Unread, Writing
  <2>2. Sound' => RemoveInv'
    BY <1>2, <1>4, <1>9, <1>10, <1>12, <2>1 DEF RemoveInv, LastCopy
  <2> QED BY <1>2, <1>5, <1>6, <1>7, <1>8, <2>1, <2>2, RemoveChains
<1>13. CASE FreeCut
  <2>1. pc' = "mark" /\ ~Unread' /\ \A K : ~Writing(K)'
    BY <1>13 DEF FreeCut, Goto, Unread, Writing
  <2>2. Sound' => RemoveInv'
    BY <1>2, <1>4, <1>10, <2>1 DEF RemoveInv
  <2> QED BY <1>2, <1>5, <1>6, <1>7, <1>8, <2>1, <2>2, RemoveChains
<1> QED BY <1>1, <1>11, <1>12, <1>13

LEMMA SetFatCopyChains ==
  ASSUME ChainInv, TypeInv', Sound' => Sound, SetFatCopy PROVE ChainInv'
<1>1. wr.then \in Resume
  BY DEF SetFatCopy, ChainInv, TypeInv, Control
<1> QED BY <1>1, FreeMarkChains, LinkChains, MarkEndChains DEF Resume

LEMMA SetFatStrayChains ==
  ASSUME ChainInv, TypeInv', Sound' => Sound, SetFatStray PROVE ChainInv'
<1>1. fat' = fat /\ disk' = disk /\ pc = "setfat" /\ wr.cl \notin Cluster /\ wr.then \in Resume
  BY DEF SetFatStray, Still, ChainInv, TypeInv, Control
<1>2. CASE Abort("io")
  BY <1>1, <1>2, AbortChains
<1>3. CASE wr.cl = BAD /\ Hurt({"stray"}) /\ Goto(wr.then, o)
  <2>1. ~Sound' /\ pc' = wr.then /\ o' = o
    BY <1>3 DEF Hurt, Sound, Goto
  <2>2. CASE wr.then \in {"linked", "extlinked", "payload", "zero"}
    <3>1. o.kind \notin Removals /\ (o.first = 0 => o.prev = 0)
      BY <1>1, <2>2 DEF ChainInv, Course, Creating, Writing, Resume
    <3> QED BY <2>1, <2>2, <3>1, GrowChains
  <2>3. CASE wr.then = "freed"
    <3>1. o.kind \in Removals /\ o.first = 0 /\ o.prev = 0 /\ o.steps > 0
      BY <1>1, <2>3 DEF ChainInv, Course, Creating, Removing, Writing, Resume
    <3>2. Removing' /\ ~Writing({"freed"})'
      BY <2>1, <2>3 DEF Removing, Writing
    <3> QED BY <2>1, <3>1, <3>2, RemoveChains
  <2>4. CASE wr.then = "alloced"
    <3>1. wr.cl = o.new
      BY <1>1, <2>4 DEF ChainInv, Course, Writing
    <3>2. o.new \in {0} \cup Cluster
      BY DEF ChainInv, TypeInv, TypeOK, DriverOK, Frames
    <3> QED BY <1>3, <3>1, <3>2, Constants
  <2> QED BY <1>1, <2>2, <2>3, <2>4 DEF Resume
<1> QED BY <1>2, <1>3 DEF SetFatStray

LEMMA AllocChains ==
  ASSUME ChainInv, TypeInv', Sound' => Sound, Alloc PROVE ChainInv'
<1>1. /\ pc = "alloc" /\ fat' = fat /\ disk' = disk /\ Creating /\ ~Removing /\ o \in Frames
      /\ o.kind \notin Removals /\ (o.first = 0 => o.prev = 0)
  BY DEF Alloc, Still, Creating, Removing, Writing, ChainInv, Course, TypeInv, TypeOK, DriverOK
<1>2. CASE Abort("nospace")
  BY <1>1, <1>2, AbortChains
<1>3. ASSUME NEW c \in FreeOnes, SetFat([o EXCEPT !.new = c], c, END, "alloced")
      PROVE  ChainInv'
  <2> DEFINE f == [o EXCEPT !.new = c]
  <2>1. f.new = c /\ f.kind = o.kind /\ f.first = o.first /\ f.prev = o.prev
    BY <1>1 DEF Frames
  <2> HIDE DEF f
  <2>2. pc' = "setfat" /\ o' = f /\ wr'.then = "alloced" /\ wr'.cl = c /\ wr'.val = END /\ wr'.i = 1
    BY <1>3 DEF SetFat, f
  <2>3. Sound' => Clean' /\ Clean /\ FirstInv
    BY <1>1, CleanNow, PointersStill
  <2>4. FirstInv => FirstInv'
    BY <1>1, <2>1, <2>2, FirstStill
  <2>5. Sound' => Unclaimed(c)' /\ c # f.first
    <3>1. c \in Cluster
      BY DEF FreeOnes
    <3> QED BY <1>1, <1>3, <2>1, <2>3, <3>1, PointersStill, Constants DEF Clean, FirstInv, Unclaimed
  <2>6. Sound' => NewInv'
    BY <2>1, <2>2, <2>5 DEF NewInv, Writing
  <2> QED BY <1>1, <2>1, <2>2, <2>3, <2>4, <2>6, GrowCallChains DEF Resume
<1> QED BY <1>2, <1>3 DEF Alloc, Least

LEMMA AllocedChains ==
  ASSUME ChainInv, TypeInv', Sound' => Sound, Alloced PROVE ChainInv'
<1> DEFINE f == [o EXCEPT !.first = IF @ = 0 THEN o.new ELSE @, !.prev = o.new]
<1>1. /\ pc = "alloced" /\ fat' = fat /\ disk' = disk /\ Creating /\ ~Removing /\ o \in Frames
      /\ o.kind \notin Removals /\ (o.first = 0 => o.prev = 0) /\ TypeInv
  BY DEF Alloced, Creating, Resume, Removing, Writing, ChainInv, Course, TypeInv, TypeOK, DriverOK
<1>2. /\ f.new = o.new /\ f.kind = o.kind /\ f.prev = o.new
      /\ f.first = IF o.first = 0 THEN o.new ELSE o.first
  BY <1>1 DEF Frames
<1>3. Sound' => /\ Clean /\ Clean' /\ FirstInv
                /\ Unclaimed(o.new) /\ o.new # o.first /\ o.new \notin FreeOnes
  BY <1>1, CleanNow, PointersStill DEF NewInv
<1>4. \/ o.want = "dir" /\ Goto("dots", f)
      \/ o.want = "ext" /\ SetFat(o, o.cl, o.new, "extlinked")
      \/ o.prev # 0 /\ SetFat(f, o.prev, o.new, "linked")
      \/ o.prev = 0 /\ SetFat(f, o.new, END, "payload")
  BY <1>1 DEF Alloced
<1> HIDE DEF f
<1>5. Sound' /\ o' = f => FirstInv'
  <2>1. Targets' = Targets /\ FreeOnes' = FreeOnes
    BY <1>1, PointersStill
  <2> QED BY <1>2, <1>3, <2>1 DEF FirstInv, Unclaimed
<1>6. Sound' /\ o' = o => FirstInv'
  BY <1>1, <1>3, FirstStill
<1>7. f.first = 0 => f.prev = 0
  BY <1>2
<1>8. CASE o.want = "dir" /\ Goto("dots", f)
  <2>1. pc' = "dots" /\ o' = f
    BY <1>8 DEF Goto
  <2> QED BY <1>1, <1>2, <1>3, <1>5, <1>7, <2>1, GrowChains
<1>9. CASE o.want = "ext" /\ SetFat(o, o.cl, o.new, "extlinked")
  <2>1. pc' = "setfat" /\ o' = o /\ wr'.then = "extlinked" /\ wr'.val = o.new
    BY <1>9 DEF SetFat
  <2>2. Sound' => NewInv'
    BY <1>1, <1>3, <2>1, PointersStill DEF NewInv, Writing, Unclaimed
  <2> QED BY <1>1, <1>3, <1>6, <2>1, <2>2, GrowCallChains DEF Resume
<1>10. CASE o.prev # 0 /\ SetFat(f, o.prev, o.new, "linked")
  <2>1. pc' = "setfat" /\ o' = f /\ wr'.then = "linked" /\ wr'.val = f.new
    BY <1>2, <1>10 DEF SetFat
  <2>2. Sound' => NewInv'
    BY <1>1, <1>2, <1>3, <1>10, <2>1, PointersStill DEF NewInv, Writing, Unclaimed
  <2> QED BY <1>1, <1>2, <1>3, <1>5, <1>7, <2>1, <2>2, GrowCallChains DEF Resume
<1>11. CASE o.prev = 0 /\ SetFat(f, o.new, END, "payload")
  <2>1. pc' = "setfat" /\ o' = f /\ wr'.then = "payload" /\ wr'.val = END /\ wr'.cl = f.new
    BY <1>2, <1>11 DEF SetFat
  <2>2. Sound' => NewInv'
    BY <2>1 DEF NewInv, Writing
  <2> QED BY <1>1, <1>2, <1>3, <1>5, <1>7, <2>1, <2>2, GrowCallChains DEF Resume
<1> QED BY <1>4, <1>8, <1>9, <1>10, <1>11

LEMMA LinkedChains ==
  ASSUME ChainInv, TypeInv', Sound' => Sound, Linked PROVE ChainInv'
<1>1. /\ fat' = fat /\ disk' = disk /\ Creating /\ ~Removing
      /\ o.kind \notin Removals /\ (o.first = 0 => o.prev = 0)
  BY DEF Linked, Still, Creating, Resume, Removing, Writing, ChainInv, Course
<1>2. /\ pc' = "setfat" /\ o' = o /\ wr'.cl = o.new /\ wr'.val = END
      /\ wr'.then \in {"payload", "zero"}
  BY DEF Linked, SetFat
<1>3. Sound' => Clean' /\ FirstInv'
  BY <1>1, <1>2, CleanNow, PointersStill, FirstStill
<1>4. NewInv'
  BY <1>2 DEF NewInv, Writing
<1> QED BY <1>1, <1>2, <1>3, <1>4, GrowCallChains DEF Resume

LEMMA SlotChains ==
  ASSUME ChainInv, TypeInv', Sound' => Sound, SlotScan \/ SlotOver PROVE ChainInv'
<1>1. /\ fat' = fat /\ disk' = disk /\ Creating /\ ~Removing /\ o \in Frames
  BY DEF SlotScan, SlotOver, Still, Creating, Removing, Writing, ChainInv, TypeInv, TypeOK, DriverOK
<1>2. CASE Abort("io")
  BY <1>1, <1>2, AbortChains
<1>3. ASSUME NEW p \in {"entry", "alloc", "slot"}, NEW f, Goto(p, f),
             f.kind = o.kind, f.first = o.first, f.prev = o.prev
      PROVE  ChainInv'
  BY <1>1, <1>3, GrowStill
<1>4. ASSUME NEW c, NEW i, Goto("entry", [o EXCEPT !.at = c, !.index = i]) PROVE ChainInv'
  <2> DEFINE f == [o EXCEPT !.at = c, !.index = i]
  <2>1. f.kind = o.kind /\ f.first = o.first /\ f.prev = o.prev
    BY <1>1 DEF Frames
  <2> HIDE DEF f
  <2> QED BY <1>3, <1>4, <2>1 DEF f
<1>5. ASSUME Goto("alloc", [o EXCEPT !.want = "ext"]) PROVE ChainInv'
  <2> DEFINE f == [o EXCEPT !.want = "ext"]
  <2>1. f.kind = o.kind /\ f.first = o.first /\ f.prev = o.prev
    BY <1>1 DEF Frames
  <2> HIDE DEF f
  <2> QED BY <1>3, <1>5, <2>1 DEF f
<1>6. ASSUME NEW n, Goto("slot", [o EXCEPT !.cl = n, !.steps = @ + 1]) PROVE ChainInv'
  <2> DEFINE f == [o EXCEPT !.cl = n, !.steps = @ + 1]
  <2>1. f.kind = o.kind /\ f.first = o.first /\ f.prev = o.prev
    BY <1>1 DEF Frames
  <2> HIDE DEF f
  <2> QED BY <1>3, <1>6, <2>1 DEF f
<1> QED BY <1>2, <1>4, <1>5, <1>6 DEF SlotScan, SlotOver

LEMMA WriteEntryChains ==
  ASSUME ChainInv, TypeInv', Sound' => Sound, WriteEntry PROVE ChainInv'
<1>1. /\ fat' = fat /\ Creating /\ ~Removing /\ MediaOK
  BY DEF WriteEntry, Creating, Removing, Writing, ChainInv, TypeInv, TypeOK
<1>2. Sound' => Clean /\ FirstInv
  BY <1>1, CleanNow
<1>3. CASE o.at = BAD
  <2>1. Return("ok") /\ ~Sound'
    BY <1>3 DEF WriteEntry, Hurt, Sound
  <2> QED BY <2>1, ReturnChains
<1>4. CASE o.at # BAD
  <2> DEFINE done == [disk EXCEPT ![o.at][o.index] = NewEntry]
  <2>1. disk' \in {disk, done} /\ (Return("ok") \/ Abort("io"))
    BY <1>4 DEF WriteEntry
  <2>2. Sound' => Clean'
    <3>1. CASE disk' = disk
      BY <1>1, <1>2, <3>1, PointersStill
    <3>2. CASE disk' = done
      <4>1. \A p \in Cluster \X Slot :
              EntryAt(p)' = IF p = <<o.at, o.index>> THEN NewEntry ELSE EntryAt(p)
        BY <1>1, <3>2 DEF EntryAt, MediaOK
      <4>2. NewEntry.first = o.first
        BY DEF NewEntry
      <4>3. \A p \in HeadSlots' : /\ p \in Cluster \X Slot /\ EntryAt(p)'.first # 0
                                  /\ EntryAt(p)'.kind \in Live
        BY DEF HeadSlots, LiveSlots, EntryAt
      <4> HIDE DEF done
      <4>4. \A p \in HeadSlots' : \/ p = <<o.at, o.index>> /\ EntryAt(p)'.first = o.first /\ o.first # 0
                                  \/ p \in HeadSlots /\ EntryAt(p)' = EntryAt(p)
        BY <4>1, <4>2, <4>3 DEF HeadSlots, LiveSlots, EntryAt
      <4>5. CASE o.first = 0
        <5>1. \A p \in HeadSlots' : p \in HeadSlots /\ EntryAt(p)' = EntryAt(p)
          BY <4>4, <4>5
        <5> QED BY <1>1, <1>2, <5>1, FewerHeads DEF Clean
      <4>6. CASE o.first # 0
        <5>1. Sound' => o.first \notin Targets /\ o.first # Root /\ o.first \notin FreeOnes
          BY <1>2, <4>6 DEF FirstInv, Unclaimed
        <5>2. Sound' => OneOwner' /\ Targets' \subseteq Targets \cup {o.first} /\ FreeOnes' = FreeOnes
          BY <1>1, <1>2, <4>4, <5>1, OneMoreHead DEF Clean
        <5> QED BY <1>2, <5>1, <5>2 DEF Clean
      <4> QED BY <4>5, <4>6
    <3> QED BY <2>1, <3>1, <3>2
  <2> QED BY <2>1, <2>2, ReturnChains DEF Abort
<1> QED BY <1>3, <1>4

\* A removal goes on without a write.
LEMMA RemoveStill ==
  ASSUME ChainInv, TypeInv', Sound' => Sound, Removing, fat' = fat, disk' = disk,
         NEW p \in {"empty", "free", "mark"}, NEW f, Goto(p, f),
         /\ f.kind = o.kind /\ f.first = o.first /\ f.prev = o.prev
         /\ f.at = o.at /\ f.index = o.index /\ f.victim = o.victim,
         Sound' => /\ FreeWindow => (p \in {"free", "mark"} /\ f.steps > 0)
                   /\ p = "free" /\ f.cl \in Cluster =>
                        f.cl # Root /\ (f.cl \in Targets => f.cl = o.victim)
  PROVE  ChainInv'
<1>1. pc' = p /\ o' = f /\ \A K : ~Writing(K)'
  BY DEF Goto, Writing
<1>2. Removing' /\ o'.kind \in Removals /\ o'.first = 0 /\ o'.prev = 0
  BY <1>1 DEF Removing, ChainInv, Course, Creating, Resume, Writing
<1>3. /\ Targets' = Targets /\ FreeOnes' = FreeOnes /\ (OneOwner' <=> OneOwner)
      /\ Victim' = Victim
  BY <1>1, PointersStill DEF Victim
<1>4. Sound' => OneOwner /\ Root \notin FreeOnes /\ OnlyVictimDangles /\ RemoveInv
  BY DEF ChainInv, Chains
<1>5. Sound' => RemoveInv'
  BY <1>1, <1>3, <1>4 DEF RemoveInv, Unread
<1>6. Sound' => OnlyVictimDangles'
  BY <1>1, <1>2, <1>3, <1>4 DEF OnlyVictimDangles, FreeWindow
<1> QED BY <1>1, <1>2, <1>3, <1>4, <1>5, <1>6, RemoveChains

LEMMA VictimIsTarget ==
  ASSUME ChainInv, Sound, Removing, o.victim # 0
  PROVE  o.victim \in Targets /\ o.victim # Root
<1>1. /\ o.at \in Cluster /\ Victim.kind \in Live /\ Victim.first = o.victim /\ o.index \in Slot
      /\ OneOwner
  BY DEF ChainInv, Chains, RemoveInv, TypeInv, TypeOK, DriverOK, Frames
<1>2. <<o.at, o.index>> \in HeadSlots
  BY <1>1 DEF HeadSlots, LiveSlots, Victim, EntryAt
<1>3. o.victim \in Targets
  BY <1>1, <1>2, TargetsAre DEF Victim
<1> QED BY <1>1, <1>3 DEF OneOwner

LEMMA EmptyChains ==
  ASSUME ChainInv, TypeInv', Sound' => Sound, EmptyScan \/ EmptyOver PROVE ChainInv'
<1>1. /\ fat' = fat /\ disk' = disk /\ Removing /\ ~FreeWindow /\ o \in Frames /\ pc = "empty"
  BY DEF EmptyScan, EmptyOver, Still, Removing, FreeWindow, ChainInv, TypeInv, TypeOK, DriverOK
<1>2. CASE Return("notempty")
  <2>1. Sound' => Clean'
    BY <1>1, ChainsClean, PointersStill DEF ChainInv
  <2> QED BY <1>2, <2>1, ReturnChains
<1>3. CASE Emptied
  <2> DEFINE f == [o EXCEPT !.cl = o.victim, !.steps = 0]
  <2>1. /\ f.kind = o.kind /\ f.first = o.first /\ f.prev = o.prev
        /\ f.at = o.at /\ f.index = o.index /\ f.victim = o.victim /\ f.cl = o.victim
    BY <1>1 DEF Frames
  <2>2. Goto("free", f)
    BY <1>3 DEF Emptied
  <2> HIDE DEF f
  <2>3. Sound' /\ o.victim \in Cluster => o.victim # Root
    BY <1>1, VictimIsTarget, Constants
  <2> QED BY <1>1, <2>1, <2>2, <2>3, RemoveStill
<1>4. ASSUME NEW n, Goto("empty", [o EXCEPT !.cl = n, !.steps = @ + 1]) PROVE ChainInv'
  <2> DEFINE f == [o EXCEPT !.cl = n, !.steps = @ + 1]
  <2>1. /\ f.kind = o.kind /\ f.first = o.first /\ f.prev = o.prev
        /\ f.at = o.at /\ f.index = o.index /\ f.victim = o.victim
    BY <1>1 DEF Frames
  <2>2. Goto("empty", f)
    BY <1>4
  <2> HIDE DEF f
  <2> QED BY <1>1, <2>1, <2>2, RemoveStill
<1> QED BY <1>2, <1>3, <1>4 DEF EmptyScan, EmptyOver

LEMMA FreeStepChains ==
  ASSUME ChainInv, TypeInv', Sound' => Sound, FreeStep PROVE ChainInv'
<1>1. /\ fat' = fat /\ disk' = disk /\ Removing /\ ~Creating /\ o \in Frames /\ pc = "free"
      /\ o.cl \in Cluster /\ Unread
      /\ o.kind \in Removals /\ o.first = 0 /\ o.prev = 0
  BY DEF FreeStep, Still, Removing, Creating, Resume, Writing, Unread, ChainInv, Course, TypeInv,
         TypeOK, DriverOK
<1>2. PICK n \in Number : GetNext(o.cl, n)
                          /\ SetFat([o EXCEPT !.next = n, !.steps = @ + 1], o.cl, FREE, "freed")
  BY DEF FreeStep
<1> DEFINE f == [o EXCEPT !.next = n, !.steps = @ + 1]
<1>3. /\ f.kind = o.kind /\ f.first = o.first /\ f.prev = o.prev /\ f.at = o.at
      /\ f.index = o.index /\ f.victim = o.victim /\ f.cl = o.cl /\ f.next = n /\ f.steps > 0
  BY <1>1 DEF Frames
<1>4. n \in {fat[1][o.cl], BAD}
  BY <1>2 DEF GetNext, NextOf
<1>5. pc' = "setfat" /\ o' = f /\ wr'.cl = o.cl /\ wr'.val = FREE /\ wr'.i = 1 /\ wr'.then = "freed"
  BY <1>2 DEF SetFat
<1> HIDE DEF f
<1>6. Removing' /\ Writing({"freed"})' /\ FreeWindow'
  BY <1>1, <1>3, <1>5 DEF Removing, Writing, FreeWindow
<1>7. /\ Targets' = Targets /\ FreeOnes' = FreeOnes /\ (OneOwner' <=> OneOwner)
      /\ Victim' = Victim
  BY <1>1, <1>3, <1>5, PointersStill DEF Victim
<1>8. Sound' => OneOwner /\ Root \notin FreeOnes /\ OnlyVictimDangles /\ RemoveInv
  BY DEF ChainInv, Chains
<1>9. Sound' => RemoveInv'
  BY <1>1, <1>3, <1>4, <1>5, <1>7, <1>8 DEF RemoveInv, Unread
<1>10. Sound' => OnlyVictimDangles'
  BY <1>3, <1>5, <1>6, <1>7, <1>8 DEF OnlyVictimDangles
<1> QED BY <1>1, <1>3, <1>5, <1>6, <1>7, <1>8, <1>9, <1>10, RemoveChains

LEMMA FreeEndChains ==
  ASSUME ChainInv, TypeInv', Sound' => Sound, FreeStray \/ FreeOver PROVE ChainInv'
<1>1. /\ fat' = fat /\ disk' = disk /\ Removing /\ Goto("mark", o) /\ pc = "free"
  BY DEF FreeStray, FreeOver, Still, Removing
<1>2. FreeWindow => o.steps > 0
  BY DEF FreeWindow
<1> QED BY <1>1, <1>2, RemoveStill

LEMMA FreedChains ==
  ASSUME ChainInv, TypeInv', Sound' => Sound, Freed PROVE ChainInv'
<1> DEFINE f == [o EXCEPT !.cl = o.next]
<1>1. /\ fat' = fat /\ disk' = disk /\ Removing /\ pc = "freed" /\ o.steps > 0 /\ o \in Frames
  BY DEF Freed, Removing, ChainInv, Course, TypeInv, TypeOK, DriverOK
<1>2. Sound' => (o.next \in Cluster => Unclaimed(o.next))
  BY <1>1 DEF ChainInv, Chains, RemoveInv
<1>3. CASE Goto("mark", o)
  BY <1>1, <1>3, RemoveStill
<1>4. CASE Goto("free", f)
  <2>1. /\ f.kind = o.kind /\ f.first = o.first /\ f.prev = o.prev /\ f.at = o.at
        /\ f.index = o.index /\ f.victim = o.victim /\ f.cl = o.next /\ f.steps = o.steps
    BY <1>1 DEF Frames
  <2> HIDE DEF f
  <2>2. Sound' => (f.cl \in Cluster => f.cl # Root /\ (f.cl \in Targets => f.cl = o.victim))
    BY <1>2, <2>1 DEF Unclaimed
  <2> QED BY <1>1, <1>4, <2>1, <2>2, RemoveStill
<1> QED BY <1>3, <1>4 DEF Freed

LEMMA MarkDeletedChains ==
  ASSUME ChainInv, TypeInv', Sound' => Sound, MarkDeleted PROVE ChainInv'
<1> DEFINE gone == [disk EXCEPT ![o.at][o.index] = Blank("deleted")]
           p == <<o.at, o.index>>
<1>1. /\ fat' = fat /\ Removing /\ MediaOK /\ o.index \in Slot
      /\ disk' \in {disk, gone} /\ ((Return("ok") /\ disk' = gone) \/ Abort("io"))
  BY DEF MarkDeleted, Removing, ChainInv, TypeInv, TypeOK, DriverOK, Frames
<1>2. Sound' => /\ o.at \in Cluster /\ Victim.kind \in Live /\ Victim.first = o.victim
                /\ OneOwner /\ Root \notin FreeOnes /\ OnlyVictimDangles
  BY <1>1 DEF ChainInv, Chains, RemoveInv
<1>3. ASSUME disk' = gone, Sound'
      PROVE  OneOwner' /\ Targets' \subseteq Targets /\ FreeOnes' = FreeOnes /\ o.victim \notin Targets'
  <2>1. \A q \in Cluster \X Slot : EntryAt(q)' = IF q = p THEN Blank("deleted") ELSE EntryAt(q)
    BY <1>1, <1>3 DEF EntryAt, MediaOK
  <2>2. Blank("deleted").kind \notin Live
    BY DEF Blank, Live
  <2>3. \A q \in HeadSlots' : q \in Cluster \X Slot /\ EntryAt(q)'.kind \in Live /\ EntryAt(q)'.first # 0
    BY DEF HeadSlots, LiveSlots, EntryAt
  <2> HIDE DEF gone
  <2>4. \A q \in HeadSlots' : q # p /\ q \in HeadSlots /\ EntryAt(q)' = EntryAt(q)
    BY <2>1, <2>2, <2>3 DEF HeadSlots, LiveSlots, EntryAt
  <2>5. OneOwner' /\ Targets' \subseteq Targets /\ FreeOnes' = FreeOnes
        /\ \A q \in HeadSlots \ HeadSlots' : EntryAt(q).first \notin Targets'
    BY <1>1, <1>2, <1>3, <2>4, FewerHeads
  <2>6. CASE o.victim = 0
    <3>1. \A t \in Targets : t # 0
      BY TargetsAre, Constants DEF FatLinks, HeadSlots
    <3> QED BY <2>5, <2>6, <3>1
  <2>7. CASE o.victim # 0
    <3>1. p \in HeadSlots /\ EntryAt(p).first = o.victim
      BY <1>1, <1>2, <1>3, <2>7 DEF HeadSlots, LiveSlots, Victim, EntryAt
    <3> QED BY <2>4, <2>5, <3>1
  <2> QED BY <2>5, <2>6, <2>7
<1>4. CASE Return("ok") /\ disk' = gone
  <2>1. Sound' => Clean'
    BY <1>2, <1>3, <1>4 DEF Clean, OnlyVictimDangles
  <2> QED BY <1>4, <2>1, ReturnChains
<1>5. CASE Abort("io")
  <2>1. Sound' => Clean
    BY <1>5, AbortClean
  <2>2. CASE disk' = disk
    BY <1>1, <1>5, <2>2, AbortChains
  <2>3. CASE disk' = gone
    <3>1. Sound' => Clean'
      BY <1>3, <2>1, <2>3 DEF Clean
    <3> QED BY <1>5, <3>1, ReturnChains DEF Abort
  <2> QED BY <1>1, <2>2, <2>3
<1> QED BY <1>1, <1>4, <1>5

LEMMA CrashChains == ASSUME ChainInv, TypeInv', Sound' => Sound, Crash PROVE ChainInv'
<1>1. /\ fat' = fat /\ disk' = disk /\ pc' = "off" /\ o'.first = 0 /\ o'.prev = 0
      /\ mishap' = mishap \cup Harm
  BY DEF Crash, NoFrame
<1>2. Sound' => ~FreeWindow
  BY <1>1 DEF Sound, Harm
<1>3. Sound' => Clean'
  BY <1>1, <1>2, ChainsClean, PointersStill DEF ChainInv
<1> QED BY <1>1, <1>3, RestChains

LEMMA MountChains == ASSUME ChainInv, TypeInv', Sound' => Sound, Mount PROVE ChainInv'
<1>1. /\ fat' = fat /\ disk' = disk /\ pc' \in {"idle", "off"} /\ pc = "off" /\ o' = o
  BY DEF Mount
<1>2. ~Removing /\ o'.first = 0 /\ o'.prev = 0
  BY <1>1 DEF Removing, Writing, Creating, Resume, ChainInv, Course
<1>3. Sound' => Clean'
  BY <1>1, <1>2, CleanNow, PointersStill
<1> QED BY <1>1, <1>2, <1>3, RestChains

LEMMA StutterChains == ASSUME ChainInv, TypeInv', UNCHANGED vars PROVE ChainInv'
<1>1. /\ fat' = fat /\ disk' = disk /\ pc' = pc /\ o' = o /\ wr' = wr /\ mishap' = mishap
  BY DEF vars
<1>2. Course'
  BY <1>1 DEF ChainInv, Course, Removing, Creating, Writing
<1>3. /\ Targets' = Targets /\ FreeOnes' = FreeOnes /\ (OneOwner' <=> OneOwner) /\ Victim' = Victim
  BY <1>1, PointersStill DEF Victim
<1>4. Chains'
  BY <1>1, <1>3 DEF ChainInv, Chains, Sound, OnlyVictimDangles, FreeWindow, NewInv, FirstInv, RemoveInv,
                    Removing, Unread, Writing, Unclaimed
<1> QED BY <1>2, <1>4 DEF ChainInv

LEMMA NextChains == ASSUME ChainInv, [Next]_vars PROVE ChainInv'
<1>1. TypeInv'
  BY NextType DEF ChainInv
<1>2. CASE Next
  <2>1. Sound' => Sound
    BY <1>2, SoundBefore
  <2>2. CASE Step
    <3>1. CASE FindScan \/ FindOver \/ DataDone \/ WriteMore \/ CopyMore \/ WritePayload \/ WriteDots
      BY <1>1, <2>1, <3>1, FindChains, DataDoneChains, WriteMoreChains, CopyMoreChains,
         WritePayloadChains, WriteDotsChains
    <3>2. CASE SetFatCopy \/ SetFatStray \/ Alloc \/ Alloced \/ Linked
      BY <1>1, <2>1, <3>2, SetFatCopyChains, SetFatStrayChains, AllocChains, AllocedChains, LinkedChains
    <3>3. CASE SlotScan \/ SlotOver \/ WriteZeroes \/ WriteEntry
      BY <1>1, <2>1, <3>3, SlotChains, WriteZeroesChains, WriteEntryChains
    <3>4. CASE EmptyScan \/ EmptyOver \/ FreeStep \/ FreeStray \/ FreeOver \/ Freed \/ MarkDeleted
      BY <1>1, <2>1, <3>4, EmptyChains, FreeStepChains, FreeEndChains, FreedChains, MarkDeletedChains
    <3> QED BY <2>2, <3>1, <3>2, <3>3, <3>4 DEF Step
  <2> QED BY <1>1, <1>2, <2>1, <2>2, CallChains, CrashChains, MountChains DEF Next
<1> QED BY <1>1, <1>2, StutterChains

\* For every volume, whatever fails and wherever the power goes: no two FAT links or
\* directory entries ever lead to one cluster (NoCrossLink).
THEOREM CrossLinksNever == Spec => []NoCrossLink
<1>1. Spec => []ChainInv
  BY InitChains, NextChains, PTL DEF Spec
<1>2. ChainInv => NoCrossLink
  BY DEF ChainInv, Chains, Sound, OneOwner, NoCrossLink
<1> QED BY <1>1, <1>2, PTL

\* And nothing leads to a free cluster but the entry whose removal is under way (NoDangling).
THEOREM DanglingNever == Spec => []NoDangling
<1>1. Spec => []ChainInv
  BY InitChains, NextChains, PTL DEF Spec
<1>2. ChainInv => NoDangling
  BY DEF ChainInv, Chains, Sound, OnlyVictimDangles, NoDangling
<1> QED BY <1>1, <1>2, PTL

----------------------------------------------------------------------------
(* A directory's entry always leads to a cluster: mkdir has taken one, whatever failed    *)
(* before, by the time it writes the entry.                                              *)

DirsHaveCluster == \A p \in LiveSlots : EntryAt(p).kind = "dir" => EntryAt(p).first # 0

HeadTaken ==
  /\ Creating /\ o.kind = "mkdir" /\ o.first = 0 =>
       o.want = "dir" /\ (pc \in {"alloc", "alloced"} \/ Writing({"alloced"}))
  /\ pc = "alloced" \/ Writing({"alloced"}) => o.new # 0

HeadsInv == TypeInv /\ DirsHaveCluster /\ HeadTaken

LEMMA InitHeads == Init => HeadsInv
<1> SUFFICES ASSUME Init PROVE HeadsInv
  OBVIOUS
<1>1. DirsHaveCluster
  BY DEF Init, DirsHaveCluster, LiveSlots, EntryAt, Zeroed, Blank, Live
<1>2. HeadTaken
  BY DEF Init, HeadTaken, Creating, Writing, Resume
<1> QED BY <1>1, <1>2, InitType DEF HeadsInv

LEMMA DirsStill == ASSUME DirsHaveCluster, disk' = disk PROVE DirsHaveCluster'
  BY DEF DirsHaveCluster, LiveSlots, EntryAt

\* The entries of directories stay well formed when a cluster is overwritten with none.
LEMMA DirsOverwritten ==
  ASSUME MediaOK, DirsHaveCluster, NEW c, NEW v \in [Slot -> Entry],
         \A i \in Slot : v[i].kind \notin Live, disk' = [disk EXCEPT ![c] = v]
  PROVE  DirsHaveCluster'
<1>1. \A d \in Cluster : disk'[d] = IF d = c THEN v ELSE disk[d]
  BY DEF MediaOK
<1> QED BY <1>1 DEF DirsHaveCluster, LiveSlots, EntryAt

\* Outside the operations that build there is nothing to show, ...
LEMMA HeadsIdle ==
  ASSUME HeadsInv, TypeInv', DirsHaveCluster', ~Creating'
  PROVE  HeadsInv'
BY DEF HeadsInv, HeadTaken, Creating, Writing, Resume

\* ... and once mkdir has its cluster it keeps it.
LEMMA HeadsGoing ==
  ASSUME HeadsInv, TypeInv', DirsHaveCluster', Creating, pc \notin {"alloc", "alloced"}, ~Writing({"alloced"}),
         o'.kind = o.kind, o'.first = o.first, pc' # "alloced", ~Writing({"alloced"})'
  PROVE  HeadsInv'
BY DEF HeadsInv, HeadTaken

LEMMA HeadsCall == ASSUME HeadsInv, TypeInv', Call \/ Crash \/ Mount PROVE HeadsInv'
<1>1. disk' = disk /\ pc' \in {"find", "off", "idle"}
  BY DEF Call, Mkdir, Unlink, Rmdir, WriteFile, CopyFile, Begin, Still, Crash, Mount
<1>2. DirsHaveCluster' /\ ~Creating'
  BY <1>1, DirsStill DEF HeadsInv, Creating, Writing, Resume
<1> QED BY <1>2, HeadsIdle

LEMMA HeadsFind == ASSUME HeadsInv, TypeInv', FindScan \/ FindOver PROVE HeadsInv'
<1>1. disk' = disk /\ o \in Frames /\ DirsHaveCluster'
  <2>1. disk' = disk
    BY DEF FindScan, FindOver, Still
  <2> QED BY <2>1, DirsStill DEF HeadsInv, TypeInv, TypeOK, DriverOK
<1>2. ASSUME NEW p \in {"idle", "find", "empty", "free", "mark"}, pc' = p PROVE HeadsInv'
  BY <1>1, <1>2, HeadsIdle DEF Creating, Writing, Resume
<1>3. ASSUME pc' = "data", o'.kind # "mkdir" PROVE HeadsInv'
  BY <1>1, <1>3 DEF HeadsInv, HeadTaken, Writing
<1>4. CASE NotFound
  <2>1. CASE o.kind = "mkdir" /\ Goto("alloc", [o EXCEPT !.want = "dir"])
    <3>1. pc' = "alloc" /\ o'.want = "dir"
      BY <1>1, <2>1 DEF Goto, Frames
    <3> QED BY <1>1, <3>1 DEF HeadsInv, HeadTaken, Writing
  <2> QED BY <1>2, <1>3, <1>4, <2>1 DEF NotFound, Goto, Return
<1>5. ASSUME NEW c, NEW i, Found(c, i) PROVE HeadsInv'
  <2> DEFINE e == disk[c][i]
             g == [o EXCEPT !.src = e.first, !.len = e.len, !.left = e.len]
  <2>1. g.kind = o.kind
    BY <1>1 DEF Frames
  <2> HIDE DEF e, g
  <2>2. pc' \in {"idle", "empty", "free", "mark"} \/ (pc' = "data" /\ o' = g /\ o.kind # "mkdir")
    BY <1>5 DEF Found, Goto, Return, e, g
  <2> QED BY <1>2, <1>3, <2>1, <2>2
<1> QED BY <1>2, <1>4, <1>5 DEF FindScan, FindOver, Goto

LEMMA HeadsRemove ==
  ASSUME HeadsInv, TypeInv',
         EmptyScan \/ EmptyOver \/ FreeStep \/ FreeStray \/ FreeOver \/ Freed \/ MarkDeleted
  PROVE  HeadsInv'
<1>1. pc' \in {"idle", "empty", "free", "mark"} \/ (pc' = "setfat" /\ wr'.then = "freed")
  <2>1. CASE EmptyScan \/ EmptyOver \/ FreeStray \/ FreeOver \/ Freed \/ MarkDeleted
    BY <2>1 DEF EmptyScan, EmptyOver, FreeStray, FreeOver, Freed, MarkDeleted, Emptied, Goto, Return, Abort
  <2>2. CASE FreeStep
    <3>1. PICK n \in Number : SetFat([o EXCEPT !.next = n, !.steps = @ + 1], o.cl, FREE, "freed")
      BY <2>2 DEF FreeStep
    <3> QED BY <3>1 DEF SetFat
  <2> QED BY <2>1, <2>2
<1>2. CASE disk' = disk
  BY <1>1, <1>2, DirsStill, HeadsIdle DEF HeadsInv, Creating, Writing, Resume
<1>3. CASE disk' = [disk EXCEPT ![o.at][o.index] = Blank("deleted")]
  <2>1. Blank("deleted").kind \notin Live /\ MediaOK
    BY DEF Blank, Live, HeadsInv, TypeInv, TypeOK
  <2>2. \A p \in Cluster \X Slot :
          EntryAt(p)' = IF p = <<o.at, o.index>> THEN Blank("deleted") ELSE EntryAt(p)
    BY <1>3, <2>1 DEF EntryAt, MediaOK
  <2>3. \A p \in LiveSlots' : p \in Cluster \X Slot /\ EntryAt(p)'.kind \in Live
    BY DEF LiveSlots, EntryAt
  <2>4. \A p \in LiveSlots' : p \in LiveSlots /\ EntryAt(p)' = EntryAt(p)
    BY <2>1, <2>2, <2>3 DEF LiveSlots, EntryAt
  <2>5. \A p \in LiveSlots' : EntryAt(p)'.kind = "dir" => EntryAt(p)'.first # 0
    BY <2>4 DEF HeadsInv, DirsHaveCluster
  <2>6. DirsHaveCluster'
    BY <2>5 DEF DirsHaveCluster
  <2> QED BY <1>1, <2>6, HeadsIdle DEF Creating, Writing, Resume
<1>4. CASE ~MarkDeleted
  BY <1>2, <1>4 DEF EmptyScan, EmptyOver, FreeStep, FreeStray, FreeOver, Freed, Still
<1> QED BY <1>2, <1>3, <1>4 DEF MarkDeleted

\* The steps of a call that writes no entry and takes no cluster.
LEMMA HeadsBuild ==
  ASSUME HeadsInv, TypeInv',
         DataDone \/ WriteMore \/ CopyMore \/ SlotScan \/ SlotOver \/ Linked
  PROVE  HeadsInv'
<1>1. disk' = disk /\ o \in Frames /\ pc \in {"data", "slot", "linked", "extlinked"}
  BY DEF DataDone, WriteMore, CopyMore, SlotScan, SlotOver, Linked, Still, HeadsInv, TypeInv, TypeOK, DriverOK
<1>2. DirsHaveCluster' /\ Creating /\ pc \notin {"alloc", "alloced"} /\ ~Writing({"alloced"})
  BY <1>1, DirsStill DEF HeadsInv, Creating, Writing, Resume
<1>3. ASSUME NEW r, Return(r) PROVE HeadsInv'
  BY <1>2, <1>3, HeadsIdle DEF Return, Creating, Writing, Resume
<1>4. CASE DataDone \/ WriteMore
  <2>1. o'.kind = o.kind /\ o'.first = o.first /\ pc' \in {"slot", "alloc"}
    BY <1>1, <1>4 DEF DataDone, WriteMore, Goto, Frames
  <2> QED BY <1>2, <2>1, HeadsGoing DEF Writing
<1>5. CASE CopyMore
  <2>1. ASSUME NEW b, Goto("alloc", [o EXCEPT !.want = "data", !.buf = b]) PROVE HeadsInv'
    <3>1. o'.kind = o.kind /\ o'.first = o.first /\ pc' = "alloc"
      BY <1>1, <2>1 DEF Goto, Frames
    <3> QED BY <1>2, <3>1, HeadsGoing DEF Writing
  <2> QED BY <1>3, <1>5, <2>1 DEF CopyMore, Abort
<1>6. CASE SlotScan \/ SlotOver
  <2>1. ASSUME NEW c, NEW i, Goto("entry", [o EXCEPT !.at = c, !.index = i]) PROVE HeadsInv'
    <3>1. o'.kind = o.kind /\ o'.first = o.first /\ pc' = "entry"
      BY <1>1, <2>1 DEF Goto, Frames
    <3> QED BY <1>2, <3>1, HeadsGoing DEF Writing
  <2>2. ASSUME Goto("alloc", [o EXCEPT !.want = "ext"]) PROVE HeadsInv'
    <3>1. o'.kind = o.kind /\ o'.first = o.first /\ pc' = "alloc"
      BY <1>1, <2>2 DEF Goto, Frames
    <3> QED BY <1>2, <3>1, HeadsGoing DEF Writing
  <2>3. ASSUME NEW n, Goto("slot", [o EXCEPT !.cl = n, !.steps = @ + 1]) PROVE HeadsInv'
    <3>1. o'.kind = o.kind /\ o'.first = o.first /\ pc' = "slot"
      BY <1>1, <2>3 DEF Goto, Frames
    <3> QED BY <1>2, <3>1, HeadsGoing DEF Writing
  <2> QED BY <1>3, <1>6, <2>1, <2>2, <2>3 DEF SlotScan, SlotOver, Abort
<1>7. CASE Linked
  <2>1. o' = o /\ pc' = "setfat" /\ wr'.then \in {"payload", "zero"}
    BY <1>7 DEF Linked, SetFat
  <2> QED BY <1>2, <2>1, HeadsGoing DEF Writing
<1> QED BY <1>4, <1>5, <1>6, <1>7

\* A cluster is overwritten, with no entry in it.
LEMMA HeadsCluster ==
  ASSUME HeadsInv, TypeInv', WritePayload \/ WriteDots \/ WriteZeroes
  PROVE  HeadsInv'
<1>1. o \in Frames /\ MediaOK /\ DirsHaveCluster /\ o.buf \in Data \cup {Junk}
  BY DEF HeadsInv, TypeInv, TypeOK, DriverOK, Frames
<1>2. Creating /\ pc \notin {"alloc", "alloced"} /\ ~Writing({"alloced"})
  BY DEF WritePayload, WriteDots, WriteZeroes, Creating, Writing, Resume
<1>3. disk' = disk \/ \E v \in {Payload(o.buf), Dots, Zeroed} : disk' = [disk EXCEPT ![o.new] = v]
  BY DEF WritePayload, WriteDots, WriteZeroes
<1>4. \A v \in {Payload(o.buf), Dots, Zeroed} : v \in [Slot -> Entry] /\ \A i \in Slot : v[i].kind \notin Live
  BY <1>1, EntryTypes, NoLive
<1>5. DirsHaveCluster'
  BY <1>1, <1>3, <1>4, DirsStill, DirsOverwritten
<1>6. CASE pc' = "idle"
  BY <1>5, <1>6, HeadsIdle DEF Creating, Writing, Resume
<1>7. CASE pc' # "idle"
  <2>1. o'.kind = o.kind /\ o'.first = o.first /\ pc' \in {"data", "slot", "entry"}
    BY <1>1, <1>7 DEF WritePayload, WriteDots, WriteZeroes, Goto, Abort, Return, Frames
  <2> QED BY <1>2, <1>5, <2>1, HeadsGoing DEF Writing
<1> QED BY <1>6, <1>7

LEMMA HeadsEntry == ASSUME HeadsInv, TypeInv', WriteEntry PROVE HeadsInv'
<1>1. pc = "entry" /\ MediaOK /\ pc' = "idle" /\ ~Creating'
      /\ (disk' = disk \/ disk' = [disk EXCEPT ![o.at][o.index] = NewEntry])
  BY DEF WriteEntry, Abort, Return, Creating, Writing, Resume, HeadsInv, TypeInv, TypeOK
<1>2. NewEntry.kind = "dir" => NewEntry.first # 0
  BY <1>1 DEF NewEntry, HeadsInv, HeadTaken, Creating, Writing
<1>3. CASE disk' = [disk EXCEPT ![o.at][o.index] = NewEntry]
  <2>1. \A p \in Cluster \X Slot :
          EntryAt(p)' = IF p = <<o.at, o.index>> THEN NewEntry ELSE EntryAt(p)
    BY <1>1, <1>3 DEF EntryAt, MediaOK
  <2>2. \A p \in LiveSlots' : p \in Cluster \X Slot /\ EntryAt(p)'.kind \in Live
    BY DEF LiveSlots, EntryAt
  <2>3. \A p \in LiveSlots' : EntryAt(p)' = NewEntry \/ (p \in LiveSlots /\ EntryAt(p)' = EntryAt(p))
    BY <2>1, <2>2 DEF LiveSlots, EntryAt
  <2>4. \A p \in LiveSlots' : EntryAt(p)'.kind = "dir" => EntryAt(p)'.first # 0
    BY <1>2, <2>3 DEF HeadsInv, DirsHaveCluster
  <2>5. DirsHaveCluster'
    BY <2>4 DEF DirsHaveCluster
  <2> QED BY <1>1, <2>5, HeadsIdle
<1> QED BY <1>1, <1>3, DirsStill, HeadsIdle DEF HeadsInv

LEMMA HeadsAlloc == ASSUME HeadsInv, TypeInv', Alloc \/ Alloced PROVE HeadsInv'
<1>1. disk' = disk /\ DirsHaveCluster' /\ o \in Frames /\ HeadTaken /\ Creating
  <2>1. disk' = disk
    BY DEF Alloc, Alloced, Still
  <2> QED BY <2>1, DirsStill DEF HeadsInv, TypeInv, TypeOK, DriverOK, Creating, Resume, Alloc, Alloced
<1>2. CASE Abort("nospace")
  BY <1>1, <1>2, HeadsIdle DEF Abort, Return, Creating, Writing, Resume
<1>3. ASSUME NEW c \in Cluster, pc = "alloc", SetFat([o EXCEPT !.new = c], c, END, "alloced") PROVE HeadsInv'
  <2>1. pc' = "setfat" /\ wr'.then = "alloced" /\ o'.new = c /\ o'.kind = o.kind /\ o'.first = o.first
        /\ o'.want = o.want
    BY <1>1, <1>3 DEF SetFat, Frames
  <2>2. c # 0
    BY Constants
  <2> QED BY <1>1, <1>3, <2>1, <2>2 DEF HeadsInv, HeadTaken, Writing
<1>4. CASE Alloced
  <2> DEFINE f == [o EXCEPT !.first = IF @ = 0 THEN o.new ELSE @, !.prev = o.new]
  <2>1. f.first # 0
    BY <1>1, <1>4 DEF Alloced, HeadTaken, Frames
  <2> HIDE DEF f
  <2>2. (o' = f \/ (o' = o /\ o.want = "ext")) /\ pc' \in {"dots", "setfat"}
        /\ (pc' = "setfat" => wr'.then \in {"extlinked", "linked", "payload"})
    BY <1>4 DEF Alloced, Goto, SetFat, f
  <2> QED BY <1>1, <2>1, <2>2 DEF HeadsInv, HeadTaken, Writing
<1> QED BY <1>2, <1>3, <1>4 DEF Alloc, Least

LEMMA HeadsFat == ASSUME HeadsInv, TypeInv', SetFatCopy \/ SetFatStray PROVE HeadsInv'
<1>1. disk' = disk /\ DirsHaveCluster' /\ HeadTaken /\ pc = "setfat" /\ wr \in Writes
      /\ wr.then \in Resume
  <2>1. disk' = disk
    BY DEF SetFatCopy, SetFatStray, Still
  <2> QED BY <2>1, DirsStill DEF HeadsInv, TypeInv, TypeOK, DriverOK, Control, SetFatCopy, SetFatStray
<1>2. CASE pc' \in {"idle", "mark"}
  BY <1>1, <1>2, HeadsIdle DEF Creating, Writing, Resume
<1>3. CASE pc' \notin {"idle", "mark"}
  <2>1. o' = o /\ (pc' = wr.then \/ (pc' = "setfat" /\ wr'.then = wr.then))
    BY <1>1, <1>3 DEF SetFatCopy, SetFatStray, Goto, Abort, Return, Writes
  <2> QED BY <1>1, <2>1 DEF HeadsInv, HeadTaken, Creating, Writing, Resume
<1> QED BY <1>2, <1>3

LEMMA NextHeads == ASSUME HeadsInv, [Next]_vars PROVE HeadsInv'
<1>1. TypeInv'
  BY NextType DEF HeadsInv
<1>2. CASE UNCHANGED vars
  <2>1. disk' = disk /\ pc' = pc /\ o' = o /\ wr' = wr
    BY <1>2 DEF vars
  <2> QED BY <1>1, <2>1, DirsStill DEF HeadsInv, HeadTaken, Creating, Writing
<1>3. CASE Step
  BY <1>1, <1>3, HeadsFind, HeadsRemove, HeadsBuild, HeadsCluster, HeadsEntry, HeadsAlloc, HeadsFat DEF Step
<1> QED BY <1>1, <1>2, <1>3, HeadsCall DEF Next

----------------------------------------------------------------------------
(* The count of free clusters.  Since nothing failed after the mount, no number of a     *)
(* cluster is bad, every walk is on clusters in use, and free_clusters is off by one more *)
(* than it was at the mount only between a write of the FAT and the statement that counts *)
(* it.                                                                                   *)

Fresh == pc # "off" /\ errs = base.errs
Used(c) == c \in Cluster \ FreeOnes

Taken   == pc = "alloced" \/ (Writing({"alloced"}) /\ wr.i > 1)
GivenUp == pc = "freed" \/ (Writing({"freed"}) /\ wr.i > 1)

Places ==
  /\ o.cl # BAD /\ o.src # BAD /\ o.next # BAD
  /\ pc \in {"find", "slot", "empty"} => Used(o.cl)
  /\ pc = "find" \/ Creating => Used(o.tdir)
  /\ pc \in {"alloc", "alloced"} \/ Writing({"alloced"}) => (o.want = "ext" => Used(o.cl))
  /\ Creating /\ o.prev # 0 => Used(o.prev)
  /\ pc \in {"linked", "extlinked"} \/ Writing({"linked", "extlinked"}) => Used(o.new)
  /\ pc = "setfat" => wr.cl \in Cluster /\ (wr.i = 1 => (wr.cl \in FreeOnes <=> wr.then = "alloced"))
  /\ pc = "free" /\ o.cl \in Cluster => Used(o.cl)
  /\ GivenUp /\ o.next \in Cluster => Used(o.next)
  /\ pc = "zero" => o.new \in Cluster
  /\ pc = "entry" => o.at \in Cluster

\* A count c goes with f free entries as the count at the mount did with those of then.
Level(c, f) ==
  IF base.count >= base.free THEN c + base.free = f + base.count
  ELSE c <= f /\ c + base.free >= f + base.count

Balance == Level(free_clusters + (IF GivenUp THEN 1 ELSE 0), Cardinality(FreeOnes) + (IF Taken THEN 1 ELSE 0))

\* Nothing is pending.
Even == Level(free_clusters, Cardinality(FreeOnes))

Settled == Sound /\ Places /\ Balance

\* A volume on which an unsafe window was cut short is mounted, and nothing is called any more.
Stuck == pc = "idle" /\ ~Sound /\ Even

Mounted == base.errs <= errs /\ base.count <= FsInfo /\ (pc = "off" => o = NoFrame)

CountInv == ChainInv /\ HeadsInv /\ Mounted /\ (Fresh => Settled \/ Stuck)

LEMMA NoError == ASSUME TypeOK, Fresh, Fresh', base' = base PROVE ~IOError
  BY VolumeAssumption DEF Fresh, IOError, TypeOK, LedgerOK

\* A fault is never taken back.
LEMMA FaultsStay ==
  ASSUME Next
  PROVE  (errs' = errs \/ errs' = errs + 1) /\ (crashes' = crashes \/ crashes' = crashes + 1)
<1>1. CASE Call \/ Mount \/ Crash
  BY <1>1 DEF Call, Mount, Crash, Mkdir, Unlink, Rmdir, WriteFile, CopyFile, Begin, IOFine, IOError, Still
<1>2. CASE FindScan \/ FindOver \/ DataDone \/ WriteMore \/ CopyMore \/ WritePayload \/ WriteDots
  BY <1>2 DEF FindScan, FindOver, DataDone, WriteMore, CopyMore, WritePayload, WriteDots,
              GetNext, IOFine, IOError, Still
<1>3. CASE SetFatCopy \/ SetFatStray \/ Alloc \/ Alloced \/ Linked
  BY <1>3 DEF SetFatCopy, SetFatStray, Alloc, Alloced, Linked, IOFine, IOError, Still
<1>4. CASE SlotScan \/ SlotOver \/ WriteZeroes \/ WriteEntry
  BY <1>4 DEF SlotScan, SlotOver, WriteZeroes, WriteEntry, GetNext, IOFine, IOError, Still
<1>5. CASE EmptyScan \/ EmptyOver \/ FreeStep \/ FreeStray \/ FreeOver \/ Freed \/ MarkDeleted
  BY <1>5 DEF EmptyScan, EmptyOver, FreeStep, FreeStray, FreeOver, Freed, MarkDeleted,
              GetNext, IOFine, IOError, Still
<1> QED BY <1>1, <1>2, <1>3, <1>4, <1>5 DEF Next, Step

\* Between the mount and a power cut the driver is on, and what it counts from stays.
LEMMA StaysOn ==
  ASSUME TypeInv, Next, ~Mount, ~Crash
  PROVE  base' = base /\ pc # "off" /\ pc' # "off" /\ (pc = "idle" => Sound)
<1>1. CASE Call
  BY <1>1 DEF Call, Mkdir, Unlink, Rmdir, WriteFile, CopyFile, Begin, Still, Sound
<1>2. CASE FindScan \/ FindOver
  BY <1>2 DEF FindScan, FindOver, NotFound, Found, Goto, Return, Still
<1>3. CASE DataDone \/ WriteMore \/ CopyMore \/ WritePayload \/ WriteDots
  BY <1>3 DEF DataDone, WriteMore, CopyMore, WritePayload, WriteDots, Goto, Return, Abort, Still
<1>4. CASE SetFatCopy \/ SetFatStray
  <2>1. wr.then \in Resume
    BY <1>4 DEF TypeInv, Control, SetFatCopy, SetFatStray
  <2>2. base' = base /\ pc = "setfat" /\ pc' \in {"setfat", "mark", "idle", wr.then}
    BY <1>4 DEF SetFatCopy, SetFatStray, Goto, Return, Abort, Still
  <2> QED BY <2>1, <2>2 DEF Resume
<1>5. CASE Alloc \/ Alloced \/ Linked
  BY <1>5 DEF Alloc, Alloced, Linked, SetFat, Goto, Return, Abort, Still
<1>6. CASE SlotScan \/ SlotOver \/ WriteZeroes \/ WriteEntry
  BY <1>6 DEF SlotScan, SlotOver, WriteZeroes, WriteEntry, Goto, Return, Abort, Still
<1>7. CASE EmptyScan \/ EmptyOver \/ FreeStray \/ FreeOver \/ Freed \/ MarkDeleted
  BY <1>7 DEF EmptyScan, EmptyOver, FreeStray, FreeOver, Freed, MarkDeleted, Emptied,
              Goto, Return, Abort, Still
<1>8. CASE FreeStep
  <2>1. PICK n \in Number : SetFat([o EXCEPT !.next = n, !.steps = @ + 1], o.cl, FREE, "freed")
    BY <1>8 DEF FreeStep
  <2> QED BY <1>8, <2>1 DEF FreeStep, SetFat, Still
<1> QED BY <1>1, <1>2, <1>3, <1>4, <1>5, <1>6, <1>7, <1>8 DEF Next, Step

LEMMA FreshBefore == ASSUME TypeInv, Mounted, Next, ~Mount, ~Crash, Fresh' PROVE Fresh
<1>1. errs \in Nat /\ base.errs \in Nat
  BY VolumeAssumption DEF TypeInv, TypeOK, LedgerOK
<1> QED BY <1>1, FaultsStay, StaysOn DEF Fresh, Mounted

LEMMA InitCount == Init => CountInv
<1> SUFFICES ASSUME Init PROVE CountInv
  OBVIOUS
<1>1. ~Fresh /\ Mounted
  BY VolumeAssumption DEF Init, Fresh, Mounted
<1> QED BY <1>1, InitChains, InitHeads DEF CountInv

----------------------------------------------------------------------------
(* How a step ends, while nothing failed. *)

LEMMA EvenBefore ==
  ASSUME TypeOK, Settled, ~GivenUp, ~Taken
  PROVE  Even
<1>1. Cardinality(FreeOnes) \in Nat /\ free_clusters \in Nat
  BY FreeFinite DEF TypeOK, LedgerOK
<1> QED BY <1>1 DEF Settled, Balance, Even

LEMMA EvenAfter ==
  ASSUME TypeOK', Even', ~GivenUp', ~Taken', Sound', Places'
  PROVE  Settled'
<1>1. FreeOnes' \subseteq Cluster
  BY DEF FreeOnes
<1>2. IsFiniteSet(Cluster)
  BY FS_Interval, VolumeAssumption DEF Cluster
<1>3. Cardinality(FreeOnes') \in Nat
  BY <1>1, <1>2, FS_Subset, FS_CardinalityType
<1>4. free_clusters' \in Nat
  BY DEF TypeOK, LedgerOK
<1> QED BY <1>3, <1>4 DEF Settled, Balance, Even

LEMMA EvenStill ==
  ASSUME TypeOK, Settled, ~GivenUp, ~Taken, fat' = fat, free_clusters' = free_clusters, base' = base
  PROVE  Even' /\ FreeOnes' = FreeOnes
<1>1. FreeOnes' = FreeOnes
  BY DEF FreeOnes
<1> QED BY <1>1, EvenBefore DEF Even, Level

\* An operation is over.
LEMMA ReturnCount ==
  ASSUME TypeOK', NEW r, Return(r), Even', Sound'
  PROVE  Settled'
<1>1. pc' = "idle" /\ o' = NoFrame
  BY DEF Return
<1>2. ~Creating' /\ ~GivenUp' /\ ~Taken' /\ \A K : ~Writing(K)'
  BY <1>1 DEF Creating, GivenUp, Taken, Writing, Resume
<1>3. Places'
  BY <1>1, <1>2, Constants DEF Places, NoFrame
<1> QED BY <1>1, <1>2, <1>3, EvenAfter

\* A name is looked up.
LEMMA LookCount ==
  ASSUME TypeOK', pc' = "find", o'.cl # BAD, o'.src # BAD, o'.next # BAD, Used(o.cl)', Used(o.tdir)',
         Even', Sound'
  PROVE  Settled'
<1>1. ~Creating' /\ ~GivenUp' /\ ~Taken' /\ \A K : ~Writing(K)'
  BY DEF Creating, GivenUp, Taken, Writing, Resume
<1>2. Places'
  BY <1>1 DEF Places
<1> QED BY <1>1, <1>2, EvenAfter

\* An operation that builds goes on.
LEMMA GrowCount ==
  ASSUME TypeOK',
         pc' \in {"data", "alloc", "payload", "dots", "slot", "zero", "entry", "linked", "extlinked"},
         o'.cl # BAD, o'.src # BAD, o'.next # BAD, Used(o.tdir)', o'.prev # 0 => Used(o.prev)',
         pc' = "slot" \/ (pc' = "alloc" /\ o'.want = "ext") => Used(o.cl)',
         pc' \in {"linked", "extlinked"} => Used(o.new)',
         pc' = "zero" => o'.new \in Cluster,
         pc' = "entry" => o'.at \in Cluster,
         Even', Sound'
  PROVE  Settled'
<1>1. ~GivenUp' /\ ~Taken' /\ \A K : ~Writing(K)'
  BY DEF GivenUp, Taken, Writing
<1>2. Places'
  BY <1>1 DEF Places
<1> QED BY <1>1, <1>2, EvenAfter

\* It calls fat32_set_fat_entry.
LEMMA GrowCallCount ==
  ASSUME TypeOK', pc' = "setfat", wr'.then \in Resume \ {"freed"}, wr'.i = 1,
         o'.cl # BAD, o'.src # BAD, o'.next # BAD, Used(o.tdir)', o'.prev # 0 => Used(o.prev)',
         wr'.then = "alloced" => wr'.cl \in FreeOnes',
         wr'.then # "alloced" => Used(wr.cl)',
         wr'.then = "alloced" /\ o'.want = "ext" => Used(o.cl)',
         wr'.then \in {"linked", "extlinked"} => Used(o.new)',
         Even', Sound'
  PROVE  Settled'
<1>1. ~GivenUp' /\ ~Taken'
  BY DEF GivenUp, Taken, Writing, Resume
<1>2. wr'.cl \in FreeOnes' => wr'.cl \in Cluster
  BY DEF FreeOnes
<1>3. Places'
  BY <1>1, <1>2 DEF Places, Used, Writing
<1> QED BY <1>1, <1>3, EvenAfter

\* A removal goes on.
LEMMA RemoveCount ==
  ASSUME TypeOK', pc' \in {"empty", "free", "mark"},
         o'.cl # BAD, o'.src # BAD, o'.next # BAD,
         pc' = "empty" \/ (pc' = "free" /\ o'.cl \in Cluster) => Used(o.cl)',
         Even', Sound'
  PROVE  Settled'
<1>1. ~Creating' /\ ~GivenUp' /\ ~Taken' /\ \A K : ~Writing(K)'
  BY DEF Creating, GivenUp, Taken, Writing, Resume
<1>2. Places'
  BY <1>1 DEF Places
<1> QED BY <1>1, <1>2, EvenAfter

----------------------------------------------------------------------------
(* The actions, while nothing failed. *)

LEMMA HeadUsed ==
  ASSUME TypeOK, Clean, NEW p \in LiveSlots, EntryAt(p).first # 0
  PROVE  Used(EntryAt(p).first)
<1>1. EntryAt(p) \in Entry
  BY DEF LiveSlots, EntryAt, TypeOK, MediaOK
<1>2. EntryAt(p).first \in Cluster
  BY <1>1 DEF Entry
<1>3. EntryAt(p).first \in Targets
  BY TargetsAre DEF HeadSlots
<1> QED BY <1>2, <1>3 DEF Clean, Used

LEMMA NextUsed ==
  ASSUME TypeOK, Clean, NEW c, Used(c), fat[1][c] # END
  PROVE  Used(fat[1][c])
<1>1. c \in Cluster /\ fat[1][c] \in Link /\ fat[1][c] # FREE
  BY Constants DEF TypeOK, MediaOK, Used, FreeOnes
<1>2. fat[1][c] \in Cluster
  BY <1>1 DEF Link
<1>3. fat[1][c] \in Targets
  BY <1>1, <1>2, TargetsAre DEF FatLinks
<1> QED BY <1>2, <1>3 DEF Clean, Used

LEMMA DirsUsed == ASSUME TypeOK, Clean, DirsHaveCluster PROVE \A d \in LiveDirs : Used(d)
<1>1. Used(Root)
  BY Constants DEF Used, Clean
<1>2. \A p \in LiveSlots : EntryAt(p).kind = "dir" => Used(EntryAt(p).first)
  BY HeadUsed DEF DirsHaveCluster
<1> QED BY <1>1, <1>2 DEF LiveDirs

\* What the lemmas below start from.
Calmly == CountInv /\ HeadsInv /\ TypeOK /\ TypeOK' /\ Settled /\ ~IOError /\ base' = base

LEMMA CalmSound == ASSUME Settled, Calm PROVE Sound'
  BY DEF Settled, Sound, Calm

LEMMA BeginCount ==
  ASSUME Calmly, NEW f, Begin(f), f.cl # BAD, f.src # BAD, f.next # BAD, Used(f.cl), Used(f.tdir)
  PROVE  Settled'
<1>1. pc = "idle" /\ pc' = "find" /\ o' = f /\ Still /\ Calm
  BY DEF Begin
<1>2. ~GivenUp /\ ~Taken
  BY <1>1 DEF GivenUp, Taken, Writing
<1>3. Even' /\ FreeOnes' = FreeOnes /\ Sound'
  BY <1>1, <1>2, EvenStill, CalmSound DEF Calmly, Settled, Still
<1> QED BY <1>1, <1>3, LookCount DEF Calmly, Used

LEMMA CallCount == ASSUME Calmly, Call PROVE Settled'
<1>1. pc = "idle" /\ ~Removing
  BY DEF Call, Mkdir, Unlink, Rmdir, WriteFile, CopyFile, Begin, Removing, Writing
<1>2. \A d \in LiveDirs : Used(d)
  BY <1>1, CleanNow, DirsUsed DEF Calmly, CountInv, HeadsInv, Settled
<1>3. \A d \in LiveDirs : d \in Cluster
  BY <1>2 DEF Used
<1>4. ASSUME NEW k, NEW d \in LiveDirs, NEW n
      PROVE  Frame(k, d, n).cl = d /\ Frame(k, d, n).tdir = d /\ Frame(k, d, n).src = 0 /\ Frame(k, d, n).next = 0
  BY DEF Frame, NoFrame
<1>5. ASSUME NEW d \in LiveDirs, NEW n \in Names, Mkdir(d, n) \/ Unlink(d, n) \/ Rmdir(d, n)
      PROVE  Settled'
  BY <1>2, <1>3, <1>4, <1>5, BeginCount, Constants DEF Mkdir, Unlink, Rmdir
<1>6. ASSUME NEW d \in LiveDirs, NEW n \in Names, NEW len \in 0 .. MaxLen, NEW x \in Data,
             WriteFile(d, n, len, x)
      PROVE  Settled'
  <2> DEFINE f == [Frame("write", d, n) EXCEPT !.len = len, !.left = len, !.buf = x]
  <2>1. f.cl = d /\ f.tdir = d /\ f.src = 0 /\ f.next = 0
    BY DEF Frame, NoFrame
  <2> QED BY <1>2, <1>3, <1>6, <2>1, BeginCount, Constants DEF WriteFile
<1>7. ASSUME NEW d \in LiveDirs, NEW n \in Names, NEW td \in LiveDirs, NEW tn \in Names,
             CopyFile(d, n, td, tn)
      PROVE  Settled'
  <2> DEFINE f == [Frame("copy", d, n) EXCEPT !.tdir = td, !.tname = tn]
  <2>1. f.cl = d /\ f.tdir = td /\ f.src = 0 /\ f.next = 0
    BY DEF Frame, NoFrame
  <2> QED BY <1>2, <1>3, <1>7, <2>1, BeginCount, Constants DEF CopyFile
<1> QED BY <1>5, <1>6, <1>7 DEF Call

LEMMA FindCount == ASSUME Calmly, FindScan \/ FindOver PROVE Settled'
<1>1. /\ pc = "find" /\ Still /\ Calm /\ IOFine /\ o \in Frames
      /\ o.cl # BAD /\ o.src # BAD /\ o.next # BAD /\ Used(o.cl) /\ Used(o.tdir) /\ o.prev = 0
      /\ ~Removing
  BY DEF FindScan, FindOver, Calmly, Settled, Places, GetNext, IOFine, CountInv, ChainInv, Course,
         Creating, Removing, Writing, Resume, TypeOK, DriverOK
<1>2. ~GivenUp /\ ~Taken
  BY <1>1 DEF GivenUp, Taken, Writing
<1>3. Even' /\ FreeOnes' = FreeOnes /\ Sound'
  BY <1>1, <1>2, EvenStill, CalmSound DEF Calmly, Settled, Still
<1>4. Clean
  BY <1>1, CleanNow DEF Calmly, CountInv, Settled
<1>5. CASE NotFound
  <2>1. CASE \E r : Return(r)
    BY <1>3, <2>1, ReturnCount DEF Calmly
  <2> DEFINE f == [o EXCEPT !.want = "dir"]
  <2>2. f.cl = o.cl /\ f.src = o.src /\ f.next = o.next /\ f.tdir = o.tdir /\ f.prev = o.prev
        /\ f.want = "dir"
    BY <1>1 DEF Frames
  <2>3. CASE Goto("alloc", f)
    <3>1. pc' = "alloc" /\ o' = f
      BY <2>3 DEF Goto
    <3> QED BY <1>1, <1>3, <2>2, <3>1, GrowCount DEF Calmly, Used
  <2>4. CASE o.kind = "write" /\ Goto("data", o)
    <3>1. pc' = "data" /\ o' = o
      BY <2>4 DEF Goto
    <3> QED BY <1>1, <1>3, <2>4, <3>1, GrowCount DEF Calmly, Used
  <2> QED BY <1>5, <2>1, <2>3, <2>4 DEF NotFound
<1>6. ASSUME NEW i \in Slot, disk[o.cl][i].kind \in Live, Found(o.cl, i) PROVE Settled'
  <2> DEFINE e == disk[o.cl][i]
             f == [o EXCEPT !.at = o.cl, !.index = i, !.victim = e.first, !.cl = e.first, !.steps = 0]
             g == [o EXCEPT !.src = e.first, !.len = e.len, !.left = e.len]
  <2>1. \/ \E r : Return(r)
        \/ o.kind = "rmdir" /\ e.kind = "dir" /\ Goto("empty", f)
        \/ Goto("free", f) \/ Goto("mark", f)
        \/ o.kind # "mkdir" /\ Goto("data", g)
    BY <1>6 DEF Found
  <2>2. o.cl \in Cluster /\ <<o.cl, i>> \in LiveSlots /\ EntryAt(<<o.cl, i>>) = e /\ e \in Entry
    BY <1>1, <1>6 DEF LiveSlots, EntryAt, Used, Calmly, TypeOK, MediaOK
  <2>3. e.first # 0 => Used(e.first)
    BY <1>4, <2>2, HeadUsed DEF Calmly
  <2>4. e.kind = "dir" => e.first # 0
    BY <2>2 DEF Calmly, HeadsInv, DirsHaveCluster
  <2>5. e.first # BAD /\ (e.first \in Cluster => e.first # 0)
    BY <2>2, Constants DEF Entry
  <2> HIDE DEF e
  <2>6. f.cl = e.first /\ f.src = o.src /\ f.next = o.next
    BY <1>1 DEF Frames
  <2>7. g.cl = o.cl /\ g.src = e.first /\ g.next = o.next /\ g.tdir = o.tdir /\ g.prev = o.prev
        /\ g.kind = o.kind
    BY <1>1 DEF Frames
  <2> HIDE DEF f, g
  <2>8. CASE \E r : Return(r)
    BY <1>3, <2>8, ReturnCount DEF Calmly
  <2>9. ASSUME NEW p \in {"empty", "free", "mark"}, Goto(p, f), p = "empty" => e.kind = "dir"
        PROVE  Settled'
    <3>1. pc' = p /\ o' = f
      BY <2>9 DEF Goto
    <3> QED BY <1>1, <1>3, <2>3, <2>4, <2>5, <2>6, <2>9, <3>1, RemoveCount DEF Calmly, Used
  <2>10. CASE o.kind # "mkdir" /\ Goto("data", g)
    <3>1. pc' = "data" /\ o' = g
      BY <2>10 DEF Goto
    <3> QED BY <1>1, <1>3, <2>5, <2>7, <2>10, <3>1, GrowCount DEF Calmly, Used
  <2> QED BY <2>1, <2>8, <2>9, <2>10
<1>7. ASSUME NEW n \in Number, GetNext(o.cl, n), n # END, Goto("find", [o EXCEPT !.cl = n, !.steps = @ + 1])
      PROVE  Settled'
  <2>1. n = fat[1][o.cl]
    BY <1>1, <1>7 DEF GetNext, NextOf, Calmly
  <2>2. Used(n) /\ n # BAD
    BY <1>1, <1>4, <1>7, <2>1, NextUsed, Constants DEF Calmly, Used
  <2>3. pc' = "find" /\ o'.cl = n /\ o'.src = o.src /\ o'.next = o.next /\ o'.tdir = o.tdir
    BY <1>1, <1>7 DEF Goto, Frames
  <2> QED BY <1>1, <1>3, <2>2, <2>3, LookCount DEF Calmly, Used
<1> QED BY <1>1, <1>5, <1>6, <1>7 DEF FindScan, FindOver, StopsFind, Least, Calmly

\* What an operation that builds knows at any of its points.
LEMMA Building ==
  ASSUME Calmly, Creating
  PROVE  /\ ~Removing /\ ~GivenUp /\ o \in Frames /\ wr \in Writes
         /\ o.cl # BAD /\ o.src # BAD /\ o.next # BAD
         /\ Used(o.tdir) /\ (o.prev # 0 => Used(o.prev))
         /\ Clean /\ FirstInv /\ NewInv
<1>1. ~Removing /\ ~GivenUp
  BY DEF Creating, Removing, Writing, Resume, GivenUp
<1>2. Clean /\ FirstInv /\ NewInv
  BY <1>1, CleanNow DEF Calmly, CountInv, Settled
<1> QED BY <1>1, <1>2 DEF Calmly, Settled, Places, TypeOK, DriverOK

\* It goes on, and neither the FAT nor the count has changed.
LEMMA GrowOnCount ==
  ASSUME Calmly, Creating, ~Taken, fat' = fat, free_clusters' = free_clusters, Sound',
         NEW p \in {"data", "alloc", "dots", "slot", "entry"},
         pc' = p, o'.cl # BAD, o'.src # BAD,
         o'.next = o.next, o'.tdir = o.tdir, o'.prev = o.prev, o'.kind = o.kind, o'.first = o.first,
         p = "slot" \/ (p = "alloc" /\ o'.want = "ext") => Used(o'.cl),
         p = "entry" => o'.at \in Cluster
  PROVE  Settled'
<1>1. ~GivenUp /\ o.next # BAD /\ Used(o.tdir) /\ (o.prev # 0 => Used(o.prev))
  BY Building
<1>2. Even' /\ FreeOnes' = FreeOnes
  BY <1>1, EvenStill DEF Calmly
<1> QED BY <1>1, <1>2, GrowCount DEF Calmly, Used

LEMMA DataDoneCount == ASSUME Calmly, DataDone PROVE Settled'
<1>1. /\ Creating /\ ~Taken /\ Still /\ Calm /\ o \in Frames /\ pc = "data" /\ ~Writing({"alloced"})
  BY DEF DataDone, Creating, Taken, Writing, Calmly, TypeOK, DriverOK
<1>2. /\ pc' = "slot" /\ o'.cl = o.tdir /\ o'.src = o.src /\ o'.next = o.next /\ o'.tdir = o.tdir
      /\ o'.prev = o.prev /\ o'.kind = o.kind /\ o'.first = o.first
  BY <1>1 DEF DataDone, Goto, Frames
<1>3. Used(o.tdir) /\ o.tdir # BAD /\ o.src # BAD
  BY <1>1, Building, Constants DEF Used
<1>4. Sound'
  BY <1>1, CalmSound DEF Calmly, Settled, Still
<1> QED BY <1>1, <1>2, <1>3, <1>4, GrowOnCount DEF Still

LEMMA WriteMoreCount == ASSUME Calmly, WriteMore PROVE Settled'
<1>1. /\ Creating /\ ~Taken /\ Still /\ Calm /\ o \in Frames /\ pc = "data" /\ ~Writing({"alloced"})
  BY DEF WriteMore, Creating, Taken, Writing, Calmly, TypeOK, DriverOK
<1>2. /\ pc' = "alloc" /\ o'.cl = o.cl /\ o'.src = o.src /\ o'.next = o.next /\ o'.tdir = o.tdir
      /\ o'.prev = o.prev /\ o'.kind = o.kind /\ o'.first = o.first /\ o'.want = "data"
  BY <1>1 DEF WriteMore, Goto, Frames
<1>3. Sound' /\ o.cl # BAD /\ o.src # BAD
  BY <1>1, CalmSound, Building DEF Calmly, Settled, Still
<1> QED BY <1>1, <1>2, <1>3, GrowOnCount DEF Still

LEMMA CopyMoreCount == ASSUME Calmly, CopyMore PROVE Settled'
<1>1. /\ Creating /\ ~Taken /\ Still /\ o \in Frames /\ pc = "data" /\ ~Writing({"alloced"})
  BY DEF CopyMore, Creating, Taken, Writing, Calmly, TypeOK, DriverOK
<1>2. o.cl # BAD /\ o.src # BAD /\ ~GivenUp
  BY <1>1, Building
<1>3. Calm
  BY <1>2 DEF CopyMore, Calmly
<1>4. Sound' /\ Even'
  BY <1>1, <1>2, <1>3, CalmSound, EvenStill DEF Calmly, Settled, Still
<1>5. CASE Return("short")
  BY <1>4, <1>5, ReturnCount DEF Calmly
<1>6. ASSUME NEW b, Goto("alloc", [o EXCEPT !.want = "data", !.buf = b]) PROVE Settled'
  <2>1. /\ pc' = "alloc" /\ o'.cl = o.cl /\ o'.src = o.src /\ o'.next = o.next /\ o'.tdir = o.tdir
        /\ o'.prev = o.prev /\ o'.kind = o.kind /\ o'.first = o.first /\ o'.want = "data"
    BY <1>1, <1>6 DEF Goto, Frames
  <2> QED BY <1>1, <1>2, <1>4, <2>1, GrowOnCount DEF Still
<1> QED BY <1>2, <1>5, <1>6 DEF CopyMore, Calmly

LEMMA WritePayloadCount == ASSUME Calmly, WritePayload PROVE Settled'
<1>1. /\ Creating /\ ~Taken /\ o \in Frames /\ pc = "payload" /\ ~Writing({"alloced"})
      /\ fat' = fat /\ free_clusters' = free_clusters /\ MediaOK
  BY DEF WritePayload, Creating, Resume, Taken, Writing, Calmly, TypeOK, DriverOK
<1>2. o.cl # BAD /\ o.src # BAD
  BY <1>1, Building
<1>3. disk' = [disk EXCEPT ![o.new] = Payload(o.buf)] /\ Calm
  BY DEF WritePayload, Calmly
<1>4. Sound'
  BY <1>3, CalmSound DEF Calmly, Settled
<1>5. CASE Goto("data", [o EXCEPT !.left = @ - 1])
  <2>1. /\ pc' = "data" /\ o'.cl = o.cl /\ o'.src = o.src /\ o'.next = o.next /\ o'.tdir = o.tdir
        /\ o'.prev = o.prev /\ o'.kind = o.kind /\ o'.first = o.first
    BY <1>1, <1>5 DEF Goto, Frames
  <2> QED BY <1>1, <1>2, <1>4, <2>1, GrowOnCount
<1>6. ASSUME NEW n \in Number, GetNext(o.src, n), Goto("data", [o EXCEPT !.left = @ - 1, !.src = n])
      PROVE  Settled'
  <2>1. /\ pc' = "data" /\ o'.cl = o.cl /\ o'.src = n /\ o'.next = o.next /\ o'.tdir = o.tdir
        /\ o'.prev = o.prev /\ o'.kind = o.kind /\ o'.first = o.first
    BY <1>1, <1>6 DEF Goto, Frames
  <2>2. o.src \in Cluster /\ n = fat[1][o.src]
    BY <1>2, <1>6 DEF GetNext, NextOf, Calmly
  <2>3. n \in Link /\ BAD \notin Link
    BY <1>1, <2>2, Constants DEF MediaOK, Link, FREE
  <2> QED BY <1>1, <1>2, <1>4, <2>1, <2>3, GrowOnCount
<1> QED BY <1>5, <1>6 DEF WritePayload, Calmly

LEMMA WriteDotsCount == ASSUME Calmly, WriteDots PROVE Settled'
<1>1. /\ Creating /\ ~Taken /\ o \in Frames /\ pc = "dots" /\ ~Writing({"alloced"})
      /\ fat' = fat /\ free_clusters' = free_clusters /\ MediaOK
  BY DEF WriteDots, Creating, Taken, Writing, Calmly, TypeOK, DriverOK
<1>2. o.cl # BAD /\ o.src # BAD /\ Used(o.tdir) /\ o.tdir # BAD
  BY <1>1, Building, Constants DEF Used
<1>3. disk' = [disk EXCEPT ![o.new] = Dots] /\ Calm /\ Goto("slot", [o EXCEPT !.cl = o.tdir, !.steps = 0])
  BY DEF WriteDots, Calmly
<1>4. Sound'
  BY <1>1, <1>3, CalmSound DEF Calmly, Settled
<1>5. /\ pc' = "slot" /\ o'.cl = o.tdir /\ o'.src = o.src /\ o'.next = o.next /\ o'.tdir = o.tdir
      /\ o'.prev = o.prev /\ o'.kind = o.kind /\ o'.first = o.first
  BY <1>1, <1>3 DEF Goto, Frames
<1> QED BY <1>1, <1>2, <1>4, <1>5, GrowOnCount

LEMMA WriteZeroesCount == ASSUME Calmly, WriteZeroes PROVE Settled'
<1>1. /\ Creating /\ ~Taken /\ o \in Frames /\ pc = "zero" /\ ~Writing({"alloced"})
      /\ fat' = fat /\ free_clusters' = free_clusters /\ MediaOK
  BY DEF WriteZeroes, Creating, Resume, Taken, Writing, Calmly, TypeOK, DriverOK
<1>2. o.cl # BAD /\ o.src # BAD
  BY <1>1, Building
<1>3. disk' = [disk EXCEPT ![o.new] = Zeroed] /\ Calm
      /\ Goto("entry", [o EXCEPT !.at = o.new, !.index = 1])
  BY DEF WriteZeroes, Calmly
<1>4. Sound'
  BY <1>1, <1>3, CalmSound DEF Calmly, Settled
<1>5. /\ pc' = "entry" /\ o'.cl = o.cl /\ o'.src = o.src /\ o'.next = o.next /\ o'.tdir = o.tdir
      /\ o'.prev = o.prev /\ o'.kind = o.kind /\ o'.first = o.first /\ o'.at = o.new
  BY <1>1, <1>3 DEF Goto, Frames
<1>6. o.new \in Cluster
  BY <1>1 DEF Calmly, Settled, Places
<1> QED BY <1>1, <1>2, <1>4, <1>5, <1>6, GrowOnCount

LEMMA SlotCount == ASSUME Calmly, SlotScan \/ SlotOver PROVE Settled'
<1>1. /\ Creating /\ ~Taken /\ o \in Frames /\ pc = "slot" /\ ~Writing({"alloced"}) /\ Still
  BY DEF SlotScan, SlotOver, Creating, Taken, Writing, Calmly, TypeOK, DriverOK
<1>2. /\ o.cl # BAD /\ o.src # BAD /\ Clean /\ Used(o.cl) /\ o.cl \in Cluster
  BY <1>1, Building DEF Calmly, Settled, Places, Used
<1>3. Sound'
  BY <1>2, CalmSound DEF SlotScan, SlotOver, Calmly, Settled, Sound, Hurt
<1>4. Sound'
  BY <1>1, <1>3 DEF Calmly, Settled, Still
<1>5. ASSUME NEW c \in Cluster, NEW i, Goto("entry", [o EXCEPT !.at = c, !.index = i]) PROVE Settled'
  <2>1. /\ pc' = "entry" /\ o'.cl = o.cl /\ o'.src = o.src /\ o'.next = o.next /\ o'.tdir = o.tdir
        /\ o'.prev = o.prev /\ o'.kind = o.kind /\ o'.first = o.first /\ o'.at = c
    BY <1>1, <1>5 DEF Goto, Frames
  <2> QED BY <1>1, <1>2, <1>4, <2>1, GrowOnCount DEF Still
<1>6. CASE Goto("alloc", [o EXCEPT !.want = "ext"])
  <2>1. /\ pc' = "alloc" /\ o'.cl = o.cl /\ o'.src = o.src /\ o'.next = o.next /\ o'.tdir = o.tdir
        /\ o'.prev = o.prev /\ o'.kind = o.kind /\ o'.first = o.first
    BY <1>1, <1>6 DEF Goto, Frames
  <2> QED BY <1>1, <1>2, <1>4, <2>1, GrowOnCount DEF Still
<1>7. ASSUME NEW n \in Number, GetNext(o.cl, n), n # END, Goto("slot", [o EXCEPT !.cl = n, !.steps = @ + 1])
      PROVE  Settled'
  <2>1. /\ pc' = "slot" /\ o'.cl = n /\ o'.src = o.src /\ o'.next = o.next /\ o'.tdir = o.tdir
        /\ o'.prev = o.prev /\ o'.kind = o.kind /\ o'.first = o.first
    BY <1>1, <1>7 DEF Goto, Frames
  <2>2. n = fat[1][o.cl]
    BY <1>2, <1>7 DEF GetNext, NextOf, Calmly
  <2>3. Used(n) /\ n # BAD
    BY <1>2, <1>7, <2>2, NextUsed, Constants DEF Calmly, Used
  <2> QED BY <1>1, <1>2, <1>4, <2>1, <2>3, GrowOnCount DEF Still
<1> QED BY <1>2, <1>5, <1>6, <1>7 DEF SlotScan, SlotOver, Calmly

LEMMA WriteEntryCount == ASSUME Calmly, WriteEntry PROVE Settled'
<1>1. /\ Creating /\ ~Taken /\ o \in Frames /\ pc = "entry" /\ ~Writing({"alloced"})
      /\ fat' = fat /\ free_clusters' = free_clusters /\ MediaOK
  BY DEF WriteEntry, Creating, Taken, Writing, Calmly, TypeOK, DriverOK
<1>2. /\ o.at \in Cluster /\ ~GivenUp
  BY <1>1, Building DEF Calmly, Settled, Places
<1>3. disk' = [disk EXCEPT ![o.at][o.index] = NewEntry] /\ Calm /\ Return("ok")
  BY <1>2, Constants DEF WriteEntry, Calmly
<1>4. Even' /\ Sound'
  BY <1>1, <1>2, <1>3, EvenStill, CalmSound DEF Calmly
<1> QED BY <1>3, <1>4, ReturnCount DEF Calmly

LEMMA AllocCount == ASSUME Calmly, Alloc PROVE Settled'
<1>1. /\ Creating /\ ~Taken /\ o \in Frames /\ pc = "alloc" /\ Still
  BY DEF Alloc, Creating, Taken, Writing, Calmly, TypeOK, DriverOK
<1>2. /\ ~GivenUp /\ o.cl # BAD /\ o.src # BAD /\ o.next # BAD
      /\ Used(o.tdir) /\ (o.prev # 0 => Used(o.prev)) /\ (o.want = "ext" => Used(o.cl))
  BY <1>1, Building DEF Calmly, Settled, Places
<1>3. Even' /\ FreeOnes' = FreeOnes
  BY <1>1, <1>2, EvenStill DEF Calmly, Settled, Still
<1>4. CASE Abort("nospace")
  <2>1. mishap' = mishap \cup Harm /\ Harm = {}
    BY <1>1, <1>4 DEF Abort, Harm, FreeWindow, LinkWindow
  <2>2. Sound'
    BY <2>1 DEF Calmly, Settled, Sound
  <2> QED BY <1>3, <1>4, <2>2, ReturnCount DEF Abort, Calmly
<1>5. ASSUME NEW c \in FreeOnes, Calm, SetFat([o EXCEPT !.new = c], c, END, "alloced") PROVE Settled'
  <2> DEFINE f == [o EXCEPT !.new = c]
  <2>1. /\ f.cl = o.cl /\ f.src = o.src /\ f.next = o.next /\ f.tdir = o.tdir
        /\ f.prev = o.prev /\ f.kind = o.kind /\ f.first = o.first /\ f.want = o.want
    BY <1>1 DEF Frames
  <2> HIDE DEF f
  <2>2. pc' = "setfat" /\ o' = f /\ wr'.then = "alloced" /\ wr'.cl = c /\ wr'.i = 1
    BY <1>5 DEF SetFat, f
  <2>3. Sound'
    BY <1>5, CalmSound DEF Calmly
  <2> QED BY <1>2, <1>3, <2>1, <2>2, <2>3, GrowCallCount DEF Calmly, Used, Resume
<1> QED BY <1>4, <1>5 DEF Alloc, Least, Calmly

\* fat32_alloc_cluster counts the cluster it has marked.
LEMMA AllocedCount == ASSUME Calmly, Alloced PROVE Settled'
<1> DEFINE f == [o EXCEPT !.first = IF @ = 0 THEN o.new ELSE @, !.prev = o.new]
<1>1. /\ Creating /\ Taken /\ o \in Frames /\ pc = "alloced" /\ fat' = fat /\ disk' = disk /\ Calm
      /\ ~Writing({"freed"})
  BY DEF Alloced, Creating, Resume, Taken, Writing, Calmly, TypeOK, DriverOK
<1>2. /\ ~GivenUp /\ o.cl # BAD /\ o.src # BAD /\ o.next # BAD
      /\ Used(o.tdir) /\ (o.prev # 0 => Used(o.prev)) /\ (o.want = "ext" => Used(o.cl)) /\ NewInv
  BY <1>1, Building DEF Calmly, Settled, Places
<1>3. Used(o.new) /\ o.new # 0
  BY <1>1, <1>2, Constants DEF NewInv, Unclaimed, Used
<1>4. FreeOnes' = FreeOnes /\ Sound'
  BY <1>1, CalmSound DEF FreeOnes, Calmly, Settled
<1>5. Even'
  <2>1. free_clusters \in Nat /\ Cardinality(FreeOnes) \in Nat /\ base.count \in Nat /\ base.free \in Nat
    BY FreeFinite DEF Calmly, TypeOK, LedgerOK
  <2>2. Level(free_clusters, Cardinality(FreeOnes) + 1)
    BY <1>1, <1>2, <2>1 DEF Calmly, Settled, Balance
  <2>3. Level(IF free_clusters > 0 THEN free_clusters - 1 ELSE 0, Cardinality(FreeOnes))
    BY <2>1, <2>2 DEF Level
  <2> QED BY <1>4, <2>3 DEF Alloced, Even, Level, Calmly
<1>6. /\ f.cl = o.cl /\ f.src = o.src /\ f.next = o.next /\ f.tdir = o.tdir /\ f.new = o.new
      /\ f.prev = o.new /\ f.kind = o.kind /\ f.first # 0 /\ f.want = o.want
  BY <1>1, <1>3 DEF Frames
<1>7. \/ o.want = "dir" /\ Goto("dots", f)
      \/ o.want = "ext" /\ SetFat(o, o.cl, o.new, "extlinked")
      \/ o.want \notin {"dir", "ext"} /\ o.prev # 0 /\ SetFat(f, o.prev, o.new, "linked")
      \/ o.want \notin {"dir", "ext"} /\ o.prev = 0 /\ SetFat(f, o.new, END, "payload")
  BY <1>1 DEF Alloced
<1> HIDE DEF f
<1>8. CASE Goto("dots", f)
  <2>1. pc' = "dots" /\ o' = f
    BY <1>8 DEF Goto
  <2> QED BY <1>2, <1>3, <1>4, <1>5, <1>6, <2>1, GrowCount DEF Calmly, Used
<1>9. CASE o.want = "ext" /\ SetFat(o, o.cl, o.new, "extlinked")
  <2>1. pc' = "setfat" /\ o' = o /\ wr'.then = "extlinked" /\ wr'.cl = o.cl /\ wr'.i = 1
    BY <1>9 DEF SetFat
  <2> QED BY <1>2, <1>3, <1>4, <1>5, <1>9, <2>1, GrowCallCount DEF Calmly, Used, Resume
<1>10. CASE o.prev # 0 /\ SetFat(f, o.prev, o.new, "linked")
  <2>1. pc' = "setfat" /\ o' = f /\ wr'.then = "linked" /\ wr'.cl = o.prev /\ wr'.i = 1
    BY <1>10 DEF SetFat
  <2> QED BY <1>2, <1>3, <1>4, <1>5, <1>6, <1>10, <2>1, GrowCallCount DEF Calmly, Used, Resume
<1>11. CASE SetFat(f, o.new, END, "payload")
  <2>1. pc' = "setfat" /\ o' = f /\ wr'.then = "payload" /\ wr'.cl = o.new /\ wr'.i = 1
    BY <1>11 DEF SetFat
  <2> QED BY <1>2, <1>3, <1>4, <1>5, <1>6, <2>1, GrowCallCount DEF Calmly, Used, Resume
<1> QED BY <1>7, <1>8, <1>9, <1>10, <1>11

LEMMA LinkedCount == ASSUME Calmly, Linked PROVE Settled'
<1>1. /\ Creating /\ ~Taken /\ o \in Frames /\ pc \in {"linked", "extlinked"} /\ Still /\ Calm
      /\ ~Writing({"alloced"})
  BY DEF Linked, Creating, Resume, Taken, Writing, Calmly, TypeOK, DriverOK
<1>2. /\ ~GivenUp /\ o.cl # BAD /\ o.src # BAD /\ o.next # BAD
      /\ Used(o.tdir) /\ (o.prev # 0 => Used(o.prev)) /\ Used(o.new)
  BY <1>1, Building DEF Calmly, Settled, Places
<1>3. Even' /\ FreeOnes' = FreeOnes /\ Sound'
  BY <1>1, <1>2, EvenStill, CalmSound DEF Calmly, Settled, Still
<1>4. /\ pc' = "setfat" /\ o' = o /\ wr'.cl = o.new /\ wr'.i = 1 /\ wr'.then \in {"payload", "zero"}
  BY DEF Linked, SetFat
<1> QED BY <1>2, <1>3, <1>4, GrowCallCount DEF Calmly, Used, Resume

\* The cluster behind the one a removal is about to free is in use and another one.
LEMMA NextIsOther ==
  ASSUME Calmly, Writing({"freed"}), wr.i = 1, o.next \in Cluster
  PROVE  Used(o.next) /\ o.next # o.cl
<1>1. Removing /\ Unread /\ OneOwner /\ OnlyVictimDangles /\ RemoveInv /\ o.next # BAD
  BY DEF Removing, Unread, Calmly, CountInv, ChainInv, Chains, Settled, Places
<1>2. o.cl \in Cluster /\ o.next = fat[1][o.cl]
  BY <1>1 DEF RemoveInv, Calmly, Settled, Places, CountInv, ChainInv, Course, Writing
<1>3. o.cl \in FatLinks /\ o.next \in Targets
  BY <1>2, TargetsAre DEF FatLinks
<1>4. o.next # o.victim
  <2>1. SUFFICES ASSUME o.next = o.victim PROVE FALSE
    OBVIOUS
  <2>2. o.index \in Slot /\ o.at \in Cluster /\ Victim.kind \in Live /\ Victim.first = o.victim
    BY <1>1 DEF RemoveInv, Calmly, TypeOK, DriverOK, Frames
  <2>3. <<o.at, o.index>> \in HeadSlots
    BY <2>1, <2>2, Constants DEF HeadSlots, LiveSlots, Victim, EntryAt
  <2> QED BY <1>1, <1>2, <1>3, <2>1, <2>2, <2>3 DEF OneOwner, Victim
<1>5. o.next \notin FreeOnes
  BY <1>1, <1>3, <1>4 DEF OnlyVictimDangles
<1>6. o.next # o.cl
  BY <1>1, <1>2, <1>3, <1>4 DEF RemoveInv
<1> QED BY <1>5, <1>6 DEF Used

\* One copy of an entry is written: what that does to the free clusters.
LEMMA CopyCount ==
  ASSUME Calmly, SetFatCopy
  PROVE  /\ fat' = Written /\ disk' = disk /\ free_clusters' = free_clusters /\ o' = o /\ Calm
         /\ pc = "setfat" /\ wr.cl \in Cluster /\ wr.then \in Resume
         /\ \/ pc' = "setfat" /\ wr'.i > 1 /\ wr'.i # 1 /\ wr'.cl = wr.cl /\ wr'.then = wr.then
            \/ pc' = wr.then
         /\ \A c : Used(c) /\ (wr.then = "freed" => c # wr.cl \/ wr.i > 1) => Used(c)'
         /\ Level(free_clusters + (IF wr.then = "freed" THEN 1 ELSE 0),
                  Cardinality(FreeOnes') + (IF wr.then = "alloced" THEN 1 ELSE 0))
<1>1. /\ pc = "setfat" /\ wr.cl \in Cluster /\ wr.then \in Resume /\ wr \in Writes
      /\ disk' = disk /\ free_clusters' = free_clusters /\ MediaOK /\ wr.i \in Nat
  BY DEF SetFatCopy, Calmly, CountInv, ChainInv, TypeInv, Control, TypeOK, DriverOK, Writes, Copy
<1>2. /\ fat' = Written /\ Calm
      /\ \/ wr' = [wr EXCEPT !.i = @ + 1] /\ UNCHANGED <<pc, o>>
         \/ Goto(wr.then, o)
  BY DEF SetFatCopy, Written, Calmly
<1>3. wr' = [wr EXCEPT !.i = @ + 1] =>
        wr'.i = wr.i + 1 /\ wr'.cl = wr.cl /\ wr'.then = wr.then
  BY <1>1 DEF Writes
<1>4. wr.i = 1 \/ wr.i > 1
  BY <1>1 DEF Writes, Copy
<1>5. /\ o' = o
      /\ \/ pc' = "setfat" /\ wr'.i > 1 /\ wr'.i # 1 /\ wr'.cl = wr.cl /\ wr'.then = wr.then
         \/ pc' = wr.then
  BY <1>1, <1>2, <1>3, <1>4 DEF Goto
<1>6. /\ IF wr.i = 1 THEN FatWrite(wr.cl, wr.val) ELSE fat'[1] = fat[1]
  BY <1>2, CopyWritten DEF Calmly, CountInv, ChainInv
<1>7. /\ IsFiniteSet(FreeOnes) /\ Cardinality(FreeOnes) \in Nat /\ free_clusters \in Nat
      /\ base.count \in Nat /\ base.free \in Nat
  BY FreeFinite DEF Calmly, TypeOK, LedgerOK
<1>8. Level(free_clusters + (IF wr.then = "freed" /\ wr.i > 1 THEN 1 ELSE 0),
            Cardinality(FreeOnes) + (IF wr.then = "alloced" /\ wr.i > 1 THEN 1 ELSE 0))
  BY <1>1 DEF Calmly, Settled, Balance, GivenUp, Taken, Writing
<1>9. CASE wr.i > 1
  <2>1. FreeOnes' = FreeOnes
    BY <1>6, <1>9 DEF FreeOnes
  <2> QED BY <1>1, <1>2, <1>5, <1>8, <1>9, <2>1 DEF Used
<1>10. CASE wr.i = 1
  <2>1. FatWrite(wr.cl, wr.val) /\ wr.val \in Link /\ (wr.cl \in FreeOnes <=> wr.then = "alloced")
    BY <1>1, <1>6, <1>10 DEF Writes, Calmly, Settled, Places
  <2>2. FreeOnes' = (IF wr.val = FREE THEN FreeOnes \cup {wr.cl} ELSE FreeOnes \ {wr.cl})
    BY <1>1, <2>1, FatWriteSets
  <2>3. CASE wr.then = "freed"
    <3>1. wr.val = FREE /\ wr.cl \notin FreeOnes
      BY <1>1, <2>1, <2>3 DEF Calmly, CountInv, ChainInv, Course, Writing
    <3>2. FreeOnes' = FreeOnes \cup {wr.cl} /\ Cardinality(FreeOnes') = Cardinality(FreeOnes) + 1
      BY <1>7, <2>2, <3>1, FS_AddElement
    <3>3. \A c : Used(c) /\ c # wr.cl => Used(c)'
      BY <3>2 DEF Used
    <3>4. Level(free_clusters, Cardinality(FreeOnes))
      BY <1>7, <1>8, <1>10
    <3>5. Level(free_clusters + 1, Cardinality(FreeOnes'))
      BY <1>7, <3>2, <3>4 DEF Level
    <3>6. Level(free_clusters + 1, Cardinality(FreeOnes') + 0)
      BY <1>7, <3>2, <3>5
    <3> QED BY <1>1, <1>2, <1>5, <1>10, <2>3, <3>3, <3>6
  <2>4. CASE wr.then = "alloced"
    <3>1. wr.val = END /\ wr.cl \in FreeOnes
      BY <1>1, <2>1, <2>4 DEF Calmly, CountInv, ChainInv, Course, Writing
    <3>2. FreeOnes' = FreeOnes \ {wr.cl} /\ Cardinality(FreeOnes') = Cardinality(FreeOnes) - 1
      BY <1>7, <2>2, <3>1, Constants, FS_RemoveElement DEF FREE
    <3>3. \A c : Used(c) => Used(c)'
      BY <3>2 DEF Used
    <3> QED BY <1>1, <1>2, <1>5, <1>7, <1>8, <1>10, <2>4, <3>2, <3>3
  <2>5. CASE wr.then \in {"linked", "extlinked", "payload", "zero"}
    <3>1. wr.val # FREE
      <4>1. CASE wr.then \in {"linked", "extlinked"}
        <5>1. wr.val = o.new /\ Used(o.new)
          BY <1>1, <4>1 DEF Calmly, CountInv, ChainInv, Course, Writing, Settled, Places
        <5> QED BY <5>1, Constants DEF Used, FREE
      <4>2. CASE wr.then \in {"payload", "zero"}
        <5>1. wr.val = END
          BY <1>1, <4>2 DEF Calmly, CountInv, ChainInv, Course, Writing
        <5> QED BY <5>1, Constants DEF FREE
      <4> QED BY <2>5, <4>1, <4>2
    <3>2. FreeOnes' = FreeOnes
      BY <2>1, <2>2, <2>5, <3>1
    <3> QED BY <1>1, <1>2, <1>5, <1>8, <1>10, <2>5, <3>2 DEF Used
  <2> QED BY <1>1, <2>3, <2>4, <2>5 DEF Resume
<1> QED BY <1>4, <1>9, <1>10

LEMMA SetFatCopyCount == ASSUME Calmly, SetFatCopy PROVE Settled'
<1>1. /\ fat' = Written /\ disk' = disk /\ free_clusters' = free_clusters /\ o' = o /\ Calm
      /\ pc = "setfat" /\ wr.cl \in Cluster /\ wr.then \in Resume
      /\ \/ pc' = "setfat" /\ wr'.i > 1 /\ wr'.i # 1 /\ wr'.cl = wr.cl /\ wr'.then = wr.then
         \/ pc' = wr.then
      /\ \A c : Used(c) /\ (wr.then = "freed" => c # wr.cl \/ wr.i > 1) => Used(c)'
      /\ Level(free_clusters + (IF wr.then = "freed" THEN 1 ELSE 0),
               Cardinality(FreeOnes') + (IF wr.then = "alloced" THEN 1 ELSE 0))
  BY CopyCount
<1>2. (GivenUp' <=> wr.then = "freed") /\ (Taken' <=> wr.then = "alloced")
  BY <1>1 DEF Resume, GivenUp, Taken, Writing
<1>3. Balance'
  BY <1>1, <1>2 DEF Balance, Level, Calmly
<1>4. Sound'
  BY <1>1, CalmSound DEF Calmly, Settled
<1>5. Places /\ wr.i \in Nat /\ (wr.i = 1 \/ wr.i > 1)
  BY DEF Calmly, Settled, TypeOK, DriverOK, Writes, Copy
<1>6. CASE wr.then = "freed"
  <2>1. ~Creating' /\ ~Writing({"alloced"})' /\ ~Writing({"linked", "extlinked"})'
        /\ pc' \in {"setfat", "freed"} /\ (pc' = "setfat" => wr'.i > 1 /\ wr'.i # 1)
    BY <1>1, <1>6 DEF Creating, Writing, Resume
  <2>2. o.next \in Cluster => Used(o.next)'
    <3>1. CASE wr.i = 1
      <4>1. wr.cl = o.cl
        BY <1>1, <1>6 DEF Calmly, CountInv, ChainInv, Course, Writing
      <4> QED BY <1>1, <1>6, <3>1, <4>1, NextIsOther DEF Writing
    <3>2. CASE wr.i > 1
      BY <1>1, <1>5, <1>6, <3>2 DEF Places, GivenUp, Writing
    <3> QED BY <1>5, <3>1, <3>2
  <2>3. Places'
    BY <1>1, <1>5, <2>1, <2>2 DEF Places, Resume
  <2> QED BY <1>3, <1>4, <2>3 DEF Settled
<1>7. CASE wr.then # "freed"
  <2>1. /\ ~GivenUp' /\ Creating /\ Creating' /\ pc' \notin {"find", "slot", "empty", "free", "entry"}
        /\ \A c : Used(c) => Used(c)'
    BY <1>1, <1>2, <1>7 DEF Creating, Writing, Resume
  <2>2. /\ (pc' \in {"alloc", "alloced"} \/ Writing({"alloced"})') <=> wr.then = "alloced"
        /\ (pc' \in {"linked", "extlinked"} \/ Writing({"linked", "extlinked"})') <=> wr.then \in {"linked", "extlinked"}
        /\ Writing({"alloced"}) <=> wr.then = "alloced"
        /\ Writing({"linked", "extlinked"}) <=> wr.then \in {"linked", "extlinked"}
    BY <1>1, <1>7 DEF Writing, Resume
  <2>3. pc' = "zero" => o.new \in Cluster
    BY <1>1 DEF Calmly, CountInv, ChainInv, Course, Writing
  <2>4. Places'
    BY <1>1, <1>5, <2>1, <2>2, <2>3 DEF Places, Used, Resume
  <2> QED BY <1>3, <1>4, <2>4 DEF Settled
<1> QED BY <1>6, <1>7

\* A removal goes on without a write.
LEMMA RemoveOnCount ==
  ASSUME Calmly, pc \in {"empty", "free", "mark"}, Still,
         Sound', NEW p \in {"empty", "free", "mark"}, pc' = p,
         o'.cl # BAD, o'.src = o.src, o'.next = o.next,
         p = "empty" \/ (p = "free" /\ o'.cl \in Cluster) => Used(o'.cl)
  PROVE  Settled'
<1>1. ~GivenUp /\ ~Taken /\ o.src # BAD /\ o.next # BAD
  BY DEF GivenUp, Taken, Writing, Calmly, Settled, Places
<1>2. Even' /\ FreeOnes' = FreeOnes
  BY <1>1, EvenStill DEF Still, Calmly, Settled
<1> QED BY <1>1, <1>2, RemoveCount DEF Calmly, Used

LEMMA EmptyCount == ASSUME Calmly, EmptyScan \/ EmptyOver PROVE Settled'
<1>1. /\ pc = "empty" /\ Still /\ o \in Frames /\ Used(o.cl) /\ o.cl \in Cluster /\ o.cl # BAD
      /\ Removing /\ ~FreeWindow
  BY Constants DEF EmptyScan, EmptyOver, Calmly, Settled, Places, TypeOK, DriverOK, Used, Removing, FreeWindow
<1>2. Clean
  BY <1>1, ChainsClean DEF Calmly, CountInv, ChainInv, Settled
<1>3. Sound'
  BY <1>1, CalmSound DEF EmptyScan, EmptyOver, Calmly, Settled, Sound, Hurt
<1>4. CASE Return("notempty")
  <2>1. ~GivenUp /\ ~Taken
    BY <1>1 DEF GivenUp, Taken, Writing
  <2>2. Even'
    BY <1>1, <2>1, EvenStill DEF Still, Calmly, Settled
  <2> QED BY <1>3, <1>4, <2>2, ReturnCount DEF Calmly
<1>5. CASE Emptied
  <2>1. pc' = "free" /\ o'.cl = o.victim /\ o'.src = o.src /\ o'.next = o.next
    BY <1>1, <1>5 DEF Emptied, Goto, Frames
  <2>2. o.victim # BAD
    BY <1>1, Constants DEF Frames
  <2>3. o.victim \in Cluster => Used(o.victim)
    BY <1>1, <1>2, VictimIsTarget, Constants DEF Calmly, CountInv, Settled, Clean, Used
  <2> QED BY <1>1, <1>3, <2>1, <2>2, <2>3, RemoveOnCount
<1>6. ASSUME NEW n \in Number, GetNext(o.cl, n), n # END, Goto("empty", [o EXCEPT !.cl = n, !.steps = @ + 1])
      PROVE  Settled'
  <2>1. pc' = "empty" /\ o'.cl = n /\ o'.src = o.src /\ o'.next = o.next
    BY <1>1, <1>6 DEF Goto, Frames
  <2>2. n = fat[1][o.cl]
    BY <1>1, <1>6 DEF GetNext, NextOf, Calmly
  <2>3. Used(n) /\ n # BAD
    BY <1>1, <1>2, <1>6, <2>2, NextUsed, Constants DEF Calmly, Used
  <2> QED BY <1>1, <1>3, <2>1, <2>3, RemoveOnCount
<1> QED BY <1>1, <1>4, <1>5, <1>6 DEF EmptyScan, EmptyOver, Calmly

LEMMA FreeStepCount == ASSUME Calmly, FreeStep PROVE Settled'
<1>1. /\ pc = "free" /\ Still /\ Calm /\ o \in Frames /\ o.cl \in Cluster /\ MediaOK
      /\ o.cl # BAD /\ o.src # BAD /\ Used(o.cl) /\ ~GivenUp /\ ~Taken
  BY DEF FreeStep, Calmly, Settled, Places, TypeOK, DriverOK, GivenUp, Taken, Writing
<1>2. PICK n \in Number : GetNext(o.cl, n)
                          /\ SetFat([o EXCEPT !.next = n, !.steps = @ + 1], o.cl, FREE, "freed")
  BY DEF FreeStep
<1>3. n = fat[1][o.cl]
  BY <1>1, <1>2 DEF GetNext, NextOf, Calmly
<1>4. n # BAD
  BY <1>1, <1>3, Constants DEF MediaOK, Link, FREE
<1>5. /\ pc' = "setfat" /\ o'.cl = o.cl /\ o'.src = o.src /\ o'.next = n
      /\ wr'.cl = o.cl /\ wr'.then = "freed" /\ wr'.i = 1
  BY <1>1, <1>2 DEF SetFat, Frames
<1>6. Even' /\ FreeOnes' = FreeOnes /\ Sound'
  BY <1>1, EvenStill, CalmSound DEF Still, Calmly, Settled
<1>7. ~Creating' /\ ~GivenUp' /\ ~Taken' /\ ~Writing({"alloced"})' /\ ~Writing({"linked", "extlinked"})'
  BY <1>5 DEF Creating, GivenUp, Taken, Writing, Resume
<1>8. Places'
  BY <1>1, <1>4, <1>5, <1>6, <1>7 DEF Places, Used
<1> QED BY <1>5, <1>6, <1>7, <1>8, EvenAfter DEF Calmly

LEMMA FreeEndCount == ASSUME Calmly, FreeStray \/ FreeOver PROVE Settled'
<1>1. /\ pc = "free" /\ Still /\ o.cl # BAD
  BY DEF FreeStray, FreeOver, Calmly, Settled, Places
<1>2. pc' = "mark" /\ o' = o /\ Sound'
  BY <1>1 DEF FreeStray, FreeOver, Goto, Hurt, Calmly, Settled, Sound
<1> QED BY <1>1, <1>2, RemoveOnCount

\* fat32_free_chain counts the cluster it has freed.
LEMMA FreedCount == ASSUME Calmly, Freed PROVE Settled'
<1>1. /\ pc = "freed" /\ fat' = fat /\ disk' = disk /\ Calm /\ GivenUp /\ ~Taken
      /\ o.cl # BAD /\ o.src # BAD /\ o.next # BAD /\ (o.next \in Cluster => Used(o.next)) /\ o \in Frames
  BY DEF Freed, GivenUp, Taken, Writing, Calmly, Settled, Places, TypeOK, DriverOK
<1>2. FreeOnes' = FreeOnes /\ Sound'
  BY <1>1, CalmSound DEF FreeOnes, Calmly, Settled
<1>3. Even'
  <2>1. /\ free_clusters \in Nat /\ Cardinality(FreeOnes) \in Nat /\ base.count \in Nat /\ base.free \in Nat
        /\ base.count <= FsInfo /\ Cardinality(FreeOnes) <= NumClusters
    BY FreeFinite DEF Calmly, TypeOK, LedgerOK, CountInv, Mounted
  <2>2. Level(free_clusters + 1, Cardinality(FreeOnes))
    BY <1>1, <2>1 DEF Calmly, Settled, Balance
  <2>3. free_clusters # CountMax
    BY <2>1, <2>2, VolumeAssumption DEF Level
  <2> QED BY <1>1, <1>2, <2>2, <2>3 DEF Freed, Counted, Even, Level, Calmly
<1>4. CASE Goto("mark", o)
  <2>1. pc' = "mark" /\ o' = o
    BY <1>4 DEF Goto
  <2> QED BY <1>1, <1>2, <1>3, <2>1, RemoveCount DEF Calmly
<1>5. CASE Goto("free", [o EXCEPT !.cl = o.next])
  <2>1. pc' = "free" /\ o'.cl = o.next /\ o'.src = o.src /\ o'.next = o.next
    BY <1>1, <1>5 DEF Goto, Frames
  <2> QED BY <1>1, <1>2, <1>3, <2>1, RemoveCount DEF Calmly, Used
<1> QED BY <1>4, <1>5 DEF Freed

LEMMA MarkDeletedCount == ASSUME Calmly, MarkDeleted PROVE Settled'
<1>1. /\ pc = "mark" /\ fat' = fat /\ free_clusters' = free_clusters /\ MediaOK
      /\ disk' = [disk EXCEPT ![o.at][o.index] = Blank("deleted")] /\ Calm /\ Return("ok")
      /\ ~GivenUp /\ ~Taken
  BY DEF MarkDeleted, Calmly, TypeOK, GivenUp, Taken, Writing
<1>2. Even' /\ Sound'
  BY <1>1, EvenStill, CalmSound DEF Calmly
<1> QED BY <1>1, <1>2, ReturnCount DEF Calmly

\* The mount sets the count, from which it then goes on.
LEMMA MountCount == ASSUME CountInv, TypeOK, Mount PROVE Mounted' /\ (Fresh' => Settled' \/ Stuck')
<1>1. /\ pc = "off" /\ o = NoFrame /\ o' = o /\ fat' = fat /\ mishap' = mishap
      /\ errs \in Nat /\ base.errs \in Nat /\ base.errs <= errs
  BY VolumeAssumption DEF Mount, Calm, CountInv, Mounted, TypeOK, LedgerOK
<1>2. CASE IOError /\ UNCHANGED <<pc, free_clusters, base>>
  BY <1>1, <1>2 DEF IOError, Mounted, Fresh, CountInv
<1>3. CASE pc' = "idle" /\ base' = [errs |-> errs', count |-> free_clusters', free |-> Cardinality(FreeOnes)]
                        /\ free_clusters' \in {FsInfo, 0} /\ errs' \in Nat
  <2>1. free_clusters' \in Nat /\ free_clusters' <= FsInfo /\ Cardinality(FreeOnes) \in Nat
    BY <1>3, FreeFinite, VolumeAssumption
  <2>2. FreeOnes' = FreeOnes
    BY <1>1 DEF FreeOnes
  <2>3. Mounted'
    BY <1>3, <2>1 DEF Mounted
  <2>4. base'.count = free_clusters' /\ base'.free = Cardinality(FreeOnes)
    BY <1>3
  <2>5. Even'
    BY <2>1, <2>2, <2>4 DEF Even, Level
  <2>6. ~Creating' /\ ~GivenUp' /\ ~Taken' /\ \A K : ~Writing(K)'
    BY <1>3 DEF Creating, GivenUp, Taken, Writing, Resume
  <2>7. Places'
    BY <1>1, <1>3, <2>6, Constants DEF Places, NoFrame
  <2>8. Balance'
    BY <2>1, <2>2, <2>5, <2>6 DEF Balance, Even
  <2> QED BY <1>3, <2>3, <2>5, <2>7, <2>8 DEF Settled, Stuck
<1> QED BY <1>1, <1>2, <1>3 DEF Mount, IOFine, IOError

LEMMA StutterCount == ASSUME CountInv, UNCHANGED vars PROVE Mounted' /\ (Fresh' => Settled' \/ Stuck')
<1>1. FreeOnes' = FreeOnes /\ pc' = pc /\ o' = o /\ wr' = wr /\ free_clusters' = free_clusters
      /\ base' = base /\ errs' = errs /\ mishap' = mishap
  BY DEF vars, FreeOnes
<1>2. Creating' = Creating /\ GivenUp' = GivenUp /\ Taken' = Taken
  BY <1>1 DEF Creating, GivenUp, Taken, Writing
<1>3. Mounted' /\ (Fresh' => Fresh)
  BY <1>1 DEF CountInv, Mounted, Fresh
<1>4. Sound' = Sound /\ Balance' = Balance /\ Even' = Even
  BY <1>1, <1>2 DEF Sound, Balance, Even, Level
<1>5. Settled => Settled'
  <2>1. Places => Places'
    BY <1>1, <1>2 DEF Places, Used, Writing
  <2> QED BY <1>4, <2>1 DEF Settled
<1>6. Stuck => Stuck'
  BY <1>1, <1>4 DEF Stuck
<1> QED BY <1>3, <1>5, <1>6 DEF CountInv

LEMMA NextCount == ASSUME CountInv, [Next]_vars PROVE CountInv'
<1>1. ChainInv' /\ HeadsInv' /\ TypeInv /\ TypeOK /\ TypeOK'
  BY NextChains, NextHeads DEF CountInv, ChainInv, TypeInv
<1>2. CASE UNCHANGED vars
  BY <1>1, <1>2, StutterCount DEF CountInv
<1>3. CASE Mount
  BY <1>1, <1>3, MountCount DEF CountInv
<1>4. CASE Crash
  BY <1>1, <1>4 DEF Crash, CountInv, Mounted, Fresh
<1>5. CASE Next /\ ~Mount /\ ~Crash
  <2>1. base' = base /\ pc' # "off" /\ (pc = "idle" => Sound)
    BY <1>1, <1>5, StaysOn
  <2>2. Mounted'
    <3>1. errs \in Nat /\ base.errs \in Nat
      BY <1>1, VolumeAssumption DEF TypeOK, LedgerOK
    <3> QED BY <1>5, <2>1, <3>1, FaultsStay DEF CountInv, Mounted
  <2>3. ASSUME Fresh' PROVE Settled'
    <3>1. Fresh
      BY <1>1, <1>5, <2>3, FreshBefore DEF CountInv
    <3>2. Calmly
      BY <1>1, <2>1, <2>3, <3>1, NoError DEF Calmly, CountInv, Stuck
    <3>3. ~SetFatStray
      BY <3>2 DEF SetFatStray, Calmly, Settled, Places
    <3>4. CASE Step
      BY <3>2, <3>3, <3>4, FindCount, DataDoneCount, WriteMoreCount, CopyMoreCount, WritePayloadCount,
         WriteDotsCount, SetFatCopyCount, AllocCount, AllocedCount, LinkedCount, SlotCount,
         WriteZeroesCount, WriteEntryCount, EmptyCount, FreeStepCount, FreeEndCount, FreedCount,
         MarkDeletedCount DEF Step
    <3> QED BY <1>5, <3>2, <3>4, CallCount DEF Next
  <2> QED BY <1>1, <2>2, <2>3 DEF CountInv
<1> QED BY <1>2, <1>3, <1>4, <1>5

\* For every volume and every FSInfo, wherever the power goes: between any two operations
\* free_clusters has followed the free entries of the FAT since the mount, unless a sector
\* access failed after it.  Above the mount's own error it is never wrong, and a count that
\* began too small never becomes too large (FreeCountKeeps).
THEOREM CountKeeps == Spec => []FreeCountKeeps
<1>1. Spec => []CountInv
  BY InitCount, NextCount, PTL DEF Spec
<1>2. ASSUME CountInv PROVE FreeCountKeeps
  <2>1. ASSUME pc = "idle", errs = base.errs PROVE Even
    <3>1. ~GivenUp /\ ~Taken /\ TypeOK /\ (Settled \/ Stuck)
      BY <1>2, <2>1 DEF CountInv, Fresh, GivenUp, Taken, Writing, ChainInv, TypeInv
    <3> QED BY <3>1, EvenBefore DEF Stuck
  <2> QED BY <2>1 DEF FreeCountKeeps, Even, Level
<1> QED BY <1>1, <1>2, PTL

----------------------------------------------------------------------------
(* Leaks.  While no sector access fails and no cut has done harm, every orphan is lost   *)
(* already or in the hands of the operation in progress.  What a write of a cluster      *)
(* covers must therefore hold no entry, and neither must what a removal frees: the       *)
(* clusters of files are kept apart from those of directories, and an unused slot is the *)
(* end of a directory.                                                                   *)

Whole == errs = 0 /\ mishap = {}

Bare(c)  == \A i \in Slot : disk[c][i].kind \notin Live
Full(c)  == \A i \in Slot : disk[c][i].kind # "unused"
Tidy(c)  == \A i, j \in Slot : i < j /\ disk[c][i].kind = "unused" => disk[c][j].kind = "unused"
FreeBare == \A c \in FreeOnes : Bare(c)

\* A cluster is being taken, or linked, or a directory has grown by one that is not
\* zeroed yet.
Taking  == pc = "alloced" \/ Writing({"alloced"})
FirstTo(k) == Writing({k}) /\ wr.i = 1
Growing == Writing({"extlinked", "zero"}) \/ pc \in {"extlinked", "zero"}

\* F has the clusters of files, G those of directories, and R their places in the chain.
Apart(F, G, R) ==
  /\ F \subseteq Cluster /\ G \subseteq Cluster /\ F \cap G = {} /\ R \in [Cluster -> Nat]
  /\ Root \in G /\ R[Root] = 0
  /\ \A c \in FatLinks : /\ c \in F => fat[1][c] \in F
                         /\ c \in G => fat[1][c] \in G /\ R[fat[1][c]] = R[c] + 1
  /\ \A p \in HeadSlots : EntryAt(p).first \notin FreeOnes =>
       IF EntryAt(p).kind = "dir" THEN EntryAt(p).first \in G /\ R[EntryAt(p).first] = 0
       ELSE EntryAt(p).first \in F
  /\ \A c \in F : Bare(c)

\* Before the scans' bound only the last cluster of a directory has unused slots.
Shaped(c, R) == Tidy(c) /\ (c \in FatLinks /\ R[c] < DirScanMax => Full(c))
InOrder(G, R) == \A c \in G : ~(Growing /\ c = o.new) => Shaped(c, R)

\* What the operation in progress knows of F, G and R.
DirPlace(c, G, R, k) == c \in G /\ R[c] = k /\ c \notin FreeOnes
TdirKnown(G, R)  == o.tdir # 0 => DirPlace(o.tdir, G, R, 0)
WalkKnown(G, R)  == o.cl \in Cluster => DirPlace(o.cl, G, R, o.steps)
ExtKnown(G, R)   == o.want = "ext" => o.cl \in G /\ fat[1][o.cl] = END /\ (Full(o.cl) \/ R[o.cl] >= DirScanMax)
GrowKnown(G)     == o.new \in G \ {o.tdir} /\ Bare(o.new) /\ fat[1][o.new] = END
ChainKnown(F)    == o.kind # "mkdir" => /\ o.first # 0 => o.first \in F /\ o.prev # 0
                                        /\ o.prev # 0 => o.prev \in F /\ fat[1][o.prev] = END
HeadKnown(G, R)  == o.kind = "mkdir" => (o.first # 0 => DirPlace(o.first, G, R, 0))
SlotKnown(G)     == /\ o.at # 0
                    /\ o.at \in Cluster => /\ o.at \in G \ FreeOnes /\ IsFreeSlot(disk[o.at][o.index])
                                           /\ \A i \in Slot : i < o.index => ~IsFreeSlot(disk[o.at][i])
Knows(F, G, R) ==
  /\ pc = "find" \/ Creating => TdirKnown(G, R)
  /\ pc \in {"slot", "empty"} => WalkKnown(G, R)
  /\ pc = "alloc" \/ Taking \/ FirstTo("extlinked") => ExtKnown(G, R)
  /\ FirstTo("extlinked") => o.want = "ext" /\ R[o.new] = R[o.cl] + 1 /\ wr.cl = o.cl
  /\ Growing => GrowKnown(G)
  /\ Creating => ChainKnown(F)
  /\ Creating /\ pc # "dots" => HeadKnown(G, R)
  /\ FirstTo("linked") => wr.cl \in F \ {o.new} /\ fat[1][wr.cl] = END
  /\ pc = "entry" => SlotKnown(G)

\* And of the cluster it has just taken, or builds on.
WantKnown == /\ o.want # "ext" => (o.want = "dir" <=> o.kind = "mkdir")
             /\ o.want = "dir" => o.first = 0
TakeKnown == /\ Bare(o.new) /\ o.new # o.tdir
             /\ (o.want = "ext" => o.new # o.cl) /\ (o.kind # "mkdir" => o.new # o.prev)
DotsKnown == /\ o.kind = "mkdir" /\ o.first # 0 /\ o.new = o.first /\ o.new # o.tdir
             /\ Bare(o.new) /\ fat[1][o.new] = END
NewKnown ==
  /\ pc = "alloc" \/ Taking => WantKnown
  /\ Taking => TakeKnown
  /\ FirstTo("alloced") => o.new \in FreeOnes
  /\ pc = "alloced" \/ (Writing({"alloced"}) /\ wr.i > 1) => fat[1][o.new] = END
  /\ pc = "dots" => DotsKnown
  /\ pc \in {"linked", "payload"} \/ Writing({"linked", "payload"}) =>
       o.kind # "mkdir" /\ o.new = o.prev /\ o.prev # 0
  /\ pc = "data" => o.kind # "mkdir"

\* A removal frees clusters without entries, the victim's first.
Walked(W, t) == W \subseteq Cluster /\ \A c \in W : Bare(c) /\ (c \in FatLinks => fat[1][c] \in W \cup {t})
Closed(t) == t # BAD /\ \E W : Walked(W, 0) /\ (t \in Cluster => t \in W)
Walks ==
  /\ pc = "empty" => \E W : Walked(W, o.cl) /\ o.victim \in W \cup {o.cl}
  /\ Unread  => Closed(o.cl)
  /\ GivenUp => Closed(o.next)
  /\ FirstTo("freed") => o.next # BAD
  /\ Removing /\ pc # "empty" => o.victim \in {0} \cup FreeOnes \/ (Unread /\ o.cl = o.victim)

Held ==
  (IF Creating THEN {o.first} ELSE {})
    \cup (IF Taking \/ FirstTo("linked") \/ FirstTo("extlinked") THEN {o.new} ELSE {})
    \cup (IF Unread THEN {o.cl} ELSE {}) \cup (IF GivenUp THEN {o.next} ELSE {})

Placed(F, G, R) == Apart(F, G, R) /\ InOrder(G, R) /\ Knows(F, G, R)
Kept ==
  /\ FreeBare /\ NewKnown /\ Walks /\ Orphans \subseteq lost \cup Held
  /\ \E F, G, R : Placed(F, G, R)

\* What the lemmas below start from.
Steady == ChainInv /\ ChainInv' /\ Kept /\ Whole /\ Whole'

LEMMA SteadyFacts ==
  ASSUME Steady
  PROVE  /\ ~IOError /\ TypeOK /\ TypeOK' /\ MediaOK /\ MediaOK' /\ o \in Frames /\ o' \in Frames
         /\ Course /\ Course' /\ OneOwner /\ OneOwner' /\ Root \notin FreeOnes /\ OnlyVictimDangles
         /\ NewInv /\ FirstInv /\ RemoveInv /\ NewInv' /\ FirstInv' /\ RemoveInv'
         /\ (~FreeWindow => Clean) /\ (~Removing => Clean) /\ mishap = {} /\ mishap' = {}
<1>1. errs = 0 /\ errs' = 0 /\ mishap = {} /\ mishap' = {} /\ Sound /\ Sound'
  BY DEF Steady, Whole, Sound
<1>2. ~IOError
  BY <1>1 DEF IOError
<1>3. /\ TypeOK /\ TypeOK' /\ MediaOK /\ MediaOK' /\ o \in Frames /\ o' \in Frames
  BY DEF Steady, ChainInv, TypeInv, TypeOK, DriverOK
<1>4. /\ Course /\ Course' /\ OneOwner /\ OneOwner' /\ Root \notin FreeOnes /\ OnlyVictimDangles
      /\ NewInv /\ FirstInv /\ RemoveInv /\ NewInv' /\ FirstInv' /\ RemoveInv'
  BY <1>1 DEF Steady, ChainInv, Chains
<1>5. (~FreeWindow => Clean) /\ (~Removing => Clean)
  BY <1>1, ChainsClean, CleanNow DEF Steady, ChainInv
<1> QED BY <1>1, <1>2, <1>3, <1>4, <1>5

\* Neither the FAT nor the data area changes.
LEMMA StillSets ==
  ASSUME fat'[1] = fat[1], disk' = disk
  PROVE  /\ Orphans' = Orphans /\ FreeOnes' = FreeOnes /\ FatLinks' = FatLinks /\ (FreeBare' <=> FreeBare)
         /\ \A c : (Bare(c)' <=> Bare(c)) /\ (Full(c)' <=> Full(c)) /\ (Tidy(c)' <=> Tidy(c))
         /\ \A c, R : Shaped(c, R)' <=> Shaped(c, R)
         /\ \A c, G, R, k : DirPlace(c, G, R, k)' <=> DirPlace(c, G, R, k)
         /\ \A F, G, R : Apart(F, G, R)' <=> Apart(F, G, R)
         /\ \A W, t : Walked(W, t)' <=> Walked(W, t)
<1>1. /\ FatLinks' = FatLinks /\ FreeOnes' = FreeOnes /\ HeadSlots' = HeadSlots /\ Targets' = Targets
      /\ \A p : EntryAt(p)' = EntryAt(p)
  BY PointersStill
<1>2. Orphans' = Orphans
  BY <1>1 DEF Orphans, Allocated
<1>3. \A c : (Bare(c)' <=> Bare(c)) /\ (Full(c)' <=> Full(c)) /\ (Tidy(c)' <=> Tidy(c))
  BY DEF Bare, Full, Tidy
<1>4. \A c, R : Shaped(c, R)' <=> Shaped(c, R)
  BY <1>1, <1>3 DEF Shaped
<1>5. \A c, G, R, k : DirPlace(c, G, R, k)' <=> DirPlace(c, G, R, k)
  BY <1>1 DEF DirPlace
<1>6. \A F, G, R : Apart(F, G, R)' <=> Apart(F, G, R)
  BY <1>1, <1>3 DEF Apart
<1>7. \A W, t : Walked(W, t)' <=> Walked(W, t)
  BY <1>1, <1>3 DEF Walked
<1>8. FreeBare' <=> FreeBare
  BY <1>1, <1>3 DEF FreeBare
<1> QED BY <1>1, <1>2, <1>3, <1>4, <1>5, <1>6, <1>7, <1>8

\* How a step ends.
LEMMA EndKept ==
  ASSUME NEW F, NEW G, NEW R, Apart(F, G, R)', InOrder(G, R)', FreeBare', pc' \in {"idle", "off"},
         Orphans' \subseteq lost'
  PROVE  Kept'
<1>1. ~Creating' /\ ~Removing' /\ ~Taking' /\ ~Growing' /\ ~Unread' /\ ~GivenUp' /\ \A K : ~Writing(K)'
  BY DEF Creating, Removing, Taking, Growing, Unread, GivenUp, Writing, Resume
<1>2. \A k : ~FirstTo(k)'
  BY <1>1 DEF FirstTo
<1>3. NewKnown' /\ Walks' /\ Knows(F, G, R)'
  BY <1>1, <1>2 DEF NewKnown, Walks, Knows
<1> QED BY <1>3 DEF Kept, Placed

LEMMA LookKept ==
  ASSUME NEW F, NEW G, NEW R, Apart(F, G, R)', InOrder(G, R)', FreeBare', pc' = "find",
         TdirKnown(G, R)', Orphans' \subseteq lost'
  PROVE  Kept'
<1>1. ~Creating' /\ ~Removing' /\ ~Taking' /\ ~Growing' /\ ~Unread' /\ ~GivenUp' /\ \A K : ~Writing(K)'
  BY DEF Creating, Removing, Taking, Growing, Unread, GivenUp, Writing, Resume
<1>2. \A k : ~FirstTo(k)'
  BY <1>1 DEF FirstTo
<1>3. NewKnown' /\ Walks' /\ Knows(F, G, R)'
  BY <1>1, <1>2 DEF NewKnown, Walks, Knows
<1> QED BY <1>3 DEF Kept, Placed

LEMMA GrowKept ==
  ASSUME NEW F, NEW G, NEW R, Apart(F, G, R)', InOrder(G, R)', FreeBare',
         pc' \in {"data", "alloc", "payload", "dots", "slot", "entry", "linked", "extlinked", "zero"},
         TdirKnown(G, R)', ChainKnown(F)', pc' # "dots" => HeadKnown(G, R)',
         pc' = "slot" => WalkKnown(G, R)',
         pc' = "alloc" => ExtKnown(G, R)' /\ WantKnown',
         pc' = "entry" => SlotKnown(G)',
         pc' = "dots" => DotsKnown',
         pc' \in {"extlinked", "zero"} => GrowKnown(G)',
         pc' \in {"linked", "payload"} => o'.kind # "mkdir" /\ o'.new = o'.prev /\ o'.prev # 0,
         pc' = "data" => o'.kind # "mkdir",
         Orphans' \subseteq lost' \cup {o'.first}
  PROVE  Kept'
<1>1. Creating' /\ ~Removing' /\ ~Taking' /\ ~Unread' /\ ~GivenUp' /\ \A K : ~Writing(K)'
  BY DEF Creating, Removing, Taking, Unread, GivenUp, Writing, Resume
<1>2. (\A k : ~FirstTo(k)') /\ (Growing' => pc' \in {"extlinked", "zero"})
  BY <1>1 DEF FirstTo, Growing
<1>3. Knows(F, G, R)'
  BY <1>1, <1>2 DEF Knows
<1>4. NewKnown'
  BY <1>1, <1>2 DEF NewKnown
<1>5. Walks'
  BY <1>1, <1>2 DEF Walks, Removing
<1>6. Orphans' \subseteq lost' \cup Held'
  BY <1>1 DEF Held
<1> QED BY <1>3, <1>4, <1>5, <1>6 DEF Kept, Placed

\* A call of fat32_set_fat_entry is made.
LEMMA CallKept ==
  ASSUME NEW F, NEW G, NEW R, Apart(F, G, R)', InOrder(G, R)', FreeBare',
         pc' = "setfat", wr'.i = 1, wr'.then \in Resume \ {"freed"},
         TdirKnown(G, R)', ChainKnown(F)', HeadKnown(G, R)',
         wr'.then = "alloced" => ExtKnown(G, R)' /\ WantKnown' /\ TakeKnown',
         wr'.then = "alloced" => o'.new \in FreeOnes',
         wr'.then = "extlinked" =>
           ExtKnown(G, R)' /\ o'.want = "ext" /\ R[o'.new] = R[o'.cl] + 1 /\ wr'.cl = o'.cl,
         wr'.then \in {"extlinked", "zero"} => GrowKnown(G)',
         wr'.then = "linked" => wr'.cl \in F \ {o'.new} /\ fat'[1][wr'.cl] = END,
         wr'.then \in {"linked", "payload"} => o'.kind # "mkdir" /\ o'.new = o'.prev /\ o'.prev # 0,
         \/ Orphans' \subseteq lost' \cup {o'.first}
         \/ Orphans' \subseteq lost' \cup {o'.first, o'.new}
              /\ wr'.then \in {"alloced", "linked", "extlinked"}
  PROVE  Kept'
<1>1. Creating' /\ ~Removing' /\ ~Unread' /\ ~GivenUp' /\ \A K : Writing(K)' <=> wr'.then \in K
  BY DEF Creating, Removing, Unread, GivenUp, Writing, Resume
<1>2. (\A k : FirstTo(k)' <=> wr'.then = k) /\ (Growing' <=> wr'.then \in {"extlinked", "zero"})
      /\ (Taking' <=> wr'.then = "alloced")
  BY <1>1 DEF FirstTo, Growing, Taking
<1>3. Knows(F, G, R)'
  BY <1>1, <1>2 DEF Knows
<1>4. NewKnown'
  BY <1>1, <1>2 DEF NewKnown
<1>5. Walks'
  BY <1>1, <1>2 DEF Walks, Removing
<1>6. Orphans' \subseteq lost' \cup Held'
  BY <1>1, <1>2 DEF Held
<1> QED BY <1>3, <1>4, <1>5, <1>6 DEF Kept, Placed

\* A copy of the entry is written: the next one is due, or the call is over.
LEMMA CopyKept ==
  ASSUME NEW F, NEW G, NEW R, Apart(F, G, R)', InOrder(G, R)', FreeBare', NEW k \in Resume \ {"freed"},
         (pc' = "setfat" /\ wr'.then = k /\ wr'.i # 1) \/ pc' = k,
         TdirKnown(G, R)', ChainKnown(F)', HeadKnown(G, R)',
         k = "alloced" => ExtKnown(G, R)' /\ WantKnown' /\ TakeKnown' /\ fat'[1][o'.new] = END,
         k \in {"extlinked", "zero"} => GrowKnown(G)',
         k \in {"linked", "payload"} => o'.kind # "mkdir" /\ o'.new = o'.prev /\ o'.prev # 0,
         Orphans' \subseteq lost' \cup {o'.first} \cup (IF k = "alloced" THEN {o'.new} ELSE {})
  PROVE  Kept'
<1>1. Creating' /\ ~Removing' /\ ~Unread' /\ ~GivenUp' /\ \A j : ~FirstTo(j)'
  BY DEF Creating, Removing, Unread, GivenUp, Writing, Resume, FirstTo
<1>2. /\ Growing' => k \in {"extlinked", "zero"}
      /\ Taking' <=> k = "alloced"
      /\ pc' = "alloced" \/ Writing({"alloced"})' <=> k = "alloced"
      /\ pc' \in {"linked", "payload"} \/ Writing({"linked", "payload"})' <=> k \in {"linked", "payload"}
      /\ pc' \notin {"find", "slot", "empty", "alloc", "dots", "entry", "data"}
  BY DEF Growing, Taking, Writing, Resume
<1>3. Knows(F, G, R)'
  BY <1>1, <1>2 DEF Knows
<1>4. NewKnown'
  BY <1>1, <1>2 DEF NewKnown
<1>5. Walks'
  BY <1>1, <1>2 DEF Walks, Removing
<1>6. Orphans' \subseteq lost' \cup Held'
  BY <1>1, <1>2 DEF Held
<1> QED BY <1>3, <1>4, <1>5, <1>6 DEF Kept, Placed

\* A removal goes on.
LEMMA RemoveKept ==
  ASSUME NEW F, NEW G, NEW R, Apart(F, G, R)', InOrder(G, R)', FreeBare', Removing', ~Creating',
         pc' = "empty" => WalkKnown(G, R)',
         Walks', Orphans' \subseteq lost' \cup Held'
  PROVE  Kept'
<1>1. /\ ~Taking' /\ ~Growing' /\ pc' \in {"empty", "free", "freed", "mark", "setfat"}
      /\ \A k \in {"linked", "extlinked"} : ~FirstTo(k)'
      /\ ~Writing({"alloced"})' /\ ~Writing({"linked", "payload"})'
  BY DEF Removing, Taking, Growing, FirstTo, Writing
<1>2. Knows(F, G, R)'
  BY <1>1 DEF Knows
<1>3. NewKnown'
  BY <1>1 DEF NewKnown, FirstTo
<1> QED BY <1>2, <1>3 DEF Kept, Placed

\* A step that writes no cluster and not the first FAT.
LEMMA StillPlaced ==
  ASSUME Steady, fat'[1] = fat[1], disk' = disk, Growing => Growing' /\ o'.new = o.new
  PROVE  /\ FreeBare' /\ Orphans' = Orphans /\ Orphans \subseteq lost \cup Held /\ NewKnown /\ Walks
         /\ \E F, G, R : Apart(F, G, R) /\ Apart(F, G, R)' /\ InOrder(G, R) /\ InOrder(G, R)' /\ Knows(F, G, R)
<1>1. FreeBare /\ NewKnown /\ Walks /\ Orphans \subseteq lost \cup Held
  BY DEF Steady, Kept
<1>2. PICK F, G, R : Placed(F, G, R)
  BY DEF Steady, Kept
<1>3. Apart(F, G, R) /\ InOrder(G, R) /\ Knows(F, G, R)
  BY <1>2 DEF Placed
<1>4. InOrder(G, R)'
  BY <1>3, StillSets DEF InOrder
<1> QED BY <1>1, <1>3, <1>4, StillSets

LEMMA EndStill ==
  ASSUME Steady, fat' = fat, disk' = disk, ~Growing, pc' \in {"idle", "off"},
         lost' = Orphans' \/ lost' = Orphans \/ (lost' = lost /\ Orphans \subseteq lost)
  PROVE  Kept'
<1>1. PICK F, G, R : Apart(F, G, R)' /\ InOrder(G, R)'
  BY StillPlaced
<1>2. FreeBare' /\ Orphans' = Orphans
  BY StillPlaced
<1> QED BY <1>1, <1>2, EndKept

LEMMA AbortEnds ==
  ASSUME Steady, NEW r, Abort(r), fat' = fat, disk' = disk, r # "ok"
  PROVE  Kept'
<1>1. Harm = {}
  BY SteadyFacts DEF Abort
<1>2. ~Growing
  BY <1>1 DEF Harm, LinkWindow, Growing, Writing
<1> QED BY <1>1, <1>2, EndStill DEF Abort, Return

LEMMA ReturnEnds ==
  ASSUME Steady, NEW r, Return(r), fat' = fat, disk' = disk, r # "ok", ~Growing
  PROVE  Kept'
BY EndStill DEF Return

LEMMA CrashKept == ASSUME Steady, Crash PROVE Kept'
<1>1. Harm = {} /\ fat' = fat /\ disk' = disk /\ pc' = "off" /\ lost' = Orphans
  BY SteadyFacts DEF Crash
<1>2. ~Growing
  BY <1>1 DEF Harm, LinkWindow, Growing, Writing
<1> QED BY <1>1, <1>2, EndStill

\* Nothing is held between the operations and while a name is looked up.
LEMMA NothingHeld == ASSUME Steady, pc \in {"idle", "off", "find"} PROVE Orphans \subseteq lost /\ ~Growing
<1>1. ~Creating /\ ~Taking /\ ~Growing /\ ~Unread /\ ~GivenUp /\ ~Writing({"linked"}) /\ ~Writing({"extlinked"})
  BY DEF Creating, Taking, Growing, Unread, GivenUp, Writing, Resume
<1> QED BY <1>1 DEF Steady, Kept, Held, FirstTo

LEMMA MountKept == ASSUME Steady, Mount PROVE Kept'
<1>1. fat' = fat /\ disk' = disk /\ pc = "off" /\ pc' \in {"idle", "off"} /\ lost' = lost
  BY DEF Mount
<1> QED BY <1>1, NothingHeld, EndStill

LEMMA LiveDirPlace ==
  ASSUME Steady, ~Removing, NEW F, NEW G, NEW R, Apart(F, G, R), NEW d \in LiveDirs, d # 0
  PROVE  DirPlace(d, G, R, 0)
<1>1. Clean /\ MediaOK
  BY SteadyFacts
<1>2. CASE d = Root
  BY <1>1, <1>2 DEF Apart, DirPlace, Clean
<1>3. CASE d # Root
  <2>1. PICK p \in LiveSlots : EntryAt(p).kind = "dir" /\ EntryAt(p).first = d
    BY <1>3 DEF LiveDirs
  <2>2. p \in HeadSlots /\ d \in Targets
    BY <2>1, TargetsAre DEF HeadSlots
  <2>3. d \notin FreeOnes
    BY <1>1, <2>2 DEF Clean
  <2> QED BY <2>1, <2>2, <2>3 DEF Apart, DirPlace
<1> QED BY <1>2, <1>3

LEMMA BeginKept == ASSUME Steady, NEW f, Begin(f), f.tdir \in LiveDirs PROVE Kept'
<1>1. pc = "idle" /\ pc' = "find" /\ o' = f /\ fat' = fat /\ disk' = disk /\ lost' = lost
  BY DEF Begin, Still
<1>2. Orphans \subseteq lost /\ ~Growing /\ ~Removing
  BY <1>1, NothingHeld DEF Removing, Writing
<1>3. PICK F, G, R : Apart(F, G, R) /\ Apart(F, G, R)' /\ InOrder(G, R)'
  BY <1>1, <1>2, StillPlaced
<1>4. FreeBare' /\ Orphans' = Orphans
  BY <1>1, <1>2, StillPlaced
<1>5. TdirKnown(G, R)'
  BY <1>1, <1>2, <1>3, LiveDirPlace, StillSets DEF TdirKnown
<1> QED BY <1>1, <1>2, <1>3, <1>4, <1>5, LookKept

LEMMA CallsKept == ASSUME Steady, Call PROVE Kept'
<1>1. \A k, d, n : Frame(k, d, n).tdir = d
  BY DEF Frame, NoFrame
<1>2. ASSUME NEW d \in LiveDirs, NEW n \in Names, Mkdir(d, n) \/ Unlink(d, n) \/ Rmdir(d, n)
      PROVE  Kept'
  BY <1>1, <1>2, BeginKept DEF Mkdir, Unlink, Rmdir
<1>3. ASSUME NEW d \in LiveDirs, NEW n \in Names, NEW len \in 0 .. MaxLen, NEW x \in Data,
             WriteFile(d, n, len, x)
      PROVE  Kept'
  <2> DEFINE f == [Frame("write", d, n) EXCEPT !.len = len, !.left = len, !.buf = x]
  <2>1. f.tdir = d
    BY DEF Frame, NoFrame
  <2> QED BY <1>3, <2>1, BeginKept DEF WriteFile
<1>4. ASSUME NEW d \in LiveDirs, NEW n \in Names, NEW td \in LiveDirs, NEW tn \in Names,
             CopyFile(d, n, td, tn)
      PROVE  Kept'
  <2> DEFINE f == [Frame("copy", d, n) EXCEPT !.tdir = td, !.tname = tn]
  <2>1. f.tdir = td
    BY DEF Frame, NoFrame
  <2> QED BY <1>4, <2>1, BeginKept DEF CopyFile
<1> QED BY <1>2, <1>3, <1>4 DEF Call

LEMMA StutterKept == ASSUME Kept, UNCHANGED vars PROVE Kept'
<1>1. /\ fat' = fat /\ disk' = disk /\ pc' = pc /\ o' = o /\ wr' = wr /\ lost' = lost
  BY DEF vars
<1>2. /\ Orphans' = Orphans /\ FreeOnes' = FreeOnes /\ FatLinks' = FatLinks /\ FreeBare' = FreeBare
  BY <1>1 DEF Orphans, Allocated, Targets, FreeOnes, FatLinks, FreeBare, Bare, HeadSlots, LiveSlots, EntryAt
<1>3. (NewKnown' <=> NewKnown) /\ (Walks' <=> Walks) /\ Held' = Held
  <2>1. NewKnown' <=> NewKnown
    BY <1>1, <1>2 DEF NewKnown, Taking, FirstTo, Writing, WantKnown, TakeKnown, DotsKnown, Bare
  <2>2. \A W, t : Walked(W, t)' <=> Walked(W, t)
    BY <1>1, StillSets
  <2>3. \A t : Closed(t)' <=> Closed(t)
    BY <2>2 DEF Closed
  <2>4. Walks' <=> Walks
    BY <1>1, <1>2, <2>2, <2>3 DEF Walks, Unread, GivenUp, FirstTo, Removing, Writing
  <2>5. Held' = Held
    BY <1>1 DEF Held, Creating, Taking, FirstTo, Unread, GivenUp, Writing
  <2> QED BY <2>1, <2>4, <2>5
<1>4. ASSUME NEW F, NEW G, NEW R, Placed(F, G, R) PROVE Placed(F, G, R)'
  <2>1. Apart(F, G, R)' /\ InOrder(G, R)'
    BY <1>1, <1>4, StillSets DEF Placed, InOrder, Growing, Writing
  <2>2. Knows(F, G, R)'
    BY <1>1, <1>2, <1>4 DEF Placed, Knows, Creating, Taking, FirstTo, Growing, Writing, TdirKnown, WalkKnown,
       ExtKnown, GrowKnown, ChainKnown, HeadKnown, SlotKnown, DirPlace, Full, Bare
  <2> QED BY <2>1, <2>2 DEF Placed
<1> QED BY <1>1, <1>2, <1>3, <1>4 DEF Kept

----------------------------------------------------------------------------
(* Looking up a name. *)

LEMMA FindPoint ==
  ASSUME Steady, pc = "find"
  PROVE  ~Creating /\ ~Removing /\ ~Growing /\ Orphans \subseteq lost /\ o.first = 0 /\ o.prev = 0
<1>1. ~Creating /\ ~Removing
  BY DEF Creating, Removing, Writing, Resume
<1>2. o.first = 0 /\ o.prev = 0
  BY <1>1, SteadyFacts DEF Course
<1> QED BY <1>1, <1>2, NothingHeld

\* The operation builds something from here on.
LEMMA LookedUp ==
  ASSUME Steady, pc = "find", Still, NEW p \in {"data", "alloc"}, NEW f, Goto(p, f),
         f.tdir = o.tdir, f.first = 0, f.prev = 0,
         p = "data" => f.kind # "mkdir",
         p = "alloc" => f.want = "dir" /\ f.kind = "mkdir"
  PROVE  Kept'
<1>1. fat' = fat /\ disk' = disk /\ pc' = p /\ o' = f /\ lost' = lost
  BY DEF Still, Goto
<1>2. PICK F, G, R : Apart(F, G, R)' /\ InOrder(G, R)' /\ Knows(F, G, R)
  BY <1>1, FindPoint, StillPlaced
<1>3. FreeBare' /\ Orphans' \subseteq lost'
  BY <1>1, FindPoint, StillPlaced
<1>4. TdirKnown(G, R)'
  BY <1>1, <1>2, StillSets DEF Knows, TdirKnown
<1>5. ChainKnown(F)' /\ HeadKnown(G, R)'
  BY <1>1 DEF ChainKnown, HeadKnown
<1>6. p = "alloc" => ExtKnown(G, R)' /\ WantKnown'
  BY <1>1 DEF ExtKnown, WantKnown
<1> QED BY <1>1, <1>2, <1>3, <1>4, <1>5, <1>6, GrowKept

LEMMA NotFoundKept == ASSUME Steady, pc = "find", Still, NotFound PROVE Kept'
<1>1. CASE Return("absent")
  BY <1>1, FindPoint, ReturnEnds DEF Still
<1>2. o \in Frames /\ o.first = 0 /\ o.prev = 0
  BY FindPoint, SteadyFacts
<1>3. CASE o.kind = "mkdir" /\ Goto("alloc", [o EXCEPT !.want = "dir"])
  <2> DEFINE f == [o EXCEPT !.want = "dir"]
  <2>1. f.tdir = o.tdir /\ f.first = 0 /\ f.prev = 0 /\ f.want = "dir" /\ f.kind = "mkdir" /\ Goto("alloc", f)
    BY <1>2, <1>3 DEF Frames
  <2> HIDE DEF f
  <2> QED BY <2>1, LookedUp
<1>4. CASE o.kind = "write" /\ Goto("data", o)
  BY <1>2, <1>4, LookedUp
<1> QED BY <1>1, <1>3, <1>4 DEF NotFound

LEMMA FoundKept ==
  ASSUME Steady, pc = "find", Still, NEW c \in Cluster, NEW i \in Slot, disk[c][i].kind \in Live, Found(c, i)
  PROVE  Kept'
<1> DEFINE e == disk[c][i]
           f == [o EXCEPT !.at = c, !.index = i, !.victim = e.first, !.cl = e.first, !.steps = 0]
           g == [o EXCEPT !.src = e.first, !.len = e.len, !.left = e.len]
<1>1. /\ fat' = fat /\ disk' = disk /\ o \in Frames /\ MediaOK /\ Clean
      /\ o.first = 0 /\ o.prev = 0
  BY FindPoint, SteadyFacts DEF Still
<1>2. \/ \E r : Return(r) /\ r # "ok"
      \/ Goto("empty", f) /\ e.kind = "dir"
      \/ Goto("free", f) /\ e.kind # "dir" /\ e.first # 0
      \/ Goto("mark", f) /\ e.kind # "dir" /\ e.first = 0
      \/ Goto("data", g) /\ o.kind # "mkdir"
  BY DEF Found
<1>3. e \in Entry /\ EntryAt(<<c, i>>) = e /\ (e.first # 0 => <<c, i>> \in HeadSlots)
  BY <1>1 DEF MediaOK, EntryAt, HeadSlots, LiveSlots
<1> HIDE DEF e
<1>4. f.at = c /\ f.index = i /\ f.victim = e.first /\ f.cl = e.first /\ f.steps = 0
  BY <1>1 DEF Frames
<1>5. g.kind = o.kind /\ g.first = o.first /\ g.prev = o.prev /\ g.tdir = o.tdir
  BY <1>1 DEF Frames
<1> HIDE DEF f, g
<1>6. CASE \E r : Return(r) /\ r # "ok"
  BY <1>1, <1>6, FindPoint, ReturnEnds
<1>7. CASE Goto("data", g) /\ o.kind # "mkdir"
  BY <1>1, <1>5, <1>7, LookedUp
<1>8. ASSUME NEW p \in {"empty", "free", "mark"}, Goto(p, f), p = "empty" => e.kind = "dir",
             p = "free" => e.kind # "dir" /\ e.first # 0, p = "mark" => e.first = 0
      PROVE  Kept'
  <2>1. pc' = p /\ o' = f /\ lost' = lost
    BY <1>8 DEF Goto
  <2>2. PICK F, G, R : Apart(F, G, R) /\ Apart(F, G, R)' /\ InOrder(G, R)'
    BY <1>1, FindPoint, StillPlaced
  <2>3. FreeBare' /\ Orphans' \subseteq lost'
    BY <1>1, <2>1, FindPoint, StillPlaced
  <2>4. Removing' /\ ~Creating' /\ ~GivenUp' /\ ~FirstTo("freed")' /\ (Unread' <=> p = "free")
    BY <1>8, <2>1 DEF Removing, Creating, Writing, Resume, GivenUp, FirstTo, Unread
  <2>5. e.first # 0 => e.first \in Cluster \ FreeOnes
    BY <1>1, <1>3, TargetsAre DEF Clean, Entry
  <2>6. p = "empty" => WalkKnown(G, R)'
    <3>1. ASSUME p = "empty", e.first # 0 PROVE DirPlace(e.first, G, R, 0)
      BY <1>3, <1>8, <2>2, <2>5, <3>1 DEF Apart, DirPlace
    <3>2. 0 \notin Cluster
      BY Constants
    <3> QED BY <1>1, <1>4, <2>1, <3>1, <3>2, StillSets DEF WalkKnown
  <2>7. p = "free" => Closed(o.cl)'
    <3>1. PICK t : t = e.first
      OBVIOUS
    <3>2. ASSUME p = "free" PROVE Closed(t)'
      <4>1. t \in F /\ t \in Cluster
        BY <1>3, <1>8, <2>2, <2>5, <3>1, <3>2 DEF Apart
      <4>2. Walked(F, 0)'
        BY <2>2 DEF Apart, Walked
      <4>3. t # BAD
        BY <4>1, Constants
      <4> QED BY <4>1, <4>2, <4>3 DEF Closed
    <3>3. o'.cl = t
      BY <1>4, <2>1, <3>1
    <3> QED BY <3>2, <3>3 DEF Closed
  <2>8. p = "empty" => \E W : Walked(W, o.cl)' /\ o'.victim \in W \cup {o'.cl}
    <3>1. Walked({}, o.cl)'
      BY DEF Walked
    <3> QED BY <1>4, <2>1, <3>1
  <2>9. Walks'
    BY <1>4, <1>8, <2>1, <2>4, <2>7, <2>8 DEF Walks
  <2> QED BY <1>8, <2>1, <2>2, <2>3, <2>4, <2>6, <2>9, RemoveKept
<1> QED BY <1>2, <1>6, <1>7, <1>8

LEMMA FindKept == ASSUME Steady, FindScan \/ FindOver PROVE Kept'
<1>1. pc = "find" /\ Still /\ ~IOError
  BY SteadyFacts DEF FindScan, FindOver
<1>2. CASE NotFound
  BY <1>1, <1>2, NotFoundKept
<1>3. ASSUME NEW i \in Slot, StopsFind(disk[o.cl][i]), disk[o.cl][i].kind # "unused",
             o.cl \in Cluster, Found(o.cl, i)
      PROVE  Kept'
  BY <1>1, <1>3, FoundKept DEF StopsFind
<1>4. ASSUME NEW n, Goto("find", [o EXCEPT !.cl = n, !.steps = @ + 1]) PROVE Kept'
  <2>1. fat' = fat /\ disk' = disk /\ pc' = "find" /\ o'.tdir = o.tdir /\ lost' = lost
    BY <1>1, <1>4, SteadyFacts DEF Still, Goto, Frames
  <2>2. PICK F, G, R : Apart(F, G, R)' /\ InOrder(G, R)' /\ Knows(F, G, R)
    BY <1>1, <2>1, FindPoint, StillPlaced
  <2>3. FreeBare' /\ Orphans' \subseteq lost'
    BY <1>1, <2>1, FindPoint, StillPlaced
  <2>4. TdirKnown(G, R)'
    BY <1>1, <2>1, <2>2, StillSets DEF Knows, TdirKnown
  <2> QED BY <2>1, <2>2, <2>3, <2>4, LookKept
<1> QED BY <1>2, <1>3, <1>4 DEF FindScan, FindOver, Least

----------------------------------------------------------------------------
(* Building a chain: the steps between the writes. *)

BuildSteps == {"data", "alloc", "payload", "dots", "slot", "entry", "linked", "extlinked", "zero"}

LEMMA BuildPoint ==
  ASSUME Steady, pc \in BuildSteps
  PROVE  /\ Creating /\ ~Removing /\ ~Taking /\ (Growing => pc \in {"extlinked", "zero"})
         /\ Clean /\ Orphans \subseteq lost \cup {o.first}
<1>1. /\ Creating /\ ~Removing /\ ~Taking /\ ~Unread /\ ~GivenUp /\ (Growing => pc \in {"extlinked", "zero"})
      /\ \A k : ~FirstTo(k)
  BY DEF BuildSteps, Creating, Removing, Writing, Resume, Taking, Unread, GivenUp, Growing, FirstTo
<1>2. Clean
  BY <1>1, SteadyFacts
<1> QED BY <1>1, <1>2 DEF Steady, Kept, Held

\* Where nothing is written and no cluster taken, what is known of the chain stays known.
LEMMA BuildStill ==
  ASSUME Steady, Creating, fat'[1] = fat[1], disk' = disk, Growing => Growing' /\ o'.new = o.new,
         o'.kind = o.kind, o'.tdir = o.tdir, o'.first = o.first, o'.prev = o.prev
  PROVE  /\ FreeBare' /\ Orphans' = Orphans
         /\ \E F, G, R : /\ Apart(F, G, R)' /\ InOrder(G, R)' /\ Knows(F, G, R)
                         /\ TdirKnown(G, R)' /\ ChainKnown(F)' /\ (pc # "dots" => HeadKnown(G, R)')
<1>1. PICK F, G, R : Apart(F, G, R)' /\ InOrder(G, R)' /\ Knows(F, G, R)
  BY StillPlaced
<1>2. TdirKnown(G, R)'
  BY <1>1, StillSets DEF Knows, TdirKnown
<1>3. ChainKnown(F)'
  BY <1>1 DEF Knows, ChainKnown
<1>4. pc # "dots" => HeadKnown(G, R)'
  BY <1>1, StillSets DEF Knows, HeadKnown
<1> QED BY <1>1, <1>2, <1>3, <1>4, StillPlaced

LEMMA DataDoneKept == ASSUME Steady, DataDone PROVE Kept'
<1>1. /\ pc = "data" /\ fat' = fat /\ disk' = disk /\ pc' = "slot" /\ lost' = lost
      /\ o'.kind = o.kind /\ o'.tdir = o.tdir /\ o'.first = o.first /\ o'.prev = o.prev
      /\ o'.cl = o.tdir /\ o'.steps = 0
  BY SteadyFacts DEF DataDone, Still, Goto, Frames
<1>2. Creating /\ ~Growing /\ Orphans \subseteq lost \cup {o.first}
  BY <1>1, BuildPoint DEF BuildSteps
<1>3. FreeBare' /\ Orphans' = Orphans
  BY <1>1, <1>2, BuildStill
<1>4. PICK F, G, R : /\ Apart(F, G, R)' /\ InOrder(G, R)'
                     /\ TdirKnown(G, R)' /\ ChainKnown(F)' /\ HeadKnown(G, R)'
  BY <1>1, <1>2, BuildStill
<1>5. WalkKnown(G, R)'
  <2>1. 0 \notin Cluster
    BY Constants
  <2> QED BY <1>1, <1>4, <2>1 DEF TdirKnown, WalkKnown, DirPlace
<1> QED BY <1>1, <1>2, <1>3, <1>4, <1>5, GrowKept

LEMMA DataMore ==
  ASSUME Steady, pc = "data", Still, NEW f, Goto("alloc", f), f.want = "data", f.kind = o.kind,
         f.tdir = o.tdir, f.first = o.first, f.prev = o.prev
  PROVE  Kept'
<1>1. fat' = fat /\ disk' = disk /\ pc' = "alloc" /\ o' = f /\ lost' = lost
  BY DEF Still, Goto
<1>2. Creating /\ ~Growing /\ Orphans \subseteq lost \cup {o.first}
  BY BuildPoint DEF BuildSteps
<1>3. FreeBare' /\ Orphans' = Orphans
  BY <1>1, <1>2, BuildStill
<1>4. PICK F, G, R : /\ Apart(F, G, R)' /\ InOrder(G, R)'
                     /\ TdirKnown(G, R)' /\ ChainKnown(F)' /\ HeadKnown(G, R)'
  BY <1>1, <1>2, BuildStill
<1>5. ExtKnown(G, R)'
  BY <1>1 DEF ExtKnown
<1>6. o.kind # "mkdir"
  BY DEF Steady, Kept, NewKnown
<1>7. WantKnown'
  BY <1>1, <1>6 DEF WantKnown
<1> QED BY <1>1, <1>2, <1>3, <1>4, <1>5, <1>7, GrowKept

LEMMA WriteMoreKept == ASSUME Steady, WriteMore PROVE Kept'
<1> DEFINE f == [o EXCEPT !.want = "data"]
<1>1. pc = "data" /\ Still /\ Goto("alloc", f)
  BY DEF WriteMore
<1>2. f.want = "data" /\ f.kind = o.kind /\ f.tdir = o.tdir /\ f.first = o.first /\ f.prev = o.prev
  BY SteadyFacts DEF Frames
<1> HIDE DEF f
<1> QED BY <1>1, <1>2, DataMore

LEMMA CopyMoreKept == ASSUME Steady, CopyMore PROVE Kept'
<1>1. pc = "data" /\ Still /\ fat' = fat /\ disk' = disk
  BY DEF CopyMore, Still
<1>2. CASE Return("short")
  BY <1>1, <1>2, BuildPoint, ReturnEnds DEF BuildSteps
<1>3. CASE Abort("io")
  BY <1>1, <1>3, AbortEnds
<1>4. ASSUME NEW b, Goto("alloc", [o EXCEPT !.want = "data", !.buf = b]) PROVE Kept'
  <2> DEFINE f == [o EXCEPT !.want = "data", !.buf = b]
  <2>1. f.want = "data" /\ f.kind = o.kind /\ f.tdir = o.tdir /\ f.first = o.first /\ f.prev = o.prev
    BY SteadyFacts DEF Frames
  <2>2. Goto("alloc", f)
    BY <1>4
  <2> HIDE DEF f
  <2> QED BY <1>1, <2>1, <2>2, DataMore
<1> QED BY <1>2, <1>3, <1>4 DEF CopyMore

LEMMA AllocKept == ASSUME Steady, Alloc PROVE Kept'
<1>1. pc = "alloc" /\ fat' = fat /\ disk' = disk
  BY DEF Alloc, Still
<1>2. CASE Abort("nospace")
  BY <1>1, <1>2, AbortEnds
<1>3. ASSUME NEW c \in FreeOnes, SetFat([o EXCEPT !.new = c], c, END, "alloced") PROVE Kept'
  <2>1. /\ pc' = "setfat" /\ wr'.then = "alloced" /\ wr'.i = 1 /\ lost' = lost
        /\ o'.new = c /\ o'.kind = o.kind /\ o'.tdir = o.tdir /\ o'.first = o.first /\ o'.prev = o.prev
        /\ o'.want = o.want /\ o'.cl = o.cl
    BY <1>3, SteadyFacts DEF SetFat, Frames
  <2>2. Creating /\ ~Growing /\ Orphans \subseteq lost \cup {o.first}
    BY <1>1, BuildPoint DEF BuildSteps
  <2>3. FreeBare' /\ Orphans' = Orphans
    BY <1>1, <2>1, <2>2, BuildStill
  <2>4. PICK F, G, R : /\ Apart(F, G, R)' /\ InOrder(G, R)' /\ Knows(F, G, R)
                       /\ TdirKnown(G, R)' /\ ChainKnown(F)' /\ HeadKnown(G, R)'
    BY <1>1, <2>1, <2>2, BuildStill
  <2>5. ExtKnown(G, R)'
    BY <1>1, <2>1, <2>4, StillSets DEF Knows, ExtKnown
  <2>6. WantKnown'
    BY <1>1, <2>1 DEF Steady, Kept, NewKnown, WantKnown
  <2>7. c \in Cluster /\ fat[1][c] = FREE /\ c # 0 /\ END # FREE /\ Bare(c)
    BY Constants DEF FreeOnes, FREE, Steady, Kept, FreeBare
  <2>8. TakeKnown'
    <3>1. Bare(o.new)'
      BY <1>1, <2>1, <2>7 DEF Bare
    <3>2. o.tdir # c
      BY <2>2, <2>4, <2>7 DEF Knows, TdirKnown, DirPlace
    <3>3. o.want = "ext" => o.cl # c
      BY <1>1, <2>4, <2>7 DEF Knows, ExtKnown
    <3>4. o.kind # "mkdir" => o.prev # c
      BY <2>2, <2>4, <2>7 DEF Knows, ChainKnown
    <3> QED BY <2>1, <3>1, <3>2, <3>3, <3>4 DEF TakeKnown
  <2>9. o'.new \in FreeOnes'
    BY <1>1, <2>1, <2>7, StillSets DEF FreeOnes
  <2> QED BY <2>1, <2>2, <2>3, <2>4, <2>5, <2>6, <2>8, <2>9, CallKept DEF Resume
<1> QED BY <1>2, <1>3 DEF Alloc, Least

\* The cluster that was taken joins a file or a directory.
LEMMA JoinFile ==
  ASSUME NEW F, NEW G, NEW R, Apart(F, G, R), NEW c, Unclaimed(c), c \notin FatLinks, Bare(c)
  PROVE  Apart(F \cup {c}, G \ {c}, R)
<1>1. \A d \in FatLinks : fat[1][d] # c
  BY TargetsAre DEF Unclaimed
<1>2. \A p \in HeadSlots : EntryAt(p).first # c
  BY TargetsAre DEF Unclaimed
<1> QED BY <1>1, <1>2 DEF Apart, Unclaimed

LEMMA JoinDir ==
  ASSUME NEW F, NEW G, NEW R, Apart(F, G, R), NEW c, Unclaimed(c), c \notin FatLinks, NEW k \in Nat
  PROVE  Apart(F \ {c}, G \cup {c}, [R EXCEPT ![c] = k])
<1>1. \A d \in FatLinks : fat[1][d] # c
  BY TargetsAre DEF Unclaimed
<1>2. \A p \in HeadSlots : EntryAt(p).first # c
  BY TargetsAre DEF Unclaimed
<1> DEFINE S == [R EXCEPT ![c] = k]
<1>3. S \in [Cluster -> Nat] /\ S[c] = k /\ \A d \in Cluster \ {c} : S[d] = R[d]
  BY DEF Apart, Unclaimed
<1> HIDE DEF S
<1>4. F \subseteq Cluster /\ G \subseteq Cluster /\ F \cap G = {} /\ Root \in G /\ R[Root] = 0
  BY DEF Apart
<1>5. S[Root] = 0
  BY <1>3, <1>4 DEF Unclaimed
<1>6. \A d \in FatLinks : /\ d \in F => fat[1][d] \in F \ {c}
                          /\ d \in G => fat[1][d] \in G /\ S[fat[1][d]] = S[d] + 1
  BY <1>1, <1>3, <1>4 DEF Apart
<1>7. \A p \in HeadSlots : EntryAt(p).first \notin FreeOnes =>
        IF EntryAt(p).kind = "dir" THEN EntryAt(p).first \in G /\ S[EntryAt(p).first] = 0
        ELSE EntryAt(p).first \in F \ {c}
  BY <1>2, <1>3, <1>4 DEF Apart
<1>8. \A d \in F : Bare(d)
  BY DEF Apart
<1> QED BY <1>3, <1>4, <1>5, <1>6, <1>7, <1>8 DEF Apart, S, Unclaimed

LEMMA AllocedPoint ==
  ASSUME Steady, pc = "alloced"
  PROVE  /\ Creating /\ ~Removing /\ ~Growing /\ Clean /\ Orphans \subseteq lost \cup {o.first, o.new}
         /\ Unclaimed(o.new) /\ o.new # o.first /\ o.new \notin FreeOnes /\ o.new \notin FatLinks /\ o.new # 0
         /\ fat[1][o.new] = END /\ WantKnown /\ TakeKnown /\ 0 \notin Orphans
<1>1. Creating /\ ~Removing /\ ~Growing /\ Taking /\ ~Unread /\ ~GivenUp /\ \A k : ~FirstTo(k)
  BY DEF Creating, Resume, Removing, Writing, Growing, Taking, Unread, GivenUp, FirstTo
<1>2. Clean /\ Unclaimed(o.new) /\ o.new # o.first /\ o.new \notin FreeOnes
  BY <1>1, SteadyFacts DEF NewInv
<1>3. fat[1][o.new] = END /\ WantKnown /\ TakeKnown
  BY <1>1 DEF Steady, Kept, NewKnown
<1>4. Orphans \subseteq lost \cup {o.first, o.new}
  BY <1>1 DEF Steady, Kept, Held
<1>5. o.new \notin FatLinks /\ o.new # 0 /\ 0 \notin Orphans
  BY <1>2, <1>3, Constants DEF FatLinks, Unclaimed, Orphans, Allocated
<1> QED BY <1>1, <1>2, <1>3, <1>4, <1>5

\* The cluster starts a directory, extends one, or carries data.
LEMMA AllocedDirKept ==
  ASSUME Steady, pc = "alloced", fat' = fat, disk' = disk, o.want = "dir",
         NEW f, f = [o EXCEPT !.first = IF @ = 0 THEN o.new ELSE @, !.prev = o.new], Goto("dots", f)
  PROVE  Kept'
<1>1. /\ pc' = "dots" /\ lost' = lost /\ o'.kind = o.kind /\ o'.tdir = o.tdir /\ o'.new = o.new
      /\ o'.first = (IF o.first = 0 THEN o.new ELSE o.first)
  BY SteadyFacts DEF Goto, Frames
<1>2. o.kind = "mkdir" /\ o.first = 0
  BY AllocedPoint DEF WantKnown
<1>3. PICK F, G, R : Apart(F, G, R)' /\ InOrder(G, R)' /\ Knows(F, G, R)
  BY AllocedPoint, StillPlaced
<1>4. FreeBare' /\ Orphans' = Orphans
  BY AllocedPoint, StillPlaced
<1>5. TdirKnown(G, R)'
  BY <1>1, <1>3, AllocedPoint, StillSets DEF Knows, TdirKnown
<1>6. ChainKnown(F)'
  BY <1>1, <1>2 DEF ChainKnown
<1>7. DotsKnown'
  <2>1. Bare(o.new)'
    BY <1>1, AllocedPoint DEF TakeKnown, Bare
  <2> QED BY <1>1, <1>2, <2>1, AllocedPoint DEF DotsKnown, TakeKnown
<1>8. Orphans' \subseteq lost' \cup {o'.first}
  BY <1>1, <1>2, <1>4, AllocedPoint
<1> QED BY <1>1, <1>3, <1>4, <1>5, <1>6, <1>7, <1>8, GrowKept

LEMMA AllocedExtKept ==
  ASSUME Steady, pc = "alloced", fat' = fat, disk' = disk, o.want = "ext",
         SetFat(o, o.cl, o.new, "extlinked")
  PROVE  Kept'
<1>1. /\ pc' = "setfat" /\ wr'.then = "extlinked" /\ wr'.i = 1 /\ wr'.cl = o.cl /\ lost' = lost /\ o' = o
  BY DEF SetFat
<1>2. PICK F, G, R : Apart(F, G, R) /\ InOrder(G, R) /\ Knows(F, G, R)
  BY AllocedPoint, StillPlaced
<1>3. FreeBare' /\ Orphans' = Orphans
  BY AllocedPoint, StillPlaced
<1> DEFINE c == o.new
<1>4. /\ ExtKnown(G, R) /\ TdirKnown(G, R) /\ ChainKnown(F) /\ HeadKnown(G, R)
  BY <1>2, AllocedPoint DEF Knows, Taking
<1>5. o.cl \in G /\ o.cl # c /\ o.tdir # c /\ o.first # c /\ (o.kind # "mkdir" => o.prev # c)
  BY <1>4, AllocedPoint DEF ExtKnown, TakeKnown
<1>6. PICK H, J, T : H = F \ {c} /\ J = G \cup {c} /\ T = [R EXCEPT ![c] = R[o.cl] + 1]
  OBVIOUS
<1>7. G \subseteq Cluster /\ c \in Cluster /\ R[o.cl] + 1 \in Nat
  BY <1>2, <1>5, AllocedPoint DEF Apart, Unclaimed
<1>8. T[c] = R[o.cl] + 1 /\ \A d \in Cluster \ {c} : T[d] = R[d]
  BY <1>2, <1>6, <1>7 DEF Apart
<1>9. Apart(H, J, T)
  BY <1>2, <1>6, <1>7, AllocedPoint, JoinDir
<1>10. \A d \in J \ {c} : Shaped(d, T)
  <2>1. \A d \in G : Shaped(d, R)
    BY <1>2, AllocedPoint DEF InOrder
  <2> QED BY <1>6, <1>7, <1>8, <2>1 DEF Shaped
<1>11. Apart(H, J, T)' /\ InOrder(J, T)'
  <2>1. Growing' /\ o'.new = c
    BY <1>1 DEF Growing, Writing
  <2>2. \A d \in J \ {c} : Shaped(d, T)'
    BY <1>10, StillSets
  <2>3. Apart(H, J, T)'
    BY <1>9, StillSets
  <2> QED BY <2>1, <2>2, <2>3 DEF InOrder
<1>12. TdirKnown(J, T)' /\ HeadKnown(J, T)'
  BY <1>1, <1>4, <1>5, <1>6, <1>7, <1>8, StillSets DEF TdirKnown, HeadKnown, DirPlace
<1>13. ChainKnown(H)'
  BY <1>1, <1>4, <1>5, <1>6 DEF ChainKnown
<1>14. ExtKnown(J, T)' /\ T[o'.new] = T[o'.cl] + 1
  BY <1>1, <1>4, <1>5, <1>6, <1>7, <1>8, StillSets DEF ExtKnown
<1>15. GrowKnown(J)'
  BY <1>1, <1>5, <1>6, AllocedPoint, StillSets DEF GrowKnown, TakeKnown
<1>16. Orphans' \subseteq lost' \cup {o'.first, o'.new}
  BY <1>1, <1>3, AllocedPoint
<1> QED BY <1>1, <1>3, <1>11, <1>12, <1>13, <1>14, <1>15, <1>16, CallKept DEF Resume

LEMMA AllocedDataKept ==
  ASSUME Steady, pc = "alloced", fat' = fat, disk' = disk, o.want = "data",
         NEW f, f = [o EXCEPT !.first = IF @ = 0 THEN o.new ELSE @, !.prev = o.new],
         IF o.prev # 0 THEN SetFat(f, o.prev, o.new, "linked") ELSE SetFat(f, o.new, END, "payload")
  PROVE  Kept'
<1>1. /\ pc' = "setfat" /\ wr'.i = 1 /\ lost' = lost
      /\ o'.kind = o.kind /\ o'.tdir = o.tdir /\ o'.new = o.new /\ o'.prev = o.new
      /\ o'.first = (IF o.first = 0 THEN o.new ELSE o.first)
      /\ IF o.prev # 0 THEN wr'.then = "linked" /\ wr'.cl = o.prev ELSE wr'.then = "payload"
  <2>1. f.kind = o.kind /\ f.tdir = o.tdir /\ f.new = o.new /\ f.prev = o.new
        /\ f.first = (IF o.first = 0 THEN o.new ELSE o.first)
    BY SteadyFacts DEF Frames
  <2>2. CASE o.prev # 0
    <3>1. SetFat(f, o.prev, o.new, "linked")
      BY <2>2
    <3> QED BY <2>1, <2>2, <3>1 DEF SetFat
  <2>3. CASE o.prev = 0
    <3>1. SetFat(f, o.new, END, "payload")
      BY <2>3
    <3> QED BY <2>1, <2>3, <3>1 DEF SetFat
  <2> QED BY <2>2, <2>3
<1>2. PICK F, G, R : Apart(F, G, R) /\ InOrder(G, R) /\ InOrder(G, R)' /\ Knows(F, G, R)
  BY AllocedPoint, StillPlaced
<1>3. FreeBare' /\ Orphans' = Orphans
  BY AllocedPoint, StillPlaced
<1>4. PICK c : c = o.new
  OBVIOUS
<1>5. TdirKnown(G, R) /\ ChainKnown(F) /\ o.kind # "mkdir" /\ c # 0 /\ o.tdir # c
  BY <1>2, <1>4, AllocedPoint DEF Knows, WantKnown, TakeKnown
<1>6. Apart(F \cup {c}, G \ {c}, R)'
  <2>1. Apart(F \cup {c}, G \ {c}, R)
    BY <1>2, <1>4, AllocedPoint, JoinFile DEF TakeKnown
  <2> QED BY <2>1, StillSets
<1>7. InOrder(G \ {c}, R)'
  BY <1>2 DEF InOrder
<1>8. TdirKnown(G \ {c}, R)'
  BY <1>1, <1>5, StillSets DEF TdirKnown, DirPlace
<1>9. ChainKnown(F \cup {c})'
  BY <1>1, <1>4, <1>5, AllocedPoint DEF ChainKnown
<1>10. HeadKnown(G \ {c}, R)'
  BY <1>1, <1>5 DEF HeadKnown
<1>11. wr'.then = "linked" => wr'.cl \in (F \cup {c}) \ {o'.new} /\ fat'[1][wr'.cl] = END
  BY <1>1, <1>5, AllocedPoint DEF ChainKnown, TakeKnown
<1>12. IF wr'.then = "linked" THEN Orphans' \subseteq lost' \cup {o'.first, o'.new}
                              ELSE Orphans' \subseteq lost' \cup {o'.first}
  <2>1. o.prev = 0 => o.first = 0
    BY <1>5 DEF ChainKnown
  <2>2. o.prev # 0 => o.first # 0
    BY SteadyFacts DEF Course
  <2> QED BY <1>1, <1>3, <2>1, <2>2, AllocedPoint
<1> HIDE <1>2
<1> QED BY <1>1, <1>3, <1>4, <1>5, <1>6, <1>7, <1>8, <1>9, <1>10, <1>11, <1>12, CallKept DEF Resume

LEMMA AllocedKept == ASSUME Steady, Alloced PROVE Kept'
<1> DEFINE f == [o EXCEPT !.first = IF @ = 0 THEN o.new ELSE @, !.prev = o.new]
<1>1. pc = "alloced" /\ fat' = fat /\ disk' = disk
  BY DEF Alloced
<1>2. o.want \in {"data", "dir", "ext"}
  BY <1>1 DEF Steady, ChainInv, TypeInv, TypeOK, DriverOK, Control, Frames
<1>3. CASE o.want = "dir" /\ Goto("dots", f)
  BY <1>1, <1>3, AllocedDirKept
<1>4. CASE o.want = "ext" /\ SetFat(o, o.cl, o.new, "extlinked")
  BY <1>1, <1>4, AllocedExtKept
<1>5. CASE /\ o.want = "data"
           /\ IF o.prev # 0 THEN SetFat(f, o.prev, o.new, "linked") ELSE SetFat(f, o.new, END, "payload")
  BY <1>1, <1>5, AllocedDataKept
<1>6. \/ o.want = "dir" /\ Goto("dots", f)
      \/ o.want = "ext" /\ SetFat(o, o.cl, o.new, "extlinked")
      \/ o.want = "data" /\ IF o.prev # 0 THEN SetFat(f, o.prev, o.new, "linked") ELSE SetFat(f, o.new, END, "payload")
  BY <1>2, Zenon DEF Alloced
<1> QED BY <1>3, <1>4, <1>5, <1>6

LEMMA LinkedKept == ASSUME Steady, Linked PROVE Kept'
<1>1. /\ pc \in {"linked", "extlinked"} /\ fat' = fat /\ disk' = disk /\ o' = o /\ lost' = lost /\ pc' = "setfat"
      /\ wr'.i = 1 /\ wr'.then = (IF pc = "linked" THEN "payload" ELSE "zero")
  BY DEF Linked, Still, SetFat
<1>2. Creating /\ Orphans \subseteq lost \cup {o.first}
  BY <1>1, BuildPoint DEF BuildSteps
<1>3. Growing <=> pc = "extlinked"
  BY <1>1 DEF Growing, Writing
<1>4. Growing => Growing'
  BY <1>1, <1>3 DEF Growing, Writing
<1>5. FreeBare' /\ Orphans' = Orphans
  BY <1>1, <1>2, <1>4, BuildStill
<1>6. PICK F, G, R : /\ Apart(F, G, R)' /\ InOrder(G, R)' /\ Knows(F, G, R)
                     /\ TdirKnown(G, R)' /\ ChainKnown(F)' /\ HeadKnown(G, R)'
  BY <1>1, <1>2, <1>4, BuildStill
<1>7. pc = "extlinked" => GrowKnown(G)'
  BY <1>1, <1>3, <1>6, StillSets DEF Knows, GrowKnown
<1>8. pc = "linked" => o'.kind # "mkdir" /\ o'.new = o'.prev /\ o'.prev # 0
  BY <1>1 DEF Steady, Kept, NewKnown
<1> QED BY <1>1, <1>2, <1>5, <1>6, <1>7, <1>8, CallKept DEF Resume

LEMMA SetFatStrayKept == ASSUME Steady, SetFatStray PROVE Kept'
<1>1. ~Hurt({"stray"})
  BY SteadyFacts DEF Hurt
<1> QED BY <1>1, AbortEnds DEF SetFatStray, Still

----------------------------------------------------------------------------
(* fat32_set_fat_entry, copy by copy. *)

LEMMA CopyStep ==
  ASSUME Steady, SetFatCopy
  PROVE  /\ pc = "setfat" /\ wr.then \in Resume /\ wr.cl \in Cluster
         /\ disk' = disk /\ lost' = lost /\ o' = o /\ Writing({wr.then})
         /\ (pc' = "setfat" /\ wr'.then = wr.then /\ wr'.i # 1 /\ wr'.i > 1) \/ pc' = wr.then
         /\ IF wr.i = 1 THEN FatWrite(wr.cl, wr.val) ELSE fat'[1] = fat[1] /\ wr.i > 1
<1>1. ~IOError /\ TypeInv /\ Control
  BY SteadyFacts DEF Steady, ChainInv, TypeInv
<1>2. /\ pc = "setfat" /\ wr.then \in Resume /\ wr.cl \in Cluster /\ disk' = disk /\ Writing({wr.then})
  BY <1>1 DEF SetFatCopy, Control, Writing
<1>3. /\ fat' = Written /\ lost' = lost /\ o' = o
      /\ (wr' = [wr EXCEPT !.i = @ + 1] /\ pc' = pc) \/ pc' = wr.then
  BY <1>1 DEF SetFatCopy, Written, Goto
<1>4. wr' = [wr EXCEPT !.i = @ + 1] => wr'.then = wr.then /\ wr'.i # 1 /\ wr'.i > 1
  BY <1>1, VolumeAssumption DEF TypeInv, TypeOK, DriverOK, Writes, Copy
<1> QED BY <1>1, <1>2, <1>3, <1>4, CopyWritten

LEMMA CopyPoint ==
  ASSUME Steady, SetFatCopy, wr.then # "freed"
  PROVE  /\ Creating /\ ~Removing /\ Clean
         /\ Growing <=> wr.then \in {"extlinked", "zero"}
         /\ Growing => Growing'
         /\ \A k : FirstTo(k) <=> wr.then = k /\ wr.i = 1
         /\ Orphans \subseteq lost \cup {o.first}
              \cup (IF wr.then = "alloced" \/ (wr.i = 1 /\ wr.then \in {"linked", "extlinked"}) THEN {o.new} ELSE {})
<1>1. pc = "setfat" /\ wr.then \in Resume
  BY CopyStep
<1>2. /\ Creating /\ ~Removing /\ ~Unread /\ ~GivenUp /\ (Growing <=> wr.then \in {"extlinked", "zero"})
      /\ (Taking <=> wr.then = "alloced")
      /\ \A k : FirstTo(k) <=> wr.then = k /\ wr.i = 1
  BY <1>1 DEF Creating, Removing, Writing, Unread, GivenUp, Growing, Taking, FirstTo
<1>3. Growing => Growing'
  BY <1>2, CopyStep DEF Growing, Writing
<1>4. Clean
  BY <1>2, SteadyFacts
<1>5. Orphans \subseteq lost \cup Held
  BY DEF Steady, Kept
<1> QED BY <1>2, <1>3, <1>4, <1>5 DEF Held

\* The first FAT stays what it is: a later copy is written, or an end mark over an end mark.
LEMMA SameFatKept ==
  ASSUME Steady, SetFatCopy, wr.then # "freed", fat'[1] = fat[1],
         wr.i = 1 => wr.then \in {"payload", "zero"}
  PROVE  Kept'
<1>1. /\ pc = "setfat" /\ wr.then \in Resume /\ disk' = disk /\ lost' = lost /\ o' = o
      /\ (pc' = "setfat" /\ wr'.then = wr.then /\ wr'.i # 1) \/ pc' = wr.then
      /\ Writing({wr.then}) /\ (wr.i = 1 \/ wr.i > 1)
  BY CopyStep
<1>2. /\ Creating /\ (Growing => Growing') /\ (Growing <=> wr.then \in {"extlinked", "zero"})
      /\ Orphans \subseteq lost \cup {o.first} \cup (IF wr.then = "alloced" THEN {o.new} ELSE {})
  BY CopyPoint
<1>3. FreeBare' /\ Orphans' = Orphans
  BY <1>1, <1>2, BuildStill
<1>4. PICK F, G, R : /\ Apart(F, G, R)' /\ InOrder(G, R)' /\ Knows(F, G, R)
                     /\ TdirKnown(G, R)' /\ ChainKnown(F)' /\ HeadKnown(G, R)'
  BY <1>1, <1>2, BuildStill
<1>5. wr.then \in {"extlinked", "zero"} => GrowKnown(G)'
  BY <1>1, <1>2, <1>4, StillSets DEF Knows, GrowKnown
<1>6. wr.then \in {"linked", "payload"} => o'.kind # "mkdir" /\ o'.new = o'.prev /\ o'.prev # 0
  BY <1>1 DEF Steady, Kept, NewKnown, Writing
<1>7. wr.then = "alloced" => ExtKnown(G, R)' /\ WantKnown' /\ TakeKnown' /\ fat'[1][o'.new] = END
  <2>1. ASSUME wr.then = "alloced" PROVE Taking
    BY <1>1, <2>1 DEF Taking, Writing
  <2>2. ASSUME wr.then = "alloced" PROVE ExtKnown(G, R) /\ WantKnown /\ TakeKnown /\ fat[1][o.new] = END
    BY <1>1, <1>4, <2>1, <2>2 DEF Knows, Steady, Kept, NewKnown, Writing
  <2>3. ASSUME wr.then = "alloced" PROVE ExtKnown(G, R)' /\ WantKnown' /\ TakeKnown'
    BY <1>1, <2>2, <2>3, StillSets DEF ExtKnown, WantKnown, TakeKnown
  <2> QED BY <1>1, <2>2, <2>3
<1>8. PICK k \in Resume \ {"freed"} : k = wr.then
  BY <1>1
<1> QED BY <1>1, <1>2, <1>3, <1>4, <1>5, <1>6, <1>7, <1>8, CopyKept

\* What a mark over an entry without a link, or a link in place of an end mark, changes.
LEMMA MarkSets ==
  ASSUME MediaOK, NEW c \in Cluster \ FatLinks, NEW v \in Link \ {FREE}, FatWrite(c, v)
  PROVE  /\ \A d \in Cluster : fat'[1][d] = IF d = c THEN v ELSE fat[1][d]
         /\ FatLinks' = (IF v \in Cluster THEN FatLinks \cup {c} ELSE FatLinks)
         /\ \A d \in FatLinks : fat'[1][d] = fat[1][d]
         /\ FreeOnes' = FreeOnes \ {c}
         /\ HeadSlots' = HeadSlots /\ \A p : EntryAt(p)' = EntryAt(p)
         /\ Orphans' \subseteq (Orphans \cup (IF c \in FreeOnes THEN {c} ELSE {})) \ {v}
         /\ \A d : (Bare(d)' <=> Bare(d)) /\ (Full(d)' <=> Full(d)) /\ (Tidy(d)' <=> Tidy(d))
<1>1. /\ \A d \in Cluster : fat'[1][d] = IF d = c THEN v ELSE fat[1][d]
      /\ FatLinks' = (IF v \in Cluster THEN FatLinks \cup {c} ELSE FatLinks)
      /\ FreeOnes' = FreeOnes \ {c}
      /\ HeadSlots' = HeadSlots /\ \A p : EntryAt(p)' = EntryAt(p)
  BY FatWriteSets
<1>2. FatLinks \subseteq Cluster
  BY DEF FatLinks
<1>3. \A d \in FatLinks : fat'[1][d] = fat[1][d]
  BY <1>1, <1>2
<1>4. Targets \subseteq Targets' /\ (v \in Cluster => v \in Targets')
  BY <1>1, <1>2, <1>3 DEF Targets
<1>5. Allocated' = Allocated \cup {c}
  BY <1>1 DEF Allocated, FREE
<1>6. Orphans' \subseteq (Orphans \cup (IF c \in FreeOnes THEN {c} ELSE {})) \ {v}
  <2>1. Orphans' \subseteq Cluster
    BY DEF Orphans, Allocated
  <2>2. c \notin FreeOnes => c \in Allocated
    BY DEF FreeOnes, Allocated
  <2> QED BY <1>4, <1>5, <2>1, <2>2 DEF Orphans
<1>7. \A d : (Bare(d)' <=> Bare(d)) /\ (Full(d)' <=> Full(d)) /\ (Tidy(d)' <=> Tidy(d))
  BY DEF FatWrite, Bare, Full, Tidy
<1> QED BY <1>1, <1>3, <1>6, <1>7

\* The first copy of an end mark takes the cluster.
LEMMA TakeCopyKept == ASSUME Steady, SetFatCopy, wr.then = "alloced", wr.i = 1 PROVE Kept'
<1>1. /\ pc = "setfat" /\ disk' = disk /\ lost' = lost /\ o' = o
      /\ (pc' = "setfat" /\ wr'.then = "alloced" /\ wr'.i # 1) \/ pc' = "alloced"
      /\ FatWrite(wr.cl, wr.val) /\ Writing({"alloced"}) /\ MediaOK
  BY CopyStep, SteadyFacts
<1>2. Creating /\ ~Growing /\ Clean /\ FirstTo("alloced") /\ Orphans \subseteq lost \cup {o.first, o.new}
  BY CopyPoint
<1>3. wr.cl = o.new /\ wr.val = END /\ Unclaimed(o.new) /\ o.new # o.first /\ Taking
  BY <1>1, SteadyFacts DEF Course, NewInv, Writing, Taking
<1>4. o.new \in FreeOnes /\ WantKnown /\ TakeKnown /\ FreeBare
  BY <1>2, <1>3 DEF Steady, Kept, NewKnown
<1>5. PICK c \in Cluster \ FatLinks : c = o.new
  BY <1>3, <1>4, Constants DEF Unclaimed, FatLinks, FreeOnes, FREE
<1>6. END \in Link \ {FREE} /\ END \notin Cluster
  BY Constants DEF Link, FREE
<1>7. /\ \A d \in Cluster : fat'[1][d] = IF d = c THEN END ELSE fat[1][d]
      /\ FatLinks' = FatLinks
      /\ \A d \in FatLinks : fat'[1][d] = fat[1][d]
      /\ FreeOnes' = FreeOnes \ {c}
      /\ HeadSlots' = HeadSlots /\ \A p : EntryAt(p)' = EntryAt(p)
      /\ Orphans' \subseteq Orphans \cup {c}
      /\ \A d : (Bare(d)' <=> Bare(d)) /\ (Full(d)' <=> Full(d)) /\ (Tidy(d)' <=> Tidy(d))
  BY <1>1, <1>3, <1>5, <1>6, MarkSets
<1>8. PICK F, G, R : Apart(F, G, R) /\ InOrder(G, R) /\ Knows(F, G, R)
  BY DEF Steady, Kept, Placed
<1>9. /\ TdirKnown(G, R) /\ ChainKnown(F) /\ HeadKnown(G, R) /\ ExtKnown(G, R)
      /\ F \subseteq Cluster /\ G \subseteq Cluster
  BY <1>1, <1>2, <1>3, <1>8 DEF Knows, Apart
<1>10. Apart(F, G, R)'
  <2>1. \A p \in HeadSlots : EntryAt(p).first # c
    BY <1>3, <1>5, TargetsAre DEF Unclaimed
  <2> QED BY <1>7, <1>8, <2>1 DEF Apart
<1>11. InOrder(G, R)'
  BY <1>2, <1>7, <1>8 DEF InOrder, Shaped
<1>12. FreeBare'
  BY <1>4, <1>7 DEF FreeBare
<1>13. TdirKnown(G, R)' /\ HeadKnown(G, R)'
  BY <1>1, <1>7, <1>9 DEF TdirKnown, HeadKnown, DirPlace
<1>14. ChainKnown(F)'
  BY <1>1, <1>4, <1>5, <1>7, <1>9 DEF ChainKnown, TakeKnown
<1>15. ExtKnown(G, R)' /\ WantKnown' /\ TakeKnown' /\ fat'[1][o'.new] = END
  <2>1. ExtKnown(G, R)'
    BY <1>1, <1>4, <1>5, <1>7, <1>9 DEF ExtKnown, TakeKnown
  <2> QED BY <1>1, <1>4, <1>5, <1>7, <2>1 DEF WantKnown, TakeKnown
<1>16. Orphans' \subseteq lost' \cup {o'.first, o'.new}
  BY <1>1, <1>2, <1>5, <1>7
<1> QED BY <1>1, <1>10, <1>11, <1>12, <1>13, <1>14, <1>15, <1>16, CopyKept DEF Resume

\* The first copy of a link hangs the cluster on a chain.
LEMMA LinkPoint ==
  ASSUME Steady, SetFatCopy, wr.then \in {"linked", "extlinked"}, wr.i = 1,
         NEW c \in Cluster, c = wr.cl, fat[1][c] = END
  PROVE  /\ pc = "setfat" /\ disk' = disk /\ lost' = lost /\ o' = o /\ o.new \in Cluster
         /\ \A d \in Cluster : fat'[1][d] = IF d = c THEN o.new ELSE fat[1][d]
         /\ FatLinks' = FatLinks \cup {c} /\ c \notin FatLinks
         /\ \A d \in FatLinks : fat'[1][d] = fat[1][d]
         /\ FreeOnes' = FreeOnes
         /\ HeadSlots' = HeadSlots /\ \A p : EntryAt(p)' = EntryAt(p)
         /\ Orphans' \subseteq lost' \cup {o'.first}
         /\ \A d : (Bare(d)' <=> Bare(d)) /\ (Full(d)' <=> Full(d)) /\ (Tidy(d)' <=> Tidy(d))
         /\ FreeBare'
<1>1. /\ pc = "setfat" /\ disk' = disk /\ lost' = lost /\ o' = o
      /\ FatWrite(wr.cl, wr.val) /\ Writing({wr.then}) /\ MediaOK
  BY CopyStep, SteadyFacts
<1>2. wr.val = o.new /\ o.new \in Cluster
  BY <1>1, SteadyFacts DEF Course, NewInv, Writing
<1>3. c \in Cluster \ FatLinks /\ o.new \in Link \ {FREE} /\ c \notin FreeOnes
  BY <1>2, Constants DEF FatLinks, Link, FREE, FreeOnes
<1>4. Orphans \subseteq lost \cup {o.first, o.new} /\ FreeBare
  BY CopyPoint DEF Steady, Kept
<1>5. /\ \A d \in Cluster : fat'[1][d] = IF d = c THEN o.new ELSE fat[1][d]
      /\ FatLinks' = FatLinks \cup {c}
      /\ \A d \in FatLinks : fat'[1][d] = fat[1][d]
      /\ FreeOnes' = FreeOnes \ {c}
      /\ HeadSlots' = HeadSlots /\ \A p : EntryAt(p)' = EntryAt(p)
      /\ Orphans' \subseteq Orphans \ {o.new}
      /\ \A d : (Bare(d)' <=> Bare(d)) /\ (Full(d)' <=> Full(d)) /\ (Tidy(d)' <=> Tidy(d))
  BY <1>1, <1>2, <1>3, MarkSets
<1>6. FreeBare'
  BY <1>4, <1>5 DEF FreeBare
<1> QED BY <1>1, <1>2, <1>3, <1>4, <1>5, <1>6

LEMMA LinkFileKept == ASSUME Steady, SetFatCopy, wr.then = "linked", wr.i = 1 PROVE Kept'
<1>1. /\ (pc' = "setfat" /\ wr'.then = "linked" /\ wr'.i # 1) \/ pc' = "linked"
      /\ Writing({"linked"})
  BY CopyStep
<1>2. Creating /\ ~Growing /\ FirstTo("linked") /\ pc = "setfat"
  BY CopyPoint, CopyStep
<1>3. PICK F, G, R : Apart(F, G, R) /\ InOrder(G, R) /\ Knows(F, G, R)
  BY DEF Steady, Kept, Placed
<1>4. /\ TdirKnown(G, R) /\ ChainKnown(F) /\ HeadKnown(G, R)
      /\ F \subseteq Cluster /\ F \cap G = {} /\ wr.cl \in F \ {o.new} /\ fat[1][wr.cl] = END
  BY <1>2, <1>3 DEF Knows, Apart
<1>5. o.kind # "mkdir" /\ o.new = o.prev /\ o.prev # 0
  BY <1>1 DEF Steady, Kept, NewKnown, Writing
<1>6. PICK c \in Cluster : c = wr.cl
  BY <1>4
<1>7. /\ disk' = disk /\ lost' = lost /\ o' = o /\ o.new \in Cluster
      /\ \A d \in Cluster : fat'[1][d] = IF d = c THEN o.new ELSE fat[1][d]
      /\ FatLinks' = FatLinks \cup {c} /\ c \notin FatLinks
      /\ \A d \in FatLinks : fat'[1][d] = fat[1][d]
      /\ FreeOnes' = FreeOnes
      /\ HeadSlots' = HeadSlots /\ \A p : EntryAt(p)' = EntryAt(p)
      /\ Orphans' \subseteq lost' \cup {o'.first}
      /\ \A d : (Bare(d)' <=> Bare(d)) /\ (Full(d)' <=> Full(d)) /\ (Tidy(d)' <=> Tidy(d))
      /\ FreeBare'
  BY <1>4, <1>6, LinkPoint
<1>8. o.new \in F
  BY <1>4, <1>5 DEF ChainKnown
<1>9. Apart(F, G, R)'
  BY <1>3, <1>4, <1>6, <1>7, <1>8 DEF Apart
<1>10. InOrder(G, R)'
  BY <1>2, <1>3, <1>4, <1>6, <1>7 DEF InOrder, Shaped
<1>11. TdirKnown(G, R)' /\ HeadKnown(G, R)'
  BY <1>4, <1>7 DEF TdirKnown, HeadKnown, DirPlace
<1>12. ChainKnown(F)'
  BY <1>4, <1>5, <1>6, <1>7 DEF ChainKnown
<1> QED BY <1>1, <1>5, <1>7, <1>9, <1>10, <1>11, <1>12, CopyKept DEF Resume

LEMMA LinkDirKept == ASSUME Steady, SetFatCopy, wr.then = "extlinked", wr.i = 1 PROVE Kept'
<1>1. (pc' = "setfat" /\ wr'.then = "extlinked" /\ wr'.i # 1) \/ pc' = "extlinked"
  BY CopyStep
<1>2. Creating /\ Growing /\ Growing' /\ FirstTo("extlinked") /\ pc = "setfat"
  BY CopyPoint, CopyStep
<1>3. PICK F, G, R : Apart(F, G, R) /\ InOrder(G, R) /\ Knows(F, G, R)
  BY DEF Steady, Kept, Placed
<1>4. /\ TdirKnown(G, R) /\ ChainKnown(F) /\ HeadKnown(G, R) /\ GrowKnown(G) /\ ExtKnown(G, R)
      /\ o.want = "ext" /\ R[o.new] = R[o.cl] + 1 /\ wr.cl = o.cl
      /\ F \subseteq Cluster /\ G \subseteq Cluster /\ F \cap G = {} /\ R \in [Cluster -> Nat]
  BY <1>2, <1>3 DEF Knows, Apart
<1>5. o.cl \in G /\ fat[1][o.cl] = END /\ (Full(o.cl) \/ R[o.cl] >= DirScanMax)
  BY <1>4 DEF ExtKnown
<1>6. PICK c \in Cluster : c = wr.cl
  BY <1>4, <1>5
<1>7. /\ disk' = disk /\ lost' = lost /\ o' = o /\ o.new \in Cluster
      /\ \A d \in Cluster : fat'[1][d] = IF d = c THEN o.new ELSE fat[1][d]
      /\ FatLinks' = FatLinks \cup {c} /\ c \notin FatLinks
      /\ \A d \in FatLinks : fat'[1][d] = fat[1][d]
      /\ FreeOnes' = FreeOnes
      /\ HeadSlots' = HeadSlots /\ \A p : EntryAt(p)' = EntryAt(p)
      /\ Orphans' \subseteq lost' \cup {o'.first}
      /\ \A d : (Bare(d)' <=> Bare(d)) /\ (Full(d)' <=> Full(d)) /\ (Tidy(d)' <=> Tidy(d))
      /\ FreeBare'
  BY <1>4, <1>5, <1>6, LinkPoint
<1>8. o.new # c /\ o.new \in G
  <2>1. R[c] \in Nat
    BY <1>4
  <2> QED BY <1>4, <1>6, <2>1 DEF GrowKnown
<1>9. Apart(F, G, R)'
  BY <1>3, <1>4, <1>5, <1>6, <1>7, <1>8 DEF Apart
<1>10. InOrder(G, R)'
  <2>1. \A d \in G \ {o.new} : Shaped(d, R)
    BY <1>2, <1>3 DEF InOrder
  <2>2. \A d \in G \ {o.new} : Shaped(d, R)'
    <3>1. ASSUME R[c] < DirScanMax PROVE Full(c)
      BY <1>4, <1>5, <1>6, <3>1, VolumeAssumption
    <3> QED BY <1>7, <2>1, <3>1 DEF Shaped
  <2> QED BY <1>2, <1>7, <2>2 DEF InOrder
<1>11. TdirKnown(G, R)' /\ HeadKnown(G, R)'
  BY <1>4, <1>7 DEF TdirKnown, HeadKnown, DirPlace
<1>12. ChainKnown(F)'
  BY <1>4, <1>5, <1>6, <1>7 DEF ChainKnown
<1>13. GrowKnown(G)'
  BY <1>4, <1>7, <1>8 DEF GrowKnown
<1> QED BY <1>1, <1>7, <1>9, <1>10, <1>11, <1>12, <1>13, CopyKept DEF Resume

\* The first copy of a free mark gives a cluster back; a later one changes nothing.
LEMMA FreedPoint ==
  ASSUME Steady, SetFatCopy, wr.then = "freed"
  PROVE  /\ Removing' /\ ~Creating' /\ GivenUp' /\ ~Unread' /\ ~FirstTo("freed")' /\ pc' # "empty"
         /\ Removing /\ ~Growing /\ pc # "empty" /\ (wr.i > 1 => GivenUp)
         /\ wr.i = 1 => Unread /\ FirstTo("freed") /\ Orphans \subseteq lost \cup {o.cl}
<1>1. /\ pc = "setfat"
      /\ (pc' = "setfat" /\ wr'.then = "freed" /\ wr'.i # 1 /\ wr'.i > 1) \/ pc' = "freed"
  BY CopyStep
<1>2. /\ Removing' /\ ~Creating' /\ GivenUp' /\ ~Unread' /\ ~FirstTo("freed")' /\ pc' # "empty"
      /\ Removing /\ ~Growing /\ (wr.i > 1 => GivenUp) /\ (wr.i = 1 => Unread /\ FirstTo("freed"))
  BY <1>1 DEF Removing, Creating, GivenUp, Unread, FirstTo, Growing, Writing, Resume
<1>3. ASSUME wr.i = 1 PROVE Orphans \subseteq lost \cup {o.cl}
  <2>1. ~Creating /\ ~Taking /\ ~FirstTo("linked") /\ ~FirstTo("extlinked") /\ ~GivenUp
    BY <1>1, <1>3 DEF Creating, Taking, FirstTo, GivenUp, Writing, Resume
  <2> QED BY <2>1 DEF Steady, Kept, Held
<1> QED BY <1>1, <1>2, <1>3

LEMMA FreeSameKept ==
  ASSUME Steady, SetFatCopy, wr.then = "freed", fat'[1] = fat[1], wr.i > 1 PROVE Kept'
<1>1. disk' = disk /\ lost' = lost /\ o' = o /\ pc = "setfat"
  BY CopyStep
<1>2. PICK F, G, R : Apart(F, G, R)' /\ InOrder(G, R)'
  BY <1>1, FreedPoint, StillPlaced
<1>3. FreeBare' /\ Orphans' = Orphans /\ Orphans \subseteq lost \cup Held /\ Walks
  BY <1>1, FreedPoint, StillPlaced
<1>4. Held = {o.next}
  BY <1>1, FreedPoint DEF Held, Creating, Taking, FirstTo, Unread, Writing, Resume
<1>5. Closed(o.next)'
  <2>1. PICK t : t = o.next
    OBVIOUS
  <2>2. Closed(t)
    BY <1>3, <2>1, FreedPoint DEF Walks
  <2>3. Closed(t)'
    BY <1>1, <2>2, StillSets DEF Closed
  <2> QED BY <1>1, <2>1, <2>3
<1>6. o'.victim \in {0} \cup FreeOnes'
  <2>1. ~Unread
    BY <1>1 DEF Unread, Writing
  <2> QED BY <1>1, <1>3, <2>1, FreedPoint, StillSets DEF Walks
<1>7. Walks' /\ Orphans' \subseteq lost' \cup Held'
  BY <1>1, <1>3, <1>4, <1>5, <1>6, FreedPoint DEF Walks, Held
<1> QED BY <1>2, <1>3, <1>7, FreedPoint, RemoveKept

LEMMA FreeCopyKept == ASSUME Steady, SetFatCopy, wr.then = "freed", wr.i = 1 PROVE Kept'
<1>1. /\ disk' = disk /\ lost' = lost /\ o' = o /\ FatWrite(wr.cl, wr.val) /\ pc = "setfat"
      /\ Writing({"freed"}) /\ wr.cl \in Cluster /\ MediaOK
  BY CopyStep, SteadyFacts
<1>2. wr.cl = o.cl /\ wr.val = FREE /\ o.next \in {fat[1][o.cl], BAD}
  BY <1>1, SteadyFacts DEF Course, RemoveInv
<1>3. Closed(o.cl) /\ o.next # BAD /\ (o.victim \in {0} \cup FreeOnes \/ o.cl = o.victim) /\ FreeBare
  BY FreedPoint DEF Steady, Kept, Walks
<1>4. PICK c \in Cluster : c = o.cl
  BY <1>1, <1>2
<1>5. PICK n : n = fat[1][c]
  OBVIOUS
<1>6. PICK W : Walked(W, 0) /\ c \in W
  BY <1>3, <1>4 DEF Closed
<1>7. /\ \A d \in Cluster : fat'[1][d] = IF d = c THEN FREE ELSE fat[1][d]
      /\ FatLinks' = FatLinks \ {c}
      /\ FreeOnes' = FreeOnes \cup {c}
      /\ HeadSlots' = HeadSlots /\ \A p : EntryAt(p)' = EntryAt(p)
  <2>1. FREE \in Link /\ FREE \notin Cluster
    BY Constants DEF Link, FREE
  <2> QED BY <1>1, <1>2, <1>4, <2>1, FatWriteSets
<1>8. \A d \in FatLinks' : d \in FatLinks /\ d # c /\ fat'[1][d] = fat[1][d]
  BY <1>7 DEF FatLinks
<1>9. \A d : (Bare(d)' <=> Bare(d)) /\ (Full(d)' <=> Full(d)) /\ (Tidy(d)' <=> Tidy(d))
  BY <1>1 DEF Bare, Full, Tidy
<1>10. Orphans' \subseteq lost' \cup {n}
  <2>1. Targets \subseteq Targets' \cup {n}
    BY <1>5, <1>7 DEF Targets, FatLinks
  <2>2. Allocated' = Allocated \ {c}
    BY <1>7 DEF Allocated
  <2> QED BY <1>1, <1>4, <2>1, <2>2, FreedPoint DEF Orphans
<1>11. FreeBare'
  BY <1>3, <1>6, <1>7, <1>9 DEF FreeBare, Walked
<1>12. Closed(n)'
  <2>1. Walked(W, 0)'
    BY <1>6, <1>8, <1>9 DEF Walked
  <2>2. n \in Cluster => n \in W
    BY <1>5, <1>6, Constants DEF Walked, FatLinks
  <2> QED BY <1>2, <1>3, <1>4, <1>5, <2>1, <2>2 DEF Closed
<1>13. o'.next = n /\ o'.victim \in {0} \cup FreeOnes'
  BY <1>1, <1>2, <1>3, <1>4, <1>5, <1>7
<1>14. Walks' /\ Orphans' \subseteq lost' \cup Held'
  BY <1>10, <1>12, <1>13, FreedPoint DEF Walks, Held
<1>15. PICK F, G, R : Apart(F, G, R) /\ InOrder(G, R)
  BY DEF Steady, Kept, Placed
<1>16. Apart(F, G, R)'
  BY <1>7, <1>8, <1>9, <1>15 DEF Apart
<1>17. InOrder(G, R)'
  BY <1>8, <1>9, <1>15, FreedPoint DEF InOrder, Shaped
<1> QED BY <1>11, <1>14, <1>16, <1>17, FreedPoint, RemoveKept

LEMMA SetFatCopyKept == ASSUME Steady, SetFatCopy PROVE Kept'
<1>1. /\ wr.then \in Resume /\ Writing({wr.then}) /\ pc = "setfat" /\ wr.cl \in Cluster
      /\ IF wr.i = 1 THEN FatWrite(wr.cl, wr.val) ELSE fat'[1] = fat[1] /\ wr.i > 1
  BY CopyStep
<1>2. CASE wr.i # 1 /\ wr.then # "freed"
  BY <1>1, <1>2, SameFatKept
<1>3. CASE wr.i = 1 /\ wr.then \in {"payload", "zero"}
  <2>1. wr.cl = o.new /\ wr.val = END
    BY <1>1, <1>3, SteadyFacts DEF Course, Writing
  <2>2. fat[1][o.new] = END
    <3>1. PICK F, G, R : Knows(F, G, R)
      BY DEF Steady, Kept, Placed
    <3>2. CASE wr.then = "zero"
      <4>1. Growing
        BY <1>1, <3>2 DEF Growing, Writing
      <4> QED BY <3>1, <4>1 DEF Knows, GrowKnown
    <3>3. CASE wr.then = "payload"
      <4>1. o.kind # "mkdir" /\ o.new = o.prev /\ o.prev # 0
        BY <1>1, <3>3 DEF Steady, Kept, NewKnown, Writing
      <4>2. Creating
        BY <1>3, CopyPoint
      <4> QED BY <3>1, <4>1, <4>2 DEF Knows, ChainKnown
    <3> QED BY <1>3, <3>2, <3>3
  <2>3. fat[1] \in [Cluster -> Link]
    BY SteadyFacts, Constants DEF MediaOK
  <2>4. fat'[1] = fat[1]
    BY <1>1, <1>3, <2>1, <2>2, <2>3 DEF FatWrite
  <2> QED BY <1>3, <2>4, SameFatKept
<1>4. CASE wr.i = 1 /\ wr.then = "alloced"
  BY <1>4, TakeCopyKept
<1>5. CASE wr.i = 1 /\ wr.then = "linked"
  BY <1>5, LinkFileKept
<1>6. CASE wr.i = 1 /\ wr.then = "extlinked"
  BY <1>6, LinkDirKept
<1>7. CASE wr.then = "freed"
  BY <1>1, <1>7, FreeSameKept, FreeCopyKept
<1> QED BY <1>1, <1>2, <1>3, <1>4, <1>5, <1>6, <1>7 DEF Resume

----------------------------------------------------------------------------
(* A removal: the walk over the directory, the chain given back, the mark. *)

LEMMA RemovePoint ==
  ASSUME Steady, pc \in {"empty", "free", "freed", "mark"}
  PROVE  /\ Removing /\ ~Creating /\ ~Taking /\ ~Growing /\ (\A k : ~FirstTo(k))
         /\ (Unread <=> pc = "free") /\ (GivenUp <=> pc = "freed")
         /\ Orphans \subseteq lost \cup (IF pc = "free" THEN {o.cl} ELSE {})
                                \cup (IF pc = "freed" THEN {o.next} ELSE {})
<1>1. /\ Removing /\ ~Creating /\ ~Taking /\ ~Growing /\ (\A k : ~FirstTo(k))
      /\ (Unread <=> pc = "free") /\ (GivenUp <=> pc = "freed")
  BY DEF Removing, Creating, Taking, Growing, FirstTo, Unread, GivenUp, Writing, Resume
<1> QED BY <1>1 DEF Steady, Kept, Held

LEMMA FreeStepKept == ASSUME Steady, FreeStep PROVE Kept'
<1>1. PICK n : /\ pc = "free" /\ o.cl \in Cluster /\ Still /\ n = fat[1][o.cl]
               /\ SetFat([o EXCEPT !.next = n, !.steps = @ + 1], o.cl, FREE, "freed")
  BY SteadyFacts, Constants DEF FreeStep, GetNext, NextOf
<1>2. /\ fat' = fat /\ disk' = disk /\ pc' = "setfat" /\ wr'.then = "freed" /\ wr'.i = 1 /\ lost' = lost
      /\ o'.cl = o.cl /\ o'.next = n /\ o'.victim = o.victim
  BY <1>1, SteadyFacts DEF Still, SetFat, Frames
<1>3. PICK F, G, R : Apart(F, G, R)' /\ InOrder(G, R)'
  BY <1>1, <1>2, RemovePoint, StillPlaced
<1>4. FreeBare' /\ Orphans' = Orphans /\ Walks
  BY <1>1, <1>2, RemovePoint, StillPlaced
<1>5. n # BAD
  <2>1. fat[1][o.cl] \in Link
    BY <1>1, SteadyFacts, Constants DEF MediaOK
  <2> QED BY <1>1, <2>1, Constants DEF Link, FREE
<1>6. Closed(o.cl)'
  <2>1. PICK t : t = o.cl
    OBVIOUS
  <2>2. Closed(t)
    BY <1>1, <1>4, <2>1, RemovePoint DEF Walks
  <2>3. Closed(t)'
    BY <1>2, <2>2, StillSets DEF Closed
  <2> QED BY <1>2, <2>1, <2>3
<1>7. Removing' /\ ~Creating' /\ ~GivenUp' /\ Unread' /\ pc' # "empty"
  BY <1>2 DEF Removing, Creating, GivenUp, Unread, Writing, Resume
<1>8. o'.victim \in {0} \cup FreeOnes' \/ o'.cl = o'.victim
  BY <1>1, <1>2, <1>4, RemovePoint, StillSets DEF Walks
<1>9. Walks' /\ Orphans' \subseteq lost' \cup Held'
  BY <1>1, <1>2, <1>4, <1>5, <1>6, <1>7, <1>8, RemovePoint DEF Walks, Held
<1> QED BY <1>3, <1>4, <1>7, <1>9, RemoveKept

LEMMA FreeEndKept == ASSUME Steady, FreeStray \/ FreeOver PROVE Kept'
<1>1. ~Hurt({"overlong"})
  BY SteadyFacts DEF Hurt
<1>2. FreeStray => pc = "free" /\ o.cl = BAD
  BY DEF FreeStray
<1>3. FreeStray => o.cl # BAD
  BY <1>2, RemovePoint DEF Steady, Kept, Walks, Closed
<1> QED BY <1>1, <1>2, <1>3 DEF FreeOver

LEMMA FreedKept == ASSUME Steady, Freed PROVE Kept'
<1>1. /\ pc = "freed" /\ fat' = fat /\ disk' = disk
      /\ IF o.next = END THEN Goto("mark", o) ELSE Goto("free", [o EXCEPT !.cl = o.next])
  BY DEF Freed
<1>2. PICK F, G, R : Apart(F, G, R)' /\ InOrder(G, R)'
  BY <1>1, RemovePoint, StillPlaced
<1>3. FreeBare' /\ Orphans' = Orphans /\ Walks
  BY <1>1, RemovePoint, StillPlaced
<1>4. o.victim \in {0} \cup FreeOnes /\ Closed(o.next) /\ Orphans \subseteq lost \cup {o.next}
  BY <1>1, <1>3, RemovePoint DEF Walks
<1>5. CASE o.next = END
  <2>1. pc' = "mark" /\ o' = o /\ lost' = lost
    BY <1>1, <1>5 DEF Goto
  <2>2. Removing' /\ ~Creating' /\ ~GivenUp' /\ ~Unread' /\ ~FirstTo("freed")'
    BY <2>1 DEF Removing, Creating, GivenUp, Unread, FirstTo, Writing, Resume
  <2>3. Orphans' \subseteq lost'
    BY <1>3, <1>4, <1>5, <2>1, Constants DEF Orphans, Allocated
  <2>4. Walks'
    BY <1>1, <1>4, <2>1, <2>2, StillSets DEF Walks
  <2> QED BY <1>2, <1>3, <2>1, <2>2, <2>3, <2>4, RemoveKept
<1>6. CASE o.next # END
  <2>1. pc' = "free" /\ o'.cl = o.next /\ o'.victim = o.victim /\ lost' = lost
    BY <1>1, <1>6, SteadyFacts DEF Goto, Frames
  <2>2. Removing' /\ ~Creating' /\ ~GivenUp' /\ Unread' /\ ~FirstTo("freed")'
    BY <2>1 DEF Removing, Creating, GivenUp, Unread, FirstTo, Writing, Resume
  <2>3. Closed(o.cl)'
    <3>1. PICK t : t = o.next
      OBVIOUS
    <3>2. Closed(t)'
      BY <1>1, <1>4, <3>1, StillSets DEF Closed
    <3> QED BY <2>1, <3>1, <3>2
  <2>4. Walks' /\ Orphans' \subseteq lost' \cup Held'
    BY <1>1, <1>3, <1>4, <2>1, <2>2, <2>3, StillSets DEF Walks, Held
  <2> QED BY <1>2, <1>3, <2>1, <2>2, <2>4, RemoveKept
<1> QED BY <1>5, <1>6

\* The walk over the directory: what it has seen is bare, and leads to where it is.
LEMMA EmptyPoint ==
  ASSUME Steady, pc = "empty", fat' = fat, disk' = disk
  PROVE  /\ FreeBare' /\ Orphans' \subseteq lost /\ Clean
         /\ \E F, G, R : /\ Apart(F, G, R)' /\ InOrder(G, R)'
                         /\ Apart(F, G, R) /\ InOrder(G, R) /\ WalkKnown(G, R) /\ ~Growing
         /\ \E W : Walked(W, o.cl) /\ o.victim \in W \cup {o.cl}
<1>1. Clean
  BY SteadyFacts DEF FreeWindow
<1>2. PICK F, G, R : Apart(F, G, R)' /\ InOrder(G, R)' /\ Apart(F, G, R) /\ InOrder(G, R) /\ Knows(F, G, R)
  BY RemovePoint, StillPlaced
<1>3. WalkKnown(G, R) /\ ~Growing
  BY <1>2, RemovePoint DEF Knows
<1>4. FreeBare' /\ Orphans' \subseteq lost /\ Walks
  BY RemovePoint, StillPlaced
<1>5. \E W : Walked(W, o.cl) /\ o.victim \in W \cup {o.cl}
  BY <1>4 DEF Walks
<1> QED BY <1>1, <1>2, <1>3, <1>4, <1>5

\* The directory turned out to be empty.
LEMMA EmptiedKept ==
  ASSUME Steady, pc = "empty", Still, o.cl \in Cluster, Bare(o.cl), o.cl \notin FatLinks, Emptied
  PROVE  Kept'
<1>1. /\ fat' = fat /\ disk' = disk /\ pc' = "free" /\ lost' = lost
      /\ o'.cl = o.victim /\ o'.victim = o.victim
  BY SteadyFacts DEF Emptied, Goto, Still, Frames
<1>2. FreeBare' /\ Orphans' \subseteq lost'
  BY <1>1, EmptyPoint
<1>3. PICK F, G, R : Apart(F, G, R)' /\ InOrder(G, R)'
  BY <1>1, EmptyPoint
<1>4. PICK W : Walked(W, o.cl) /\ o.victim \in W \cup {o.cl}
  BY <1>1, EmptyPoint
<1>5. PICK t, X : t = o.victim /\ X = W \cup {o.cl}
  OBVIOUS
<1>6. Walked(X, 0)
  BY <1>4, <1>5 DEF Walked
<1>7. Closed(t)'
  <2>1. Walked(X, 0)'
    BY <1>1, <1>6, StillSets
  <2>2. t # BAD
    BY <1>4, <1>5, Constants DEF Walked
  <2> QED BY <1>4, <1>5, <2>1, <2>2 DEF Closed
<1>8. Removing' /\ ~Creating' /\ ~GivenUp' /\ Unread' /\ ~FirstTo("freed")'
  BY <1>1 DEF Removing, Creating, GivenUp, Unread, FirstTo, Writing, Resume
<1>9. Closed(o.cl)'
  BY <1>1, <1>5, <1>7
<1>10. Walks'
  BY <1>1, <1>8, <1>9 DEF Walks
<1> QED BY <1>1, <1>2, <1>3, <1>8, <1>10, RemoveKept

\* It goes on in the next cluster.
LEMMA EmptyOnKept ==
  ASSUME Steady, pc = "empty", Still, o.cl \in Cluster, Bare(o.cl), NEW n, n = fat[1][o.cl],
         Goto("empty", [o EXCEPT !.cl = n, !.steps = @ + 1])
  PROVE  Kept'
<1>1. /\ fat' = fat /\ disk' = disk /\ pc' = "empty" /\ lost' = lost
      /\ o'.cl = n /\ o'.victim = o.victim /\ o'.steps = o.steps + 1
  BY SteadyFacts DEF Goto, Still, Frames
<1>2. FreeBare' /\ Orphans' \subseteq lost' /\ Clean
  BY <1>1, EmptyPoint
<1>3. PICK F, G, R : Apart(F, G, R)' /\ InOrder(G, R)' /\ Apart(F, G, R) /\ WalkKnown(G, R)
  BY <1>1, EmptyPoint
<1>4. PICK W : Walked(W, o.cl) /\ o.victim \in W \cup {o.cl}
  BY <1>1, EmptyPoint
<1>5. PICK X : X = W \cup {o.cl}
  OBVIOUS
<1>6. Walked(X, n)'
  <2>1. Walked(X, n)
    BY <1>4, <1>5 DEF Walked
  <2> QED BY <1>1, <2>1, StillSets
<1>7. WalkKnown(G, R)'
  <2>1. ASSUME n \in Cluster PROVE DirPlace(n, G, R, o.steps + 1)
    <3>1. o.cl \in FatLinks
      BY <2>1 DEF FatLinks
    <3>2. n \notin FreeOnes
      BY <1>2, <3>1, TargetsAre DEF Clean
    <3> QED BY <1>3, <3>1, <3>2 DEF WalkKnown, DirPlace, Apart
  <2> QED BY <1>1, <2>1, StillSets DEF WalkKnown
<1>8. Removing' /\ ~Creating' /\ ~GivenUp' /\ ~Unread' /\ ~FirstTo("freed")'
  BY <1>1 DEF Removing, Creating, GivenUp, Unread, FirstTo, Writing, Resume
<1>9. \E Y : Walked(Y, o.cl)' /\ o'.victim \in Y \cup {o'.cl}
  <2>1. Walked(X, o.cl)'
    BY <1>1, <1>6
  <2>2. o'.victim \in X
    BY <1>1, <1>4, <1>5
  <2> QED BY <2>1, <2>2
<1>10. Walks'
  BY <1>1, <1>8, <1>9 DEF Walks
<1> QED BY <1>1, <1>2, <1>3, <1>7, <1>8, <1>10, RemoveKept

LEMMA EmptyKept == ASSUME Steady, EmptyScan \/ EmptyOver PROVE Kept'
<1>1. pc = "empty" /\ Still /\ fat' = fat /\ disk' = disk /\ ~IOError /\ mishap' = {}
  BY SteadyFacts DEF EmptyScan, EmptyOver, Still
<1>2. ~Hurt({"stray"}) /\ ~Hurt({"overlong"})
  BY <1>1 DEF Hurt
<1>3. CASE Return("notempty")
  BY <1>1, <1>3, RemovePoint, ReturnEnds
<1>4. ASSUME o.cl \in Cluster, o.steps < DirScanMax, NEW i \in Slot,
             Least(i, {j \in Slot : StopsEmpty(disk[o.cl][j])}), disk[o.cl][i].kind = "unused", Emptied
      PROVE  Kept'
  <2>1. PICK F, G, R : InOrder(G, R) /\ WalkKnown(G, R)
    BY <1>1, EmptyPoint
  <2>2. Shaped(o.cl, R) /\ R[o.cl] = o.steps
    BY <1>1, <1>4, <2>1, RemovePoint DEF InOrder, WalkKnown, DirPlace
  <2>3. \A j \in Slot : i <= j => disk[o.cl][j].kind = "unused"
    <3>1. \A j \in Slot : i <= j => i = j \/ i < j
      BY VolumeAssumption DEF Slot
    <3> QED BY <1>4, <2>2, <3>1 DEF Shaped, Tidy
  <2>4. \A j \in Slot : ~(i <= j) => disk[o.cl][j].kind \in {"deleted", "dot"}
    BY <1>4 DEF Least, StopsEmpty
  <2>5. Bare(o.cl)
    BY <2>3, <2>4 DEF Bare, Live
  <2>6. o.cl \notin FatLinks
    BY <1>4, <2>2 DEF Shaped, Full
  <2> QED BY <1>1, <1>4, <2>5, <2>6, EmptiedKept
<1>5. ASSUME o.cl \in Cluster, {j \in Slot : StopsEmpty(disk[o.cl][j])} = {}, NEW n, GetNext(o.cl, n),
             IF n = END THEN Emptied ELSE Goto("empty", [o EXCEPT !.cl = n, !.steps = @ + 1])
      PROVE  Kept'
  <2>1. n = fat[1][o.cl]
    BY <1>1, <1>5, Constants DEF GetNext, NextOf
  <2>2. Bare(o.cl)
    BY <1>5 DEF Bare, StopsEmpty, Live
  <2>3. n = END => o.cl \notin FatLinks
    BY <2>1, Constants DEF FatLinks
  <2> QED BY <1>1, <1>5, <2>1, <2>2, <2>3, EmptiedKept, EmptyOnKept
<1> QED BY <1>1, <1>2, <1>3, <1>4, <1>5, Zenon DEF EmptyScan, EmptyOver, Least

----------------------------------------------------------------------------
(* The scan for a free slot. *)

LEMMA SlotPoint ==
  ASSUME Steady, pc = "slot", Still, o'.kind = o.kind, o'.tdir = o.tdir, o'.first = o.first, o'.prev = o.prev,
         lost' = lost
  PROVE  /\ FreeBare' /\ Orphans' \subseteq lost' \cup {o'.first} /\ fat' = fat /\ disk' = disk /\ Clean
         /\ \E F, G, R : /\ Apart(F, G, R)' /\ InOrder(G, R)' /\ TdirKnown(G, R)' /\ ChainKnown(F)'
                         /\ HeadKnown(G, R)' /\ Apart(F, G, R) /\ WalkKnown(G, R)
<1>1. fat' = fat /\ disk' = disk
  BY DEF Still
<1>2. Creating /\ ~Growing /\ Clean /\ Orphans \subseteq lost \cup {o.first}
  BY BuildPoint DEF BuildSteps
<1>3. FreeBare' /\ Orphans' = Orphans
  BY <1>1, <1>2, BuildStill
<1>4. PICK F, G, R : /\ Apart(F, G, R)' /\ InOrder(G, R)' /\ TdirKnown(G, R)' /\ ChainKnown(F)'
                     /\ HeadKnown(G, R)' /\ Knows(F, G, R)
  BY <1>1, <1>2, BuildStill
<1>5. Apart(F, G, R) /\ WalkKnown(G, R)
  BY <1>1, <1>4, StillSets DEF Knows
<1> QED BY <1>1, <1>2, <1>3, <1>4, <1>5

LEMMA SlotExtKept ==
  ASSUME Steady, pc = "slot", Still, Goto("alloc", [o EXCEPT !.want = "ext"]),
         o.cl \in Cluster, fat[1][o.cl] = END, Full(o.cl) \/ o.steps >= DirScanMax
  PROVE  Kept'
<1>1. /\ pc' = "alloc" /\ lost' = lost /\ o'.want = "ext" /\ o'.cl = o.cl
      /\ o'.kind = o.kind /\ o'.tdir = o.tdir /\ o'.first = o.first /\ o'.prev = o.prev
  BY SteadyFacts DEF Goto, Frames
<1>2. FreeBare' /\ Orphans' \subseteq lost' \cup {o'.first} /\ fat' = fat /\ disk' = disk
  BY <1>1, SlotPoint
<1>3. PICK F, G, R : /\ Apart(F, G, R)' /\ InOrder(G, R)' /\ TdirKnown(G, R)' /\ ChainKnown(F)'
                     /\ HeadKnown(G, R)' /\ WalkKnown(G, R)
  BY <1>1, SlotPoint
<1>4. ExtKnown(G, R)'
  BY <1>1, <1>2, <1>3, StillSets DEF WalkKnown, DirPlace, ExtKnown
<1>5. WantKnown'
  BY <1>1 DEF WantKnown
<1> QED BY <1>1, <1>2, <1>3, <1>4, <1>5, GrowKept

LEMMA SlotOnKept ==
  ASSUME Steady, pc = "slot", Still, o.cl \in Cluster, NEW n, n = fat[1][o.cl],
         Goto("slot", [o EXCEPT !.cl = n, !.steps = @ + 1])
  PROVE  Kept'
<1>1. /\ pc' = "slot" /\ lost' = lost /\ o'.cl = n /\ o'.steps = o.steps + 1
      /\ o'.kind = o.kind /\ o'.tdir = o.tdir /\ o'.first = o.first /\ o'.prev = o.prev
  BY SteadyFacts DEF Goto, Frames
<1>2. FreeBare' /\ Orphans' \subseteq lost' \cup {o'.first} /\ fat' = fat /\ disk' = disk /\ Clean
  BY <1>1, SlotPoint
<1>3. PICK F, G, R : /\ Apart(F, G, R)' /\ InOrder(G, R)' /\ TdirKnown(G, R)' /\ ChainKnown(F)'
                     /\ HeadKnown(G, R)' /\ Apart(F, G, R) /\ WalkKnown(G, R)
  BY <1>1, SlotPoint
<1>4. ASSUME n \in Cluster PROVE DirPlace(n, G, R, o.steps + 1)
  <2>1. o.cl \in FatLinks
    BY <1>4 DEF FatLinks
  <2>2. n \notin FreeOnes
    BY <1>2, <2>1, TargetsAre DEF Clean
  <2> QED BY <1>3, <2>1, <2>2 DEF WalkKnown, DirPlace, Apart
<1>5. WalkKnown(G, R)'
  BY <1>1, <1>2, <1>4, StillSets DEF WalkKnown
<1> QED BY <1>1, <1>2, <1>3, <1>5, GrowKept

LEMMA SlotFoundKept ==
  ASSUME Steady, pc = "slot", Still, NEW c \in Cluster \cup {BAD}, NEW i \in Slot,
         Goto("entry", [o EXCEPT !.at = c, !.index = i]),
         c \in Cluster => c = o.cl /\ Least(i, {j \in Slot : IsFreeSlot(disk[c][j])})
  PROVE  Kept'
<1>1. /\ pc' = "entry" /\ lost' = lost /\ o'.at = c /\ o'.index = i
      /\ o'.kind = o.kind /\ o'.tdir = o.tdir /\ o'.first = o.first /\ o'.prev = o.prev
  BY SteadyFacts DEF Goto, Frames
<1>2. FreeBare' /\ Orphans' \subseteq lost' \cup {o'.first} /\ fat' = fat /\ disk' = disk
  BY <1>1, SlotPoint
<1>3. PICK F, G, R : /\ Apart(F, G, R)' /\ InOrder(G, R)' /\ TdirKnown(G, R)' /\ ChainKnown(F)'
                     /\ HeadKnown(G, R)' /\ WalkKnown(G, R)
  BY <1>1, SlotPoint
<1>4. c # 0
  BY Constants
<1>5. ASSUME c \in Cluster PROVE /\ c \in G \ FreeOnes /\ IsFreeSlot(disk[c][i])
                                 /\ \A j \in Slot : j < i => ~IsFreeSlot(disk[c][j])
  <2>1. \A j \in Slot : j < i => ~(i <= j)
    BY VolumeAssumption DEF Slot
  <2> QED BY <1>3, <1>5, <2>1 DEF Least, WalkKnown, DirPlace
<1>6. SlotKnown(G)'
  BY <1>1, <1>2, <1>4, <1>5, StillSets DEF SlotKnown
<1> QED BY <1>1, <1>2, <1>3, <1>6, GrowKept

LEMMA SlotKept == ASSUME Steady, SlotScan \/ SlotOver PROVE Kept'
<1>1. pc = "slot" /\ Still /\ fat' = fat /\ disk' = disk /\ ~IOError /\ mishap' = {} /\ o \in Frames
  BY SteadyFacts DEF SlotScan, SlotOver, Still
<1>2. CASE Abort("io")
  BY <1>1, <1>2, AbortEnds
<1>3. CASE Goto("entry", [o EXCEPT !.at = BAD, !.index = 1])
  BY <1>1, <1>3, Constants, SlotFoundKept
<1>4. ASSUME o.cl \in Cluster, NEW i \in Slot, Least(i, {j \in Slot : IsFreeSlot(disk[o.cl][j])}),
             Goto("entry", [o EXCEPT !.at = o.cl, !.index = i])
      PROVE  Kept'
  BY <1>1, <1>4, SlotFoundKept
<1>5. ASSUME o.cl \in Cluster, {j \in Slot : IsFreeSlot(disk[o.cl][j])} = {}, NEW n, GetNext(o.cl, n),
             IF n = END THEN Goto("alloc", [o EXCEPT !.want = "ext"])
                        ELSE Goto("slot", [o EXCEPT !.cl = n, !.steps = @ + 1])
      PROVE  Kept'
  <2>1. n = fat[1][o.cl]
    BY <1>1, <1>5, Constants DEF GetNext, NextOf
  <2>2. Full(o.cl)
    BY <1>5 DEF Full, IsFreeSlot
  <2> QED BY <1>1, <1>5, <2>1, <2>2, SlotExtKept, SlotOnKept
<1>6. CASE SlotScan
  BY <1>1, <1>2, <1>3, <1>4, <1>5, <1>6, Zenon DEF SlotScan
<1>7. CASE SlotOver
  <2>1. o.cl \in Cluster /\ fat[1][o.cl] = END
    BY <1>1, <1>7 DEF SlotOver, Hurt, NextOf
  <2>2. o.steps >= DirScanMax
    <3>1. InChain(o.cl) /\ o.steps \in Nat
      BY <1>1, <2>1, VolumeAssumption DEF InChain, Cluster, END, Frames
    <3> QED BY <1>7, <3>1, VolumeAssumption DEF SlotOver
  <2>3. Goto("alloc", [o EXCEPT !.want = "ext"])
    BY <1>7 DEF SlotOver
  <2> QED BY <1>1, <2>1, <2>2, <2>3, SlotExtKept
<1> QED BY <1>6, <1>7

----------------------------------------------------------------------------
(* A cluster that holds no entry is overwritten: data, a directory's dots, zeroes. *)

LEMMA ClusterWritten ==
  ASSUME MediaOK, NEW c \in Cluster, Bare(c), NEW v \in [Slot -> Entry], \A i \in Slot : v[i].kind \notin Live,
         fat' = fat, disk' = [disk EXCEPT ![c] = v]
  PROVE  /\ FatLinks' = FatLinks /\ FreeOnes' = FreeOnes /\ HeadSlots' = HeadSlots /\ Orphans' = Orphans
         /\ \A d \in Cluster \ {c} : disk'[d] = disk[d]
         /\ disk'[c] = v
         /\ \A d \in Cluster : Bare(d)' <=> Bare(d)
         /\ FreeBare' <=> FreeBare
         /\ \A R : \A d \in Cluster \ {c} : Shaped(d, R)' <=> Shaped(d, R)
         /\ \A d \in Cluster \ {c} : Full(d)' <=> Full(d)
         /\ \A F, G, R : Apart(F, G, R) => Apart(F, G, R)'
<1>1. disk'[c] = v /\ \A d \in Cluster \ {c} : disk'[d] = disk[d]
  BY DEF MediaOK
<1>2. FatLinks' = FatLinks /\ FreeOnes' = FreeOnes /\ Allocated' = Allocated
  BY DEF FatLinks, FreeOnes, Allocated
<1>3. \A d \in Cluster, i \in Slot : disk[d][i].kind \in Live => d # c
  BY DEF Bare
<1>4. \A d \in Cluster, i \in Slot : disk'[d][i].kind \in Live => d # c
  BY <1>1
<1>5. LiveSlots' = LiveSlots /\ \A p \in LiveSlots : EntryAt(p)' = EntryAt(p)
  BY <1>1, <1>3, <1>4 DEF LiveSlots, EntryAt
<1>6. HeadSlots' = HeadSlots /\ \A p \in HeadSlots : EntryAt(p)' = EntryAt(p)
  BY <1>5 DEF HeadSlots
<1>7. Targets' = Targets
  BY <1>2, <1>6 DEF Targets
<1>8. Orphans' = Orphans
  BY <1>2, <1>7 DEF Orphans
<1>9. \A d \in Cluster : Bare(d)' <=> Bare(d)
  BY <1>1 DEF Bare
<1>10. FreeBare' <=> FreeBare
  BY <1>2, <1>9 DEF FreeBare, FreeOnes
<1>11. \A d \in Cluster \ {c} : (Full(d)' <=> Full(d)) /\ (Tidy(d)' <=> Tidy(d))
  BY <1>1 DEF Full, Tidy
<1>12. \A R : \A d \in Cluster \ {c} : Shaped(d, R)' <=> Shaped(d, R)
  BY <1>2, <1>11 DEF Shaped
<1>13. ASSUME NEW F, NEW G, NEW R, Apart(F, G, R) PROVE Apart(F, G, R)'
  <2>1. \A d \in F : Bare(d)'
    BY <1>9, <1>13 DEF Apart
  <2>2. \A d \in FatLinks' : fat'[1][d] = fat[1][d]
    OBVIOUS
  <2> QED BY <1>2, <1>6, <1>13, <2>1, <2>2 DEF Apart
<1> QED BY <1>1, <1>2, <1>6, <1>8, <1>9, <1>10, <1>11, <1>12, <1>13

LEMMA WritePayloadKept == ASSUME Steady, WritePayload PROVE Kept'
<1>1. /\ pc = "payload" /\ fat' = fat /\ disk' = [disk EXCEPT ![o.new] = Payload(o.buf)]
      /\ o'.kind = o.kind /\ o'.tdir = o.tdir /\ o'.first = o.first /\ o'.prev = o.prev
      /\ pc' = "data" /\ lost' = lost /\ MediaOK
  BY SteadyFacts DEF WritePayload, Goto, Frames
<1>2. Creating /\ ~Growing /\ Orphans \subseteq lost \cup {o.first}
  BY <1>1, BuildPoint DEF BuildSteps
<1>3. PICK F, G, R : Apart(F, G, R) /\ InOrder(G, R) /\ Knows(F, G, R)
  BY DEF Steady, Kept, Placed
<1>4. /\ TdirKnown(G, R) /\ ChainKnown(F) /\ HeadKnown(G, R) /\ FreeBare
      /\ o.kind # "mkdir" /\ o.new = o.prev /\ o.prev # 0
  BY <1>1, <1>2, <1>3 DEF Knows, Steady, Kept, NewKnown
<1>5. o.new \in F /\ o.new \in Cluster /\ Bare(o.new) /\ o.new \notin G /\ G \subseteq Cluster
  BY <1>3, <1>4 DEF ChainKnown, Apart
<1>6. Payload(o.buf) \in [Slot -> Entry] /\ \A i \in Slot : Payload(o.buf)[i].kind \notin Live
  BY EntryTypes, NoLive, SteadyFacts DEF Frames
<1>7. /\ FreeOnes' = FreeOnes /\ Orphans' = Orphans /\ (FreeBare' <=> FreeBare) /\ Apart(F, G, R)'
      /\ \A d \in Cluster \ {o.new} : Shaped(d, R)' <=> Shaped(d, R)
  BY <1>1, <1>3, <1>5, <1>6, ClusterWritten
<1>8. InOrder(G, R)'
  BY <1>2, <1>3, <1>5, <1>7 DEF InOrder
<1>9. TdirKnown(G, R)' /\ ChainKnown(F)' /\ HeadKnown(G, R)'
  BY <1>1, <1>4, <1>7 DEF TdirKnown, ChainKnown, HeadKnown, DirPlace
<1> QED BY <1>1, <1>2, <1>4, <1>7, <1>8, <1>9, GrowKept

LEMMA WriteDotsKept == ASSUME Steady, WriteDots PROVE Kept'
<1>1. /\ pc = "dots" /\ fat' = fat /\ disk' = [disk EXCEPT ![o.new] = Dots]
      /\ o'.kind = o.kind /\ o'.tdir = o.tdir /\ o'.first = o.first /\ o'.prev = o.prev
      /\ o'.cl = o.tdir /\ o'.steps = 0 /\ pc' = "slot" /\ lost' = lost /\ MediaOK
  BY SteadyFacts DEF WriteDots, Goto, Frames
<1>2. Creating /\ ~Growing /\ Orphans \subseteq lost \cup {o.first} /\ 0 \notin Cluster
  BY <1>1, BuildPoint, Constants DEF BuildSteps
<1>3. PICK F, G, R : Apart(F, G, R) /\ InOrder(G, R) /\ Knows(F, G, R)
  BY DEF Steady, Kept, Placed
<1>4. /\ TdirKnown(G, R) /\ FreeBare
      /\ o.kind = "mkdir" /\ o.first # 0 /\ o.new = o.first /\ o.new # o.tdir
      /\ Bare(o.new) /\ fat[1][o.new] = END
  BY <1>1, <1>2, <1>3 DEF Knows, Steady, Kept, NewKnown, DotsKnown
<1>5. Unclaimed(o.new) /\ o.new \notin FreeOnes /\ o.new \notin FatLinks
  BY <1>4, SteadyFacts, Constants DEF FirstInv, FatLinks
<1>6. PICK c, H, J, T : c = o.new /\ H = F \ {c} /\ J = G \cup {c} /\ T = [R EXCEPT ![c] = 0]
  OBVIOUS
<1>7. Apart(H, J, T)
  BY <1>3, <1>5, <1>6, JoinDir
<1>8. G \subseteq Cluster /\ c \in Cluster /\ T[c] = 0 /\ \A d \in Cluster \ {c} : T[d] = R[d]
  BY <1>3, <1>5, <1>6 DEF Apart, Unclaimed
<1>9. \A d \in J \ {c} : Shaped(d, T)
  <2>1. \A d \in G : Shaped(d, R)
    BY <1>2, <1>3 DEF InOrder
  <2> QED BY <1>6, <1>8, <2>1 DEF Shaped
<1>10. /\ FreeOnes' = FreeOnes /\ Orphans' = Orphans /\ (FreeBare' <=> FreeBare) /\ Apart(H, J, T)'
       /\ \A d \in Cluster \ {c} : Shaped(d, T)' <=> Shaped(d, T)
       /\ disk'[c] = Dots /\ FatLinks' = FatLinks
  BY <1>1, <1>4, <1>6, <1>7, <1>8, EntryTypes, NoLive, ClusterWritten
<1>11. Shaped(c, T)'
  <2>1. \A i \in Slot : Dots[i].kind = "unused" <=> ~(i <= 2)
    BY DEF Dots, Blank
  <2>2. Tidy(c)'
    BY <1>10, <2>1, VolumeAssumption DEF Tidy, Slot
  <2> QED BY <1>5, <1>6, <1>10, <2>2 DEF Shaped
<1>12. InOrder(J, T)'
  BY <1>6, <1>8, <1>9, <1>10, <1>11 DEF InOrder
<1>13. TdirKnown(J, T)'
  BY <1>1, <1>4, <1>6, <1>8, <1>10 DEF TdirKnown, DirPlace
<1>14. HeadKnown(J, T)'
  BY <1>1, <1>4, <1>5, <1>6, <1>8, <1>10 DEF HeadKnown, DirPlace
<1>15. ChainKnown(H)' /\ WalkKnown(J, T)'
  BY <1>1, <1>2, <1>4, <1>13 DEF ChainKnown, WalkKnown, TdirKnown
<1> QED BY <1>1, <1>2, <1>4, <1>10, <1>12, <1>13, <1>14, <1>15, GrowKept

LEMMA WriteZeroesKept == ASSUME Steady, WriteZeroes PROVE Kept'
<1>1. /\ pc = "zero" /\ fat' = fat /\ disk' = [disk EXCEPT ![o.new] = Zeroed]
      /\ o'.kind = o.kind /\ o'.tdir = o.tdir /\ o'.first = o.first /\ o'.prev = o.prev
      /\ o'.at = o.new /\ o'.index = 1 /\ pc' = "entry" /\ lost' = lost /\ MediaOK
  BY SteadyFacts DEF WriteZeroes, Goto, Frames
<1>2. Creating /\ Growing /\ Orphans \subseteq lost \cup {o.first}
  BY <1>1, BuildPoint DEF BuildSteps, Growing
<1>3. PICK F, G, R : Apart(F, G, R) /\ InOrder(G, R) /\ Knows(F, G, R)
  BY DEF Steady, Kept, Placed
<1>4. TdirKnown(G, R) /\ ChainKnown(F) /\ HeadKnown(G, R) /\ FreeBare /\ GrowKnown(G)
  BY <1>1, <1>2, <1>3 DEF Knows, Steady, Kept
<1>5. PICK c : c = o.new
  OBVIOUS
<1>6. /\ c \in G /\ Bare(c) /\ G \subseteq Cluster /\ c \notin FreeOnes /\ c \notin FatLinks
      /\ c # 0
  BY <1>3, <1>4, <1>5, Constants DEF GrowKnown, Apart, FreeOnes, FatLinks, FREE
<1>7. /\ FreeOnes' = FreeOnes /\ Orphans' = Orphans /\ (FreeBare' <=> FreeBare) /\ Apart(F, G, R)'
      /\ \A d \in Cluster \ {c} : Shaped(d, R)' <=> Shaped(d, R)
      /\ disk'[c] = Zeroed /\ FatLinks' = FatLinks
  <2>1. c \in Cluster /\ disk' = [disk EXCEPT ![c] = Zeroed] /\ MediaOK /\ fat' = fat
    BY <1>1, <1>5, <1>6
  <2>2. Zeroed \in [Slot -> Entry] /\ \A i \in Slot : Zeroed[i].kind \notin Live
    BY EntryTypes, NoLive
  <2> QED BY <1>3, <1>6, <2>1, <2>2, ClusterWritten
<1>8. \A i \in Slot : Zeroed[i].kind = "unused"
  BY DEF Zeroed, Blank
<1>9. Shaped(c, R)'
  BY <1>6, <1>7, <1>8 DEF Shaped, Tidy
<1>10. InOrder(G, R)'
  BY <1>3, <1>5, <1>6, <1>7, <1>9 DEF InOrder
<1>11. TdirKnown(G, R)' /\ ChainKnown(F)' /\ HeadKnown(G, R)'
  BY <1>1, <1>4, <1>7 DEF TdirKnown, ChainKnown, HeadKnown, DirPlace
<1>12. SlotKnown(G)'
  <2>1. \A i \in Slot : ~(i < 1)
    BY VolumeAssumption DEF Slot
  <2> QED BY <1>1, <1>5, <1>6, <1>7, <1>8, <2>1, Constants DEF SlotKnown, IsFreeSlot
<1> QED BY <1>1, <1>2, <1>4, <1>7, <1>10, <1>11, <1>12, GrowKept

----------------------------------------------------------------------------
(* One entry is written: fat32_dir_write_entry_at and the 0xE5 mark. *)

EntryWrite(c, i, e) == fat' = fat /\ disk' = [disk EXCEPT ![c][i] = e]

LEMMA EntryWritten ==
  ASSUME MediaOK, NEW c \in Cluster, NEW i \in Slot, NEW e, EntryWrite(c, i, e)
  PROVE  /\ disk'[c][i] = e
         /\ \A d \in Cluster, j \in Slot : d # c \/ j # i => disk'[d][j] = disk[d][j]
         /\ FatLinks' = FatLinks /\ FreeOnes' = FreeOnes /\ Allocated' = Allocated
         /\ \A p \in Cluster \X Slot : p # <<c, i>> => EntryAt(p)' = EntryAt(p)
         /\ EntryAt(<<c, i>>)' = e
<1>1. disk'[c][i] = e /\ \A d \in Cluster, j \in Slot : d # c \/ j # i => disk'[d][j] = disk[d][j]
  <2> DEFINE v == [disk[c] EXCEPT ![i] = e]
  <2>1. disk' = [disk EXCEPT ![c] = v] /\ disk \in [Cluster -> [Slot -> Entry]]
    BY DEF MediaOK, EntryWrite
  <2>2. \A j \in Slot : v[j] = IF j = i THEN e ELSE disk[c][j]
    BY <2>1
  <2> HIDE DEF v
  <2>3. \A d \in Cluster : disk'[d] = IF d = c THEN v ELSE disk[d]
    BY <2>1
  <2> QED BY <2>2, <2>3
<1>2. FatLinks' = FatLinks /\ FreeOnes' = FreeOnes /\ Allocated' = Allocated
  BY DEF FatLinks, FreeOnes, Allocated, EntryWrite
<1>3. ASSUME NEW p \in Cluster \X Slot, p # <<c, i>> PROVE EntryAt(p)' = EntryAt(p)
  <2>1. p[1] \in Cluster /\ p[2] \in Slot /\ ~(p[1] = c /\ p[2] = i)
    BY <1>3
  <2> QED BY <1>1, <2>1 DEF EntryAt
<1> QED BY <1>1, <1>2, <1>3 DEF EntryAt

LEMMA WriteEntryKept == ASSUME Steady, WriteEntry PROVE Kept'
<1>1. pc = "entry" /\ fat' = fat /\ ~IOError /\ mishap' = {} /\ MediaOK /\ o \in Frames
  BY SteadyFacts DEF WriteEntry
<1>2. Creating /\ ~Growing /\ Clean /\ Orphans \subseteq lost \cup {o.first} /\ 0 \notin Cluster
  BY <1>1, BuildPoint, Constants DEF BuildSteps
<1>3. PICK F, G, R : Apart(F, G, R) /\ InOrder(G, R) /\ Knows(F, G, R)
  BY DEF Steady, Kept, Placed
<1>4. ChainKnown(F) /\ HeadKnown(G, R) /\ SlotKnown(G) /\ FreeBare
  BY <1>1, <1>2, <1>3 DEF Knows, Steady, Kept
<1>5. o.at # BAD
  <2>1. ~Hurt({"stray"})
    BY <1>1 DEF Hurt
  <2> QED BY <2>1 DEF WriteEntry
<1>6. /\ disk' = [disk EXCEPT ![o.at][o.index] = NewEntry] /\ Return("ok")
  BY <1>1, <1>5 DEF WriteEntry
<1>7. PICK c \in Cluster, i \in Slot : c = o.at /\ i = o.index
  BY <1>1, <1>4, <1>5 DEF SlotKnown, Frames
<1>8. /\ c \in G \ FreeOnes /\ IsFreeSlot(disk[c][i]) /\ \A j \in Slot : j < i => ~IsFreeSlot(disk[c][j])
      /\ F \cap G = {} /\ F \subseteq Cluster /\ G \subseteq Cluster
  BY <1>3, <1>4, <1>7 DEF SlotKnown, Apart
<1>9. PICK e, q : e = NewEntry /\ q = <<c, i>>
  OBVIOUS
<1>10. /\ disk'[c][i] = e /\ \A d \in Cluster, j \in Slot : d # c \/ j # i => disk'[d][j] = disk[d][j]
       /\ FatLinks' = FatLinks /\ FreeOnes' = FreeOnes /\ Allocated' = Allocated
       /\ \A p \in Cluster \X Slot : p # q => EntryAt(p)' = EntryAt(p)
       /\ EntryAt(q)' = e
  <2>1. EntryWrite(c, i, e)
    BY <1>1, <1>6, <1>7, <1>9 DEF EntryWrite
  <2> QED BY <1>1, <1>9, <2>1, EntryWritten
<1>11. e.first = o.first /\ e.kind \in Live /\ (e.kind = "dir" <=> o.kind = "mkdir")
  BY <1>9 DEF NewEntry, Live
<1>12. q \in Cluster \X Slot /\ q \notin LiveSlots
  BY <1>8, <1>9 DEF LiveSlots, IsFreeSlot, Live
<1>13. LiveSlots' = LiveSlots \cup {q}
  <2>1. \A p \in Cluster \X Slot : p \in LiveSlots' <=> EntryAt(p)'.kind \in Live
    BY DEF LiveSlots, EntryAt
  <2>2. \A p \in Cluster \X Slot : p \in LiveSlots <=> EntryAt(p).kind \in Live
    BY DEF LiveSlots, EntryAt
  <2>3. LiveSlots \subseteq Cluster \X Slot /\ LiveSlots' \subseteq Cluster \X Slot
    BY DEF LiveSlots
  <2> QED BY <1>10, <1>11, <1>12, <2>1, <2>2, <2>3
<1>14. \A p \in LiveSlots : EntryAt(p)' = EntryAt(p)
  BY <1>10, <1>12 DEF LiveSlots
<1>15. HeadSlots' = HeadSlots \cup (IF o.first # 0 THEN {q} ELSE {})
  BY <1>10, <1>11, <1>12, <1>13, <1>14 DEF HeadSlots
<1>16. \A p \in HeadSlots : EntryAt(p)' = EntryAt(p)
  BY <1>14 DEF HeadSlots
<1>17. Orphans' \subseteq lost'
  <2>1. Targets \subseteq Targets' /\ (o.first # 0 => o.first \in Targets')
    BY <1>1, <1>10, <1>11, <1>15, <1>16 DEF Targets
  <2>2. Orphans' \subseteq Orphans \ {o.first}
    BY <1>2, <1>10, <2>1 DEF Orphans, Allocated
  <2>3. lost' = lost
    BY <1>6 DEF Return
  <2> QED BY <1>2, <2>2, <2>3
<1>18. \A d \in Cluster \ {c} : (Bare(d)' <=> Bare(d)) /\ (Full(d)' <=> Full(d)) /\ (Tidy(d)' <=> Tidy(d))
  BY <1>10 DEF Bare, Full, Tidy
<1>19. Apart(F, G, R)'
  <2>1. \A d \in F : Bare(d)'
    BY <1>3, <1>8, <1>18 DEF Apart
  <2>2. o.first # 0 /\ o.first \notin FreeOnes =>
          IF e.kind = "dir" THEN o.first \in G /\ R[o.first] = 0 ELSE o.first \in F
    BY <1>4, <1>11 DEF ChainKnown, HeadKnown, DirPlace
  <2>3. \A p \in HeadSlots' : EntryAt(p)'.first \notin FreeOnes' =>
          IF EntryAt(p)'.kind = "dir" THEN EntryAt(p)'.first \in G /\ R[EntryAt(p)'.first] = 0
          ELSE EntryAt(p)'.first \in F
    BY <1>3, <1>10, <1>11, <1>15, <1>16, <2>2 DEF Apart
  <2>4. \A d \in FatLinks' : /\ d \in F => fat'[1][d] \in F
                             /\ d \in G => fat'[1][d] \in G /\ R[fat'[1][d]] = R[d] + 1
    BY <1>1, <1>3, <1>10 DEF Apart
  <2> QED BY <1>3, <2>1, <2>3, <2>4 DEF Apart
<1>20. InOrder(G, R)'
  <2>1. Shaped(c, R)
    BY <1>2, <1>3, <1>8 DEF InOrder
  <2>2. Tidy(c)'
    <3>1. SUFFICES ASSUME NEW j \in Slot, NEW k \in Slot, j < k, disk'[c][j].kind = "unused"
                   PROVE  disk'[c][k].kind = "unused"
      BY DEF Tidy
    <3>2. j # i /\ disk[c][j].kind = "unused"
      BY <1>10, <1>11, <3>1 DEF Live
    <3>3. ~(j < i)
      BY <1>8, <3>2 DEF IsFreeSlot
    <3>4. k # i
      BY <3>1, <3>3
    <3> QED BY <1>10, <2>1, <3>1, <3>2, <3>4 DEF Shaped, Tidy
  <2>3. Full(c) => Full(c)'
    BY <1>10, <1>11 DEF Full, Live
  <2>4. \A d \in G : Shaped(d, R)'
    BY <1>2, <1>3, <1>8, <1>10, <1>18, <2>1, <2>2, <2>3 DEF InOrder, Shaped
  <2> QED BY <2>4 DEF InOrder
<1>21. FreeBare'
  BY <1>4, <1>8, <1>10, <1>18 DEF FreeBare, FreeOnes
<1> QED BY <1>6, <1>17, <1>19, <1>20, <1>21, EndKept DEF Return

LEMMA MarkDeletedKept == ASSUME Steady, MarkDeleted PROVE Kept'
<1>1. /\ pc = "mark" /\ fat' = fat /\ disk' = [disk EXCEPT ![o.at][o.index] = Blank("deleted")]
      /\ MediaOK /\ o \in Frames /\ pc' = "idle" /\ lost' = lost
  BY SteadyFacts DEF MarkDeleted, Return
<1>2. Removing /\ ~Growing /\ ~Unread /\ Orphans \subseteq lost
  BY <1>1, RemovePoint
<1>3. o.at \in Cluster /\ Victim.kind \in Live /\ Victim.first = o.victim
  BY <1>2, SteadyFacts DEF RemoveInv
<1>4. o.victim \in {0} \cup FreeOnes /\ FreeBare
  BY <1>1, <1>2 DEF Steady, Kept, Walks
<1>5. PICK F, G, R : Apart(F, G, R) /\ InOrder(G, R)
  BY DEF Steady, Kept, Placed
<1>6. PICK c \in Cluster, i \in Slot : c = o.at /\ i = o.index
  BY <1>1, <1>3 DEF Frames
<1>7. PICK e, q : e = Blank("deleted") /\ q = <<c, i>>
  OBVIOUS
<1>8. /\ disk'[c][i] = e /\ \A d \in Cluster, j \in Slot : d # c \/ j # i => disk'[d][j] = disk[d][j]
      /\ FatLinks' = FatLinks /\ FreeOnes' = FreeOnes /\ Allocated' = Allocated
      /\ \A p \in Cluster \X Slot : p # q => EntryAt(p)' = EntryAt(p)
      /\ EntryAt(q)' = e
  <2>1. EntryWrite(c, i, e)
    BY <1>1, <1>6, <1>7 DEF EntryWrite
  <2> QED BY <1>1, <1>7, <2>1, EntryWritten
<1>9. e.kind = "deleted" /\ EntryAt(q).kind \in Live /\ EntryAt(q).first = o.victim
      /\ disk[c][i].kind \in Live
  BY <1>3, <1>6, <1>7 DEF Blank, Victim, EntryAt
<1>10. \A p \in HeadSlots' : p \in HeadSlots /\ p # q /\ EntryAt(p)' = EntryAt(p)
  <2>1. \A p \in LiveSlots' : p # q /\ p \in Cluster \X Slot
    BY <1>8, <1>9 DEF LiveSlots, Live, EntryAt
  <2>2. \A p \in LiveSlots' : p \in LiveSlots /\ EntryAt(p)' = EntryAt(p)
    BY <1>8, <2>1 DEF LiveSlots, EntryAt
  <2> QED BY <2>1, <2>2 DEF HeadSlots
<1>11. \A p \in HeadSlots : p \in HeadSlots' \/ p = q
  <2>1. \A p \in LiveSlots : p \in Cluster \X Slot /\ (p # q => EntryAt(p)' = EntryAt(p))
    BY <1>8 DEF LiveSlots
  <2> QED BY <2>1 DEF HeadSlots, LiveSlots, EntryAt
<1>12. Orphans' \subseteq lost'
  <2>1. Targets \subseteq Targets' \cup {o.victim}
    <3>1. \A t \in Targets : t \in Targets' \/ t = o.victim
      BY <1>1, <1>8, <1>9, <1>10, <1>11 DEF Targets
    <3> QED BY <3>1
  <2>2. o.victim \notin Allocated
    BY <1>4, Constants DEF Allocated, FreeOnes
  <2>3. Orphans' \subseteq Orphans
    BY <1>8, <2>1, <2>2 DEF Orphans
  <2> QED BY <1>1, <1>2, <2>3
<1>13. /\ \A d \in Cluster : Bare(d) => Bare(d)'
       /\ \A d \in Cluster : (Full(d) => Full(d)') /\ (Tidy(d) => Tidy(d)')
  <2>1. \A d \in Cluster, j \in Slot : /\ disk'[d][j].kind = "unused" <=> disk[d][j].kind = "unused"
                                       /\ disk'[d][j].kind \in Live => disk[d][j].kind \in Live
    BY <1>8, <1>9 DEF Live
  <2> QED BY <2>1 DEF Bare, Full, Tidy
<1>14. Apart(F, G, R)'
  <2>1. \A d \in F : Bare(d)'
    BY <1>5, <1>13 DEF Apart
  <2> QED BY <1>1, <1>5, <1>8, <1>10, <2>1 DEF Apart
<1>15. InOrder(G, R)'
  <2>1. G \subseteq Cluster
    BY <1>5 DEF Apart
  <2> QED BY <1>2, <1>5, <1>8, <1>13, <2>1 DEF InOrder, Shaped
<1>16. FreeBare'
  BY <1>4, <1>8, <1>13 DEF FreeBare, FreeOnes
<1> QED BY <1>1, <1>12, <1>14, <1>15, <1>16, EndKept

----------------------------------------------------------------------------
(* Together. *)

LeakInv == ChainInv /\ (Whole => Kept)

LEMMA WholeBefore == ASSUME TypeOK, Next, Whole' PROVE Whole
<1>1. errs \in Nat
  BY VolumeAssumption DEF TypeOK, LedgerOK
<1>2. errs = 0
  BY <1>1, FaultsStay DEF Whole
<1> QED BY <1>2, MishapGrows DEF Whole

LEMMA InitLeak == Init => LeakInv
<1> SUFFICES ASSUME Init PROVE LeakInv
  OBVIOUS
<1>1. /\ FreeOnes = Cluster \ {Root} /\ FatLinks = {} /\ Orphans = {} /\ Root \in Cluster
  BY Constants DEF Init, FreeOnes, FatLinks, Orphans, Allocated, FREE, END
<1>2. \A c \in Cluster, i \in Slot : disk[c][i].kind = "unused"
  BY DEF Init, Zeroed, Blank
<1>3. HeadSlots = {}
  BY <1>2 DEF HeadSlots, LiveSlots, Live
<1>4. pc = "off"
  BY DEF Init
<1>5. ~Growing /\ ~Creating /\ ~Removing /\ ~Taking /\ ~Unread /\ ~GivenUp /\ \A k : ~FirstTo(k)
  BY <1>4 DEF Growing, Creating, Removing, Taking, Unread, GivenUp, FirstTo, Writing, Resume
<1>6. NewKnown /\ Walks
  BY <1>4, <1>5 DEF NewKnown, Walks, Writing
<1>7. FreeBare
  BY <1>1, <1>2 DEF FreeBare, Bare, Live
<1>8. PICK R : R = [c \in Cluster |-> 0]
  OBVIOUS
<1>9. Apart({}, {Root}, R)
  BY <1>1, <1>3, <1>8 DEF Apart
<1>10. InOrder({Root}, R)
  BY <1>1, <1>2 DEF InOrder, Shaped, Tidy
<1>11. Knows({}, {Root}, R)
  BY <1>4, <1>5 DEF Knows
<1> QED BY <1>1, <1>6, <1>7, <1>9, <1>10, <1>11, InitChains DEF LeakInv, Kept, Placed

LEMMA NextLeak == ASSUME LeakInv, [Next]_vars PROVE LeakInv'
<1>1. ChainInv' /\ TypeOK
  BY NextChains DEF LeakInv, ChainInv, TypeInv
<1>2. ASSUME Whole' PROVE Kept'
  <2>1. CASE UNCHANGED vars
    BY <1>2, <2>1, StutterKept DEF LeakInv, Whole, vars
  <2>2. CASE Next
    <3>1. Steady
      BY <1>1, <1>2, <2>2, WholeBefore DEF Steady, LeakInv
    <3>2. CASE Step
      <4>1. CASE FindScan \/ FindOver \/ DataDone \/ WriteMore \/ CopyMore \/ WritePayload \/ WriteDots
        BY <3>1, <4>1, FindKept, DataDoneKept, WriteMoreKept, CopyMoreKept, WritePayloadKept, WriteDotsKept
      <4>2. CASE SetFatCopy \/ SetFatStray \/ Alloc \/ Alloced \/ Linked
        BY <3>1, <4>2, SetFatCopyKept, SetFatStrayKept, AllocKept, AllocedKept, LinkedKept
      <4>3. CASE SlotScan \/ SlotOver \/ WriteZeroes \/ WriteEntry
        BY <3>1, <4>3, SlotKept, WriteZeroesKept, WriteEntryKept
      <4>4. CASE EmptyScan \/ EmptyOver \/ FreeStep \/ FreeStray \/ FreeOver \/ Freed \/ MarkDeleted
        BY <3>1, <4>4, EmptyKept, FreeStepKept, FreeEndKept, FreedKept, MarkDeletedKept
      <4> QED BY <3>2, <4>1, <4>2, <4>3, <4>4 DEF Step
    <3> QED BY <2>2, <3>1, <3>2, CallsKept, CrashKept, MountKept DEF Next
  <2> QED BY <2>1, <2>2
<1> QED BY <1>1, <1>2 DEF LeakInv

\* While no sector access fails and no cut has done harm: whenever fat32_write_file_new_in_dir,
\* fat32_copy_file_in_dir, fat32_mkdir_in_dir or a removal has returned, every allocated cluster
\* is led to or was lost by an operation that failed or was cut short (LeakOnlyOnFailure).
THEOREM LeaksOnlyOnFailure == Spec => []LeakOnlyOnFailure
<1>1. Spec => []LeakInv
  BY InitLeak, NextLeak, PTL DEF Spec
<1>2. ASSUME LeakInv PROVE LeakOnlyOnFailure
  <2>1. ASSUME pc = "idle", errs = 0, mishap = {} PROVE Orphans \subseteq lost
    <3>1. Held = {}
      BY <2>1 DEF Held, Creating, Taking, FirstTo, Unread, GivenUp, Writing, Resume
    <3> QED BY <1>2, <2>1, <3>1 DEF LeakInv, Whole, Kept
  <2> QED BY <2>1 DEF LeakOnlyOnFailure
<1> QED BY <1>1, <1>2, PTL

----------------------------------------------------------------------------
(* The tree.  What a chain holds is settled by sets and numbers that no variable of the  *)
(* driver keeps: the clusters F of files, each L[c] clusters from the end of its chain,  *)
(* those of directories, G, and those of the file or directory in the making, P.         *)

\* What is behind a cluster of a file: the rest of the file, and then the end.
Follows(c, S, L) ==
  /\ L[c] > 0
  /\ IF L[c] = 1 THEN fat[1][c] = END ELSE fat[1][c] \in S /\ L[fat[1][c]] = L[c] - 1

FilesOf(F, L) == \A c \in F : disk[c][1].kind = "bytes" /\ Follows(c, F, L)

\* The cluster a directory has grown by may hold old data until it is zeroed.
DirsOf(G) ==
  /\ Root \in G
  /\ \A c \in G : /\ fat[1][c] # FREE /\ (fat[1][c] \in Cluster => fat[1][c] \in G)
                  /\ HoldsData(c) => LinkWindow /\ c = o.new

Leads(e, F, G, L) ==
  IF e.kind = "dir" THEN e.first # 0 => e.first \in G
  ELSE IF e.len = 0 THEN e.first = 0 ELSE e.first \in F /\ L[e.first] = e.len

\* The entry whose chain a removal is freeing.
Leaving(p) ==
  /\ FreeWindow /\ p = <<o.at, o.index>>
  /\ EntryAt(p).kind = "dir" => EntryAt(p).first \in FreeOnes /\ ~HoldsData(EntryAt(p).first)

EntriesOf(F, G, L) == \A p \in LiveSlots : Leads(EntryAt(p), F, G, L) \/ Leaving(p)

\* The call in progress searches, grows and writes directories only.
Obtaining == pc \in {"alloc", "alloced"} \/ Writing({"alloced"})
Extending == Obtaining /\ o.want = "ext"
Linking   == Writing({"extlinked"}) /\ wr.i = 1
Grown     == pc \in {"extlinked", "zero"} \/ Writing({"zero"}) \/ (Writing({"extlinked"}) /\ wr.i > 1)

OnDirs(G) ==
  /\ pc = "find" \/ Creating => (o.tdir \in Cluster => o.tdir \in G)
  /\ pc \in {"find", "slot"} \/ Extending => (o.cl \in Cluster => o.cl \in G)
  /\ pc = "entry" => (o.at \in Cluster => o.at \in G)
  /\ Linking => (wr.cl \in Cluster => wr.cl \in G)
  /\ Grown => o.new \in G

\* The cluster just taken belongs to nothing yet.
Fetched == pc = "alloced" \/ (Writing({"alloced"}) /\ wr.i > 1) \/ Linking
Separate(F, G, P) ==
  /\ P \cap (F \cup G) = {} /\ F \cap G = {}
  /\ \A c \in P : fat[1][c] # FREE
  /\ Fetched \/ Writing({"alloced"}) => o.new \notin F \cup G \cup P
  /\ Fetched => fat[1][o.new] = END

\* What is in the making: a directory's one cluster, or a file's clusters so far.
ForData == pc \in {"linked", "payload"} \/ Writing({"linked", "payload"})
Ties    == Writing({"linked"}) /\ wr.i = 1

Wanted ==
  /\ pc = "find" => o.left = o.len
  /\ pc = "dots" => o.kind = "mkdir" /\ o.new = o.first /\ o.first # 0
  /\ pc = "data" \/ ForData => o.kind # "mkdir"
  /\ Obtaining /\ o.want = "dir" => o.kind = "mkdir" /\ o.first = 0
  /\ Obtaining /\ o.want = "data" => o.kind # "mkdir"
  /\ pc \in {"slot", "entry", "zero", "extlinked"} \/ Extending \/ Writing({"zero", "extlinked"}) =>
       o.left = 0 \/ o.kind = "mkdir"

NewDir(P) ==
  Creating /\ o.kind = "mkdir" /\ o.first # 0 =>
    o.first \in P /\ fat[1][o.first] = END /\ (pc # "dots" => ~HoldsData(o.first))

\* A cluster of the file that is not the last, and where it leads.
Behind(c, P, L) ==
  L[c] > 1 /\ IF Ties /\ c = wr.cl THEN L[o.prev] = L[c] - 1
              ELSE fat[1][c] \in P /\ L[fat[1][c]] = L[c] - 1

NewFile(P, L) ==
  Creating /\ o.kind # "mkdir" =>
    /\ o.first = 0 => o.left = o.len /\ ~ForData
    /\ o.first # 0 =>
         /\ o.first \in P /\ L[o.first] = o.len
         /\ o.prev \in P /\ fat[1][o.prev] = END
         /\ L[o.prev] > 0 /\ L[o.prev] = IF ForData THEN o.left ELSE o.left + 1
         /\ ForData => o.prev = o.new
         /\ Ties => wr.cl \in P \ {o.prev}
         /\ \A c \in P \ {o.prev} : disk[c][1].kind = "bytes" /\ Behind(c, P, L)
         /\ ~ForData => disk[o.prev][1].kind = "bytes"

InMaking(P, L) == Wanted /\ NewDir(P) /\ NewFile(P, L)

TreeOf(F, G, P, L) ==
  /\ FilesOf(F, L) /\ DirsOf(G) /\ EntriesOf(F, G, L)
  /\ OnDirs(G) /\ Separate(F, G, P) /\ InMaking(P, L)

Tree == \E F, G, P \in SUBSET Cluster, L \in [Cluster -> Nat] : TreeOf(F, G, P, L)

TreeInv == ChainInv /\ (mishap = {} => Tree)

----------------------------------------------------------------------------
(* What a step leaves as it is. *)

LEMMA FilesStill ==
  ASSUME NEW F, NEW L, NEW M, FilesOf(F, L),
         \A c \in F : fat'[1][c] = fat[1][c] /\ disk'[c][1] = disk[c][1] /\ M[c] = L[c]
  PROVE  FilesOf(F, M)'
BY DEF FilesOf, Follows

LEMMA TreeDirsStill ==
  ASSUME NEW G, DirsOf(G), LinkWindow => LinkWindow' /\ o'.new = o.new,
         \A c \in G : fat'[1][c] = fat[1][c],
         \A c \in G, i \in Slot : disk'[c][i].kind = "bytes" => disk[c][i].kind = "bytes"
  PROVE  DirsOf(G)'
BY DEF DirsOf, HoldsData

LEMMA EntriesStill ==
  ASSUME NEW F, NEW G, NEW L, NEW H, NEW K, NEW M, EntriesOf(F, G, L), ~FreeWindow,
         F \subseteq H, G \subseteq K, \A c \in F : M[c] = L[c],
         \A p \in LiveSlots' : p \in LiveSlots /\ EntryAt(p)' = EntryAt(p)
  PROVE  EntriesOf(H, K, M)'
<1> SUFFICES ASSUME NEW p \in LiveSlots' PROVE Leads(EntryAt(p), H, K, M)'
  BY DEF EntriesOf
<1>1. Leads(EntryAt(p), F, G, L)
  BY DEF EntriesOf, Leaving
<1> QED BY <1>1 DEF Leads

LEMMA TreeStill ==
  ASSUME NEW F, NEW G, NEW L, FilesOf(F, L), DirsOf(G), EntriesOf(F, G, L),
         fat'[1] = fat[1], disk' = disk,
         LinkWindow => LinkWindow' /\ o'.new = o.new,
         FreeWindow => FreeWindow' /\ o'.at = o.at /\ o'.index = o.index
  PROVE  FilesOf(F, L)' /\ DirsOf(G)' /\ EntriesOf(F, G, L)'
<1>1. FilesOf(F, L)'
  BY FilesStill
<1>3. DirsOf(G)'
  BY TreeDirsStill
<1>4. LiveSlots' = LiveSlots /\ FreeOnes' = FreeOnes /\ \A p : EntryAt(p)' = EntryAt(p)
  BY DEF LiveSlots, FreeOnes, EntryAt
<1>5. EntriesOf(F, G, L)'
  <2> SUFFICES ASSUME NEW p \in LiveSlots
               PROVE  Leads(EntryAt(p), F, G, L)' \/ Leaving(p)'
    BY <1>4 DEF EntriesOf
  <2>1. CASE Leads(EntryAt(p), F, G, L)
    BY <1>4, <2>1 DEF Leads
  <2>2. CASE Leaving(p)
    BY <1>4, <2>2 DEF Leaving, HoldsData
  <2> QED BY <2>1, <2>2 DEF EntriesOf
<1> QED BY <1>1, <1>3, <1>5

\* An operation is over, or looks up a name: nothing is in the making.
LEMMA RestTree ==
  ASSUME NEW F \in SUBSET Cluster, NEW G \in SUBSET Cluster, NEW L \in [Cluster -> Nat],
         (FilesOf(F, L) /\ DirsOf(G) /\ EntriesOf(F, G, L))', F \cap G = {},
         pc' \in {"idle", "off", "find"},
         pc' = "find" => /\ o'.left = o'.len
                         /\ o'.tdir \in Cluster => o'.tdir \in G
                         /\ o'.cl \in Cluster => o'.cl \in G
  PROVE  Tree'
<1>1. ~Creating' /\ ~Removing' /\ \A K : ~Writing(K)'
  BY DEF Creating, Removing, Writing, Resume
<1>2. OnDirs(G)'
  BY <1>1 DEF OnDirs, Obtaining, Extending, Linking, Grown
<1>3. Separate(F, G, {})'
  BY <1>1 DEF Separate, Fetched, Linking
<1>4. InMaking({}, L)'
  BY <1>1 DEF InMaking, Wanted, NewDir, NewFile, Obtaining, Extending, ForData
<1>5. TreeOf(F, G, {}, L)'
  BY <1>2, <1>3, <1>4 DEF TreeOf
<1> QED BY <1>5 DEF Tree

\* What a step starts from.
TreeAt(F, G, P, L) ==
  /\ F \in SUBSET Cluster /\ G \in SUBSET Cluster /\ P \in SUBSET Cluster /\ L \in [Cluster -> Nat]
  /\ ChainInv /\ mishap = {} /\ TreeOf(F, G, P, L)

LEMMA TreeAtIs ==
  ASSUME NEW F, NEW G, NEW P, NEW L, TreeAt(F, G, P, L)
  PROVE  /\ F \in SUBSET Cluster /\ G \in SUBSET Cluster /\ P \in SUBSET Cluster /\ L \in [Cluster -> Nat]
         /\ TypeInv /\ MediaOK /\ o \in Frames /\ wr \in Writes /\ Course /\ Control
         /\ ChainInv /\ Sound /\ Chains /\ mishap = {}
         /\ FilesOf(F, L) /\ DirsOf(G) /\ EntriesOf(F, G, L)
         /\ OnDirs(G) /\ Separate(F, G, P) 
         /\ Wanted /\ NewDir(P) /\ NewFile(P, L)
         /\ ~Removing => ~FreeWindow
BY CreatingWindow DEF TreeAt, TreeOf, ChainInv, TypeInv, TypeOK, DriverOK, Sound, InMaking

\* The operation is over, and nothing was written.
LEMMA OverTree ==
  ASSUME NEW F, NEW G, NEW P, NEW L, TreeAt(F, G, P, L), fat'[1] = fat[1], disk' = disk,
         ~FreeWindow, ~LinkWindow, pc' \in {"idle", "off"}
  PROVE  Tree'
<1>1. FilesOf(F, L)' /\ DirsOf(G)' /\ EntriesOf(F, G, L)' /\ F \cap G = {}
  BY TreeAtIs, TreeStill DEF Separate
<1> QED BY <1>1, RestTree, TreeAtIs

LEMMA AbortTree ==
  ASSUME NEW F, NEW G, NEW P, NEW L, TreeAt(F, G, P, L), fat'[1] = fat[1], disk' = disk,
         NEW r, Abort(r), mishap' = {}
  PROVE  Tree'
<1>1. ~FreeWindow /\ ~LinkWindow /\ pc' = "idle"
  BY DEF Abort, Harm, Return
<1> QED BY <1>1, OverTree

\* While something is built the step moves on, and nothing was written.
LEMMA OnTree ==
  ASSUME NEW F, NEW G, NEW P, NEW L, TreeAt(F, G, P, L), fat'[1] = fat[1], disk' = disk,
         ~Removing, LinkWindow => LinkWindow' /\ o'.new = o.new,
         OnDirs(G)', Separate(F, G, P)', Wanted', NewDir(P)', NewFile(P, L)'
  PROVE  Tree'
<1>1. FilesOf(F, L)' /\ DirsOf(G)' /\ EntriesOf(F, G, L)'
  BY TreeAtIs, TreeStill
<1>2. TreeOf(F, G, P, L)'
  BY <1>1 DEF TreeOf, InMaking
<1> QED BY <1>2, TreeAtIs DEF Tree

\* Outside a removal every directory is one of G.
LEMMA LiveDirsIn ==
  ASSUME NEW F, NEW G, NEW P, NEW L, TreeAt(F, G, P, L), ~FreeWindow, NEW d \in LiveDirs, d \in Cluster
  PROVE  d \in G
<1>1. Root \in G /\ EntriesOf(F, G, L)
  BY TreeAtIs DEF DirsOf
<1>2. CASE d # Root
  <2>1. PICK p \in LiveSlots : EntryAt(p).kind = "dir" /\ EntryAt(p).first = d
    BY <1>2 DEF LiveDirs
  <2>2. Leads(EntryAt(p), F, G, L)
    BY <1>1 DEF EntriesOf, Leaving
  <2> QED BY <2>1, <2>2, Constants DEF Leads
<1> QED BY <1>1, <1>2

\* A call.
LEMMA BeginTree ==
  ASSUME NEW F, NEW G, NEW P, NEW L, TreeAt(F, G, P, L), NEW f, Begin(f),
         f.cl \in LiveDirs, f.tdir \in LiveDirs, f.left = f.len
  PROVE  Tree'
<1>1. pc = "idle" /\ pc' = "find" /\ o' = f /\ fat'[1] = fat[1] /\ disk' = disk
  BY DEF Begin, Still
<1>2. ~FreeWindow /\ ~LinkWindow
  BY <1>1 DEF FreeWindow, LinkWindow
<1>3. FilesOf(F, L)' /\ DirsOf(G)' /\ EntriesOf(F, G, L)' /\ F \cap G = {}
  BY <1>1, <1>2, TreeAtIs, TreeStill DEF Separate
<1>4. (f.cl \in Cluster => f.cl \in G) /\ (f.tdir \in Cluster => f.tdir \in G)
  BY <1>2, LiveDirsIn
<1> QED BY <1>1, <1>3, <1>4, RestTree, TreeAtIs

LEMMA CallTree == ASSUME NEW F, NEW G, NEW P, NEW L, TreeAt(F, G, P, L), Call PROVE Tree'
<1>1. ASSUME NEW k, NEW d, NEW n
      PROVE  LET f == Frame(k, d, n) IN f.cl = d /\ f.tdir = d /\ f.left = 0 /\ f.len = 0
  BY DEF Frame, NoFrame
<1>2. ASSUME NEW d \in LiveDirs, NEW n \in Names, Mkdir(d, n) \/ Unlink(d, n) \/ Rmdir(d, n)
      PROVE  Tree'
  BY <1>1, <1>2, BeginTree DEF Mkdir, Unlink, Rmdir
<1>3. ASSUME NEW d \in LiveDirs, NEW n \in Names, NEW len \in 0 .. MaxLen, NEW x \in Data,
             WriteFile(d, n, len, x)
      PROVE  Tree'
  <2> DEFINE f == [Frame("write", d, n) EXCEPT !.len = len, !.left = len, !.buf = x]
  <2>1. f.cl = d /\ f.tdir = d /\ f.left = len /\ f.len = len
    BY DEF Frame, NoFrame
  <2>2. Begin(f)
    BY <1>3 DEF WriteFile
  <2> HIDE DEF f
  <2> QED BY <2>1, <2>2, BeginTree
<1>4. ASSUME NEW d \in LiveDirs, NEW n \in Names, NEW td \in LiveDirs, NEW tn \in Names,
             CopyFile(d, n, td, tn)
      PROVE  Tree'
  <2> DEFINE f == [Frame("copy", d, n) EXCEPT !.tdir = td, !.tname = tn]
  <2>1. f.cl = d /\ f.tdir = td /\ f.left = 0 /\ f.len = 0
    BY DEF Frame, NoFrame
  <2>2. Begin(f)
    BY <1>4 DEF CopyFile
  <2> HIDE DEF f
  <2> QED BY <2>1, <2>2, BeginTree
<1> QED BY <1>2, <1>3, <1>4 DEF Call

\* The name is looked up.
LEMMA NotFoundTree ==
  ASSUME NEW F, NEW G, NEW P, NEW L, TreeAt(F, G, P, L), pc = "find", Still, NotFound
  PROVE  Tree'
<1>1. /\ fat'[1] = fat[1] /\ disk' = disk /\ ~Removing /\ ~Creating /\ ~LinkWindow /\ o \in Frames
      /\ o.first = 0 /\ o.left = o.len /\ (o.tdir \in Cluster => o.tdir \in G)
      /\ P \cap (F \cup G) = {} /\ F \cap G = {} /\ \A c \in P : fat[1][c] # FREE
  BY TreeAtIs DEF Still, Removing, Writing, Creating, Resume, LinkWindow, Course, Wanted, OnDirs, Separate
<1>2. CASE Return("absent")
  <2>1. pc' = "idle"
    BY <1>2 DEF Return
  <2> QED BY <1>1, <2>1, OverTree, TreeAtIs
<1>3. CASE o.kind = "mkdir" /\ Goto("alloc", [o EXCEPT !.want = "dir"])
  <2>1. /\ pc' = "alloc" /\ o'.kind = "mkdir" /\ o'.want = "dir" /\ o'.first = 0 /\ o'.tdir = o.tdir
    BY <1>1, <1>3 DEF Goto, Frames
  <2>2. OnDirs(G)'
    BY <1>1, <2>1 DEF OnDirs, Obtaining, Extending, Linking, Grown, Removing, Writing
  <2>3. Separate(F, G, P)'
    BY <1>1, <2>1 DEF Separate, Fetched, Linking, Writing
  <2>4. Wanted' /\ NewDir(P)' /\ NewFile(P, L)'
    BY <2>1 DEF Wanted, NewDir, NewFile, Obtaining, Extending, ForData, Writing
  <2> QED BY <1>1, <2>2, <2>3, <2>4, OnTree
<1>4. CASE o.kind = "write" /\ Goto("data", o)
  <2>1. pc' = "data" /\ o' = o
    BY <1>4 DEF Goto
  <2>2. OnDirs(G)'
    BY <1>1, <2>1 DEF OnDirs, Obtaining, Extending, Linking, Grown, Removing, Writing
  <2>3. Separate(F, G, P)'
    BY <1>1, <2>1 DEF Separate, Fetched, Linking, Writing
  <2>4. Wanted' /\ NewDir(P)' /\ NewFile(P, L)'
    BY <1>1, <1>4, <2>1 DEF Wanted, NewDir, NewFile, Obtaining, Extending, ForData, Writing
  <2> QED BY <1>1, <2>2, <2>3, <2>4, OnTree
<1> QED BY <1>2, <1>3, <1>4 DEF NotFound

LEMMA FoundTree ==
  ASSUME NEW F, NEW G, NEW P, NEW L, TreeAt(F, G, P, L), TypeInv', pc = "find", Still,
         NEW i \in Slot, o.cl \in Cluster, Found(o.cl, i)
  PROVE  Tree'
<1> DEFINE e == disk[o.cl][i]
           f == [o EXCEPT !.at = o.cl, !.index = i, !.victim = e.first, !.cl = e.first, !.steps = 0]
           g == [o EXCEPT !.src = e.first, !.len = e.len, !.left = e.len]
<1>1. /\ fat'[1] = fat[1] /\ disk' = disk /\ ~Removing /\ ~Creating /\ ~LinkWindow /\ o \in Frames
      /\ o.first = 0 /\ (o.tdir \in Cluster => o.tdir \in G) /\ o.cl \in G
      /\ P \cap (F \cup G) = {} /\ F \cap G = {} /\ \A c \in P : fat[1][c] # FREE
  BY TreeAtIs DEF Still, Removing, Writing, Creating, Resume, LinkWindow, Course, OnDirs, Separate
<1>2. \/ \E r : Return(r)
      \/ \E p \in {"empty", "free", "mark"} : Goto(p, f)
      \/ Goto("data", g) /\ o.kind # "mkdir"
  BY DEF Found
<1>3. f.at = o.cl /\ g.kind = o.kind /\ g.first = o.first /\ g.len = g.left /\ g.tdir = o.tdir
  BY <1>1 DEF Frames
<1> HIDE DEF e, f, g
<1>4. CASE \E r : Return(r)
  <2>1. pc' = "idle"
    BY <1>4 DEF Return
  <2> QED BY <1>1, <2>1, OverTree, TreeAtIs
<1>5. ASSUME NEW p \in {"empty", "free", "mark"}, Goto(p, f) PROVE Tree'
  <2>1. pc' = p /\ o'.at = o.cl /\ ~Creating' /\ \A K : ~Writing(K)'
    BY <1>3, <1>5 DEF Goto, Writing, Creating, Resume
  <2>2. OnDirs(G)'
    BY <1>1, <2>1 DEF OnDirs, Obtaining, Extending, Linking, Grown
  <2>3. Separate(F, G, P)'
    BY <1>1, <2>1 DEF Separate, Fetched, Linking
  <2>4. Wanted' /\ NewDir(P)' /\ NewFile(P, L)'
    BY <2>1 DEF Wanted, NewDir, NewFile, Obtaining, Extending, ForData
  <2> QED BY <1>1, <2>2, <2>3, <2>4, OnTree
<1>6. CASE Goto("data", g) /\ o.kind # "mkdir"
  <2>1. pc' = "data" /\ o' = g /\ ~Removing' /\ \A K : ~Writing(K)'
    BY <1>6 DEF Goto, Writing, Removing
  <2>2. OnDirs(G)'
    BY <1>1, <1>3, <2>1 DEF OnDirs, Obtaining, Extending, Linking, Grown
  <2>3. Separate(F, G, P)'
    BY <1>1, <2>1 DEF Separate, Fetched, Linking
  <2>4. Wanted' /\ NewDir(P)' /\ NewFile(P, L)'
    BY <1>1, <1>3, <1>6, <2>1 DEF Wanted, NewDir, NewFile, Obtaining, Extending, ForData
  <2> QED BY <1>1, <2>2, <2>3, <2>4, OnTree
<1> QED BY <1>2, <1>4, <1>5, <1>6

LEMMA FindTree ==
  ASSUME NEW F, NEW G, NEW P, NEW L, TreeAt(F, G, P, L), TypeInv', FindScan \/ FindOver
  PROVE  Tree'
<1>1. pc = "find" /\ Still
  BY DEF FindScan, FindOver
<1>2. CASE NotFound
  BY <1>1, <1>2, NotFoundTree
<1>3. ASSUME NEW i \in Slot, o.cl \in Cluster, Found(o.cl, i) PROVE Tree'
  BY <1>1, <1>3, FoundTree
<1>4. ASSUME NEW n \in Number, o.cl \in Cluster, GetNext(o.cl, n),
             Goto("find", [o EXCEPT !.cl = n, !.steps = @ + 1])
      PROVE  Tree'
  <2>1. /\ fat'[1] = fat[1] /\ disk' = disk /\ ~FreeWindow /\ ~LinkWindow /\ o \in Frames
        /\ o.cl \in G /\ (o.tdir \in Cluster => o.tdir \in G) /\ o.left = o.len
    BY <1>1, <1>4, TreeAtIs DEF Still, FreeWindow, LinkWindow, OnDirs, Wanted
  <2>2. pc' = "find" /\ o'.cl = n /\ o'.tdir = o.tdir /\ o'.left = o.left /\ o'.len = o.len
    BY <1>4, <2>1 DEF Goto, Frames
  <2>3. n \in Cluster => n \in G
    BY <1>4, <2>1, TreeAtIs, Constants DEF GetNext, NextOf, DirsOf
  <2>4. FilesOf(F, L)' /\ DirsOf(G)' /\ EntriesOf(F, G, L)' /\ F \cap G = {}
    BY <2>1, TreeAtIs, TreeStill DEF Separate
  <2> QED BY <2>1, <2>2, <2>3, <2>4, RestTree, TreeAtIs
<1> QED BY <1>2, <1>3, <1>4 DEF FindScan, FindOver

\* From one part of a call to the next: what is in the making stays as it is.
LEMMA GoTree ==
  ASSUME NEW F, NEW G, NEW P, NEW L, TreeAt(F, G, P, L), fat'[1] = fat[1], disk' = disk,
         pc \in {"data", "alloc", "slot"},
         NEW p \in {"data", "alloc", "slot", "entry"}, NEW f, Goto(p, f),
         f.kind = o.kind, f.first = o.first, f.prev = o.prev, f.len = o.len, f.left = o.left,
         f.tdir = o.tdir,
         p = "slot" \/ (p = "alloc" /\ f.want = "ext") =>
           (f.cl \in Cluster => f.cl \in G) /\ (f.left = 0 \/ f.kind = "mkdir"),
         p = "entry" => (f.at \in Cluster => f.at \in G) /\ (f.left = 0 \/ f.kind = "mkdir"),
         p = "alloc" => f.want \in {"data", "ext"} /\ (f.want = "data" => f.kind # "mkdir"),
         p = "data" => f.kind # "mkdir"
  PROVE  Tree'
<1>1. /\ ~Removing /\ Creating /\ ~LinkWindow /\ \A K : ~Writing(K)
      /\ (o.tdir \in Cluster => o.tdir \in G)
      /\ P \cap (F \cup G) = {} /\ F \cap G = {} /\ \A c \in P : fat[1][c] # FREE
  BY TreeAtIs DEF Removing, Writing, Creating, LinkWindow, OnDirs, Separate
<1>2. pc' = p /\ o' = f /\ ~Removing' /\ Creating' /\ \A K : ~Writing(K)'
  BY DEF Goto, Writing, Removing, Creating
<1>3. OnDirs(G)'
  BY <1>1, <1>2 DEF OnDirs, Obtaining, Extending, Linking, Grown
<1>4. Separate(F, G, P)'
  BY <1>1, <1>2 DEF Separate, Fetched, Linking
<1>5. Wanted'
  BY <1>1, <1>2 DEF Wanted, Obtaining, Extending, ForData
<1>6. NewDir(P)'
  BY <1>1, <1>2, TreeAtIs DEF NewDir, HoldsData
<1>7. NewFile(P, L)'
  BY <1>1, <1>2, TreeAtIs DEF NewFile, ForData, Ties, Behind
<1> QED BY <1>1, <1>3, <1>4, <1>5, <1>6, <1>7, OnTree

LEMMA DataDoneTree ==
  ASSUME NEW F, NEW G, NEW P, NEW L, TreeAt(F, G, P, L), DataDone PROVE Tree'
<1> DEFINE f == [o EXCEPT !.cl = o.tdir, !.steps = 0]
<1>1. /\ pc = "data" /\ o.left = 0 /\ fat'[1] = fat[1] /\ disk' = disk /\ o \in Frames /\ Goto("slot", f)
      /\ o.kind # "mkdir" /\ (o.tdir \in Cluster => o.tdir \in G)
  BY TreeAtIs DEF DataDone, Still, Wanted, OnDirs, Creating
<1>2. /\ f.kind = o.kind /\ f.first = o.first /\ f.prev = o.prev /\ f.len = o.len /\ f.left = o.left
      /\ f.tdir = o.tdir /\ f.cl = o.tdir
  BY <1>1 DEF Frames
<1> HIDE DEF f
<1> QED BY <1>1, <1>2, GoTree

LEMMA WriteMoreTree ==
  ASSUME NEW F, NEW G, NEW P, NEW L, TreeAt(F, G, P, L), WriteMore PROVE Tree'
<1> DEFINE f == [o EXCEPT !.want = "data"]
<1>1. /\ pc = "data" /\ fat'[1] = fat[1] /\ disk' = disk /\ o \in Frames /\ Goto("alloc", f)
      /\ o.kind # "mkdir"
  BY TreeAtIs DEF WriteMore, Still, Wanted
<1>2. /\ f.kind = o.kind /\ f.first = o.first /\ f.prev = o.prev /\ f.len = o.len /\ f.left = o.left
      /\ f.tdir = o.tdir /\ f.want = "data"
  BY <1>1 DEF Frames
<1> HIDE DEF f
<1> QED BY <1>1, <1>2, GoTree

LEMMA CopyMoreTree ==
  ASSUME NEW F, NEW G, NEW P, NEW L, TreeAt(F, G, P, L), CopyMore, mishap' = {} PROVE Tree'
<1>1. /\ pc = "data" /\ fat'[1] = fat[1] /\ disk' = disk /\ o \in Frames /\ o.kind # "mkdir"
      /\ ~FreeWindow /\ ~LinkWindow
  BY TreeAtIs DEF CopyMore, Still, Wanted, FreeWindow, LinkWindow
<1>2. CASE Return("short")
  <2>1. pc' = "idle"
    BY <1>2 DEF Return
  <2> QED BY <1>1, <2>1, OverTree
<1>3. CASE Abort("io")
  BY <1>1, <1>3, AbortTree
<1>4. ASSUME NEW b, Goto("alloc", [o EXCEPT !.want = "data", !.buf = b]) PROVE Tree'
  <2> DEFINE f == [o EXCEPT !.want = "data", !.buf = b]
  <2>1. /\ f.kind = o.kind /\ f.first = o.first /\ f.prev = o.prev /\ f.len = o.len /\ f.left = o.left
        /\ f.tdir = o.tdir /\ f.want = "data"
    BY <1>1 DEF Frames
  <2>2. Goto("alloc", f)
    BY <1>4
  <2> HIDE DEF f
  <2> QED BY <1>1, <2>1, <2>2, GoTree
<1> QED BY <1>2, <1>3, <1>4 DEF CopyMore

LEMMA SlotTree ==
  ASSUME NEW F, NEW G, NEW P, NEW L, TreeAt(F, G, P, L), SlotScan \/ SlotOver, mishap' = {}
  PROVE  Tree'
<1>1. /\ pc = "slot" /\ fat'[1] = fat[1] /\ disk' = disk /\ o \in Frames
      /\ (o.cl \in Cluster => o.cl \in G) /\ (o.left = 0 \/ o.kind = "mkdir")
  BY TreeAtIs DEF SlotScan, SlotOver, Still, OnDirs, Wanted
<1>2. CASE Abort("io")
  BY <1>1, <1>2, AbortTree
<1>3. ASSUME NEW c, NEW i, Goto("entry", [o EXCEPT !.at = c, !.index = i]), c = BAD \/ c = o.cl
      PROVE  Tree'
  <2> DEFINE f == [o EXCEPT !.at = c, !.index = i]
  <2>1. /\ f.kind = o.kind /\ f.first = o.first /\ f.prev = o.prev /\ f.len = o.len /\ f.left = o.left
        /\ f.tdir = o.tdir /\ f.at = c
    BY <1>1 DEF Frames
  <2>2. Goto("entry", f)
    BY <1>3
  <2> HIDE DEF f
  <2> QED BY <1>1, <1>3, <2>1, <2>2, GoTree, Constants
<1>4. ASSUME Goto("alloc", [o EXCEPT !.want = "ext"]) PROVE Tree'
  <2> DEFINE f == [o EXCEPT !.want = "ext"]
  <2>1. /\ f.kind = o.kind /\ f.first = o.first /\ f.prev = o.prev /\ f.len = o.len /\ f.left = o.left
        /\ f.tdir = o.tdir /\ f.want = "ext" /\ f.cl = o.cl
    BY <1>1 DEF Frames
  <2>2. Goto("alloc", f)
    BY <1>4
  <2> HIDE DEF f
  <2> QED BY <1>1, <2>1, <2>2, GoTree
<1>5. ASSUME NEW n \in Number, o.cl \in Cluster, GetNext(o.cl, n),
             Goto("slot", [o EXCEPT !.cl = n, !.steps = @ + 1])
      PROVE  Tree'
  <2> DEFINE f == [o EXCEPT !.cl = n, !.steps = @ + 1]
  <2>1. /\ f.kind = o.kind /\ f.first = o.first /\ f.prev = o.prev /\ f.len = o.len /\ f.left = o.left
        /\ f.tdir = o.tdir /\ f.cl = n
    BY <1>1 DEF Frames
  <2>2. Goto("slot", f)
    BY <1>5
  <2>3. n \in Cluster => n \in G
    BY <1>1, <1>5, TreeAtIs, Constants DEF GetNext, NextOf, DirsOf
  <2> HIDE DEF f
  <2> QED BY <1>1, <2>1, <2>2, <2>3, GoTree
<1> QED BY <1>2, <1>3, <1>4, <1>5 DEF SlotScan, SlotOver

\* A cluster of no file and no directory is overwritten with something that holds no entry.
LEMMA ClusterTree ==
  ASSUME NEW F, NEW G, NEW P, NEW L, TreeAt(F, G, P, L), ~Removing, ~LinkWindow, fat' = fat,
         NEW c, c \notin F, c \notin G, NEW v \in [Slot -> Entry], \A i \in Slot : v[i].kind \notin Live,
         disk' \in {disk, [disk EXCEPT ![c] = v]}
  PROVE  /\ FilesOf(F, L)' /\ DirsOf(G)' /\ EntriesOf(F, G, L)' /\ F \cap G = {}
         /\ \A d \in Cluster : d # c => disk'[d] = disk[d]
         /\ disk' = [disk EXCEPT ![c] = v] /\ c \in Cluster => disk'[c] = v
         /\ \A r : Abort(r) => Tree'
<1>1. \A d \in Cluster : disk'[d] = disk[d] \/ (d = c /\ disk'[d] = v)
  BY TreeAtIs DEF MediaOK
<1>2. ASSUME NEW p \in LiveSlots' PROVE p \in LiveSlots /\ EntryAt(p)' = EntryAt(p)
  BY <1>1, <1>2 DEF LiveSlots, EntryAt
<1>3. FilesOf(F, L)'
  BY <1>1, TreeAtIs, FilesStill
<1>4. DirsOf(G)'
  BY <1>1, TreeAtIs, TreeDirsStill
<1>5. EntriesOf(F, G, L)'
  BY <1>2, TreeAtIs, EntriesStill
<1>6. F \cap G = {}
  BY TreeAtIs DEF Separate
<1>7. ASSUME NEW r, Abort(r) PROVE Tree'
  <2>1. pc' = "idle"
    BY <1>7 DEF Abort, Return
  <2> QED BY <1>3, <1>4, <1>5, <1>6, <2>1, RestTree, TreeAtIs
<1>8. \A d \in Cluster : d # c => disk'[d] = disk[d]
  BY <1>1
<1>9. disk' = [disk EXCEPT ![c] = v] /\ c \in Cluster => disk'[c] = v
  BY TreeAtIs DEF MediaOK
<1> QED BY <1>3, <1>4, <1>5, <1>6, <1>7, <1>8, <1>9

LEMMA WritePayloadTree ==
  ASSUME NEW F, NEW G, NEW P, NEW L, TreeAt(F, G, P, L), WritePayload, mishap' = {} PROVE Tree'
<1> DEFINE v == Payload(o.buf)
           done == [disk EXCEPT ![o.new] = v]
           f == [o EXCEPT !.left = @ - 1]
           g(n) == [o EXCEPT !.left = @ - 1, !.src = n]
<1>1. /\ pc = "payload" /\ ~Removing /\ Creating /\ ~LinkWindow /\ fat' = fat /\ o \in Frames
      /\ o.buf \in Data \cup {Junk} /\ o.left \in Nat /\ o.left > 0 /\ o.kind # "mkdir" /\ ForData
      /\ (o.tdir \in Cluster => o.tdir \in G) /\ ~Ties
      /\ P \cap (F \cup G) = {} /\ F \cap G = {} /\ \A c \in P : fat[1][c] # FREE
  <2>1. pc = "payload" /\ fat' = fat /\ ~Removing /\ Creating /\ ~LinkWindow /\ ForData /\ ~Ties
    BY DEF WritePayload, Removing, Creating, Writing, Resume, LinkWindow, ForData, Ties
  <2>2. o \in Frames /\ o.left > 0
    BY <2>1, TreeAtIs DEF Control, InData, DataSteps
  <2>3. o.buf \in Data \cup {Junk} /\ o.left \in Nat
    BY <2>2 DEF Frames
  <2> QED BY <2>1, <2>2, <2>3, TreeAtIs DEF Wanted, OnDirs, Separate
<1>2. /\ o.first # 0 /\ o.first \in P /\ L[o.first] = o.len /\ o.prev \in P /\ fat[1][o.prev] = END
      /\ L[o.prev] > 0 /\ L[o.prev] = o.left /\ o.prev = o.new
      /\ \A c \in P \ {o.prev} : disk[c][1].kind = "bytes" /\ Behind(c, P, L)
  BY <1>1, TreeAtIs DEF NewFile
<1>3. v \in [Slot -> Entry] /\ (\A i \in Slot : v[i].kind \notin Live) /\ v[1].kind = "bytes"
  <2>1. v[1].kind = "bytes"
    BY Constants DEF Payload, Blank
  <2> QED BY <1>1, <2>1, EntryTypes, NoLive
<1>4. disk' \in {disk, done} /\ (disk' = done \/ Abort("io"))
  BY DEF WritePayload
<1>5. \/ Abort("io") \/ Goto("data", f) \/ \E n \in Number : Goto("data", g(n))
  BY DEF WritePayload
<1>6. /\ f.kind = o.kind /\ f.first = o.first /\ f.prev = o.prev /\ f.len = o.len
      /\ f.left = o.left - 1 /\ f.tdir = o.tdir
  BY <1>1 DEF Frames
<1>7. \A n : /\ g(n).kind = o.kind /\ g(n).first = o.first /\ g(n).prev = o.prev /\ g(n).len = o.len
             /\ g(n).left = o.left - 1 /\ g(n).tdir = o.tdir
  BY <1>1 DEF Frames
<1>8. o.new \in Cluster /\ o.new \notin F /\ o.new \notin G
  BY <1>1, <1>2, TreeAtIs
<1> HIDE DEF v, f, g
<1>9. /\ FilesOf(F, L)' /\ DirsOf(G)' /\ EntriesOf(F, G, L)'
      /\ \A d \in Cluster : d # o.new => disk'[d] = disk[d]
      /\ disk' = done => disk'[o.new] = v
      /\ \A r : Abort(r) => Tree'
  BY <1>1, <1>3, <1>4, <1>8, ClusterTree
<1>10. ASSUME NEW h, Goto("data", h), disk' = done,
              h.kind = o.kind, h.first = o.first, h.prev = o.prev, h.len = o.len,
              h.left = o.left - 1, h.tdir = o.tdir
       PROVE  Tree'
  <2>1. pc' = "data" /\ o' = h /\ ~Removing' /\ \A K : ~Writing(K)'
    BY <1>10 DEF Goto, Writing, Removing
  <2>2. OnDirs(G)'
    BY <1>1, <1>10, <2>1 DEF OnDirs, Obtaining, Extending, Linking, Grown
  <2>3. Separate(F, G, P)'
    BY <1>1, <2>1 DEF Separate, Fetched, Linking
  <2>4. Wanted' /\ NewDir(P)'
    BY <1>1, <1>10, <2>1 DEF Wanted, NewDir, Obtaining, Extending, ForData
  <2>5. ~ForData' /\ ~Ties'
    BY <2>1 DEF ForData, Ties
  <2>6. ASSUME NEW c \in P \ {o.prev} PROVE disk'[c][1].kind = "bytes" /\ Behind(c, P, L)'
    <3>1. c \in Cluster /\ c # o.new
      BY <1>2, <2>6, TreeAtIs
    <3>2. disk'[c] = disk[c] /\ disk[c][1].kind = "bytes"
      BY <1>2, <1>9, <2>6, <3>1
    <3>3. Behind(c, P, L)'
      BY <1>1, <1>2, <2>5, <2>6 DEF Behind
    <3> QED BY <3>2, <3>3
  <2>7. disk'[o.prev][1].kind = "bytes"
    BY <1>2, <1>3, <1>9, <1>10
  <2>8. NewFile(P, L)'
    BY <1>1, <1>2, <1>10, <2>1, <2>5, <2>6, <2>7 DEF NewFile
  <2>9. TreeOf(F, G, P, L)'
    BY <1>9, <2>2, <2>3, <2>4, <2>8 DEF TreeOf, InMaking
  <2> QED BY <2>9, TreeAtIs DEF Tree
<1> QED BY <1>4, <1>5, <1>6, <1>7, <1>9, <1>10

LEMMA WriteDotsTree ==
  ASSUME NEW F, NEW G, NEW P, NEW L, TreeAt(F, G, P, L), WriteDots, mishap' = {} PROVE Tree'
<1> DEFINE done == [disk EXCEPT ![o.new] = Dots]
           f == [o EXCEPT !.cl = o.tdir, !.steps = 0]
<1>1. /\ pc = "dots" /\ ~Removing /\ Creating /\ ~LinkWindow /\ fat' = fat /\ o \in Frames
      /\ o.kind = "mkdir" /\ o.new = o.first /\ o.first # 0
      /\ (o.tdir \in Cluster => o.tdir \in G)
      /\ P \cap (F \cup G) = {} /\ F \cap G = {} /\ \A c \in P : fat[1][c] # FREE
  BY TreeAtIs DEF WriteDots, Removing, Creating, Writing, LinkWindow, Wanted, OnDirs, Separate
<1>2. o.first \in P /\ fat[1][o.first] = END
  BY <1>1, TreeAtIs DEF NewDir
<1>3. disk' \in {disk, done} /\ ((Goto("slot", f) /\ disk' = done) \/ Abort("io"))
  BY DEF WriteDots
<1>4. f.kind = o.kind /\ f.first = o.first /\ f.tdir = o.tdir /\ f.cl = o.tdir
  BY <1>1 DEF Frames
<1>5. o.new \in Cluster /\ o.new \notin F /\ o.new \notin G
  BY <1>1, <1>2, TreeAtIs
<1> HIDE DEF f
<1>6. /\ FilesOf(F, L)' /\ DirsOf(G)' /\ EntriesOf(F, G, L)'
      /\ disk' = done => disk'[o.new] = Dots
      /\ \A r : Abort(r) => Tree'
  BY <1>1, <1>3, <1>5, ClusterTree, EntryTypes, NoLive
<1>7. CASE Goto("slot", f) /\ disk' = done
  <2>1. pc' = "slot" /\ o' = f /\ ~Removing' /\ \A K : ~Writing(K)'
    BY <1>7 DEF Goto, Writing, Removing
  <2>2. OnDirs(G)'
    BY <1>1, <1>4, <2>1 DEF OnDirs, Obtaining, Extending, Linking, Grown
  <2>3. Separate(F, G, P)'
    BY <1>1, <2>1 DEF Separate, Fetched, Linking
  <2>4. Wanted' /\ NewFile(P, L)'
    BY <1>1, <1>4, <2>1 DEF Wanted, NewFile, Obtaining, Extending, ForData
  <2>5. \A i \in Slot : disk'[o.first][i].kind # "bytes"
    BY <1>1, <1>6, <1>7 DEF Dots, Blank
  <2>6. NewDir(P)'
    BY <1>1, <1>2, <1>4, <2>1, <2>5 DEF NewDir, HoldsData
  <2>7. TreeOf(F, G, P, L)'
    BY <1>6, <2>2, <2>3, <2>4, <2>6 DEF TreeOf, InMaking
  <2> QED BY <2>7, TreeAtIs DEF Tree
<1> QED BY <1>3, <1>6, <1>7

LEMMA WriteZeroesTree ==
  ASSUME NEW F, NEW G, NEW P, NEW L, TreeAt(F, G, P, L), WriteZeroes, mishap' = {} PROVE Tree'
<1> DEFINE done == [disk EXCEPT ![o.new] = Zeroed]
           f == [o EXCEPT !.at = o.new, !.index = 1]
<1>1. /\ pc = "zero" /\ ~Removing /\ Creating /\ LinkWindow /\ ~FreeWindow /\ fat' = fat /\ o \in Frames
      /\ o.new \in G /\ (o.tdir \in Cluster => o.tdir \in G) /\ (o.left = 0 \/ o.kind = "mkdir")
      /\ P \cap (F \cup G) = {} /\ F \cap G = {} /\ \A c \in P : fat[1][c] # FREE
  <2>1. pc = "zero" /\ fat' = fat /\ ~Removing /\ Creating /\ LinkWindow
    BY DEF WriteZeroes, Removing, Creating, Writing, Resume, LinkWindow
  <2>2. Grown
    BY <2>1 DEF Grown
  <2> QED BY <2>1, <2>2, TreeAtIs DEF Wanted, OnDirs, Separate
<1>2. ~Abort("io")
  BY <1>1 DEF Abort, Harm
<1>3. disk' = done /\ Goto("entry", f)
  BY <1>2 DEF WriteZeroes
<1>4. /\ f.kind = o.kind /\ f.first = o.first /\ f.prev = o.prev /\ f.len = o.len
      /\ f.left = o.left /\ f.tdir = o.tdir /\ f.at = o.new
  BY <1>1 DEF Frames
<1> HIDE DEF f
<1>5. \A d \in Cluster : disk'[d] = IF d = o.new THEN Zeroed ELSE disk[d]
  BY <1>3, TreeAtIs DEF MediaOK
<1>6. ASSUME NEW p \in LiveSlots' PROVE p \in LiveSlots /\ EntryAt(p)' = EntryAt(p)
  BY <1>5, <1>6, NoLive DEF LiveSlots, EntryAt
<1>7. FilesOf(F, L)'
  BY <1>1, <1>5, TreeAtIs, FilesStill
<1>8. EntriesOf(F, G, L)'
  BY <1>1, <1>6, TreeAtIs, EntriesStill
<1>9. DirsOf(G)'
  <2>1. \A i \in Slot : Zeroed[i].kind # "bytes"
    BY DEF Zeroed, Blank
  <2>2. ASSUME NEW c \in G, NEW i \in Slot PROVE disk'[c][i].kind # "bytes"
    <3>1. CASE c = o.new
      BY <1>5, <2>1, <3>1, TreeAtIs
    <3>2. CASE c # o.new
      BY <1>5, <3>2, TreeAtIs DEF DirsOf, HoldsData
    <3> QED BY <3>1, <3>2
  <2> QED BY <1>1, <2>2, TreeAtIs DEF DirsOf, HoldsData
<1>10. pc' = "entry" /\ o' = f /\ ~Removing' /\ Creating' /\ \A K : ~Writing(K)'
  BY <1>3 DEF Goto, Writing, Removing, Creating
<1>11. OnDirs(G)'
  BY <1>1, <1>4, <1>10 DEF OnDirs, Obtaining, Extending, Linking, Grown
<1>12. Separate(F, G, P)'
  BY <1>1, <1>10 DEF Separate, Fetched, Linking
<1>13. Wanted'
  BY <1>1, <1>4, <1>10 DEF Wanted, Obtaining, Extending, ForData
<1>14. \A c \in P : disk'[c] = disk[c]
  BY <1>1, <1>5, TreeAtIs
<1>15. NewDir(P)'
  BY <1>1, <1>4, <1>10, <1>14, TreeAtIs DEF NewDir, HoldsData
<1>16. ~ForData /\ ~Ties /\ ~ForData' /\ ~Ties'
  BY <1>1, <1>10 DEF ForData, Ties, Writing
<1>17. NewFile(P, L)'
  BY <1>1, <1>4, <1>10, <1>14, <1>16, TreeAtIs DEF NewFile, Behind
<1>18. TreeOf(F, G, P, L)'
  BY <1>7, <1>8, <1>9, <1>11, <1>12, <1>13, <1>15, <1>17 DEF TreeOf, InMaking
<1> QED BY <1>18, TreeAtIs DEF Tree

\* The entry of what was built is written, and its clusters belong to the tree.
LEMMA WriteEntryTree ==
  ASSUME NEW F, NEW G, NEW P, NEW L, TreeAt(F, G, P, L), WriteEntry, mishap' = {} PROVE Tree'
<1>1. /\ pc = "entry" /\ ~Removing /\ Creating /\ ~LinkWindow /\ ~FreeWindow /\ fat' = fat /\ o \in Frames
      /\ (o.at \in Cluster => o.at \in G) /\ (o.left = 0 \/ o.kind = "mkdir") /\ ~ForData /\ ~Ties
      /\ P \cap (F \cup G) = {} /\ F \cap G = {} /\ \A c \in P : fat[1][c] # FREE
  <2>1. pc = "entry" /\ fat' = fat /\ ~Removing /\ Creating /\ ~LinkWindow /\ ~ForData /\ ~Ties
    BY DEF WriteEntry, Removing, Creating, Writing, LinkWindow, ForData, Ties
  <2> QED BY <2>1, TreeAtIs DEF Wanted, OnDirs, Separate
<1> DEFINE done == [disk EXCEPT ![o.at][o.index] = NewEntry]
<1>2. disk' \in {disk, done} /\ pc' = "idle"
  BY DEF WriteEntry, Hurt, Abort, Return
<1>3. CASE disk' = disk
  BY <1>1, <1>2, <1>3, OverTree
<1>4. CASE disk' = done
  <2>1. \A p \in Cluster \X Slot :
          EntryAt(p)' = IF p = <<o.at, o.index>> THEN NewEntry ELSE EntryAt(p)
    BY <1>4, TreeAtIs DEF EntryAt, MediaOK
  <2>2. \A d \in Cluster, i \in Slot :
          disk'[d][i] = IF d = o.at /\ i = o.index THEN NewEntry ELSE disk[d][i]
    BY <1>4, TreeAtIs DEF MediaOK
  <2> HIDE DEF done
  <2>3. \A c \in Cluster : c \notin G => disk'[c][1] = disk[c][1]
    BY <1>1, <2>2, Constants
  <2>4. NewEntry.kind \in {"file", "dir"} /\ NewEntry.first = o.first /\ NewEntry.len = o.len
        /\ (NewEntry.kind = "dir" <=> o.kind = "mkdir")
    BY DEF NewEntry
  <2>5. /\ o.kind = "mkdir" /\ o.first # 0 => o.first \in P
        /\ P \subseteq Cluster /\ G \subseteq Cluster /\ F \subseteq Cluster /\ \A c \in P : L[c] \in Nat
    BY <1>1, TreeAtIs DEF NewDir
  <2>20. PICK H \in SUBSET Cluster : H = IF o.kind = "mkdir" \/ o.first = 0 THEN F ELSE F \cup P
    BY <2>5
  <2>21. PICK K \in SUBSET Cluster : K = IF o.kind = "mkdir" /\ o.first # 0 THEN G \cup {o.first} ELSE G
    BY <2>5
  <2>6. H \cap K = {}
    BY <1>1, <2>5, <2>20, <2>21
  <2>7. FilesOf(H, L)'
    <3>1. FilesOf(F, L)'
      BY <1>1, <2>3, TreeAtIs, FilesStill
    <3>2. ASSUME o.kind # "mkdir", o.first # 0, NEW c \in P
          PROVE  disk'[c][1].kind = "bytes" /\ Follows(c, P, L)'
      <4>1. /\ o.prev \in P /\ fat[1][o.prev] = END /\ L[o.prev] = o.left + 1 /\ L[o.prev] > 0
            /\ \A d \in P \ {o.prev} : disk[d][1].kind = "bytes" /\ Behind(d, P, L)
            /\ disk[o.prev][1].kind = "bytes"
        BY <1>1, <3>2, TreeAtIs DEF NewFile
      <4>2. disk'[c][1] = disk[c][1]
        BY <1>1, <2>3, TreeAtIs
      <4>3. CASE c = o.prev
        <5>1. L[c] = 1
          BY <1>1, <3>2, <4>1, <4>3
        <5> QED BY <1>1, <4>1, <4>2, <4>3, <5>1 DEF Follows
      <4>4. CASE c # o.prev
        BY <1>1, <2>5, <4>1, <4>2, <4>4 DEF Follows, Behind
      <4> QED BY <4>3, <4>4
    <3> QED BY <2>20, <3>1, <3>2 DEF FilesOf, Follows
  <2>8. DirsOf(K)'
    <3>1. \A c \in G, i \in Slot : disk'[c][i].kind = "bytes" => disk[c][i].kind = "bytes"
      BY <2>2, <2>4, TreeAtIs
    <3>2. DirsOf(G)'
      BY <1>1, <3>1, TreeAtIs, TreeDirsStill
    <3>3. ASSUME o.kind = "mkdir", o.first # 0
          PROVE  fat'[1][o.first] = END /\ \A i \in Slot : disk'[o.first][i].kind # "bytes"
      <4>1. o.first \in P /\ fat[1][o.first] = END /\ ~HoldsData(o.first)
        BY <1>1, <3>3, TreeAtIs DEF NewDir
      <4>2. o.first \in Cluster
        BY <4>1, TreeAtIs
      <4> QED BY <1>1, <2>2, <2>4, <4>1, <4>2 DEF HoldsData
    <3>4. END # FREE /\ END \notin Cluster
      BY Constants DEF FREE
    <3> QED BY <2>21, <3>2, <3>3, <3>4 DEF DirsOf, HoldsData
  <2>9. EntriesOf(H, K, L)'
    <3>1. LiveSlots' \subseteq Cluster \X Slot /\ \A p \in LiveSlots' : EntryAt(p)'.kind \in Live
      BY DEF LiveSlots, EntryAt
    <3>2. ASSUME NEW p \in LiveSlots', p # <<o.at, o.index>> PROVE Leads(EntryAt(p), H, K, L)'
      <4>1. EntryAt(p)' = EntryAt(p) /\ p \in LiveSlots
        BY <2>1, <3>1, <3>2 DEF LiveSlots, EntryAt
      <4>2. Leads(EntryAt(p), F, G, L)
        BY <1>1, <4>1, TreeAtIs DEF EntriesOf, Leaving
      <4> QED BY <2>20, <2>21, <4>1, <4>2 DEF Leads
    <3>3. ASSUME NEW p \in LiveSlots', p = <<o.at, o.index>> PROVE Leads(EntryAt(p), H, K, L)'
      <4>1. EntryAt(p)' = NewEntry
        BY <2>1, <3>1, <3>3
      <4>2. CASE o.kind = "mkdir"
        BY <2>4, <2>21, <4>1, <4>2 DEF Leads
      <4>3. CASE o.kind # "mkdir" /\ o.first = 0
        <5>1. o.len = 0
          BY <1>1, <4>3, TreeAtIs DEF NewFile
        <5> QED BY <2>4, <4>1, <4>3, <5>1 DEF Leads
      <4>4. CASE o.kind # "mkdir" /\ o.first # 0
        <5>1. /\ o.first \in P /\ L[o.first] = o.len /\ L[o.prev] > 0
              /\ \A d \in P \ {o.prev} : Behind(d, P, L)
          BY <1>1, <4>4, TreeAtIs DEF NewFile
        <5>2. o.len # 0
          BY <5>1 DEF Behind
        <5> QED BY <2>4, <2>20, <4>1, <4>4, <5>1, <5>2 DEF Leads
      <4> QED BY <4>2, <4>3, <4>4
    <3> QED BY <3>2, <3>3 DEF EntriesOf
  <2> QED BY <1>2, <2>6, <2>7, <2>8, <2>9, RestTree, TreeAtIs
<1> QED BY <1>2, <1>3, <1>4

LEMMA AllocTree ==
  ASSUME NEW F, NEW G, NEW P, NEW L, TreeAt(F, G, P, L), Alloc, mishap' = {} PROVE Tree'
<1>1. /\ pc = "alloc" /\ fat'[1] = fat[1] /\ disk' = disk /\ o \in Frames /\ ~Removing /\ Creating
      /\ ~LinkWindow /\ (o.tdir \in Cluster => o.tdir \in G)
      /\ P \cap (F \cup G) = {} /\ F \cap G = {} /\ \A c \in P : fat[1][c] # FREE
  BY TreeAtIs DEF Alloc, Still, Removing, Creating, Writing, LinkWindow, OnDirs, Separate
<1>2. CASE Abort("nospace")
  BY <1>1, <1>2, AbortTree
<1>3. ASSUME NEW c \in FreeOnes, SetFat([o EXCEPT !.new = c], c, END, "alloced") PROVE Tree'
  <2> DEFINE f == [o EXCEPT !.new = c]
  <2>1. /\ f.kind = o.kind /\ f.first = o.first /\ f.prev = o.prev /\ f.len = o.len /\ f.left = o.left
        /\ f.tdir = o.tdir /\ f.want = o.want /\ f.cl = o.cl /\ f.new = c
    BY <1>1 DEF Frames
  <2> HIDE DEF f
  <2>2. pc' = "setfat" /\ o' = f /\ wr'.cl = c /\ wr'.val = END /\ wr'.i = 1 /\ wr'.then = "alloced"
    BY <1>3 DEF SetFat, f
  <2>3. c \in Cluster /\ fat[1][c] = FREE
    BY DEF FreeOnes
  <2>4. c \notin F /\ c \notin G
    <3>1. END # FREE /\ FREE \notin Cluster
      BY Constants DEF FREE
    <3>2. c \notin F
      BY <2>3, <3>1, TreeAtIs DEF FilesOf, Follows
    <3>3. c \notin G
      BY <2>3, TreeAtIs DEF DirsOf
    <3> QED BY <3>2, <3>3
  <2>5. ~Removing' /\ ~Linking' /\ ~Fetched' /\ ~Grown' /\ ~ForData' /\ ~Ties' /\ Obtaining' /\ Obtaining
        /\ ~ForData /\ ~Ties
    BY <1>1, <2>2 DEF Removing, Linking, Fetched, Grown, ForData, Ties, Obtaining, Writing
  <2>6. OnDirs(G)'
    BY <1>1, <2>1, <2>2, <2>5, TreeAtIs DEF OnDirs, Extending
  <2>7. Separate(F, G, P)'
    BY <1>1, <2>1, <2>2, <2>3, <2>4, <2>5 DEF Separate
  <2>8. Wanted'
    BY <2>1, <2>2, <2>5, TreeAtIs DEF Wanted, Extending, Writing
  <2>9. NewDir(P)'
    BY <1>1, <2>1, <2>2, TreeAtIs DEF NewDir, HoldsData
  <2>10. NewFile(P, L)'
    BY <1>1, <2>1, <2>2, <2>5, TreeAtIs DEF NewFile, Behind
  <2> QED BY <1>1, <2>6, <2>7, <2>8, <2>9, <2>10, OnTree
<1> QED BY <1>2, <1>3 DEF Alloc, Least

LEMMA AllocedTree ==
  ASSUME NEW F, NEW G, NEW P, NEW L, TreeAt(F, G, P, L), Alloced, mishap' = {} PROVE Tree'
<1> DEFINE f == [o EXCEPT !.first = IF @ = 0 THEN o.new ELSE @, !.prev = o.new]
<1>1. /\ pc = "alloced" /\ fat' = fat /\ disk' = disk /\ o \in Frames /\ ~Removing /\ Creating /\ Obtaining
      /\ ~LinkWindow /\ ~ForData /\ ~Ties /\ (o.tdir \in Cluster => o.tdir \in G)
      /\ P \cap (F \cup G) = {} /\ F \cap G = {} /\ (\A c \in P : fat[1][c] # FREE)
      /\ o.new \notin F /\ o.new \notin G /\ o.new \notin P /\ fat[1][o.new] = END
      /\ (o.first = 0 => o.prev = 0)
  <2>1. /\ pc = "alloced" /\ fat' = fat /\ disk' = disk /\ ~Removing /\ Creating /\ Obtaining
        /\ ~LinkWindow /\ ~ForData /\ ~Ties /\ Fetched
    BY DEF Alloced, Removing, Creating, Writing, Resume, LinkWindow, ForData, Ties, Obtaining, Fetched
  <2> QED BY <2>1, TreeAtIs DEF OnDirs, Separate, Course
<1>2. o.new \in Cluster
  BY <1>1, TreeAtIs DEF Chains, NewInv, Unclaimed
<1>3. /\ f.kind = o.kind /\ f.len = o.len /\ f.left = o.left /\ f.tdir = o.tdir /\ f.want = o.want
      /\ f.new = o.new /\ f.prev = o.new /\ f.first = IF o.first = 0 THEN o.new ELSE o.first
  BY <1>1 DEF Frames
<1>4. END # FREE /\ 0 \notin Cluster
  BY Constants DEF FREE
<1>5. \/ o.want = "dir" /\ Goto("dots", f)
      \/ o.want = "ext" /\ SetFat(o, o.cl, o.new, "extlinked")
      \/ o.want = "data" /\ o.prev # 0 /\ SetFat(f, o.prev, o.new, "linked")
      \/ o.want = "data" /\ o.prev = 0 /\ SetFat(f, o.new, END, "payload")
  <2>1. o.want \in {"data", "dir", "ext"}
    BY <1>1, TreeAtIs DEF Control, Frames
  <2> QED BY <1>1, <2>1 DEF Alloced
<1> HIDE DEF f
<1>6. CASE o.want = "dir" /\ Goto("dots", f)
  <2>1. pc' = "dots" /\ o' = f /\ ~Removing' /\ \A K : ~Writing(K)'
    BY <1>6 DEF Goto, Removing, Writing
  <2>2. o.kind = "mkdir" /\ o.first = 0
    BY <1>1, <1>6, TreeAtIs DEF Wanted
  <2>3. PICK Q \in SUBSET Cluster : Q = {o.new}
    BY <1>2
  <2>4. FilesOf(F, L)' /\ DirsOf(G)' /\ EntriesOf(F, G, L)'
    BY <1>1, TreeAtIs, TreeStill
  <2>5. OnDirs(G)'
    BY <1>1, <1>3, <2>1 DEF OnDirs, Obtaining, Extending, Linking, Grown
  <2>6. Separate(F, G, Q)'
    BY <1>1, <1>4, <2>1, <2>3 DEF Separate, Fetched, Linking
  <2>7. Wanted' /\ NewFile(Q, L)'
    BY <1>2, <1>3, <1>4, <2>1, <2>2 DEF Wanted, NewFile, Obtaining, Extending, ForData
  <2>8. NewDir(Q)'
    BY <1>1, <1>3, <2>1, <2>2, <2>3 DEF NewDir
  <2>9. TreeOf(F, G, Q, L)'
    BY <2>4, <2>5, <2>6, <2>7, <2>8 DEF TreeOf, InMaking
  <2> QED BY <2>9, TreeAtIs DEF Tree
<1>7. CASE o.want = "ext" /\ SetFat(o, o.cl, o.new, "extlinked")
  <2>1. pc' = "setfat" /\ o' = o /\ wr'.cl = o.cl /\ wr'.val = o.new /\ wr'.i = 1 /\ wr'.then = "extlinked"
    BY <1>7 DEF SetFat
  <2>2. ~Removing' /\ Linking' /\ Fetched' /\ ~Grown' /\ ~ForData' /\ ~Ties' /\ ~Obtaining'
        /\ ~Writing({"alloced"})' /\ Extending
    BY <1>1, <1>7, <2>1 DEF Removing, Linking, Fetched, Grown, ForData, Ties, Obtaining, Extending, Writing
  <2>3. OnDirs(G)'
    BY <1>1, <2>1, <2>2, TreeAtIs DEF OnDirs, Extending
  <2>4. Separate(F, G, P)'
    BY <1>1, <2>1, <2>2 DEF Separate
  <2>5. Wanted'
    BY <2>1, <2>2, TreeAtIs DEF Wanted, Extending, Writing
  <2>6. NewDir(P)'
    BY <1>1, <2>1, TreeAtIs DEF NewDir, HoldsData
  <2>7. NewFile(P, L)'
    BY <1>1, <2>1, <2>2, TreeAtIs DEF NewFile, Behind
  <2> QED BY <1>1, <2>3, <2>4, <2>5, <2>6, <2>7, OnTree
<1>8. ASSUME o.want = "data", o.kind # "mkdir", o.left > 0, pc' = "setfat", o' = f, wr'.then \in {"linked", "payload"},
             wr'.then = "linked" => o.prev # 0 /\ wr'.cl = o.prev /\ wr'.i = 1,
             wr'.then = "payload" => o.prev = 0
      PROVE  Tree'
  <2>1. o.left \in Nat
    BY <1>1 DEF Frames
  <2>2. PICK M \in [Cluster -> Nat] : M = [L EXCEPT ![o.new] = o.left]
    BY <2>1, TreeAtIs
  <2>3. M[o.new] = o.left /\ \A c \in Cluster : c # o.new => M[c] = L[c]
    BY <1>2, <2>2, TreeAtIs
  <2>4. FilesOf(F, M)' /\ DirsOf(G)' /\ EntriesOf(F, G, M)'
    <3>1. \A c \in F : M[c] = L[c]
      BY <1>1, <2>3, TreeAtIs
    <3>2. FilesOf(F, M)'
      BY <1>1, <3>1, TreeAtIs, FilesStill
    <3>3. DirsOf(G)'
      BY <1>1, TreeAtIs, TreeDirsStill
    <3>4. \A p \in LiveSlots' : p \in LiveSlots /\ EntryAt(p)' = EntryAt(p)
      BY <1>1 DEF LiveSlots, EntryAt
    <3>5. EntriesOf(F, G, M)'
      BY <1>1, <3>1, <3>4, TreeAtIs, EntriesStill
    <3> QED BY <3>2, <3>3, <3>5
  <2>5. /\ ~Removing' /\ ~Linking' /\ ~Fetched' /\ ~Grown' /\ ForData' /\ ~Obtaining' /\ Creating'
        /\ ~Writing({"alloced"})' /\ (Ties' <=> wr'.then = "linked" /\ wr'.i = 1)
    BY <1>8 DEF Removing, Linking, Fetched, Grown, ForData, Ties, Obtaining, Writing, Creating, Resume
  <2>6. OnDirs(G)'
    BY <1>1, <1>3, <1>8, <2>5 DEF OnDirs, Extending
  <2>7. Wanted'
    BY <1>3, <1>8, <2>5 DEF Wanted, Extending, Writing
  <2>8. CASE wr'.then = "linked"
    <3>1. PICK Q \in SUBSET Cluster : Q = P \cup {o.new}
      BY <1>2, TreeAtIs
    <3>2. Separate(F, G, Q)'
      BY <1>1, <1>4, <1>8, <2>5, <3>1 DEF Separate
    <3>3. NewDir(Q)'
      BY <1>3, <1>8 DEF NewDir
    <3>4. /\ o.first # 0 /\ o.first \in P /\ L[o.first] = o.len
          /\ o.prev \in P /\ L[o.prev] = o.left + 1 /\ fat[1][o.prev] = END
          /\ disk[o.prev][1].kind = "bytes"
          /\ \A c \in P \ {o.prev} : disk[c][1].kind = "bytes" /\ Behind(c, P, L)
      BY <1>1, <1>8, <2>8, TreeAtIs DEF NewFile
    <3>5. /\ f.first = o.first /\ M[o.first] = o.len /\ M[o.prev] = o.left + 1 /\ o.first \in Q
          /\ o.new \in Q /\ o.prev \in Q \ {o.new} /\ M[o.new] = o.left /\ M[o.new] > 0
      BY <1>1, <1>3, <1>8, <2>3, <3>1, <3>4, TreeAtIs
    <3>6. ASSUME NEW c \in Q \ {o.new} PROVE disk'[c][1].kind = "bytes" /\ Behind(c, Q, M)'
      <4>1. c \in P /\ M[c] = L[c] /\ disk'[c][1].kind = "bytes"
        BY <1>1, <2>3, <3>1, <3>4, <3>6, TreeAtIs
      <4>2. CASE c = o.prev
        <5>1. o.left + 1 > 1 /\ o.left = (o.left + 1) - 1
          BY <1>8, <2>1
        <5> QED BY <1>3, <1>8, <2>5, <2>8, <3>5, <4>1, <4>2, <5>1 DEF Behind
      <4>3. CASE c # o.prev
        <5>1. L[c] > 1 /\ fat[1][c] \in P /\ L[fat[1][c]] = L[c] - 1
          BY <1>1, <3>4, <4>1, <4>3 DEF Behind
        <5>2. M[fat[1][c]] = L[fat[1][c]] /\ fat[1][c] \in Q
          BY <1>1, <2>3, <3>1, <5>1, TreeAtIs
        <5> QED BY <1>1, <1>8, <2>8, <4>1, <4>3, <5>1, <5>2 DEF Behind
      <4> QED BY <4>1, <4>2, <4>3
    <3>7. NewFile(Q, M)'
      BY <1>1, <1>3, <1>4, <1>8, <2>5, <2>8, <3>4, <3>5, <3>6 DEF NewFile
    <3>8. TreeOf(F, G, Q, M)'
      BY <2>4, <2>6, <2>7, <3>2, <3>3, <3>7 DEF TreeOf, InMaking
    <3> QED BY <3>8, TreeAtIs DEF Tree
  <2>9. CASE wr'.then = "payload"
    <3>1. PICK Q \in SUBSET Cluster : Q = {o.new}
      BY <1>2
    <3>2. Separate(F, G, Q)'
      BY <1>1, <1>4, <1>8, <2>5, <3>1 DEF Separate
    <3>3. NewDir(Q)'
      BY <1>3, <1>8 DEF NewDir
    <3>4. o.first = 0 /\ o.left = o.len
      BY <1>1, <1>4, <1>8, <2>9, TreeAtIs DEF NewFile
    <3>5. NewFile(Q, M)'
      BY <1>1, <1>2, <1>3, <1>4, <1>8, <2>3, <2>5, <2>9, <3>1, <3>4 DEF NewFile
    <3>6. TreeOf(F, G, Q, M)'
      BY <2>4, <2>6, <2>7, <3>2, <3>3, <3>5 DEF TreeOf, InMaking
    <3> QED BY <3>6, TreeAtIs DEF Tree
  <2> QED BY <1>8, <2>8, <2>9
<1>9. o.want = "data" => o.left > 0 /\ o.kind # "mkdir"
  BY <1>1, TreeAtIs DEF Control, InData, DataSteps, Wanted
<1>10. CASE o.want = "data" /\ o.prev # 0 /\ SetFat(f, o.prev, o.new, "linked")
  <2>1. pc' = "setfat" /\ o' = f /\ wr'.then = "linked" /\ wr'.cl = o.prev /\ wr'.i = 1
    BY <1>10 DEF SetFat
  <2> QED BY <1>8, <1>9, <1>10, <2>1
<1>11. CASE o.want = "data" /\ o.prev = 0 /\ SetFat(f, o.new, END, "payload")
  <2>1. pc' = "setfat" /\ o' = f /\ wr'.then = "payload"
    BY <1>11 DEF SetFat
  <2> QED BY <1>8, <1>9, <1>11, <2>1
<1> QED BY <1>5, <1>6, <1>7, <1>10, <1>11

LEMMA LinkedTree ==
  ASSUME NEW F, NEW G, NEW P, NEW L, TreeAt(F, G, P, L), Linked PROVE Tree'
<1>1. /\ fat'[1] = fat[1] /\ disk' = disk /\ ~Removing /\ Creating /\ pc \in {"linked", "extlinked"}
      /\ ~Ties
  BY DEF Linked, Still, Removing, Creating, Writing, Resume, Ties
<1>2. /\ pc' = "setfat" /\ o' = o /\ wr'.then = IF pc = "linked" THEN "payload" ELSE "zero"
  BY DEF Linked, SetFat
<1>3. /\ ~Removing' /\ ~Linking' /\ ~Fetched' /\ ~Obtaining' /\ Creating' /\ ~Writing({"alloced"})' /\ ~Ties'
      /\ (Grown' <=> Grown) /\ (ForData' <=> ForData) /\ LinkWindow' = LinkWindow
      /\ (Grown <=> pc = "extlinked")
  BY <1>1, <1>2 DEF Removing, Linking, Fetched, Grown, ForData, Ties, Obtaining, Writing, Creating, Resume,
                    LinkWindow
<1>4. OnDirs(G)'
  BY <1>1, <1>2, <1>3, TreeAtIs DEF OnDirs, Extending
<1>5. Separate(F, G, P)'
  BY <1>1, <1>2, <1>3, TreeAtIs DEF Separate
<1>6. Wanted'
  BY <1>1, <1>2, <1>3, TreeAtIs DEF Wanted, Extending, Writing
<1>7. NewDir(P)'
  BY <1>1, <1>2, TreeAtIs DEF NewDir, HoldsData
<1>8. NewFile(P, L)'
  BY <1>1, <1>2, <1>3, TreeAtIs DEF NewFile, Behind
<1> QED BY <1>1, <1>2, <1>3, <1>4, <1>5, <1>6, <1>7, <1>8, OnTree

LEMMA SetFatStrayTree ==
  ASSUME NEW F, NEW G, NEW P, NEW L, TreeAt(F, G, P, L), SetFatStray, mishap' = {} PROVE Tree'
<1>1. fat'[1] = fat[1] /\ disk' = disk /\ Abort("io")
  BY DEF SetFatStray, Still, Hurt
<1> QED BY <1>1, AbortTree

\* One copy of a FAT entry is written.
LEMMA CopyTreeFacts ==
  ASSUME NEW F, NEW G, NEW P, NEW L, TreeAt(F, G, P, L), SetFatCopy
  PROVE  /\ pc = "setfat" /\ disk' = disk /\ wr.cl \in Cluster /\ (wr.i = 1 \/ wr.i > 1)
         /\ \A d \in Cluster : d # wr.cl => fat'[1][d] = fat[1][d]
         /\ fat'[1][wr.cl] \in {fat[1][wr.cl], wr.val}
         /\ fat' = Written /\ wr.i = 1 => fat'[1][wr.cl] = wr.val
         /\ wr.i > 1 => fat'[1] = fat[1]
         /\ NextCopy \/ LastCopy \/ FreeCut \/ CopyCut
<1>1. pc = "setfat" /\ disk' = disk /\ wr.cl \in Cluster
  BY DEF SetFatCopy
<1>2. /\ fat' = fat \/ fat' = Written
      /\ fat' = fat => fat'[1] = fat[1]
      /\ fat' = Written => IF wr.i = 1 THEN FatWrite(wr.cl, wr.val) ELSE fat'[1] = fat[1]
      /\ wr.i = 1 \/ wr.i > 1
  BY TreeAtIs, CopyWritten
<1>3. fat[1] \in [Cluster -> Link]
  BY TreeAtIs, Constants DEF MediaOK
<1>4. FatWrite(wr.cl, wr.val) =>
        fat'[1][wr.cl] = wr.val /\ \A d \in Cluster : d # wr.cl => fat'[1][d] = fat[1][d]
  BY <1>1, <1>3 DEF FatWrite
<1>5. NextCopy \/ LastCopy \/ FreeCut \/ CopyCut
  BY TreeAtIs, CopyOutcomes
<1> QED BY <1>1, <1>2, <1>4, <1>5

LEMMA OutsideTree ==
  ASSUME NEW F, NEW G, NEW P, NEW L, TreeAt(F, G, P, L), ~Removing, disk' = disk,
         LinkWindow => LinkWindow' /\ o'.new = o.new,
         \A c \in F : fat'[1][c] = fat[1][c], \A c \in G : fat'[1][c] = fat[1][c]
  PROVE  FilesOf(F, L)' /\ DirsOf(G)' /\ EntriesOf(F, G, L)'
<1>1. FilesOf(F, L)'
  BY TreeAtIs, FilesStill
<1>2. DirsOf(G)'
  BY TreeAtIs, TreeDirsStill
<1>3. \A p \in LiveSlots' : p \in LiveSlots /\ EntryAt(p)' = EntryAt(p)
  BY DEF LiveSlots, EntryAt
<1>4. EntriesOf(F, G, L)'
  BY <1>3, TreeAtIs, EntriesStill
<1> QED BY <1>1, <1>2, <1>4

LEMMA MakingStill ==
  ASSUME NEW P \in SUBSET Cluster, NEW L, NewDir(P), NewFile(P, L), o' = o, disk' = disk,
         \A c \in P : fat'[1][c] = fat[1][c], Creating, pc # "dots",
         ForData' <=> ForData, Ties' <=> Ties, Ties => wr'.cl = wr.cl
  PROVE  NewDir(P)' /\ NewFile(P, L)'
<1>1. NewDir(P)'
  BY DEF NewDir, HoldsData
<1>2. NewFile(P, L)'
  BY DEF NewFile, Behind
<1> QED BY <1>1, <1>2

\* Where the write of a FAT entry goes on to.
LEMMA CopyOn ==
  ASSUME pc = "setfat", wr.then \in Resume \ {"freed"}, NextCopy \/ LastCopy
  PROVE  /\ o' = o /\ Creating' /\ ~Removing' /\ Creating /\ ~Removing /\ fat' = Written
         /\ ForData' <=> ForData
         /\ ~Ties'
         /\ ~Linking'
         /\ Grown' <=> wr.then \in {"extlinked", "zero"}
         /\ Obtaining' <=> Obtaining
         /\ Fetched' <=> wr.then = "alloced"
         /\ Writing({"alloced"})' => wr.then = "alloced"
         /\ Writing({"zero", "extlinked"})' \/ pc' \in {"zero", "extlinked"} => wr.then \in {"zero", "extlinked"}
         /\ LinkWindow' <=> LinkWindow
         /\ pc' \notin {"find", "data", "dots", "slot", "entry"}
<1>1. wr.then \in {"alloced", "linked", "payload", "extlinked", "zero"}
  BY DEF Resume
<1>2. CASE NextCopy
  BY <1>1, <1>2 DEF NextCopy, Creating, Removing, Writing, Resume, ForData, Ties, Linking, Grown, Obtaining,
                    Fetched, LinkWindow
<1>3. CASE LastCopy
  BY <1>1, <1>3 DEF LastCopy, Goto, Creating, Removing, Writing, Resume, ForData, Ties, Linking, Grown,
                    Obtaining, Fetched, LinkWindow
<1> QED BY <1>2, <1>3

\* fat32_alloc_cluster's mark, and the callers' own.
LEMMA MarkEndTree ==
  ASSUME NEW F, NEW G, NEW P, NEW L, TreeAt(F, G, P, L), SetFatCopy, mishap' = {},
         wr.then \in {"alloced", "payload"}
  PROVE  Tree'
<1>1. /\ pc = "setfat" /\ disk' = disk /\ wr.cl \in Cluster /\ (wr.i = 1 \/ wr.i > 1)
      /\ \A d \in Cluster : d # wr.cl => fat'[1][d] = fat[1][d]
      /\ fat'[1][wr.cl] \in {fat[1][wr.cl], wr.val}
      /\ fat' = Written /\ wr.i = 1 => fat'[1][wr.cl] = wr.val
      /\ wr.i > 1 => fat'[1] = fat[1]
      /\ NextCopy \/ LastCopy \/ FreeCut \/ CopyCut
  BY CopyTreeFacts
<1>2. Writing({"alloced", "payload", "zero"}) /\ ~Removing /\ Creating /\ ~LinkWindow /\ ~Ties
      /\ (wr.then = "alloced" => Writing({"alloced"})) /\ (wr.then = "payload" => ForData)
  BY <1>1 DEF Writing, Removing, Creating, Resume, LinkWindow, Ties, ForData
<1>3. wr.cl = o.new /\ wr.val = END
  BY <1>2, TreeAtIs DEF Course
<1>4. \A d \in F \cup G \cup P : fat'[1][d] = fat[1][d]
  <2>1. CASE wr.then = "alloced"
    BY <1>1, <1>2, <1>3, <2>1, TreeAtIs DEF Separate
  <2>2. CASE wr.then = "payload"
    <3>1. o.kind # "mkdir" /\ o.first # 0
      BY <1>2, <2>2, TreeAtIs DEF Wanted, NewFile
    <3>2. fat[1][o.new] = END
      BY <1>2, <2>2, <3>1, TreeAtIs DEF NewFile
    <3> QED BY <1>1, <1>3, <3>2, TreeAtIs
  <2> QED BY <2>1, <2>2
<1>5. FilesOf(F, L)' /\ DirsOf(G)' /\ EntriesOf(F, G, L)'
  BY <1>1, <1>2, <1>4, OutsideTree
<1>6. CASE NextCopy \/ LastCopy
  <2>1. /\ o' = o /\ fat' = Written /\ (ForData' <=> ForData) /\ ~Ties' /\ ~Linking' /\ ~Grown' /\ ~Removing'
        /\ (Obtaining' <=> Obtaining) /\ (Fetched' <=> wr.then = "alloced")
        /\ (Writing({"alloced"})' => wr.then = "alloced") /\ ~Writing({"zero", "extlinked"})'
        /\ pc' \notin {"zero", "extlinked"} /\ Creating'
        /\ pc' \notin {"find", "data", "dots", "slot", "entry"}
    BY <1>1, <1>6, CopyOn DEF Resume
  <2>2. OnDirs(G)'
    BY <1>2, <2>1, TreeAtIs DEF OnDirs, Extending
  <2>3. P \cap (F \cup G) = {} /\ F \cap G = {} /\ (\A c \in P : fat[1][c] # FREE)
    BY TreeAtIs DEF Separate
  <2>4. wr.then = "alloced" => o.new \notin F \cup G \cup P /\ fat'[1][o.new] = END
    <3>1. wr.then = "alloced" /\ wr.i > 1 => Fetched
      BY <1>1 DEF Fetched, Writing
    <3> QED BY <1>1, <1>2, <1>3, <2>1, <3>1, TreeAtIs DEF Separate
  <2>5. Separate(F, G, P)'
    BY <1>4, <2>1, <2>3, <2>4 DEF Separate
  <2>6. Wanted'
    BY <1>2, <2>1, TreeAtIs DEF Wanted, Extending
  <2>7. NewDir(P)' /\ NewFile(P, L)'
    BY <1>1, <1>2, <1>4, <2>1, TreeAtIs, MakingStill
  <2>8. TreeOf(F, G, P, L)'
    BY <1>5, <2>2, <2>5, <2>6, <2>7 DEF TreeOf, InMaking
  <2> QED BY <2>8, TreeAtIs DEF Tree
<1>7. CASE \E r : Abort(r)
  <2>1. pc' = "idle" /\ F \cap G = {}
    BY <1>7, TreeAtIs DEF Abort, Return, Separate
  <2> QED BY <1>5, <2>1, RestTree, TreeAtIs
<1> QED BY <1>1, <1>6, <1>7 DEF FreeCut, CopyCut

LEMMA ZeroMarkTree ==
  ASSUME NEW F, NEW G, NEW P, NEW L, TreeAt(F, G, P, L), SetFatCopy, mishap' = {}, wr.then = "zero"
  PROVE  Tree'
<1>1. /\ pc = "setfat" /\ disk' = disk /\ wr.cl \in Cluster
      /\ \A d \in Cluster : d # wr.cl => fat'[1][d] = fat[1][d]
      /\ fat'[1][wr.cl] \in {fat[1][wr.cl], wr.val}
      /\ NextCopy \/ LastCopy \/ FreeCut \/ CopyCut
  BY CopyTreeFacts
<1>2. Writing({"alloced", "payload", "zero"}) /\ ~Removing /\ Creating /\ LinkWindow /\ ~Ties /\ Grown
      /\ Writing({"zero", "extlinked"})
  BY <1>1 DEF Writing, Removing, Creating, Resume, LinkWindow, Ties, Grown
<1>3. wr.cl = o.new /\ wr.val = END /\ o.new \in G
  BY <1>2, TreeAtIs DEF Course, OnDirs
<1>4. NextCopy \/ LastCopy
  BY <1>1, <1>2 DEF FreeCut, CopyCut, Abort, Harm
<1>5. /\ o' = o /\ (ForData' <=> ForData) /\ ~Ties' /\ ~Linking' /\ Grown' /\ ~Removing'
      /\ (Obtaining' <=> Obtaining) /\ ~Fetched' /\ ~Writing({"alloced"})' /\ LinkWindow' /\ Creating'
      /\ pc' \notin {"find", "data", "dots", "slot", "entry"}
  BY <1>1, <1>2, <1>4, CopyOn DEF Resume
<1>6. P \cap (F \cup G) = {} /\ F \cap G = {} /\ \A c \in P : fat[1][c] # FREE
  BY TreeAtIs DEF Separate
<1>7. (\A c \in F : fat'[1][c] = fat[1][c]) /\ \A c \in P : fat'[1][c] = fat[1][c]
  BY <1>1, <1>3, <1>6, TreeAtIs
<1>8. FilesOf(F, L)'
  BY <1>1, <1>7, TreeAtIs, FilesStill
<1>9. DirsOf(G)'
  <2>1. END # FREE /\ END \notin Cluster
    BY Constants DEF FREE
  <2>2. Root \in G /\ \A c \in G : /\ fat[1][c] # FREE /\ (fat[1][c] \in Cluster => fat[1][c] \in G)
                                   /\ (\E i \in Slot : disk[c][i].kind = "bytes") => c = o.new
    BY TreeAtIs DEF DirsOf, HoldsData
  <2>3. \A c \in G : fat'[1][c] = fat[1][c] \/ fat'[1][c] = END
    BY <1>1, <1>3, TreeAtIs
  <2>4. ASSUME NEW c \in G
        PROVE  /\ fat'[1][c] # FREE /\ (fat'[1][c] \in Cluster => fat'[1][c] \in G)
               /\ (\E i \in Slot : disk'[c][i].kind = "bytes") => LinkWindow' /\ c = o'.new
    BY <1>1, <1>5, <2>1, <2>2, <2>3
  <2> QED BY <2>2, <2>4 DEF DirsOf, HoldsData
<1>10. EntriesOf(F, G, L)'
  <2>1. \A p \in LiveSlots' : p \in LiveSlots /\ EntryAt(p)' = EntryAt(p)
    BY <1>1 DEF LiveSlots, EntryAt
  <2> QED BY <1>2, <2>1, TreeAtIs, EntriesStill
<1>11. OnDirs(G)'
  BY <1>2, <1>3, <1>5, TreeAtIs DEF OnDirs, Extending
<1>12. Separate(F, G, P)'
  BY <1>5, <1>6, <1>7 DEF Separate
<1>13. Wanted'
  BY <1>2, <1>5, TreeAtIs DEF Wanted, Extending
<1>14. NewDir(P)' /\ NewFile(P, L)'
  BY <1>1, <1>2, <1>5, <1>7, TreeAtIs, MakingStill
<1>15. TreeOf(F, G, P, L)'
  BY <1>8, <1>9, <1>10, <1>11, <1>12, <1>13, <1>14 DEF TreeOf, InMaking
<1> QED BY <1>15, TreeAtIs DEF Tree

\* A file's last cluster is linked to the new one.
LEMMA LinkTree ==
  ASSUME NEW F, NEW G, NEW P, NEW L, TreeAt(F, G, P, L), SetFatCopy, mishap' = {}, wr.then = "linked"
  PROVE  Tree'
<1>1. /\ pc = "setfat" /\ disk' = disk /\ wr.cl \in Cluster /\ (wr.i = 1 \/ wr.i > 1)
      /\ \A d \in Cluster : d # wr.cl => fat'[1][d] = fat[1][d]
      /\ fat'[1][wr.cl] \in {fat[1][wr.cl], wr.val}
      /\ fat' = Written /\ wr.i = 1 => fat'[1][wr.cl] = wr.val
      /\ wr.i > 1 => fat'[1] = fat[1]
      /\ NextCopy \/ LastCopy \/ FreeCut \/ CopyCut
  BY CopyTreeFacts
<1>2. /\ Writing({"linked", "extlinked"}) /\ ~Removing /\ Creating /\ ~LinkWindow /\ ForData
      /\ (Ties <=> wr.i = 1)
  BY <1>1 DEF Writing, Removing, Creating, Resume, LinkWindow, Ties, ForData
<1>3. /\ wr.val = o.new /\ o.kind # "mkdir" /\ o.first # 0
      /\ o.first \in P /\ L[o.first] = o.len /\ o.prev \in P /\ fat[1][o.prev] = END
      /\ L[o.prev] > 0 /\ L[o.prev] = o.left /\ o.prev = o.new
      /\ (wr.i = 1 => wr.cl \in P \ {o.prev})
      /\ \A c \in P \ {o.prev} : disk[c][1].kind = "bytes" /\ Behind(c, P, L)
  BY <1>2, TreeAtIs DEF Course, Wanted, NewFile
<1>4. P \cap (F \cup G) = {} /\ F \cap G = {} /\ \A c \in P : fat[1][c] # FREE
  BY TreeAtIs DEF Separate
<1>5. /\ \A c \in F \cup G : fat'[1][c] = fat[1][c]
      /\ \A c \in P : fat'[1][c] = fat[1][c] \/ (wr.i = 1 /\ c = wr.cl /\ fat'[1][c] \in {fat[1][c], o.prev})
  BY <1>1, <1>3, <1>4, TreeAtIs
<1>6. FilesOf(F, L)' /\ DirsOf(G)' /\ EntriesOf(F, G, L)'
  BY <1>1, <1>2, <1>5, OutsideTree
<1>7. CASE NextCopy \/ LastCopy
  <2>1. /\ o' = o /\ fat' = Written /\ ForData' /\ ~Ties' /\ ~Linking' /\ ~Grown' /\ ~Removing'
        /\ (Obtaining' <=> Obtaining) /\ ~Fetched' /\ ~Writing({"alloced"})' /\ Creating'
        /\ ~Writing({"zero", "extlinked"})' /\ pc' \notin {"zero", "extlinked"}
        /\ pc' \notin {"find", "data", "dots", "slot", "entry"}
    BY <1>1, <1>2, <1>7, CopyOn DEF Resume
  <2>2. OnDirs(G)'
    BY <1>2, <2>1, TreeAtIs DEF OnDirs, Extending
  <2>3. \A c \in P : fat'[1][c] # FREE
    <3>1. FREE \notin Cluster
      BY Constants DEF FREE
    <3> QED BY <1>3, <1>4, <1>5, <3>1, TreeAtIs
  <2>4. Separate(F, G, P)'
    BY <1>4, <2>1, <2>3 DEF Separate
  <2>5. Wanted'
    BY <1>2, <2>1, TreeAtIs DEF Wanted, Extending
  <2>6. NewDir(P)'
    BY <1>3, <2>1 DEF NewDir
  <2>7. ASSUME NEW c \in P \ {o.prev} PROVE Behind(c, P, L)'
    <3>1. CASE Ties /\ c = wr.cl
      <4>1. L[c] > 1 /\ L[o.prev] = L[c] - 1
        BY <1>3, <3>1 DEF Behind
      <4>2. fat'[1][c] = o.prev
        BY <1>1, <1>2, <1>3, <2>1, <3>1
      <4> QED BY <1>3, <2>1, <4>1, <4>2 DEF Behind
    <3>2. CASE ~(Ties /\ c = wr.cl)
      <4>1. L[c] > 1 /\ fat[1][c] \in P /\ L[fat[1][c]] = L[c] - 1
        BY <1>3, <3>2 DEF Behind
      <4>2. fat'[1][c] = fat[1][c]
        BY <1>2, <1>5, <3>2
      <4> QED BY <2>1, <4>1, <4>2 DEF Behind
    <3> QED BY <3>1, <3>2
  <2>8. NewFile(P, L)'
    <3>1. fat'[1][o.prev] = END
      BY <1>3, <1>5
    <3> QED BY <1>1, <1>3, <2>1, <2>7, <3>1 DEF NewFile
  <2>9. TreeOf(F, G, P, L)'
    BY <1>6, <2>2, <2>4, <2>5, <2>6, <2>8 DEF TreeOf, InMaking
  <2> QED BY <2>9, TreeAtIs DEF Tree
<1>8. CASE \E r : Abort(r)
  <2>1. pc' = "idle"
    BY <1>8 DEF Abort, Return
  <2> QED BY <1>4, <1>6, <2>1, RestTree, TreeAtIs
<1>9. ~FreeCut
  BY DEF FreeCut
<1> QED BY <1>1, <1>7, <1>8, <1>9 DEF CopyCut

\* A directory's last cluster is linked to the new one.
LEMMA GrowTree ==
  ASSUME NEW F, NEW G, NEW P, NEW L, TreeAt(F, G, P, L), SetFatCopy, mishap' = {},
         wr.then = "extlinked"
  PROVE  Tree'
<1>1. /\ pc = "setfat" /\ disk' = disk /\ wr.cl \in Cluster /\ (wr.i = 1 \/ wr.i > 1)
      /\ \A d \in Cluster : d # wr.cl => fat'[1][d] = fat[1][d]
      /\ fat' = Written /\ wr.i = 1 => fat'[1][wr.cl] = wr.val
      /\ wr.i > 1 => fat'[1] = fat[1]
      /\ NextCopy \/ LastCopy \/ FreeCut \/ CopyCut
  BY CopyTreeFacts
<1>2. /\ Writing({"linked", "extlinked"}) /\ ~Removing /\ Creating /\ LinkWindow /\ ~Ties /\ ~ForData
      /\ Writing({"zero", "extlinked"}) /\ (Linking <=> wr.i = 1) /\ (Grown <=> wr.i > 1)
      /\ (Fetched <=> wr.i = 1)
  BY <1>1 DEF Writing, Removing, Creating, Resume, LinkWindow, Ties, ForData, Linking, Grown, Fetched
<1>3. wr.val = o.new
  BY <1>2, TreeAtIs DEF Course
<1>4. NextCopy \/ LastCopy
  BY <1>1, <1>2 DEF FreeCut, CopyCut, Abort, Harm
<1>5. /\ o' = o /\ fat' = Written /\ ~ForData' /\ ~Ties' /\ ~Linking' /\ Grown' /\ ~Removing'
      /\ (Obtaining' <=> Obtaining) /\ ~Fetched' /\ ~Writing({"alloced"})' /\ LinkWindow' /\ Creating'
      /\ pc' \notin {"find", "data", "dots", "slot", "entry"}
  BY <1>1, <1>2, <1>4, CopyOn DEF Resume
<1>6. /\ P \cap (F \cup G) = {} /\ F \cap G = {} /\ (\A c \in P : fat[1][c] # FREE)
      /\ (wr.i = 1 => o.new \notin F \cup G \cup P /\ fat[1][o.new] = END)
  BY <1>2, TreeAtIs DEF Separate
<1>7. wr.i = 1 => wr.cl \in G
  BY <1>1, <1>2, TreeAtIs DEF OnDirs
<1>8. o.new \in Cluster
  BY <1>2, TreeAtIs DEF Chains, NewInv
<1>9. PICK H \in SUBSET Cluster : H = G \cup {o.new}
  BY <1>8, TreeAtIs
<1>10. wr.i > 1 => H = G
  BY <1>2, <1>9, TreeAtIs DEF OnDirs
<1>11. /\ \A c \in F : fat'[1][c] = fat[1][c]
       /\ \A c \in P : fat'[1][c] = fat[1][c]
       /\ wr.i = 1 => fat'[1][wr.cl] = o.new
  BY <1>1, <1>3, <1>5, <1>6, <1>7, TreeAtIs
<1>12. FilesOf(F, L)'
  BY <1>1, <1>11, TreeAtIs, FilesStill
<1>13. DirsOf(H)'
  <2>1. END # FREE /\ END \notin Cluster /\ FREE \notin Cluster
    BY Constants DEF FREE
  <2>2. Root \in G /\ \A c \in G : /\ fat[1][c] # FREE /\ (fat[1][c] \in Cluster => fat[1][c] \in G)
                                   /\ (\E i \in Slot : disk[c][i].kind = "bytes") => c = o.new
    BY TreeAtIs DEF DirsOf, HoldsData
  <2>3. ASSUME NEW c \in H
        PROVE  /\ fat'[1][c] # FREE /\ (fat'[1][c] \in Cluster => fat'[1][c] \in H)
               /\ (\E i \in Slot : disk'[c][i].kind = "bytes") => LinkWindow' /\ c = o'.new
    <3>1. (\E i \in Slot : disk'[c][i].kind = "bytes") => LinkWindow' /\ c = o'.new
      BY <1>1, <1>5, <1>9, <2>2
    <3>2. CASE wr.i > 1
      BY <1>1, <1>10, <2>2, <3>1, <3>2
    <3>3. CASE wr.i = 1 /\ c = wr.cl
      BY <1>8, <1>9, <1>11, <2>1, <3>1, <3>3
    <3>4. CASE wr.i = 1 /\ c # wr.cl
      <4>1. fat'[1][c] = fat[1][c]
        BY <1>1, <3>4
      <4>2. CASE c \in G
        BY <1>9, <2>2, <3>1, <4>1, <4>2
      <4>3. CASE c = o.new
        BY <1>6, <2>1, <3>1, <3>4, <4>1, <4>3
      <4> QED BY <1>9, <4>2, <4>3
    <3> QED BY <1>1, <3>2, <3>3, <3>4
  <2> QED BY <1>9, <2>2, <2>3 DEF DirsOf, HoldsData
<1>14. EntriesOf(F, H, L)'
  <2>1. \A p \in LiveSlots' : p \in LiveSlots /\ EntryAt(p)' = EntryAt(p)
    BY <1>1 DEF LiveSlots, EntryAt
  <2> QED BY <1>2, <1>9, <2>1, TreeAtIs, EntriesStill
<1>15. OnDirs(H)'
  BY <1>2, <1>5, <1>9, TreeAtIs DEF OnDirs, Extending
<1>16. Separate(F, H, P)'
  BY <1>1, <1>5, <1>6, <1>9, <1>10, <1>11 DEF Separate
<1>17. Wanted'
  BY <1>2, <1>5, TreeAtIs DEF Wanted, Extending
<1>18. NewDir(P)' /\ NewFile(P, L)'
  BY <1>1, <1>2, <1>5, <1>11, TreeAtIs, MakingStill
<1>19. TreeOf(F, H, P, L)'
  BY <1>12, <1>13, <1>14, <1>15, <1>16, <1>17, <1>18 DEF TreeOf, InMaking
<1> QED BY <1>19, TreeAtIs DEF Tree

\* A removal goes on: nothing is in the making.
LEMMA RemovingTree ==
  ASSUME NEW F \in SUBSET Cluster, NEW G \in SUBSET Cluster, NEW L \in [Cluster -> Nat],
         (FilesOf(F, L) /\ DirsOf(G) /\ EntriesOf(F, G, L))', F \cap G = {},
         pc' \in {"empty", "free", "freed", "mark"} \/ Writing({"freed"})'
  PROVE  Tree'
<1>1. /\ ~Creating' /\ ~Writing({"alloced"})' /\ ~Writing({"zero", "extlinked"})'
      /\ pc' \notin {"find", "slot", "entry", "alloc", "alloced", "extlinked", "zero", "dots", "data",
                     "linked", "payload"}
      /\ \A K \in SUBSET (Resume \ {"freed"}) : ~Writing(K)'
  BY DEF Creating, Writing, Resume
<1>2. ~Obtaining' /\ ~Linking' /\ ~Grown' /\ ~Fetched' /\ ~ForData'
  BY <1>1 DEF Obtaining, Linking, Grown, Fetched, ForData, Writing
<1>3. OnDirs(G)'
  BY <1>1, <1>2 DEF OnDirs, Extending
<1>4. Separate(F, G, {})'
  BY <1>1, <1>2 DEF Separate
<1>5. InMaking({}, L)'
  BY <1>1, <1>2 DEF InMaking, Wanted, NewDir, NewFile, Extending
<1>6. TreeOf(F, G, {}, L)'
  BY <1>3, <1>4, <1>5 DEF TreeOf
<1> QED BY <1>6 DEF Tree

\* A cluster of the chain being freed is freed.
LEMMA FreeMarkTree ==
  ASSUME NEW F, NEW G, NEW P, NEW L, TreeAt(F, G, P, L), SetFatCopy, wr.then = "freed"
  PROVE  Tree'
<1>1. /\ pc = "setfat" /\ disk' = disk /\ wr.cl \in Cluster /\ (wr.i = 1 \/ wr.i > 1)
      /\ \A d \in Cluster : d # wr.cl => fat'[1][d] = fat[1][d]
      /\ fat'[1][wr.cl] \in {fat[1][wr.cl], wr.val}
      /\ wr.i > 1 => fat'[1] = fat[1]
      /\ NextCopy \/ LastCopy \/ FreeCut \/ CopyCut
  BY CopyTreeFacts
<1>2. Writing({"freed"}) /\ Removing /\ (wr.i = 1 => Unread)
  BY <1>1 DEF Writing, Removing, Unread
<1>3. /\ wr.cl = o.cl /\ wr.val = FREE /\ o.steps > 0 /\ o.kind \in Removals /\ FreeWindow /\ ~LinkWindow
  BY <1>1, <1>2, TreeAtIs DEF Course, FreeWindow, LinkWindow
<1>4. /\ o' = o /\ FreeWindow' /\ (pc' \in {"empty", "free", "freed", "mark"} \/ Writing({"freed"})')
  <2>1. NextCopy \/ LastCopy \/ FreeCut
    BY <1>1 DEF CopyCut
  <2> QED BY <1>1, <1>3, <2>1 DEF NextCopy, LastCopy, FreeCut, Goto, FreeWindow, Writing
<1>5. /\ o.at \in Cluster /\ Victim.kind \in Live /\ Victim.first = o.victim /\ o.index \in Slot /\ OneOwner
      /\ (wr.i = 1 => o.cl # Root /\ (o.cl \in Targets => o.cl = o.victim))
  BY <1>1, <1>2, <1>3, TreeAtIs DEF Chains, RemoveInv, Frames
<1>6. F \cap G = {}
  BY TreeAtIs DEF Separate
<1>7. CASE fat'[1] = fat[1]
  <2>1. FilesOf(F, L)' /\ DirsOf(G)' /\ EntriesOf(F, G, L)'
    BY <1>1, <1>3, <1>4, <1>7, TreeAtIs, TreeStill
  <2> QED BY <1>4, <1>6, <2>1, RemovingTree, TreeAtIs
<1>8. ASSUME wr.i = 1, fat'[1][o.cl] = FREE PROVE Tree'
  <2> DEFINE v == <<o.at, o.index>>
  <2>1. o.cl \in Cluster /\ \A d \in Cluster : d # o.cl => fat'[1][d] = fat[1][d]
    BY <1>1, <1>3
  <2>2. PICK H \in SUBSET Cluster : H = F \ {o.cl}
    BY TreeAtIs
  <2>3. PICK K \in SUBSET Cluster : K = G \ {o.cl}
    BY TreeAtIs
  <2>4. v \in LiveSlots /\ EntryAt(v) = Victim
    BY <1>5 DEF LiveSlots, Victim, EntryAt
  <2>5. o.cl \in Targets => o.cl = o.victim /\ v \in HeadSlots
    <3>1. 0 \notin Cluster
      BY Constants
    <3> QED BY <1>5, <1>8, <2>1, <2>4, <3>1 DEF HeadSlots
  <2>6. \A c \in Cluster : fat[1][c] # o.cl
    <3> SUFFICES ASSUME NEW c \in Cluster, fat[1][c] = o.cl PROVE FALSE
      OBVIOUS
    <3>1. c \in FatLinks
      BY <2>1 DEF FatLinks
    <3>2. o.cl \in Targets
      BY <3>1, TargetsAre
    <3> QED BY <1>5, <2>4, <2>5, <3>1, <3>2 DEF OneOwner
  <2>7. \A p \in LiveSlots : p # v => EntryAt(p).first # o.cl
    <3> SUFFICES ASSUME NEW p \in LiveSlots, p # v, EntryAt(p).first = o.cl PROVE FALSE
      OBVIOUS
    <3>1. p \in HeadSlots
      BY <2>1, Constants DEF HeadSlots
    <3>2. o.cl \in Targets
      BY <3>1, TargetsAre
    <3> QED BY <1>5, <2>4, <2>5, <3>1, <3>2 DEF OneOwner
  <2>8. FilesOf(H, L)'
    BY <1>1, <2>1, <2>2, <2>6, TreeAtIs DEF FilesOf, Follows
  <2>9. DirsOf(K)'
    <3>1. Root \in G /\ \A c \in G : /\ fat[1][c] # FREE /\ (fat[1][c] \in Cluster => fat[1][c] \in G)
                                     /\ ~\E i \in Slot : disk[c][i].kind = "bytes"
      BY <1>3, TreeAtIs DEF DirsOf, HoldsData
    <3>2. \A c \in K : /\ fat'[1][c] # FREE /\ (fat'[1][c] \in Cluster => fat'[1][c] \in K)
                       /\ ~\E i \in Slot : disk'[c][i].kind = "bytes"
      BY <1>1, <2>1, <2>3, <2>6, <3>1, TreeAtIs
    <3> QED BY <1>5, <1>8, <2>3, <3>1, <3>2 DEF DirsOf, HoldsData
  <2>10. ASSUME NEW p \in LiveSlots' PROVE Leads(EntryAt(p), H, K, L)' \/ Leaving(p)'
    <3>1. p \in LiveSlots /\ EntryAt(p)' = EntryAt(p)
      BY <1>1 DEF LiveSlots, EntryAt
    <3>2. Leads(EntryAt(p), F, G, L) \/ Leaving(p)
      BY <3>1, TreeAtIs DEF EntriesOf
    <3>3. CASE EntryAt(p).first # o.cl /\ Leads(EntryAt(p), F, G, L)
      BY <2>2, <2>3, <3>1, <3>3 DEF Leads
    <3>4. CASE p = v /\ (EntryAt(p).first = o.cl \/ Leaving(p))
      <4>1. FREE \notin Cluster /\ o.cl \in FreeOnes' /\ FreeOnes \subseteq FreeOnes'
        <5>1. o.cl \in FreeOnes'
          BY <1>8, <2>1 DEF FreeOnes
        <5>2. \A d \in FreeOnes : d \in FreeOnes'
          BY <1>8, <2>1 DEF FreeOnes
        <5> QED BY <5>1, <5>2, Constants DEF FREE
      <4>2. ASSUME EntryAt(p).kind = "dir"
            PROVE  EntryAt(p).first \in FreeOnes' /\ ~\E i \in Slot : disk[EntryAt(p).first][i].kind = "bytes"
        <5>1. CASE Leaving(p)
          BY <4>1, <4>2, <5>1 DEF Leaving, HoldsData
        <5>2. CASE EntryAt(p).first = o.cl /\ Leads(EntryAt(p), F, G, L)
          <6>1. o.cl \in G
            BY <2>1, <4>2, <5>2, Constants DEF Leads
          <6> QED BY <1>3, <4>1, <5>2, <6>1, TreeAtIs DEF DirsOf, HoldsData
        <5> QED BY <3>2, <3>4, <5>1, <5>2
      <4> QED BY <1>1, <1>4, <3>1, <3>4, <4>2 DEF Leaving, HoldsData
    <3>5. Leaving(p) => p = v
      BY DEF Leaving
    <3> QED BY <2>7, <3>1, <3>2, <3>3, <3>4, <3>5
  <2>11. EntriesOf(H, K, L)'
    BY <2>10 DEF EntriesOf
  <2>12. H \cap K = {}
    BY <1>6, <2>2, <2>3
  <2> QED BY <1>4, <2>8, <2>9, <2>11, <2>12, RemovingTree, TreeAtIs
<1>9. wr.i = 1 /\ fat'[1][o.cl] # FREE => fat'[1] = fat[1]
  <2>1. fat' = fat \/ fat' = Written
    BY CopyWritten, TreeAtIs
  <2>2. fat' = Written /\ wr.i = 1 => fat'[1][wr.cl] = wr.val
    BY CopyTreeFacts
  <2> QED BY <1>3, <2>1, <2>2
<1> QED BY <1>1, <1>7, <1>8, <1>9

LEMMA SetFatCopyTree ==
  ASSUME NEW F, NEW G, NEW P, NEW L, TreeAt(F, G, P, L), SetFatCopy, mishap' = {} PROVE Tree'
<1>1. wr.then \in Resume
  BY TreeAtIs DEF SetFatCopy, Control
<1> QED BY <1>1, MarkEndTree, ZeroMarkTree, LinkTree, GrowTree, FreeMarkTree DEF Resume

\* A removal goes on without a write.
LEMMA RemoveOnTree ==
  ASSUME NEW F, NEW G, NEW P, NEW L, TreeAt(F, G, P, L), fat'[1] = fat[1], disk' = disk, ~LinkWindow,
         FreeWindow => FreeWindow' /\ o'.at = o.at /\ o'.index = o.index,
         pc' \in {"empty", "free", "freed", "mark"} \/ Writing({"freed"})'
  PROVE  Tree'
<1>1. FilesOf(F, L)' /\ DirsOf(G)' /\ EntriesOf(F, G, L)' /\ F \cap G = {}
  BY TreeAtIs, TreeStill DEF Separate
<1> QED BY <1>1, RemovingTree, TreeAtIs

LEMMA EmptyTree ==
  ASSUME NEW F, NEW G, NEW P, NEW L, TreeAt(F, G, P, L), EmptyScan \/ EmptyOver, mishap' = {}
  PROVE  Tree'
<1>1. /\ fat'[1] = fat[1] /\ disk' = disk /\ ~FreeWindow /\ ~LinkWindow
  BY DEF EmptyScan, EmptyOver, Still, FreeWindow, LinkWindow
<1>2. CASE Return("notempty")
  <2>1. pc' = "idle"
    BY <1>2 DEF Return
  <2> QED BY <1>1, <2>1, OverTree
<1>3. CASE Emptied
  <2>1. pc' = "free"
    BY <1>3 DEF Emptied, Goto
  <2> QED BY <1>1, <2>1, RemoveOnTree
<1>4. ASSUME NEW f, Goto("empty", f) PROVE Tree'
  <2>1. pc' = "empty"
    BY <1>4 DEF Goto
  <2> QED BY <1>1, <2>1, RemoveOnTree
<1> QED BY <1>2, <1>3, <1>4 DEF EmptyScan, EmptyOver

LEMMA FreeTree ==
  ASSUME NEW F, NEW G, NEW P, NEW L, TreeAt(F, G, P, L), FreeStep \/ FreeStray \/ FreeOver \/ Freed
  PROVE  Tree'
<1>1. /\ fat'[1] = fat[1] /\ disk' = disk /\ pc \in {"free", "freed"} /\ ~LinkWindow /\ o \in Frames
  BY TreeAtIs DEF FreeStep, FreeStray, FreeOver, Freed, Still, LinkWindow
<1>2. CASE Goto("mark", o)
  <2>1. pc' = "mark" /\ o' = o
    BY <1>2 DEF Goto
  <2> QED BY <1>1, <2>1, RemoveOnTree DEF FreeWindow
<1>3. CASE Goto("free", [o EXCEPT !.cl = o.next])
  <2>1. /\ pc' = "free" /\ o'.at = o.at /\ o'.index = o.index /\ o'.kind = o.kind /\ o'.steps = o.steps
    BY <1>1, <1>3 DEF Goto, Frames
  <2> QED BY <1>1, <2>1, RemoveOnTree DEF FreeWindow
<1>4. ASSUME NEW n, SetFat([o EXCEPT !.next = n, !.steps = @ + 1], o.cl, FREE, "freed") PROVE Tree'
  <2>1. /\ pc' = "setfat" /\ o'.at = o.at /\ o'.index = o.index /\ o'.kind = o.kind
        /\ o'.steps = o.steps + 1 /\ wr'.then = "freed" /\ o.steps \in Nat
    BY <1>1, <1>4 DEF SetFat, Frames
  <2>2. FreeWindow => FreeWindow'
    BY <2>1 DEF FreeWindow
  <2>3. Writing({"freed"})'
    BY <2>1 DEF Writing
  <2> QED BY <1>1, <2>1, <2>2, <2>3, RemoveOnTree
<1> QED BY <1>2, <1>3, <1>4 DEF FreeStep, FreeStray, FreeOver, Freed

\* The entry goes: it was the only one that led to nothing.
LEMMA MarkDeletedTree ==
  ASSUME NEW F, NEW G, NEW P, NEW L, TreeAt(F, G, P, L), MarkDeleted, mishap' = {}
  PROVE  Tree'
<1> DEFINE gone == [disk EXCEPT ![o.at][o.index] = Blank("deleted")]
           v == <<o.at, o.index>>
<1>1. /\ fat'[1] = fat[1] /\ Removing /\ ~LinkWindow /\ MediaOK /\ o.index \in Slot
      /\ disk' \in {disk, gone} /\ ((Return("ok") /\ disk' = gone) \/ Abort("io"))
  BY TreeAtIs DEF MarkDeleted, Removing, LinkWindow, Frames
<1>2. o.at \in Cluster /\ EntryAt(v).kind \in Live
  BY <1>1, TreeAtIs DEF Chains, RemoveInv, Victim
<1>3. pc' = "idle"
  BY <1>1 DEF Abort, Return
<1>4. CASE disk' = disk /\ Abort("io")
  BY <1>1, <1>4, AbortTree
<1>5. CASE disk' = gone
  <2>1. \A c \in Cluster, i \in Slot :
          disk'[c][i] = IF <<c, i>> = v THEN Blank("deleted") ELSE disk[c][i]
    BY <1>1, <1>2, <1>5 DEF MediaOK
  <2>2. Blank("deleted").kind \notin Live /\ Blank("deleted").kind # "bytes" /\ "bytes" \notin Live
    BY DEF Blank, Live
  <2> HIDE DEF gone
  <2>3. FilesOf(F, L)'
    <3>1. 1 \in Slot
      BY Constants
    <3>2. \A c \in F : <<c, 1>> # v
      BY <1>2, <2>2, TreeAtIs DEF FilesOf, EntryAt
    <3> QED BY <1>1, <2>1, <3>1, <3>2, TreeAtIs, FilesStill
  <2>4. DirsOf(G)'
    BY <1>1, <2>1, <2>2, TreeAtIs, TreeDirsStill
  <2>5. ASSUME NEW p \in LiveSlots' PROVE Leads(EntryAt(p), F, G, L)'
    <3>1. p \in Cluster \X Slot /\ p = <<p[1], p[2]>>
      BY DEF LiveSlots
    <3>2. p # v /\ p \in LiveSlots /\ EntryAt(p)' = EntryAt(p)
      BY <2>1, <2>2, <3>1 DEF LiveSlots, EntryAt
    <3>3. Leads(EntryAt(p), F, G, L)
      BY <3>2, TreeAtIs DEF EntriesOf, Leaving
    <3> QED BY <3>2, <3>3 DEF Leads
  <2>6. EntriesOf(F, G, L)'
    BY <2>5 DEF EntriesOf
  <2>7. F \cap G = {}
    BY TreeAtIs DEF Separate
  <2> QED BY <1>3, <2>3, <2>4, <2>6, <2>7, RestTree, TreeAtIs
<1> QED BY <1>1, <1>4, <1>5

LEMMA CrashTree ==
  ASSUME NEW F, NEW G, NEW P, NEW L, TreeAt(F, G, P, L), Crash, mishap' = {} PROVE Tree'
<1>1. fat'[1] = fat[1] /\ disk' = disk /\ pc' = "off" /\ ~FreeWindow /\ ~LinkWindow
  BY DEF Crash, Harm
<1> QED BY <1>1, OverTree

LEMMA MountTree == ASSUME NEW F, NEW G, NEW P, NEW L, TreeAt(F, G, P, L), Mount PROVE Tree'
<1>1. fat'[1] = fat[1] /\ disk' = disk /\ pc' \in {"idle", "off"} /\ ~FreeWindow /\ ~LinkWindow
  BY DEF Mount, FreeWindow, LinkWindow
<1> QED BY <1>1, OverTree

LEMMA StutterTree == ASSUME Tree, UNCHANGED vars PROVE Tree'
<1>1. PICK F, G, P \in SUBSET Cluster, L \in [Cluster -> Nat] : TreeOf(F, G, P, L)
  BY DEF Tree
<1>2. fat' = fat /\ disk' = disk /\ pc' = pc /\ o' = o /\ wr' = wr
  BY DEF vars
<1>3. /\ LiveSlots' = LiveSlots /\ FreeOnes' = FreeOnes /\ FreeWindow' = FreeWindow
      /\ LinkWindow' = LinkWindow /\ (Creating' <=> Creating) /\ (Removing' <=> Removing)
      /\ (Obtaining' <=> Obtaining) /\ (Linking' <=> Linking) /\ (Grown' <=> Grown)
      /\ (Fetched' <=> Fetched) /\ (ForData' <=> ForData) /\ (Ties' <=> Ties)
  BY <1>2 DEF LiveSlots, FreeOnes, FreeWindow, LinkWindow, Creating, Removing, Writing, Obtaining, Linking,
              Grown, Fetched, ForData, Ties
<1>4. FilesOf(F, L)' /\ DirsOf(G)'
  BY <1>1, <1>2, <1>3 DEF TreeOf, FilesOf, Follows, DirsOf, HoldsData
<1>5. EntriesOf(F, G, L)'
  BY <1>1, <1>2, <1>3 DEF TreeOf, EntriesOf, EntryAt, Leads, Leaving, HoldsData
<1>6. OnDirs(G)' /\ Separate(F, G, P)'
  BY <1>1, <1>2, <1>3 DEF TreeOf, OnDirs, Separate, Extending, Writing
<1>7. Wanted' /\ NewDir(P)' /\ NewFile(P, L)'
  BY <1>1, <1>2, <1>3 DEF TreeOf, InMaking, Wanted, NewDir, NewFile, Behind, HoldsData, Extending, Writing
<1>8. TreeOf(F, G, P, L)'
  BY <1>4, <1>5, <1>6, <1>7 DEF TreeOf, InMaking
<1> QED BY <1>8 DEF Tree

\* A new volume: the root is a directory, and nothing else is anything.
LEMMA InitTree == Init => TreeInv
<1> SUFFICES ASSUME Init PROVE TreeInv
  OBVIOUS
<1>1. ChainInv
  BY InitChains
<1>2. pc = "off" /\ Root \in Cluster /\ 1 \in Copy /\ END # FREE /\ END \notin Cluster
  BY Constants DEF Init, FREE
<1>3. \A c \in Cluster : fat[1][c] = IF c = Root THEN END ELSE FREE
  BY <1>2 DEF Init
<1>4. \A c \in Cluster, i \in Slot : disk[c][i].kind = "unused"
  BY DEF Init, Zeroed, Blank
<1>5. LiveSlots = {}
  BY <1>4 DEF LiveSlots, Live
<1>6. PICK G \in SUBSET Cluster : G = {Root}
  BY <1>2
<1>7. PICK L \in [Cluster -> Nat] : TRUE
  <2>1. [c \in Cluster |-> 0] \in [Cluster -> Nat]
    OBVIOUS
  <2> QED BY <2>1
<1>8. FilesOf({}, L) /\ EntriesOf({}, G, L)
  BY <1>5 DEF FilesOf, EntriesOf
<1>9. DirsOf(G)
  BY <1>2, <1>3, <1>4, <1>6 DEF DirsOf, HoldsData
<1>10. ~Creating /\ ~Removing /\ \A K : ~Writing(K)
  BY <1>2 DEF Creating, Removing, Writing, Resume
<1>11. OnDirs(G) /\ Separate({}, G, {})
  BY <1>2, <1>10 DEF OnDirs, Obtaining, Extending, Linking, Grown, Separate, Fetched
<1>12. InMaking({}, L)
  BY <1>2, <1>10 DEF InMaking, Wanted, NewDir, NewFile, Obtaining, Extending, ForData
<1>13. TreeOf({}, G, {}, L)
  BY <1>8, <1>9, <1>11, <1>12 DEF TreeOf
<1>14. Tree
  BY <1>13 DEF Tree
<1> QED BY <1>1, <1>14 DEF TreeInv

LEMMA StepTree ==
  ASSUME NEW F, NEW G, NEW P, NEW L, TreeAt(F, G, P, L), TypeInv', Step, mishap' = {} PROVE Tree'
<1>1. CASE FindScan \/ FindOver \/ DataDone \/ WriteMore \/ CopyMore \/ WritePayload \/ WriteDots
  BY <1>1, FindTree, DataDoneTree, WriteMoreTree, CopyMoreTree, WritePayloadTree, WriteDotsTree
<1>2. CASE SetFatCopy \/ SetFatStray \/ Alloc \/ Alloced \/ Linked
  BY <1>2, SetFatCopyTree, SetFatStrayTree, AllocTree, AllocedTree, LinkedTree
<1>3. CASE SlotScan \/ SlotOver \/ WriteZeroes \/ WriteEntry
  BY <1>3, SlotTree, WriteZeroesTree, WriteEntryTree
<1>4. CASE EmptyScan \/ EmptyOver \/ FreeStep \/ FreeStray \/ FreeOver \/ Freed \/ MarkDeleted
  BY <1>4, EmptyTree, FreeTree, MarkDeletedTree
<1> QED BY <1>1, <1>2, <1>3, <1>4 DEF Step

LEMMA NextTree == ASSUME TreeInv, [Next]_vars PROVE TreeInv'
<1>1. ChainInv'
  BY NextChains DEF TreeInv
<1> SUFFICES ASSUME mishap' = {} PROVE Tree'
  BY <1>1 DEF TreeInv
<1>2. CASE Next
  <2>1. mishap = {}
    BY <1>2, MishapGrows
  <2>2. PICK F, G, P \in SUBSET Cluster, L \in [Cluster -> Nat] : TreeOf(F, G, P, L)
    BY <2>1 DEF TreeInv, Tree
  <2>3. TreeAt(F, G, P, L)
    BY <2>1, <2>2 DEF TreeAt, TreeInv
  <2>4. TypeInv'
    BY <1>1 DEF ChainInv
  <2> QED BY <1>2, <2>3, <2>4, StepTree, CallTree, CrashTree, MountTree DEF Next
<1>3. CASE UNCHANGED vars
  BY <1>3, StutterTree DEF TreeInv, vars
<1> QED BY <1>2, <1>3

----------------------------------------------------------------------------
(* What the sets and the numbers say of a walk along a chain.  A walk is a recursive    *)
(* function: what holds at every step of it follows from a least counterexample.        *)

LEMMA LeastNumber == ASSUME NEW S, S \subseteq Nat, S # {} PROVE \E m \in S : \A i \in S : m <= i
<1>1. PICK R : R = OpToRel(<, Nat)
  OBVIOUS
<1>2. IsWellFoundedOn(R, Nat)
  BY <1>1, NatLessThanWellFounded
<1>3. \A x, y \in Nat : y < x => <<y, x>> \in R
  BY <1>1 DEF OpToRel
<1>4. PICK x \in S : \A y \in S : ~ (<<y, x>> \in R)
  BY <1>2, WFMin
<1>5. ASSUME NEW y \in S PROVE x <= y
  <2>1. x \in Nat /\ y \in Nat /\ ~(y < x)
    BY <1>3, <1>4
  <2> QED BY <2>1
<1> QED BY <1>5

\* The number before the least one that is missing, unless that is the first.
LEMMA FirstMissing ==
  ASSUME NEW n \in Nat, NEW S, NEW m \in 0 .. n, m \notin S
  PROVE  \/ 0 \notin S
         \/ \E k \in 1 .. n : k \notin S /\ k - 1 \in S /\ k - 1 \in 0 .. n
<1>1. PICK B : B = {k \in 0 .. n : k \notin S}
  OBVIOUS
<1>2. B \subseteq Nat /\ B # {}
  BY <1>1
<1>3. PICK k \in B : \A i \in B : k <= i
  BY <1>2, LeastNumber
<1>4. CASE k # 0
  <2>1. k \in 1 .. n /\ k - 1 \in 0 .. n /\ ~(k <= k - 1)
    BY <1>1, <1>4
  <2> QED BY <1>1, <1>3, <2>1
<1> QED BY <1>1, <1>4

Going(c) == IF InChain(c) THEN NextOf(c) ELSE END
TrailIs(t, c, n) == t = [k \in 0 .. n |-> IF k = 0 THEN c ELSE Going(t[k - 1])]

LEMMA TrailExists == ASSUME NEW c, NEW n \in Nat PROVE \E t : TrailIs(t, c, n)
<1> SUFFICES ASSUME ~\E t : TrailIs(t, c, n) PROVE FALSE
  OBVIOUS
<1>1. PICK S : S = {m \in 0 .. n : \E t : TrailIs(t, c, m)}
  OBVIOUS
<1>2. n \in 0 .. n /\ n \notin S
  BY <1>1
<1>3. 0 \in S
  <2>1. PICK t : t = [k \in 0 .. 0 |-> c]
    OBVIOUS
  <2>2. TrailIs(t, c, 0)
    <3>1. \A k \in 0 .. 0 : k = 0
      OBVIOUS
    <3> QED BY <2>1, <3>1 DEF TrailIs
  <2> QED BY <1>1, <2>2
<1>4. PICK m \in 1 .. n : m \notin S /\ m - 1 \in S
  BY <1>2, <1>3, FirstMissing
<1>5. PICK h \in Nat : h = m - 1 /\ m = h + 1
  OBVIOUS
<1>6. PICK t : TrailIs(t, c, h)
  BY <1>1, <1>4, <1>5
<1>7. PICK u : u = [k \in 0 .. m |-> IF k = m THEN Going(t[h]) ELSE t[k]]
  OBVIOUS
<1>8. ASSUME NEW k \in 0 .. m PROVE u[k] = IF k = 0 THEN c ELSE Going(u[k - 1])
  <2>1. CASE k = m
    <3>1. k - 1 = h /\ h \in 0 .. m /\ h # m /\ m # 0
      BY <1>5, <2>1
    <3> QED BY <1>7, <2>1, <3>1
  <2>2. CASE k # m /\ k # 0
    <3>1. k \in 0 .. h /\ k - 1 \in 0 .. m /\ k - 1 # m
      BY <1>5, <2>2
    <3>2. t[k] = Going(t[k - 1])
      BY <1>6, <2>2, <3>1 DEF TrailIs
    <3> QED BY <1>7, <2>2, <3>1, <3>2
  <2>3. CASE k # m /\ k = 0
    <3>1. 0 \in 0 .. h
      BY <1>5
    <3>2. t[0] = c
      BY <1>6, <3>1 DEF TrailIs
    <3> QED BY <1>7, <2>3, <3>2
  <2> QED BY <2>1, <2>2, <2>3
<1>9. TrailIs(u, c, m)
  BY <1>7, <1>8 DEF TrailIs
<1> QED BY <1>1, <1>4, <1>9

LEMMA TrailOf ==
  ASSUME NEW c, NEW n \in Nat
  PROVE  LET t == Trail(c, n) IN
         /\ DOMAIN t = 0 .. n /\ t[0] = c
         /\ \A k \in 1 .. n : t[k] = Going(t[k - 1])
<1>1. PICK t : t = CHOOSE x : TrailIs(x, c, n)
  OBVIOUS
<1>2. TrailIs(t, c, n)
  BY <1>1, TrailExists, Zenon
<1>3. Trail(c, n) = t
  BY <1>1 DEF Trail, TrailIs, Going
<1>4. DOMAIN t = 0 .. n /\ t[0] = c /\ \A k \in 1 .. n : t[k] = Going(t[k - 1])
  BY <1>2 DEF TrailIs
<1> QED BY <1>3, <1>4

LEMMA ChainNumbers ==
  ASSUME MediaOK
  PROVE  /\ \A c \in Cluster : InChain(c) /\ NextOf(c) \in Link
         /\ \A c \in Link : InChain(c) => c \in Cluster
         /\ ~InChain(END) /\ ~InChain(0) /\ END \notin Cluster /\ FREE \notin Cluster
<1>1. \A c \in Cluster : InChain(c)
  BY VolumeAssumption DEF Cluster, InChain, END
<1>2. \A c \in Cluster : NextOf(c) \in Link
  BY Constants DEF NextOf, MediaOK
<1>3. \A c \in Link : InChain(c) => c \in Cluster
  BY DEF Link, InChain, END, FREE
<1>4. ~InChain(END) /\ ~InChain(0) /\ END \notin Cluster /\ FREE \notin Cluster
  BY VolumeAssumption DEF Cluster, InChain, END, FREE
<1> QED BY <1>1, <1>2, <1>3, <1>4

\* A walk stays in a set of clusters that no link leads out of.
LEMMA TrailStays ==
  ASSUME MediaOK, NEW S \in SUBSET Cluster, \A d \in S : fat[1][d] \in Cluster => fat[1][d] \in S,
         NEW c, InChain(c) => c \in S, NEW n \in Nat, NEW m \in 0 .. n, InChain(Trail(c, n)[m])
  PROVE  Trail(c, n)[m] \in S
<1>1. PICK t : t = Trail(c, n)
  OBVIOUS
<1>2. t[0] = c /\ \A k \in 1 .. n : t[k] = Going(t[k - 1])
  BY <1>1, TrailOf
<1>3. PICK U : U = {k \in 0 .. n : InChain(t[k]) => t[k] \in S}
  OBVIOUS
<1>4. SUFFICES ASSUME m \notin U PROVE FALSE
  BY <1>1, <1>3
<1>5. 0 \in U
  BY <1>2, <1>3
<1>6. PICK k \in 1 .. n : k \notin U /\ k - 1 \in U
  BY <1>4, <1>5, FirstMissing
<1>7. k \in 0 .. n /\ InChain(t[k]) /\ t[k] \notin S
  BY <1>3, <1>6
<1>8. InChain(t[k - 1]) /\ t[k] = NextOf(t[k - 1])
  BY <1>2, <1>7, ChainNumbers DEF Going
<1>9. t[k - 1] \in S
  BY <1>3, <1>6, <1>8
<1> QED BY <1>7, <1>8, <1>9, ChainNumbers DEF NextOf

\* A walk along a file is at its end after as many steps as there are clusters.
LEMMA TrailEnds ==
  ASSUME MediaOK, NEW F \in SUBSET Cluster, NEW L \in [Cluster -> Nat], FilesOf(F, L),
         NEW c \in F, NEW n \in Nat, L[c] = n, NEW m \in 0 .. n
  PROVE  IF m < n THEN Trail(c, n)[m] \in F ELSE Trail(c, n)[m] = END
<1>1. PICK t : t = Trail(c, n)
  OBVIOUS
<1>2. t[0] = c /\ \A k \in 1 .. n : t[k] = Going(t[k - 1])
  BY <1>1, TrailOf
<1>3. n > 0
  BY DEF FilesOf, Follows
<1>4. PICK U : U = {k \in 0 .. n : IF k < n THEN t[k] \in F /\ L[t[k]] = n - k ELSE t[k] = END}
  OBVIOUS
<1>5. SUFFICES ASSUME m \notin U PROVE FALSE
  BY <1>1, <1>4
<1>6. 0 \in U
  BY <1>2, <1>3, <1>4
<1>7. PICK k \in 1 .. n : k \notin U /\ k - 1 \in U
  BY <1>5, <1>6, FirstMissing
<1>8. PICK d : d = t[k - 1]
  OBVIOUS
<1>9. k \in 0 .. n /\ k - 1 < n /\ d \in F /\ L[d] = n - (k - 1)
  BY <1>4, <1>7, <1>8
<1>10. t[k] = fat[1][d] /\ Follows(d, F, L)
  BY <1>2, <1>8, <1>9, ChainNumbers DEF Going, NextOf, FilesOf
<1>11. CASE k < n
  <2>1. L[d] # 1 /\ L[d] - 1 = n - k
    BY <1>9, <1>11
  <2>2. t[k] \in F /\ L[t[k]] = n - k
    BY <1>10, <2>1 DEF Follows
  <2> QED BY <1>4, <1>7, <1>9, <1>11, <2>2
<1>12. CASE ~(k < n)
  <2>1. L[d] = 1
    BY <1>9, <1>12
  <2>2. t[k] = END
    BY <1>10, <2>1 DEF Follows
  <2> QED BY <1>4, <1>7, <1>9, <1>12, <2>2
<1> QED BY <1>11, <1>12

LEMMA IntactTree == TreeInv => TreeIntact
<1> SUFFICES ASSUME TreeInv, mishap = {} PROVE TreeIntact
  BY DEF TreeIntact
<1>1. PICK F, G, P \in SUBSET Cluster, L \in [Cluster -> Nat] : TreeOf(F, G, P, L)
  BY DEF TreeInv, Tree
<1>2. FilesOf(F, L) /\ DirsOf(G) /\ EntriesOf(F, G, L) /\ MediaOK /\ NumClusters \in Nat
  BY <1>1, VolumeAssumption DEF TreeOf, TreeInv, ChainInv, TypeInv, TypeOK
<1>3. ASSUME NEW d \in LiveDirs, NEW k \in 0 .. NumClusters,
             InChain(Trail(d, NumClusters)[k]), HoldsData(Trail(d, NumClusters)[k])
      PROVE  LinkWindow /\ Trail(d, NumClusters)[k] = o.new
  <2>1. PICK c : c = Trail(d, NumClusters)[k]
    OBVIOUS
  <2>2. CASE InChain(d) => d \in G
    <3>1. c \in G
      BY <1>2, <1>3, <2>1, <2>2, TrailStays DEF DirsOf
    <3> QED BY <1>2, <1>3, <2>1, <3>1 DEF DirsOf
  <2>3. CASE InChain(d) /\ d \notin G
    <3>1. d # Root
      BY <1>2, <2>3 DEF DirsOf
    <3>2. PICK p \in LiveSlots : EntryAt(p).kind = "dir" /\ EntryAt(p).first = d
      BY <3>1 DEF LiveDirs
    <3>3. d # 0
      BY <1>2, <2>3, ChainNumbers
    <3>4. Leaving(p)
      BY <1>2, <2>3, <3>2, <3>3 DEF EntriesOf, Leads
    <3>5. d \in FreeOnes /\ ~HoldsData(d)
      BY <3>2, <3>4 DEF Leaving
    <3>6. PICK S \in SUBSET Cluster : S = {d}
      BY <3>5 DEF FreeOnes
    <3>7. \A x \in S : fat[1][x] \in Cluster => fat[1][x] \in S
      BY <1>2, <3>5, <3>6, ChainNumbers DEF FreeOnes
    <3>8. c \in S
      BY <1>2, <1>3, <2>1, <3>6, <3>7, TrailStays
    <3> QED BY <1>3, <2>1, <3>5, <3>6, <3>8
  <2> QED BY <2>2, <2>3
<1>4. ASSUME NEW d \in LiveDirs PROVE DOMAIN Trail(d, NumClusters) = 0 .. NumClusters
  BY <1>2, TrailOf
<1>5. ASSUME NEW p \in LiveSlots, EntryAt(p).kind = "file", ~(FreeWindow /\ p = <<o.at, o.index>>),
             NEW k \in 0 .. EntryAt(p).len
      PROVE  LET n == EntryAt(p).len  at == Trail(EntryAt(p).first, n) IN
             (InChain(at[k]) <=> k < n) /\ (k < n => disk[at[k]][1].kind = "bytes")
  <2>1. PICK n : n = EntryAt(p).len
    OBVIOUS
  <2>2. n \in Nat
    <3>1. EntryAt(p) \in Entry /\ EntryAt(p).kind \in Live
      BY <1>2 DEF LiveSlots, EntryAt, MediaOK
    <3>2. n \in 0 .. MaxLen
      BY <2>1, <3>1 DEF Entry, Live
    <3> QED BY <3>2, VolumeAssumption
  <2>3. Leads(EntryAt(p), F, G, L)
    BY <1>2, <1>5 DEF EntriesOf, Leaving
  <2>4. PICK c : c = EntryAt(p).first
    OBVIOUS
  <2>5. PICK t : t = Trail(c, n)
    OBVIOUS
  <2>6. CASE n = 0
    <3>1. c = 0 /\ k = 0
      BY <1>5, <2>1, <2>3, <2>4, <2>6 DEF Leads
    <3>2. t[0] = 0
      BY <2>2, <2>5, <3>1, TrailOf
    <3> QED BY <1>2, <2>1, <2>4, <2>5, <2>6, <3>1, <3>2, ChainNumbers
  <2>7. CASE n # 0
    <3>1. c \in F /\ L[c] = n
      BY <1>5, <2>1, <2>3, <2>4, <2>7 DEF Leads
    <3>2. k \in 0 .. n /\ IF k < n THEN t[k] \in F ELSE t[k] = END
      BY <1>2, <1>5, <2>1, <2>2, <2>5, <3>1, TrailEnds
    <3>3. (InChain(t[k]) <=> k < n) /\ (k < n => disk[t[k]][1].kind = "bytes")
      BY <1>2, <3>2, ChainNumbers DEF FilesOf
    <3> QED BY <2>1, <2>4, <2>5, <3>3
  <2> QED BY <2>6, <2>7
<1> QED BY <1>3, <1>4, <1>5 DEF TreeIntact

\* For every volume, whatever fails and wherever the power goes, short of the unsafe windows:
\* directories' chains hold entries and files' chains have their size (TreeIntact).
THEOREM TreeStaysIntact == Spec => []TreeIntact
<1>1. Init => TreeInv
  BY InitTree
<1>2. TreeInv /\ [Next]_vars => TreeInv'
  BY NextTree
<1>3. TreeInv => TreeIntact
  BY IntactTree
<1> QED BY <1>1, <1>2, <1>3, PTL DEF Spec
=============================================================================
