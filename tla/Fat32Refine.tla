---------------------------- MODULE Fat32Refine ----------------------------
(***************************************************************************)
(* Fat32 without faults implements FatVolume, and the read side of         *)
(* kernel/fat32.c (fat32_read_dir, fat32_find_in_dir, fat32_file_read)     *)
(* returns what the volume holds.                                          *)
(***************************************************************************)
EXTENDS Fat32, Sequences, SequencesExt

CONSTANTS
  ReadDirMax,   \* clusters fat32_read_dir looks at: 16 in the code
  FindMax       \* entries fat32_find_in_dir asks for: 32 in the code

----------------------------------------------------------------------------
(* The read side.  A walk stops at the bound, at END and outside the volume. *)

RECURSIVE Walk(_, _)
Walk(c, n) == IF n = 0 \/ ~InChain(c) THEN <<>> ELSE <<c>> \o Walk(NextOf(c), n - 1)

Chain(c) == Walk(c, NumClusters)

\* fat32_read_dir: the entries up to the first unused one, "." and ".." among them, at
\* most max of them.
Listed(e) == e.kind \in Live \cup {"dot"}
SlotsIn(cs) == FoldLeft(LAMBDA s, c : s \o [i \in Slot |-> <<c, i>>], <<>>, cs)

\* Mutant: a deleted entry ends the listing.
ReadDirStopsAtDeleted(d, max) ==
  LET all  == SlotsIn(Walk(d, ReadDirMax))
      ends == {k \in DOMAIN all : EntryAt(all[k]).kind \in {"unused", "deleted"}}
      upto == IF ends = {} THEN all
              ELSE SubSeq(all, 1, (CHOOSE k \in ends : \A j \in ends : k <= j) - 1)
      live == SelectSeq(upto, LAMBDA p : Listed(EntryAt(p)))
  IN  SubSeq(live, 1, IF Len(live) < max THEN Len(live) ELSE max)

ReadDir(d, max) ==
  LET all  == SlotsIn(Walk(d, ReadDirMax))
      ends == {k \in DOMAIN all : EntryAt(all[k]).kind = "unused"}
      upto == IF ends = {} THEN all
              ELSE SubSeq(all, 1, (CHOOSE k \in ends : \A j \in ends : k <= j) - 1)
      live == SelectSeq(upto, LAMBDA p : Listed(EntryAt(p)))
  IN  SubSeq(live, 1, IF Len(live) < max THEN Len(live) ELSE max)

FindInDir(d, n) == SelectSeq(ReadDir(d, FindMax), LAMBDA p : EntryAt(p).name = n)

\* fat32_file_read: the chain's clusters, no more of them than the size asks for.
FileRead(p) ==
  LET e == EntryAt(p) IN [k \in DOMAIN Walk(e.first, e.len) |-> Content(Walk(e.first, e.len)[k])]

----------------------------------------------------------------------------
(* The refinement mapping. *)

\* A removal takes effect when it is decided: its entry is hidden while clusters are freed.
Deciding == pc \in {"find", "empty"}
Gone     == IF o.kind \in Removals /\ ~Deciding THEN {<<o.at, o.index>>} ELSE {}
Shown    == LiveSlots \ Gone

ShownDirs == {Root} \cup {EntryAt(p).first : p \in {q \in Shown : EntryAt(q).kind = "dir"}}
DirOf(c)  == CHOOSE d \in ShownDirs : c \in ToSet(Chain(d))

volBar ==
  [p \in Shown |->
     LET e == EntryAt(p) IN
     [in |-> DirOf(p[1]), name |-> e.name, is |-> IF e.kind = "dir" THEN e.first ELSE 0,
      content |-> IF e.kind = "dir" THEN <<>> ELSE FileRead(p)]]

callBar ==
  IF pc \in {"idle", "off"} THEN [kind |-> "none"]
  ELSE [kind |-> o.kind, dir |-> o.dir, name |-> o.name, tdir |-> o.tdir, tname |-> o.tname,
        content |-> IF o.kind = "write" THEN [k \in 1 .. o.len |-> o.buf] ELSE <<>>,
        done |-> Gone # {}]

V == INSTANCE FatVolume WITH Handles <- Cluster \X Slot, Dirs <- Cluster, RootDir <- Root,
                             vol <- volBar, call <- callBar, ans <- ret

----------------------------------------------------------------------------
(* Properties. *)

\* The driver, write by write, implements the volume that acts in one instant: no write
\* before the last one shows, a refused call changes nothing, and every answer is true.
ImplementsVolume == V!Spec

\* Between calls the readers find exactly what the tree holds: fat32_find_in_dir sees each
\* entry of a directory and nothing else, and every file is as long as its entry says.
ReadersAgree ==
  pc = "idle" =>
  /\ \A d \in LiveDirs, n \in Names :
       ToSet(FindInDir(d, n)) = {p \in LiveSlots : DirOf(p[1]) = d /\ EntryAt(p).name = n}
  /\ \A p \in LiveSlots : EntryAt(p).kind = "file" => Len(FileRead(p)) = EntryAt(p).len

\* Only fat32_copy_file_in_dir, which never looks for its target's name, can put two
\* entries of one name into a directory.
Twins == {<<p, q>> \in LiveSlots \X LiveSlots :
            /\ p # q /\ EntryAt(p).name = EntryAt(q).name /\ DirOf(p[1]) = DirOf(q[1])}
OnlyCopyMakesTwins == [][Twins' \subseteq Twins \/ o.kind = "copy"]_vars
=============================================================================
