------------------------------ MODULE RamFiles ------------------------------
(***************************************************************************)
(* The file table of kernel/fs.c that Notepad and the Terminal work on.    *)
(* Without a FAT32 volume it is the file system; with one, each slot is a  *)
(* copy of a file of the root directory, made when the file is first       *)
(* opened and never given back.                                            *)
(*                                                                         *)
(* Nothing is said here of the volume but the content of its files: the    *)
(* driver has modules of its own.  A name is a model value; Cut is what    *)
(* is left of it in FS_MAX_NAME characters, and Key is the 8.3 name it     *)
(* has on the volume.                                                      *)
(***************************************************************************)
EXTENDS Naturals, SequencesExt

CONSTANTS
  Names,          \* what may be typed as a file name
  Cut, Key,       \* each name, truncated, and upper-cased
  Slots,          \* 1 .. FS_MAX_FILES
  MaxData,        \* FS_MAX_SIZE - 1
  FolderKey,      \* the name in the root directory of the directory "folder"
  Volume          \* the directories that the FAT32 volume may have at the start

NUL == "NUL"
Dirs == {"root", "folder"}

ASSUME RamFilesAssumption ==
  /\ IsFiniteSet(Names) /\ Cut \in [Names -> Names] /\ DOMAIN Key = Names
  /\ MaxData \in Nat /\ IsFiniteSet(Slots) /\ Slots \subseteq Nat \ {0}
  /\ \A n \in Names : Cut[Cut[n]] = Cut[n]

VARIABLES
  files,          \* the table
  mounted,        \* fs_using_fat32()
  disk            \* the volume: of each directory, of each 8.3 name, what it is

fsvars == <<files, mounted, disk>>

NoFile    == [kind |-> "none", data |-> <<>>]
Free      == [used |-> FALSE, name |-> "", data |-> <<>>]
UpTo(s, n) == SubSeq(s, 1, IF Len(s) < n THEN Len(s) ELSE n)
(* A C string: the bytes before the first NUL. *)
CStr(s)   == LET n == SelectInSeq(s, LAMBDA c : c = NUL)
             IN IF n = 0 THEN s ELSE SubSeq(s, 1, n - 1)

(* The numbers of a finite set in their order. *)
InOrder(S) == [k \in 1 .. Cardinality(S) |-> CHOOSE i \in S : Cardinality({j \in S : j <= i}) = k]
Least(S) == CHOOSE i \in S : \A j \in S : i <= j
Used(n)  == {i \in Slots : files[i].used /\ files[i].name = n}
Spare    == {i \in Slots : ~files[i].used}
OnDisk(d, n) == disk[d][Key[n]]

FsInit ==
  /\ mounted \in BOOLEAN
  /\ disk \in Volume
  /\ files = [i \in Slots |-> Free]

(* fs_open and fs_create return a slot, or 0 for -1, and leave a table:    *)
(* they are operators that give both.                                      *)
Fd(i, t) == [fd |-> i, table |-> t]
Failed   == Fd(0, files)
Take(n, data) == Fd(Least(Spare), [files EXCEPT ![Least(Spare)] = [used |-> TRUE, name |-> Cut[n], data |-> data]])

(* Mutant: with a volume, the slot is read again from it. *)
OpenAgain(n) ==
  IF mounted /\ OnDisk("root", n).kind # "file" THEN Failed
  ELSE IF Used(n) # {} THEN Fd(Least(Used(n)), IF mounted THEN [files EXCEPT ![Least(Used(n))].data = UpTo(OnDisk("root", n).data, MaxData)] ELSE files)
  ELSE IF mounted /\ Spare # {} THEN Take(n, UpTo(OnDisk("root", n).data, MaxData))
  ELSE Failed
FsOpen(n) ==
  IF mounted /\ OnDisk("root", n).kind # "file" THEN Failed
  ELSE IF Used(n) # {} THEN Fd(Least(Used(n)), files)
  ELSE IF mounted /\ Spare # {} THEN Take(n, UpTo(OnDisk("root", n).data, MaxData))
  ELSE Failed

FsCreate(n) ==
  IF mounted THEN Failed
  ELSE IF Used(n) # {} THEN Fd(Least(Used(n)), files)
  ELSE IF Spare # {} THEN Take(n, <<>>) ELSE Failed

(* fs_write of len bytes of memory: a length of 0 stands for strlen. *)
FsWrite(r, memory, len) ==
  LET data == IF len = 0 THEN CStr(memory) ELSE SubSeq(memory, 1, len)
  IN [r.table EXCEPT ![r.fd].data = UpTo(data, MaxData)]

(* Mutant: the first slot in use goes, whatever its name. *)
DeleteFirst(n) ==
  LET S == {i \in Slots : files[i].used}
  IN IF mounted \/ Used(n) = {} THEN Failed ELSE Fd(Least(S), [files EXCEPT ![Least(S)] = [@ EXCEPT !.used = FALSE]])
FsDelete(n) ==
  IF mounted \/ Used(n) = {} THEN Failed
  ELSE Fd(Least(Used(n)), [files EXCEPT ![Least(Used(n))] = [@ EXCEPT !.used = FALSE]])

(* fs_read_file_in_dir: of the volume, or of the table, which may fill a slot. *)
FsRead(d, n) ==
  LET r == IF mounted THEN Failed ELSE FsOpen(n)
  IN [fd |-> r.fd, table |-> r.table,
      data |-> IF mounted THEN (IF OnDisk(d, n).kind = "file" THEN OnDisk(d, n).data ELSE <<>>)
               ELSE IF r.fd = 0 THEN <<>> ELSE r.table[r.fd].data]

(* fs_list, in the order of the table; the order of the volume's entries is left out. *)
FsList ==
  IF mounted THEN SetToSeq({n \in DOMAIN disk["root"] : disk["root"][n].kind # "none"})
  ELSE LET inUse == InOrder({i \in 1 .. Cardinality(Slots) : files[i].used})
       IN [k \in DOMAIN inUse |-> files[inUse[k]].name]

----------------------------------------------------------------------------
(* fs_try_mount_fat32, from any program that needs the volume: the table   *)
(* stays as it was.                                                        *)
Mount == ~mounted /\ mounted' = TRUE /\ UNCHANGED <<files, disk>>

(* The calls of the driver: fat32_mkdir_in_dir, fat32_unlink_in_dir and    *)
(* fat32_rmdir_empty_in_dir in the root directory, on a volume with room.  *)
CanMake(n)   == OnDisk("root", n).kind = "none"
CanUnlink(n) == OnDisk("root", n).kind = "file"
CanRmdir(n)  ==
  /\ OnDisk("root", n).kind = "dir"
  /\ Key[n] = FolderKey => \A m \in DOMAIN disk["folder"] : disk["folder"][m].kind = "none"
Made(n)      == [disk EXCEPT !["root"][Key[n]] = [kind |-> "dir", data |-> <<>>]]
Removed(n)   == [disk EXCEPT !["root"][Key[n]] = NoFile]

FilesOK ==
  /\ mounted \in BOOLEAN
  /\ \A i \in Slots : /\ files[i].used => files[i].name \in Names /\ Cut[files[i].name] = files[i].name
                      /\ Len(files[i].data) <= MaxData
=============================================================================
