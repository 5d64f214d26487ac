------------------------------- MODULE Files -------------------------------
(***************************************************************************)
(* What the desktop, the Disk windows, the Trash and the Terminal do to    *)
(* the files on the volume, and what they remember of them.  A command is  *)
(* several calls of the FAT32 driver, made without looking at most of      *)
(* their results; between two commands of one window, others may change    *)
(* or remove what it shows.  The calls are those of FatVolume, without     *)
(* faults but with a volume that gets full.                                *)
(*                                                                         *)
(* A removed directory is not used again: `mishap' records that a call     *)
(* named one.  Its cluster may hold anything by then, so nothing is said   *)
(* of what follows, and nothing follows.                                   *)
(***************************************************************************)
EXTENDS Integers, FiniteSetsExt, SequencesExt

CONSTANTS
  Windows,                       \* slots for Disk windows
  Docs,                          \* names of the user's files
  NewNames, RenNames, DupNames,  \* NEWFOLD1.., base + R01.., base + D01.., as they are tried; a base
                                 \* has five letters, so that both go on from R01 to R02 and so on
  Typed,                         \* names given to the Terminal
  Texts, Startup, NoText,        \* contents: the user's, that of STARTAPP.TXT, none
  Scan,                          \* FS_MAX_FILES, what a listing holds at most
  Size,                          \* of the volume, in clusters; each file and directory takes one
  MaxDirs,                       \* bound on the directories ever made
  MaxChanges                     \* bound on the commands that change the volume

ASSUME FilesAssumption ==
  /\ {Size, Scan} \subseteq Nat /\ MaxDirs \in Nat /\ MaxDirs >= 3 /\ MaxChanges \in Nat
  /\ Typed \subseteq Docs \cup ToSet(NewNames) \cup {"DESKTOP", "TRASH"}
  /\ IsFiniteSet(Texts) /\ Startup \notin Texts /\ NoText \notin Texts \cup {Startup}
  /\ Windows \cap {"desktop", "terminal", "nobody"} = {}

VARIABLES
  tree,      \* the entries of each directory, in their order
  disk,      \* the Disk windows: disk_cwd_cluster, disk_parent_cluster, disk_entries
  diskClip,  \* disk_clip_src_dir, disk_clip_name
  deskClip,  \* desktop_clip_*
  icons,     \* desktop_folder_cluster and the icons of its entries, as last built
  bin,       \* the Trash window and its trash_files
  changes,   \* how often the volume was changed
  made,      \* ghost: how many directories there have been
  remover,   \* ghost: who removed each directory
  mishap     \* ghost: a call named a removed directory

fileVars == <<tree, disk, diskClip, deskClip, icons, bin, changes, made, remover, mishap>>

Dirs   == 1 .. MaxDirs
Root   == 1
NoDir  == 0
Names  == Docs \cup Range(NewNames) \cup Range(RenNames) \cup Range(DupNames)
            \cup {"DESKTOP", "TRASH", "INFO", "STARTAPP"}
NoName == ""

Entry(name, dir, text) == [name |-> name, dir |-> dir, text |-> text]
Hole   == Entry(NoName, NoDir, NoText)        \* 0xE5
Item(e) == [name |-> e.name, dir |-> e.dir]   \* an FSDirEnt
NoClip == [name |-> NoName, dir |-> NoDir, move |-> FALSE, isDir |-> FALSE]
Shut == [open |-> FALSE, cwd |-> Root, parent |-> NoDir, entries |-> {}]
Actors == Windows \cup {"desktop", "terminal", "nobody"}

----------------------------------------------------------------------------
(* The calls.  Each maps the tree to the tree after it. *)

Entries(t) == (UNION {Range(t[d]) : d \in Dirs}) \ {Hole}
Live(t)    == {Root} \cup ({e.dir : e \in Entries(t)} \ {NoDir})
InUse(t)   == UNION {{d} \X {i \in DOMAIN t[d] : t[d][i] # Hole} : d \in Dirs}
Full(t)    == Cardinality(InUse(t)) >= Size

Find(t, d, name) == SelectInSeq(t[d], LAMBDA e : e.name = name)
Found(t, d, name) == IF Find(t, d, name) = 0 THEN Hole ELSE t[d][Find(t, d, name)]

Put(t, d, e) ==
  LET i == SelectInSeq(t[d], LAMBDA x : x = Hole)
  IN  [t EXCEPT ![d] = IF i = 0 THEN Append(@, e) ELSE ReplaceAt(@, i, e)]

Drop(t, d, name) == [t EXCEPT ![d][Find(t, d, name)] = Hole]

Mkdir(t, d, name) ==
  IF Found(t, d, name) # Hole \/ Full(t) \/ made = MaxDirs THEN t
  ELSE Put(t, d, Entry(name, made + 1, NoText))

WriteNew(t, d, name, text) ==
  IF Found(t, d, name) # Hole \/ Full(t) THEN t ELSE Put(t, d, Entry(name, NoDir, text))

CanCopy(t, d, name) == Found(t, d, name) # Hole /\ Found(t, d, name).dir = NoDir /\ ~Full(t)

Copy(t, d, name, td, tname) ==
  IF CanCopy(t, d, name) THEN Put(t, td, Entry(tname, NoDir, Found(t, d, name).text)) ELSE t

Unlink(t, d, name) ==
  IF Found(t, d, name) # Hole /\ Found(t, d, name).dir = NoDir THEN Drop(t, d, name) ELSE t

Rmdir(t, d, name) ==
  LET dir == Found(t, d, name).dir IN
  IF dir = NoDir \/ ~(Range(t[dir]) \subseteq {Hole}) THEN t
  ELSE [Drop(t, d, name) EXCEPT ![dir] = <<>>]

\* Where the entries lie that a listing holds.  "." and ".." count, but for the root, which has none.
List(t, d) ==
  LET n == IF d = Root THEN Scan ELSE Scan - 2
  IN  {i \in DOMAIN t[d] : t[d][i] # Hole /\ Cardinality({j \in 1 .. i : t[d][j] # Hole}) <= n}

Listed(t, d, Is(_)) == {i \in List(t, d) : Is(t[d][i])}
Shown(t, d) == {Item(t[d][i]) : i \in List(t, d)}

UnlinkAll(t, d) ==
  LET after[i \in 0 .. Len(t[d])] ==
        IF i = 0 THEN t
        ELSE IF i \in Listed(t, d, LAMBDA e : e.dir = NoDir) THEN Unlink(after[i - 1], d, t[d][i].name)
        ELSE after[i - 1]
  IN  after[Len(t[d])]

\* The first name that is not taken; NoName if there is none.
FirstFree(names, taken) ==
  LET free == SelectSeq(names, LAMBDA n : \A e \in taken : e.name # n)
  IN  IF free = <<>> THEN NoName ELSE Head(free)

NewName(taken) ==
  IF FirstFree(NewNames, taken) = NoName THEN Last(NewNames) ELSE FirstFree(NewNames, taken)

\* A command of an actor, whose calls name the directories dirs and lead to t.
Do(actor, dirs, t) ==
  LET live == Live(tree) IN
  /\ ~mishap /\ mishap' = ~(dirs \subseteq live)
  /\ IF mishap' THEN UNCHANGED tree ELSE tree' = t
  /\ IF tree' = tree THEN UNCHANGED <<changes, made, remover>>
     ELSE LET now == Live(tree') IN
          /\ changes < MaxChanges /\ changes' = changes + 1
          /\ made' = Max({made} \cup now)
          /\ remover' = [d \in Dirs |-> IF d \in live \ now THEN actor ELSE remover[d]]

----------------------------------------------------------------------------
(* The Disk windows. *)

Showing(t, cwd, parent) == [open |-> TRUE, cwd |-> cwd, parent |-> parent, entries |-> Shown(t, cwd)]

Display(w, cwd, parent) == disk' = [disk EXCEPT ![w] = Showing(tree', cwd, parent)]

Refresh(w) == Display(w, disk[w].cwd, disk[w].parent)

\* desktop_build_icons, which follows the next time the icons are drawn.
IconsOf(t) ==
  LET desk   == Listed(t, Root, LAMBDA e : e.name = "DESKTOP")
      folder == IF desk = {} THEN NoDir ELSE t[Root][Min(desk)].dir
  IN  [folder |-> folder, entries |-> IF folder = NoDir THEN {} ELSE Shown(t, folder)]
Rebuild == icons' = IconsOf(tree')

Open(w) == disk[w].open

DiskStart(w) ==
  /\ ~Open(w)
  /\ Do(w, {Root}, tree) /\ Display(w, Root, NoDir)
  /\ UNCHANGED <<diskClip, deskClip, icons, bin>>

DiskClose(w) ==
  /\ Open(w) /\ ~mishap /\ disk' = [disk EXCEPT ![w] = Shut]
  /\ UNCHANGED <<tree, diskClip, deskClip, icons, bin, changes, made, remover, mishap>>

EnterFolder(w, e) ==
  /\ e.dir # NoDir
  /\ Do(w, {e.dir}, tree) /\ Display(w, e.dir, disk[w].cwd)
  /\ UNCHANGED <<diskClip, deskClip, icons, bin>>

DiskUp(w) ==
  /\ Open(w) /\ disk[w].cwd # Root
  /\ LET up == IF disk[w].parent = NoDir THEN Root ELSE disk[w].parent
     IN  Do(w, {up}, tree) /\ Display(w, up, NoDir)
  /\ UNCHANGED <<diskClip, deskClip, icons, bin>>

\* Mutant: the window shows what it has shown before.
DiskDeleteSilent(w, e) ==
  LET cwd == disk[w].cwd IN
  /\ Do(w, {cwd}, IF e.dir # NoDir THEN Rmdir(tree, cwd, e.name) ELSE Unlink(tree, cwd, e.name))
  /\ Rebuild /\ UNCHANGED <<disk, diskClip, deskClip, bin>>

DiskDelete(w, e) ==
  LET cwd == disk[w].cwd IN
  /\ Do(w, {cwd}, IF e.dir # NoDir THEN Rmdir(tree, cwd, e.name) ELSE Unlink(tree, cwd, e.name))
  /\ Refresh(w) /\ Rebuild /\ UNCHANGED <<diskClip, deskClip, bin>>

\* The menu bar's command leaves the icons as they are.
DiskNewFolder(w) ==
  /\ Open(w)
  /\ Do(w, {disk[w].cwd}, Mkdir(tree, disk[w].cwd, NewName(disk[w].entries)))
  /\ Refresh(w) /\ (Rebuild \/ UNCHANGED icons)
  /\ UNCHANGED <<diskClip, deskClip, bin>>

Clip(w, e) == diskClip' = [NoClip EXCEPT !.name = e.name, !.dir = disk[w].cwd]

DiskCopy(w, e) ==
  /\ e.dir = NoDir /\ ~mishap /\ Clip(w, e)
  /\ UNCHANGED <<tree, disk, deskClip, icons, bin, changes, made, remover, mishap>>

\* disk_cut_selected removes the file at once.
DiskCut(w, e) ==
  /\ e.dir = NoDir /\ Clip(w, e)
  /\ Do(w, {disk[w].cwd}, Unlink(tree, disk[w].cwd, e.name))
  /\ Refresh(w) /\ Rebuild /\ UNCHANGED <<deskClip, bin>>

DiskPaste(w) ==
  /\ Open(w) /\ diskClip # NoClip
  /\ Do(w, {diskClip.dir, disk[w].cwd},
        Copy(tree, diskClip.dir, diskClip.name, disk[w].cwd, diskClip.name))
  /\ Refresh(w) /\ Rebuild /\ UNCHANGED <<diskClip, deskClip, bin>>

DiskErase(w) ==
  /\ Open(w)
  /\ Do(w, {Root, disk[w].cwd}, UnlinkAll(tree, Root))
  /\ Refresh(w) /\ Rebuild /\ UNCHANGED <<diskClip, deskClip, bin>>

DiskSetStartup(w) ==
  /\ disk[w].entries # {}
  /\ Do(w, {Root}, WriteNew(tree, Root, "STARTAPP", Startup))
  /\ UNCHANGED <<disk, diskClip, deskClip, icons, bin>>

DiskCleanUp(w) ==
  /\ Open(w)
  /\ Do(w, {disk[w].cwd}, tree) /\ Refresh(w)
  /\ UNCHANGED <<diskClip, deskClip, icons, bin>>

(* open_disk_at_cluster opens a window, if there is a slot, and sends the one
   on top there if it is a Disk window: mostly the new one, not always. *)
OpenFolder(dir) ==
  LET closed == {w \in Windows : ~Open(w)} IN
  /\ Do("desktop", {Root, dir}, tree)
  /\ \E new \in SUBSET closed : 
       /\ Cardinality(new) = (IF closed = {} THEN 0 ELSE 1)
       /\ \E top \in new \cup {w \in Windows : Open(w)} \cup {"none"} :
            disk' = [w \in Windows |->
                       IF w = top THEN Showing(tree, dir, NoDir)
                       ELSE IF w \in new THEN Showing(tree, Root, NoDir) ELSE disk[w]]
  /\ UNCHANGED <<diskClip, deskClip, icons, bin>>

DiskCommand(w) ==
  \/ DiskStart(w) \/ DiskClose(w) \/ DiskUp(w) \/ DiskNewFolder(w) \/ DiskPaste(w) \/ DiskErase(w)
  \/ DiskSetStartup(w) \/ DiskCleanUp(w)
  \/ \E e \in disk[w].entries :      \* the selected one
       EnterFolder(w, e) \/ DiskDelete(w, e) \/ DiskCopy(w, e) \/ DiskCut(w, e)

----------------------------------------------------------------------------
(* The desktop.  What is selected or was right-clicked is an icon that is shown. *)

DeskFolder == IF icons.folder = NoDir THEN Root ELSE icons.folder
FileIcons  == {e \in icons.entries : e.dir = NoDir}

DeskOpen == \E e \in icons.entries \ FileIcons : OpenFolder(e.dir)

DeskNewFolder ==
  /\ Do("desktop", {DeskFolder}, Mkdir(tree, DeskFolder, NewName(Shown(tree, DeskFolder))))
  /\ Rebuild /\ UNCHANGED <<disk, diskClip, deskClip, bin>>

\* The context menu's Rename: a copy under a new name, then the removal of the old one.
DeskRename(e) ==
  LET dir == icons.folder
      new == FirstFree(RenNames, Shown(tree, dir))
      can == new # NoName /\ CanCopy(tree, dir, e.name)
  IN
  /\ Do("desktop", {dir}, IF can THEN Unlink(Copy(tree, dir, e.name, dir, new), dir, e.name) ELSE tree)
  /\ icons' = IF can THEN IconsOf(tree') ELSE icons
  /\ UNCHANGED <<disk, diskClip, deskClip, bin>>

DeskDuplicate(e) ==
  LET new == FirstFree(DupNames, Shown(tree, DeskFolder)) IN
  /\ Do("desktop", {icons.folder},
        IF new = NoName THEN tree ELSE Copy(tree, icons.folder, e.name, DeskFolder, new))
  /\ icons' = IF new = NoName THEN icons ELSE IconsOf(tree')
  /\ UNCHANGED <<disk, diskClip, deskClip, bin>>

DeskClip(e, move) ==
  /\ ~mishap
  /\ deskClip' = [name |-> e.name, dir |-> icons.folder, move |-> move, isDir |-> e.dir # NoDir]
  /\ UNCHANGED <<tree, disk, diskClip, icons, bin, changes, made, remover, mishap>>

\* What the copy answers is not looked at.
DeskPaste ==
  LET src == deskClip.dir
      t   == Copy(tree, src, deskClip.name, DeskFolder, deskClip.name)
  IN
  /\ deskClip # NoClip /\ ~deskClip.isDir
  /\ Do("desktop", {src} \cup IF CanCopy(tree, src, deskClip.name) THEN {DeskFolder} ELSE {},
        IF deskClip.move /\ src # DeskFolder THEN Unlink(t, src, deskClip.name) ELSE t)
  /\ Rebuild /\ UNCHANGED <<disk, diskClip, deskClip, bin>>

DeskErase ==
  /\ Do("desktop", {Root}, UnlinkAll(tree, Root))
  /\ Rebuild /\ UNCHANGED <<disk, diskClip, deskClip, bin>>

DeskSetStartup ==
  /\ Do("desktop", {Root}, WriteNew(tree, Root, "STARTAPP", Startup))
  /\ Rebuild /\ UNCHANGED <<disk, diskClip, deskClip, bin>>

----------------------------------------------------------------------------
(* The Trash. *)

\* get_or_create_trash_dir: the tree after it and the directory, or none.
TrashDir(t) ==
  LET in(u) == Listed(u, Root, LAMBDA e : e.name = "TRASH" /\ e.dir # NoDir)
      u     == IF in(t) = {} THEN Mkdir(t, Root, "TRASH") ELSE t
  IN  [tree |-> u, dir |-> IF in(u) = {} THEN NoDir ELSE u[Root][Min(in(u))].dir]

\* The lines of INFO.TXT: a name and the directory the file was in.
Info(t, dir) ==
  LET info  == Listed(t, dir, LAMBDA e : e.name = "INFO")
      entry == t[dir][Min(info)]
  IN  IF info = {} \/ entry.dir # NoDir THEN <<>> ELSE entry.text

\* read_trash_files: the last line about a name counts.
Origin(t, dir, name) ==
  LET lines == SelectSeq(Info(t, dir), LAMBDA l : l.name = name)
  IN  IF lines = <<>> THEN Root ELSE Last(lines).dir

Trashed(t, dir) ==
  LET s == SetToSortSeq(Listed(t, dir, LAMBDA e : e.dir = NoDir /\ e.name # "INFO"), <)
  IN  [i \in DOMAIN s |-> [name |-> t[dir][s[i]].name, origin |-> Origin(t, dir, t[dir][s[i]].name)]]

NoBin == [open |-> FALSE, list |-> <<>>]

TrashOpen ==
  LET got == TrashDir(tree) IN
  /\ ~bin.open
  /\ Do("desktop", {Root}, got.tree)
  /\ bin' = [open |-> TRUE, list |-> IF got.dir = NoDir THEN <<>> ELSE Trashed(got.tree, got.dir)]
  /\ UNCHANGED <<disk, diskClip, deskClip, icons>>

TrashClose ==
  /\ bin.open /\ ~mishap /\ bin' = NoBin
  /\ UNCHANGED <<tree, disk, diskClip, deskClip, icons, changes, made, remover, mishap>>

\* Mutant: whether the copy was made is not looked at.
TrashMoveAnyway(t, dir, name) ==
  LET got   == TrashDir(t)
      moved == Unlink(Copy(got.tree, dir, name, got.dir, name), dir, name)
  IN  IF got.dir = NoDir THEN got.tree
      ELSE WriteNew(moved, got.dir, "INFO",
                    Append(Info(moved, got.dir), [name |-> name, dir |-> dir]))

\* trash_move_file.  INFO.TXT is written only if there is none.
TrashMove(t, dir, name) ==
  LET got   == TrashDir(t)
      moved == Unlink(Copy(got.tree, dir, name, got.dir, name), dir, name)
  IN  IF got.dir = NoDir \/ ~CanCopy(got.tree, dir, name) THEN got.tree
      ELSE WriteNew(moved, got.dir, "INFO",
                    Append(Info(moved, got.dir), [name |-> name, dir |-> dir]))

DeskTrash(e) ==
  /\ Do("desktop", {Root, icons.folder}, TrashMove(tree, icons.folder, e.name))
  /\ Rebuild /\ UNCHANGED <<disk, diskClip, deskClip, bin>>

(* restore_selected.  INFO.TXT, where the entry's line should go, is written
   with a call that does nothing when there is one: it stays as it is. *)
TrashRestore(i) ==
  LET got  == TrashDir(tree)
      name == bin.list[i].name
      to   == bin.list[i].origin
      can  == got.dir # NoDir /\ CanCopy(got.tree, got.dir, name)
  IN
  /\ Do("desktop", {Root} \cup IF can THEN {to} ELSE {},
        IF can THEN Unlink(Copy(got.tree, got.dir, name, to, name), got.dir, name) ELSE got.tree)
  /\ IF can THEN Rebuild /\ bin' = [bin EXCEPT !.list = RemoveAt(@, i)] ELSE UNCHANGED <<icons, bin>>
  /\ UNCHANGED <<disk, diskClip, deskClip>>

TrashEmpty ==
  LET got == TrashDir(tree) IN
  /\ bin.open
  /\ Do("desktop", {Root}, IF got.dir = NoDir THEN got.tree ELSE UnlinkAll(got.tree, got.dir))
  /\ bin' = IF got.dir = NoDir THEN bin ELSE [bin EXCEPT !.list = <<>>]
  /\ UNCHANGED <<disk, diskClip, deskClip, icons>>

----------------------------------------------------------------------------
(* The Terminal's fatmkdir, fatrm and fatrmdir work on the root and tell nobody. *)

Terminal(t) == Do("terminal", {Root}, t) /\ UNCHANGED <<disk, diskClip, deskClip, icons, bin>>

TerminalMkdir(name) == Terminal(Mkdir(tree, Root, name))
TerminalRm(name)    == Terminal(Unlink(tree, Root, name))
TerminalRmdir(name) == Terminal(Rmdir(tree, Root, name))

----------------------------------------------------------------------------

DeskCommand ==
  \/ DeskOpen \/ DeskNewFolder \/ DeskPaste \/ DeskErase \/ DeskSetStartup
  \/ \E e \in icons.entries, move \in BOOLEAN : DeskClip(e, move)
  \/ \E e \in FileIcons : DeskRename(e) \/ DeskDuplicate(e) \/ DeskTrash(e)

TrashCommand ==
  TrashOpen \/ TrashClose \/ TrashEmpty \/ \E i \in DOMAIN bin.list : TrashRestore(i)

TerminalCommand ==
  \E name \in Typed : TerminalMkdir(name) \/ TerminalRm(name) \/ TerminalRmdir(name)

FilesNext == (\E w \in Windows : DiskCommand(w)) \/ DeskCommand \/ TrashCommand \/ TerminalCommand

(* The user's files lie in the root, in a folder and on the desktop, which fs_init has made;
   there is one content for each. *)
Filed(texts, place, name, d) == SetToSeq({Entry(name[x], NoDir, x) : x \in {y \in texts : place[y] = d}})
Folders == <<Entry("DESKTOP", 2, NoText), Entry(Head(NewNames), 3, NoText)>>
Planted(texts, place, name) ==
  [d \in Dirs |-> IF d = Root THEN Folders \o Filed(texts, place, name, d)
                  ELSE IF d <= 3 THEN Filed(texts, place, name, d) ELSE <<>>]

FilesInit ==
  /\ \E texts \in (SUBSET Texts) \ {{}} :
       \E place \in [texts -> 1 .. 3], name \in [texts -> Docs] :
         /\ \A x, y \in texts : place[x] = place[y] /\ name[x] = name[y] => x = y
         /\ tree = Planted(texts, place, name)
  /\ icons = IconsOf(tree)
  /\ disk = [w \in Windows |-> Shut] /\ bin = NoBin
  /\ diskClip = NoClip /\ deskClip = NoClip
  /\ changes = 0 /\ made = 3 /\ remover = [d \in Dirs |-> "nobody"] /\ mishap = FALSE

FilesSpec == FilesInit /\ [][FilesNext]_fileVars

----------------------------------------------------------------------------
Removed(dirs) == dirs \ (Live(tree) \cup {NoDir})
DirsOf(items) == {e.dir : e \in items}

(* Everything is in its range, and the directories form a tree: each but the root is entered
   in one place (kernel/fat32.c:356-374). *)
FilesOK ==
  /\ DOMAIN tree = Dirs /\ \A e \in Entries(tree) : e.dir \in 0 .. made
  /\ \A d, c \in Dirs : \A i \in DOMAIN tree[d], j \in DOMAIN tree[c] :
       tree[d][i].dir # NoDir /\ tree[d][i].dir = tree[c][j].dir => d = c /\ i = j
  /\ \A w \in Windows : disk[w].cwd \in 1 .. made /\ disk[w].parent \in 0 .. made
  /\ icons.folder \in 0 .. made
  /\ changes \in 0 .. MaxChanges /\ made \in Dirs /\ remover \in [Dirs -> Actors] /\ mishap \in BOOLEAN

(* A window does not fool itself: what a Disk window remembers of directories that are gone, it
   remembers because another one, or the Terminal, has removed them; the desktop learns of every
   removal but the Terminal's (apps/app_disk.c:67-74 and 327-337, kernel/sv_desktop.c:439-505). *)
NoOwnStale ==
  /\ \A w \in Windows :
       \A d \in Removed({disk[w].cwd, disk[w].parent} \cup DirsOf(disk[w].entries)) : remover[d] # w
  /\ \A d \in Removed({icons.folder} \cup DirsOf(icons.entries)) : remover[d] = "terminal"

Kept == \A x \in Texts :
          (\E e \in Entries(tree) : e.text = x) => \E e \in Entries(tree') : e.text = x

AskedFor ==
  \/ \E w \in Windows : DiskErase(w) \/ \E e \in disk[w].entries : DiskDelete(w, e) \/ DiskCut(w, e)
  \/ DeskErase \/ TrashEmpty \/ \E name \in Typed : TerminalRm(name)
  \/ Full(tree) /\ DeskPaste

(* No content disappears unless the user asked for it: renaming, moving, trashing, restoring keep
   what they handle even when the volume is full.  The exceptions are the Disk window's
   Cut, which removes at once, and a move by Cut and Paste on the desktop to a full volume
   (kernel/sv_desktop.c:691-708 and 1161-1197, apps/app_trash.c:122-190). *)
FilesSurvive == [][Kept \/ AskedFor]_fileVars
=============================================================================
