------------------------------- MODULE MCApps -------------------------------
(***************************************************************************)
(* Notepad and the Terminal over the same file table, in three scenes: in  *)
(* "editing" the editor has all its operations and two windows; in         *)
(* "typing" the shell has all its commands, its menus and its scrollbar;   *)
(* in "sharing" the editor opens, types, clears and saves while the shell  *)
(* makes, removes and shows the same files and the volume may be mounted.  *)
(***************************************************************************)
EXTENDS Notepad, Terminal, TLC

CONSTANTS EditSteps, ShareSteps, ShellSteps   \* bounds on the operations in each scene
VARIABLES scene, steps

vars == <<npvars, termvars, fsvars, scene, steps>>

MCNames == {"notes", "a", "A", "longer", "long", "sub"}
MCCut   == [n \in MCNames |-> IF n = "longer" THEN "long" ELSE n]
MCKey   == [n \in MCNames |-> CASE n = "a" -> "A" [] n = "sub" -> "SUB" [] OTHER -> n]
Holding(s) == [kind |-> "file", data |-> s]
Empty   == [k \in {"notes", "A", "long", "longer", "SUB"} |-> NoFile]
MCVolume == {[root |-> ("SUB" :> [kind |-> "dir", data |-> <<>>]) @@ Empty, folder |-> Empty],
             [root |-> ("A" :> Holding(<<"x", "CR", "LF", "x">>)) @@ Empty, folder |-> ("A" :> Holding(<<"x">>)) @@ Empty]}
FileWords == {"touch", "rm", "cat", "a", "long", "longer"}
MCDefault == <<"x", "LF">>

(* What is opened in the scenes is among the names, and what is typed among *)
(* the characters.                                                          *)
ASSUME ScenesAssumption == {"a", "A", "long"} \subseteq Names /\ "x" \in Chars

Init ==
  /\ NpInit /\ TermInit /\ FsInit /\ steps = 0
  /\ scene \in {"editing", "sharing", "typing"}
  /\ scene = "editing" => mounted /\ disk["root"]["A"] # NoFile
  /\ scene = "typing" => mounted
  /\ scene = "sharing" => disk["root"]["A"] # NoFile

Step(s, bound) == scene = s /\ steps < bound /\ steps' = steps + 1 /\ UNCHANGED scene
Edits(w) == w \in open /\ InWindow /\ Step("editing", EditSteps) /\ UNCHANGED termvars

Key_(w)       == Edits(w) /\ EditKey(w)
PopUpClick(w) == Edits(w) /\ MenuClick(w)
Clears(w)     == Edits(w) /\ Clear(w) /\ UNCHANGED <<mouse, menu, find>>
Finds(w)      == Edits(w) /\ Find(w)
Points(w)     == Edits(w) /\ Point(w)
Buttons       == scene = "editing" /\ Button /\ Step("editing", EditSteps) /\ UNCHANGED <<open, title, file, kept, termvars, fsvars>>

Windows(s, bound, names) ==
  /\ Step(s, bound) /\ UNCHANGED termvars
  /\ \/ \E w \in Wins : New(w) \/ Close(w)
     \/ \E d \in Dirs, n \in names : (mounted \/ d = "root") /\ OpenFile(d, n)
Stores(s, bound) ==
  /\ Step(s, bound)
  /\ \E w \in open : Save(w) \/ SaveAs(w)
  /\ UNCHANGED <<open, edit, history, clip, sel, mouse, find, title, menu, termvars>>

Types(w) ==
  /\ w \in open /\ Step("sharing", ShareSteps) /\ InWindow /\ UNCHANGED <<mouse, menu, find, termvars>>
  /\ TypeChar(w, "x") \/ Clear(w) \/ Undo(w)

ShellStep == Step("typing", ShellSteps) /\ UNCHANGED npvars
Enters(t, s, bound)  ==
  /\ Step(s, bound) /\ EnterKey(t)
  /\ kept' = [n \in Names |-> IF input[t] # <<>> /\ input[t][1] = "rm" /\ Arg(input[t]) = n THEN Nothing ELSE kept[n]]
  /\ UNCHANGED <<open, edit, history, clip, sel, mouse, find, title, file, menu>>
(* A bound on what is typed: a command, then a name. *)
Words_(t, s, bound, words)  ==
  /\ scene = s /\ steps < bound /\ UNCHANGED <<npvars, scene, steps>>
  /\ \E w \in words : (w \in Names) = (input[t] # <<>>) /\ WordKey(t, w)
Erases(t)  == ShellStep /\ EraseKey(t)
MenuOf(t)  == ShellStep /\ MenuEntry(t)
PopUpOf(t) == ShellStep /\ PopUpEntry(t)
PopsUp     == ShellStep /\ PopUp
Slides(t)  == ShellStep /\ Scrollbar(t)
Reopens(t) == ShellStep /\ Reopen(t)
Mounts     == Step("sharing", ShareSteps) /\ Mount /\ UNCHANGED <<npvars, termvars>>

Next ==
  \/ \E w \in Wins : Key_(w) \/ PopUpClick(w) \/ Clears(w) \/ Finds(w) \/ Points(w) \/ Types(w)
  \/ Buttons
  \/ Windows("editing", EditSteps, {"A"}) \/ Windows("sharing", ShareSteps, {"a", "A", "long"})
  \/ Stores("editing", EditSteps) \/ Stores("sharing", ShareSteps)
  \/ \E t \in Terms : \/ Enters(t, "sharing", ShareSteps) \/ Words_(t, "sharing", ShareSteps, FileWords)
                      \/ Enters(t, "typing", ShellSteps) \/ Words_(t, "typing", ShellSteps, Words)
                      \/ Erases(t) \/ MenuOf(t) \/ PopUpOf(t) \/ Slides(t) \/ Reopens(t)
  \/ PopsUp \/ Mounts

Spec == Init /\ [][Next]_vars

TypeOK == FilesOK /\ NotepadOK /\ TerminalOK

(* EditorSound: the cursor stays inside the text, and undo and redo bring  *)
(* back what was there, in every window (explained in Notepad).            *)
EditorSound == TextSound /\ UndoRestores

(* SavedIsKept: what was saved under a name is what the table holds under  *)
(* that name, until rm, whatever the shell and the other windows do to the *)
(* table and whether or not a volume is mounted meanwhile.  A text saved   *)
(* empty is left out, for which fs_write stores what it finds in memory,   *)
(* and so is a name that a longer one is cut to.  notepad_save, fs_write,  *)
(* fs_open, fs_try_mount_fat32.                                            *)
SavedIsKept ==
  \A n \in Names : kept[n].saved /\ (\A m \in Names : Cut[m] = n => m = n) =>
    Used(n) # {} /\ files[Least(Used(n))].data = kept[n].text

(* SaveReachesDisk: what Notepad saved under a name of the root directory  *)
(* is what the volume holds, as README.md:59 has it ("Ctrl+S save to FAT32 *)
(* disk").  notepad_write_buffer_to_file.                                  *)
SaveReachesDisk == \A n \in Names : mounted /\ kept[n].saved => OnDisk("root", n).data = kept[n].text
=============================================================================
