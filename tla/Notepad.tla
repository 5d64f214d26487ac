------------------------------ MODULE Notepad -------------------------------
(***************************************************************************)
(* The editor of apps/app_notepad.c.  Each window has a text, a step to    *)
(* undo or redo, a selection, a pattern to look for and the file it was    *)
(* opened from; the clipboard and the drag are shared by all windows.      *)
(*                                                                         *)
(* A byte of a text is "x", which is a word character, "LF" or "CR"; the   *)
(* array behind a text keeps the bytes that were there before, and that    *)
(* matters wherever the code forgets the terminating NUL.  Which position  *)
(* of the text the mouse points at is left open.                           *)
(***************************************************************************)
EXTENDS RamFiles

CONSTANTS
  Wins,           \* the windows, 0 .. n
  BufSize, UndoSize, ClipSize, TokenSize,   \* NOTEPAD_BUF_SIZE and so on; 64
  DefaultText,    \* what a new window shows
  DefaultName,    \* NOTES.TXT
  Chars           \* what the user may type; "LF" stands for Enter

WordChar == Chars \ {"LF", "CR"}
Bytes    == Chars \cup {"LF", "CR", NUL}

ASSUME NotepadAssumption ==
  /\ Wins \subseteq Nat /\ Wins # {}
  /\ BufSize \in Nat /\ UndoSize \in Nat \ {0} /\ ClipSize \in Nat \ {0} /\ TokenSize \in Nat \ {0}
  /\ DefaultText \in Seq(Chars) /\ Len(DefaultText) < BufSize /\ DefaultName \in Names
  (* Files are strings of bytes. *)
  /\ Volume \subseteq [Dirs -> [{Key[n] : n \in Names} -> [kind : {"none", "file", "dir"}, data : Seq(Bytes)]]]

VARIABLES
  open,           \* the windows in use
  buf, len, cursor,                \* notepad_buf, notepad_buf_len, notepad_cursor_pos
  undo, undoLen, undoCursor, hasUndo, hasRedo,
  clip,           \* notepad_clipboard, up to its length
  sel,            \* start, end and whether there is a selection
  drag, dragStart,                 \* notepad_sel_dragging (-1: none) and where it began
  find,           \* pattern, whether there is one, and where to go on
  title, file,    \* the window's title and the associated name; "" for none
  menu,           \* notepad_ctx_menu_open
  before,         \* ghost: the text that undo or redo should bring back
  kept            \* ghost: of each name, what was last saved under it

edit    == <<buf, len, cursor>>
history == <<undo, undoLen, undoCursor, hasUndo, hasRedo, before>>
mouse   == <<drag, dragStart>>
npvars  == <<open, edit, history, clip, sel, mouse, find, title, file, menu, kept>>

Nothing  == [saved |-> FALSE, text |-> <<>>]
NoSel    == [on |-> FALSE, from |-> 0, to |-> 0]
NoFind   == [on |-> FALSE, pattern |-> <<>>, from |-> 0]
Text(w)  == SubSeq(buf[w], 1, len[w])
Min2(a, b) == IF a < b THEN a ELSE b
(* The elements of s that are not c, in their order.                       *)
Without(s, c) ==
  LET stay == InOrder({i \in DOMAIN s : s[i] # c}) IN [k \in DOMAIN stay |-> s[stay[k]]]
(* Bytes written from the start of an array; the others stay as they were. *)
Over(a, s) == s \o SubSeq(a, Len(s) + 1, Len(a))

NpInit ==
  /\ open = {} /\ drag = -1 /\ dragStart = [w \in Wins |-> 0] /\ clip = <<>> /\ menu = FALSE
  /\ buf = [w \in Wins |-> [i \in 1 .. BufSize |-> NUL]] /\ undo = [w \in Wins |-> [i \in 1 .. UndoSize |-> NUL]]
  /\ len = [w \in Wins |-> 0] /\ cursor = len /\ undoLen = len /\ undoCursor = len
  /\ hasUndo = [w \in Wins |-> FALSE] /\ hasRedo = hasUndo
  /\ sel = [w \in Wins |-> NoSel] /\ find = [w \in Wins |-> NoFind]
  /\ title = [w \in Wins |-> ""] /\ file = title
  /\ before = [w \in Wins |-> <<>>] /\ kept = [n \in Names |-> Nothing]

----------------------------------------------------------------------------
(* The pieces the handlers are made of. *)

(* A text stored with its NUL, as every edit does. *)
Put(w, text, pos) ==
  /\ buf' = [buf EXCEPT ![w] = Over(@, Append(text, NUL))]
  /\ len' = [len EXCEPT ![w] = Len(text)] /\ cursor' = [cursor EXCEPT ![w] = pos]
(* Mutant: one byte less is kept. *)
SavedShort(w) == Over(undo[w], UpTo(Text(w), UndoSize - 2))
Saved(w) == Over(undo[w], UpTo(Text(w), UndoSize - 1))
(* notepad_save_undo: the text is cut, its length is not. *)
SaveUndo(w) ==
  /\ undo' = [undo EXCEPT ![w] = Saved(w)] /\ undoLen' = [undoLen EXCEPT ![w] = len[w]]
  /\ undoCursor' = [undoCursor EXCEPT ![w] = cursor[w]] /\ hasUndo' = [hasUndo EXCEPT ![w] = TRUE]
  /\ before' = [before EXCEPT ![w] = Text(w)] /\ UNCHANGED hasRedo
Deselect(w) == sel' = [sel EXCEPT ![w].on = FALSE]

Insert(s, pos, piece) == SubSeq(s, 1, pos) \o piece \o SubSeq(s, pos + 1, Len(s))

----------------------------------------------------------------------------
(* Editing: handle_notepad_key, and the menu's entries. *)

TypeChar(w, c) ==
  /\ len[w] < BufSize - 1
  /\ Put(w, Insert(Text(w), cursor[w], <<c>>), cursor[w] + 1)
  /\ UNCHANGED <<history, sel, clip>>

Enter(w) ==
  /\ len[w] < BufSize - 1
  /\ SaveUndo(w) /\ Put(w, Insert(Text(w), cursor[w], <<"LF">>), cursor[w] + 1)
  /\ UNCHANGED <<sel, clip>>

Backspace(w) ==
  /\ cursor[w] \in 1 .. len[w]
  /\ SaveUndo(w) /\ Put(w, RemoveAt(Text(w), cursor[w]), cursor[w] - 1)
  /\ UNCHANGED <<sel, clip>>

Move(w) ==
  /\ \E to \in {cursor[w] - 1, cursor[w] + 1} \cap 0 .. len[w] : cursor' = [cursor EXCEPT ![w] = to]
  /\ UNCHANGED <<buf, len, history, sel, clip>>

Copied(w) ==
  LET from == IF sel[w].on THEN sel[w].from ELSE 0
      to   == IF sel[w].on THEN Min2(sel[w].to, len[w]) ELSE len[w]
  IN UpTo(SubSeq(buf[w], from + 1, to), ClipSize - 1)
Copy(w) == clip' = Copied(w) /\ UNCHANGED <<edit, history, sel>>

ClearText(w) == SaveUndo(w) /\ Put(w, <<>>, 0) /\ Deselect(w)
Clear(w)     == ClearText(w) /\ UNCHANGED clip
Cut_(w)      == clip' = Copied(w) /\ ClearText(w)

(* Pasting into a text that is nearly full shortens the clipboard itself. *)
Paste(w) ==
  /\ clip # <<>>
  /\ LET piece == UpTo(clip, BufSize - len[w] - 1)
         pos   == Min2(cursor[w], len[w])
     IN /\ SaveUndo(w) /\ Put(w, Insert(Text(w), pos, piece), pos + Len(piece)) /\ clip' = piece
  /\ Deselect(w)

SelectAll(w) ==
  /\ sel' = [sel EXCEPT ![w] = [on |-> TRUE, from |-> 0, to |-> len[w]]]
  /\ UNCHANGED <<edit, history, clip>>

(* notepad_undo and notepad_redo exchange the text and the saved one.  Of  *)
(* a saved text longer than the undo buffer, what follows the buffer in    *)
(* memory is read.                                                         *)
Exchange(w) ==
  /\ \E junk \in IF undoLen[w] > UndoSize THEN Bytes ELSE {NUL} :
       buf' = [buf EXCEPT ![w] = Over(@, [i \in 1 .. undoLen[w] |-> IF i <= UndoSize THEN undo[w][i] ELSE junk])]
  /\ len' = [len EXCEPT ![w] = undoLen[w]] /\ cursor' = [cursor EXCEPT ![w] = undoCursor[w]]
  /\ undo' = [undo EXCEPT ![w] = Saved(w)]
  /\ undoLen' = [undoLen EXCEPT ![w] = len[w]] /\ undoCursor' = [undoCursor EXCEPT ![w] = cursor[w]]
  /\ before' = [before EXCEPT ![w] = Text(w)] /\ Deselect(w) /\ UNCHANGED clip
Undo(w) == hasUndo[w] /\ Exchange(w) /\ hasUndo' = [hasUndo EXCEPT ![w] = FALSE] /\ hasRedo' = [hasRedo EXCEPT ![w] = TRUE]
Redo(w) == hasRedo[w] /\ Exchange(w) /\ hasRedo' = [hasRedo EXCEPT ![w] = FALSE] /\ hasUndo' = [hasUndo EXCEPT ![w] = TRUE]

(* notepad_extract_token: the word that ends or continues at the cursor. *)
Token(w) ==
  LET at == IF cursor[w] > 0 THEN Min2(cursor[w], len[w]) ELSE 1
      Word(i, j) == \A k \in i .. j : buf[w][k] \in WordChar
  IN IF len[w] = 0 \/ ~Word(at, at) THEN <<>>
     ELSE LET first == Least({i \in 1 .. at : Word(i, at)})
              last  == CHOOSE j \in at .. len[w] : Word(at, j) /\ (j = len[w] \/ ~Word(at, j + 1))
          IN UpTo(SubSeq(buf[w], first, last), TokenSize - 1)
Matches(w, p) == {i \in 0 .. len[w] - Len(p) : SubSeq(buf[w], i + 1, i + Len(p)) = p}
(* notepad_find_pattern_idx, which wraps. *)
NextMatch(S, from) == IF \E i \in S : i >= from THEN Least({i \in S : i >= from}) ELSE Least(S)

FindNext(w, reset) ==
  LET fresh == reset \/ ~find[w].on
      f     == IF fresh THEN [on |-> TRUE, pattern |-> Token(w), from |-> cursor[w]] ELSE find[w]
      found == Matches(w, f.pattern)
      at    == NextMatch(found, Min2(f.from, len[w])) + Len(f.pattern)
  IN /\ f.pattern # <<>>
     /\ IF found = {} THEN find' = [find EXCEPT ![w] = f] /\ UNCHANGED <<cursor, sel>>
        ELSE /\ find' = [find EXCEPT ![w] = [f EXCEPT !.from = at]]
             /\ cursor' = [cursor EXCEPT ![w] = at]
             /\ sel' = [sel EXCEPT ![w] = [on |-> TRUE, from |-> at - Len(f.pattern), to |-> at]]
     /\ UNCHANGED <<buf, len, history, clip>>

----------------------------------------------------------------------------
(* The file: notepad_save, notepad_save_as. *)

(* The ghost remembers what a save that could open its file was given.    *)
WriteTo(w, n) ==
  LET r == IF FsOpen(n).fd # 0 THEN FsOpen(n) ELSE FsCreate(n)
  IN IF r.fd = 0 THEN UNCHANGED <<files, kept>>
     ELSE /\ files' = FsWrite(r, buf[w], len[w])
          /\ kept' = [kept EXCEPT ![n] = IF len[w] = 0 THEN Nothing
                                         ELSE [saved |-> TRUE, text |-> UpTo(Text(w), MaxData)]]
TitleOf(w) == IF title[w] \in {"", "Notepad"} THEN DefaultName ELSE title[w]
SaveUnder(w, n) == file' = [file EXCEPT ![w] = n] /\ WriteTo(w, n) /\ UNCHANGED <<mounted, disk>>
Save(w)   == SaveUnder(w, IF file[w] # "" THEN file[w] ELSE Cut[TitleOf(w)])
SaveAs(w) == SaveUnder(w, Cut[TitleOf(w)])

(* app_open and on_open: the array's old bytes stay behind the default text. *)
FreshWindow(w) ==
  /\ w \in Wins \ open /\ open' = open \cup {w}
  /\ len' = [len EXCEPT ![w] = Len(DefaultText)] /\ cursor' = [cursor EXCEPT ![w] = Len(DefaultText)]
  /\ buf' = [buf EXCEPT ![w] = Over(Over(@, <<NUL>>), DefaultText)]
  /\ hasUndo' = [hasUndo EXCEPT ![w] = FALSE] /\ hasRedo' = [hasRedo EXCEPT ![w] = FALSE] /\ Deselect(w)
  /\ find' = [find EXCEPT ![w].on = FALSE, ![w].from = 0]
  /\ file' = [file EXCEPT ![w] = ""] /\ title' = [title EXCEPT ![w] = "Notepad"]
New(w) == FreshWindow(w) /\ UNCHANGED <<undo, undoLen, undoCursor, before, clip, mouse, menu, kept, fsvars>>
Close(w) == w \in open /\ open' = open \ {w}
            /\ UNCHANGED <<edit, history, clip, sel, mouse, find, title, file, menu, kept, fsvars>>

(* notepad_open_file: the first window in use is taken, or a new one. *)
OpenFile(d, n) ==
  LET w    == IF open # {} THEN Least(open) ELSE Least(Wins)
      r    == FsRead(d, n)
      text == UpTo(Without(CStr(UpTo(r.data, BufSize - 1)), "CR"), BufSize - 1)
  IN /\ open' = open \cup {w} /\ files' = r.table
     /\ IF w \in open THEN Put(w, text, Len(text))
        ELSE /\ len' = [len EXCEPT ![w] = Len(text)] /\ cursor' = [cursor EXCEPT ![w] = Len(text)]
             /\ buf' = [buf EXCEPT ![w] = Over(Over(Over(@, <<NUL>>), DefaultText), Append(text, NUL))]
     /\ Deselect(w) /\ clip' = <<>> /\ find' = [find EXCEPT ![w] = NoFind]
     /\ undoLen' = [undoLen EXCEPT ![w] = 0]
     /\ hasUndo' = [hasUndo EXCEPT ![w] = FALSE] /\ hasRedo' = [hasRedo EXCEPT ![w] = FALSE]
     /\ title' = [title EXCEPT ![w] = n] /\ file' = [file EXCEPT ![w] = Cut[n]]
     /\ UNCHANGED <<undo, undoCursor, before, mouse, menu, kept, mounted, disk>>

----------------------------------------------------------------------------
(* The mouse: handle_notepad_click, handle_notepad_drag, notepad_end_drag. *)

Click(w, pos) ==
  /\ menu' = FALSE
  /\ IF drag >= 0 THEN UNCHANGED <<mouse, sel, cursor>>
     ELSE /\ drag' = w /\ dragStart' = [dragStart EXCEPT ![w] = pos]
          /\ sel' = [sel EXCEPT ![w] = [on |-> pos < len[w], from |-> pos, to |-> pos]]
          /\ cursor' = [cursor EXCEPT ![w] = pos]
Drag(w, pos) ==
  /\ drag = w
  /\ LET a == Min2(pos, dragStart[w])
         b == pos + dragStart[w] - a
     IN sel' = [sel EXCEPT ![w] = [on |-> a < b, from |-> a, to |-> b]]
  /\ cursor' = [cursor EXCEPT ![w] = pos] /\ UNCHANGED <<mouse, menu>>
Release == drag' = -1 /\ UNCHANGED <<dragStart, sel, cursor, menu>>
RightClick == menu' = TRUE /\ UNCHANGED <<mouse, sel, cursor>>

EditKey(w) ==
  /\ \/ \E c \in Chars \ {"LF"} : TypeChar(w, c)
     \/ Enter(w) \/ Backspace(w) \/ Move(w) \/ Copy(w) \/ Cut_(w) \/ Paste(w) \/ SelectAll(w) \/ Undo(w) \/ Redo(w)
  /\ UNCHANGED <<mouse, menu, find>>
(* notepad_context_menu_click; a click beside its items closes it too. *)
MenuClick(w) ==
  /\ menu /\ menu' = FALSE
  /\ \/ Cut_(w) \/ Copy(w) \/ Paste(w) \/ Clear(w) \/ SelectAll(w) \/ Redo(w)
     \/ UNCHANGED <<edit, history, sel, clip>>
  /\ UNCHANGED <<mouse, find>>
Find(w)  == \E reset \in BOOLEAN : FindNext(w, reset) /\ UNCHANGED <<mouse, menu>>
Point(w) ==
  /\ \E pos \in 0 .. len[w] : Click(w, pos) \/ Drag(w, pos)
  /\ UNCHANGED <<buf, len, history, clip, find>>
Button == (Release \/ RightClick) /\ UNCHANGED <<buf, len, history, clip, find>>
InWindow == UNCHANGED <<open, title, file, kept, fsvars>>

----------------------------------------------------------------------------
NotepadOK ==
  /\ open \subseteq Wins /\ drag \in Wins \cup {-1}
  /\ \A w \in Wins : /\ len[w] \in 0 .. BufSize - 1 /\ Len(buf[w]) = BufSize /\ Len(undo[w]) = UndoSize
                     /\ undoLen[w] \in 0 .. BufSize - 1 /\ buf[w][BufSize] = NUL
                     /\ sel[w].from <= sel[w].to /\ file[w] \in Names \cup {""}
  /\ Len(clip) < ClipSize

(* TextSound: the cursor stays inside the text, whatever was undone,       *)
(* redone, found, opened or pasted in the windows: every edit shifts the   *)
(* bytes from the cursor on without looking.  notepad_undo, notepad_paste  *)
(* and handle_notepad_key.                                                 *)
TextSound == \A w \in open : cursor[w] <= len[w]

(* UndoRestores: while there is a step to undo or redo, taking it brings   *)
(* back the text that was there before the last step, if that fits in the  *)
(* undo buffer, however the steps were mixed.  notepad_save_undo,          *)
(* notepad_undo, notepad_redo.                                             *)
UndoRestores ==
  \A w \in open : (hasUndo[w] \/ hasRedo[w]) /\ Len(before[w]) < UndoSize =>
    SubSeq(undo[w], 1, undoLen[w]) = before[w]
=============================================================================
