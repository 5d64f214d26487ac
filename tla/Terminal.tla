------------------------------ MODULE Terminal ------------------------------
(***************************************************************************)
(* The shell of apps/app_terminal.c: each window has its scrollback, the   *)
(* line that is being typed and how far it is scrolled; the clipboard is   *)
(* shared.                                                                 *)
(*                                                                         *)
(* A line is a sequence of words, each of them one character long as far   *)
(* as the limits go; the first word of a command is its name, the second   *)
(* the argument of the commands on files.                                  *)
(***************************************************************************)
EXTENDS RamFiles

CONSTANTS
  Terms,                  \* the windows
  MaxLines, LineLen, ClipLen,     \* TERM_MAX_LINES, TERM_LINE_LEN, TERM_CLIPBOARD_SIZE
  PerLine, Visible,       \* what fits in a window: words in a row, and rows
  Words                   \* what may be typed

ASSUME TerminalAssumption ==
  MaxLines \in Nat \ {0, 1} /\ LineLen \in Nat \ {0, 1, 2} /\ ClipLen \in Nat \ {0} /\ PerLine \in Nat \ {0} /\ Visible \in Nat \ {0}

VARIABLES
  lines, input, scroll,   \* term_states
  tclip,                  \* term_clipboard
  tmenu,                  \* term_ctx_open
  tdrag,                  \* term_scrollbar_dragging: the windows it may be, none or one
  pushed,                 \* ghost: every line pushed since the scrollback was last cleared
  touched                 \* ghost: the names that touch answered "ok" to, and rm has not removed

termvars == <<lines, input, scroll, tclip, tmenu, tdrag, pushed, touched>>

(* term_push_line: the oldest line goes; a line is cut to its place. *)
Fit(l)       == UpTo(l, LineLen - 1)
(* Mutant: a full scrollback takes no more. *)
PushIfRoom(ls, l) == IF Len(ls) >= MaxLines THEN ls ELSE Append(ls, Fit(l))
Push(ls, l)  == Append(IF Len(ls) >= MaxLines THEN Tail(ls) ELSE ls, Fit(l))
PushAll(ls, new) ==
  LET after[k \in 0 .. Len(new)] == IF k = 0 THEN ls ELSE Push(after[k - 1], new[k]) IN after[Len(new)]

Rows(l)      == IF l = <<>> THEN 1 ELSE (Len(l) + PerLine - 1) \div PerLine
TotalRows(ls) == IF ls = <<>> THEN 1 ELSE FoldLeft(LAMBDA n, l : n + Rows(l), 0, ls)
MaxScroll(ls) == IF TotalRows(ls) > Visible THEN TotalRows(ls) - Visible ELSE 0

Banner == <<<<"SavaOS", "Terminal">>, <<"Type", "help">>>>

TermInit ==
  /\ lines = [t \in Terms |-> Banner] /\ input = [t \in Terms |-> <<>>] /\ scroll = [t \in Terms |-> 0]
  /\ tclip = <<>> /\ tmenu = FALSE /\ tdrag = {}
  /\ pushed = [t \in Terms |-> Banner] /\ touched = {}

----------------------------------------------------------------------------
(* The clipboard: action_copy takes whole lines while they fit, action_paste *)
(* what comes before the first newline, as far as there is room.           *)

Joined(ls, k) == FlattenSeq([i \in 1 .. k |-> Append(ls[i], "LF")])
CopyLines(t) ==
  LET k == CHOOSE n \in 0 .. Len(lines[t]) :
             /\ Len(Joined(lines[t], n)) < ClipLen
             /\ n < Len(lines[t]) => Len(Joined(lines[t], n + 1)) >= ClipLen
  IN IF k = 0 THEN <<>> ELSE Front(Joined(lines[t], k))
PasteLine(t) ==
  LET head == UpTo(tclip, LineLen - 1 - Len(input[t]))
      nl   == SelectInSeq(head, LAMBDA c : c = "LF")
  IN input[t] \o (IF nl = 0 THEN head ELSE SubSeq(head, 1, nl - 1))
(* cmd_cat: the runs of bytes between line ends, cut where a line is full; *)
(* it stops one short of a full scrollback.                                *)
Break(c) == c \in {"LF", "CR"}
RunOf(s, i, j) == \A k \in i .. j : ~Break(s[k])
LinesOf(s) ==
  LET starts == {p \in DOMAIN s : /\ ~Break(s[p])
                                  /\ (p - Least({i \in 1 .. p : RunOf(s, i, p)})) % (LineLen - 1) = 0}
      End(p) == CHOOSE j \in p .. p + LineLen - 2 :
                  /\ j <= Len(s) /\ RunOf(s, p, j)
                  /\ j = p + LineLen - 2 \/ j = Len(s) \/ Break(s[j + 1])
      order  == InOrder(starts)
  IN [k \in DOMAIN order |-> SubSeq(s, order[k], End(order[k]))]
Room(count)  == IF count < MaxLines - 1 THEN MaxLines - 1 - count ELSE 0

----------------------------------------------------------------------------
(* What a command prints, with n lines in the scrollback. *)

Say(w) == <<<<w>>>>
OneEach(s) == [k \in DOMAIN s |-> <<s[k]>>]
OnVolume(n, can, done) == IF ~mounted THEN Say("fat32 not mounted") ELSE IF n = "" THEN Say("usage") ELSE Say(IF can THEN done ELSE "fail")
(* The argument of a command, which is empty when only its name was typed. *)
Arg(cmd)  == IF Len(cmd) < 2 THEN "" ELSE cmd[2]
IsName(n) == n \in Names

Printed(cmd, count) ==
  LET c == cmd[1]  n == Arg(cmd)
  IN CASE c = "help"  -> [k \in 1 .. 4 |-> <<"help">>]
       [] c = "echo"  -> <<Tail(cmd)>>
       [] c \in {"ver", "uname", "about", "time"} -> Say(c)
       [] c = "ls"    -> IF FsList = <<>> THEN Say("(empty)") ELSE OneEach(FsList)
       [] c = "cat"   -> IF ~IsName(n) \/ FsOpen(n).fd = 0 THEN Say("file not found")
                         ELSE UpTo(LinesOf(CStr(FsOpen(n).table[FsOpen(n).fd].data)), Room(count))
       [] c = "touch" -> IF n = "" THEN Say("usage") ELSE Say(IF IsName(n) /\ FsCreate(n).fd # 0 THEN "ok" ELSE "error")
       [] c = "rm"    -> Say(IF IsName(n) /\ FsDelete(n).fd # 0 THEN "deleted" ELSE "not found")
       [] c = "fatls" -> IF mounted THEN Say("/:") \o OneEach(FsList) ELSE Say("fat32 not mounted")
       [] c = "fatmkdir" -> OnVolume(n, IsName(n) /\ CanMake(n), "ok")
       [] c = "fatrm"    -> OnVolume(n, IsName(n) /\ CanUnlink(n), "deleted")
       [] c = "fatrmdir" -> OnVolume(n, IsName(n) /\ CanRmdir(n), "removed")
       [] c = "fsstate"  -> Say(IF Len(cmd) = 1 THEN "fat32=" ELSE "unknown command")
       [] OTHER -> Say(IF c = "clear" THEN "" ELSE "unknown command")

(* What it does to the files.  A command that fails, or is not about them, *)
(* leaves them alone; cat may fill a slot of the table.                    *)
FileEffect(cmd) ==
  LET c == cmd[1]  n == Arg(cmd)
      On(k) == c = k /\ IsName(n)
  IN /\ files' = IF On("cat") THEN FsOpen(n).table ELSE IF On("touch") THEN FsCreate(n).table
                 ELSE IF On("rm") THEN FsDelete(n).table ELSE files
     /\ disk' = IF ~mounted THEN disk
                ELSE IF On("fatmkdir") /\ CanMake(n) THEN Made(n)
                ELSE IF (On("fatrm") /\ CanUnlink(n)) \/ (On("fatrmdir") /\ CanRmdir(n)) THEN Removed(n) ELSE disk
     /\ touched' = IF On("touch") /\ FsCreate(n).fd # 0 THEN touched \cup {n}
                   ELSE IF On("rm") THEN touched \ {n} ELSE touched

(* term_exec_command, after the typed line itself was pushed. *)
Execute(t, echoed) ==
  LET cmd == input[t]
      new == IF cmd = <<>> THEN <<>> ELSE Printed(cmd, Len(echoed))
  IN IF cmd # <<>> /\ cmd[1] = "clear"
     THEN /\ lines' = [lines EXCEPT ![t] = <<>>] /\ pushed' = [pushed EXCEPT ![t] = <<>>]
          /\ scroll' = [scroll EXCEPT ![t] = 0] /\ UNCHANGED <<files, disk, touched>>
     ELSE /\ lines' = [lines EXCEPT ![t] = PushAll(echoed, new)]
          /\ pushed' = [pushed EXCEPT ![t] = Append(@, <<">">> \o cmd) \o new]
          /\ scroll' = [scroll EXCEPT ![t] = MaxScroll(lines'[t])]
          /\ IF cmd = <<>> THEN UNCHANGED <<files, disk, touched>> ELSE FileEffect(cmd)

----------------------------------------------------------------------------
(* on_key.  It compares with 0x48 and 0x50 for the arrows, which are the   *)
(* letters H and P and were typed by then: no key scrolls.                 *)
EnterKey(t) ==
  /\ Execute(t, Push(lines[t], <<">">> \o input[t]))
  /\ input' = [input EXCEPT ![t] = <<>>] /\ UNCHANGED <<tclip, tmenu, tdrag, mounted>>
WordKey(t, w) ==
  /\ Len(input[t]) < LineLen - 1 /\ input' = [input EXCEPT ![t] = Append(@, w)]
  /\ UNCHANGED <<lines, scroll, pushed, touched, tclip, tmenu, tdrag, fsvars>>
EraseKey(t) ==
  /\ input[t] # <<>> /\ input' = [input EXCEPT ![t] = Front(@)]
  /\ UNCHANGED <<lines, scroll, pushed, touched, tclip, tmenu, tdrag, fsvars>>

(* The entries of the menu and of the context menu. *)
Entry(t, e) ==
  /\ tclip' = IF e \in {"Copy", "Select All"} THEN CopyLines(t) ELSE tclip
  /\ input' = IF e = "Paste" THEN [input EXCEPT ![t] = PasteLine(t)] ELSE input
  /\ IF e = "Clear" THEN lines' = [lines EXCEPT ![t] = <<>>] /\ pushed' = [pushed EXCEPT ![t] = <<>>]
     ELSE UNCHANGED <<lines, pushed>>
  /\ scroll' = IF e \in {"Clear", "Select All"} THEN [scroll EXCEPT ![t] = 0] ELSE scroll
  /\ UNCHANGED <<touched, tdrag, fsvars>>
Entries == {"Copy", "Paste", "Clear", "Select All"}
MenuEntry(t)  == (\E e \in Entries : Entry(t, e)) /\ UNCHANGED tmenu
PopUpEntry(t) == tmenu /\ tmenu' = FALSE /\ \E e \in Entries \cup {"outside"} : Entry(t, e)
PopUp == ~tmenu /\ tmenu' = TRUE /\ UNCHANGED <<lines, input, scroll, pushed, touched, tclip, tdrag, fsvars>>

(* on_click, on_drag and on_release on the scrollbar: the arrows move a    *)
(* row, the track a page, the thumb as far as it is dragged.  Every        *)
(* command scrolls to the end, so draw never finds the window beyond it.   *)
Scrollbar(t) ==
  /\ \/ /\ tdrag' = IF TotalRows(lines[t]) > Visible THEN {t} ELSE tdrag
        /\ UNCHANGED scroll
     \/ \E s \in {scroll[t] - 1, scroll[t] + 1, scroll[t] - Visible, scroll[t] + Visible} :
          /\ scroll' = [scroll EXCEPT ![t] = IF s < 0 THEN 0 ELSE IF s > MaxScroll(lines[t]) THEN MaxScroll(lines[t]) ELSE s]
          /\ UNCHANGED tdrag
     \/ \E s \in 0 .. MaxScroll(lines[t]) :
          tdrag = {t} /\ TotalRows(lines[t]) > Visible /\ scroll' = [scroll EXCEPT ![t] = s] /\ UNCHANGED tdrag
     \/ tdrag # {} /\ tdrag' = {} /\ UNCHANGED scroll
  /\ UNCHANGED <<lines, input, pushed, touched, tclip, tmenu, fsvars>>

(* on_open: a window opened again starts with an empty scrollback. *)
Reopen(t) ==
  /\ lines' = [lines EXCEPT ![t] = Banner] /\ input' = [input EXCEPT ![t] = <<>>] /\ scroll' = [scroll EXCEPT ![t] = 0]
  /\ pushed' = [pushed EXCEPT ![t] = Banner] /\ UNCHANGED <<touched, tclip, tmenu, tdrag, fsvars>>

----------------------------------------------------------------------------
TerminalOK ==
  /\ Len(tclip) < ClipLen /\ \A t \in Terms : Len(lines[t]) <= MaxLines /\ Len(input[t]) < LineLen /\ scroll[t] \in Nat

(* Scrollback: the window holds the last TERM_MAX_LINES lines that were    *)
(* printed since it was cleared, in order and each cut to its place,       *)
(* however many lines the commands printed.  term_push_line, cmd_cat.      *)
Scrollback ==
  \A t \in Terms :
    LET n == Len(pushed[t])
        k == IF n > MaxLines THEN MaxLines ELSE n
    IN lines[t] = [i \in 1 .. k |-> Fit(pushed[t][n - k + i])]

(* TouchedIsFound: without a volume, a file that touch answered "ok" to is *)
(* found again under the name that was typed, until rm removes it, for     *)
(* names that are not too long, whatever the other commands and the editor *)
(* do to the table meanwhile.  cmd_touch, cmd_rm, fs_create, fs_delete.    *)
TouchedIsFound == ~mounted => \A n \in touched : Cut[n] = n => Used(n) # {}
=============================================================================
