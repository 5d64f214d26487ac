------------------------------ MODULE Desktop ------------------------------
(***************************************************************************)
(* The window manager of kernel/sv_desktop.c: the windows and their order, *)
(* menus and pop-ups, dragging, the opening and closing animations, and    *)
(* the main loop, which runs one frame, takes at most one key and redraws  *)
(* the screen if something asked for it.                                   *)
(*                                                                         *)
(* Coordinates are left out: "over" says what lies under the pointer.  The *)
(* applications appear by what their handlers do to windows.  `ui' holds   *)
(* the program's variables, since one frame makes several calls in a row   *)
(* that change them; an operator on it maps the state before a call to the *)
(* state after it, or to the set of those that may follow.                 *)
(***************************************************************************)
EXTENDS Integers, FiniteSetsExt

CONSTANTS
  Slots,             \* MAX_WIN
  Frames,            \* WIN_ANIM_FRAMES
  MaxZ, MaxOpens     \* bounds on wins[].z and z_seq

ASSUME DesktopAssumption == {Slots, MaxZ, MaxOpens} \subseteq Nat \ {0} /\ Frames \in Nat

Wins == 1 .. Slots
None == 0

NoApp    == "desktop"
Apps     == {"about", "disk", "notepad"}
HasPopup == {"disk", "notepad"}      \* they have on_right_click and an overlay

(* A menu bar: the first menu lists applications, the others are an app's own. *)
SavMenu == 1
OwnMenu == 2
MenuCount(app) == IF app = "about" THEN 1 ELSE 2

VARIABLES
  ui,         \* the program's variables, see TypeOK
  prev,       \* prev_buttons
  turn,       \* what the loop does next: "frame", "key", "draw"
  grabbed,    \* ghost: which opening made the window that was grabbed last
  landed,     \* ghost: the input of the last frame and the app or window that got it
  undrawn     \* ghost: something on the screen has changed since it was drawn

vars == <<ui, prev, turn, grabbed, landed, undrawn>>

Unused  == [used |-> FALSE, app |-> NoApp, z |-> 0, anim |-> "still", frame |-> 0, born |-> 0]
Window  == [used : BOOLEAN, app : Apps \cup {NoApp}, z : 0 .. MaxZ, born : 0 .. MaxOpens,
            anim : {"still", "opening", "closing"}, frame : 0 .. Frames]
Buttons == [left : BOOLEAN, right : BOOLEAN]
Nowhere == [kind |-> "none", at |-> None, got |-> None]

----------------------------------------------------------------------------
(* Windows and their order. *)

Used(s)     == {w \in Wins : s.wins[w].used}
MaxOrder(s) == Max({0} \cup {s.wins[w].z : w \in Used(s)})
AppOf(s, w) == IF w = None THEN NoApp ELSE s.wins[w].app

\* win_top_id: the first of those with the highest z.
Top(s) ==
  IF Used(s) = {} THEN None
  ELSE Min({w \in Used(s) : s.wins[w].z = MaxOrder(s)})

Animating(s) == {w \in Used(s) : s.wins[w].anim # "still"}

\* Mutant: an open menu stays open when the menus change.
SwitchMenusOpen(s, app) ==
  IF s.menuApp = app THEN s ELSE [s EXCEPT !.menuApp = app, !.blit = TRUE]

SwitchMenus(s, app) ==
  IF s.menuApp = app THEN s
  ELSE [s EXCEPT !.menuApp = app, !.menuOpen = None, !.blit = TRUE]

\* Mutant: level with the highest, not above it.
BringFrontLevel(s, w) == SwitchMenus([s EXCEPT !.wins[w].z = MaxOrder(s)], s.wins[w].app)

\* win_bring_front does not touch z_seq.
BringFront(s, w) == SwitchMenus([s EXCEPT !.wins[w].z = MaxOrder(s) + 1], s.wins[w].app)

WinOpen(s, app) ==
  IF Used(s) = Wins THEN s
  ELSE LET w == Min(Wins \ Used(s)) IN
       [s EXCEPT
          !.wins[w] = [used |-> TRUE, app |-> app, z |-> s.zSeq + 1, born |-> s.zSeq + 1,
                       anim |-> "opening", frame |-> 0],
          !.zSeq = @ + 1, !.blit = TRUE,
          !.files = IF app = "notepad" THEN @ \ {w} ELSE @]

\* Mutant: a window that is animated may be closed once more.
WinCloseAgain(s, w) ==
  IF w = None THEN s
  ELSE [s EXCEPT !.wins[w].anim = "closing", !.wins[w].frame = 0, !.blit = TRUE]

WinClose(s, w) ==
  IF w = None \/ s.wins[w].anim # "still" THEN s
  ELSE [s EXCEPT !.wins[w].anim = "closing", !.wins[w].frame = 0, !.blit = TRUE]

EjectDisks(s) ==
  [s EXCEPT !.blit = TRUE,
     !.wins = [w \in Wins |-> IF s.wins[w].app = "disk" THEN WinClose(s, w).wins[w] ELSE s.wins[w]]]

(* notepad_open_file takes the first Notepad there is, or opens one and takes
   what is on top then. *)
NotepadOpenFile(s) ==
  LET notepads == {w \in Used(s) : s.wins[w].app = "notepad"}
      opened   == IF notepads = {} THEN WinOpen(s, "notepad") ELSE s
      np       == IF notepads = {} THEN Top(opened) ELSE Min(notepads)
  IN  IF np = None THEN opened
      ELSE [BringFront(opened, np) EXCEPT !.files = @ \cup {np}, !.blit = TRUE]

OpenDisk(s) == [WinOpen(s, "disk") EXCEPT !.blit = TRUE]

\* An icon stands for an application, a folder or a file.
OpenIcon(s) == {WinOpen(s, app) : app \in Apps} \cup {OpenDisk(s), NotepadOpenFile(s)}

----------------------------------------------------------------------------
(* What the handlers do to windows.  Most of what they do is their own affair. *)

\* Enter in a Disk window, or a second click on its selected line.
DiskEnter(s) == {s, NotepadOpenFile(s)}

AppClick(s, w) == IF s.wins[w].app = "disk" THEN DiskEnter(s) ELSE {s}
AppKey(s, w)   == IF s.wins[w].app = "disk" THEN DiskEnter(s) ELSE {s}

DiskOpen(s) == \E w \in Used(s) : s.wins[w].app = "disk"

\* handle_menu_action: the active app first, then the item's app, then the desktop.
\* Notepad's Open presses Enter in the highest Disk window; Shut Down is left out.
MenuAction(s, menu) ==
  IF menu = SavMenu THEN {WinOpen(s, "about")}
  ELSE CASE AppOf(s, Top(s)) = "disk"    -> {WinClose(s, Top(s))} \cup DiskEnter(s)
         [] AppOf(s, Top(s)) = "notepad" ->
              {s, WinClose(s, Top(s)), WinOpen(s, "notepad")}
                \cup IF DiskOpen(s) THEN DiskEnter(s) ELSE {}
         [] OTHER -> {s, WinOpen(s, "about"), EjectDisks(s), WinClose(s, Top(s))} \cup OpenIcon(s)

\* context_menu_click, for the menu of the desktop.
ContextClick(s, hit) ==
  {[t EXCEPT !.ctx = FALSE, !.blit = TRUE] :
     t \in IF hit THEN {s, WinOpen(s, "about"), EjectDisks(s)} \cup OpenIcon(s) ELSE {s}}

\* click_overlay of the app of window w; the Disk app's acts on the active window.
PopupClick(s, w) ==
  LET app == s.wins[w].app IN
  {[t EXCEPT !.popups = @ \ {app}, !.blit = TRUE] :
     t \in IF app = "disk" /\ AppOf(s, Top(s)) = "disk"
           THEN {WinClose(s, Top(s))} \cup DiskEnter(s) ELSE {s}}

----------------------------------------------------------------------------
(* One frame.  A place says what the pointer is on: a title or an item of  *)
(* the menus, and what is below: a window's part, an icon or nothing.      *)

Places(s) ==
  {p \in [title : 0 .. MenuCount(s.menuApp), item : BOOLEAN, w : Used(s) \cup {None},
          part : {"close", "title", "client", "edge"}, icon : BOOLEAN] :
     /\ p.title # 0 => ~p.item /\ p.w = None /\ ~p.icon      \* the menu bar is above it all
     /\ p.item => s.menuOpen # None
     /\ p.icon => p.w = None
     /\ p.w = None => p.part = "edge"}

Bare == [title |-> 0, item |-> FALSE, w |-> None, part |-> "edge", icon |-> FALSE]

\* What desktop_manager_click does with a press of the left button.
ManagerClick(s, p) ==
  CASE p.title # 0 -> {[s EXCEPT !.menuOpen = p.title]}
    [] p.title = 0 /\ s.menuOpen # None ->
         {[t EXCEPT !.menuOpen = None] : t \in IF p.item THEN MenuAction(s, s.menuOpen) ELSE {s}}
    [] p.title = 0 /\ s.menuOpen = None /\ p.w # None ->
         LET front == BringFront(s, p.w) IN
         {CASE p.part = "close" -> WinClose(front, p.w)
            [] p.part = "title" -> [front EXCEPT !.drag = p.w]
            [] OTHER -> front}
    [] p.title = 0 /\ s.menuOpen = None /\ p.w = None -> {s} \cup IF p.icon THEN OpenIcon(s) ELSE {}

(* Whether the place is in the client area of the active window of t: no
   window covers it in s, so only one that has just been opened can. *)
InClient(s, t, p) ==
  IF p.w # None THEN {p.w = Top(t) /\ p.part = "client"}
  ELSE IF Top(t) \in Used(s) \cup {None} THEN {FALSE} ELSE BOOLEAN

\* The same press, handed on to the active application.
ClickThrough(s, t, p) ==
  IF t.menuOpen # None \/ (s.menuOpen # None /\ p.item) THEN {t}
  ELSE UNION {IF in THEN AppClick(t, Top(t)) ELSE {t} : in \in InClient(s, t, p)}

PopupOwners(s) == {w \in Used(s) : s.wins[w].app \in s.popups}

\* The beginning of a frame: the menu bar follows the active window, and a release
\* outside a pop-up closes it.
FrameStart(release, hit) ==
  LET s == SwitchMenus(ui, AppOf(ui, Top(ui)))
      closed == [s EXCEPT !.ctx = FALSE, !.popups = @ \ {s.wins[w].app : w \in PopupOwners(s)}]
  IN  IF release /\ ~hit /\ closed # s THEN [closed EXCEPT !.blit = TRUE] ELSE s

\* A press of the right button opens a pop-up, and the frame is over.
OpensPopup(s, p) ==
  /\ ~s.ctx /\ s.popups = {}
  /\ p.w = None \/ (s.wins[p.w].app \in HasPopup /\ p.part = "client")

RightPress(s, p) ==
  IF p.w = None THEN [s EXCEPT !.ctx = TRUE, !.blit = TRUE]
  ELSE [s EXCEPT !.popups = @ \cup {s.wins[p.w].app}, !.blit = TRUE]

\* What the user can see, the position of the windows aside.
Visible(s) ==
  <<[w \in Wins |-> [s.wins[w] EXCEPT !.frame = 0]], s.menuApp, s.menuOpen, s.ctx, s.popups, s.files>>

Within(s) == MaxOrder(s) <= MaxZ /\ s.zSeq <= MaxOpens

FrameReturns(t) == /\ ui' = t /\ Within(t)
                   /\ undrawn' = (undrawn \/ Visible(t) # Visible(ui))
                   /\ landed' = TRUE /\ UNCHANGED grabbed

FrameEnds(t, b, moved, edge) ==
  LET dragged == moved /\ b.left /\ t.drag # None /\ t.menuOpen = None
      redraw  == moved \/ edge \/ Animating(t) # {} \/ t.menuOpen # ui.menuOpen
  IN  /\ ui' = [t EXCEPT !.blit = @ \/ redraw] /\ Within(t)
      /\ undrawn' = (undrawn \/ dragged \/ Visible(t) # Visible(ui))

\* A press at p in s, which the window manager has answered with t.
Press(s, t, p) ==
  /\ grabbed' = IF s.menuOpen = None /\ p.part = "title" THEN t.wins[p.w].born ELSE grabbed
  /\ landed' = IF p.item THEN s.menuApp = AppOf(s, Top(s))
               ELSE p.w # None /\ s.menuOpen = None => Top(t) = p.w

\* What a frame starts from: the pop-ups, then the right button, then the left one's release.
FrameOn(s, b, moved, p) ==
  LET press   == b.left /\ ~prev.left
      release == ~b.left /\ prev.left
      rpress  == b.right /\ ~prev.right
      shut    == IF rpress THEN [s EXCEPT !.menuOpen = None] ELSE s
  IN  IF rpress /\ OpensPopup(s, p) THEN FrameReturns(RightPress(shut, p))
      ELSE \/ /\ press
              /\ \E t \in ManagerClick(shut, p) :
                   /\ Press(shut, t, p)
                   /\ \E u \in ClickThrough(shut, t, p) : FrameEnds(u, b, moved, TRUE)
           \/ /\ ~press
              /\ FrameEnds(IF release THEN [shut EXCEPT !.drag = None] ELSE shut, b, moved, release)
              /\ landed' = TRUE /\ UNCHANGED grabbed

Frame ==
  /\ turn = "frame" /\ turn' = "key"
  /\ \E b \in Buttons, hit, moved \in BOOLEAN :
       LET press == b.left /\ ~prev.left IN
       \E s \in {FrameStart(~b.left /\ prev.left, hit)} :
         /\ prev' = b
         /\ hit => s.ctx \/ PopupOwners(s) # {}
         /\ \/ press /\ s.ctx /\ \E t \in ContextClick(s, hit) : FrameReturns(t)
            \/ press /\ ~s.ctx /\ hit /\ \E t \in PopupClick(s, Min(PopupOwners(s))) : FrameReturns(t)
            \/ /\ ~(press /\ (s.ctx \/ hit))
               /\ \E p \in IF press \/ (b.right /\ ~prev.right) THEN Places(s) ELSE {Bare} :
                    FrameOn(s, b, moved, p)
----------------------------------------------------------------------------
(* The rest of the loop. *)

NoKey == UNCHANGED ui

\* Mutant: no redraw is asked for.
EscapeSilent ==
  ui' = IF ui.ctx THEN [ui EXCEPT !.ctx = FALSE]
        ELSE IF ui.popups # {}
             THEN [ui EXCEPT !.popups = @ \ {ui.wins[w].app : w \in PopupOwners(ui)}]
        ELSE [ui EXCEPT !.menuOpen = None]

Escape ==
  ui' = [(IF ui.ctx THEN [ui EXCEPT !.ctx = FALSE]
          ELSE IF ui.popups # {}
               THEN [ui EXCEPT !.popups = @ \ {ui.wins[w].app : w \in PopupOwners(ui)}]
          ELSE [ui EXCEPT !.menuOpen = None]) EXCEPT !.blit = TRUE]

OtherKey ==
  \E t \in IF Top(ui) = None THEN {ui} ELSE AppKey(ui, Top(ui)) :
    Within(t) /\ ui' = [t EXCEPT !.blit = TRUE]

Key ==
  /\ turn = "key" /\ turn' = "draw"
  /\ NoKey \/ Escape \/ OtherKey
  /\ undrawn' = (undrawn \/ Visible(ui') # Visible(ui))
  /\ UNCHANGED <<prev, grabbed, landed>>

\* Mutant: the drag outlives the window.
AnimatedDragged(s) ==
  LET over == {w \in Animating(s) : s.wins[w].frame + 1 > Frames}
  IN  [s EXCEPT
         !.wins = [w \in Wins |->
                     IF w \in over /\ s.wins[w].anim = "closing" THEN Unused
                     ELSE IF w \in over THEN [s.wins[w] EXCEPT !.anim = "still", !.frame = 0]
                     ELSE IF w \in Animating(s) THEN [s.wins[w] EXCEPT !.frame = @ + 1]
                     ELSE s.wins[w]],
         !.blit = Animating(s) # {}]

\* animate_window_zoom, for every window that is animated: at the end it opens or goes.
Animated(s) ==
  LET over == {w \in Animating(s) : s.wins[w].frame + 1 > Frames}
      gone == {w \in over : s.wins[w].anim = "closing"}
  IN  [s EXCEPT
         !.wins = [w \in Wins |-> IF w \in gone THEN Unused
                                  ELSE IF w \in over THEN [s.wins[w] EXCEPT !.anim = "still", !.frame = 0]
                                  ELSE IF w \in Animating(s) THEN [s.wins[w] EXCEPT !.frame = @ + 1]
                                  ELSE s.wins[w]],
         !.drag = IF @ \in gone THEN None ELSE @,
         !.blit = Animating(s) # {}]

\* A frame in which the last animation ends is drawn twice, since windows are drawn
\* before the animations.
Draw ==
  /\ turn = "draw" /\ turn' = "frame"
  /\ IF ui.blit
     THEN /\ ui' = Animated(ui)
          /\ undrawn' = (Animating(ui') # {} /\ Visible(ui') # Visible(ui))
     ELSE UNCHANGED <<ui, undrawn>>
  /\ UNCHANGED <<prev, grabbed, landed>>

Init ==
  /\ ui = WinOpen([wins |-> [w \in Wins |-> Unused], zSeq |-> 0, drag |-> None, menuApp |-> NoApp,
                   menuOpen |-> None, ctx |-> FALSE, popups |-> {}, files |-> {}, blit |-> TRUE], "about")
  /\ prev = [left |-> FALSE, right |-> FALSE] /\ turn = "frame"
  /\ grabbed = 0 /\ landed = TRUE /\ undrawn = TRUE

Next == Frame \/ Key \/ Draw

\* The loop never stops.
Spec == Init /\ [][Next]_vars /\ WF_vars(Next)

----------------------------------------------------------------------------
(* Everything is in its range; an open menu is one of the menus shown, whose number
   changes with the active window (kernel/sv_desktop.c:362-384). *)
TypeOK ==
  /\ ui \in [wins : [Wins -> Window], zSeq : 0 .. MaxOpens, drag : Wins \cup {None},
             menuApp : Apps \cup {NoApp}, menuOpen : {None, SavMenu, OwnMenu}, ctx : BOOLEAN,
             popups : SUBSET HasPopup, files : SUBSET Wins, blit : BOOLEAN]
  /\ ui.menuOpen <= MenuCount(ui.menuApp)
  /\ prev \in Buttons /\ turn \in {"frame", "key", "draw"}
  /\ grabbed \in 0 .. MaxOpens /\ landed \in BOOLEAN /\ undrawn \in BOOLEAN

(* The window that follows the mouse is the one whose title was pressed: it is not closed,
   and no other window has taken its slot.  The button's release may be overlooked, when the
   other one is pressed in the same frame (kernel/sv_desktop.c:1421-1440), so what keeps this true is
   the reset at the end of the closing animation. *)
DragSound == ui.drag # None => ui.wins[ui.drag].used /\ ui.wins[ui.drag].born = grabbed

(* What the user does reaches what it was aimed at: a command chosen in a menu goes to the
   application whose menus are shown, even when windows have closed since, and a window that was
   pressed becomes the active one. *)
InputLands == landed

(* No change of the screen is forgotten: when the loop comes to drawing and something visible has
   changed, the redraw was asked for. *)
ScreenCurrent == turn = "draw" /\ undrawn => ui.blit

Closing(w) == ui.wins[w].anim = "closing"

(* A window that is being closed does not stay half closed: its slot becomes free
   (kernel/sv_desktop.c:865-906). *)
ClosingEnds == \A w \in Wins : Closing(w) ~> ~Closing(w)

(* A file opened from the desktop or the file manager is shown in a Notepad. *)
OpensInNotepad == [][\A w \in ui'.files \ ui.files : ui'.wins[w].app = "notepad"]_vars
=============================================================================
