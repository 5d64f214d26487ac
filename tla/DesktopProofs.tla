--------------------------- MODULE DesktopProofs ----------------------------
(***************************************************************************)
(* The window manager, for any number of windows and length of the         *)
(* animations.  Every call takes the program's variables from a sound      *)
(* state to a sound one in which the windows that were there are still     *)
(* there and nothing else is dragged (Onward); only the press of a title   *)
(* and the release of the button change what is dragged, and only drawing  *)
(* frees a slot.  A frame is a sequence of calls, so what holds between    *)
(* the steps of the loop (Steady) follows call by call.                    *)
(*                                                                         *)
(* The file commands of the desktop and its applications, for any number   *)
(* of windows, names, contents and directories.  A call of the driver      *)
(* leaves the edges from directory to directory, adds one or takes one     *)
(* away; what is remembered of the directories (FilesInv) follows from     *)
(* that.  What a command does to the contents (Keeps) is shown call by     *)
(* call.                                                                   *)
(***************************************************************************)
EXTENDS Desktop, Files, WellFoundedInduction, FiniteSetTheorems, SequenceTheorems, TLAPS

Row  == [used : BOOLEAN, app : Apps \cup {NoApp}, z : Nat, born : Nat,
         anim : {"still", "opening", "closing"}, frame : 0 .. Frames]
Desk == [wins : [Wins -> Row], zSeq : Nat, drag : Wins \cup {None},
         menuApp : Apps \cup {NoApp}, menuOpen : {None, SavMenu, OwnMenu}, ctx : BOOLEAN,
         popups : SUBSET HasPopup, files : SUBSET Wins, blit : BOOLEAN]
Sound(s) ==
  /\ s \in Desk /\ s.menuOpen <= MenuCount(s.menuApp)
  /\ \A w \in Wins : s.wins[w].born <= s.zSeq /\ (~s.wins[w].used => s.wins[w] = Unused)
Onward(s, t) ==
  /\ Sound(t) /\ t.drag = s.drag
  /\ \A w \in Wins : s.wins[w].used => t.wins[w].used /\ t.wins[w].born = s.wins[w].born

----------------------------------------------------------------------------
(* The order of the windows. *)

LEMMA LeastIn ==
  ASSUME NEW S, S \subseteq Nat, S # {}
  PROVE  Min(S) \in S /\ \A i \in S : Min(S) <= i
<1>1. PICK R : R = OpToRel(<, Nat)
  OBVIOUS
<1>2. IsWellFoundedOn(R, Nat)
  BY <1>1, NatLessThanWellFounded
<1>3. \A x, y \in Nat : y < x => <<y, x>> \in R
  BY <1>1 DEF OpToRel
<1>4. PICK x \in S : \A y \in S : ~(<<y, x>> \in R)
  BY <1>2, WFMin
<1>5. ASSUME NEW y \in S PROVE x <= y
  <2>1. x \in Nat /\ y \in Nat /\ ~(y < x)
    BY <1>3, <1>4
  <2> QED BY <2>1
<1> QED BY <1>5 DEF Min

LEMMA GreatestIn ==
  ASSUME NEW S, S \subseteq Nat, S # {}, NEW b \in Nat, \A x \in S : x <= b
  PROVE  Max(S) \in S /\ \A x \in S : Max(S) >= x
<1> DEFINE B == {n \in Nat : \A x \in S : x <= n}
<1>1. B \subseteq Nat /\ B # {}
  OBVIOUS
<1>2. PICK m \in B : \A n \in B : m <= n
  BY <1>1, LeastIn
<1>3. m \in S
  <2>1. SUFFICES ASSUME m \notin S PROVE FALSE
    OBVIOUS
  <2>2. \A x \in S : x \in Nat /\ x < m
    BY <2>1
  <2>3. m > 0 /\ m - 1 \in Nat
    <3>1. PICK x \in S : TRUE
      OBVIOUS
    <3>2. x \in Nat /\ x < m
      BY <2>2
    <3> QED BY <3>2
  <2>4. \A x \in S : x <= m - 1
    BY <2>2, <2>3
  <2>5. m - 1 \in B
    BY <2>3, <2>4
  <2> QED BY <1>2, <2>5
<1>4. \A x \in S : m >= x
  OBVIOUS
<1> QED BY <1>3, <1>4 DEF Max

LEMMA Numbered ==
  ASSUME NEW f \in [Wins -> Nat]
  PROVE  \E b \in Nat : \A w \in Wins : f[w] <= b
<1> DEFINE Over(k) == \A b \in Nat : \E w \in 1 .. k : ~(f[w] <= b)
           K == {k \in 0 .. Slots : Over(k)}
<1>0. Slots \in Nat /\ Wins = 1 .. Slots
  BY DesktopAssumption DEF Wins
<1>1. ASSUME NEW k \in K PROVE FALSE
  <2>1. K \subseteq Nat /\ K # {}
    <3>1. 0 .. Slots \subseteq Nat
      BY <1>0
    <3> QED BY <1>1, <3>1, Zenon
  <2>2. PICK m \in K : \A j \in K : m <= j
    BY <2>1, LeastIn
  <2>3. m \in 0 .. Slots /\ Over(m)
    OBVIOUS
  <2>4. m # 0
    BY <2>3
  <2>5. m \in 1 .. Slots /\ m - 1 \in 0 .. Slots /\ ~(m <= m - 1)
    BY <1>0, <2>3, <2>4
  <2>6. ~Over(m - 1)
    BY <2>2, <2>5
  <2>7. PICK b \in Nat : \A w \in 1 .. m - 1 : f[w] <= b
    BY <2>6
  <2>8. f[m] \in Nat /\ \A w \in 1 .. m : f[w] \in Nat /\ (w = m \/ w \in 1 .. m - 1)
    BY <1>0, <2>5
  <2>9. PICK c \in Nat : c = b + f[m]
    BY <2>8
  <2>10. ASSUME NEW w \in 1 .. m PROVE f[w] <= c
    <3>1. CASE w = m
      BY <2>8, <2>9, <3>1
    <3>2. CASE w \in 1 .. m - 1
      BY <2>7, <2>8, <2>9, <3>2
    <3> QED BY <2>8, <3>1, <3>2
  <2> QED BY <2>3, <2>10
<1>2. Slots \notin K
  BY <1>1
<1>3. ~Over(Slots)
  BY <1>0, <1>2
<1> QED BY <1>0, <1>3

LEMMA Order ==
  ASSUME NEW s, Sound(s)
  PROVE  /\ MaxOrder(s) \in Nat /\ \A w \in Used(s) : s.wins[w].z <= MaxOrder(s)
         /\ Top(s) \in Used(s) \cup {None}
         /\ Used(s) # {} => Top(s) \in Used(s) /\ s.wins[Top(s)].z = MaxOrder(s)
<1> DEFINE f == [w \in Wins |-> s.wins[w].z]
           Z == {0} \cup {s.wins[w].z : w \in Used(s)}
           T == {w \in Used(s) : s.wins[w].z = MaxOrder(s)}
<1>1. \A w \in Wins : s.wins[w] \in Row /\ s.wins[w].z \in Nat /\ f[w] = s.wins[w].z
  BY DEF Sound, Desk, Row
<1>2. f \in [Wins -> Nat]
  BY <1>1
<1>3. PICK b \in Nat : \A w \in Wins : f[w] <= b
  BY <1>2, Numbered
<1>4. Used(s) \subseteq Wins /\ Z \subseteq Nat /\ Z # {} /\ \A x \in Z : x <= b
  BY <1>1, <1>3 DEF Used
<1>5. Max(Z) \in Z /\ \A x \in Z : Max(Z) >= x
  BY <1>4, GreatestIn
<1>6. MaxOrder(s) = Max(Z)
  BY DEF MaxOrder
<1>7. MaxOrder(s) \in Nat /\ \A w \in Used(s) : s.wins[w].z <= MaxOrder(s)
  BY <1>1, <1>4, <1>5, <1>6
<1>8. ASSUME Used(s) # {} PROVE Top(s) \in Used(s) /\ s.wins[Top(s)].z = MaxOrder(s)
  <2>1. T # {}
    <3>1. CASE MaxOrder(s) = 0
      <4>1. PICK w \in Used(s) : TRUE
        BY <1>8
      <4>2. s.wins[w].z = 0
        BY <1>1, <1>4, <1>7, <3>1
      <4> QED BY <3>1, <4>2
    <3>2. CASE MaxOrder(s) # 0
      BY <1>5, <1>6, <3>2
    <3> QED BY <3>1, <3>2
  <2>2. T \subseteq Nat
    BY <1>4, DesktopAssumption DEF Wins
  <2>3. Min(T) \in T
    BY <2>1, <2>2, LeastIn
  <2> QED BY <1>8, <2>3 DEF Top
<1>9. Used(s) = {} => Top(s) = None
  BY DEF Top
<1> QED BY <1>7, <1>8, <1>9

----------------------------------------------------------------------------
(* The calls. *)

LEMMA Whole ==
  ASSUME NEW s, Sound(s)
  PROVE  /\ s = [wins |-> s.wins, zSeq |-> s.zSeq, drag |-> s.drag, menuApp |-> s.menuApp, menuOpen |-> s.menuOpen,
                 ctx |-> s.ctx, popups |-> s.popups, files |-> s.files, blit |-> s.blit]
         /\ s.wins \in [Wins -> Row] /\ s.zSeq \in Nat /\ s.drag \in Wins \cup {None}
         /\ s.menuApp \in Apps \cup {NoApp} /\ s.menuOpen \in {None, SavMenu, OwnMenu} /\ s.ctx \in BOOLEAN
         /\ s.popups \in SUBSET HasPopup /\ s.files \in SUBSET Wins /\ s.blit \in BOOLEAN
         /\ Used(s) \subseteq Wins /\ AppOf(s, Top(s)) \in Apps \cup {NoApp}
<1>1. s \in Desk
  BY DEF Sound
<1>2. s.wins \in [Wins -> Row] /\ Used(s) \subseteq Wins
  BY <1>1 DEF Desk, Used
<1>3. AppOf(s, Top(s)) \in Apps \cup {NoApp}
  BY <1>2, Order DEF AppOf, Row, None
<1> QED BY <1>1, <1>2, <1>3 DEF Desk

LEMMA OnwardSame == ASSUME NEW s, Sound(s) PROVE Onward(s, s)
  BY DEF Onward

LEMMA OnwardTwice == ASSUME NEW s, NEW t, NEW u, Onward(s, t), Onward(t, u) PROVE Onward(s, u)
  BY DEF Onward

\* What is not about windows replaced.
LEMMA Flags ==
  ASSUME NEW s, Sound(s), NEW apps \in SUBSET HasPopup, NEW held \in SUBSET Wins,
         NEW open \in {None, SavMenu, OwnMenu}, open <= MenuCount(s.menuApp)
  PROVE  /\ Onward(s, [s EXCEPT !.blit = TRUE])
         /\ Onward(s, [s EXCEPT !.ctx = FALSE]) /\ Onward(s, [s EXCEPT !.ctx = FALSE, !.blit = TRUE])
         /\ Onward(s, [s EXCEPT !.ctx = TRUE, !.blit = TRUE])
         /\ Onward(s, [s EXCEPT !.popups = apps]) /\ Onward(s, [s EXCEPT !.popups = apps, !.blit = TRUE])
         /\ Onward(s, [s EXCEPT !.ctx = FALSE, !.popups = apps])
         /\ Onward(s, [s EXCEPT !.files = held, !.blit = TRUE]) /\ Onward(s, [s EXCEPT !.menuOpen = open])
<1>1. s \in Desk
  BY DEF Sound
<1>2. Onward(s, [s EXCEPT !.blit = TRUE])
  BY <1>1 DEF Onward, Sound, Desk
<1>3. Onward(s, [s EXCEPT !.ctx = FALSE])
  BY <1>1 DEF Onward, Sound, Desk
<1>4. Onward(s, [s EXCEPT !.ctx = FALSE, !.blit = TRUE])
  BY <1>1 DEF Onward, Sound, Desk
<1>5. Onward(s, [s EXCEPT !.ctx = TRUE, !.blit = TRUE])
  BY <1>1 DEF Onward, Sound, Desk
<1>6. Onward(s, [s EXCEPT !.popups = apps])
  BY <1>1 DEF Onward, Sound, Desk
<1>7. Onward(s, [s EXCEPT !.popups = apps, !.blit = TRUE])
  BY <1>1 DEF Onward, Sound, Desk
<1>8. Onward(s, [s EXCEPT !.ctx = FALSE, !.popups = apps])
  BY <1>1 DEF Onward, Sound, Desk
<1>9. Onward(s, [s EXCEPT !.files = held, !.blit = TRUE])
  BY <1>1 DEF Onward, Sound, Desk
<1>10. Onward(s, [s EXCEPT !.menuOpen = open])
  BY <1>1 DEF Onward, Sound, Desk
<1> QED BY <1>2, <1>3, <1>4, <1>5, <1>6, <1>7, <1>8, <1>9, <1>10

LEMMA Closed == ASSUME NEW s, Sound(s) PROVE Onward(s, [s EXCEPT !.menuOpen = None])
<1>1. None \in {None, SavMenu, OwnMenu} /\ None <= MenuCount(s.menuApp)
  BY DEF None, MenuCount
<1> QED BY <1>1, Flags

LEMMA SwitchMenusOn ==
  ASSUME NEW s, Sound(s), NEW app \in Apps \cup {NoApp}
  PROVE  Onward(s, SwitchMenus(s, app)) /\ SwitchMenus(s, app).wins = s.wins
<1>1. CASE s.menuApp = app
  BY <1>1, OnwardSame DEF SwitchMenus
<1>2. CASE s.menuApp # app
  <2>1. None <= MenuCount(app)
    BY DEF None, MenuCount
  <2>2. SwitchMenus(s, app) = [s EXCEPT !.menuApp = app, !.menuOpen = None, !.blit = TRUE]
    BY <1>2 DEF SwitchMenus
  <2> QED BY <2>1, <2>2, Whole DEF Onward, Sound, Desk
<1> QED BY <1>1, <1>2

\* The windows of s replaced.
LEMMA Rewritten ==
  ASSUME NEW s, Sound(s), NEW f \in [Wins -> Row], NEW n \in Nat, NEW held \in SUBSET Wins, NEW blit \in BOOLEAN,
         \A w \in Wins : /\ f[w].born <= n /\ (~f[w].used => f[w] = Unused)
                         /\ s.wins[w].used => f[w].used /\ f[w].born = s.wins[w].born
  PROVE  Onward(s, [s EXCEPT !.wins = f, !.zSeq = n, !.files = held, !.blit = blit])
<1> DEFINE t == [s EXCEPT !.wins = f, !.zSeq = n, !.files = held, !.blit = blit]
<1>1. s \in Desk
  BY DEF Sound
<1>2. t \in Desk
  BY <1>1 DEF Desk
<1>3. t.wins = f /\ t.zSeq = n /\ t.drag = s.drag /\ t.menuOpen <= MenuCount(t.menuApp)
  BY <1>1 DEF Desk, Sound
<1> HIDE DEF t
<1>4. Onward(s, t)
  BY <1>2, <1>3 DEF Onward, Sound
<1> QED BY <1>4 DEF t

LEMMA BringFrontOn ==
  ASSUME NEW s, Sound(s), NEW w \in Used(s)
  PROVE  /\ Onward(s, BringFront(s, w))
         /\ BringFront(s, w).wins = [s.wins EXCEPT ![w] = [@ EXCEPT !.z = MaxOrder(s) + 1]]
<1> DEFINE f == [s.wins EXCEPT ![w] = [@ EXCEPT !.z = MaxOrder(s) + 1]]
           t == [s EXCEPT !.wins = f, !.zSeq = s.zSeq, !.files = s.files, !.blit = s.blit]
<1>1. w \in Wins /\ s.wins \in [Wins -> Row] /\ s.wins[w].used /\ MaxOrder(s) \in Nat
  BY Whole, Order DEF Used
<1>2. [s.wins[w] EXCEPT !.z = MaxOrder(s) + 1] \in Row
  BY <1>1 DEF Row
<1>3. f \in [Wins -> Row] /\ \A v \in Wins : f[v] = IF v = w THEN [s.wins[w] EXCEPT !.z = MaxOrder(s) + 1] ELSE s.wins[v]
  BY <1>1, <1>2
<1>4. Onward(s, t)
  <2>1. ASSUME NEW v \in Wins
        PROVE  /\ f[v].born <= s.zSeq /\ (~f[v].used => f[v] = Unused)
               /\ s.wins[v].used => f[v].used /\ f[v].born = s.wins[v].born
    BY <1>1, <1>3 DEF Sound, Row
  <2>2. s.zSeq \in Nat /\ s.files \in SUBSET Wins /\ s.blit \in BOOLEAN
    BY Whole
  <2> HIDE DEF f
  <2> QED BY <1>3, <2>1, <2>2, Rewritten
<1>5. BringFront(s, w) = SwitchMenus(t, s.wins[w].app)
  BY Whole DEF BringFront
<1>6. s.wins[w].app \in Apps \cup {NoApp} /\ t.wins = f
  BY <1>1, Whole DEF Row
<1> HIDE DEF t, f
<1>7. Onward(t, BringFront(s, w)) /\ BringFront(s, w).wins = f
  BY <1>4, <1>5, <1>6, SwitchMenusOn DEF Onward
<1> QED BY <1>4, <1>7, OnwardTwice DEF f

LEMMA WinOpenOn ==
  ASSUME NEW s, Sound(s), NEW app \in Apps
  PROVE  Onward(s, WinOpen(s, app))
<1>1. CASE Used(s) = Wins
  BY <1>1, OnwardSame DEF WinOpen
<1>2. CASE Used(s) # Wins
  <2> DEFINE w == Min(Wins \ Used(s))
             row == [used |-> TRUE, app |-> app, z |-> s.zSeq + 1, born |-> s.zSeq + 1, anim |-> "opening", frame |-> 0]
             held == IF app = "notepad" THEN s.files \ {w} ELSE s.files
             f == [s.wins EXCEPT ![w] = row]
             t == [s EXCEPT !.wins = f, !.zSeq = s.zSeq + 1, !.files = held, !.blit = TRUE]
  <2>1. w \in Wins /\ ~s.wins[w].used
    <3>1. Used(s) \subseteq Wins
      BY Whole
    <3>2. Wins \ Used(s) # {}
      BY <1>2, <3>1
    <3>3. Wins \ Used(s) \subseteq Nat
      BY DesktopAssumption DEF Wins
    <3>4. w \in Wins \ Used(s)
      BY <3>2, <3>3, LeastIn
    <3> QED BY <3>4 DEF Used
  <2>2. WinOpen(s, app) = t
    <3>1. WinOpen(s, app) = [s EXCEPT !.wins[w] = row, !.zSeq = @ + 1, !.blit = TRUE,
                               !.files = IF app = "notepad" THEN @ \ {w} ELSE @]
      BY <1>2 DEF WinOpen
    <3> HIDE DEF w, row
    <3>2. [s EXCEPT !.wins[w] = row, !.zSeq = @ + 1, !.blit = TRUE,
             !.files = IF app = "notepad" THEN @ \ {w} ELSE @] = t
      BY Whole
    <3> QED BY <3>1, <3>2
  <2>3. row \in Row
    BY Whole, DesktopAssumption DEF Row
  <2> HIDE DEF w, row
  <2>4. f \in [Wins -> Row] /\ held \in SUBSET Wins /\ s.zSeq + 1 \in Nat
    BY <2>1, <2>3, Whole
  <2>5. \A v \in Wins : f[v] = IF v = w THEN row ELSE s.wins[v]
    BY <2>1, <2>3, Whole
  <2>6. ASSUME NEW v \in Wins
        PROVE  /\ f[v].born <= s.zSeq + 1 /\ (~f[v].used => f[v] = Unused)
               /\ s.wins[v].used => f[v].used /\ f[v].born = s.wins[v].born
    <3>1. s.zSeq \in Nat
      BY Whole
    <3>2. CASE v = w
      <4>1. f[v] = row
        BY <2>5, <3>2
      <4>2. row.used /\ row.born = s.zSeq + 1
        BY DEF row
      <4> QED BY <2>1, <3>1, <3>2, <4>1, <4>2
    <3>3. CASE v # w
      <4>1. f[v] = s.wins[v] /\ s.wins[v].born \in Nat /\ s.wins[v].born <= s.zSeq
        BY <2>5, <3>3, Whole DEF Row, Sound
      <4>2. ~s.wins[v].used => s.wins[v] = Unused
        BY DEF Sound
      <4> QED BY <3>1, <4>1, <4>2
    <3> QED BY <3>2, <3>3
  <2> HIDE DEF f, held
  <2>7. TRUE \in BOOLEAN
    OBVIOUS
  <2>8. Onward(s, t)
    BY <2>4, <2>6, <2>7, Rewritten, Zenon
  <2> QED BY <2>2, <2>8, Zenon
<1> QED BY <1>1, <1>2

\* Closing a window changes its animation only.
LEMMA ClosedRow ==
  ASSUME NEW s, Sound(s), NEW w \in Used(s), WinClose(s, w) # s
  PROVE  /\ [s.wins[w] EXCEPT !.anim = "closing", !.frame = 0] \in Row
         /\ WinClose(s, w) = [s EXCEPT !.wins = [s.wins EXCEPT ![w] = [@ EXCEPT !.anim = "closing", !.frame = 0]],
                                       !.blit = TRUE]
<1>1. w \in Wins /\ s.wins[w] \in Row
  BY Whole DEF Used
<1>2. [s.wins[w] EXCEPT !.anim = "closing", !.frame = 0] \in Row
  <2>1. 0 \in 0 .. Frames
    BY DesktopAssumption
  <2> QED BY <1>1, <2>1 DEF Row
<1>3. WinClose(s, w) = [s EXCEPT !.wins[w].anim = "closing", !.wins[w].frame = 0, !.blit = TRUE]
  BY DEF WinClose
<1>4. [s EXCEPT !.wins[w].anim = "closing", !.wins[w].frame = 0, !.blit = TRUE]
        = [s EXCEPT !.wins = [s.wins EXCEPT ![w] = [@ EXCEPT !.anim = "closing", !.frame = 0]], !.blit = TRUE]
  BY <1>1, Whole DEF Row
<1> QED BY <1>2, <1>3, <1>4

LEMMA WinCloseOn ==
  ASSUME NEW s, Sound(s), NEW w \in Used(s) \cup {None}
  PROVE  /\ Onward(s, WinClose(s, w))
         /\ \A v \in Wins : /\ WinClose(s, w).wins[v].used = s.wins[v].used
                            /\ WinClose(s, w).wins[v].z = s.wins[v].z /\ WinClose(s, w).wins[v].app = s.wins[v].app
<1>1. CASE WinClose(s, w) = s
  BY <1>1, OnwardSame
<1>2. CASE WinClose(s, w) # s
  <2>1. w # None /\ w \in Used(s)
    BY <1>2 DEF WinClose
  <2> DEFINE f == [s.wins EXCEPT ![w] = [@ EXCEPT !.anim = "closing", !.frame = 0]]
             t == [s EXCEPT !.wins = f, !.zSeq = s.zSeq, !.files = s.files, !.blit = TRUE]
  <2>2. /\ [s.wins[w] EXCEPT !.anim = "closing", !.frame = 0] \in Row
        /\ WinClose(s, w) = [s EXCEPT !.wins = f, !.blit = TRUE]
    BY <1>2, <2>1, ClosedRow
  <2>3. w \in Wins /\ s.wins \in [Wins -> Row] /\ s.wins[w].used
    BY <2>1, Whole DEF Used
  <2>4. f \in [Wins -> Row] /\ \A v \in Wins : f[v] = IF v = w THEN [s.wins[w] EXCEPT !.anim = "closing", !.frame = 0]
                                                     ELSE s.wins[v]
    BY <2>2, <2>3
  <2>5. ASSUME NEW v \in Wins
        PROVE  f[v].born = s.wins[v].born /\ f[v].used = s.wins[v].used /\ f[v].z = s.wins[v].z /\ f[v].app = s.wins[v].app
    BY <2>3, <2>4 DEF Row
  <2>6. ASSUME NEW v \in Wins PROVE f[v].born <= s.zSeq /\ (~f[v].used => f[v] = Unused)
    BY <2>3, <2>4, <2>5 DEF Sound
  <2> HIDE DEF f
  <2>7. WinClose(s, w) = t
    BY <2>2, Whole
  <2>8. WinClose(s, w).wins = f
    BY <2>2, Whole
  <2>9. Onward(s, WinClose(s, w))
    <3>1. s.zSeq \in Nat /\ s.files \in SUBSET Wins
      BY Whole
    <3>2. /\ TRUE \in BOOLEAN /\ f \in [Wins -> Row]
          /\ \A v \in Wins : /\ f[v].born <= s.zSeq /\ (~f[v].used => f[v] = Unused)
                             /\ s.wins[v].used => f[v].used /\ f[v].born = s.wins[v].born
      BY <2>4, <2>5, <2>6
    <3>3. Onward(s, t)
      BY <3>1, <3>2, Rewritten, Zenon
    <3> QED BY <2>7, <3>3, Zenon
  <2> QED BY <2>5, <2>8, <2>9
<1> QED BY <1>1, <1>2

LEMMA EjectDisksOn ==
  ASSUME NEW s, Sound(s)
  PROVE  Onward(s, EjectDisks(s))
<1> DEFINE f == [w \in Wins |-> IF s.wins[w].app = "disk" THEN WinClose(s, w).wins[w] ELSE s.wins[w]]
           t == [s EXCEPT !.wins = f, !.zSeq = s.zSeq, !.files = s.files, !.blit = TRUE]
<1>1. \A w \in Wins : s.wins[w] \in Row /\ (~s.wins[w].used => s.wins[w] = Unused) /\ s.wins[w].born <= s.zSeq
  BY Whole DEF Sound
<1>2. ASSUME NEW w \in Wins
      PROVE  /\ f[w] \in Row /\ f[w].born <= s.zSeq /\ (~f[w].used => f[w] = Unused)
             /\ s.wins[w].used => f[w].used /\ f[w].born = s.wins[w].born
  <2>1. CASE s.wins[w].app # "disk"
    BY <1>1, <2>1
  <2>2. CASE s.wins[w].app = "disk"
    <3>1. s.wins[w].used /\ w \in Used(s)
      BY <1>1, <2>2 DEF Unused, NoApp, Used
    <3>2. Onward(s, WinClose(s, w)) /\ WinClose(s, w).zSeq = s.zSeq
      <4>1. WinClose(s, w).zSeq = s.zSeq
        <5>1. CASE WinClose(s, w) = s
          BY <5>1
        <5>2. CASE WinClose(s, w) # s
          <6>1. WinClose(s, w) = [s EXCEPT !.wins = [s.wins EXCEPT ![w] = [@ EXCEPT !.anim = "closing", !.frame = 0]],
                                           !.blit = TRUE]
            BY <3>1, <5>2, ClosedRow
          <6> QED BY <6>1, Whole
        <5> QED BY <5>1, <5>2
      <4> QED BY <3>1, <4>1, WinCloseOn
    <3>3. f[w] = WinClose(s, w).wins[w]
      BY <2>2
    <3>4. WinClose(s, w).wins \in [Wins -> Row]
      BY <3>2, Whole DEF Onward
    <3> QED BY <3>1, <3>2, <3>3, <3>4 DEF Onward, Sound
  <2> QED BY <2>1, <2>2
<1>3. f \in [Wins -> Row]
  BY <1>2
<1>4. EjectDisks(s) = t
  <2>1. EjectDisks(s) = [s EXCEPT !.blit = TRUE, !.wins = f]
    BY DEF EjectDisks
  <2> HIDE DEF f
  <2> QED BY <2>1, Whole
<1>5. s.zSeq \in Nat /\ s.files \in SUBSET Wins
  BY Whole
<1> HIDE DEF f
<1>6. TRUE \in BOOLEAN
  OBVIOUS
<1>7. Onward(s, t)
  BY <1>2, <1>3, <1>5, <1>6, Rewritten, Zenon
<1> QED BY <1>4, <1>7, Zenon

LEMMA Repainted == ASSUME NEW s, NEW t, Onward(s, t) PROVE Onward(s, [t EXCEPT !.blit = TRUE])
<1>1. Sound(t)
  BY DEF Onward
<1>2. {} \in SUBSET HasPopup /\ {} \in SUBSET Wins /\ None \in {None, SavMenu, OwnMenu} /\ None <= MenuCount(t.menuApp)
  BY DEF None, MenuCount
<1>3. Onward(t, [t EXCEPT !.blit = TRUE])
  BY <1>1, <1>2, Flags
<1> QED BY <1>3, OnwardTwice

LEMMA NotepadOpenFileOn ==
  ASSUME NEW s, Sound(s)
  PROVE  Onward(s, NotepadOpenFile(s))
<1> DEFINE notepads == {w \in Used(s) : s.wins[w].app = "notepad"}
           opened   == IF notepads = {} THEN WinOpen(s, "notepad") ELSE s
           np       == IF notepads = {} THEN Top(opened) ELSE Min(notepads)
           front    == BringFront(opened, np)
<1>1. Onward(s, opened)
  BY OnwardSame, WinOpenOn DEF Apps
<1>2. np \in Used(opened) \cup {None}
  <2>1. CASE notepads = {}
    <3>1. Sound(opened)
      BY <1>1 DEF Onward
    <3>2. np = Top(opened)
      BY <2>1
    <3> HIDE DEF opened, np
    <3> QED BY <3>1, <3>2, Order
  <2>2. CASE notepads # {}
    <3>1. notepads \subseteq Nat
      BY Whole, DesktopAssumption DEF Wins
    <3>2. Min(notepads) \in notepads
      BY <2>2, <3>1, LeastIn
    <3>3. np = Min(notepads) /\ opened = s
      BY <2>2
    <3> QED BY <3>2, <3>3
  <2> QED BY <2>1, <2>2
<1>3. NotepadOpenFile(s) = IF np = None THEN opened
                           ELSE [front EXCEPT !.files = front.files \cup {np}, !.blit = TRUE]
  BY DEF NotepadOpenFile
<1> HIDE DEF opened, np
<1>4. CASE np = None
  BY <1>1, <1>3, <1>4
<1>5. CASE np # None
  <2>1. np \in Used(opened) /\ Sound(opened)
    BY <1>1, <1>2, <1>5 DEF Onward
  <2>2. Onward(opened, front)
    BY <2>1, BringFrontOn
  <2>3. np \in Wins /\ Sound(front)
    BY <2>1, <2>2, Whole DEF Onward
  <2> HIDE DEF front
  <2>4. front.files \cup {np} \in SUBSET Wins
    BY <2>3, Whole
  <2>5. {} \in SUBSET HasPopup /\ None \in {None, SavMenu, OwnMenu} /\ None <= MenuCount(front.menuApp)
    BY DEF None, MenuCount
  <2>6. Onward(front, [front EXCEPT !.files = front.files \cup {np}, !.blit = TRUE])
    BY <2>3, <2>4, <2>5, Flags
  <2> QED BY <1>1, <1>3, <1>5, <2>2, <2>6, OnwardTwice
<1> QED BY <1>4, <1>5

LEMMA OpenIconOn ==
  ASSUME NEW s, Sound(s)
  PROVE  \A t \in OpenIcon(s) : Onward(s, t)
<1>1. Onward(s, OpenDisk(s))
  <2>1. Onward(s, WinOpen(s, "disk"))
    BY WinOpenOn DEF Apps
  <2> QED BY <2>1, Repainted DEF OpenDisk
<1> QED BY <1>1, WinOpenOn, NotepadOpenFileOn DEF OpenIcon

LEMMA DiskEnterOn ==
  ASSUME NEW s, Sound(s)
  PROVE  \A t \in DiskEnter(s) : Onward(s, t)
  BY OnwardSame, NotepadOpenFileOn DEF DiskEnter

LEMMA AppOn ==
  ASSUME NEW s, Sound(s), NEW w
  PROVE  \A t \in AppClick(s, w) \cup AppKey(s, w) : Onward(s, t)
  BY OnwardSame, DiskEnterOn DEF AppClick, AppKey

LEMMA MenuActionOn ==
  ASSUME NEW s, Sound(s), NEW menu
  PROVE  \A t \in MenuAction(s, menu) : Onward(s, t)
<1>1. Onward(s, s) /\ Onward(s, WinOpen(s, "about")) /\ Onward(s, WinOpen(s, "notepad")) /\ Onward(s, EjectDisks(s))
  BY OnwardSame, WinOpenOn, EjectDisksOn DEF Apps
<1>2. Onward(s, WinClose(s, Top(s)))
  BY Order, WinCloseOn
<1>3. \A t \in DiskEnter(s) \cup OpenIcon(s) : Onward(s, t)
  BY DiskEnterOn, OpenIconOn
<1> DEFINE S == {s, WinOpen(s, "about"), WinOpen(s, "notepad"), EjectDisks(s), WinClose(s, Top(s))}
                  \cup DiskEnter(s) \cup OpenIcon(s)
<1>4. MenuAction(s, menu) \subseteq S
  <2>1. CASE menu = SavMenu
    BY <2>1 DEF MenuAction
  <2>2. CASE menu # SavMenu /\ AppOf(s, Top(s)) = "disk"
    BY <2>2 DEF MenuAction
  <2>3. CASE menu # SavMenu /\ AppOf(s, Top(s)) = "notepad"
    BY <2>3 DEF MenuAction
  <2>4. CASE menu # SavMenu /\ AppOf(s, Top(s)) # "disk" /\ AppOf(s, Top(s)) # "notepad"
    BY <2>4 DEF MenuAction
  <2> QED BY <2>1, <2>2, <2>3, <2>4
<1> QED BY <1>1, <1>2, <1>3, <1>4

LEMMA ContextClickOn ==
  ASSUME NEW s, Sound(s), NEW hit
  PROVE  \A t \in ContextClick(s, hit) : Onward(s, t) /\ t.blit
<1> DEFINE S == {s, WinOpen(s, "about"), EjectDisks(s)} \cup OpenIcon(s)
<1>1. \A t \in S : Onward(s, t)
  BY OnwardSame, WinOpenOn, EjectDisksOn, OpenIconOn DEF Apps
<1>2. \A u \in ContextClick(s, hit) : \E t \in S : u = [t EXCEPT !.ctx = FALSE, !.blit = TRUE]
  BY DEF ContextClick
<1> HIDE DEF S
<1>3. ASSUME NEW t \in S PROVE Onward(s, [t EXCEPT !.ctx = FALSE, !.blit = TRUE]) /\ [t EXCEPT !.ctx = FALSE, !.blit = TRUE].blit
  <2>1. Sound(t) /\ t \in Desk
    BY <1>1 DEF Onward, Sound
  <2>2. {} \in SUBSET HasPopup /\ {} \in SUBSET Wins /\ None \in {None, SavMenu, OwnMenu} /\ None <= MenuCount(t.menuApp)
    BY DEF None, MenuCount
  <2>3. Onward(t, [t EXCEPT !.ctx = FALSE, !.blit = TRUE])
    BY <2>1, <2>2, Flags
  <2>4. [t EXCEPT !.ctx = FALSE, !.blit = TRUE].blit
    BY <2>1 DEF Desk
  <2> QED BY <1>1, <2>3, <2>4, OnwardTwice
<1> QED BY <1>2, <1>3

LEMMA PopupClickOn ==
  ASSUME NEW s, Sound(s), NEW w
  PROVE  \A t \in PopupClick(s, w) : Onward(s, t) /\ t.blit
<1> DEFINE S == {s, WinClose(s, Top(s))} \cup DiskEnter(s)
           app == s.wins[w].app
<1>1. \A t \in S : Onward(s, t)
  BY OnwardSame, Order, WinCloseOn, DiskEnterOn
<1>2. \A u \in PopupClick(s, w) : \E t \in S : u = [t EXCEPT !.popups = t.popups \ {app}, !.blit = TRUE]
  BY DEF PopupClick
<1> HIDE DEF S, app
<1>3. ASSUME NEW t \in S
      PROVE  /\ Onward(s, [t EXCEPT !.popups = t.popups \ {app}, !.blit = TRUE])
             /\ [t EXCEPT !.popups = t.popups \ {app}, !.blit = TRUE].blit
  <2>1. Sound(t) /\ t \in Desk
    BY <1>1 DEF Onward, Sound
  <2>2. t.popups \ {app} \in SUBSET HasPopup /\ {} \in SUBSET Wins /\ None \in {None, SavMenu, OwnMenu}
        /\ None <= MenuCount(t.menuApp)
    BY <2>1, Whole DEF None, MenuCount
  <2>3. Onward(t, [t EXCEPT !.popups = t.popups \ {app}, !.blit = TRUE])
    BY <2>1, <2>2, Flags
  <2>4. [t EXCEPT !.popups = t.popups \ {app}, !.blit = TRUE].blit
    BY <2>1 DEF Desk
  <2> QED BY <1>1, <2>3, <2>4, OnwardTwice
<1> QED BY <1>2, <1>3

----------------------------------------------------------------------------
(* The frame. *)

LEMMA SameOrder ==
  ASSUME NEW s, NEW t, t.wins = s.wins
  PROVE  Used(t) = Used(s) /\ Top(t) = Top(s) /\ AppOf(t, Top(t)) = AppOf(s, Top(s))
<1>1. Used(t) = Used(s)
  BY DEF Used
<1>2. {t.wins[w].z : w \in Used(t)} = {s.wins[w].z : w \in Used(s)}
  BY <1>1
<1>3. MaxOrder(t) = MaxOrder(s)
  BY <1>2 DEF MaxOrder
<1>4. {w \in Used(t) : t.wins[w].z = MaxOrder(t)} = {w \in Used(s) : s.wins[w].z = MaxOrder(s)}
  BY <1>1, <1>3
<1>5. Top(t) = Top(s)
  BY <1>1, <1>4 DEF Top
<1> QED BY <1>1, <1>5 DEF AppOf

\* The one window above all others is the top one.
LEMMA Highest ==
  ASSUME NEW t, Sound(t), NEW w \in Used(t), \A v \in Used(t) \ {w} : t.wins[v].z < t.wins[w].z
  PROVE  Top(t) = w
<1>1. Top(t) \in Used(t) /\ t.wins[Top(t)].z = MaxOrder(t) /\ t.wins[w].z <= MaxOrder(t) /\ MaxOrder(t) \in Nat
  BY Order
<1>2. t.wins[w].z \in Nat
  BY Whole DEF Row
<1>3. \A m, z \in Nat : z <= m => ~(m < z)
  OBVIOUS
<1>4. ~(MaxOrder(t) < t.wins[w].z)
  BY <1>1, <1>2, <1>3
<1> QED BY <1>1, <1>4

\* What a press of the left button is given: a place as it was in s.
Aimed(s, p) ==
  /\ p.title \in 0 .. MenuCount(s.menuApp) /\ p.w \in Used(s) \cup {None}
  /\ (p.title # 0 => p.w = None) /\ (p.w = None => p.part # "title")
Grabs(s, p) == s.menuOpen = None /\ p.part = "title"

LEMMA Held ==
  ASSUME NEW s, Sound(s), NEW d \in Wins \cup {None}
  PROVE  Sound([s EXCEPT !.drag = d]) /\ [s EXCEPT !.drag = d].wins = s.wins /\ [s EXCEPT !.drag = d].drag = d
         /\ [s EXCEPT !.drag = d].zSeq = s.zSeq
<1>1. s \in Desk
  BY DEF Sound
<1>2. [s EXCEPT !.drag = d].wins = s.wins /\ [s EXCEPT !.drag = d].drag = d /\ [s EXCEPT !.drag = d].zSeq = s.zSeq
  BY <1>1 DEF Desk
<1>3. Sound([s EXCEPT !.drag = d])
  BY <1>1 DEF Sound, Desk
<1> QED BY <1>2, <1>3

\* The window that is pressed comes to the front.
LEMMA Fronted ==
  ASSUME NEW s, Sound(s), NEW w \in Used(s), NEW t, Sound(t),
         \A v \in Wins : t.wins[v].used = s.wins[v].used /\ t.wins[v].z = BringFront(s, w).wins[v].z
  PROVE  Top(t) = w
<1>1. /\ \A v \in Wins : s.wins[v] \in Row
      /\ w \in Wins /\ MaxOrder(s) \in Nat /\ \A v \in Used(s) : s.wins[v].z <= MaxOrder(s)
  BY Order, Whole
<1>2. ASSUME NEW v \in Wins PROVE BringFront(s, w).wins[v].z = IF v = w THEN MaxOrder(s) + 1 ELSE s.wins[v].z
  <2>1. BringFront(s, w).wins = [s.wins EXCEPT ![w] = [@ EXCEPT !.z = MaxOrder(s) + 1]]
    BY BringFrontOn
  <2>2. s.wins \in [Wins -> Row]
    BY Whole
  <2>3. CASE v = w
    <3>1. BringFront(s, w).wins[v] = [s.wins[w] EXCEPT !.z = MaxOrder(s) + 1]
      BY <1>1, <2>1, <2>2, <2>3
    <3> QED BY <1>1, <2>3, <3>1 DEF Row
  <2>4. CASE v # w
    BY <1>1, <2>1, <2>2, <2>4
  <2> QED BY <2>3, <2>4
<1>3. Used(t) = Used(s)
  BY DEF Used
<1>4. ASSUME NEW v \in Used(t) \ {w} PROVE t.wins[v].z < t.wins[w].z
  <2>1. v \in Wins /\ v \in Used(s) /\ s.wins[v].z \in Nat
    BY <1>1, <1>3, Whole DEF Row
  <2>2. t.wins[v].z = s.wins[v].z /\ t.wins[w].z = MaxOrder(s) + 1
    BY <1>1, <1>2, <2>1
  <2> QED BY <1>1, <2>1, <2>2
<1> QED BY <1>3, <1>4, Highest

LEMMA Answered ==
  ASSUME NEW s, Sound(s), NEW p, Aimed(s, p), NEW t \in ManagerClick(s, p)
  PROVE  /\ Sound(t)
         /\ IF Grabs(s, p) THEN t.drag = p.w /\ p.w \in Wins /\ t.wins[p.w].used ELSE Onward(s, t)
         /\ p.w # None /\ s.menuOpen = None => Top(t) = p.w
<1>1. CASE p.title # 0
  <2>1. t = [s EXCEPT !.menuOpen = p.title]
    BY <1>1 DEF ManagerClick
  <2>2. p.title \in {None, SavMenu, OwnMenu} /\ p.title <= MenuCount(s.menuApp)
    BY DEF Aimed, MenuCount, None, SavMenu, OwnMenu
  <2>3. {} \in SUBSET HasPopup /\ {} \in SUBSET Wins
    OBVIOUS
  <2>4. Onward(s, t)
    BY <2>1, <2>2, <2>3, Flags
  <2>5. p.w = None /\ ~Grabs(s, p)
    BY <1>1 DEF Aimed, Grabs
  <2> QED BY <2>4, <2>5 DEF Onward
<1>2. CASE p.title = 0 /\ s.menuOpen # None
  <2>1. PICK u : /\ Onward(s, u) /\ t = [u EXCEPT !.menuOpen = None]
    <3>1. PICK u \in IF p.item THEN MenuAction(s, s.menuOpen) ELSE {s} : t = [u EXCEPT !.menuOpen = None]
      BY <1>2 DEF ManagerClick
    <3>2. Onward(s, u)
      BY <3>1, MenuActionOn, OnwardSame
    <3> QED BY <3>1, <3>2
  <2>2. Sound(u)
    BY <2>1 DEF Onward
  <2>3. Onward(u, t)
    BY <2>1, <2>2, Closed
  <2>4. Onward(s, t)
    BY <2>1, <2>3, OnwardTwice
  <2> QED BY <1>2, <2>4 DEF Onward, Grabs
<1>3. CASE p.title = 0 /\ s.menuOpen = None /\ p.w # None
  <2> DEFINE front == BringFront(s, p.w)
  <2>1. p.w \in Used(s) /\ p.w \in Wins
    BY <1>3, Whole DEF Aimed
  <2>2. Onward(s, front) /\ Sound(front)
    BY <2>1, BringFrontOn DEF Onward
  <2>3. \A v \in Wins : front.wins[v].used = s.wins[v].used
    <3>1. front.wins = [s.wins EXCEPT ![p.w] = [@ EXCEPT !.z = MaxOrder(s) + 1]] /\ s.wins \in [Wins -> Row]
      BY <2>1, BringFrontOn, Whole
    <3> HIDE DEF front
    <3>2. ASSUME NEW v \in Wins PROVE front.wins[v].used = s.wins[v].used
      <4>1. CASE v = p.w
        <5>1. front.wins[v] = [s.wins[v] EXCEPT !.z = MaxOrder(s) + 1] /\ s.wins[v] \in Row
          BY <2>1, <3>1, <4>1
        <5> QED BY <5>1 DEF Row
      <4>2. CASE v # p.w
        BY <2>1, <3>1, <4>2
      <4> QED BY <4>1, <4>2
    <3> QED BY <3>2
  <2>4. t = IF p.part = "close" THEN WinClose(front, p.w)
            ELSE IF p.part = "title" THEN [front EXCEPT !.drag = p.w] ELSE front
    BY <1>3 DEF ManagerClick
  <2>5. p.w \in Used(front)
    BY <2>1, <2>3 DEF Used
  <2>6. CASE p.part = "close"
    <3>1. t = WinClose(front, p.w)
      BY <2>4, <2>6
    <3>2. Onward(front, t) /\ \A v \in Wins : t.wins[v].used = front.wins[v].used /\ t.wins[v].z = front.wins[v].z
      BY <2>2, <2>5, <3>1, WinCloseOn
    <3>3. Onward(s, t) /\ Sound(t)
      BY <2>2, <3>2, OnwardTwice DEF Onward
    <3>4. Top(t) = p.w
      BY <2>1, <2>3, <3>2, <3>3, Fronted
    <3> QED BY <2>6, <3>3, <3>4 DEF Grabs
  <2>7. CASE p.part = "title"
    <3>1. t = [front EXCEPT !.drag = p.w]
      BY <2>4, <2>7
    <3>2. Sound(t) /\ t.wins = front.wins /\ t.drag = p.w
      BY <2>1, <2>2, <3>1, Held
    <3>3. Top(t) = p.w
      BY <2>1, <2>3, <3>2, Fronted
    <3>4. t.wins[p.w].used
      BY <2>5, <3>2 DEF Used
    <3> QED BY <1>3, <2>1, <2>7, <3>2, <3>3, <3>4 DEF Grabs
  <2>8. CASE p.part # "close" /\ p.part # "title"
    <3>1. t = front
      BY <2>4, <2>8
    <3>2. Top(t) = p.w
      BY <2>1, <2>2, <2>3, <3>1, Fronted
    <3> QED BY <2>2, <2>8, <3>1, <3>2 DEF Grabs
  <2> QED BY <2>6, <2>7, <2>8
<1>4. CASE p.title = 0 /\ s.menuOpen = None /\ p.w = None
  <2>1. t \in {s} \cup OpenIcon(s)
    BY <1>4 DEF ManagerClick
  <2>2. Onward(s, t)
    BY <2>1, OnwardSame, OpenIconOn
  <2>3. ~Grabs(s, p)
    BY <1>4 DEF Aimed, Grabs
  <2> QED BY <1>4, <2>2, <2>3 DEF Onward
<1> QED BY <1>1, <1>2, <1>3, <1>4

LEMMA ClickThroughOn ==
  ASSUME NEW s, NEW t, Sound(t), NEW p
  PROVE  \A u \in ClickThrough(s, t, p) : Onward(t, u)
<1>1. \A u \in AppClick(t, Top(t)) \cup {t} : Onward(t, u)
  BY AppOn, OnwardSame
<1>2. ClickThrough(s, t, p) \subseteq AppClick(t, Top(t)) \cup {t}
  BY DEF ClickThrough
<1> QED BY <1>1, <1>2

LEMMA StartOn ==
  ASSUME Sound(ui), NEW release, NEW hit, NEW s, s = FrameStart(release, hit)
  PROVE  Onward(ui, s) /\ s.menuApp = AppOf(s, Top(s)) /\ (s = ui \/ s.blit)
<1> DEFINE app == AppOf(ui, Top(ui))
           r == SwitchMenus(ui, app)
           apps == r.popups \ {r.wins[w].app : w \in PopupOwners(r)}
           closed == [r EXCEPT !.ctx = FALSE, !.popups = apps]
           painted == [closed EXCEPT !.blit = TRUE]
<1>1. app \in Apps \cup {NoApp}
  BY Whole
<1>2. Onward(ui, r) /\ r.wins = ui.wins /\ Sound(r)
  BY <1>1, SwitchMenusOn DEF Onward
<1>3. r.menuApp = app /\ (r = ui \/ r.blit)
  <2>1. ui \in Desk
    BY DEF Sound
  <2> QED BY <2>1 DEF SwitchMenus, Desk
<1>4. s = painted \/ s = r
  BY DEF FrameStart
<1>5. AppOf(r, Top(r)) = app
  BY <1>2, SameOrder
<1> HIDE DEF r, app
<1>6. CASE s = r
  BY <1>2, <1>3, <1>5, <1>6
<1>7. CASE s = painted
  <2>1. {} \in SUBSET Wins /\ None \in {None, SavMenu, OwnMenu} /\ None <= MenuCount(r.menuApp)
    BY DEF None, MenuCount
  <2>2. apps \in SUBSET HasPopup
    BY <1>2, Whole
  <2> HIDE DEF apps
  <2>3. Onward(r, closed)
    BY <1>2, <2>1, <2>2, Flags
  <2>4. Onward(r, painted)
    BY <2>3, Repainted
  <2>5. r \in Desk
    BY <1>2 DEF Sound
  <2>6. painted.wins = r.wins /\ painted.menuApp = r.menuApp /\ painted.blit
    BY <2>5 DEF Desk
  <2> HIDE DEF painted
  <2>7. AppOf(painted, Top(painted)) = app
    BY <1>5, <2>6, SameOrder
  <2>8. Onward(ui, painted)
    BY <1>2, <2>4, OnwardTwice
  <2> QED BY <1>3, <1>7, <2>6, <2>7, <2>8
<1> QED BY <1>4, <1>6, <1>7

----------------------------------------------------------------------------
(* What holds between the steps of the loop. *)

Bounded(s) == s.zSeq <= MaxOpens /\ \A w \in Wins : s.wins[w].z <= MaxZ
DragOf(s, g) == s.drag # None => s.wins[s.drag].used /\ s.wins[s.drag].born = g

(* The program's variables are sound; what is dragged is the window that was grabbed; a change
   that has not been drawn has asked for a redraw. *)
Steady ==
  /\ Sound(ui) /\ Bounded(ui) /\ DragOf(ui, grabbed) /\ grabbed \in 0 .. MaxOpens
  /\ prev \in Buttons /\ turn \in {"frame", "key", "draw"}
  /\ landed = TRUE /\ undrawn \in BOOLEAN /\ (undrawn => ui.blit)

LEMMA DragKept ==
  ASSUME NEW s, NEW t, NEW g, Sound(s), Onward(s, t), DragOf(s, g)
  PROVE  DragOf(t, g)
<1>1. s.drag \in Wins \cup {None}
  BY Whole
<1> QED BY <1>1 DEF DragOf, Onward

LEMMA WithinBounds ==
  ASSUME NEW s, Sound(s), Within(s)
  PROVE  Bounded(s)
<1>1. ASSUME NEW w \in Wins PROVE s.wins[w].z <= MaxZ
  <2>1. CASE w \in Used(s)
    <3>1. s.wins[w].z <= MaxOrder(s) /\ MaxOrder(s) \in Nat /\ MaxOrder(s) <= MaxZ
      BY <2>1, Order DEF Within
    <3>2. s.wins[w].z \in Nat /\ MaxZ \in Nat
      BY Whole, DesktopAssumption DEF Row
    <3> QED BY <3>1, <3>2
  <2>2. CASE w \notin Used(s)
    <3>1. s.wins[w].z = 0
      BY <2>2 DEF Used, Sound, Unused
    <3> QED BY <3>1, DesktopAssumption
  <2> QED BY <2>1, <2>2
<1> QED BY <1>1 DEF Bounded, Within

LEMMA Painted ==
  ASSUME NEW t, Sound(t), NEW b \in BOOLEAN
  PROVE  /\ Onward(t, [t EXCEPT !.blit = b]) /\ [t EXCEPT !.blit = b].blit = b
         /\ [t EXCEPT !.blit = b].wins = t.wins /\ [t EXCEPT !.blit = b].zSeq = t.zSeq
<1>1. t \in Desk
  BY DEF Sound
<1>2. [t EXCEPT !.blit = b].blit = b /\ [t EXCEPT !.blit = b].wins = t.wins /\ [t EXCEPT !.blit = b].zSeq = t.zSeq
  BY <1>1 DEF Desk
<1>3. Onward(t, [t EXCEPT !.blit = b])
  BY <1>1 DEF Onward, Sound, Desk
<1> QED BY <1>2, <1>3

LEMMA Returned ==
  ASSUME Steady, NEW t, Onward(ui, t), t.blit, FrameReturns(t), prev' \in Buttons, turn' = "key"
  PROVE  Steady'
<1>1. ui' = t /\ Sound(t) /\ Within(t) /\ landed' = TRUE /\ grabbed' = grabbed
  BY DEF FrameReturns, Onward
<1>2. undrawn' \in BOOLEAN
  BY Zenon DEF FrameReturns
<1>3. Bounded(t) /\ DragOf(t, grabbed)
  BY <1>1, WithinBounds, DragKept DEF Steady
<1>4. turn' \in {"frame", "key", "draw"} /\ grabbed' \in 0 .. MaxOpens
  BY <1>1 DEF Steady
<1> QED BY <1>1, <1>2, <1>3, <1>4 DEF Steady

\* A frame that goes on to its end asks for a redraw if it has changed anything.
LEMMA Ended ==
  ASSUME Steady, NEW t, Sound(t), NEW b, NEW moved \in BOOLEAN, NEW edge \in BOOLEAN,
         FrameEnds(t, b, moved, edge), DragOf(t, grabbed'),
         grabbed' = grabbed \/ \E w \in Wins : grabbed' = t.wins[w].born,
         edge \/ t.blit \/ t.menuOpen # ui.menuOpen \/ (t.blit = ui.blit /\ Visible(t) = Visible(ui)),
         landed' = TRUE, prev' \in Buttons, turn' = "key"
  PROVE  Steady'
<1> DEFINE redraw == moved \/ edge \/ Animating(t) # {} \/ t.menuOpen # ui.menuOpen
           dragged == moved /\ b.left /\ t.drag # None /\ t.menuOpen = None
           want == t.blit \/ redraw
<1>1. /\ ui' = [t EXCEPT !.blit = want] /\ Within(t)
      /\ undrawn' = (undrawn \/ dragged \/ Visible(t) # Visible(ui))
  BY DEF FrameEnds
<1>2. want \in BOOLEAN /\ undrawn' \in BOOLEAN
  BY <1>1, Zenon
<1>3. undrawn' => want
  <2>1. undrawn => ui.blit
    BY DEF Steady
  <2>2. dragged => want
    OBVIOUS
  <2>3. CASE edge \/ t.blit \/ t.menuOpen # ui.menuOpen
    BY <2>3
  <2>4. CASE t.blit = ui.blit /\ Visible(t) = Visible(ui)
    BY <1>1, <2>1, <2>2, <2>4, Zenon
  <2> QED BY <2>3, <2>4
<1> HIDE DEF want
<1>4. Onward(t, ui') /\ ui'.blit = want /\ ui'.wins = t.wins /\ ui'.zSeq = t.zSeq
  BY <1>1, <1>2, Painted
<1>5. Bounded(t)
  BY <1>1, WithinBounds
<1>6. Sound(ui)' /\ Bounded(ui)' /\ DragOf(ui, grabbed)'
  BY <1>4, <1>5, DragKept DEF Onward, Bounded
<1>7. grabbed' \in 0 .. MaxOpens
  <2>1. CASE grabbed' = grabbed
    BY <2>1 DEF Steady
  <2>2. CASE \E w \in Wins : grabbed' = t.wins[w].born
    <3>1. PICK w \in Wins : grabbed' = t.wins[w].born
      BY <2>2
    <3>2. t.wins[w].born \in Nat /\ t.wins[w].born <= t.zSeq /\ t.zSeq \in Nat
      BY Whole DEF Row, Sound
    <3>3. t.zSeq <= MaxOpens /\ MaxOpens \in Nat
      BY <1>5, DesktopAssumption DEF Bounded
    <3> QED BY <3>1, <3>2, <3>3
  <2> QED BY <2>1, <2>2
<1> QED BY <1>2, <1>3, <1>4, <1>6, <1>7 DEF Steady

LEMMA FrameOnSteady ==
  ASSUME Steady, NEW release, NEW hit, NEW s, s = FrameStart(release, hit), NEW b \in Buttons, NEW moved \in BOOLEAN,
         NEW p, FrameOn(s, b, moved, p),
         (b.left /\ ~prev.left) \/ (b.right /\ ~prev.right) => p \in Places(s),
         prev' = b, turn' = "key"
  PROVE  Steady'
<1> DEFINE press   == b.left /\ ~prev.left
           freed   == ~b.left /\ prev.left
           rpress  == b.right /\ ~prev.right
           shut    == IF rpress THEN [s EXCEPT !.menuOpen = None] ELSE s
<1>1. Onward(ui, s) /\ Sound(s) /\ s.menuApp = AppOf(s, Top(s)) /\ (s = ui \/ s.blit)
  BY StartOn DEF Steady, Onward
<1>2. /\ Onward(s, shut) /\ shut.wins = s.wins /\ shut.menuApp = s.menuApp /\ shut.popups = s.popups
      /\ shut.blit = s.blit /\ shut.ctx = s.ctx /\ shut.files = s.files
      /\ shut.menuOpen = s.menuOpen \/ shut.menuOpen = None
  <2>1. s \in Desk
    BY <1>1 DEF Sound
  <2>2. Onward(s, shut)
    BY <1>1, Closed, OnwardSame
  <2> QED BY <2>1, <2>2 DEF Desk
<1>3. Sound(shut) /\ Onward(ui, shut)
  BY <1>1, <1>2, OnwardTwice DEF Onward
<1>4. AppOf(shut, Top(shut)) = shut.menuApp /\ Used(shut) = Used(s)
  BY <1>1, <1>2, SameOrder
<1>5. prev' \in Buttons /\ press \in BOOLEAN /\ freed \in BOOLEAN /\ rpress \in BOOLEAN
  OBVIOUS
<1>6. CASE rpress /\ OpensPopup(s, p)
  <2>1. FrameReturns(RightPress(shut, p))
    BY <1>6 DEF FrameOn
  <2>2. Onward(shut, RightPress(shut, p)) /\ RightPress(shut, p).blit
    <3>1. shut \in Desk
      BY <1>3 DEF Sound
    <3>2. {} \in SUBSET Wins /\ None \in {None, SavMenu, OwnMenu} /\ None <= MenuCount(shut.menuApp)
      BY DEF None, MenuCount
    <3> HIDE DEF shut
    <3>3. CASE p.w = None
      <4>1. RightPress(shut, p) = [shut EXCEPT !.ctx = TRUE, !.blit = TRUE]
        BY <3>3 DEF RightPress
      <4>2. {} \in SUBSET HasPopup
        OBVIOUS
      <4>3. [shut EXCEPT !.ctx = TRUE, !.blit = TRUE].blit
        BY <3>1 DEF Desk
      <4> QED BY <1>3, <3>2, <4>1, <4>2, <4>3, Flags
    <3>4. CASE p.w # None
      <4> DEFINE apps == shut.popups \cup {shut.wins[p.w].app}
      <4>1. RightPress(shut, p) = [shut EXCEPT !.popups = apps, !.blit = TRUE]
        BY <3>4 DEF RightPress
      <4>2. s.wins[p.w].app \in HasPopup
        BY <1>6, <3>4 DEF OpensPopup
      <4>3. apps \in SUBSET HasPopup
        BY <1>2, <1>3, <4>2, Whole
      <4>4. [shut EXCEPT !.popups = apps, !.blit = TRUE].blit
        BY <3>1 DEF Desk
      <4> HIDE DEF apps
      <4>5. Onward(shut, [shut EXCEPT !.popups = apps, !.blit = TRUE])
        BY <1>3, <3>2, <4>3, Flags
      <4> QED BY <4>1, <4>4, <4>5, Zenon
    <3> QED BY <3>3, <3>4
  <2>3. Onward(ui, RightPress(shut, p))
    BY <1>3, <2>2, OnwardTwice
  <2> QED BY <1>5, <2>1, <2>2, <2>3, Returned
<1>7. CASE ~(rpress /\ OpensPopup(s, p)) /\ press
  <2>1. PICK t \in ManagerClick(shut, p) :
          Press(shut, t, p) /\ \E u \in ClickThrough(shut, t, p) : FrameEnds(u, b, moved, TRUE)
    BY <1>7 DEF FrameOn
  <2>2. PICK u \in ClickThrough(shut, t, p) : FrameEnds(u, b, moved, TRUE)
    BY <2>1
  <2>3. p \in Places(s)
    BY <1>7
  <2>4. Aimed(shut, p) /\ (p.item => shut.menuApp = AppOf(shut, Top(shut)))
    <3>1. Aimed(s, p)
      BY <2>3 DEF Places, Aimed
    <3> QED BY <1>2, <1>4, <3>1 DEF Aimed
  <2> HIDE DEF shut
  <2>5. /\ Sound(t)
        /\ IF Grabs(shut, p) THEN t.drag = p.w /\ p.w \in Wins /\ t.wins[p.w].used ELSE Onward(shut, t)
        /\ p.w # None /\ shut.menuOpen = None => Top(t) = p.w
    BY <1>3, <2>4, Answered
  <2>6. Onward(t, u) /\ Sound(u)
    BY <2>5, ClickThroughOn DEF Onward
  <2>7. landed' = TRUE
    BY <2>1, <2>4, <2>5 DEF Press
  <2>8. grabbed' = IF Grabs(shut, p) THEN t.wins[p.w].born ELSE grabbed
    BY <2>1 DEF Press, Grabs
  <2>9. DragOf(t, grabbed') /\ (grabbed' = grabbed \/ \E w \in Wins : t.wins[w].used /\ grabbed' = t.wins[w].born)
    <3>1. CASE Grabs(shut, p)
      BY <2>5, <2>8, <3>1 DEF DragOf
    <3>2. CASE ~Grabs(shut, p)
      <4>1. Onward(ui, t)
        BY <1>3, <2>5, <3>2, OnwardTwice
      <4> QED BY <2>8, <3>2, <4>1, DragKept DEF Steady
    <3> QED BY <3>1, <3>2
  <2>10. DragOf(u, grabbed') /\ (grabbed' = grabbed \/ \E w \in Wins : grabbed' = u.wins[w].born)
    BY <2>5, <2>6, <2>9, DragKept DEF Onward
  <2>11. TRUE \in BOOLEAN
    OBVIOUS
  <2> QED BY <1>5, <2>2, <2>6, <2>7, <2>10, <2>11, Ended
<1>8. CASE ~(rpress /\ OpensPopup(s, p)) /\ ~press
  <2> DEFINE t == IF freed THEN [shut EXCEPT !.drag = None] ELSE shut
  <2>1. FrameEnds(t, b, moved, freed) /\ landed' = TRUE /\ grabbed' = grabbed
    BY <1>8 DEF FrameOn
  <2>2. Sound(t) /\ DragOf(t, grabbed)
    <3>1. CASE freed
      BY <1>3, <3>1, Held DEF DragOf, None
    <3>2. CASE ~freed
      BY <1>3, <3>2, DragKept DEF Steady
    <3> QED BY <3>1, <3>2
  <2>3. freed \/ t.blit \/ t.menuOpen # ui.menuOpen \/ (t.blit = ui.blit /\ Visible(t) = Visible(ui))
    <3>1. CASE freed
      BY <3>1
    <3>2. CASE ~freed /\ s.blit
      BY <1>2, <3>2
    <3>3. CASE ~freed /\ s = ui
      <4>1. t = shut
        BY <3>3
      <4>2. /\ t.wins = ui.wins /\ t.menuApp = ui.menuApp /\ t.popups = ui.popups
            /\ t.blit = ui.blit /\ t.ctx = ui.ctx /\ t.files = ui.files
        BY <1>2, <3>3, <4>1
      <4> HIDE DEF t
      <4>3. t.menuOpen = ui.menuOpen => Visible(t) = Visible(ui)
        BY <4>2, Zenon DEF Visible
      <4> QED BY <4>2, <4>3
    <3> QED BY <1>1, <3>1, <3>2, <3>3
  <2> HIDE DEF t, freed
  <2>4. DragOf(t, grabbed')
    BY <2>1, <2>2
  <2> QED BY <1>5, <2>1, <2>2, <2>3, <2>4, Ended
<1> QED BY <1>6, <1>7, <1>8

LEMMA FrameSteady == ASSUME Steady, Frame PROVE Steady'
<1> DEFINE press(b) == b.left /\ ~prev.left
<1>1. PICK b \in Buttons, hit \in BOOLEAN, moved \in BOOLEAN :
        \E s \in {FrameStart(~b.left /\ prev.left, hit)} :
          /\ prev' = b
          /\ hit => s.ctx \/ PopupOwners(s) # {}
          /\ \/ press(b) /\ s.ctx /\ \E t \in ContextClick(s, hit) : FrameReturns(t)
             \/ press(b) /\ ~s.ctx /\ hit /\ \E t \in PopupClick(s, Min(PopupOwners(s))) : FrameReturns(t)
             \/ /\ ~(press(b) /\ (s.ctx \/ hit))
                /\ \E p \in IF press(b) \/ (b.right /\ ~prev.right) THEN Places(s) ELSE {Bare} :
                     FrameOn(s, b, moved, p)
  BY DEF Frame
<1> DEFINE s == FrameStart(~b.left /\ prev.left, hit)
<1>2. /\ prev' = b
      /\ \/ \E t \in ContextClick(s, hit) : FrameReturns(t)
         \/ \E t \in PopupClick(s, Min(PopupOwners(s))) : FrameReturns(t)
         \/ \E p \in IF press(b) \/ (b.right /\ ~prev.right) THEN Places(s) ELSE {Bare} : FrameOn(s, b, moved, p)
  BY <1>1
<1>3. turn' = "key"
  BY DEF Frame
<1>4. Onward(ui, s) /\ Sound(s)
  BY StartOn DEF Steady, Onward
<1> HIDE DEF s
<1>5. CASE \E t \in ContextClick(s, hit) : FrameReturns(t)
  <2>1. PICK t \in ContextClick(s, hit) : FrameReturns(t)
    BY <1>5
  <2>2. Onward(ui, t) /\ t.blit
    BY <1>4, ContextClickOn, OnwardTwice
  <2> QED BY <1>2, <1>3, <2>1, <2>2, Returned
<1>6. CASE \E t \in PopupClick(s, Min(PopupOwners(s))) : FrameReturns(t)
  <2>1. PICK t \in PopupClick(s, Min(PopupOwners(s))) : FrameReturns(t)
    BY <1>6
  <2>2. Onward(ui, t) /\ t.blit
    BY <1>4, PopupClickOn, OnwardTwice
  <2> QED BY <1>2, <1>3, <2>1, <2>2, Returned
<1>7. CASE \E p \in IF press(b) \/ (b.right /\ ~prev.right) THEN Places(s) ELSE {Bare} : FrameOn(s, b, moved, p)
  <2>1. PICK p \in IF press(b) \/ (b.right /\ ~prev.right) THEN Places(s) ELSE {Bare} : FrameOn(s, b, moved, p)
    BY <1>7
  <2>2. press(b) \/ (b.right /\ ~prev.right) => p \in Places(s)
    BY <2>1
  <2>3. s = FrameStart(~b.left /\ prev.left, hit)
    BY DEF s
  <2> QED BY <1>2, <1>3, <2>1, <2>2, <2>3, FrameOnSteady
<1> QED BY <1>2, <1>5, <1>6, <1>7

----------------------------------------------------------------------------
(* The rest of the loop. *)

LEMMA KeySteady == ASSUME Steady, Key PROVE Steady'
<1>0. /\ turn' = "draw" /\ prev' = prev /\ grabbed' = grabbed /\ landed' = landed
      /\ undrawn' = (undrawn \/ Visible(ui') # Visible(ui))
  BY DEF Key
<1>1. Sound(ui) /\ ui \in Desk
  BY DEF Steady, Sound
<1>2. undrawn' \in BOOLEAN
  BY <1>0, Zenon
<1>3. ASSUME Onward(ui, ui'), Bounded(ui'), ui' = ui \/ ui'.blit
      PROVE  Steady'
  <2>1. undrawn' => ui'.blit
    BY <1>0, <1>3, Zenon DEF Steady
  <2>2. DragOf(ui', grabbed)
    BY <1>1, <1>3, DragKept DEF Steady
  <2> QED BY <1>0, <1>2, <1>3, <2>1, <2>2 DEF Steady, Onward
<1>4. CASE NoKey
  BY <1>1, <1>3, <1>4, OnwardSame DEF NoKey, Steady
<1>5. CASE Escape
  <2> DEFINE apps == ui.popups \ {ui.wins[w].app : w \in PopupOwners(ui)}
             t == IF ui.ctx THEN [ui EXCEPT !.ctx = FALSE]
                  ELSE IF ui.popups # {} THEN [ui EXCEPT !.popups = apps]
                  ELSE [ui EXCEPT !.menuOpen = None]
  <2>1. ui' = [t EXCEPT !.blit = TRUE]
    BY <1>5 DEF Escape
  <2>2. apps \in SUBSET HasPopup /\ {} \in SUBSET Wins /\ None \in {None, SavMenu, OwnMenu} /\ None <= MenuCount(ui.menuApp)
    BY <1>1, Whole DEF None, MenuCount
  <2> HIDE DEF apps
  <2>3. Onward(ui, t) /\ Sound(t)
    <3>1. /\ Onward(ui, [ui EXCEPT !.ctx = FALSE]) /\ Onward(ui, [ui EXCEPT !.popups = apps])
          /\ Onward(ui, [ui EXCEPT !.menuOpen = None])
      BY <1>1, <2>2, Flags
    <3>2. Onward(ui, t)
      BY <3>1
    <3> QED BY <3>2 DEF Onward
  <2>4. t.wins = ui.wins /\ t.zSeq = ui.zSeq
    BY <1>1 DEF Desk
  <2> HIDE DEF t
  <2>5. TRUE \in BOOLEAN
    OBVIOUS
  <2>6. Onward(t, ui') /\ ui'.blit = TRUE /\ ui'.wins = t.wins /\ ui'.zSeq = t.zSeq
    BY <2>1, <2>3, <2>5, Painted
  <2>7. Onward(ui, ui')
    BY <2>3, <2>6, OnwardTwice
  <2>8. Bounded(ui')
    BY <2>4, <2>6 DEF Bounded, Steady
  <2> QED BY <1>3, <2>6, <2>7, <2>8
<1>6. CASE OtherKey
  <2>1. PICK t \in IF Top(ui) = None THEN {ui} ELSE AppKey(ui, Top(ui)) : Within(t) /\ ui' = [t EXCEPT !.blit = TRUE]
    BY <1>6 DEF OtherKey
  <2>2. Onward(ui, t) /\ Sound(t)
    BY <1>1, <2>1, AppOn, OnwardSame DEF Onward
  <2>3. TRUE \in BOOLEAN
    OBVIOUS
  <2>4. Onward(t, ui') /\ ui'.blit = TRUE /\ ui'.wins = t.wins /\ ui'.zSeq = t.zSeq
    BY <2>1, <2>2, <2>3, Painted
  <2>5. Bounded(t)
    BY <2>1, <2>2, WithinBounds
  <2>6. Bounded(ui') /\ Onward(ui, ui')
    BY <2>2, <2>4, <2>5, OnwardTwice DEF Bounded
  <2> QED BY <1>3, <2>4, <2>6
<1> QED BY <1>4, <1>5, <1>6 DEF Key

LEMMA DrawSteady == ASSUME Steady, Draw PROVE Steady'
<1>0. turn' = "frame" /\ prev' = prev /\ grabbed' = grabbed /\ landed' = landed
  BY DEF Draw
<1>1. CASE ~ui.blit
  <2>1. ui' = ui /\ undrawn' = undrawn
    BY <1>1 DEF Draw
  <2> QED BY <1>0, <2>1 DEF Steady
<1>2. CASE ui.blit
  <2> DEFINE over == {w \in Animating(ui) : ui.wins[w].frame + 1 > Frames}
             gone == {w \in over : ui.wins[w].anim = "closing"}
             f == [w \in Wins |-> IF w \in gone THEN Unused
                                  ELSE IF w \in over THEN [ui.wins[w] EXCEPT !.anim = "still", !.frame = 0]
                                  ELSE IF w \in Animating(ui) THEN [ui.wins[w] EXCEPT !.frame = ui.wins[w].frame + 1]
                                  ELSE ui.wins[w]]
             d == IF ui.drag \in gone THEN None ELSE ui.drag
             moving == Animating(ui) # {}
  <2>1. ui' = [ui EXCEPT !.wins = f, !.drag = d, !.blit = moving]
    BY <1>2 DEF Draw, Animated
  <2>2. undrawn' = (Animating(ui') # {} /\ Visible(ui') # Visible(ui))
    BY <1>2 DEF Draw
  <2>3. /\ ui \in Desk /\ Sound(ui) /\ Bounded(ui) /\ 0 \in 0 .. Frames
        /\ \A w \in Wins : ui.wins[w] \in Row /\ (~ui.wins[w].used => ui.wins[w] = Unused)
    BY Whole, DesktopAssumption DEF Steady, Sound
  <2>4. gone \subseteq over /\ over \subseteq Animating(ui) /\ Animating(ui) \subseteq Used(ui)
    BY DEF Animating
  <2>5. Unused \in Row
    BY <2>3 DEF Unused, Row, NoApp
  <2>6. ASSUME NEW w \in Wins
        PROVE  /\ f[w] \in Row /\ (~f[w].used => f[w] = Unused) /\ f[w].z <= MaxZ /\ f[w].born <= ui.zSeq
               /\ w \notin gone => f[w].used = ui.wins[w].used /\ f[w].born = ui.wins[w].born
               /\ f[w].used /\ f[w].anim # "still" => w \in Animating(ui)
    <3>1. ui.wins[w] \in Row /\ ui.wins[w].z <= MaxZ /\ ui.wins[w].born <= ui.zSeq
          /\ ui.zSeq \in Nat /\ MaxZ \in Nat
      BY <2>3, Whole, DesktopAssumption DEF Bounded, Sound
    <3>2. CASE w \in gone
      <4>1. f[w] = Unused
        BY <3>2
      <4>2. ~Unused.used /\ Unused.z = 0 /\ Unused.born = 0
        BY DEF Unused
      <4> HIDE DEF Unused, f, gone, over
      <4> QED BY <2>5, <3>1, <3>2, <4>1, <4>2
    <3>3. CASE w \in over \ gone
      <4>1. f[w] = [ui.wins[w] EXCEPT !.anim = "still", !.frame = 0]
        BY <3>3
      <4>2. ui.wins[w].used /\ w \notin gone
        BY <2>4, <3>3 DEF Used
      <4> HIDE DEF f, gone, over
      <4>3. /\ f[w].used = ui.wins[w].used /\ f[w].born = ui.wins[w].born /\ f[w].z = ui.wins[w].z
            /\ f[w].anim = "still"
        BY <3>1, <4>1 DEF Row
      <4>4. f[w] \in Row
        BY <2>3, <3>1, <4>1 DEF Row
      <4> QED BY <3>1, <4>2, <4>3, <4>4
    <3>4. CASE w \in Animating(ui) \ over
      <4>1. f[w] = [ui.wins[w] EXCEPT !.frame = ui.wins[w].frame + 1]
        BY <2>4, <3>4
      <4>2. ui.wins[w].used /\ w \notin gone /\ w \in Animating(ui)
        BY <2>4, <3>4 DEF Used
      <4>3. ui.wins[w].frame + 1 \in 0 .. Frames
        <5>1. ~(ui.wins[w].frame + 1 > Frames) /\ ui.wins[w].frame \in 0 .. Frames
          BY <3>1, <3>4 DEF Row
        <5> QED BY <5>1, DesktopAssumption
      <4> HIDE DEF f, gone, over
      <4> QED BY <3>1, <4>1, <4>2, <4>3 DEF Row
    <3>5. CASE w \notin Animating(ui)
      <4>1. f[w] = ui.wins[w]
        BY <2>4, <3>5
      <4> HIDE DEF f, gone, over
      <4> QED BY <2>3, <3>1, <3>5, <4>1 DEF Animating, Used
    <3> QED BY <2>4, <3>2, <3>3, <3>4, <3>5
  <2>7. f \in [Wins -> Row]
    BY <2>6
  <2>8. d \in Wins \cup {None} /\ moving \in BOOLEAN
    BY <2>3, Whole
  <2>9. /\ ui' \in Desk /\ ui'.wins = f /\ ui'.drag = d /\ ui'.blit = moving /\ ui'.zSeq = ui.zSeq
        /\ ui'.menuOpen = ui.menuOpen /\ ui'.menuApp = ui.menuApp
    <3> HIDE DEF f, d, moving
    <3> QED BY <2>1, <2>3, <2>7, <2>8 DEF Desk
  <2> HIDE DEF f
  <2>10. Sound(ui') /\ Bounded(ui')
    BY <2>3, <2>6, <2>9 DEF Sound, Bounded
  <2>11. DragOf(ui', grabbed)
    <3>1. CASE ui.drag \in gone
      BY <2>9, <3>1 DEF DragOf
    <3>2. CASE ui.drag \notin gone
      <4>1. ui'.drag = ui.drag /\ ui.drag \in Wins \cup {None}
        BY <2>3, <2>9, <3>2, Whole
      <4> HIDE DEF gone, over
      <4> QED BY <2>6, <2>9, <3>2, <4>1 DEF DragOf, Steady
    <3> QED BY <3>1, <3>2
  <2>12. undrawn' => ui'.blit
    <3>1. Animating(ui') \subseteq Animating(ui)
      <4>1. ASSUME NEW w \in Animating(ui') PROVE w \in Animating(ui)
        <5>1. w \in Wins /\ ui'.wins[w].used /\ ui'.wins[w].anim # "still"
          BY DEF Animating, Used
        <5> QED BY <2>6, <2>9, <5>1
      <4> QED BY <4>1
    <3> QED BY <2>2, <2>9, <3>1
  <2>13. undrawn' \in BOOLEAN
    BY <2>2, Zenon
  <2> QED BY <1>0, <2>10, <2>11, <2>12, <2>13 DEF Steady
<1> QED BY <1>1, <1>2

LEMMA InitSteady == Init => Steady
<1> SUFFICES ASSUME Init PROVE Steady
  OBVIOUS
<1> DEFINE empty == [wins |-> [w \in Wins |-> Unused], zSeq |-> 0, drag |-> None, menuApp |-> NoApp,
                     menuOpen |-> None, ctx |-> FALSE, popups |-> {}, files |-> {}, blit |-> TRUE]
<1>1. Unused \in Row /\ ~Unused.used /\ Unused.born = 0 /\ Unused.z = 0
  <2>1. 0 \in 0 .. Frames
    BY DesktopAssumption
  <2> QED BY <2>1 DEF Unused, Row, NoApp
<1>2. Sound(empty)
  <2> HIDE DEF Unused
  <2>1. empty \in Desk
    BY <1>1 DEF Desk
  <2>2. \A w \in Wins : empty.wins[w] = Unused
    OBVIOUS
  <2>3. empty.menuOpen <= MenuCount(empty.menuApp)
    BY DEF None, MenuCount
  <2> QED BY <1>1, <2>1, <2>2, <2>3 DEF Sound
<1>3. ui = WinOpen(empty, "about")
  BY DEF Init
<1>4. Onward(empty, ui)
  BY <1>2, <1>3, WinOpenOn DEF Apps
<1>5. Sound(ui) /\ ui.drag = None
  BY <1>4 DEF Onward
<1>6. Bounded(ui) /\ ui.blit
  <2> DEFINE w == Min(Wins \ Used(empty))
             row == [used |-> TRUE, app |-> "about", z |-> 1, born |-> 1, anim |-> "opening", frame |-> 0]
  <2>1. Used(empty) # Wins
    <3>1. 1 \in Wins /\ 1 \notin Used(empty)
      BY <1>1, DesktopAssumption DEF Wins, Used
    <3> QED BY <3>1
  <2>2. PICK files : ui = [empty EXCEPT !.wins[w] = row, !.zSeq = 1, !.blit = TRUE, !.files = files]
    <3> DEFINE held == IF "about" = "notepad" THEN empty.files \ {w} ELSE empty.files
    <3>1. empty.zSeq + 1 = 1 /\ held = empty.files
      OBVIOUS
    <3>2. ui = [empty EXCEPT !.wins[w] = [used |-> TRUE, app |-> "about", z |-> empty.zSeq + 1, born |-> empty.zSeq + 1,
                                          anim |-> "opening", frame |-> 0],
                             !.zSeq = empty.zSeq + 1, !.blit = TRUE, !.files = held]
      <4> HIDE DEF empty
      <4> QED BY <1>3, <2>1 DEF WinOpen
    <3>3. ui = [empty EXCEPT !.wins[w] = row, !.zSeq = 1, !.blit = TRUE, !.files = held]
      BY <3>1, <3>2, Zenon
    <3> QED BY <3>3, Zenon
  <2> HIDE DEF w, row
  <2>3. ui.zSeq = 1 /\ ui.blit /\ ui.wins = [empty.wins EXCEPT ![w] = row]
    BY <2>2
  <2>4. ASSUME NEW v \in Wins PROVE ui.wins[v].z <= MaxZ
    <3>1. ui.wins[v] = row \/ ui.wins[v] = Unused
      BY <2>3
    <3>2. ui.wins[v].z = 1 \/ ui.wins[v].z = 0
      BY <1>1, <3>1 DEF row
    <3> QED BY <3>2, DesktopAssumption
  <2> QED BY <2>3, <2>4, DesktopAssumption DEF Bounded
<1>7. /\ grabbed = 0 /\ landed = TRUE /\ undrawn = TRUE /\ turn = "frame"
      /\ prev = [left |-> FALSE, right |-> FALSE]
  BY DEF Init
<1>8. DragOf(ui, grabbed) /\ grabbed \in 0 .. MaxOpens /\ prev \in Buttons
  BY <1>5, <1>7, DesktopAssumption DEF DragOf, Buttons
<1> QED BY <1>5, <1>6, <1>7, <1>8 DEF Steady

LEMMA NextSteady == ASSUME Steady, [Next]_vars PROVE Steady'
<1>1. CASE Next
  BY <1>1, FrameSteady, KeySteady, DrawSteady DEF Next
<1>2. CASE UNCHANGED vars
  BY <1>2 DEF vars, Steady
<1> QED BY <1>1, <1>2

(* The invariant the theorems below follow from. *)
THEOREM StaysSteady == Spec => []Steady
  BY InitSteady, NextSteady, PTL DEF Spec

(* Every variable of the window manager stays in its range, and an open menu is one of those
   shown. *)
THEOREM DesktopTypeCorrect == Spec => []TypeOK
<1>1. Steady => TypeOK
  <2> SUFFICES ASSUME Steady PROVE TypeOK
    OBVIOUS
  <2>1. Sound(ui) /\ Bounded(ui) /\ ui \in Desk
    BY DEF Steady, Sound
  <2>2. ASSUME NEW w \in Wins PROVE ui.wins[w] \in Window
    <3>1. ui.wins[w] \in Row /\ ui.wins[w].z <= MaxZ /\ ui.wins[w].born <= ui.zSeq /\ ui.zSeq <= MaxOpens
          /\ ui.zSeq \in Nat
      BY <2>1, Whole DEF Bounded, Sound
    <3>2. ui.wins[w].z \in 0 .. MaxZ /\ ui.wins[w].born \in 0 .. MaxOpens
      BY <3>1, DesktopAssumption DEF Row
    <3> QED BY <3>1, <3>2 DEF Row, Window
  <2>3. ui.wins \in [Wins -> Window] /\ ui.zSeq \in 0 .. MaxOpens
    BY <2>1, <2>2, Whole, DesktopAssumption DEF Bounded
  <2>4. ui \in [wins : [Wins -> Window], zSeq : 0 .. MaxOpens, drag : Wins \cup {None},
             menuApp : Apps \cup {NoApp}, menuOpen : {None, SavMenu, OwnMenu}, ctx : BOOLEAN,
             popups : SUBSET HasPopup, files : SUBSET Wins, blit : BOOLEAN]
    BY <2>1, <2>3 DEF Desk
  <2>5. landed \in BOOLEAN
    BY Zenon DEF Steady
  <2> QED BY <2>1, <2>4, <2>5 DEF TypeOK, Steady, Sound
<1> QED BY <1>1, StaysSteady, PTL

(* The window that follows the mouse is the one that was grabbed: it is open, and its slot has
   not been given to another. *)
THEOREM DragIsSound == Spec => []DragSound
<1>1. Steady => DragSound
  BY DEF Steady, DragOf, DragSound
<1> QED BY <1>1, StaysSteady, PTL

(* A command chosen in a menu goes to the application whose menus are shown, and a window that
   is pressed becomes the active one. *)
THEOREM InputReaches == Spec => []InputLands
<1>1. Steady => InputLands
  BY DEF Steady, InputLands
<1> QED BY <1>1, StaysSteady, PTL

(* A visible change always has its redraw asked for when the loop comes to drawing. *)
THEOREM ScreenIsCurrent == Spec => []ScreenCurrent
<1>1. Steady => ScreenCurrent
  BY DEF Steady, ScreenCurrent
<1> QED BY <1>1, StaysSteady, PTL

----------------------------------------------------------------------------
(* The files.  A call of the driver puts an entry into a hole or behind the *)
(* last, or makes a hole of one; what it does to the directories is said by *)
(* the edges between them.                                                  *)

Cells(t) == UNION {Range(t[d]) : d \in Dirs}
Shape(t) == t \in [Dirs -> Seq(Cells(t))]
Tidy(t, m) ==
  /\ m \in Dirs /\ m >= Root /\ Shape(t)
  /\ \A d \in Dirs : \A i \in DOMAIN t[d] :
       /\ t[d][i].dir \in {NoDir} \cup (2 .. m)
       /\ t[d][i].dir # NoDir => t[d][i].text = NoText
  /\ \A d, c \in Dirs : \A i \in DOMAIN t[d], j \in DOMAIN t[c] :
       t[d][i].dir # NoDir /\ t[d][i].dir = t[c][j].dir => d = c /\ i = j
Edge(t, p, c) == p \in Dirs /\ c # NoDir /\ \E i \in DOMAIN t[p] : t[p][i].dir = c

PutsAt(t, u, d, i, e) ==
  /\ d \in Dirs /\ Shape(u) /\ \A c \in Dirs : c # d => u[c] = t[c]
  /\ DOMAIN u[d] = DOMAIN t[d] \cup {i} /\ (i \in DOMAIN t[d] => t[d][i] = Hole)
  /\ \A j \in DOMAIN u[d] : u[d][j] = IF j = i THEN e ELSE t[d][j]
TakesAt(t, u, d, i) ==
  /\ d \in Dirs /\ Shape(u) /\ \A c \in Dirs : c # d => u[c] = t[c]
  /\ i \in DOMAIN t[d] /\ DOMAIN u[d] = DOMAIN t[d]
  /\ \A j \in DOMAIN u[d] : u[d][j] = IF j = i THEN Hole ELSE t[d][j]

LEMMA ShapeIs ==
  ASSUME NEW S, NEW t \in [Dirs -> Seq(S)]
  PROVE  Shape(t)
<1>1. ASSUME NEW d \in Dirs PROVE t[d] \in Seq(Cells(t))
  <2>1. t[d] \in Seq(S) /\ Len(t[d]) \in Nat /\ DOMAIN t[d] = 1 .. Len(t[d])
    OBVIOUS
  <2>2. \A i \in 1 .. Len(t[d]) : t[d][i] \in Cells(t)
    BY <2>1 DEF Cells, Range
  <2>3. t[d] = [i \in 1 .. Len(t[d]) |-> t[d][i]]
    BY <2>1
  <2>4. t[d] \in [1 .. Len(t[d]) -> Cells(t)]
    BY <2>2, <2>3
  <2> QED BY <2>1, <2>4, IsASeq
<1> QED BY <1>1 DEF Shape

LEMMA DirIs ==
  ASSUME NEW t, Shape(t), NEW d \in Dirs
  PROVE  /\ t[d] \in Seq(Cells(t)) /\ Len(t[d]) \in Nat /\ DOMAIN t[d] = 1 .. Len(t[d])
         /\ t = [c \in Dirs |-> t[c]]
BY DEF Shape

\* fat32_dir_find_entry answers the first entry of a name.
LEMMA FindIs ==
  ASSUME NEW t, Shape(t), NEW d \in Dirs, NEW name
  PROVE  LET k == Find(t, d, name) IN
         /\ k \in {0} \cup DOMAIN t[d]
         /\ k = 0 => \A i \in DOMAIN t[d] : t[d][i].name # name
         /\ k # 0 => t[d][k].name = name /\ \A i \in DOMAIN t[d] : t[d][i].name = name => k <= i
         /\ Found(t, d, name) = IF k = 0 THEN Hole ELSE t[d][k]
<1> DEFINE I == {i \in 1 .. Len(t[d]) : t[d][i].name = name}
<1>1. DOMAIN t[d] = 1 .. Len(t[d]) /\ Len(t[d]) \in Nat
  BY DirIs
<1>2. Find(t, d, name) = IF I # {} THEN Min(I) ELSE 0
  BY DEF Find, SelectInSeq
<1>3. I \subseteq Nat
  BY <1>1
<1>4. I # {} => Min(I) \in I /\ \A i \in I : Min(I) <= i
  BY <1>3, LeastIn
<1> HIDE DEF I
<1>5. CASE I = {}
  <2>1. Find(t, d, name) = 0 /\ \A i \in DOMAIN t[d] : t[d][i].name # name
    BY <1>1, <1>2, <1>5 DEF I
  <2> QED BY <2>1 DEF Found
<1>6. CASE I # {}
  <2>1. PICK k : k = Find(t, d, name)
    OBVIOUS
  <2>2. k \in I /\ \A i \in I : k <= i
    BY <1>2, <1>4, <1>6, <2>1
  <2>3. k \in DOMAIN t[d] /\ k # 0 /\ t[d][k].name = name
    BY <1>1, <2>2 DEF I
  <2>4. \A i \in DOMAIN t[d] : t[d][i].name = name => k <= i
    BY <1>1, <2>2 DEF I
  <2> QED BY <2>1, <2>3, <2>4 DEF Found
<1> QED BY <1>5, <1>6

\* fat32_dir_find_free_slot, fat32_dir_write_entry_at.
LEMMA PutIs ==
  ASSUME NEW t, Shape(t), NEW d \in Dirs, NEW e
  PROVE  \E i : PutsAt(t, Put(t, d, e), d, i, e)
<1> DEFINE I == {i \in 1 .. Len(t[d]) : t[d][i] = Hole}
<1>1. /\ DOMAIN t[d] = 1 .. Len(t[d]) /\ Len(t[d]) \in Nat /\ t[d] \in Seq(Cells(t))
      /\ t = [c \in Dirs |-> t[c]]
  BY DirIs
<1>2. PICK k : k = SelectInSeq(t[d], LAMBDA x : x = Hole)
  OBVIOUS
<1>3. k = IF I # {} THEN Min(I) ELSE 0
  BY <1>2 DEF SelectInSeq
<1>4. I # {} => Min(I) \in I
  <2>1. I \subseteq Nat
    BY <1>1
  <2> QED BY <2>1, LeastIn
<1>5. PICK s : s = IF k = 0 THEN Append(t[d], e) ELSE ReplaceAt(t[d], k, e)
  OBVIOUS
<1>6. PICK u : u = [t EXCEPT ![d] = s]
  OBVIOUS
<1>7. Put(t, d, e) = u
  BY <1>2, <1>5, <1>6 DEF Put
<1>8. PICK C : C = Cells(t) \cup {e}
  OBVIOUS
<1>9. t[d] \in Seq(C) /\ \A c \in Dirs : t[c] \in Seq(C)
  <2>1. \A c \in Dirs : t[c] \in Seq(Cells(t))
    BY DEF Shape
  <2>2. Seq(Cells(t)) \subseteq Seq(C)
    BY <1>8
  <2> QED BY <2>1, <2>2
<1>10. \A c \in Dirs : c # d => u[c] = t[c]
  BY <1>1, <1>6
<1>11. u[d] = s
  BY <1>1, <1>6
<1>12. \E i : /\ s \in Seq(C) /\ DOMAIN s = DOMAIN t[d] \cup {i} /\ (i \in DOMAIN t[d] => t[d][i] = Hole)
              /\ \A j \in DOMAIN s : s[j] = IF j = i THEN e ELSE t[d][j]
  <2>1. CASE k = 0
    <3>1. s = Append(t[d], e)
      BY <1>5, <2>1
    <3>2. s \in Seq(C) /\ Len(s) = Len(t[d]) + 1
      BY <1>1, <1>8, <1>9, <3>1
    <3>3. DOMAIN s = DOMAIN t[d] \cup {Len(t[d]) + 1}
      BY <1>1, <3>2
    <3>4. \A j \in DOMAIN s : s[j] = IF j = Len(t[d]) + 1 THEN e ELSE t[d][j]
      BY <1>1, <3>1, <3>2
    <3>5. Len(t[d]) + 1 \notin DOMAIN t[d]
      BY <1>1
    <3> QED BY <3>2, <3>3, <3>4, <3>5
  <2>2. CASE k # 0
    <3>1. k \in I
      BY <1>3, <1>4, <2>2
    <3>2. k \in DOMAIN t[d] /\ t[d][k] = Hole
      BY <1>1, <3>1
    <3>3. s = [t[d] EXCEPT ![k] = e]
      BY <1>5, <2>2 DEF ReplaceAt
    <3>4. s \in Seq(C) /\ DOMAIN s = DOMAIN t[d]
      BY <1>8, <1>9, <3>2, <3>3
    <3>5. \A j \in DOMAIN s : s[j] = IF j = k THEN e ELSE t[d][j]
      BY <3>3, <3>4
    <3> QED BY <3>2, <3>4, <3>5
  <2> QED BY <2>1, <2>2
<1>13. Shape(u)
  <2>1. s \in Seq(C)
    BY <1>12
  <2>2. u \in [Dirs -> Seq(C)]
    <3>1. \A c \in Dirs : (IF c = d THEN s ELSE t[c]) \in Seq(C)
      BY <1>9, <2>1
    <3>2. u = [c \in Dirs |-> IF c = d THEN s ELSE t[c]]
      BY <1>1, <1>6
    <3> QED BY <3>1, <3>2
  <2> QED BY <2>2, ShapeIs
<1> QED BY <1>7, <1>10, <1>11, <1>12, <1>13 DEF PutsAt

\* Marking an entry with 0xE5.
LEMMA DropIs ==
  ASSUME NEW t, Shape(t), NEW d \in Dirs, NEW name, Find(t, d, name) # 0
  PROVE  TakesAt(t, Drop(t, d, name), d, Find(t, d, name))
<1>1. PICK k : k = Find(t, d, name)
  OBVIOUS
<1>2. k \in DOMAIN t[d]
  BY <1>1, FindIs
<1>3. /\ DOMAIN t[d] = 1 .. Len(t[d]) /\ Len(t[d]) \in Nat /\ t[d] \in Seq(Cells(t))
      /\ t = [c \in Dirs |-> t[c]]
  BY DirIs
<1>4. PICK u : u = [t EXCEPT ![d][k] = Hole]
  OBVIOUS
<1>5. Drop(t, d, name) = u
  BY <1>1, <1>4 DEF Drop
<1>6. PICK s : s = [t[d] EXCEPT ![k] = Hole]
  OBVIOUS
<1>7. u = [c \in Dirs |-> IF c = d THEN s ELSE t[c]]
  BY <1>3, <1>4, <1>6
<1>8. PICK C : C = Cells(t) \cup {Hole}
  OBVIOUS
<1>9. t[d] \in Seq(C) /\ \A c \in Dirs : t[c] \in Seq(C)
  <2>1. \A c \in Dirs : t[c] \in Seq(Cells(t))
    BY DEF Shape
  <2>2. Seq(Cells(t)) \subseteq Seq(C)
    BY <1>8
  <2> QED BY <2>1, <2>2
<1>10. s \in Seq(C) /\ DOMAIN s = DOMAIN t[d] /\ \A j \in DOMAIN s : s[j] = IF j = k THEN Hole ELSE t[d][j]
  BY <1>2, <1>6, <1>8, <1>9
<1>11. Shape(u)
  <2>1. \A c \in Dirs : (IF c = d THEN s ELSE t[c]) \in Seq(C)
    BY <1>9, <1>10
  <2>2. u \in [Dirs -> Seq(C)]
    BY <1>7, <2>1
  <2> QED BY <2>2, ShapeIs
<1>12. u[d] = s /\ \A c \in Dirs : c # d => u[c] = t[c]
  BY <1>7
<1> QED BY <1>1, <1>2, <1>5, <1>10, <1>11, <1>12 DEF TakesAt

\* A directory is live if it is the root or an entry leads to it.
LEMMA LiveIs ==
  ASSUME NEW t
  PROVE  \A c : c \in Live(t) <=> c = Root \/ \E p : Edge(t, p, c)
<1>1. Hole.dir = NoDir
  BY DEF Hole, Entry
<1>2. \A e : e \in Entries(t) <=> e # Hole /\ \E d \in Dirs : \E i \in DOMAIN t[d] : e = t[d][i]
  BY DEF Entries, Range
<1>3. \A c : c \in Live(t) <=> c = Root \/ (c # NoDir /\ \E e \in Entries(t) : c = e.dir)
  BY DEF Live, Root, NoDir
<1>4. ASSUME NEW c, c # NoDir PROVE (\E e \in Entries(t) : c = e.dir) <=> \E p : Edge(t, p, c)
  <2>1. ASSUME NEW e \in Entries(t), c = e.dir PROVE \E p : Edge(t, p, c)
    BY <1>2, <1>4, <2>1 DEF Edge
  <2>2. ASSUME NEW p, Edge(t, p, c) PROVE \E e \in Entries(t) : c = e.dir
    BY <1>1, <1>2, <1>4, <2>2 DEF Edge
  <2> QED BY <2>1, <2>2
<1>5. \A p : ~Edge(t, p, NoDir)
  BY DEF Edge
<1>6. Root # NoDir
  BY DEF Root, NoDir
<1> QED BY <1>3, <1>4, <1>5, <1>6

LEMMA EdgeIn ==
  ASSUME NEW t, NEW m, Tidy(t, m), NEW p, NEW c, Edge(t, p, c)
  PROVE  /\ p \in Dirs /\ c \in 2 .. m /\ c \in Dirs /\ c # Root /\ c \in Live(t)
         /\ \A q : Edge(t, q, c) => q = p
<1>1. p \in Dirs /\ c # NoDir
  BY DEF Edge
<1>2. PICK i \in DOMAIN t[p] : t[p][i].dir = c
  BY DEF Edge
<1>3. c \in 2 .. m /\ m \in Dirs
  BY <1>1, <1>2 DEF Tidy
<1>4. c \in Dirs /\ c # Root
  BY <1>3, FilesAssumption DEF Dirs, Root
<1>5. ASSUME NEW q, Edge(t, q, c) PROVE q = p
  BY <1>1, <1>2, <1>5 DEF Tidy, Edge
<1> QED BY <1>1, <1>3, <1>4, <1>5, LiveIs

LEMMA LiveIn ==
  ASSUME NEW t, NEW m, Tidy(t, m)
  PROVE  Live(t) \subseteq Dirs /\ Live(t) \subseteq 1 .. m
<1>1. ASSUME NEW c \in Live(t) PROVE c \in Dirs /\ c \in 1 .. m
  <2>1. CASE c = Root
    BY <2>1, FilesAssumption DEF Tidy, Root, Dirs
  <2>2. CASE c # Root
    <3>1. PICK p : Edge(t, p, c)
      BY <2>2, LiveIs
    <3>2. c \in Dirs /\ c \in 2 .. m
      BY <3>1, EdgeIn
    <3>3. m \in Nat
      BY FilesAssumption DEF Tidy, Dirs
    <3> QED BY <3>2, <3>3
  <2> QED BY <2>1, <2>2
<1> QED BY <1>1

----------------------------------------------------------------------------
(* What the calls do to the tree. *)

Same(t, u, m) == Tidy(u, m) /\ \A p, c : Edge(u, p, c) <=> Edge(t, p, c)

LEMMA SameSame ==
  ASSUME NEW t, NEW u, NEW v, NEW m, Same(t, u, m), Same(u, v, m)
  PROVE  Same(t, v, m)
BY DEF Same

LEMMA HoleIs == Hole.dir = NoDir /\ Hole.text = NoText
BY DEF Hole, Entry

\* An entry of a file leads nowhere.
LEMMA PutFile ==
  ASSUME NEW t, NEW u, NEW m, NEW d, NEW i, NEW e, Tidy(t, m), PutsAt(t, u, d, i, e), e.dir = NoDir
  PROVE  Same(t, u, m)
<1>1. /\ d \in Dirs /\ Shape(u) /\ \A c \in Dirs : c # d => u[c] = t[c]
      /\ DOMAIN u[d] = DOMAIN t[d] \cup {i} /\ (i \in DOMAIN t[d] => t[d][i].dir = NoDir)
      /\ \A j \in DOMAIN u[d] : u[d][j] = IF j = i THEN e ELSE t[d][j]
  BY HoleIs DEF PutsAt
<1>2. \A c \in Dirs : \A j \in DOMAIN u[c] : u[c][j].dir # NoDir => j \in DOMAIN t[c] /\ u[c][j] = t[c][j]
  BY <1>1
<1>3. \A c \in Dirs : \A j \in DOMAIN t[c] : t[c][j].dir # NoDir => j \in DOMAIN u[c] /\ u[c][j] = t[c][j]
  BY <1>1
<1>4. \A p, c : Edge(u, p, c) <=> Edge(t, p, c)
  BY <1>2, <1>3 DEF Edge
<1>5. \A c \in Dirs : \A j \in DOMAIN u[c] :
        u[c][j].dir \in {NoDir} \cup (2 .. m) /\ (u[c][j].dir # NoDir => u[c][j].text = NoText)
  BY <1>2 DEF Tidy
<1>6. \A b, c \in Dirs : \A k \in DOMAIN u[b], j \in DOMAIN u[c] :
        u[b][k].dir # NoDir /\ u[b][k].dir = u[c][j].dir => b = c /\ k = j
  BY <1>2 DEF Tidy
<1>7. m \in Dirs /\ m >= Root
  BY DEF Tidy
<1>8. Tidy(u, m)
  BY <1>1, <1>5, <1>6, <1>7 DEF Tidy
<1> QED BY <1>4, <1>8 DEF Same

LEMMA TakeFile ==
  ASSUME NEW t, NEW u, NEW m, NEW d, NEW i, Tidy(t, m), TakesAt(t, u, d, i), t[d][i].dir = NoDir
  PROVE  Same(t, u, m)
<1>1. /\ d \in Dirs /\ Shape(u) /\ \A c \in Dirs : c # d => u[c] = t[c]
      /\ DOMAIN u[d] = DOMAIN t[d]
      /\ \A j \in DOMAIN u[d] : u[d][j] = IF j = i THEN Hole ELSE t[d][j]
  BY DEF TakesAt
<1>2. \A c \in Dirs : \A j \in DOMAIN u[c] : u[c][j].dir # NoDir => j \in DOMAIN t[c] /\ u[c][j] = t[c][j]
  BY <1>1, HoleIs
<1>3. \A c \in Dirs : \A j \in DOMAIN t[c] : t[c][j].dir # NoDir => j \in DOMAIN u[c] /\ u[c][j] = t[c][j]
  BY <1>1
<1>4. \A p, c : Edge(u, p, c) <=> Edge(t, p, c)
  BY <1>2, <1>3 DEF Edge
<1>5. \A c \in Dirs : \A j \in DOMAIN u[c] :
        u[c][j].dir \in {NoDir} \cup (2 .. m) /\ (u[c][j].dir # NoDir => u[c][j].text = NoText)
  BY <1>2 DEF Tidy
<1>6. \A b, c \in Dirs : \A k \in DOMAIN u[b], j \in DOMAIN u[c] :
        u[b][k].dir # NoDir /\ u[b][k].dir = u[c][j].dir => b = c /\ k = j
  BY <1>2 DEF Tidy
<1>7. m \in Dirs /\ m >= Root
  BY DEF Tidy
<1>8. Tidy(u, m)
  BY <1>1, <1>5, <1>6, <1>7 DEF Tidy
<1> QED BY <1>4, <1>8 DEF Same

\* A new directory is entered in one place.
LEMMA PutDir ==
  ASSUME NEW t, NEW u, NEW m, NEW d, NEW i, NEW name, Tidy(t, m), m + 1 \in Dirs,
         PutsAt(t, u, d, i, Entry(name, m + 1, NoText))
  PROVE  Tidy(u, m + 1) /\ \A p, c : Edge(u, p, c) <=> (Edge(t, p, c) \/ (p = d /\ c = m + 1))
<1>1. PICK e : e = Entry(name, m + 1, NoText)
  OBVIOUS
<1>2. e.dir = m + 1 /\ e.text = NoText
  BY <1>1 DEF Entry
<1>3. /\ d \in Dirs /\ Shape(u) /\ \A c \in Dirs : c # d => u[c] = t[c]
      /\ DOMAIN u[d] = DOMAIN t[d] \cup {i} /\ (i \in DOMAIN t[d] => t[d][i].dir = NoDir)
      /\ \A j \in DOMAIN u[d] : u[d][j] = IF j = i THEN e ELSE t[d][j]
  BY <1>1, HoleIs DEF PutsAt
<1>4. m \in Nat /\ m >= Root /\ m + 1 # NoDir /\ m + 1 \in 2 .. m + 1 /\ 2 .. m \subseteq 2 .. m + 1
      /\ m + 1 \notin 2 .. m /\ m + 1 >= Root
  BY FilesAssumption DEF Tidy, Dirs, Root, NoDir
<1>5. \A c \in Dirs : \A j \in DOMAIN u[c] :
        \/ c = d /\ j = i /\ u[c][j] = e
        \/ ~(c = d /\ j = i) /\ j \in DOMAIN t[c] /\ u[c][j] = t[c][j]
  BY <1>3
<1>6. \A c \in Dirs : \A j \in DOMAIN t[c] : t[c][j].dir # NoDir => j \in DOMAIN u[c] /\ u[c][j] = t[c][j]
  BY <1>3
<1>7. i \in DOMAIN u[d] /\ u[d][i] = e
  BY <1>3
<1>8. ASSUME NEW p, NEW c PROVE Edge(u, p, c) <=> (Edge(t, p, c) \/ (p = d /\ c = m + 1))
  <2>1. ASSUME Edge(u, p, c) PROVE Edge(t, p, c) \/ (p = d /\ c = m + 1)
    BY <1>2, <1>5, <2>1 DEF Edge
  <2>2. ASSUME Edge(t, p, c) PROVE Edge(u, p, c)
    BY <1>6, <2>2 DEF Edge
  <2>3. ASSUME p = d, c = m + 1 PROVE Edge(u, p, c)
    BY <1>2, <1>3, <1>4, <1>7, <2>3 DEF Edge
  <2> QED BY <2>1, <2>2, <2>3
<1>9. \A c \in Dirs : \A j \in DOMAIN t[c] :
        t[c][j].dir \in {NoDir} \cup (2 .. m) /\ (t[c][j].dir # NoDir => t[c][j].text = NoText)
  BY DEF Tidy
<1>10. \A c \in Dirs : \A j \in DOMAIN u[c] :
        u[c][j].dir \in {NoDir} \cup (2 .. m + 1) /\ (u[c][j].dir # NoDir => u[c][j].text = NoText)
  BY <1>2, <1>4, <1>5, <1>9
<1>11. \A b, c \in Dirs : \A k \in DOMAIN t[b], j \in DOMAIN t[c] :
        t[b][k].dir # NoDir /\ t[b][k].dir = t[c][j].dir => b = c /\ k = j
  BY DEF Tidy
<1>12. ASSUME NEW b \in Dirs, NEW c \in Dirs, NEW k \in DOMAIN u[b], NEW j \in DOMAIN u[c],
              u[b][k].dir # NoDir, u[b][k].dir = u[c][j].dir
       PROVE  b = c /\ k = j
  <2>1. CASE b = d /\ k = i
    <3>1. u[c][j].dir = m + 1
      BY <1>2, <1>7, <1>12, <2>1
    <3>2. j \in DOMAIN t[c] => t[c][j].dir # m + 1
      BY <1>4, <1>9
    <3> QED BY <1>5, <2>1, <3>1, <3>2
  <2>2. CASE c = d /\ j = i
    <3>1. u[b][k].dir = m + 1
      BY <1>2, <1>7, <1>12, <2>2
    <3>2. k \in DOMAIN t[b] => t[b][k].dir # m + 1
      BY <1>4, <1>9
    <3> QED BY <1>5, <2>2, <3>1, <3>2
  <2>3. CASE ~(b = d /\ k = i) /\ ~(c = d /\ j = i)
    <3>1. k \in DOMAIN t[b] /\ u[b][k] = t[b][k]
      BY <1>5, <2>3
    <3>2. j \in DOMAIN t[c] /\ u[c][j] = t[c][j]
      BY <1>5, <2>3
    <3> QED BY <1>11, <1>12, <3>1, <3>2
  <2> QED BY <2>1, <2>2, <2>3
<1>13. Tidy(u, m + 1)
  BY <1>3, <1>4, <1>10, <1>12 DEF Tidy
<1> QED BY <1>8, <1>13

\* An entry of a directory that goes leaves it without one.
LEMMA TakeDir ==
  ASSUME NEW t, NEW u, NEW m, NEW d, NEW i, Tidy(t, m), TakesAt(t, u, d, i), t[d][i].dir # NoDir
  PROVE  Tidy(u, m) /\ \A p, c : Edge(u, p, c) <=> Edge(t, p, c) /\ c # t[d][i].dir
<1>1. PICK x : x = t[d][i].dir
  OBVIOUS
<1>2. /\ d \in Dirs /\ Shape(u) /\ \A c \in Dirs : c # d => u[c] = t[c]
      /\ DOMAIN u[d] = DOMAIN t[d] /\ i \in DOMAIN t[d]
      /\ \A j \in DOMAIN u[d] : u[d][j] = IF j = i THEN Hole ELSE t[d][j]
  BY DEF TakesAt
<1>3. \A c \in Dirs : \A j \in DOMAIN u[c] :
        u[c][j].dir # NoDir => j \in DOMAIN t[c] /\ u[c][j] = t[c][j] /\ ~(c = d /\ j = i)
  BY <1>2, HoleIs
<1>4. \A c \in Dirs : \A j \in DOMAIN t[c] : t[c][j].dir # NoDir /\ t[c][j].dir = x => c = d /\ j = i
  BY <1>1, <1>2 DEF Tidy
<1>5. \A c \in Dirs : \A j \in DOMAIN t[c] :
        t[c][j].dir # x => j \in DOMAIN u[c] /\ (u[c][j] = t[c][j])
  BY <1>1, <1>2
<1>6. ASSUME NEW p, NEW c PROVE Edge(u, p, c) <=> Edge(t, p, c) /\ c # x
  <2>1. ASSUME Edge(u, p, c) PROVE Edge(t, p, c) /\ c # x
    BY <1>3, <1>4, <2>1 DEF Edge
  <2>2. ASSUME Edge(t, p, c), c # x PROVE Edge(u, p, c)
    BY <1>5, <2>2 DEF Edge
  <2> QED BY <2>1, <2>2
<1>7. \A c \in Dirs : \A j \in DOMAIN u[c] :
        u[c][j].dir \in {NoDir} \cup (2 .. m) /\ (u[c][j].dir # NoDir => u[c][j].text = NoText)
  BY <1>3 DEF Tidy
<1>8. \A b, c \in Dirs : \A k \in DOMAIN u[b], j \in DOMAIN u[c] :
        u[b][k].dir # NoDir /\ u[b][k].dir = u[c][j].dir => b = c /\ k = j
  BY <1>3 DEF Tidy
<1>9. m \in Dirs /\ m >= Root
  BY DEF Tidy
<1>10. Tidy(u, m)
  BY <1>2, <1>7, <1>8, <1>9 DEF Tidy
<1> QED BY <1>1, <1>6, <1>10

\* A directory in which nothing is left.
LEMMA EmptyDir ==
  ASSUME NEW t, NEW m, NEW x \in Dirs, Tidy(t, m), \A i \in DOMAIN t[x] : t[x][i] = Hole
  PROVE  Same(t, [t EXCEPT ![x] = <<>>], m)
<1>1. PICK u : u = [t EXCEPT ![x] = <<>>]
  OBVIOUS
<1>2. t = [c \in Dirs |-> t[c]] /\ \A c \in Dirs : t[c] \in Seq(Cells(t))
  BY DirIs DEF Tidy
<1>3. u = [c \in Dirs |-> IF c = x THEN <<>> ELSE t[c]]
  BY <1>1, <1>2
<1>4. Shape(u)
  <2>1. u \in [Dirs -> Seq(Cells(t))]
    BY <1>2, <1>3
  <2> QED BY <2>1, ShapeIs
<1>5. DOMAIN u[x] = {} /\ \A c \in Dirs : c # x => u[c] = t[c]
  BY <1>3
<1>6. \A c \in Dirs : \A j \in DOMAIN u[c] : j \in DOMAIN t[c] /\ u[c][j] = t[c][j]
  BY <1>5
<1>7. \A c \in Dirs : \A j \in DOMAIN t[c] : t[c][j].dir # NoDir => j \in DOMAIN u[c] /\ u[c][j] = t[c][j]
  BY <1>5, HoleIs
<1>8. \A p, c : Edge(u, p, c) <=> Edge(t, p, c)
  BY <1>6, <1>7 DEF Edge
<1>9. \A c \in Dirs : \A j \in DOMAIN u[c] :
        u[c][j].dir \in {NoDir} \cup (2 .. m) /\ (u[c][j].dir # NoDir => u[c][j].text = NoText)
  BY <1>6 DEF Tidy
<1>10. \A b, c \in Dirs : \A k \in DOMAIN u[b], j \in DOMAIN u[c] :
        u[b][k].dir # NoDir /\ u[b][k].dir = u[c][j].dir => b = c /\ k = j
  BY <1>6 DEF Tidy
<1>11. m \in Dirs /\ m >= Root
  BY DEF Tidy
<1>12. Tidy(u, m)
  BY <1>4, <1>9, <1>10, <1>11 DEF Tidy
<1> QED BY <1>1, <1>8, <1>12 DEF Same

Grows(t, u, m) ==
  (\E n \in {m, m + 1} : Tidy(u, n)) /\ \A p, c : c # m + 1 => (Edge(u, p, c) <=> Edge(t, p, c))
Shrinks(t, u, m, d, x) ==
  /\ Tidy(u, m) /\ Edge(t, d, x) /\ (\A c : ~Edge(t, x, c))
  /\ \A p, c : Edge(u, p, c) <=> Edge(t, p, c) /\ c # x

LEMMA GrowsNot == ASSUME NEW t, NEW m, Tidy(t, m) PROVE Grows(t, t, m)
BY DEF Grows

LEMMA GrowsSame == ASSUME NEW t, NEW u, NEW m, Same(t, u, m) PROVE Grows(t, u, m)
BY DEF Grows, Same

LEMMA GrowsOn ==
  ASSUME NEW t, NEW u, NEW v, NEW m, Grows(t, u, m), \A n : Tidy(u, n) => Same(u, v, n)
  PROVE  Grows(t, v, m)
BY DEF Grows, Same

\* fs_mkdir: of all that the commands call, only this makes a directory.
LEMMA MkdirGrows ==
  ASSUME NEW t, Tidy(t, made), NEW d \in Dirs, NEW name
  PROVE  Grows(t, Mkdir(t, d, name), made)
<1>1. CASE Found(t, d, name) # Hole \/ Full(t) \/ made = MaxDirs
  <2>1. Mkdir(t, d, name) = t
    BY <1>1 DEF Mkdir
  <2> QED BY <2>1, GrowsNot
<1>2. CASE ~(Found(t, d, name) # Hole \/ Full(t) \/ made = MaxDirs)
  <2>1. PICK e : e = Entry(name, made + 1, NoText)
    OBVIOUS
  <2>2. PICK u : u = Put(t, d, e)
    OBVIOUS
  <2>3. Mkdir(t, d, name) = u
    BY <1>2, <2>1, <2>2 DEF Mkdir
  <2>4. \E i : PutsAt(t, u, d, i, e)
    BY <2>2, PutIs DEF Tidy
  <2>5. made + 1 \in Dirs
    BY <1>2, FilesAssumption DEF Tidy, Dirs
  <2>6. Tidy(u, made + 1) /\ \A p, c : Edge(u, p, c) <=> (Edge(t, p, c) \/ (p = d /\ c = made + 1))
    BY <2>1, <2>4, <2>5, PutDir
  <2> QED BY <2>3, <2>6 DEF Grows
<1> QED BY <1>1, <1>2

LEMMA PutSame ==
  ASSUME NEW t, NEW m, Tidy(t, m), NEW d \in Dirs, NEW name, NEW text
  PROVE  Same(t, Put(t, d, Entry(name, NoDir, text)), m)
<1>1. PICK e : e = Entry(name, NoDir, text)
  OBVIOUS
<1>2. e.dir = NoDir
  BY <1>1 DEF Entry
<1>3. \E i : PutsAt(t, Put(t, d, e), d, i, e)
  BY PutIs DEF Tidy
<1> QED BY <1>1, <1>2, <1>3, PutFile

LEMMA NothingSame == ASSUME NEW t, NEW m, Tidy(t, m) PROVE Same(t, t, m)
BY DEF Same

LEMMA WriteNewSame ==
  ASSUME NEW t, NEW m, Tidy(t, m), NEW d \in Dirs, NEW name, NEW text
  PROVE  Same(t, WriteNew(t, d, name, text), m)
BY PutSame, NothingSame DEF WriteNew

LEMMA CopySame ==
  ASSUME NEW t, NEW m, Tidy(t, m), NEW d, NEW name, NEW td, NEW tname, CanCopy(t, d, name) => td \in Dirs
  PROVE  Same(t, Copy(t, d, name, td, tname), m)
BY PutSame, NothingSame DEF Copy

LEMMA UnlinkSame ==
  ASSUME NEW t, NEW m, Tidy(t, m), NEW d \in Dirs, NEW name
  PROVE  Same(t, Unlink(t, d, name), m)
<1>1. PICK k : k = Find(t, d, name)
  OBVIOUS
<1>2. Shape(t)
  BY DEF Tidy
<1>3. CASE Found(t, d, name) # Hole /\ Found(t, d, name).dir = NoDir
  <2>1. k # 0 /\ t[d][k].dir = NoDir
    BY <1>1, <1>2, <1>3, FindIs
  <2>2. TakesAt(t, Drop(t, d, name), d, k)
    BY <1>1, <1>2, <2>1, DropIs
  <2>3. Unlink(t, d, name) = Drop(t, d, name)
    BY <1>3 DEF Unlink
  <2> QED BY <2>1, <2>2, <2>3, TakeFile
<1>4. CASE ~(Found(t, d, name) # Hole /\ Found(t, d, name).dir = NoDir)
  BY <1>4, NothingSame DEF Unlink
<1> QED BY <1>3, <1>4

\* fs_rmdir_empty removes a directory that leads nowhere.
LEMMA RmdirShrinks ==
  ASSUME NEW t, NEW m, Tidy(t, m), NEW d \in Dirs, NEW name
  PROVE  Rmdir(t, d, name) = t \/ \E x : Shrinks(t, Rmdir(t, d, name), m, d, x)
<1>1. PICK x : x = Found(t, d, name).dir
  OBVIOUS
<1>2. SUFFICES ASSUME x # NoDir, Range(t[x]) \subseteq {Hole}
               PROVE  Shrinks(t, Rmdir(t, d, name), m, d, x)
  BY <1>1 DEF Rmdir
<1>3. PICK k : k = Find(t, d, name)
  OBVIOUS
<1>4. Shape(t)
  BY DEF Tidy
<1>5. k # 0 /\ k \in DOMAIN t[d] /\ t[d][k].dir = x
  BY <1>1, <1>2, <1>3, <1>4, FindIs, HoleIs
<1>6. x \in Dirs
  <2>1. x \in 2 .. m /\ m \in Dirs
    BY <1>2, <1>5 DEF Tidy
  <2> QED BY <2>1, FilesAssumption DEF Dirs
<1>7. \A i \in DOMAIN t[x] : t[x][i] = Hole
  BY <1>2 DEF Range
<1>8. x # d
  BY <1>2, <1>5, <1>7, HoleIs
<1>9. PICK v : v = Drop(t, d, name)
  OBVIOUS
<1>10. TakesAt(t, v, d, k)
  BY <1>3, <1>4, <1>5, <1>9, DropIs
<1>11. Tidy(v, m) /\ \A p, c : Edge(v, p, c) <=> Edge(t, p, c) /\ c # x
  BY <1>2, <1>5, <1>10, TakeDir
<1>12. v[x] = t[x]
  BY <1>6, <1>8, <1>10 DEF TakesAt
<1>13. Rmdir(t, d, name) = [v EXCEPT ![x] = <<>>]
  BY <1>1, <1>2, <1>9 DEF Rmdir
<1>14. Same(v, [v EXCEPT ![x] = <<>>], m)
  BY <1>6, <1>7, <1>11, <1>12, EmptyDir
<1>15. \A c : ~Edge(t, x, c)
  BY <1>7, HoleIs DEF Edge
<1>16. Edge(t, d, x)
  BY <1>2, <1>5 DEF Edge
<1>17. PICK r : r = Rmdir(t, d, name)
  OBVIOUS
<1>18. Same(v, r, m)
  BY <1>13, <1>14, <1>17
<1>19. Tidy(r, m) /\ \A p, c : Edge(r, p, c) <=> Edge(v, p, c)
  BY <1>18 DEF Same
<1>20. \A p, c : Edge(r, p, c) <=> Edge(t, p, c) /\ c # x
  BY <1>11, <1>19
<1>21. Shrinks(t, r, m, d, x)
  BY <1>15, <1>16, <1>19, <1>20 DEF Shrinks
<1> QED BY <1>17, <1>21

\* The loop of UnlinkAll comes to its end.
Erasing(a, t, d, F, n) ==
  a = [i \in 0 .. n |-> IF i = 0 THEN t
                        ELSE IF i \in F THEN Unlink(a[i - 1], d, t[d][i].name) ELSE a[i - 1]]

LEMMA ErasedOn ==
  ASSUME NEW t, NEW d, NEW F, NEW n \in Nat
  PROVE  \E a : Erasing(a, t, d, F, n)
<1> DEFINE Bad == {m \in Nat : ~\E a : Erasing(a, t, d, F, m)}
<1>1. SUFFICES ASSUME Bad # {} PROVE FALSE
  OBVIOUS
<1>2. PICK m \in Bad : \A j \in Bad : m <= j
  <2>1. Bad \subseteq Nat
    OBVIOUS
  <2> QED BY <1>1, <2>1, LeastIn
<1>3. m \in Nat /\ ~\E a : Erasing(a, t, d, F, m)
  OBVIOUS
<1>4. m # 0
  <2>1. SUFFICES ASSUME m = 0 PROVE FALSE
    OBVIOUS
  <2>2. PICK a : a = [k \in 0 .. 0 |-> t]
    OBVIOUS
  <2>3. \A k \in 0 .. 0 : k = 0
    OBVIOUS
  <2>4. Erasing(a, t, d, F, 0)
    BY <2>2, <2>3 DEF Erasing
  <2> QED BY <1>3, <2>1, <2>4
<1>5. PICK h \in Nat : m = h + 1
  BY <1>3, <1>4
<1>6. h \notin Bad
  <2>1. ~(m <= h)
    BY <1>5
  <2> QED BY <1>2, <2>1
<1>7. PICK a : Erasing(a, t, d, F, h)
  BY <1>6
<1>8. PICK next : next = IF m \in F THEN Unlink(a[h], d, t[d][m].name) ELSE a[h]
  OBVIOUS
<1>9. PICK b : b = [k \in 0 .. m |-> IF k = m THEN next ELSE a[k]]
  OBVIOUS
<1>10. ASSUME NEW k \in 0 .. m
       PROVE  b[k] = IF k = 0 THEN t ELSE IF k \in F THEN Unlink(b[k - 1], d, t[d][k].name) ELSE b[k - 1]
  <2>1. CASE k = m
    <3>1. k - 1 = h /\ h \in 0 .. m /\ h # m /\ b[h] = a[h] /\ b[k] = next
      BY <1>5, <1>9, <2>1
    <3> QED BY <1>4, <1>8, <2>1, <3>1
  <2>2. CASE k # m /\ k # 0
    <3>1. k \in 0 .. h /\ k - 1 \in 0 .. m /\ k - 1 # m
      BY <1>5, <2>2
    <3>2. a[k] = IF k \in F THEN Unlink(a[k - 1], d, t[d][k].name) ELSE a[k - 1]
      BY <1>7, <2>2, <3>1 DEF Erasing
    <3>3. b[k] = a[k] /\ b[k - 1] = a[k - 1]
      BY <1>9, <2>2, <3>1
    <3> QED BY <2>2, <3>2, <3>3
  <2>3. CASE k # m /\ k = 0
    <3>1. 0 \in 0 .. h
      BY <1>5
    <3>2. a[0] = t
      BY <1>7, <3>1 DEF Erasing
    <3> QED BY <1>9, <2>3, <3>2
  <2> QED BY <2>1, <2>2, <2>3
<1>11. Erasing(b, t, d, F, m)
  BY <1>9, <1>10 DEF Erasing
<1> QED BY <1>3, <1>11

\* Erasing files leaves the directories.
LEMMA UnlinkAllSame ==
  ASSUME NEW t, NEW m, Tidy(t, m), NEW d \in Dirs
  PROVE  Same(t, UnlinkAll(t, d), m)
<1>1. PICK n : n = Len(t[d])
  OBVIOUS
<1>2. n \in Nat
  BY <1>1, DirIs DEF Tidy
<1>3. PICK F : F = Listed(t, d, LAMBDA e : e.dir = NoDir)
  OBVIOUS
<1>4. \E a : Erasing(a, t, d, F, n)
  BY <1>2, ErasedOn
<1>5. PICK a : a = CHOOSE x : Erasing(x, t, d, F, n)
  OBVIOUS
<1>6. Erasing(a, t, d, F, n)
  BY <1>4, <1>5, Zenon
<1>7. UnlinkAll(t, d) = a[n]
  BY <1>1, <1>3, <1>5 DEF UnlinkAll, Erasing
<1> DEFINE Bad == {k \in 0 .. n : ~Same(t, a[k], m)}
<1>8. Bad = {}
  <2>1. SUFFICES ASSUME Bad # {} PROVE FALSE
    OBVIOUS
  <2>2. PICK k \in Bad : \A j \in Bad : k <= j
    <3>1. Bad \subseteq Nat
      BY <1>2
    <3> QED BY <2>1, <3>1, LeastIn
  <2>3. k \in 0 .. n /\ ~Same(t, a[k], m)
    OBVIOUS
  <2>4. a[k] = IF k = 0 THEN t ELSE IF k \in F THEN Unlink(a[k - 1], d, t[d][k].name) ELSE a[k - 1]
    BY <1>6, <2>3 DEF Erasing
  <2>5. k # 0
    BY <2>3, <2>4, NothingSame
  <2>6. k - 1 \in 0 .. n /\ ~(k <= k - 1)
    BY <1>2, <2>3, <2>5
  <2>7. k - 1 \notin Bad
    BY <2>2, <2>6
  <2>8. Same(t, a[k - 1], m)
    BY <2>6, <2>7
  <2>9. Tidy(a[k - 1], m)
    BY <2>8 DEF Same
  <2>10. Same(a[k - 1], Unlink(a[k - 1], d, t[d][k].name), m)
    BY <2>9, UnlinkSame
  <2> QED BY <2>3, <2>4, <2>5, <2>8, <2>10, SameSame
<1>9. n \in 0 .. n
  BY <1>2
<1> QED BY <1>7, <1>8, <1>9

LEMMA ListIn ==
  ASSUME NEW t, NEW m, Tidy(t, m), NEW d \in Dirs
  PROVE  /\ List(t, d) \subseteq DOMAIN t[d] /\ List(t, d) \subseteq Nat
         /\ \A i \in List(t, d) : t[d][i].dir # NoDir =>
              /\ Edge(t, d, t[d][i].dir) /\ t[d][i].dir \in Live(t) /\ t[d][i].dir # Root
              /\ t[d][i].dir \in Dirs /\ t[d][i].dir \in 1 .. m
<1>1. List(t, d) \subseteq DOMAIN t[d]
  BY DEF List
<1>2. DOMAIN t[d] \subseteq Nat
  BY DirIs DEF Tidy
<1>3. ASSUME NEW i \in List(t, d), t[d][i].dir # NoDir
      PROVE  Edge(t, d, t[d][i].dir)
  BY <1>1, <1>3 DEF Edge
<1>4. \A c : Edge(t, d, c) => c \in Live(t) /\ c # Root /\ c \in Dirs /\ c \in 1 .. m
  BY EdgeIn, LiveIn
<1> QED BY <1>1, <1>2, <1>3, <1>4

LEMMA ShownIs ==
  ASSUME NEW t, NEW m, Tidy(t, m), NEW d \in Dirs, NEW e \in Shown(t, d), e.dir # NoDir
  PROVE  Edge(t, d, e.dir) /\ e.dir \in Live(t) /\ e.dir # Root /\ e.dir \in 1 .. m
<1>1. PICK i \in List(t, d) : e = Item(t[d][i])
  BY DEF Shown
<1>2. e.dir = t[d][i].dir
  BY <1>1 DEF Item
<1> QED BY <1>2, ListIn

\* desktop_build_icons shows what is there.
LEMMA IconsLive ==
  ASSUME NEW t, NEW m, Tidy(t, m), NEW c \in {IconsOf(t).folder} \cup {e.dir : e \in IconsOf(t).entries}
  PROVE  c = NoDir \/ (c \in Live(t) /\ c \in 1 .. m)
<1>1. PICK desk : desk = Listed(t, Root, LAMBDA e : e.name = "DESKTOP")
  OBVIOUS
<1>2. PICK folder : folder = IF desk = {} THEN NoDir ELSE t[Root][Min(desk)].dir
  OBVIOUS
<1>3. /\ IconsOf(t).folder = folder
      /\ IconsOf(t).entries = IF folder = NoDir THEN {} ELSE Shown(t, folder)
  BY <1>1, <1>2 DEF IconsOf
<1>4. Root \in Dirs
  BY FilesAssumption DEF Root, Dirs
<1>5. folder = NoDir \/ (folder \in Live(t) /\ folder \in 1 .. m /\ folder \in Dirs)
  <2>1. CASE desk = {}
    BY <1>2, <2>1
  <2>2. CASE desk # {}
    <3>1. desk \subseteq List(t, Root)
      BY <1>1 DEF Listed
    <3>2. Min(desk) \in desk
      BY <1>4, <2>2, <3>1, ListIn, LeastIn
    <3> QED BY <1>2, <1>4, <2>2, <3>1, <3>2, ListIn
  <2> QED BY <2>1, <2>2
<1>6. ASSUME NEW e \in IconsOf(t).entries, e.dir # NoDir PROVE e.dir \in Live(t) /\ e.dir \in 1 .. m
  BY <1>3, <1>5, <1>6, ShownIs
<1> QED BY <1>3, <1>5, <1>6

\* get_or_create_trash_dir.
LEMMA TrashDirIs ==
  ASSUME NEW t, Tidy(t, made)
  PROVE  /\ Grows(t, TrashDir(t).tree, made)
         /\ TrashDir(t).tree \in {t, Mkdir(t, Root, "TRASH")}
         /\ TrashDir(t).dir # NoDir => TrashDir(t).dir \in Dirs
<1>1. Root \in Dirs
  BY FilesAssumption DEF Root, Dirs
<1>2. PICK u : u = TrashDir(t).tree
  OBVIOUS
<1>3. u \in {t, Mkdir(t, Root, "TRASH")}
  BY <1>2 DEF TrashDir
<1>4. Grows(t, u, made)
  BY <1>1, <1>3, GrowsNot, MkdirGrows
<1>5. PICK n : Tidy(u, n)
  BY <1>4 DEF Grows
<1>6. PICK S : S = Listed(u, Root, LAMBDA e : e.name = "TRASH" /\ e.dir # NoDir)
  OBVIOUS
<1>7. TrashDir(t).dir = IF S = {} THEN NoDir ELSE u[Root][Min(S)].dir
  BY <1>2, <1>6 DEF TrashDir
<1>8. ASSUME S # {} PROVE u[Root][Min(S)].dir # NoDir => u[Root][Min(S)].dir \in Dirs
  <2>1. S \subseteq List(u, Root)
    BY <1>6 DEF Listed
  <2>2. Min(S) \in S
    BY <1>1, <1>5, <1>8, <2>1, ListIn, LeastIn
  <2> QED BY <1>1, <1>5, <2>1, <2>2, ListIn
<1> QED BY <1>2, <1>3, <1>4, <1>7, <1>8

\* trash_move_file.
LEMMA TrashMoveGrows ==
  ASSUME NEW t, Tidy(t, made), NEW dir \in Dirs, NEW name
  PROVE  Grows(t, TrashMove(t, dir, name), made)
<1>1. PICK got : got = TrashDir(t)
  OBVIOUS
<1>2. Grows(t, got.tree, made) /\ (got.dir # NoDir => got.dir \in Dirs)
  BY <1>1, TrashDirIs
<1>3. CASE got.dir = NoDir \/ ~CanCopy(got.tree, dir, name)
  BY <1>1, <1>2, <1>3 DEF TrashMove
<1>4. CASE ~(got.dir = NoDir \/ ~CanCopy(got.tree, dir, name))
  <2>1. got.dir \in Dirs
    BY <1>2, <1>4
  <2>2. PICK u : u = Copy(got.tree, dir, name, got.dir, name)
    OBVIOUS
  <2>3. PICK v : v = Unlink(u, dir, name)
    OBVIOUS
  <2>4. \E text : TrashMove(t, dir, name) = WriteNew(v, got.dir, "INFO", text)
    BY <1>1, <1>4, <2>2, <2>3 DEF TrashMove
  <2>5. Grows(t, u, made)
    BY <1>2, <2>1, <2>2, CopySame, GrowsOn
  <2>6. Grows(t, v, made)
    BY <2>3, <2>5, UnlinkSame, GrowsOn
  <2> QED BY <2>1, <2>4, <2>6, WriteNewSame, GrowsOn
<1> QED BY <1>3, <1>4

----------------------------------------------------------------------------
(* What a command does to the directories, and what is remembered of them. *)

Turn(t, u, m, n, r, s, a) ==
  /\ Tidy(t, m) /\ Tidy(u, n) /\ m \in Nat /\ n \in Nat /\ m <= n
  /\ Grows(t, u, m) \/ \E d, x : Shrinks(t, u, m, d, x)
  /\ \A c \in Dirs : c \notin Live(t) => s[c] = r[c]
  /\ \A c \in Dirs : c \in Live(t) /\ c \notin Live(u) => s[c] = a

Remembered(x) == {x.cwd, x.parent} \cup {e.dir : e \in x.entries}
MemoOf(x, t, m, r, w) ==
  /\ \A c \in Remembered(x) : c \in {NoDir} \cup (1 .. m)
  /\ x.cwd # NoDir /\ (x.parent # NoDir => x.cwd # Root) /\ \A e \in x.entries : e.dir # Root
  /\ \A e \in x.entries : e.dir \in Live(t) => Edge(t, x.cwd, e.dir)
  /\ x.parent # NoDir /\ x.cwd \in Live(t) => Edge(t, x.parent, x.cwd)
  /\ \A c \in Remembered(x) : c # NoDir /\ c \notin Live(t) => r[c] # w
IconMemo(x, t, m, r) ==
  \A c \in {x.folder} \cup {e.dir : e \in x.entries} :
    c \in {NoDir} \cup (1 .. m) /\ (c # NoDir /\ c \notin Live(t) => r[c] = "terminal")

FilesInv ==
  /\ Tidy(tree, made) /\ IconMemo(icons, tree, made, remover)
  /\ disk = [w \in Windows |-> disk[w]]
  /\ \A w \in Windows : MemoOf(disk[w], tree, made, remover, w)

LEMMA MaxIs ==
  ASSUME NEW S, S \subseteq Nat, NEW x \in S, \A y \in S : y <= x
  PROVE  Max(S) = x
<1>1. \A y \in S : x >= y
  OBVIOUS
<1>2. PICK z : z = Max(S)
  OBVIOUS
<1>3. z \in S /\ \A y \in S : z >= y
  BY <1>1, <1>2 DEF Max
<1>4. z \in Nat /\ x \in Nat /\ z >= x /\ z <= x
  BY <1>3
<1> QED BY <1>2, <1>4

LEMMA TidyDown ==
  ASSUME NEW u, NEW m \in Dirs, m >= Root, Tidy(u, m + 1), m + 1 \notin Live(u)
  PROVE  Tidy(u, m)
<1>1. m \in Nat
  BY FilesAssumption DEF Dirs
<1>2. ASSUME NEW d \in Dirs, NEW i \in DOMAIN u[d] PROVE u[d][i].dir \in {NoDir} \cup (2 .. m)
  <2>1. u[d][i].dir \in {NoDir} \cup (2 .. m + 1)
    BY DEF Tidy
  <2>2. u[d][i].dir # NoDir => u[d][i].dir \in Live(u)
    BY LiveIs DEF Edge
  <2> QED BY <1>1, <2>1, <2>2 DEF NoDir
<1> QED BY <1>2 DEF Tidy

LEMMA DoTurn ==
  ASSUME Tidy(tree, made), NEW a, NEW dirs, NEW u, Do(a, dirs, u),
         dirs \subseteq Live(tree) => Grows(tree, u, made) \/ \E d, x : Shrinks(tree, u, made, d, x)
  PROVE  /\ Turn(tree, tree', made, made', remover, remover', a)
         /\ tree' = tree \/ (dirs \subseteq Live(tree) /\ tree' = u)
         /\ ~(dirs \subseteq Live(tree)) => tree' = tree
<1>1. made \in Nat /\ made \in Dirs /\ made >= Root
  BY FilesAssumption DEF Tidy, Dirs
<1>2. tree' = tree \/ (dirs \subseteq Live(tree) /\ tree' = u)
  BY DEF Do
<1>3. ~(dirs \subseteq Live(tree)) => tree' = tree
  BY DEF Do
<1>4. CASE tree' = tree
  <2>1. made' = made /\ remover' = remover
    BY <1>4 DEF Do
  <2> QED BY <1>1, <1>2, <1>3, <1>4, <2>1, GrowsNot DEF Turn
<1>5. CASE tree' # tree
  <2>1. PICK now : now = Live(tree')
    OBVIOUS
  <2>2. PICK m : m = made'
    OBVIOUS
  <2>3. m = Max({made} \cup now) /\ remover' = [d \in Dirs |-> IF d \in Live(tree) \ now THEN a ELSE remover[d]]
    BY <1>5, <2>1, <2>2 DEF Do
  <2>4. tree' = u /\ (Grows(tree, u, made) \/ \E d, x : Shrinks(tree, u, made, d, x))
    BY <1>2, <1>5
  <2>5. PICK n \in {made, made + 1} : Tidy(u, n)
    BY <2>4 DEF Grows, Shrinks
  <2>6. n \in Nat /\ now \subseteq 1 .. n
    BY <1>1, <2>1, <2>4, <2>5, LiveIn
  <2>7. Tidy(u, m) /\ m \in Nat /\ made <= m
    <3>1. CASE n = made
      <4>1. {made} \cup now \subseteq Nat /\ \A y \in {made} \cup now : y <= made
        BY <1>1, <2>6, <3>1
      <4>2. m = made
        BY <2>3, <4>1, MaxIs
      <4> QED BY <1>1, <2>5, <3>1, <4>2
    <3>2. CASE n = made + 1 /\ made + 1 \in now
      <4>1. {made} \cup now \subseteq Nat /\ \A y \in {made} \cup now : y <= made + 1
        BY <1>1, <2>6, <3>2
      <4>2. m = made + 1
        BY <2>3, <3>2, <4>1, MaxIs
      <4> QED BY <1>1, <2>5, <3>2, <4>2
    <3>3. CASE n = made + 1 /\ made + 1 \notin now
      <4>1. {made} \cup now \subseteq Nat /\ \A y \in {made} \cup now : y <= made
        BY <1>1, <2>6, <3>3
      <4>2. m = made
        BY <2>3, <4>1, MaxIs
      <4>3. Tidy(u, made)
        BY <1>1, <2>1, <2>4, <2>5, <3>3, TidyDown
      <4> QED BY <1>1, <4>2, <4>3
    <3> QED BY <2>5, <3>1, <3>2, <3>3
  <2>8. \A c \in Dirs : c \notin Live(tree) => remover'[c] = remover[c]
    BY <2>3
  <2>9. \A c \in Dirs : c \in Live(tree) /\ c \notin Live(tree') => remover'[c] = a
    BY <2>1, <2>3
  <2> QED BY <1>1, <1>2, <1>3, <2>2, <2>4, <2>7, <2>8, <2>9 DEF Turn
<1> QED BY <1>4, <1>5

LEMMA TurnLive ==
  ASSUME NEW t, NEW u, NEW m, NEW n, NEW r, NEW s, NEW a, Turn(t, u, m, n, r, s, a)
  PROVE  /\ \A c \in 1 .. m : c \in Live(u) => c \in Live(t)
         /\ \A p : \A c \in 1 .. m : Edge(t, p, c) /\ c \in Live(u) => Edge(u, p, c)
         /\ Grows(t, u, m) => \A c \in 1 .. m : c \in Live(t) => c \in Live(u)
         /\ \A c \in 1 .. m : c \notin Live(t) => s[c] = r[c]
         /\ \A c \in 1 .. m : c \in Live(t) /\ c \notin Live(u) => s[c] = a
<1>1. /\ Tidy(t, m) /\ Tidy(u, n) /\ m \in Nat /\ n \in Nat /\ m <= n /\ 1 .. m \subseteq Dirs
      /\ \A c \in 1 .. m : c # m + 1
  BY FilesAssumption DEF Turn, Tidy, Dirs
<1>2. CASE Grows(t, u, m)
  <2>1. \A p : \A c \in 1 .. m : Edge(u, p, c) <=> Edge(t, p, c)
    BY <1>1, <1>2 DEF Grows
  <2>2. \A c \in 1 .. m : c \in Live(u) <=> c \in Live(t)
    BY <2>1, LiveIs
  <2> QED BY <1>1, <2>1, <2>2 DEF Turn
<1>3. ASSUME ~Grows(t, u, m)
      PROVE  /\ \A c \in 1 .. m : c \in Live(u) => c \in Live(t)
             /\ \A p : \A c \in 1 .. m : Edge(t, p, c) /\ c \in Live(u) => Edge(u, p, c)
  <2>1. PICK d, x : Shrinks(t, u, m, d, x)
    BY <1>3 DEF Turn
  <2>2. \A p, c : Edge(u, p, c) <=> Edge(t, p, c) /\ c # x
    BY <2>1 DEF Shrinks
  <2>3. \A c : c \in Live(u) => c \in Live(t)
    BY <2>2, LiveIs
  <2>4. ASSUME NEW p, NEW c, Edge(t, p, c), c \in Live(u) PROVE Edge(u, p, c)
    <3>1. c # Root
      BY <1>1, <2>4, EdgeIn
    <3>2. \E q : Edge(u, q, c)
      BY <2>4, <3>1, LiveIs
    <3> QED BY <2>2, <2>4, <3>2
  <2> QED BY <2>3, <2>4
<1> QED BY <1>1, <1>2, <1>3 DEF Turn

\* Another's command, or one that removes no directory.
LEMMA MemoStays ==
  ASSUME NEW t, NEW u, NEW m, NEW n, NEW r, NEW s, NEW a, Turn(t, u, m, n, r, s, a),
         NEW x, NEW w, MemoOf(x, t, m, r, w), a # w \/ Grows(t, u, m)
  PROVE  MemoOf(x, u, n, s, w)
<1>1. m \in Nat /\ n \in Nat /\ m <= n
  BY DEF Turn
<1>2. \A c \in Remembered(x) : c # NoDir => c \in 1 .. m /\ c \in 1 .. n
  BY <1>1 DEF MemoOf
<1>3. x.cwd \in Remembered(x) /\ \A e \in x.entries : e.dir \in Remembered(x)
  BY DEF Remembered
<1>4. \A e \in x.entries : e.dir \in Live(u) => Edge(u, x.cwd, e.dir)
  <2>1. NoDir \notin Live(u)
    BY LiveIs DEF Edge, Root, NoDir
  <2> QED BY <1>2, <1>3, <2>1, TurnLive DEF MemoOf
<1>5. x.parent # NoDir /\ x.cwd \in Live(u) => Edge(u, x.parent, x.cwd)
  BY <1>2, <1>3, TurnLive DEF MemoOf
<1>6. ASSUME NEW c \in Remembered(x), c # NoDir, c \notin Live(u) PROVE s[c] # w
  <2>1. CASE c \in Live(t)
    BY <1>2, <1>6, <2>1, TurnLive
  <2>2. CASE c \notin Live(t)
    BY <1>2, <1>6, <2>2, TurnLive DEF MemoOf
  <2> QED BY <2>1, <2>2
<1> QED BY <1>2, <1>4, <1>5, <1>6 DEF MemoOf

\* A window's own command, after which it reads its directory again.
LEMMA MemoRefreshed ==
  ASSUME NEW t, NEW u, NEW m, NEW n, NEW r, NEW s, NEW w, Turn(t, u, m, n, r, s, w),
         NEW x, MemoOf(x, t, m, r, w),
         Grows(t, u, m) \/ (x.cwd \in Live(t) /\ \E c : Shrinks(t, u, m, x.cwd, c)),
         NEW y, y.cwd = x.cwd, y.parent = x.parent, y.entries = Shown(u, x.cwd)
  PROVE  MemoOf(y, u, n, s, w)
<1>1. m \in Nat /\ n \in Nat /\ m <= n /\ Tidy(t, m) /\ Tidy(u, n) /\ 1 .. m \subseteq Dirs /\ 1 .. m \subseteq 1 .. n
  BY FilesAssumption DEF Turn, Tidy, Dirs
<1>2. x.cwd \in 1 .. m /\ x.parent \in {NoDir} \cup (1 .. m)
  BY DEF MemoOf, Remembered
<1>3. \A e \in y.entries : e.dir # NoDir =>
         Edge(u, y.cwd, e.dir) /\ e.dir \in Live(u) /\ e.dir # Root /\ e.dir \in 1 .. n
  BY <1>1, <1>2, ShownIs
<1>4. y.cwd \in 1 .. n /\ y.parent \in {NoDir} \cup (1 .. n) /\ y.cwd # NoDir /\ (y.parent # NoDir => y.cwd # Root)
  BY <1>1, <1>2 DEF MemoOf
<1>5. y.parent # NoDir /\ y.cwd \in Live(u) => Edge(u, y.parent, y.cwd)
  BY <1>2, TurnLive DEF MemoOf
<1>6. ASSUME NEW c \in {x.cwd, x.parent}, c # NoDir, c \in Live(t) PROVE c \in Live(u)
  <2>1. CASE Grows(t, u, m)
    BY <1>2, <1>6, <2>1, TurnLive
  <2>2. CASE x.cwd \in Live(t) /\ \E z : Shrinks(t, u, m, x.cwd, z)
    <3>1. PICK z : Shrinks(t, u, m, x.cwd, z)
      BY <2>2
    <3>2. \A b : ~Edge(t, z, b)
      BY <3>1 DEF Shrinks
    <3>3. Edge(t, x.cwd, z) /\ \A p, b : Edge(u, p, b) <=> Edge(t, p, b) /\ b # z
      BY <3>1 DEF Shrinks
    <3>4. x.cwd # z
      BY <3>2, <3>3
    <3>5. x.parent # NoDir => Edge(t, x.parent, x.cwd)
      BY <2>2 DEF MemoOf
    <3>6. x.parent # NoDir => x.parent # z
      BY <3>2, <3>5
    <3> QED BY <1>6, <3>3, <3>4, <3>6, LiveIs
  <2> QED BY <2>1, <2>2
<1>7. ASSUME NEW c \in {x.cwd, x.parent}, c # NoDir, c \notin Live(u) PROVE s[c] # w
  <2>1. c \notin Live(t) /\ c \in 1 .. m /\ c \in Remembered(x)
    BY <1>2, <1>6, <1>7 DEF Remembered
  <2>2. s[c] = r[c]
    BY <2>1, TurnLive
  <2> QED BY <1>7, <2>1, <2>2 DEF MemoOf
<1>8. \A c \in Remembered(y) : c \in {NoDir} \cup (1 .. n)
  BY <1>3, <1>4 DEF Remembered
<1>9. \A c \in Remembered(y) : c # NoDir /\ c \notin Live(u) => s[c] # w
  BY <1>3, <1>7 DEF Remembered
<1>10. \A e \in y.entries : e.dir # Root /\ (e.dir \in Live(u) => Edge(u, y.cwd, e.dir))
  <2>1. NoDir \notin Live(u) /\ NoDir # Root
    BY LiveIs DEF Edge, Root, NoDir
  <2> QED BY <1>3, <2>1
<1> QED BY <1>4, <1>5, <1>8, <1>9, <1>10 DEF MemoOf

\* A window that goes somewhere, with or without a way back.
LEMMA MemoGoes ==
  ASSUME NEW t, NEW m, Tidy(t, m), NEW r, NEW w,
         NEW y, y.cwd \in 1 .. m, y.cwd \in Live(t) \/ r[y.cwd] # w, y.entries = Shown(t, y.cwd),
         \/ y.parent = NoDir
         \/ /\ y.parent \in 1 .. m /\ y.cwd # Root /\ (y.parent \in Live(t) \/ r[y.parent] # w)
            /\ y.cwd \in Live(t) => Edge(t, y.parent, y.cwd)
  PROVE  MemoOf(y, t, m, r, w)
<1>1. m \in Nat /\ 1 .. m \subseteq Dirs /\ NoDir \notin 1 .. m
  BY FilesAssumption DEF Tidy, Dirs, NoDir
<1>2. \A e \in y.entries : e.dir # NoDir =>
         Edge(t, y.cwd, e.dir) /\ e.dir \in Live(t) /\ e.dir # Root /\ e.dir \in 1 .. m
  BY <1>1, ShownIs
<1>3. \A c \in Remembered(y) : c \in {NoDir} \cup (1 .. m)
  BY <1>2 DEF Remembered
<1>4. \A c \in Remembered(y) : c # NoDir /\ c \notin Live(t) => r[c] # w
  BY <1>2 DEF Remembered
<1>5. \A e \in y.entries : e.dir # Root /\ (e.dir \in Live(t) => Edge(t, y.cwd, e.dir))
  <2>1. NoDir \notin Live(t) /\ NoDir # Root
    BY LiveIs DEF Edge, Root, NoDir
  <2> QED BY <1>2, <2>1
<1>6. y.parent # NoDir => y.cwd # Root /\ (y.cwd \in Live(t) => Edge(t, y.parent, y.cwd))
  OBVIOUS
<1>7. y.cwd # NoDir
  BY <1>1
<1> QED BY <1>3, <1>4, <1>5, <1>6, <1>7 DEF MemoOf

LEMMA IconStays ==
  ASSUME NEW t, NEW u, NEW m, NEW n, NEW r, NEW s, NEW a, Turn(t, u, m, n, r, s, a),
         NEW x, IconMemo(x, t, m, r), a = "terminal" \/ Grows(t, u, m)
  PROVE  IconMemo(x, u, n, s)
<1>1. m \in Nat /\ n \in Nat /\ m <= n
  BY DEF Turn
<1>2. ASSUME NEW c \in {x.folder} \cup {e.dir : e \in x.entries}, c # NoDir
      PROVE  c \in 1 .. n /\ (c \notin Live(u) => s[c] = "terminal")
  <2>1. c \in 1 .. m /\ (c \notin Live(t) => r[c] = "terminal")
    BY <1>2 DEF IconMemo
  <2> QED BY <1>1, <2>1, TurnLive
<1> QED BY <1>2 DEF IconMemo

LEMMA IconsFresh ==
  ASSUME NEW t, NEW m, Tidy(t, m), NEW r
  PROVE  IconMemo(IconsOf(t), t, m, r)
BY IconsLive DEF IconMemo

----------------------------------------------------------------------------
(* The commands. *)

LEMMA DoGrows ==
  ASSUME FilesInv, NEW a, NEW dirs, NEW u, Do(a, dirs, u), dirs \subseteq Live(tree) => Grows(tree, u, made)
  PROVE  Turn(tree, tree', made, made', remover, remover', a) /\ Grows(tree, tree', made)
<1>1. Tidy(tree, made)
  BY DEF FilesInv
<1>2. Turn(tree, tree', made, made', remover, remover', a)
  BY <1>1, DoTurn
<1>3. tree' = tree \/ (dirs \subseteq Live(tree) /\ tree' = u)
  BY <1>1, DoTurn
<1> QED BY <1>1, <1>2, <1>3, GrowsNot

LEMMA DoNothing ==
  ASSUME NEW a, NEW dirs, Do(a, dirs, tree)
  PROVE  tree' = tree /\ made' = made /\ remover' = remover
BY DEF Do

LEMMA LiveDirs ==
  ASSUME FilesInv
  PROVE  Live(tree) \subseteq Dirs /\ Root \in Dirs /\ Root \in Live(tree) /\ 1 .. made \subseteq Dirs
         /\ Tidy(tree, made) /\ made \in Nat /\ Root \in 1 .. made
<1>1. Tidy(tree, made)
  BY DEF FilesInv
<1>2. made \in Dirs /\ made >= Root
  BY <1>1 DEF Tidy
<1> QED BY <1>1, <1>2, LiveIn, LiveIs, FilesAssumption DEF Dirs, Root

\* The Disk windows stay as they are.
LEMMA WindowsStay ==
  ASSUME FilesInv, NEW a, Turn(tree, tree', made, made', remover, remover', a),
         a = "terminal" \/ Grows(tree, tree', made), UNCHANGED disk,
         icons' = icons \/ icons' = IconsOf(tree')
  PROVE  FilesInv'
<1>1. Tidy(tree', made')
  BY DEF Turn
<1>2. IconMemo(icons', tree', made', remover')
  <2>1. CASE icons' = icons
    BY <2>1, IconStays DEF FilesInv
  <2>2. CASE icons' = IconsOf(tree')
    BY <1>1, <2>2, IconsFresh
  <2> QED BY <2>1, <2>2
<1>3. ASSUME NEW w \in Windows PROVE MemoOf(disk'[w], tree', made', remover', w)
  <2>1. MemoOf(disk[w], tree, made, remover, w)
    BY DEF FilesInv
  <2>2. a # w \/ Grows(tree, tree', made)
    BY FilesAssumption
  <2> QED BY <2>1, <2>2, MemoStays
<1>4. disk' = [w \in Windows |-> disk'[w]]
  BY DEF FilesInv
<1> QED BY <1>1, <1>2, <1>3, <1>4 DEF FilesInv

\* disk_refresh at the end of a command.
LEMMA WindowRefreshed ==
  ASSUME FilesInv, NEW w \in Windows, Turn(tree, tree', made, made', remover, remover', w),
         \/ Grows(tree, tree', made)
         \/ disk[w].cwd \in Live(tree) /\ \E c : Shrinks(tree, tree', made, disk[w].cwd, c),
         Refresh(w), icons' = IconsOf(tree') \/ (icons' = icons /\ Grows(tree, tree', made))
  PROVE  FilesInv'
<1>1. Tidy(tree', made')
  BY DEF Turn
<1>2. IconMemo(icons', tree', made', remover')
  <2>1. CASE icons' = icons /\ Grows(tree, tree', made)
    BY <2>1, IconStays DEF FilesInv
  <2>2. CASE icons' = IconsOf(tree')
    BY <1>1, <2>2, IconsFresh
  <2> QED BY <2>1, <2>2
<1>3. PICK y : y = Showing(tree', disk[w].cwd, disk[w].parent)
  OBVIOUS
<1>4. disk' = [disk EXCEPT ![w] = y]
  BY <1>3 DEF Refresh, Display
<1>5. disk = [v \in Windows |-> disk[v]]
  BY DEF FilesInv
<1>6. disk' = [v \in Windows |-> disk'[v]] /\ disk'[w] = y /\ \A v \in Windows : v # w => disk'[v] = disk[v]
  BY <1>4, <1>5
<1>7. y.cwd = disk[w].cwd /\ y.parent = disk[w].parent /\ y.entries = Shown(tree', disk[w].cwd)
  BY <1>3 DEF Showing
<1>8. MemoOf(y, tree', made', remover', w)
  <2>1. MemoOf(disk[w], tree, made, remover, w)
    BY DEF FilesInv
  <2> QED BY <1>7, <2>1, MemoRefreshed
<1>9. ASSUME NEW v \in Windows, v # w PROVE MemoOf(disk'[v], tree', made', remover', v)
  <2>1. MemoOf(disk[v], tree, made, remover, v)
    BY DEF FilesInv
  <2>2. MemoOf(disk[v], tree', made', remover', v)
    BY <1>9, <2>1, MemoStays
  <2> QED BY <1>6, <1>9, <2>2
<1> QED BY <1>1, <1>2, <1>6, <1>8, <1>9 DEF FilesInv

\* Nothing is changed on the volume, but windows go somewhere.
LEMMA WindowGoes ==
  ASSUME FilesInv, tree' = tree, made' = made, remover' = remover, icons' = icons,
         disk' = [w \in Windows |-> disk'[w]],
         \A w \in Windows : MemoOf(disk'[w], tree, made, remover, w)
  PROVE  FilesInv'
BY DEF FilesInv

LEMMA DisplayIs ==
  ASSUME FilesInv, NEW w \in Windows, NEW cwd, NEW parent, Display(w, cwd, parent), tree' = tree
  PROVE  /\ disk' = [v \in Windows |-> disk'[v]] /\ \A v \in Windows : v # w => disk'[v] = disk[v]
         /\ disk'[w].cwd = cwd /\ disk'[w].parent = parent /\ disk'[w].entries = Shown(tree, cwd)
<1>1. disk = [v \in Windows |-> disk[v]]
  BY DEF FilesInv
<1>2. PICK y : y = Showing(tree, cwd, parent)
  OBVIOUS
<1>3. disk' = [disk EXCEPT ![w] = y]
  BY <1>2 DEF Display
<1>4. y.cwd = cwd /\ y.parent = parent /\ y.entries = Shown(tree, cwd)
  BY <1>2 DEF Showing
<1> QED BY <1>1, <1>3, <1>4

LEMMA DiskStartKeeps ==
  ASSUME FilesInv, NEW w \in Windows, DiskStart(w)
  PROVE  FilesInv'
<1>1. tree' = tree /\ made' = made /\ remover' = remover /\ icons' = icons /\ Display(w, Root, NoDir)
  BY DoNothing DEF DiskStart
<1>2. MemoOf(disk'[w], tree, made, remover, w)
  <2>1. disk'[w].cwd = Root /\ disk'[w].parent = NoDir /\ disk'[w].entries = Shown(tree, Root)
    BY <1>1, DisplayIs
  <2> QED BY <2>1, LiveDirs, MemoGoes
<1>3. \A v \in Windows : MemoOf(disk'[v], tree, made, remover, v)
  BY <1>1, <1>2, DisplayIs DEF FilesInv
<1> QED BY <1>1, <1>3, DisplayIs, WindowGoes

LEMMA DiskCloseKeeps ==
  ASSUME FilesInv, NEW w \in Windows, DiskClose(w)
  PROVE  FilesInv'
<1>1. tree' = tree /\ made' = made /\ remover' = remover /\ icons' = icons /\ disk' = [disk EXCEPT ![w] = Shut]
  BY DEF DiskClose
<1>2. disk = [v \in Windows |-> disk[v]]
  BY DEF FilesInv
<1>3. disk' = [v \in Windows |-> disk'[v]] /\ disk'[w] = Shut /\ \A v \in Windows : v # w => disk'[v] = disk[v]
  BY <1>1, <1>2
<1>4. MemoOf(Shut, tree, made, remover, w)
  <2>1. Shut.cwd = Root /\ Shut.parent = NoDir /\ Shut.entries = {}
    BY DEF Shut
  <2>2. Root # NoDir
    BY DEF Root, NoDir
  <2> QED BY <2>1, <2>2, LiveDirs DEF MemoOf, Remembered
<1>5. \A v \in Windows : MemoOf(disk'[v], tree, made, remover, v)
  BY <1>3, <1>4 DEF FilesInv
<1> QED BY <1>1, <1>3, <1>5, WindowGoes

LEMMA EnterFolderKeeps ==
  ASSUME FilesInv, NEW w \in Windows, NEW e \in disk[w].entries, EnterFolder(w, e)
  PROVE  FilesInv'
<1>1. tree' = tree /\ made' = made /\ remover' = remover /\ icons' = icons /\ Display(w, e.dir, disk[w].cwd)
      /\ e.dir # NoDir
  BY DoNothing DEF EnterFolder
<1>2. MemoOf(disk'[w], tree, made, remover, w)
  <2>1. disk'[w].cwd = e.dir /\ disk'[w].parent = disk[w].cwd /\ disk'[w].entries = Shown(tree, e.dir)
    BY <1>1, DisplayIs
  <2>2. MemoOf(disk[w], tree, made, remover, w)
    BY DEF FilesInv
  <2>3. /\ e.dir \in 1 .. made /\ (e.dir \in Live(tree) \/ remover[e.dir] # w) /\ e.dir # Root
        /\ (e.dir \in Live(tree) => Edge(tree, disk[w].cwd, e.dir))
    BY <1>1, <2>2 DEF MemoOf, Remembered
  <2>4. disk[w].cwd \in 1 .. made /\ (disk[w].cwd \in Live(tree) \/ remover[disk[w].cwd] # w)
    BY <2>2 DEF MemoOf, Remembered
  <2> QED BY <2>1, <2>3, <2>4, LiveDirs, MemoGoes
<1>3. \A v \in Windows : MemoOf(disk'[v], tree, made, remover, v)
  BY <1>1, <1>2, DisplayIs DEF FilesInv
<1> QED BY <1>1, <1>3, DisplayIs, WindowGoes

LEMMA DiskUpKeeps ==
  ASSUME FilesInv, NEW w \in Windows, DiskUp(w)
  PROVE  FilesInv'
<1>1. PICK up : up = IF disk[w].parent = NoDir THEN Root ELSE disk[w].parent
  OBVIOUS
<1>2. tree' = tree /\ made' = made /\ remover' = remover /\ icons' = icons /\ Display(w, up, NoDir)
  BY <1>1, DoNothing DEF DiskUp
<1>3. MemoOf(disk'[w], tree, made, remover, w)
  <2>1. disk'[w].cwd = up /\ disk'[w].parent = NoDir /\ disk'[w].entries = Shown(tree, up)
    BY <1>2, DisplayIs
  <2>2. MemoOf(disk[w], tree, made, remover, w)
    BY DEF FilesInv
  <2>3. disk[w].parent # NoDir =>
          disk[w].parent \in 1 .. made /\ (disk[w].parent \in Live(tree) \/ remover[disk[w].parent] # w)
    BY <2>2 DEF MemoOf, Remembered
  <2>4. up \in 1 .. made /\ (up \in Live(tree) \/ remover[up] # w)
    BY <1>1, <2>3, LiveDirs
  <2> QED BY <2>1, <2>4, LiveDirs, MemoGoes
<1>4. \A v \in Windows : MemoOf(disk'[v], tree, made, remover, v)
  BY <1>2, <1>3, DisplayIs DEF FilesInv
<1> QED BY <1>2, <1>4, DisplayIs, WindowGoes

LEMMA OpenFolderShows ==
  ASSUME NEW d, OpenFolder(d)
  PROVE  /\ disk' = [w \in Windows |-> disk'[w]]
         /\ \A w \in Windows : disk'[w] \in {Showing(tree, d, NoDir), Showing(tree, Root, NoDir), disk[w]}
<1>1. \E new, top : disk' = [w \in Windows |->
                             IF w = top THEN Showing(tree, d, NoDir)
                             ELSE IF w \in new THEN Showing(tree, Root, NoDir) ELSE disk[w]]
  BY DEF OpenFolder
<1> QED BY <1>1

\* open_disk_at_cluster may send a window to a folder that only the icons remember.
LEMMA OpenFolderKeeps ==
  ASSUME FilesInv, NEW e \in icons.entries, e.dir # NoDir, OpenFolder(e.dir)
  PROVE  FilesInv'
<1>1. PICK there : there = Showing(tree, e.dir, NoDir)
  OBVIOUS
<1>2. PICK root : root = Showing(tree, Root, NoDir)
  OBVIOUS
<1>3. tree' = tree /\ made' = made /\ remover' = remover /\ icons' = icons
  BY DoNothing DEF OpenFolder
<1>4. disk' = [w \in Windows |-> disk'[w]] /\ \A w \in Windows : disk'[w] \in {there, root, disk[w]}
  BY <1>1, <1>2, OpenFolderShows
<1>5. ASSUME NEW w \in Windows PROVE MemoOf(there, tree, made, remover, w)
  <2>1. e.dir \in {icons.folder} \cup {x.dir : x \in icons.entries}
    OBVIOUS
  <2>2. e.dir \in 1 .. made /\ (e.dir \in Live(tree) \/ remover[e.dir] = "terminal")
    BY <2>1 DEF FilesInv, IconMemo
  <2>3. w # "terminal"
    BY FilesAssumption
  <2>4. there.cwd = e.dir /\ there.parent = NoDir /\ there.entries = Shown(tree, e.dir)
    BY <1>1 DEF Showing
  <2> QED BY <2>2, <2>3, <2>4, LiveDirs, MemoGoes
<1>6. ASSUME NEW w \in Windows PROVE MemoOf(root, tree, made, remover, w)
  <2>1. root.cwd = Root /\ root.parent = NoDir /\ root.entries = Shown(tree, Root)
    BY <1>2 DEF Showing
  <2> QED BY <2>1, LiveDirs, MemoGoes
<1>7. \A w \in Windows : MemoOf(disk'[w], tree, made, remover, w)
  BY <1>4, <1>5, <1>6 DEF FilesInv
<1> QED BY <1>3, <1>4, <1>7, WindowGoes


LEMMA DirInv ==
  ASSUME FilesInv, NEW w \in Windows
  PROVE  disk[w].cwd \in Dirs /\ disk[w].cwd \in 1 .. made
<1>1. disk[w].cwd \in {NoDir} \cup (1 .. made) /\ disk[w].cwd # NoDir
  BY DEF FilesInv, MemoOf, Remembered
<1> QED BY <1>1, LiveDirs

\* A command of a window that makes directories or none.
LEMMA WindowGrows ==
  ASSUME FilesInv, NEW w \in Windows, NEW dirs, NEW u, Do(w, dirs, u), Grows(tree, u, made),
         Refresh(w), icons' = IconsOf(tree') \/ icons' = icons
  PROVE  FilesInv'
<1>1. Turn(tree, tree', made, made', remover, remover', w) /\ Grows(tree, tree', made)
  BY DoGrows
<1> QED BY <1>1, WindowRefreshed

LEMMA DiskDeleteKeeps ==
  ASSUME FilesInv, NEW w \in Windows, NEW e \in disk[w].entries, DiskDelete(w, e)
  PROVE  FilesInv'
<1>1. PICK cwd : cwd = disk[w].cwd
  OBVIOUS
<1>2. PICK u : u = IF e.dir # NoDir THEN Rmdir(tree, cwd, e.name) ELSE Unlink(tree, cwd, e.name)
  OBVIOUS
<1>3. Do(w, {cwd}, u) /\ Refresh(w) /\ icons' = IconsOf(tree')
  BY <1>1, <1>2 DEF DiskDelete, Rebuild
<1>4. cwd \in Dirs /\ Tidy(tree, made)
  BY <1>1, DirInv, LiveDirs
<1>5. CASE u = tree \/ e.dir = NoDir
  <2>1. Grows(tree, u, made)
    BY <1>2, <1>4, <1>5, UnlinkSame, GrowsSame, GrowsNot
  <2> QED BY <1>3, <2>1, WindowGrows
<1>6. CASE u # tree /\ e.dir # NoDir
  <2>1. \E x : Shrinks(tree, u, made, cwd, x)
    BY <1>2, <1>4, <1>6, RmdirShrinks
  <2>2. Turn(tree, tree', made, made', remover, remover', w)
    BY <1>3, <1>4, <2>1, DoTurn
  <2>3. tree' = tree \/ ({cwd} \subseteq Live(tree) /\ tree' = u)
    BY <1>3, <1>4, <2>1, DoTurn
  <2>4. CASE tree' = tree
    <3>1. Grows(tree, tree', made)
      BY <1>4, <2>4, GrowsNot
    <3> QED BY <1>3, <2>2, <3>1, WindowRefreshed
  <2>5. CASE {cwd} \subseteq Live(tree) /\ tree' = u
    <3>1. disk[w].cwd \in Live(tree) /\ \E x : Shrinks(tree, tree', made, disk[w].cwd, x)
      BY <1>1, <2>1, <2>5
    <3> QED BY <1>3, <2>2, <3>1, WindowRefreshed
  <2> QED BY <2>3, <2>4, <2>5
<1> QED BY <1>5, <1>6

LEMMA DiskNewFolderKeeps ==
  ASSUME FilesInv, NEW w \in Windows, DiskNewFolder(w)
  PROVE  FilesInv'
<1>1. PICK u : u = Mkdir(tree, disk[w].cwd, NewName(disk[w].entries))
  OBVIOUS
<1>2. Do(w, {disk[w].cwd}, u) /\ Refresh(w) /\ (icons' = IconsOf(tree') \/ icons' = icons)
  BY <1>1 DEF DiskNewFolder, Rebuild
<1>3. Grows(tree, u, made)
  BY <1>1, DirInv, LiveDirs, MkdirGrows
<1> QED BY <1>2, <1>3, WindowGrows

LEMMA DiskCutKeeps ==
  ASSUME FilesInv, NEW w \in Windows, NEW e \in disk[w].entries, DiskCut(w, e)
  PROVE  FilesInv'
<1>1. PICK u : u = Unlink(tree, disk[w].cwd, e.name)
  OBVIOUS
<1>2. Do(w, {disk[w].cwd}, u) /\ Refresh(w) /\ icons' = IconsOf(tree')
  BY <1>1 DEF DiskCut, Rebuild
<1>3. Grows(tree, u, made)
  BY <1>1, DirInv, LiveDirs, UnlinkSame, GrowsSame
<1> QED BY <1>2, <1>3, WindowGrows

LEMMA DiskPasteKeeps ==
  ASSUME FilesInv, NEW w \in Windows, DiskPaste(w)
  PROVE  FilesInv'
<1>1. PICK u : u = Copy(tree, diskClip.dir, diskClip.name, disk[w].cwd, diskClip.name)
  OBVIOUS
<1>2. Do(w, {diskClip.dir, disk[w].cwd}, u) /\ Refresh(w) /\ icons' = IconsOf(tree')
  BY <1>1 DEF DiskPaste, Rebuild
<1>3. Grows(tree, u, made)
  BY <1>1, DirInv, LiveDirs, CopySame, GrowsSame
<1> QED BY <1>2, <1>3, WindowGrows

LEMMA DiskEraseKeeps ==
  ASSUME FilesInv, NEW w \in Windows, DiskErase(w)
  PROVE  FilesInv'
<1>1. PICK u : u = UnlinkAll(tree, Root)
  OBVIOUS
<1>2. Do(w, {Root, disk[w].cwd}, u) /\ Refresh(w) /\ icons' = IconsOf(tree')
  BY <1>1 DEF DiskErase, Rebuild
<1>3. Grows(tree, u, made)
  BY <1>1, LiveDirs, UnlinkAllSame, GrowsSame
<1> QED BY <1>2, <1>3, WindowGrows

LEMMA DiskCleanUpKeeps ==
  ASSUME FilesInv, NEW w \in Windows, DiskCleanUp(w)
  PROVE  FilesInv'
<1>1. Do(w, {disk[w].cwd}, tree) /\ Refresh(w) /\ icons' = icons
  BY DEF DiskCleanUp
<1>2. Grows(tree, tree, made)
  BY LiveDirs, GrowsNot
<1> QED BY <1>1, <1>2, WindowGrows

\* A command that leaves the windows alone and makes directories or none.
LEMMA OthersGrow ==
  ASSUME FilesInv, NEW a, NEW dirs, NEW u, Do(a, dirs, u), dirs \subseteq Live(tree) => Grows(tree, u, made),
         UNCHANGED disk, icons' = icons \/ icons' = IconsOf(tree')
  PROVE  FilesInv'
<1>1. Turn(tree, tree', made, made', remover, remover', a) /\ Grows(tree, tree', made)
  BY DoGrows
<1> QED BY <1>1, WindowsStay

LEMMA DiskSetStartupKeeps ==
  ASSUME FilesInv, NEW w \in Windows, DiskSetStartup(w)
  PROVE  FilesInv'
<1>1. PICK u : u = WriteNew(tree, Root, "STARTAPP", Startup)
  OBVIOUS
<1>2. Do(w, {Root}, u) /\ UNCHANGED disk /\ icons' = icons
  BY <1>1 DEF DiskSetStartup
<1>3. Grows(tree, u, made)
  BY <1>1, LiveDirs, WriteNewSame, GrowsSame
<1> QED BY <1>2, <1>3, OthersGrow

\* What says nothing of the volume, nor of what is shown of it.
LEMMA NothingKeeps ==
  ASSUME FilesInv, UNCHANGED <<tree, disk, icons, made, remover>>
  PROVE  FilesInv'
BY DEF FilesInv

LEMMA DeskFolderIs ==
  ASSUME FilesInv
  PROVE  DeskFolder \in Dirs /\ (icons.folder # NoDir => icons.folder \in Dirs)
<1>1. icons.folder \in {NoDir} \cup (1 .. made)
  BY DEF FilesInv, IconMemo
<1> QED BY <1>1, LiveDirs DEF DeskFolder

LEMMA DeskNewFolderKeeps ==
  ASSUME FilesInv, DeskNewFolder
  PROVE  FilesInv'
<1>1. PICK u : u = Mkdir(tree, DeskFolder, NewName(Shown(tree, DeskFolder)))
  OBVIOUS
<1>2. Do("desktop", {DeskFolder}, u) /\ UNCHANGED disk /\ icons' = IconsOf(tree')
  BY <1>1 DEF DeskNewFolder, Rebuild
<1>3. Grows(tree, u, made)
  BY <1>1, DeskFolderIs, LiveDirs, MkdirGrows
<1> QED BY <1>2, <1>3, OthersGrow

\* A copy, if it can be made, and the removal of what was copied.
LEMMA MoveSame ==
  ASSUME NEW t, NEW m, Tidy(t, m), NEW d \in Dirs, NEW name, NEW td, NEW tname, CanCopy(t, d, name) => td \in Dirs
  PROVE  Same(t, Unlink(Copy(t, d, name, td, tname), d, name), m)
<1>1. PICK u : u = Copy(t, d, name, td, tname)
  OBVIOUS
<1>2. Same(t, u, m)
  BY <1>1, CopySame
<1>3. Same(u, Unlink(u, d, name), m)
  <2>1. Tidy(u, m)
    BY <1>2 DEF Same
  <2> QED BY <2>1, UnlinkSame
<1> QED BY <1>1, <1>2, <1>3, SameSame

LEMMA DeskRenameKeeps ==
  ASSUME FilesInv, NEW e, DeskRename(e)
  PROVE  FilesInv'
<1>1. PICK dir : dir = icons.folder
  OBVIOUS
<1>2. PICK new : new = FirstFree(RenNames, Shown(tree, dir))
  OBVIOUS
<1>3. PICK can \in BOOLEAN : can = (new # NoName /\ CanCopy(tree, dir, e.name))
  OBVIOUS
<1>4. PICK u : u = IF can THEN Unlink(Copy(tree, dir, e.name, dir, new), dir, e.name) ELSE tree
  OBVIOUS
<1>5. Do("desktop", {dir}, u) /\ UNCHANGED disk /\ (icons' = icons \/ icons' = IconsOf(tree'))
  BY <1>1, <1>2, <1>3, <1>4 DEF DeskRename
<1>6. ASSUME {dir} \subseteq Live(tree) PROVE Grows(tree, u, made)
  BY <1>4, <1>6, LiveDirs, MoveSame, GrowsSame, GrowsNot
<1> QED BY <1>5, <1>6, OthersGrow

LEMMA DeskDuplicateKeeps ==
  ASSUME FilesInv, NEW e, DeskDuplicate(e)
  PROVE  FilesInv'
<1>1. PICK new : new = FirstFree(DupNames, Shown(tree, DeskFolder))
  OBVIOUS
<1>2. PICK u : u = IF new = NoName THEN tree ELSE Copy(tree, icons.folder, e.name, DeskFolder, new)
  OBVIOUS
<1>3. Do("desktop", {icons.folder}, u) /\ UNCHANGED disk /\ (icons' = icons \/ icons' = IconsOf(tree'))
  BY <1>1, <1>2 DEF DeskDuplicate
<1>4. Grows(tree, u, made)
  BY <1>2, DeskFolderIs, LiveDirs, CopySame, GrowsSame, GrowsNot
<1> QED BY <1>3, <1>4, OthersGrow

LEMMA DeskPasteKeeps ==
  ASSUME FilesInv, DeskPaste
  PROVE  FilesInv'
<1>1. PICK src : src = deskClip.dir
  OBVIOUS
<1>2. PICK t : t = Copy(tree, src, deskClip.name, DeskFolder, deskClip.name)
  OBVIOUS
<1>3. PICK u : u = IF deskClip.move /\ src # DeskFolder THEN Unlink(t, src, deskClip.name) ELSE t
  OBVIOUS
<1>4. PICK dirs : dirs = {src} \cup IF CanCopy(tree, src, deskClip.name) THEN {DeskFolder} ELSE {}
  OBVIOUS
<1>5. Do("desktop", dirs, u) /\ UNCHANGED disk /\ icons' = IconsOf(tree')
  BY <1>1, <1>2, <1>3, <1>4 DEF DeskPaste, Rebuild
<1>6. ASSUME dirs \subseteq Live(tree) PROVE Grows(tree, u, made)
  <2>1. src \in Dirs
    BY <1>4, <1>6, LiveDirs
  <2>2. Same(tree, t, made) /\ Same(tree, Unlink(t, src, deskClip.name), made)
    BY <1>2, <2>1, DeskFolderIs, LiveDirs, CopySame, MoveSame
  <2> QED BY <1>3, <2>2, GrowsSame
<1> QED BY <1>5, <1>6, OthersGrow

LEMMA DeskEraseKeeps ==
  ASSUME FilesInv, DeskErase
  PROVE  FilesInv'
<1>1. PICK u : u = UnlinkAll(tree, Root)
  OBVIOUS
<1>2. Do("desktop", {Root}, u) /\ UNCHANGED disk /\ icons' = IconsOf(tree')
  BY <1>1 DEF DeskErase, Rebuild
<1>3. Grows(tree, u, made)
  BY <1>1, LiveDirs, UnlinkAllSame, GrowsSame
<1> QED BY <1>2, <1>3, OthersGrow

LEMMA DeskSetStartupKeeps ==
  ASSUME FilesInv, DeskSetStartup
  PROVE  FilesInv'
<1>1. PICK u : u = WriteNew(tree, Root, "STARTAPP", Startup)
  OBVIOUS
<1>2. Do("desktop", {Root}, u) /\ UNCHANGED disk /\ icons' = IconsOf(tree')
  BY <1>1 DEF DeskSetStartup, Rebuild
<1>3. Grows(tree, u, made)
  BY <1>1, LiveDirs, WriteNewSame, GrowsSame
<1> QED BY <1>2, <1>3, OthersGrow

LEMMA DeskTrashKeeps ==
  ASSUME FilesInv, NEW e, DeskTrash(e)
  PROVE  FilesInv'
<1>1. PICK u : u = TrashMove(tree, icons.folder, e.name)
  OBVIOUS
<1>2. Do("desktop", {Root, icons.folder}, u) /\ UNCHANGED disk /\ icons' = IconsOf(tree')
  BY <1>1 DEF DeskTrash, Rebuild
<1>3. ASSUME {Root, icons.folder} \subseteq Live(tree) PROVE Grows(tree, u, made)
  BY <1>1, <1>3, LiveDirs, TrashMoveGrows
<1> QED BY <1>2, <1>3, OthersGrow

LEMMA TrashOpenKeeps ==
  ASSUME FilesInv, TrashOpen
  PROVE  FilesInv'
<1>1. PICK got : got = TrashDir(tree)
  OBVIOUS
<1>2. Do("desktop", {Root}, got.tree) /\ UNCHANGED disk /\ icons' = icons
  BY <1>1 DEF TrashOpen
<1>3. Grows(tree, got.tree, made)
  BY <1>1, LiveDirs, TrashDirIs
<1> QED BY <1>2, <1>3, OthersGrow

LEMMA TrashRestoreKeeps ==
  ASSUME FilesInv, NEW i, TrashRestore(i)
  PROVE  FilesInv'
<1>1. PICK got : got = TrashDir(tree)
  OBVIOUS
<1>2. PICK name : name = bin.list[i].name
  OBVIOUS
<1>3. PICK to : to = bin.list[i].origin
  OBVIOUS
<1>4. PICK can \in BOOLEAN : can = (got.dir # NoDir /\ CanCopy(got.tree, got.dir, name))
  OBVIOUS
<1>5. PICK u : u = IF can THEN Unlink(Copy(got.tree, got.dir, name, to, name), got.dir, name) ELSE got.tree
  OBVIOUS
<1>6. PICK dirs : dirs = {Root} \cup IF can THEN {to} ELSE {}
  OBVIOUS
<1>7. Do("desktop", dirs, u) /\ UNCHANGED disk /\ (icons' = icons \/ icons' = IconsOf(tree'))
  BY <1>1, <1>2, <1>3, <1>4, <1>5, <1>6 DEF TrashRestore, Rebuild
<1>8. Grows(tree, got.tree, made) /\ (got.dir # NoDir => got.dir \in Dirs)
  BY <1>1, LiveDirs, TrashDirIs
<1>9. ASSUME dirs \subseteq Live(tree) PROVE Grows(tree, u, made)
  <2>1. CASE can
    <3>1. got.dir \in Dirs /\ to \in Dirs
      BY <1>4, <1>6, <1>8, <1>9, <2>1, LiveDirs
    <3>2. u = Unlink(Copy(got.tree, got.dir, name, to, name), got.dir, name)
      BY <1>5, <2>1
    <3>3. \A n : Tidy(got.tree, n) => Same(got.tree, u, n)
      BY <3>1, <3>2, MoveSame
    <3> QED BY <1>8, <3>3, GrowsOn
  <2>2. CASE ~can
    BY <1>5, <1>8, <2>2
  <2> QED BY <1>4, <2>1, <2>2
<1> QED BY <1>7, <1>9, OthersGrow

LEMMA TrashEmptyKeeps ==
  ASSUME FilesInv, TrashEmpty
  PROVE  FilesInv'
<1>1. PICK got : got = TrashDir(tree)
  OBVIOUS
<1>2. PICK u : u = IF got.dir = NoDir THEN got.tree ELSE UnlinkAll(got.tree, got.dir)
  OBVIOUS
<1>3. Do("desktop", {Root}, u) /\ UNCHANGED disk /\ icons' = icons
  BY <1>1, <1>2 DEF TrashEmpty
<1>4. Grows(tree, got.tree, made) /\ (got.dir # NoDir => got.dir \in Dirs)
  BY <1>1, LiveDirs, TrashDirIs
<1>5. Grows(tree, u, made)
  <2>1. CASE got.dir = NoDir
    BY <1>2, <1>4, <2>1
  <2>2. CASE got.dir # NoDir
    <3>1. \A n : Tidy(got.tree, n) => Same(got.tree, u, n)
      BY <1>2, <1>4, <2>2, UnlinkAllSame
    <3> QED BY <1>4, <3>1, GrowsOn
  <2> QED BY <2>1, <2>2
<1> QED BY <1>3, <1>5, OthersGrow

\* The Terminal removes directories that the windows and the icons remember.
LEMMA TerminalKeeps ==
  ASSUME FilesInv, NEW u, Terminal(u), Grows(tree, u, made) \/ \E d, x : Shrinks(tree, u, made, d, x)
  PROVE  FilesInv'
<1>1. Do("terminal", {Root}, u) /\ UNCHANGED disk /\ icons' = icons
  BY DEF Terminal
<1>2. Turn(tree, tree', made, made', remover, remover', "terminal")
  BY <1>1, LiveDirs, DoTurn
<1> QED BY <1>1, <1>2, WindowsStay

LEMMA TerminalCommandKeeps ==
  ASSUME FilesInv, TerminalCommand
  PROVE  FilesInv'
<1>1. PICK name \in Typed : TerminalMkdir(name) \/ TerminalRm(name) \/ TerminalRmdir(name)
  BY DEF TerminalCommand
<1>2. Root \in Dirs /\ Tidy(tree, made)
  BY LiveDirs
<1>3. CASE TerminalMkdir(name)
  BY <1>2, <1>3, MkdirGrows, TerminalKeeps DEF TerminalMkdir
<1>4. CASE TerminalRm(name)
  BY <1>2, <1>4, UnlinkSame, GrowsSame, TerminalKeeps DEF TerminalRm
<1>5. CASE TerminalRmdir(name)
  <2>1. Rmdir(tree, Root, name) = tree \/ \E x : Shrinks(tree, Rmdir(tree, Root, name), made, Root, x)
    BY <1>2, RmdirShrinks
  <2>2. Grows(tree, tree, made)
    BY <1>2, GrowsNot
  <2>3. PICK u : u = Rmdir(tree, Root, name)
    OBVIOUS
  <2>4. Grows(tree, u, made) \/ \E d, x : Shrinks(tree, u, made, d, x)
    BY <2>1, <2>2, <2>3
  <2>5. Terminal(u)
    BY <1>5, <2>3 DEF TerminalRmdir
  <2> QED BY <2>4, <2>5, TerminalKeeps
<1> QED BY <1>1, <1>3, <1>4, <1>5

LEMMA DiskCommandKeeps ==
  ASSUME FilesInv, NEW w \in Windows, DiskCommand(w)
  PROVE  FilesInv'
<1>1. CASE DiskStart(w) \/ DiskClose(w) \/ DiskUp(w) \/ DiskNewFolder(w) \/ DiskPaste(w) \/ DiskErase(w)
           \/ DiskSetStartup(w) \/ DiskCleanUp(w)
  BY <1>1, DiskStartKeeps, DiskCloseKeeps, DiskUpKeeps, DiskNewFolderKeeps, DiskPasteKeeps,
     DiskEraseKeeps, DiskSetStartupKeeps, DiskCleanUpKeeps
<1>2. ASSUME NEW e \in disk[w].entries, EnterFolder(w, e) \/ DiskDelete(w, e) \/ DiskCopy(w, e) \/ DiskCut(w, e)
      PROVE  FilesInv'
  <2>1. CASE DiskCopy(w, e)
    BY <2>1, NothingKeeps DEF DiskCopy
  <2> QED BY <1>2, <2>1, EnterFolderKeeps, DiskDeleteKeeps, DiskCutKeeps
<1> QED BY <1>1, <1>2 DEF DiskCommand

LEMMA DeskCommandKeeps ==
  ASSUME FilesInv, DeskCommand
  PROVE  FilesInv'
<1>1. CASE DeskOpen
  <2>1. PICK e \in icons.entries \ FileIcons : OpenFolder(e.dir)
    BY <1>1 DEF DeskOpen
  <2>2. e \in icons.entries /\ e.dir # NoDir
    BY <2>1 DEF FileIcons
  <2> QED BY <2>1, <2>2, OpenFolderKeeps
<1>2. CASE DeskNewFolder \/ DeskPaste \/ DeskErase \/ DeskSetStartup
  BY <1>2, DeskNewFolderKeeps, DeskPasteKeeps, DeskEraseKeeps, DeskSetStartupKeeps
<1>3. ASSUME NEW e, NEW move, DeskClip(e, move) PROVE FilesInv'
  BY <1>3, NothingKeeps DEF DeskClip
<1>4. ASSUME NEW e, DeskRename(e) \/ DeskDuplicate(e) \/ DeskTrash(e) PROVE FilesInv'
  BY <1>4, DeskRenameKeeps, DeskDuplicateKeeps, DeskTrashKeeps
<1> QED BY <1>1, <1>2, <1>3, <1>4 DEF DeskCommand

LEMMA TrashCommandKeeps ==
  ASSUME FilesInv, TrashCommand
  PROVE  FilesInv'
<1>1. CASE TrashClose
  BY <1>1, NothingKeeps DEF TrashClose
<1> QED BY <1>1, TrashOpenKeeps, TrashEmptyKeeps, TrashRestoreKeeps DEF TrashCommand

LEMMA FilesNextKeeps ==
  ASSUME FilesInv, [FilesNext]_fileVars
  PROVE  FilesInv'
<1>1. CASE UNCHANGED fileVars
  BY <1>1, NothingKeeps DEF fileVars
<1> QED BY <1>1, DiskCommandKeeps, DeskCommandKeeps, TrashCommandKeeps, TerminalCommandKeeps DEF FilesNext

----------------------------------------------------------------------------
(* What fs_init and the user leave at the start. *)

LEMMA SeqOfIs ==
  ASSUME NEW S, IsFiniteSet(S)
  PROVE  SetToSeq(S) \in Seq(S)
<1>1. PICK n : n = Cardinality(S)
  OBVIOUS
<1>2. n \in Nat /\ ExistsBijection(1 .. n, S)
  BY <1>1, FS_CardinalityType
<1>3. PICK f \in [1 .. n -> S] : IsInjective(f)
  <2>1. PICK f \in Bijection(1 .. n, S) : TRUE
    BY <1>2 DEF ExistsBijection
  <2>2. f \in [1 .. n -> S] /\ \A a, b \in 1 .. n : f[a] = f[b] => a = b
    BY <2>1 DEF Bijection, Injection, IsInjective
  <2> QED BY <2>2 DEF IsInjective
<1>4. SetToSeq(S) \in [1 .. n -> S]
  <2>1. SetToSeq(S) = CHOOSE g \in [1 .. n -> S] : IsInjective(g)
    BY <1>1 DEF SetToSeq
  <2> QED BY <1>3, <2>1, Zenon
<1> QED BY <1>2, <1>4, IsASeq

LEMMA BehindTwo ==
  ASSUME NEW C, NEW x \in C, NEW y \in C, NEW s \in Seq(C), NEW r, r = <<x, y>> \o s
  PROVE  /\ r \in Seq(C) /\ Len(s) \in Nat /\ DOMAIN r = 1 .. 2 + Len(s)
         /\ \A i \in DOMAIN r : r[i] = IF i = 1 THEN x ELSE IF i = 2 THEN y ELSE s[i - 2]
<1>1. PICK two : two = <<x, y>>
  OBVIOUS
<1>2. two \in Seq(C) /\ Len(two) = 2 /\ two[1] = x /\ two[2] = y
  BY <1>1
<1>3. r = two \o s
  BY <1>1
<1>4. r \in Seq(C) /\ Len(r) = 2 + Len(s) /\ Len(s) \in Nat
  BY <1>2, <1>3
<1>5. DOMAIN r = 1 .. 2 + Len(s)
  BY <1>4
<1>6. ASSUME NEW i \in 1 .. 2 + Len(s) PROVE r[i] = IF i <= 2 THEN two[i] ELSE s[i - 2]
  BY <1>2, <1>3, <1>4
<1>7. ASSUME NEW i \in DOMAIN r PROVE r[i] = IF i = 1 THEN x ELSE IF i = 2 THEN y ELSE s[i - 2]
  <2>1. i \in 1 .. 2 + Len(s) /\ i \in Nat /\ i >= 1
    BY <1>4, <1>5
  <2>2. CASE i <= 2
    <3>1. i = 1 \/ i = 2
      BY <2>1, <2>2
    <3> QED BY <1>2, <1>6, <2>1, <3>1
  <2>3. CASE ~(i <= 2)
    BY <1>6, <2>1, <2>3
  <2> QED BY <2>2, <2>3
<1> QED BY <1>4, <1>5, <1>7

LEMMA FilesStart ==
  ASSUME FilesInit
  PROVE  FilesInv
<1>1. PICK texts, place, name : texts \subseteq Texts /\ tree = Planted(texts, place, name)
  BY DEF FilesInit
<1>3. PICK F : F = [d \in Dirs |-> {Entry(name[x], NoDir, x) : x \in {y \in texts : place[y] = d}}]
  OBVIOUS
<1>4. PICK E : E = {Entry(name[x], NoDir, x) : x \in texts}
  OBVIOUS
<1>5. ASSUME NEW d \in Dirs PROVE SetToSeq(F[d]) \in Seq(E)
  <2>1. PICK S : S = {y \in texts : place[y] = d}
    OBVIOUS
  <2>2. IsFiniteSet(S)
    BY <1>1, <2>1, FS_Subset, FilesAssumption
  <2>3. PICK T : T = {Entry(name[x], NoDir, x) : x \in S}
    OBVIOUS
  <2>4. F[d] = T /\ T \subseteq E
    BY <1>3, <1>4, <2>1, <2>3
  <2>5. IsFiniteSet(T)
    <3>1. PICK f : f = [x \in S |-> Entry(name[x], NoDir, x)]
      OBVIOUS
    <3>2. f \in [S -> T] /\ \A y \in T : \E x \in S : f[x] = y
      BY <2>3, <3>1
    <3>3. f \in Surjection(S, T)
      BY <3>2 DEF Surjection
    <3> QED BY <2>2, <3>3, FS_Surjection
  <2>6. SetToSeq(T) \in Seq(T)
    BY <2>5, SeqOfIs
  <2> QED BY <2>4, <2>6
<1>6. tree = [d \in Dirs |-> IF d = Root THEN Folders \o SetToSeq(F[d])
                             ELSE IF d <= 3 THEN SetToSeq(F[d]) ELSE <<>>]
  BY <1>1, <1>3 DEF Planted, Filed
<1>7. PICK T : T = Entry("DESKTOP", 2, NoText)
  OBVIOUS
<1>8. PICK U : U = Entry(Head(NewNames), 3, NoText)
  OBVIOUS
<1>9. Folders = <<T, U>> /\ T.dir = 2 /\ U.dir = 3 /\ T.text = NoText /\ U.text = NoText
  BY <1>7, <1>8 DEF Entry, Folders
<1>10. PICK C : C = E \cup {T, U}
  OBVIOUS
<1>12. \A d \in Dirs : SetToSeq(F[d]) \in Seq(C)
  BY <1>5, <1>10
<1>13. \A d \in Dirs : tree[d] \in Seq(C)
  <2>1. <<>> \in Seq(C)
    OBVIOUS
  <2>2. \A d \in Dirs : Folders \o SetToSeq(F[d]) \in Seq(C)
    BY <1>9, <1>10, <1>12, BehindTwo
  <2> QED BY <1>6, <1>12, <2>1, <2>2
<1>14. Shape(tree)
  <2>1. tree \in [Dirs -> Seq(C)]
    BY <1>6, <1>13
  <2> QED BY <2>1, ShapeIs
<1>15. \A e \in E : e.dir = NoDir
  BY <1>4 DEF Entry
<1>16. ASSUME NEW d \in Dirs, NEW i \in DOMAIN tree[d], tree[d][i].dir # NoDir
       PROVE  d = Root /\ i \in {1, 2} /\ tree[d][i] = IF i = 1 THEN T ELSE U
  <2>1. PICK s : s = SetToSeq(F[d])
    OBVIOUS
  <2>2. s \in Seq(E) /\ Len(s) \in Nat /\ \A j \in 1 .. Len(s) : s[j].dir = NoDir
    BY <1>5, <1>15, <2>1
  <2>3. CASE d = Root
    <3>1. tree[d] = Folders \o s
      BY <1>6, <2>1, <2>3
    <3>2. s \in Seq(C)
      BY <1>12, <2>1
    <3>3. DOMAIN tree[d] = 1 .. 2 + Len(s) /\ tree[d][i] = IF i = 1 THEN T ELSE IF i = 2 THEN U ELSE s[i - 2]
      BY <1>9, <1>10, <3>1, <3>2, BehindTwo
    <3>4. i \in 1 .. 2 + Len(s)
      BY <3>3
    <3>5. i = 1 \/ i = 2 \/ i - 2 \in 1 .. Len(s)
      BY <2>2, <3>4
    <3>6. ~(i - 2 \in 1 .. Len(s) /\ i # 1 /\ i # 2)
      BY <1>16, <2>2, <3>3
    <3> QED BY <2>3, <3>3, <3>5, <3>6
  <2>4. CASE d # Root
    <3>1. tree[d] = s \/ tree[d] = <<>>
      BY <1>6, <2>1, <2>4
    <3>2. i \in 1 .. Len(s) /\ tree[d] = s
      BY <2>2, <3>1
    <3> QED BY <1>16, <2>2, <3>2
  <2> QED BY <2>3, <2>4
<1>17. made = 3 /\ 3 \in Dirs /\ 3 >= Root /\ Root \in Dirs
  BY FilesAssumption DEF FilesInit, Dirs, Root
<1>18. Tidy(tree, made)
  <2>1. \A d \in Dirs : \A i \in DOMAIN tree[d] :
          tree[d][i].dir \in {NoDir} \cup (2 .. 3) /\ (tree[d][i].dir # NoDir => tree[d][i].text = NoText)
    BY <1>9, <1>16
  <2>2. ASSUME NEW d \in Dirs, NEW c \in Dirs, NEW i \in DOMAIN tree[d], NEW j \in DOMAIN tree[c],
               tree[d][i].dir # NoDir, tree[d][i].dir = tree[c][j].dir
        PROVE  d = c /\ i = j
    <3>1. d = Root /\ i \in {1, 2} /\ tree[d][i] = IF i = 1 THEN T ELSE U
      BY <1>16, <2>2
    <3>2. c = Root /\ j \in {1, 2} /\ tree[c][j] = IF j = 1 THEN T ELSE U
      BY <1>16, <2>2
    <3> QED BY <1>9, <2>2, <3>1, <3>2
  <2> QED BY <1>14, <1>17, <2>1, <2>2 DEF Tidy
<1>19. IconMemo(icons, tree, made, remover)
  BY <1>18, IconsFresh DEF FilesInit
<1>20. ASSUME NEW w \in Windows PROVE MemoOf(Shut, tree, made, remover, w)
  <2>1. Shut.cwd = Root /\ Shut.parent = NoDir /\ Shut.entries = {}
    BY DEF Shut
  <2>2. Root # NoDir /\ Root \in 1 .. made /\ Root \in Live(tree)
    BY <1>17, LiveIs DEF Root, NoDir
  <2> QED BY <2>1, <2>2 DEF MemoOf, Remembered
<1>21. disk = [w \in Windows |-> Shut]
  BY DEF FilesInit
<1> QED BY <1>18, <1>19, <1>20, <1>21 DEF FilesInv

LEMMA FilesInvNever ==
  ASSUME FilesInv
  PROVE  NoOwnStale
<1>1. ASSUME NEW w \in Windows, NEW d \in Removed({disk[w].cwd, disk[w].parent} \cup DirsOf(disk[w].entries))
      PROVE  remover[d] # w
  <2>1. d \in Remembered(disk[w]) /\ d \notin Live(tree) /\ d # NoDir
    BY <1>1 DEF Removed, DirsOf, Remembered
  <2> QED BY <2>1 DEF FilesInv, MemoOf
<1>2. ASSUME NEW d \in Removed({icons.folder} \cup DirsOf(icons.entries))
      PROVE  remover[d] = "terminal"
  <2>1. d \in {icons.folder} \cup {e.dir : e \in icons.entries} /\ d \notin Live(tree) /\ d # NoDir
    BY <1>2 DEF Removed, DirsOf
  <2> QED BY <2>1 DEF FilesInv, IconMemo
<1> QED BY <1>1, <1>2 DEF NoOwnStale

(* For any number of windows, names, contents and clusters: what a Disk window remembers of
   directories that are gone, another has removed, and what the desktop remembers of them the
   Terminal has removed (apps/app_disk.c:67-74 and 327-337, kernel/sv_desktop.c:439-505). *)
THEOREM OwnStaleNever == FilesSpec => []NoOwnStale
<1>1. FilesInit => FilesInv
  BY FilesStart
<1>2. FilesInv /\ [FilesNext]_fileVars => FilesInv'
  BY FilesNextKeeps
<1>3. FilesInv => NoOwnStale
  BY FilesInvNever
<1> QED BY <1>1, <1>2, <1>3, PTL DEF FilesSpec

----------------------------------------------------------------------------
(* The contents. *)

Holds(t, x) == \E d \in Dirs : \E i \in DOMAIN t[d] : t[d][i].text = x
Keeps(t, u) == \A x \in Texts : Holds(t, x) => Holds(u, x)

LEMMA KeepsKept ==
  ASSUME Keeps(tree, tree')
  PROVE  Kept
<1>1. ASSUME NEW x \in Texts, NEW e \in Entries(tree), e.text = x
      PROVE  \E g \in Entries(tree') : g.text = x
  <2>1. x # NoText
    BY FilesAssumption
  <2>2. Holds(tree, x)
    BY <1>1 DEF Entries, Holds, Range
  <2>3. PICK d \in Dirs : \E i \in DOMAIN tree'[d] : tree'[d][i].text = x
    BY <2>2 DEF Keeps, Holds
  <2>4. PICK i \in DOMAIN tree'[d] : tree'[d][i].text = x
    BY <2>3
  <2>5. tree'[d][i] # Hole
    BY <2>1, <2>4, HoleIs
  <2>6. tree'[d][i] \in Entries(tree')
    BY <2>3, <2>5 DEF Entries, Range
  <2> QED BY <2>4, <2>6
<1> QED BY <1>1 DEF Kept

LEMMA KeepsNot == ASSUME NEW t PROVE Keeps(t, t)
BY DEF Keeps

LEMMA KeepsOn == ASSUME NEW t, NEW u, NEW v, Keeps(t, u), Keeps(u, v) PROVE Keeps(t, v)
BY DEF Keeps

LEMMA PutsKeeps ==
  ASSUME NEW t, NEW u, NEW d, NEW i, NEW e, PutsAt(t, u, d, i, e)
  PROVE  Keeps(t, u)
<1>1. /\ d \in Dirs /\ \A c \in Dirs : c # d => u[c] = t[c]
      /\ DOMAIN u[d] = DOMAIN t[d] \cup {i} /\ (i \in DOMAIN t[d] => t[d][i] = Hole)
      /\ \A j \in DOMAIN u[d] : u[d][j] = IF j = i THEN e ELSE t[d][j]
  BY DEF PutsAt
<1>2. ASSUME NEW x \in Texts, NEW c \in Dirs, NEW j \in DOMAIN t[c], t[c][j].text = x
      PROVE  j \in DOMAIN u[c] /\ u[c][j].text = x
  <2>1. t[c][j] # Hole
    BY <1>2, HoleIs, FilesAssumption
  <2> QED BY <1>1, <1>2, <2>1
<1> QED BY <1>2 DEF Keeps, Holds

LEMMA PutKeeps ==
  ASSUME NEW t, Shape(t), NEW d \in Dirs, NEW e
  PROVE  Keeps(t, Put(t, d, e))
<1>1. PICK i : PutsAt(t, Put(t, d, e), d, i, e)
  BY PutIs
<1> QED BY <1>1, PutsKeeps

LEMMA MkdirKeeps ==
  ASSUME NEW t, Shape(t), NEW d \in Dirs, NEW name
  PROVE  Keeps(t, Mkdir(t, d, name))
BY PutKeeps, KeepsNot DEF Mkdir

LEMMA WriteNewKeeps ==
  ASSUME NEW t, Shape(t), NEW d \in Dirs, NEW name, NEW text
  PROVE  Keeps(t, WriteNew(t, d, name, text))
BY PutKeeps, KeepsNot DEF WriteNew

LEMMA CopyKeeps ==
  ASSUME NEW t, Shape(t), NEW d, NEW name, NEW td, NEW tname, CanCopy(t, d, name) => td \in Dirs
  PROVE  Keeps(t, Copy(t, d, name, td, tname))
BY PutKeeps, KeepsNot DEF Copy

\* What is marked deleted is lost, unless it lies elsewhere.
LEMMA TakesKeeps ==
  ASSUME NEW t, NEW u, NEW d, NEW i, TakesAt(t, u, d, i),
         \/ t[d][i].text \notin Texts
         \/ \E c \in Dirs : \E j \in DOMAIN t[c] : (c # d \/ j # i) /\ t[c][j].text = t[d][i].text
  PROVE  Keeps(t, u)
<1>1. /\ d \in Dirs /\ \A c \in Dirs : c # d => u[c] = t[c]
      /\ i \in DOMAIN t[d] /\ DOMAIN u[d] = DOMAIN t[d]
      /\ \A j \in DOMAIN u[d] : u[d][j] = IF j = i THEN Hole ELSE t[d][j]
  BY DEF TakesAt
<1>2. ASSUME NEW c \in Dirs, NEW j \in DOMAIN t[c], c # d \/ j # i
      PROVE  j \in DOMAIN u[c] /\ u[c][j] = t[c][j]
  BY <1>1, <1>2
<1>3. ASSUME NEW x \in Texts, NEW c \in Dirs, NEW j \in DOMAIN t[c], t[c][j].text = x
      PROVE  Holds(u, x)
  <2>1. CASE c # d \/ j # i
    BY <1>2, <1>3, <2>1 DEF Holds
  <2>2. CASE c = d /\ j = i
    <3>1. PICK b \in Dirs : \E k \in DOMAIN t[b] : (b # d \/ k # i) /\ t[b][k].text = x
      BY <1>3, <2>2
    <3>2. PICK k \in DOMAIN t[b] : (b # d \/ k # i) /\ t[b][k].text = x
      BY <3>1
    <3> QED BY <1>2, <3>1, <3>2 DEF Holds
  <2> QED BY <2>1, <2>2
<1> QED BY <1>3 DEF Keeps, Holds

LEMMA RmdirKeeps ==
  ASSUME NEW t, NEW m, Tidy(t, m), NEW d \in Dirs, NEW name
  PROVE  Keeps(t, Rmdir(t, d, name))
<1>1. PICK x : x = Found(t, d, name).dir
  OBVIOUS
<1>2. SUFFICES ASSUME x # NoDir, Range(t[x]) \subseteq {Hole}
               PROVE  Keeps(t, Rmdir(t, d, name))
  BY <1>1, KeepsNot DEF Rmdir
<1>3. PICK k : k = Find(t, d, name)
  OBVIOUS
<1>4. Shape(t)
  BY DEF Tidy
<1>5. k # 0 /\ k \in DOMAIN t[d] /\ t[d][k].dir = x
  BY <1>1, <1>2, <1>3, <1>4, FindIs, HoleIs
<1>6. \A i \in DOMAIN t[x] : t[x][i] = Hole
  BY <1>2 DEF Range
<1>7. x # d
  BY <1>2, <1>5, <1>6, HoleIs
<1>8. PICK v : v = Drop(t, d, name)
  OBVIOUS
<1>9. TakesAt(t, v, d, k)
  BY <1>3, <1>4, <1>5, <1>8, DropIs
<1>10. t[d][k].text \notin Texts
  <2>1. t[d][k].text = NoText
    BY <1>2, <1>5 DEF Tidy
  <2> QED BY <2>1, FilesAssumption
<1>11. Keeps(t, v)
  BY <1>9, <1>10, TakesKeeps
<1>12. Shape(v) /\ (x \in Dirs => v[x] = t[x])
  BY <1>7, <1>9 DEF TakesAt
<1>13. PICK u : u = [v EXCEPT ![x] = <<>>]
  OBVIOUS
<1>14. Rmdir(t, d, name) = u
  BY <1>1, <1>2, <1>8, <1>13 DEF Rmdir
<1>15. \A c \in Dirs : c # x => u[c] = v[c]
  BY <1>12, <1>13 DEF Shape
<1>16. ASSUME NEW y \in Texts, NEW c \in Dirs, NEW j \in DOMAIN v[c], v[c][j].text = y
       PROVE  c # x
  <2>1. SUFFICES ASSUME c = x PROVE FALSE
    OBVIOUS
  <2>2. v[c][j] = Hole
    BY <1>6, <1>12, <1>16, <2>1
  <2> QED BY <1>16, <2>2, HoleIs, FilesAssumption
<1>17. Keeps(v, u)
  BY <1>15, <1>16 DEF Keeps, Holds
<1> QED BY <1>11, <1>14, <1>17, KeepsOn

(* A copy that can be made and the removal of the first entry of that name: if the copy has got in
   front of the original, it is the copy that goes. *)
LEMMA MoveKeeps ==
  ASSUME NEW t, Shape(t), NEW d \in Dirs, NEW name, NEW td \in Dirs, NEW tname, CanCopy(t, d, name)
  PROVE  Keeps(t, Unlink(Copy(t, d, name, td, tname), d, name))
<1>1. PICK k : k = Find(t, d, name)
  OBVIOUS
<1>2. k \in DOMAIN t[d] /\ t[d][k].name = name /\ t[d][k] # Hole /\ Found(t, d, name) = t[d][k]
      /\ \A i \in DOMAIN t[d] : t[d][i].name = name => k <= i
  BY <1>1, FindIs DEF CanCopy
<1>3. PICK e : e = Entry(tname, NoDir, Found(t, d, name).text)
  OBVIOUS
<1>4. e.text = t[d][k].text
  BY <1>2, <1>3 DEF Entry
<1>5. PICK u : u = Put(t, td, e)
  OBVIOUS
<1>6. Copy(t, d, name, td, tname) = u
  BY <1>3, <1>5 DEF Copy
<1>7. PICK i : PutsAt(t, u, td, i, e)
  BY <1>5, PutIs
<1>8. Keeps(t, u) /\ Shape(u)
  <2>1. Keeps(t, u)
    BY <1>7, PutsKeeps
  <2>2. Shape(u)
    BY <1>7 DEF PutsAt
  <2> QED BY <2>1, <2>2
<1>9. PICK v : v = Unlink(u, d, name)
  OBVIOUS
<1>10. /\ i \in DOMAIN u[td] /\ u[td][i] = e /\ (i \in DOMAIN t[td] => t[td][i] = Hole)
       /\ \A c \in Dirs : \A j \in DOMAIN t[c] : j \in DOMAIN u[c]
       /\ \A c \in Dirs : \A j \in DOMAIN u[c] : c # td \/ j # i => j \in DOMAIN t[c] /\ u[c][j] = t[c][j]
  BY <1>7 DEF PutsAt
<1>11. d # td \/ k # i
  BY <1>2, <1>10
<1>12. k \in DOMAIN u[d] /\ u[d][k] = t[d][k]
  BY <1>2, <1>10, <1>11
<1>13. PICK q : q = Find(u, d, name)
  OBVIOUS
<1>14. CASE Found(u, d, name) # Hole /\ Found(u, d, name).dir = NoDir
  <2>1. q # 0 /\ q \in DOMAIN u[d] /\ u[d][q].name = name /\ \A j \in DOMAIN u[d] : u[d][j].name = name => q <= j
    BY <1>8, <1>13, <1>14, FindIs
  <2>2. TakesAt(u, v, d, q)
    BY <1>8, <1>9, <1>13, <1>14, <2>1, DropIs DEF Unlink
  <2>3. \E c \in Dirs : \E j \in DOMAIN u[c] : (c # d \/ j # q) /\ u[c][j].text = u[d][q].text
    <3>1. CASE d = td /\ q = i
      BY <1>4, <1>10, <1>11, <1>12, <3>1
    <3>2. CASE d # td \/ q # i
      <4>1. q \in DOMAIN t[d] /\ u[d][q] = t[d][q]
        BY <1>10, <2>1, <3>2
      <4>2. k <= q /\ q <= k
        BY <1>2, <1>12, <2>1, <4>1
      <4>3. k \in Nat /\ q \in Nat
        BY <1>2, <4>1, DirIs
      <4>4. q = k
        BY <4>2, <4>3
      <4> QED BY <1>4, <1>10, <3>2, <4>1, <4>4
    <3> QED BY <3>1, <3>2
  <2>4. Keeps(u, v)
    BY <2>2, <2>3, TakesKeeps
  <2> QED BY <1>6, <1>8, <1>9, <2>4, KeepsOn
<1>15. CASE ~(Found(u, d, name) # Hole /\ Found(u, d, name).dir = NoDir)
  BY <1>6, <1>8, <1>15 DEF Unlink
<1> QED BY <1>14, <1>15

LEMMA TrashDirKeeps ==
  ASSUME NEW t, Tidy(t, made)
  PROVE  Keeps(t, TrashDir(t).tree) /\ Shape(TrashDir(t).tree)
<1>1. TrashDir(t).tree \in {t, Mkdir(t, Root, "TRASH")} /\ Grows(t, TrashDir(t).tree, made)
  BY TrashDirIs
<1>2. Root \in Dirs /\ Shape(t)
  BY FilesAssumption DEF Root, Dirs, Tidy
<1>3. Keeps(t, TrashDir(t).tree)
  BY <1>1, <1>2, MkdirKeeps, KeepsNot
<1>4. Shape(TrashDir(t).tree)
  BY <1>1 DEF Grows, Tidy
<1> QED BY <1>3, <1>4

LEMMA TrashMoveKeeps ==
  ASSUME NEW t, Tidy(t, made), NEW dir \in Dirs, NEW name
  PROVE  Keeps(t, TrashMove(t, dir, name))
<1>1. PICK got : got = TrashDir(t)
  OBVIOUS
<1>2. Keeps(t, got.tree) /\ Grows(t, got.tree, made) /\ (got.dir # NoDir => got.dir \in Dirs)
  BY <1>1, TrashDirIs, TrashDirKeeps
<1>3. CASE got.dir = NoDir \/ ~CanCopy(got.tree, dir, name)
  BY <1>1, <1>2, <1>3 DEF TrashMove
<1>4. CASE ~(got.dir = NoDir \/ ~CanCopy(got.tree, dir, name))
  <2>1. got.dir \in Dirs
    BY <1>2, <1>4
  <2>2. PICK v : v = Unlink(Copy(got.tree, dir, name, got.dir, name), dir, name)
    OBVIOUS
  <2>3. \E text : TrashMove(t, dir, name) = WriteNew(v, got.dir, "INFO", text)
    BY <1>1, <1>4, <2>2 DEF TrashMove
  <2>4. PICK n : Tidy(got.tree, n)
    BY <1>2 DEF Grows
  <2>5. Shape(got.tree) /\ Shape(v)
    BY <2>1, <2>2, <2>4, MoveSame DEF Same, Tidy
  <2>6. Keeps(got.tree, v)
    BY <1>4, <2>1, <2>2, <2>5, MoveKeeps
  <2> QED BY <1>2, <2>1, <2>3, <2>5, <2>6, WriteNewKeeps, KeepsOn
<1> QED BY <1>3, <1>4

----------------------------------------------------------------------------
(* The commands keep the contents. *)

LEMMA DoKept ==
  ASSUME NEW a, NEW dirs, NEW u, Do(a, dirs, u), dirs \subseteq Live(tree) => Keeps(tree, u)
  PROVE  Kept
<1>1. tree' = tree \/ (dirs \subseteq Live(tree) /\ tree' = u)
  BY DEF Do
<1>2. Keeps(tree, tree')
  BY <1>1, KeepsNot
<1> QED BY <1>2, KeepsKept

LEMMA NothingKept ==
  ASSUME tree' = tree
  PROVE  Kept
BY KeepsNot, KeepsKept

LEMMA ShapeInv ==
  ASSUME FilesInv
  PROVE  Shape(tree) /\ Root \in Dirs
BY LiveDirs DEF Tidy

LEMMA DiskCommandKept ==
  ASSUME FilesInv, NEW w \in Windows, DiskCommand(w)
  PROVE  Kept \/ AskedFor
<1>1. CASE DiskStart(w)
  BY <1>1, DoNothing, NothingKept DEF DiskStart
<1>2. CASE DiskClose(w)
  BY <1>2, NothingKept DEF DiskClose
<1>3. CASE DiskUp(w)
  <2>1. \E up : Do(w, {up}, tree)
    BY <1>3 DEF DiskUp
  <2> QED BY <2>1, DoNothing, NothingKept
<1>4. CASE DiskNewFolder(w)
  BY <1>4, DoKept, ShapeInv, DirInv, MkdirKeeps DEF DiskNewFolder
<1>5. CASE DiskPaste(w)
  BY <1>5, DoKept, ShapeInv, DirInv, CopyKeeps DEF DiskPaste
<1>6. CASE DiskErase(w)
  BY <1>6 DEF AskedFor
<1>7. CASE DiskSetStartup(w)
  BY <1>7, DoKept, ShapeInv, WriteNewKeeps DEF DiskSetStartup
<1>8. CASE DiskCleanUp(w)
  BY <1>8, DoNothing, NothingKept DEF DiskCleanUp
<1>9. ASSUME NEW e \in disk[w].entries, EnterFolder(w, e) \/ DiskDelete(w, e) \/ DiskCopy(w, e) \/ DiskCut(w, e)
      PROVE  Kept \/ AskedFor
  <2>1. CASE EnterFolder(w, e)
    BY <2>1, DoNothing, NothingKept DEF EnterFolder
  <2>2. CASE DiskCopy(w, e)
    BY <2>2, NothingKept DEF DiskCopy
  <2>3. CASE DiskDelete(w, e) \/ DiskCut(w, e)
    BY <2>3 DEF AskedFor
  <2> QED BY <1>9, <2>1, <2>2, <2>3
<1> QED BY <1>1, <1>2, <1>3, <1>4, <1>5, <1>6, <1>7, <1>8, <1>9 DEF DiskCommand

LEMMA DeskRenameKept ==
  ASSUME FilesInv, NEW e, DeskRename(e)
  PROVE  Kept
<1>1. PICK dir : dir = icons.folder
  OBVIOUS
<1>2. PICK new : new = FirstFree(RenNames, Shown(tree, dir))
  OBVIOUS
<1>3. PICK can \in BOOLEAN : can = (new # NoName /\ CanCopy(tree, dir, e.name))
  OBVIOUS
<1>4. PICK u : u = IF can THEN Unlink(Copy(tree, dir, e.name, dir, new), dir, e.name) ELSE tree
  OBVIOUS
<1>5. Do("desktop", {dir}, u)
  BY <1>1, <1>2, <1>3, <1>4 DEF DeskRename
<1>6. ASSUME {dir} \subseteq Live(tree) PROVE Keeps(tree, u)
  <2>1. CASE can
    <3>1. dir \in Dirs /\ CanCopy(tree, dir, e.name)
      BY <1>3, <1>6, <2>1, LiveDirs
    <3> QED BY <1>4, <2>1, <3>1, ShapeInv, MoveKeeps
  <2>2. CASE ~can
    BY <1>4, <2>2, KeepsNot
  <2> QED BY <2>1, <2>2
<1> QED BY <1>5, <1>6, DoKept

LEMMA DeskPasteKept ==
  ASSUME FilesInv, DeskPaste, ~Full(tree)
  PROVE  Kept
<1>1. PICK src : src = deskClip.dir
  OBVIOUS
<1>2. PICK t : t = Copy(tree, src, deskClip.name, DeskFolder, deskClip.name)
  OBVIOUS
<1>3. PICK u : u = IF deskClip.move /\ src # DeskFolder THEN Unlink(t, src, deskClip.name) ELSE t
  OBVIOUS
<1>4. PICK dirs : dirs = {src} \cup IF CanCopy(tree, src, deskClip.name) THEN {DeskFolder} ELSE {}
  OBVIOUS
<1>5. Do("desktop", dirs, u)
  BY <1>1, <1>2, <1>3, <1>4 DEF DeskPaste
<1>6. ASSUME dirs \subseteq Live(tree) PROVE Keeps(tree, u)
  <2>1. src \in Dirs /\ DeskFolder \in Dirs /\ Shape(tree)
    BY <1>4, <1>6, LiveDirs, DeskFolderIs, ShapeInv
  <2>2. CASE CanCopy(tree, src, deskClip.name)
    <3>1. Keeps(tree, t) /\ Keeps(tree, Unlink(t, src, deskClip.name))
      BY <1>2, <2>1, <2>2, CopyKeeps, MoveKeeps
    <3> QED BY <1>3, <3>1
  <2>3. CASE ~CanCopy(tree, src, deskClip.name)
    <3>1. t = tree
      BY <1>2, <2>3 DEF Copy
    <3>2. Unlink(t, src, deskClip.name) = tree
      BY <2>3, <3>1 DEF Unlink, CanCopy
    <3> QED BY <1>3, <3>1, <3>2, KeepsNot
  <2> QED BY <2>2, <2>3
<1> QED BY <1>5, <1>6, DoKept

LEMMA DeskCommandKept ==
  ASSUME FilesInv, DeskCommand
  PROVE  Kept \/ AskedFor
<1>1. CASE DeskOpen
  BY <1>1, DoNothing, NothingKept DEF DeskOpen, OpenFolder
<1>2. CASE DeskNewFolder
  BY <1>2, DoKept, ShapeInv, DeskFolderIs, MkdirKeeps DEF DeskNewFolder
<1>3. CASE DeskPaste
  BY <1>3, DeskPasteKept DEF AskedFor
<1>4. CASE DeskErase
  BY <1>4 DEF AskedFor
<1>5. CASE DeskSetStartup
  BY <1>5, DoKept, ShapeInv, WriteNewKeeps DEF DeskSetStartup
<1>6. ASSUME NEW e, NEW move, DeskClip(e, move) PROVE Kept
  BY <1>6, NothingKept DEF DeskClip
<1>7. ASSUME NEW e, DeskDuplicate(e) PROVE Kept
  <2>1. PICK new : new = FirstFree(DupNames, Shown(tree, DeskFolder))
    OBVIOUS
  <2>2. PICK u : u = IF new = NoName THEN tree ELSE Copy(tree, icons.folder, e.name, DeskFolder, new)
    OBVIOUS
  <2>3. Do("desktop", {icons.folder}, u)
    BY <1>7, <2>1, <2>2 DEF DeskDuplicate
  <2>4. Keeps(tree, u)
    BY <2>2, ShapeInv, DeskFolderIs, CopyKeeps, KeepsNot
  <2> QED BY <2>3, <2>4, DoKept
<1>8. ASSUME NEW e, DeskTrash(e) PROVE Kept
  <2>1. PICK u : u = TrashMove(tree, icons.folder, e.name)
    OBVIOUS
  <2>2. Do("desktop", {Root, icons.folder}, u)
    BY <1>8, <2>1 DEF DeskTrash
  <2>3. ASSUME {Root, icons.folder} \subseteq Live(tree) PROVE Keeps(tree, u)
    BY <2>1, <2>3, LiveDirs, TrashMoveKeeps
  <2> QED BY <2>2, <2>3, DoKept
<1> QED BY <1>1, <1>2, <1>3, <1>4, <1>5, <1>6, <1>7, <1>8, DeskRenameKept DEF DeskCommand

LEMMA TrashRestoreKept ==
  ASSUME FilesInv, NEW i, TrashRestore(i)
  PROVE  Kept
<1>1. PICK got : got = TrashDir(tree)
  OBVIOUS
<1>2. PICK name : name = bin.list[i].name
  OBVIOUS
<1>3. PICK to : to = bin.list[i].origin
  OBVIOUS
<1>4. PICK can \in BOOLEAN : can = (got.dir # NoDir /\ CanCopy(got.tree, got.dir, name))
  OBVIOUS
<1>5. PICK u : u = IF can THEN Unlink(Copy(got.tree, got.dir, name, to, name), got.dir, name) ELSE got.tree
  OBVIOUS
<1>6. PICK dirs : dirs = {Root} \cup IF can THEN {to} ELSE {}
  OBVIOUS
<1>7. Do("desktop", dirs, u)
  BY <1>1, <1>2, <1>3, <1>4, <1>5, <1>6 DEF TrashRestore
<1>8. Keeps(tree, got.tree) /\ Shape(got.tree) /\ (got.dir # NoDir => got.dir \in Dirs)
  BY <1>1, LiveDirs, TrashDirIs, TrashDirKeeps
<1>9. ASSUME dirs \subseteq Live(tree) PROVE Keeps(tree, u)
  <2>1. CASE can
    <3>1. got.dir \in Dirs /\ to \in Dirs /\ CanCopy(got.tree, got.dir, name)
      BY <1>4, <1>6, <1>8, <1>9, <2>1, LiveDirs
    <3>2. Keeps(got.tree, u)
      BY <1>5, <1>8, <2>1, <3>1, MoveKeeps
    <3> QED BY <1>8, <3>2, KeepsOn
  <2>2. CASE ~can
    BY <1>5, <1>8, <2>2
  <2> QED BY <1>4, <2>1, <2>2
<1> QED BY <1>7, <1>9, DoKept

LEMMA TrashCommandKept ==
  ASSUME FilesInv, TrashCommand
  PROVE  Kept \/ AskedFor
<1>1. CASE TrashOpen
  <2>1. Do("desktop", {Root}, TrashDir(tree).tree)
    BY <1>1 DEF TrashOpen
  <2> QED BY <2>1, LiveDirs, TrashDirKeeps, DoKept
<1>2. CASE TrashClose
  BY <1>2, NothingKept DEF TrashClose
<1>3. CASE TrashEmpty
  BY <1>3 DEF AskedFor
<1> QED BY <1>1, <1>2, <1>3, TrashRestoreKept DEF TrashCommand

LEMMA TerminalCommandKept ==
  ASSUME FilesInv, TerminalCommand
  PROVE  Kept \/ AskedFor
<1>1. PICK name \in Typed : TerminalMkdir(name) \/ TerminalRm(name) \/ TerminalRmdir(name)
  BY DEF TerminalCommand
<1>2. CASE TerminalMkdir(name)
  BY <1>2, DoKept, ShapeInv, MkdirKeeps DEF TerminalMkdir, Terminal
<1>3. CASE TerminalRm(name)
  BY <1>3 DEF AskedFor
<1>4. CASE TerminalRmdir(name)
  BY <1>4, DoKept, LiveDirs, RmdirKeeps DEF TerminalRmdir, Terminal
<1> QED BY <1>1, <1>2, <1>3, <1>4

(* For any number of names, contents and clusters: whatever is renamed, moved, put into the Trash
   or taken out of it, its content stays on the volume, also when a call fails because the volume is
   full (kernel/sv_desktop.c:691-708 and 1161-1197, apps/app_trash.c:122-190). *)
THEOREM FilesStay == FilesSpec => FilesSurvive
<1>1. FilesInit => FilesInv
  BY FilesStart
<1>2. FilesInv /\ [FilesNext]_fileVars => FilesInv'
  BY FilesNextKeeps
<1>3. FilesInv /\ [FilesNext]_fileVars => [Kept \/ AskedFor]_fileVars
  BY DiskCommandKept, DeskCommandKept, TrashCommandKept, TerminalCommandKept DEF FilesNext
<1> QED BY <1>1, <1>2, <1>3, PTL DEF FilesSpec, FilesSurvive

----------------------------------------------------------------------------
(* The ranges. *)

Counted ==
  changes \in 0 .. MaxChanges /\ remover \in [Dirs -> Actors] /\ mishap \in BOOLEAN

LEMMA DoCounts ==
  ASSUME Counted, NEW a \in Actors, NEW dirs, NEW t, Do(a, dirs, t)
  PROVE  Counted'
<1>1. MaxChanges \in Nat
  BY FilesAssumption
<1>2. mishap' \in BOOLEAN
  BY DEF Do
<1>3. CASE tree' = tree
  BY <1>2, <1>3 DEF Do, Counted
<1>4. CASE tree' # tree
  <2>1. changes < MaxChanges /\ changes' = changes + 1
    BY <1>4 DEF Do
  <2>2. \E gone : remover' = [d \in Dirs |-> IF d \in gone THEN a ELSE remover[d]]
    BY <1>4 DEF Do
  <2>3. remover' \in [Dirs -> Actors]
    BY <2>2 DEF Counted
  <2> QED BY <1>1, <1>2, <2>1, <2>3 DEF Counted
<1> QED BY <1>3, <1>4

\* Every command is a Do or leaves the volume alone.
LEMMA NextCounts ==
  ASSUME Counted, [FilesNext]_fileVars
  PROVE  Counted'
<1> USE DEF Actors
<1>1. CASE UNCHANGED <<changes, remover, mishap>>
  BY <1>1 DEF Counted
<1>2. ASSUME NEW w \in Windows, DiskCommand(w) PROVE Counted'
  <2>1. CASE DiskStart(w) \/ DiskNewFolder(w) \/ DiskPaste(w) \/ DiskErase(w) \/ DiskSetStartup(w) \/ DiskCleanUp(w)
    BY <2>1, DoCounts DEF DiskStart, DiskNewFolder, DiskPaste, DiskErase, DiskSetStartup, DiskCleanUp
  <2>2. CASE DiskUp(w)
    <3>1. \E up : Do(w, {up}, tree)
      BY <2>2 DEF DiskUp
    <3> QED BY <3>1, DoCounts
  <2>3. CASE DiskClose(w)
    BY <1>1, <2>3 DEF DiskClose
  <2>4. ASSUME NEW e \in disk[w].entries, EnterFolder(w, e) \/ DiskDelete(w, e) \/ DiskCopy(w, e) \/ DiskCut(w, e)
        PROVE  Counted'
    <3>1. CASE DiskDelete(w, e)
      <4>1. \E dirs, t : Do(w, dirs, t)
        BY <3>1 DEF DiskDelete
      <4> QED BY <4>1, DoCounts
    <3>2. CASE DiskCopy(w, e)
      BY <1>1, <3>2 DEF DiskCopy
    <3> QED BY <2>4, <3>1, <3>2, DoCounts DEF EnterFolder, DiskCut
  <2> QED BY <1>2, <2>1, <2>2, <2>3, <2>4 DEF DiskCommand
<1>3. ASSUME DeskCommand PROVE Counted'
  <2>1. CASE DeskOpen \/ DeskNewFolder \/ DeskErase \/ DeskSetStartup
    BY <2>1, DoCounts DEF DeskOpen, OpenFolder, DeskNewFolder, DeskErase, DeskSetStartup
  <2>2. CASE DeskPaste
    <3>1. \E dirs, t : Do("desktop", dirs, t)
      BY <2>2 DEF DeskPaste
    <3> QED BY <3>1, DoCounts
  <2>3. ASSUME NEW e, NEW move, DeskClip(e, move) PROVE Counted'
    BY <1>1, <2>3 DEF DeskClip
  <2>4. ASSUME NEW e, DeskRename(e) \/ DeskDuplicate(e) \/ DeskTrash(e) PROVE Counted'
    <3>1. \E dirs, t : Do("desktop", dirs, t)
      BY <2>4 DEF DeskRename, DeskDuplicate, DeskTrash
    <3> QED BY <3>1, DoCounts
  <2> QED BY <1>3, <2>1, <2>2, <2>3, <2>4 DEF DeskCommand
<1>4. ASSUME TrashCommand PROVE Counted'
  <2>1. CASE TrashClose
    BY <1>1, <2>1 DEF TrashClose
  <2>2. ASSUME TrashOpen \/ TrashEmpty \/ \E i : TrashRestore(i) PROVE Counted'
    <3>1. \E dirs, t : Do("desktop", dirs, t)
      BY <2>2 DEF TrashOpen, TrashEmpty, TrashRestore
    <3> QED BY <3>1, DoCounts
  <2> QED BY <1>4, <2>1, <2>2 DEF TrashCommand
<1>5. ASSUME TerminalCommand PROVE Counted'
  <2>1. \E dirs, t : Do("terminal", dirs, t)
    BY <1>5 DEF TerminalCommand, TerminalMkdir, TerminalRm, TerminalRmdir, Terminal
  <2> QED BY <2>1, DoCounts
<1> QED BY <1>1, <1>2, <1>3, <1>4, <1>5 DEF FilesNext, fileVars

(* For any number of windows, names and directories: the directories form a tree, and what the
   windows and the icons remember are directories there have been (kernel/fat32.c:356-374). *)
THEOREM FilesTypeCorrect == FilesSpec => []FilesOK
<1>1. FilesInit => FilesInv /\ Counted
  <2>1. ASSUME FilesInit PROVE Counted
    <3>1. changes = 0 /\ mishap = FALSE /\ remover = [d \in Dirs |-> "nobody"]
      BY <2>1 DEF FilesInit
    <3>2. "nobody" \in Actors
      BY DEF Actors
    <3>3. remover \in [Dirs -> Actors]
      BY <3>1, <3>2
    <3>4. changes \in 0 .. MaxChanges
      BY <3>1, FilesAssumption
    <3> QED BY <3>1, <3>3, <3>4 DEF Counted
  <2> QED BY <2>1, FilesStart
<1>2. FilesInv /\ Counted /\ [FilesNext]_fileVars => FilesInv' /\ Counted'
  BY FilesNextKeeps, NextCounts
<1>3. ASSUME FilesInv, Counted PROVE FilesOK
  <2>1. Tidy(tree, made) /\ made \in Nat /\ made \in Dirs
    BY <1>3, LiveDirs DEF Tidy
  <2>2. DOMAIN tree = Dirs
    BY <2>1 DEF Tidy, Shape
  <2>3. ASSUME NEW e \in Entries(tree) PROVE e.dir \in 0 .. made
    <3>1. PICK d \in Dirs : \E i \in DOMAIN tree[d] : e = tree[d][i]
      BY DEF Entries, Range
    <3>2. e.dir \in {NoDir} \cup (2 .. made)
      BY <2>1, <3>1 DEF Tidy
    <3> QED BY <2>1, <3>2 DEF NoDir
  <2>4. ASSUME NEW w \in Windows PROVE disk[w].cwd \in 1 .. made /\ disk[w].parent \in 0 .. made
    <3>1. disk[w].parent \in {NoDir} \cup (1 .. made)
      BY <1>3 DEF FilesInv, MemoOf, Remembered
    <3> QED BY <1>3, <2>1, <3>1, DirInv DEF NoDir
  <2>5. icons.folder \in 0 .. made
    <3>1. icons.folder \in {NoDir} \cup (1 .. made)
      BY <1>3 DEF FilesInv, IconMemo
    <3> QED BY <2>1, <3>1 DEF NoDir
  <2>6. \A d, c \in Dirs : \A i \in DOMAIN tree[d], j \in DOMAIN tree[c] :
          tree[d][i].dir # NoDir /\ tree[d][i].dir = tree[c][j].dir => d = c /\ i = j
    BY <2>1 DEF Tidy
  <2> QED BY <1>3, <2>1, <2>2, <2>3, <2>4, <2>5, <2>6 DEF FilesOK, Counted
<1> QED BY <1>1, <1>2, <1>3, PTL DEF FilesSpec
=============================================================================
