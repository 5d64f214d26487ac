-------------------------------- MODULE Pong --------------------------------
(***************************************************************************)
(* A window of Pong, apps/app_pong.c.  The game advances when the window   *)
(* is drawn, and takes the paddle's keys from the keyboard's data port,    *)
(* which holds the last byte the keyboard sent, whoever else has read it.  *)
(***************************************************************************)
EXTENDS Integers

CONSTANTS
  W, H, PaddleW, PaddleH, Ball,   \* 200, 150, 4, 24 and 3 in the code
  PaddleSpeed, Speed, MaxSpeed,   \* 2, 2 and 6 in the code
  Bend,                           \* 4: what the ball's offset from the paddle's middle is divided by
  ScoreWin                        \* 7 in the code

VARIABLES
  state,              \* "menu", "play", "pause" or "win"
  ly, ry,             \* the tops of the paddles
  bx, by, vx, vy,     \* the ball
  scoreL, scoreR,
  up, down,           \* key_up, key_down
  reach               \* ghost: for each side, whether since the last serve the paddle
                      \* had the ball in front of it in one tick or more ("none",
                      \* "missed": never covering it)

paddles == <<ly, ry>>
ball    == <<bx, by, vx, vy>>
keys    == <<up, down>>
score   == <<scoreL, scoreR>>
vars    == <<state, paddles, ball, keys, score, reach>>

Quot(n, d) == IF n < 0 THEN -((-n) \div d) ELSE n \div d   \* C's division
Middle(y)  == y + PaddleH \div 2
Centre(y)  == y + Ball \div 2
AtRest       == (H - PaddleH) \div 2
Unseen     == [left |-> "none", right |-> "none"]

ServeTo(dir) ==
  /\ bx' = W \div 2 - Ball \div 2 /\ by' = H \div 2 - Ball \div 2
  /\ vx' = dir * Speed /\ vy' = Speed /\ reach' = Unseen
Start ==
  /\ ly' = AtRest /\ ry' = AtRest /\ scoreL' = 0 /\ scoreR' = 0 /\ state' = "play"
  /\ ServeTo(1) /\ UNCHANGED keys

Max0(n)   == IF n < 0 THEN 0 ELSE n
Floor(n)  == IF n + PaddleH > H THEN H - PaddleH ELSE n
(* The player's paddle; both keys down move it up, then down. *)
LeftAfter(u, d) == LET y == IF u THEN Max0(ly - 2 * PaddleSpeed) ELSE ly
                   IN IF d THEN Floor(y + 2 * PaddleSpeed) ELSE y
RightAfter == IF Centre(by) < Middle(ry) - 1 THEN Max0(ry - PaddleSpeed)
              ELSE IF Centre(by) > Middle(ry) + 1 THEN Floor(ry + PaddleSpeed) ELSE ry

Bounce(b) ==      \* off the walls above and below
  LET top == IF b.y <= 0 THEN [b EXCEPT !.y = 0, !.vy = -@] ELSE b
  IN IF top.y + Ball >= H THEN [top EXCEPT !.y = H - Ball, !.vy = -@] ELSE top

(* Off a paddle: the ball is put in front of it, turned and, up to         *)
(* MaxSpeed, made faster, and rises or falls by where it hit.              *)
LeftFace  == PaddleW + 2
RightFace == W - PaddleW - 2 - PaddleW
InFrontL(b) == b.vx < 0 /\ b.x <= LeftFace + PaddleW /\ b.x + Ball >= LeftFace
InFrontR(b) == b.vx > 0 /\ b.x + Ball >= RightFace /\ b.x <= RightFace + PaddleW
Covers(y, b) == b.y + Ball >= y /\ b.y <= y + PaddleH
(* Mutant: the speed grows with every hit. *)
AlwaysFaster(v) == IF v > 0 THEN v + 1 ELSE v - 1
Faster(v) == IF v < MaxSpeed /\ -v < MaxSpeed THEN (IF v > 0 THEN v + 1 ELSE v - 1) ELSE v
Bent(y, b, least) == LET q == Quot(Centre(b.y) - Middle(y), Bend) IN IF q = 0 THEN least ELSE q
HitL(b, y) == IF InFrontL(b) /\ Covers(y, b)
              THEN [b EXCEPT !.x = LeftFace + PaddleW, !.vx = Faster(-@), !.vy = Bent(y, b, 1)] ELSE b
HitR(b, y) == IF InFrontR(b) /\ Covers(y, b)
              THEN [b EXCEPT !.x = RightFace - Ball, !.vx = Faster(-@), !.vy = Bent(y, b, -1)] ELSE b

SetBall(b) == bx' = b.x /\ by' = b.y /\ vx' = b.vx /\ vy' = b.vy
Noted(b, l, r) ==    \* ghost
  [left  |-> IF InFrontL(b) THEN (IF Covers(l, b) THEN "none" ELSE "missed") ELSE IF b.vx > 0 THEN "none" ELSE reach.left,
   right |-> IF InFrontR(b) THEN (IF Covers(r, b) THEN "none" ELSE "missed") ELSE IF b.vx < 0 THEN "none" ELSE reach.right]

(* pong_tick: sc is the byte the port holds. *)
Tick(sc) ==
  /\ state = "play"
  /\ up'   = (IF sc = "W down" THEN TRUE ELSE IF sc = "W up" THEN FALSE ELSE up)
  /\ down' = (IF sc = "S down" THEN TRUE ELSE IF sc = "S up" THEN FALSE ELSE down)
  /\ ly' = LeftAfter(up', down') /\ ry' = RightAfter
  /\ LET b0 == Bounce([x |-> bx + vx, y |-> by + vy, vx |-> vx, vy |-> vy])
         b  == HitR(HitL(b0, ly'), ry')
         outL == b.x + Ball < 0
         outR == b.x > W
     IN /\ scoreR' = scoreR + (IF outL THEN 1 ELSE 0)
        /\ scoreL' = scoreL + (IF outR THEN 1 ELSE 0)
        /\ IF (outL /\ scoreR' >= ScoreWin) \/ (outR /\ scoreL' >= ScoreWin)
           THEN state' = "win" /\ SetBall(b) /\ reach' = Noted(b0, ly', ry')
           ELSE /\ UNCHANGED state
                /\ IF outL \/ outR THEN ServeTo(IF outL THEN 1 ELSE -1)
                   ELSE SetBall(b) /\ reach' = Noted(b0, ly', ry')

(* on_key.  The port is read again, some time after the key's byte came. *)
EnterKey == state \in {"menu", "win"} /\ Start
Toggle ==
  /\ state \in {"play", "pause"}
  /\ state' = IF state = "play" THEN "pause" ELSE "play"
  /\ UNCHANGED <<paddles, ball, keys, score, reach>>
OtherKey(sc) ==
  /\ state = "play"
  /\ up' = (sc = "W down") /\ down' = (sc = "S down")
  /\ UNCHANGED <<state, paddles, ball, score, reach>>
NewGame == Start    \* from the menu, in any state
(* on_open, of a window that was used before: the keys stay as they were. *)
Open ==
  /\ state' = "menu" /\ scoreL' = 0 /\ scoreR' = 0 /\ ly' = AtRest /\ ry' = AtRest
  /\ bx' = W \div 2 /\ by' = H \div 2 /\ vx' = 0 /\ vy' = 0 /\ reach' = Unseen
  /\ UNCHANGED keys

Bytes == {"W down", "W up", "S down", "S up", "other"}
Init ==
  /\ state = "menu" /\ scoreL = 0 /\ scoreR = 0 /\ ly = AtRest /\ ry = AtRest
  /\ bx = W \div 2 /\ by = H \div 2 /\ vx = 0 /\ vy = 0 /\ up = FALSE /\ down = FALSE /\ reach = Unseen
Next == (\E sc \in Bytes : Tick(sc) \/ OtherKey(sc)) \/ EnterKey \/ Toggle \/ NewGame \/ Open
Spec == Init /\ [][Next]_vars
----------------------------------------------------------------------------
TypeOK ==
  /\ state \in {"menu", "play", "pause", "win"} /\ ly \in 0 .. H - PaddleH /\ ry \in 0 .. H - PaddleH
  /\ by \in 0 .. H - Ball /\ scoreL \in 0 .. ScoreWin /\ scoreR \in 0 .. ScoreWin

(* PointOnlyOnMiss: a point is scored only after the ball was in front of  *)
(* the paddle of that side and the paddle did not cover it: however fast   *)
(* it has become, the ball never jumps over a paddle.  One point a tick,   *)
(* none to a side that has won.  pong_tick.                                *)
PointOnlyOnMiss ==
  [][ /\ scoreR' > scoreR => scoreR' = scoreR + 1 /\ scoreL' = scoreL /\ reach.left = "missed"
      /\ scoreL' > scoreL => scoreL' = scoreL + 1 /\ scoreR' = scoreR /\ reach.right = "missed" ]_vars
=============================================================================
