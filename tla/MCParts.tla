------------------------------ MODULE MCParts -------------------------------
(***************************************************************************)
(* The parts that share nothing with the others, each by itself: a         *)
(* behaviour is of the one chosen at the beginning, and the others stay    *)
(* where they start.  The network's input (Net) is one of them, and the    *)
(* two halves of the card's driver are two.                                *)
(***************************************************************************)
EXTENDS MCNet

CONSTANTS Digits, Ops, MaxNumber, MaxDecimals
CONSTANTS Rows, Cols, MinShuffle, MaxShuffle, MaxMoves
CONSTANTS W, H, PaddleW, PaddleH, Ball, PaddleSpeed, Speed, MaxSpeed, Bend, ScoreWin
CONSTANTS Ring, Align, Lag, Lengths, MinRaw, MaxRaw, MaxFrames, MaxSends
CONSTANTS Sectors, Data, MaxAccesses, MaxCuts
CONSTANTS Urls, Hostless, Home, Long, LineW, MaxLines, MaxLinks, MaxText, HistMax, Visible, MaxTokens
CONSTANTS Chars, MaxDocument, Half
CONSTANTS CalcSteps, BrowserSteps, BrowserTokens   \* bounds: keys on the calculator; on a page of so many tokens

VARIABLES current, accumulator, operation, newEntry, hasDecimal, decimals, leftOperand, leftDecimals, showExpr,
          exprComplete, error, scientific, display, clipboard, terms, pend, entry, odd
VARIABLES tiles, blank, moves, solved, left, prev
VARIABLES state, ly, ry, bx, by, vx, vy, scoreL, scoreR, up, down, reach
VARIABLES ring, rxOffset, cbr, accepted, delivered, misled, txBuf, txSlot, sending, own, cardSlot, submitted, wire, late
VARIABLES present, cache, medium, drive, access, answer, accesses, cuts, may, doubt, abandoned
VARIABLES addr, focused, site, page, loading, tokens, lineCount, scroll, dragging, histPos, histLen, history, status
VARIABLES document, chunked, buf, src, dst, size, chunkPc
VARIABLES part, steps

Calculator == INSTANCE Calc
Fifteen    == INSTANCE Puzzle
Game       == INSTANCE Pong
Card       == INSTANCE Rtl8139
Disk       == INSTANCE Ata
Pages      == INSTANCE Browser
Body       == INSTANCE Chunked WITH pc <- chunkPc, MaxText <- MaxDocument

(* The calculator's buttons are digits and the four operators.              *)
ASSUME KeysAssumption == Digits \subseteq Nat /\ Ops \subseteq {"+", "-", "*", "/"}

(* The puzzle has a board, and a shuffle makes no less than no moves.       *)
ASSUME BoardAssumption == {Rows, Cols} \subseteq Nat \ {0} /\ {MinShuffle, MaxShuffle} \subseteq Nat

(* The ball cannot pass a paddle between two ticks, and is served between   *)
(* the paddles; with the code's numbers 6 <= 8, 10 < 99 and 102 < 190.      *)
ASSUME PongAssumption ==
  /\ {W, PaddleW, Ball, Speed, MaxSpeed} \subseteq Nat
  /\ Speed <= MaxSpeed /\ MaxSpeed <= PaddleW + Ball + 1
  /\ LET served == W \div 2 - Ball \div 2
     IN Game!LeftFace + PaddleW < served /\ served + Ball < Game!RightFace

(* Documents have a greatest length, and an int holds it.                   *)
ASSUME BodyAssumption == MaxDocument \in Nat /\ Half \in Nat /\ MaxDocument < Half

(* A row has room for a cell, and a link's length for a row: 54 and 199.    *)
ASSUME PageAssumption ==
  LineW \in Nat \ {0} /\ {MaxLines, MaxLinks, MaxText} \subseteq Nat /\ LineW <= MaxText

(* The driver accepts no less than a frame of the least length, and the     *)
(* ring holds more than one; 18 <= 64 and 1540 < 65536 in the code.         *)
ASSUME RingAssumption ==
  /\ Ring \in Nat \ {0} /\ Align \in Nat \ {0} /\ MinRaw \in Nat /\ Lengths \subseteq Nat
  /\ \A len \in Lengths : MinRaw <= len + Align /\ Card!RoundUp(len + 2 * Align) < Ring

calcVars  == <<current, accumulator, operation, newEntry, hasDecimal, decimals, leftOperand, leftDecimals, showExpr,
               exprComplete, error, scientific, display, clipboard, terms, pend, entry, odd>>
puzzleVars == <<tiles, blank, moves, solved, left, prev>>
pongVars  == <<state, ly, ry, bx, by, vx, vy, scoreL, scoreR, up, down, reach>>
cardVars  == <<ring, rxOffset, cbr, accepted, delivered, misled, txBuf, txSlot, sending, own, cardSlot, submitted, wire, late>>
ataVars   == <<present, cache, medium, drive, access, answer, accesses, cuts, may, doubt, abandoned>>
pageVars  == <<addr, focused, site, page, loading, tokens, lineCount, scroll, dragging, histPos, histLen, history, status>>
bodyVars  == <<document, chunked, buf, src, dst, size, chunkPc>>
partVars  == <<vars, calcVars, puzzleVars, pongVars, cardVars, ataVars, pageVars, bodyVars, part, steps>>

Parts == {"net", "calc", "puzzle", "pong", "receive", "transmit", "ata", "page", "body"}
(* Of a part that is not chosen one initial state is enough. *)
PartsInit ==
  /\ part \in Parts /\ steps = 0
  /\ Init /\ Calculator!Init
  /\ Fifteen!Init /\ (part # "puzzle" => left = MinShuffle)
  /\ Game!Init /\ Card!Init
  /\ Disk!Init /\ (part # "ata" => present = {"master"})
  /\ Pages!Init /\ (part # "page" => status = "ok")
  /\ IF part = "body" THEN Body!Init
     ELSE document = <<>> /\ chunked = FALSE /\ buf = <<>> /\ src = 1 /\ dst = <<>> /\ size = 0 /\ chunkPc = "test"

NetTurn == part = "net" /\ UNCHANGED <<calcVars, puzzleVars, pongVars, cardVars, ataVars, pageVars, bodyVars, part, steps>>
CalcTurn ==
  /\ part = "calc" /\ steps < CalcSteps /\ steps' = steps + 1
  /\ UNCHANGED <<vars, puzzleVars, pongVars, cardVars, ataVars, pageVars, bodyVars, part>>
PuzzleTurn == part = "puzzle" /\ UNCHANGED <<vars, calcVars, pongVars, cardVars, ataVars, pageVars, bodyVars, part, steps>>
PongTurn == part = "pong" /\ UNCHANGED <<vars, calcVars, puzzleVars, cardVars, ataVars, pageVars, bodyVars, part, steps>>
CardTurn(p) == part = p /\ UNCHANGED <<vars, calcVars, puzzleVars, pongVars, ataVars, pageVars, bodyVars, part, steps>>
AtaTurn  == part = "ata" /\ UNCHANGED <<vars, calcVars, puzzleVars, pongVars, cardVars, pageVars, bodyVars, part, steps>>
PageTurn == part = "page" /\ UNCHANGED <<vars, calcVars, puzzleVars, pongVars, cardVars, ataVars, bodyVars, part>>
BodyTurn == part = "body" /\ UNCHANGED <<vars, calcVars, puzzleVars, pongVars, cardVars, ataVars, pageVars, part, steps>>
Rendering == PageTurn /\ (steps > 0 => tokens < BrowserTokens) /\ UNCHANGED steps
Browsing  == PageTurn /\ tokens <= BrowserTokens /\ steps < BrowserSteps /\ steps' = steps + 1

PartsNext ==
  \/ NetTurn /\ Next
  \/ \E d \in Digits : CalcTurn /\ Calculator!Short /\ Calculator!Digit(d)
  \/ \E o \in Ops : CalcTurn /\ Calculator!SetOperation(o)
  \/ CalcTurn /\ Calculator!Decimal
  \/ CalcTurn /\ Calculator!Clear
  \/ CalcTurn /\ Calculator!ClearEntry
  \/ CalcTurn /\ Calculator!Equals
  \/ CalcTurn /\ Calculator!Copy
  \/ CalcTurn /\ Calculator!Paste
  \/ CalcTurn /\ Calculator!SetScientific
  \/ PuzzleTurn /\ Fifteen!Shuffle
  \/ PuzzleTurn /\ Fifteen!Shuffled
  \/ PuzzleTurn /\ Fifteen!ArrowKey
  \/ \E c \in Fifteen!Cells : PuzzleTurn /\ Fifteen!ClickTile(c)
  \/ PuzzleTurn /\ Fifteen!Restart
  \/ \E sc \in Game!Bytes : PongTurn /\ Game!Tick(sc)
  \/ \E sc \in Game!Bytes : PongTurn /\ Game!OtherKey(sc)
  \/ PongTurn /\ Game!EnterKey
  \/ PongTurn /\ Game!Toggle
  \/ PongTurn /\ Game!NewGame
  \/ PongTurn /\ Game!Open
  \/ \E len \in Lengths : CardTurn("receive") /\ Card!Arrive(len)
  \/ CardTurn("receive") /\ Card!Recv
  \/ CardTurn("transmit") /\ Card!Send
  \/ CardTurn("transmit") /\ Card!CardSends
  \/ CardTurn("transmit") /\ Card!Sent
  \/ CardTurn("transmit") /\ Card!TimeOut
  \/ \E s \in Sectors : AtaTurn /\ Disk!ReadSectors(s)
  \/ \E s \in Sectors, v \in Data : AtaTurn /\ Disk!WriteSectors(s, v)
  \/ AtaTurn /\ Disk!Command
  \/ AtaTurn /\ Disk!NotAnswering
  \/ AtaTurn /\ Disk!ReadAnswered
  \/ AtaTurn /\ Disk!DataOut
  \/ AtaTurn /\ Disk!Flush
  \/ AtaTurn /\ Disk!WriteAnswered
  \/ \E d \in Disk!Drives : AtaTurn /\ Disk!DriveFails(d)
  \/ \E d \in Disk!Drives : AtaTurn /\ Disk!DriveWorks(d)
  \/ \E d \in Disk!Drives : AtaTurn /\ Disk!DriveSaves(d)
  \/ AtaTurn /\ Disk!PowerCut
  \/ AtaTurn /\ Disk!AtaInit
  \/ Rendering /\ Pages!Token
  \/ Rendering /\ Pages!Rendered
  \/ Browsing /\ Pages!Open
  \/ Browsing /\ Pages!Tab
  \/ \E u \in Urls : Browsing /\ Pages!Type(u)
  \/ Browsing /\ Pages!EnterKey
  \/ Browsing /\ Pages!Reload
  \/ Browsing /\ Pages!GoHome
  \/ Browsing /\ Pages!Back
  \/ Browsing /\ Pages!Forward
  \/ Browsing /\ Pages!ScrollKey
  \/ Browsing /\ Pages!Scrollbar
  \/ Browsing /\ Pages!Grab
  \/ Browsing /\ Pages!Drag
  \/ Browsing /\ Pages!Release
  \/ Rendering /\ Pages!Draw
  \/ \E row \in 1 .. Visible, col \in 1 .. LineW : Browsing /\ Pages!ClickPage(row, col)
  \/ BodyTurn /\ Body!LooksChunked
  \/ BodyTurn /\ Body!ReadSize
  \/ BodyTurn /\ Body!SkipLine
  \/ BodyTurn /\ Body!Astray
  \/ BodyTurn /\ Body!CopyChunk
PartsSpec == PartsInit /\ [][PartsNext]_partVars

(* LeftToRight: the calculator shows what the keys typed give.  app_calc.c. *)
LeftToRight     == Calculator!LeftToRight
(* Solvable: every board can be put in order.  app_puzzle.c.                *)
Solvable        == Fifteen!Solvable
(* PointOnlyOnMiss: the ball never jumps over a paddle.  app_pong.c.        *)
PointOnlyOnMiss == Game!PointOnlyOnMiss
(* FramesInOrder: frames pass the card once, whole and in order, inwards    *)
(* and outwards.  rtl8139.c.                                                *)
FramesInOrder   == Card!FramesWhole /\ Card!SentInOrder
(* WrittenSurvives: what was written outlives a power cut.  ata.c.          *)
WrittenSurvives == Disk!WrittenSurvives
(* LinksInAnchors: a link is where its anchor's text is.  app_browser.c.    *)
LinksInAnchors  == Pages!LinksInAnchors
(* PageAsSent: a body in chunks is put together.  dechunk, app_browser.c.   *)
PageAsSent      == Body!PageAsSent
=============================================================================
