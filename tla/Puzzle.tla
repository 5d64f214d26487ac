------------------------------- MODULE Puzzle -------------------------------
(***************************************************************************)
(* A window of the fifteen puzzle, apps/app_puzzle.c, on a board of any    *)
(* size: new games are shuffled by moves of the blank, and the player      *)
(* moves it with the arrow keys or by clicking on a tile beside it.        *)
(***************************************************************************)
EXTENDS Integers, FiniteSets

CONSTANTS
  Rows, Cols,              \* 4 and 4 in the code
  MinShuffle, MaxShuffle,  \* 80 and 159 in the code
  MaxMoves                 \* bound: no move after that many

VARIABLES
  tiles, blank,            \* puzzle_tiles, puzzle_empty_pos
  moves, solved,
  left, prev               \* of puzzle_init's loop: steps to go (-1: not in it), prev_empty (-1: none)

vars == <<tiles, blank, moves, solved, left, prev>>

Cells == 0 .. Rows * Cols - 1
Last  == Rows * Cols - 1
Row(c) == c \div Cols
Col(c) == c % Cols
Gap(a, b) == IF a > b THEN a - b ELSE b - a
Distance(a, b) == Gap(Row(a), Row(b)) + Gap(Col(a), Col(b))

(* Mutant: two cells are neighbours when their indices say so, which makes *)
(* the end of a row the neighbour of the beginning of the next.            *)
NearByIndex(c) == {d \in Cells : Gap(c, d) \in {1, Cols}}
Neighbours(c) == {d \in Cells : Distance(c, d) = 1}

Ordered == [c \in Cells |-> IF c = Last THEN 0 ELSE c + 1]

IsSolved(t) == t = Ordered

(* What the shuffle and every move do: the tile at c slides into the blank. *)
Slide(c) ==
  /\ tiles' = [tiles EXCEPT ![blank] = tiles[c], ![c] = 0]
  /\ blank' = c

(* puzzle_init up to its loop, whose passes are Shuffle; nothing else of   *)
(* the window runs before the loop ends.                                   *)
NewGame ==
  /\ tiles' = Ordered /\ blank' = Last /\ moves' = 0 /\ solved' = FALSE
  /\ left' \in MinShuffle .. MaxShuffle /\ prev' = -1
Choices == IF Neighbours(blank) \ {prev} = {} THEN Neighbours(blank) ELSE Neighbours(blank) \ {prev}
Shuffle ==
  /\ left > 0
  /\ \E c \in Choices : Slide(c)
  /\ prev' = blank /\ left' = left - 1
  /\ UNCHANGED <<moves, solved>>
Shuffled ==
  /\ left = 0
  /\ left' = -1 /\ solved' = IsSolved(tiles)
  /\ UNCHANGED <<tiles, blank, moves, prev>>

Playing == left = -1
Moved(c) ==
  /\ Slide(c)
  /\ moves' = moves + 1 /\ solved' = IsSolved(tiles')
  /\ UNCHANGED <<left, prev>>
(* handle_puzzle_key moves the blank, on_click the tile under the pointer. *)
ArrowKey == Playing /\ moves < MaxMoves /\ \E c \in Neighbours(blank) : Moved(c)
ClickTile(c) ==
  /\ Playing /\ moves < MaxMoves
  /\ tiles[c] # 0 /\ c \in Neighbours(blank)
  /\ Moved(c)
(* on_open; Enter, the button and the menu entry. *)
Restart == Playing /\ NewGame

Init ==
  /\ tiles = Ordered /\ blank = Last /\ moves = 0 /\ solved = FALSE
  /\ left \in MinShuffle .. MaxShuffle /\ prev = -1
Next == Shuffle \/ Shuffled \/ ArrowKey \/ (\E c \in Cells : ClickTile(c)) \/ Restart
Spec == Init /\ [][Next]_vars
----------------------------------------------------------------------------
TypeOK ==
  /\ tiles \in [Cells -> Cells] /\ blank \in Cells /\ moves \in 0 .. MaxMoves
  /\ solved \in BOOLEAN /\ left \in -1 .. MaxShuffle /\ prev \in Cells \cup {-1}

Inversions == {p \in Cells \X Cells : p[1] < p[2] /\ tiles[p[1]] > tiles[p[2]] /\ tiles[p[2]] # 0}

(* Solvable: every board the window can show can be put in order, that is  *)
(* no tile is lost or doubled and the order of the tiles has the parity    *)
(* its blank's row asks for; and "solved" is shown exactly on the ordered  *)
(* board.  puzzle_init, puzzle_try_move_tile, handle_puzzle_key.           *)
RowsBelow == Rows - 1 - Row(blank)
Solvable ==
  /\ {tiles[c] : c \in Cells} = Cells /\ tiles[blank] = 0
  /\ Cardinality(Inversions) % 2 = IF Cols % 2 = 1 THEN 0 ELSE RowsBelow % 2
  /\ Playing => solved = (tiles = Ordered)
=============================================================================
