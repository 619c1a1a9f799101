------------------------------ MODULE Game2048 ------------------------------
(***************************************************************************)
(* The engine of the 2048 duel (game-engine/game2048/engine.ts): operators *)
(* from the state of a game, a record, to the states it may become.        *)
(*                                                                         *)
(* Both boards draw their tiles from the same pseudo random numbers; here  *)
(* any empty cell may get a 2 or a 4.                                      *)
(***************************************************************************)
EXTENDS Integers, Sequences, FiniteSetsExt, Functions

CONSTANTS Size,      \* SIZE: rows and columns of a board
          WinTile,   \* 2048
          MaxMoves   \* maxMovesPerSide

Cells == (1 .. Size) \X (1 .. Size)
Moves == <<"up", "down", "left", "right">>   \* as getLegalMoves tries them
Other(side) == 1 - side

\* A mutant of Slid: a tile that has just been merged merges again.
SlidTwice(tiles) ==
  LET n == Len(tiles)
      slid[k \in 0 .. n] ==
        IF k = 0 THEN [row |-> <<>>, gained |-> 0]
        ELSE LET s == slid[k - 1]
                 l == Len(s.row)
             IN  IF l > 0 /\ s.row[l] = tiles[k]
                 THEN [row |-> [s.row EXCEPT ![l] = 2 * @], gained |-> s.gained + 2 * tiles[k]]
                 ELSE [s EXCEPT !.row = Append(@, tiles[k])]
  IN  slid[n]

\* slideRowLeft without the zeros: equal neighbours merge, each tile once.
Slid(tiles) ==
  LET n == Len(tiles)
      from[i \in 1 .. n + 1] ==
        IF i > n THEN [row |-> <<>>, gained |-> 0]
        ELSE IF i < n /\ tiles[i] = tiles[i + 1]
        THEN LET rest == IF i + 2 > n THEN from[n + 1] ELSE from[i + 2]
             IN  [row |-> <<2 * tiles[i]>> \o rest.row, gained |-> 2 * tiles[i] + rest.gained]
        ELSE LET rest == from[i + 1] IN [rest EXCEPT !.row = <<tiles[i]>> \o @]
  IN  from[1]

\* The cell at place i of line k, in the order in which a move meets the cells.
CellAt(move, k, i) ==
  CASE move = "left" -> <<k, i>> [] move = "right" -> <<k, Size + 1 - i>>
    [] move = "up"   -> <<i, k>> [] move = "down"  -> <<Size + 1 - i, k>>

LineAndPlace(move, c) ==
  CASE move = "left" -> c [] move = "right" -> <<c[1], Size + 1 - c[2]>>
    [] move = "up"   -> <<c[2], c[1]>> [] move = "down" -> <<c[2], Size + 1 - c[1]>>

\* The tiles of line k in that order, without the empty cells.
Tiles(grid, move, k) ==
  LET at(i)  == grid[CellAt(move, k, i)]
      places == {i \in 1 .. Size : at(i) # 0}
      nth(n) == CHOOSE i \in places : Cardinality({j \in places : j <= i}) = n
  IN  [n \in 1 .. Cardinality(places) |-> at(nth(n))]

\* A mutant of Moved: of the merges only those of the first line score.
MovedFirstLine(grid, move) ==
  LET slid    == [k \in 1 .. Size |-> Slid(Tiles(grid, move, k))]
      tile(l) == IF l[2] <= Len(slid[l[1]].row) THEN slid[l[1]].row[l[2]] ELSE 0
  IN  [grid |-> [c \in Cells |-> tile(LineAndPlace(move, c))], gained |-> slid[1].gained]

\* applyMoveToGrid: each line slid towards its first cell.
Moved(grid, move) ==
  LET slid    == [k \in 1 .. Size |-> Slid(Tiles(grid, move, k))]
      tile(l) == IF l[2] <= Len(slid[l[1]].row) THEN slid[l[1]].row[l[2]] ELSE 0
  IN  [grid   |-> [c \in Cells |-> tile(LineAndPlace(move, c))],
       gained |-> FoldFunction(+, 0, [k \in 1 .. Size |-> slid[k].gained])]

\* getLegalMoves.
LegalMoves(grid) == {m \in Range(Moves) : Moved(grid, m).grid # grid}
FirstLegal(grid) == Moves[Min({i \in DOMAIN Moves : Moves[i] \in LegalMoves(grid)})]

\* spawnTile.
Spawned(grid) ==
  LET empty == {c \in Cells : grid[c] = 0}
  IN  IF empty = {} THEN {grid}
      ELSE {[grid EXCEPT ![c] = v] : c \in empty, v \in {2, 4}}

Board(grid) == [grid |-> grid, score |-> 0, moves |-> 0, stuck |-> FALSE]

\* freshBoard and createInitialState: the boards are equal.
InitialStates ==
  {[board |-> [s \in {0, 1} |-> Board(grid)], turn |-> 0, status |-> "playing", winner |-> -1] :
     grid \in UNION {Spawned(g) : g \in Spawned([c \in Cells |-> 0])}}

\* A mutant of Done: a side that is stuck has moves left.
DoneByMoves(b) == b.moves >= MaxMoves

Done(b) == b.stuck \/ b.moves >= MaxMoves

\* resolveTurnOrEnd.
Resolved(g, side) ==
  LET score(s) == g.board[s].score
  IN  IF ~ Done(g.board[Other(side)]) THEN [g EXCEPT !.turn = Other(side)]
      ELSE IF ~ Done(g.board[side]) THEN [g EXCEPT !.turn = side]
      ELSE [g EXCEPT !.status = "finished",
                     !.winner = IF score(0) > score(1) THEN 0
                                ELSE IF score(1) > score(0) THEN 1 ELSE -1]

\* applyMove.
AppliedMove(g, side, move) ==
  LET moved == Moved(g.board[side].grid, move)
      next(grid) ==
        LET h == [g EXCEPT !.board[side] =
                    [grid  |-> grid, score |-> @.score + moved.gained, moves |-> @.moves + 1,
                     stuck |-> LegalMoves(grid) = {}]]
        IN  IF \E c \in Cells : grid[c] >= WinTile
            THEN [h EXCEPT !.status = "finished", !.winner = side]
            ELSE Resolved(h, side)
  IN  IF g.status # "playing" \/ moved.grid = g.board[side].grid THEN {g}
      ELSE {next(grid) : grid \in Spawned(moved.grid)}
=============================================================================
