----------------------------- MODULE Marrakech -----------------------------
(***************************************************************************)
(* The Marrakech engine (game-engine/marrakech): operators from the state  *)
(* of a game, a record, to the next one.                                   *)
(*                                                                         *)
(* A carpet is known by its two cells, as long as both of them are seen.   *)
(***************************************************************************)
EXTENDS Integers, Sequences, FiniteSetsExt

CONSTANTS Size,      \* MARRAKECH_BOARD_SIZE
          Players,   \* numPlayers
          Dirhams,   \* STARTING_DIRHAMS
          Carpets,   \* CARPETS_PER_PLAYER
          DiceFaces  \* DICE_FACES

Ids   == 0 .. Players - 1
Cells == (1 .. Size) \X (1 .. Size)
Bare  == [player |-> -2, carpet |-> {}]   \* a cell without a carpet; an eliminated
Dead  == -1                               \* player's carpets belong to Dead

Vector    == [N |-> <<-1, 0>>, S |-> <<1, 0>>, E |-> <<0, 1>>, W |-> <<0, -1>>]
Directions == DOMAIN Vector
Opposite  == [N |-> "S", S |-> "N", E |-> "W", W |-> "E"]

Towards(pos, dir) == <<pos[1] + Vector[dir][1], pos[2] + Vector[dir][2]>>

\* createInitialState.
InitialState ==
  LET middle == (Size + 1) \div 2
  IN  [board |-> [c \in Cells |-> Bare], pos |-> <<middle, middle>>, dir |-> "N", left |-> 0,
       dirhams |-> [p \in Ids |-> Dirhams], carpets |-> [p \in Ids |-> Carpets],
       eliminated |-> {}, current |-> 0, phase |-> "orient", winner |-> -1]

\* getValidDirections: straight on, left or right.
ValidDirections(g) == Directions \ {Opposite[g.dir]}

\* moveAssamUntilBorderOrDone.
MovedAssam(g, steps) ==
  LET room == CASE g.dir = "N" -> g.pos[1] - 1 [] g.dir = "S" -> Size - g.pos[1]
                [] g.dir = "W" -> g.pos[2] - 1 [] g.dir = "E" -> Size - g.pos[2]
      n    == Min({steps, room})
      v    == Vector[g.dir]
  IN  [g EXCEPT !.pos = <<@[1] + n * v[1], @[2] + n * v[2]>>, !.left = steps - n,
                !.phase = IF n < steps THEN "borderChoice" ELSE "tribute"]

\* orientAssam and rollAndMoveAssam.
OrientAndRoll(g, dir, steps) == MovedAssam([g EXCEPT !.dir = dir], steps)

\* A mutant of BorderOptions: a corner offers both turns.
BorderOptionsUnchecked(g) == IF g.dir \in {"N", "S"} THEN {"W", "E"} ELSE {"N", "S"}

\* getBorderTurnOptions: along the border.
BorderOptions(g) ==
  {d \in IF g.dir \in {"N", "S"} THEN {"W", "E"} ELSE {"N", "S"} : Towards(g.pos, d) \in Cells}

\* continueAfterBorderChoice: one step aside, then back the way he came.
ChooseBorder(g, dir) ==
  MovedAssam([g EXCEPT !.pos = Towards(@, dir), !.dir = Opposite[@]], g.left - 1)

\* floodFill: the cells of a player that hang together with a cell.
Patch(board, start) ==
  LET mine == {c \in Cells : board[c].player = board[start].player}
      reach[n \in 0 .. Size * Size] ==
        IF n = 0 THEN {start}
        ELSE LET near == reach[n - 1]
             IN  {c \in mine : c \in near \/ \E d \in Directions : Towards(c, d) \in near}
  IN  reach[Size * Size]

\* calculateTribute: nothing on a bare cell, an own or a dead carpet.
TributeDue(g) ==
  LET owner == g.board[g.pos].player
  IN  IF owner \in Ids \ {g.current} THEN Cardinality(Patch(g.board, g.pos)) ELSE 0

\* calculateFinalScores, sorted: the total, then the dirhams, then the lower seat.
Visible(g, p) == Cardinality({c \in Cells : g.board[c].player = p})
Total(g, p)   == g.dirhams[p] + Visible(g, p)
Leads(g, p, q) ==
  \/ Total(g, p) > Total(g, q)
  \/ Total(g, p) = Total(g, q) /\ g.dirhams[p] > g.dirhams[q]
  \/ Total(g, p) = Total(g, q) /\ g.dirhams[p] = g.dirhams[q] /\ p < q

Scored(g) ==
  [g EXCEPT !.phase = "gameOver",
            !.winner = CHOOSE p \in Ids : \A q \in Ids \ {p} : Leads(g, p, q)]

\* getValidPlacements: on two cells, one beside the assam and none under it, that do
\* not show the whole of another's carpet.
Placements(g) ==
  {ab \in {<<Towards(g.pos, d), Towards(Towards(g.pos, d), e)>> :
             d \in Directions, e \in Directions} :
     /\ g.current \notin g.eliminated
     /\ ab[1] \in Cells /\ ab[2] \in Cells \ {g.pos}
     /\ LET under == g.board[ab[1]]
        IN  ~ (under.carpet = {ab[1], ab[2]} /\ under.player # g.current)}

\* advanceToNextPlayer: past the eliminated, then past those without carpets, and to
\* the scores if there is nobody left.
Advance(g) ==
  LET seat(k) == (g.current + k) % Players
      alive   == {k \in 1 .. Players : seat(k) \notin g.eliminated}
      first   == IF alive = {} THEN 1 ELSE Min(alive)
      ready   == {k \in first .. first + Players :
                    seat(k) \in g.eliminated \/ g.carpets[seat(k)] > 0}
  IN  IF \A p \in Ids : p \in g.eliminated \/ g.carpets[p] = 0 THEN Scored(g)
      ELSE [g EXCEPT !.phase = "orient", !.current = seat(Min(ready))]

\* A mutant of Tribute: what is due is paid, whatever the player has.
TributePaidInFull(g) ==
  LET due == TributeDue(g)
      to  == g.board[g.pos].player
  IN  IF due = 0 THEN [g EXCEPT !.phase = "place"]
      ELSE [g EXCEPT !.dirhams[g.current] = IF due > @ THEN 0 ELSE @ - due,
                     !.dirhams[to] = @ + due, !.phase = "place"]

\* processTribute: whoever has nothing left is eliminated; the last one wins.
Tribute(g) ==
  LET due  == TributeDue(g)
      to   == g.board[g.pos].player
      pays == Min({due, g.dirhams[g.current]})
      paid == [g EXCEPT !.dirhams[g.current] = @ - pays, !.dirhams[to] = @ + pays]
      out  == [paid EXCEPT !.eliminated = @ \cup {g.current}, !.phase = "place",
                 !.board = [c \in Cells |->
                              IF @[c].player = g.current THEN [@[c] EXCEPT !.player = Dead]
                              ELSE @[c]]]
      left == Ids \ out.eliminated
  IN  IF due = 0 THEN [g EXCEPT !.phase = "place"]
      ELSE IF paid.dirhams[g.current] > 0 THEN [paid EXCEPT !.phase = "place"]
      ELSE IF Cardinality(left) <= 1
      THEN [out EXCEPT !.phase = "gameOver", !.winner = IF left = {} THEN -1 ELSE Min(left)]
      ELSE out

\* placeCarpet.
Place(g, cells) ==
  LET laid == [player |-> g.current, carpet |-> {cells[1], cells[2]}]
      h    == [g EXCEPT !.carpets[g.current] = @ - 1,
                 !.board = [c \in Cells |->
                              IF c \in laid.carpet THEN laid
                              ELSE IF @[c].carpet \cap laid.carpet = {} THEN @[c]
                              ELSE [@[c] EXCEPT !.carpet = {}]]]
  IN  IF \A p \in Ids : p \in h.eliminated \/ h.carpets[p] = 0 THEN Scored(h) ELSE Advance(h)
=============================================================================
