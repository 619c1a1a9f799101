------------------------------ MODULE GameLoops ------------------------------
(***************************************************************************)
(* The loops of the match manager and the turn controllers for the games   *)
(* other than poker, over the engines of those games, and what the timer   *)
(* of a match makes of one that is not over.  A match is of one type; of a *)
(* poker match everything is in Poker but the ranks of the hands.          *)
(*                                                                         *)
(* Sides are 0, 1, ...; whoever is asked answers in time, with a legal     *)
(* move or not, or misses the turn.                                        *)
(***************************************************************************)
EXTENDS Poker

CONSTANTS GameTypes,                              \* the types of match to look at
          DbErrors,                               \* bound: failing writes of a chess move
          MaxMissed,                              \* bound: missed turns of a match, by type
          UnoDeck, UnoPlayers, UnoHand,
          RpsBestOf, RpsMaxRounds,                \* RPS_BEST_OF, RPS_MAX_ROUNDS
          RoleDeals, MaxCycles, MaxTalks,
          Size2048, WinTile, MaxMoves2048,
          MkSize, MkDirhams, MkCarpets, MkDice,
          MkIdle,                  \* bound: carpets left when turns are missed or skipped
          Decks                    \* bound: the cards seven of which make a hand

VARIABLES gameType,
          game,    \* the state the engine of the match works on
          table    \* of the match: its status, the timeouts in activeMatches, those the
                   \* controller has seen, the turns missed, who was ahead when the match
           \* manager last took over the state of the game, and how it ended

loopVars == <<gameType, game, table>>

U == INSTANCE Uno WITH Deck <- UnoDeck, Players <- UnoPlayers, HandSize <- UnoHand
T == INSTANCE Game2048 WITH Size <- Size2048, MaxMoves <- MaxMoves2048
W == INSTANCE Werewolf
M == INSTANCE Marrakech WITH Size <- MkSize, Players <- 2, Dirhams <- MkDirhams,
                             Carpets <- MkCarpets, DiceFaces <- MkDice
H == INSTANCE PokerHands

ASSUME RpsAssumption == RpsBestOf \in Nat \ {0} /\ RpsMaxRounds \in Nat \ {0}
ASSUME UnoAssumption ==
  /\ IsFiniteSet(UnoDeck) /\ UnoPlayers \in 2 .. 4 /\ UnoHand \in Nat \ {0}
  /\ \A c \in UnoDeck : c.color = "BLACK" <=> c.type \in U!Wild
ASSUME RolesAssumption ==
  /\ IsFiniteSet(W!Sides) /\ W!Sides \in SUBSET Nat /\ RoleDeals # {} /\ MaxCycles \in Nat \ {0}
  /\ \A roles \in RoleDeals :
       LET wolves == {s \in W!Sides : roles[s] = "WEREWOLF"}
       IN  wolves # {} /\ Cardinality(wolves) < Cardinality(W!Sides \ wolves)
ASSUME DuelAssumption == MaxMoves2048 \in Nat \ {0} /\ Size2048 \in Nat \ {0, 1}
ASSUME DecksAssumption == \A deck \in Decks : deck \subseteq H!Deck
ASSUME MkAssumption ==
  {MkSize, MkDirhams, MkCarpets} \subseteq Nat \ {0} /\ MkDice \subseteq Nat

Throws == {"rock", "paper", "scissors"}
Beats  == [rock |-> "scissors", scissors |-> "paper", paper |-> "rock"]

\* createUnoMatch, create2048Match, createWerewolfMatch, createMarrakechMatch,
\* createRpsMatch, createChessMatch and createReversiMatch: the states a match may begin
\* with.
UnoBegins       == {[g |-> g, drawn |-> {}] : g \in U!InitialStates}
Game2048Begins  == T!InitialStates
WerewolfBegins  == W!InitialStates
MarrakechBegins == {M!InitialState}
RpsBegins       == {[scores |-> [s \in {0, 1} |-> 0], rounds |-> 0, phase |-> "waiting_moves"]}
ChessBegins     == {[turn |-> 0, over |-> "no", dbErrors |-> 0]}
ReversiBegins   == {[turn |-> 0]}

Seats(type) == CASE type = "uno" -> U!Sides [] type = "werewolf" -> W!Sides [] OTHER -> {0, 1}

Begins(type) ==
  CASE type = "uno" -> UnoBegins [] type = "2048" -> Game2048Begins
    [] type = "werewolf" -> WerewolfBegins [] type = "marrakech" -> MarrakechBegins
    [] type = "rps" -> RpsBegins [] type = "chess" -> ChessBegins
    [] type = "reversi" -> ReversiBegins
    [] OTHER -> {[none |-> 0]}

LoopInit ==
  /\ Init
  /\ gameType \in GameTypes
  /\ game \in Begins(gameType)
  /\ LET none == [s \in Seats(gameType) |-> 0]
     IN  table = [status |-> "active", timeouts |-> none, seen |-> none, missed |-> none,
                  ahead |-> -1, why |-> "none", winner |-> -1]

-----------------------------------------------------------------------------

\* endMatch, with the side that is to win or -1.
Ended(t, why, winner) == [t EXCEPT !.status = "over", !.why = why, !.winner = winner]

\* A mutant of Counted: the counts of the other sides are forgotten.
CountedAlone(t, side) ==
  [t EXCEPT !.timeouts = [s \in DOMAIN @ |-> IF s = side THEN t.seen[s] + 1 ELSE 0],
            !.missed[side] = @ + 1]

\* trackTimeout: one more than the controller saw when the turn began.
Counted(t, side) ==
  [t EXCEPT !.timeouts = [t.seen EXCEPT ![side] = @ + 1], !.missed[side] = @ + 1]

\* The side that has more than any other, or -1.
Ahead(f) ==
  LET best == {s \in DOMAIN f : \A t \in (DOMAIN f) \ {s} : f[s] > f[t]}
  IN  IF best = {} THEN -1 ELSE Min(best)

Late(t) == {s \in DOMAIN t.timeouts : t.timeouts[s] >= MaxTimeouts}

\* What a loop does after a turn: the game is over, or a side has missed too many
\* turns and the other one, if there is only one, wins; or the next turn begins.
Concluded(t, over, why, winner) ==
  IF over THEN Ended(t, why, winner)
  ELSE IF Late(t) # {}
  THEN Ended(t, "timeout",
             IF Cardinality(DOMAIN t.timeouts) = 2 THEN 1 - Min(Late(t)) ELSE -1)
  ELSE [t EXCEPT !.seen = t.timeouts]

Playing(type) ==
  /\ gameType = type /\ table.status = "active"
  /\ UNCHANGED <<vars, gameType>>

\* Whether a request is answered; no more than a bound of a match are not.
Answers == {TRUE} \cup {b \in {FALSE} : SumFunction(table.missed) < MaxMissed[gameType]}

\* The table after a request that was answered or missed.
Asked(side, answered) == IF answered THEN table ELSE Counted(table, side)

-----------------------------------------------------------------------------
(* UNO *)

\* runUnoGameLoop, after a turn or, with a drawn card, in the middle of one.
UnoNext(h, drawn, t) ==
  /\ game' = [g |-> h, drawn |-> drawn]
  /\ table' = IF drawn # {} THEN t
              ELSE Concluded(t, h.status = "finished", "score", h.winner)

\* requestAction: the cards a reply comes to.  A reply that is not offered is replaced by
\* the first card that is, but a wild card named by its type is accepted.
UnoReplies(g, offered, answered) ==
  offered \cup {w \in g.hand[g.turn] : answered /\ w.type \in U!Wild}

\* executeTurn: a card is played or drawn.  Without an answer, or with one that makes
\* no sense, any card that can be played is, and only without one a card is drawn.
UnoTurn ==
  /\ Playing("uno") /\ game.drawn = {}
  /\ LET g == game.g
         playable == U!Playable(g, g.turn)
     IN  \E answered \in Answers :
           LET t == Asked(g.turn, answered)
           IN  \/ \E c \in UnoReplies(g, playable, answered), color \in U!Colors :
                    \E h \in U!Play(g, c, color) : UnoNext(h, {}, t)
               \/ /\ answered \/ playable = {}
                  /\ \E d \in U!DrawCard(g) :
                        UnoNext(d.g, IF d.g.turn = g.turn THEN d.card ELSE {}, t)

\* The second request of a turn, after a card that can be played was drawn.
UnoFollowUp ==
  /\ Playing("uno") /\ game.drawn # {}
  /\ \E answered \in Answers, color \in U!Colors :
       \E c \in UnoReplies(game.g, game.drawn, answered) :
          \E h \in U!Play(game.g, c, color) :
             UnoNext(h, {}, Asked(game.g.turn, answered))

-----------------------------------------------------------------------------
(* 2048 *)

\* requestMove: a wrong answer or none is the first legal move.
Game2048Replies(grid, answered) ==
  IF answered THEN T!LegalMoves(grid) ELSE {T!FirstLegal(grid)}

\* run2048GameLoop, after a turn.
Game2048Next(h, t) ==
  /\ game' = h
  /\ table' = Concluded(t, h.status = "finished",
                        IF h.winner = -1 THEN "draw" ELSE "score", h.winner)

\* executeTurn.
Game2048Turn ==
  /\ Playing("2048")
  /\ \E answered \in Answers :
       \E move \in Game2048Replies(game.board[game.turn].grid, answered) :
          \E h \in T!AppliedMove(game, game.turn, move) :
             Game2048Next(h, Asked(game.turn, answered))

-----------------------------------------------------------------------------
(* Werewolf *)

\* The side a match is won by: the first of the winning team, dead or alive.
Representative(g) ==
  IF g.winner \in {"VILLAGERS", "WEREWOLVES"}
  THEN Min({s \in W!Sides : (g.role[s] = "WEREWOLF") = (g.winner = "WEREWOLVES")})
  ELSE -1

\* runWerewolfGameLoop, after a turn.
WerewolfNext(h, t) ==
  /\ game' = h
  /\ table' = Concluded(t, h.status = "finished", IF h.winner = "DRAW" THEN "draw" ELSE "score",
                        Representative(h))

\* requestAction: a wrong answer or none is a random action; a bot, and whoever does not
\* answer, votes for another in the day where there is one.
WerewolfReplies(g, side, answered) ==
  LET legal  == W!LegalActions(g, side)
      others == legal \ {side}
  IN  IF ~ answered /\ g.phase = "DAY_VOTE" /\ others # {} THEN others ELSE legal

\* executeTurn.
WerewolfTurn ==
  /\ Playing("werewolf")
  /\ LET side == game.active
     IN  \E answered \in Answers : \E action \in WerewolfReplies(game, side, answered) :
            \E h \in W!Apply(game, side, action) : WerewolfNext(h, Asked(side, answered))

-----------------------------------------------------------------------------
(* Marrakech *)

\* Who is ahead in cells and dirhams, or in dirhams alone if that is level.
MkAhead(g) ==
  LET total == Ahead([p \in {0, 1} |-> M!Total(g, p)])
  IN  IF total # -1 THEN total ELSE Ahead(g.dirhams)

\* runMarrakechGameLoop, after a turn.
MkNext(h, t) ==
  /\ game' = h
  /\ table' = [Concluded(t, h.phase = "gameOver", "score", h.winner) EXCEPT !.ahead = MkAhead(h)]

\* handleTimeout, and the turn goes on.
MkMiss == MkNext(M!Advance(game), Counted(table, game.current))

\* A side turns the assam and rolls; it misses its turn if it does not answer or
\* turns him back.  It has a carpet: Advance passes over those without one.
MkOrient ==
  /\ Playing("marrakech") /\ game.phase = "orient"
  /\ \/ FALSE \in Answers /\ SumFunction(game.carpets) <= MkIdle /\ MkMiss
     \/ \E dir \in M!ValidDirections(game), steps \in MkDice :
          /\ game' = M!OrientAndRoll(game, dir, steps)
          /\ UNCHANGED table

\* At the border it chooses a way; the first one if it does not answer.
MkBorder ==
  /\ Playing("marrakech") /\ game.phase = "borderChoice"
  /\ \E dir \in M!BorderOptions(game) : game' = M!ChooseBorder(game, dir)
  /\ UNCHANGED table

\* A tribute may end the game; else the turn goes on.
MkTribute ==
  /\ Playing("marrakech") /\ game.phase = "tribute"
  /\ LET h == M!Tribute(game)
     IN  IF h.phase = "gameOver" THEN MkNext(h, table)
         ELSE game' = h /\ UNCHANGED table

\* It lays a carpet or skips; the first placement if it does not answer.
MkPlace ==
  /\ Playing("marrakech") /\ game.phase = "place"
  /\ \/ \E cells \in M!Placements(game) : MkNext(M!Place(game, cells), table)
     \/ /\ SumFunction(game.carpets) <= MkIdle \/ M!Placements(game) = {}
        /\ MkNext(M!Advance(game), table)

-----------------------------------------------------------------------------
(* Rock, paper, scissors *)

\* A mutant of RpsOver: half of the rounds, rounded down, are enough.
RpsOverEarly(g) ==
  \/ \E s \in {0, 1} : g.scores[s] >= RpsBestOf \div 2
  \/ g.rounds >= RpsMaxRounds

RpsOver(g) ==
  \/ \E s \in {0, 1} : g.scores[s] >= (RpsBestOf + 1) \div 2
  \/ g.rounds >= RpsMaxRounds

\* determineRoundWinner: the sides that win the round, none or one.
RpsRoundWinner(throw) == {s \in {0, 1} : Beats[throw[s]] = throw[1 - s]}

\* requestThrow of both: whoever does not answer in time throws at random.  Each count
\* starts from those of the beginning of the round, so that the later takes the other back.
RpsMissed(missing) ==
  LET t == [table EXCEPT !.missed = [s \in {0, 1} |-> @[s] + Cardinality(missing \cap {s})]]
  IN  IF missing = {} THEN {t}
      ELSE {[t EXCEPT !.timeouts = [table.seen EXCEPT ![last] = @ + 1]] : last \in missing}

\* executeRound: both are asked at once, and what they throw is shown for a while.
RpsRound ==
  /\ Playing("rps") /\ game.phase = "waiting_moves"
  /\ \E throw \in [{0, 1} -> Throws], missing \in SUBSET {0, 1} :
       LET round == RpsRoundWinner(throw)
       IN  game' = [scores |-> [s \in {0, 1} |-> game.scores[s] + Cardinality(round \cap {s})],
                    rounds |-> game.rounds + 1, phase |-> "revealing"]
           /\ table' \in RpsMissed(missing)

\* runRpsGameLoop, after a round.  No count of timeouts ends this loop.
RpsRevealed ==
  /\ Playing("rps") /\ game.phase = "revealing"
  /\ game' = [game EXCEPT !.phase = "waiting_moves"]
  /\ LET ahead == Ahead(game.scores)
         t     == [table EXCEPT !.ahead = ahead]
     IN  table' = IF RpsOver(game) THEN Ended(t, IF ahead = -1 THEN "draw" ELSE "score", ahead)
                  ELSE [t EXCEPT !.seen = t.timeouts]

-----------------------------------------------------------------------------
(* Chess: the rules are those of chess.js *)

\* handleTimeout.
ChessMiss(side) == Counted(table, side)

\* A mutant of ChessWinner: the side that is mated is taken for the one that mates.
ChessWinnerToMove(g) == IF g.over = "mate" THEN g.turn ELSE -1

\* getWinner: the side that is not to move.
ChessWinner(g) == IF g.over = "mate" THEN 1 - g.turn ELSE -1

\* runChessGameLoop, after a turn that reports the end of the game or does not.
ChessConcluded(h, t, reported) ==
  /\ game' = h
  /\ table' = Concluded(t, reported, IF h.over = "draw" THEN "draw" ELSE "score", ChessWinner(h))

\* executeTurn: a wrong move is a missed turn, and the same side is asked again.
ChessTurn ==
  /\ Playing("chess") /\ game.over = "no"
  /\ \/ ChessConcluded(game, ChessMiss(game.turn), FALSE)
     \/ \E over \in {"no", "mate", "draw"} :
          LET h == [game EXCEPT !.turn = 1 - @, !.over = over]
          IN  \/ ChessConcluded(h, table, over # "no")
              \* the write of the move fails: the error is counted as a timeout of the
              \* side that is now to move, and the turn is not reported as the last
              \/ /\ game.dbErrors < DbErrors
                 /\ LET e == [h EXCEPT !.dbErrors = @ + 1]
                    IN  ChessConcluded(e, [ChessMiss(e.turn) EXCEPT !.missed = table.missed], FALSE)

\* The top of the loop finds a position without moves.
ChessOver ==
  /\ Playing("chess") /\ game.over # "no"
  /\ ChessConcluded(game, table, TRUE)

-----------------------------------------------------------------------------

(* Reversi, or any other type of match no engine is named after *)

\* The engine of all these matches is that of "chess", a stub: a board without pieces
\* and without moves, and a game that is never over.
BoardMoves == {}
BoardOver  == FALSE

\* executeTurn: handleNoLegalMoves passes, and the other side is asked.
BoardTurn ==
  /\ Playing("reversi") /\ BoardMoves = {}
  /\ game' = [game EXCEPT !.turn = 1 - @]
  /\ table' = Concluded(table, BoardOver, "score", -1)

-----------------------------------------------------------------------------
(* The timer of the match *)

\* handleMatchTimeout with determineWinner: whom the match may go to.  The material on
\* a chess board may be anybody's; level throws go to whoever was ahead when the loop
\* last looked, the state of Marrakech is the one it had before the turn.
OnTime ==
  CASE gameType = "uno"       -> {Ahead([s \in U!Sides |-> -Cardinality(game.g.hand[s])])}
    [] gameType = "2048"      -> {Ahead([s \in {0, 1} |-> game.board[s].score])}
    [] gameType = "werewolf"  -> {IF W!Others(game) = {} THEN -1 ELSE Min(W!Others(game))}
    [] gameType = "marrakech" -> {table.ahead}
    [] gameType = "rps"       -> {LET ahead == Ahead(game.scores)
                                  IN  IF ahead = -1 THEN table.ahead ELSE ahead}
    [] gameType = "chess"     -> {-1, 0, 1}
    [] OTHER                  -> {-1}

\* The match ends while its loop waits for a turn or a pause.
ClockFires ==
  /\ table.status = "active" /\ gameType # "poker"
  /\ \E winner \in OnTime : table' = Ended(table, "clock", winner)
  /\ UNCHANGED <<vars, gameType, game>>

-----------------------------------------------------------------------------

PokerStep == gameType = "poker" /\ Next /\ UNCHANGED loopVars

Turn ==
  \/ UnoTurn \/ UnoFollowUp \/ Game2048Turn \/ WerewolfTurn
  \/ MkOrient \/ MkBorder \/ MkTribute \/ MkPlace
  \/ RpsRound \/ RpsRevealed \/ ChessTurn \/ ChessOver \/ BoardTurn

\* A match that is over stays so; any other that can do nothing is a deadlock.
Over == (table.status = "over" \/ phase = "over") /\ UNCHANGED <<vars, loopVars>>

LoopNext == Turn \/ ClockFires \/ PokerStep \/ Over

allVars == <<vars, loopVars>>

LoopSpec == LoopInit /\ [][LoopNext]_allVars
-----------------------------------------------------------------------------
(* Properties *)

OfType(type) == gameType = type

\* The engine and the table of a match are of the types the loops rely on; the assam
\* is on the board.
LoopTypeOK ==
  /\ table.status \in {"active", "over"} /\ table.winner \in Seats(gameType) \cup {-1}
  /\ \A f \in {table.timeouts, table.seen, table.missed} : f \in [Seats(gameType) -> Nat]
  /\ OfType("uno") => game.g.turn \in U!Sides /\ game.g.color \in U!Colors
  /\ OfType("2048") => \A s \in {0, 1} : game.board[s].moves \in 0 .. MaxMoves2048
  /\ OfType("werewolf") => game.cycle \in 1 .. MaxCycles /\ game.alive \subseteq W!Sides
  /\ OfType("marrakech") => game.pos \in M!Cells /\ game.left \in Nat
  /\ OfType("rps") => game.rounds \in 0 .. RpsMaxRounds
  /\ TypeOK

\* UNO: through plays, draws, penalties and recycled piles every card of the deck is in
\* exactly one hand or pile.
CardsKept ==
  OfType("uno") =>
    LET g == game.g
        all == (UNION {g.hand[s] : s \in U!Sides}) \cup g.pile \cup g.discard \cup {g.top}
    IN  /\ all = UnoDeck
        /\ Cardinality(UnoDeck) = SumFunction([s \in U!Sides |-> Cardinality(g.hand[s])])
                                  + Cardinality(g.pile) + Cardinality(g.discard) + 1

\* UNO: whoever plays its last card wins, whatever that card does to the others, and
\* nobody without cards is asked again.  On time nobody wins with more cards than another.
EmptyHandWins ==
  OfType("uno") =>
    \A s \in U!Sides :
      /\ game.g.hand[s] = {} <=> (table.why = "score" /\ table.winner = s)
      /\ table.why = "clock" /\ table.winner # -1 =>
           Cardinality(game.g.hand[table.winner]) <= Cardinality(game.g.hand[s])

\* A side that is asked has something it can do: without a legal move or action the
\* loops of 2048 and werewolf would ask it again and again.
AskedCanAct ==
  table.status = "active" =>
    /\ OfType("2048") => LET b == game.board[game.turn]
                         IN  T!LegalMoves(b.grid) # {} /\ b.moves < MaxMoves2048
    /\ OfType("werewolf") => W!LegalActions(game, game.active) # {}

\* What has been earned by merging twos up to a tile v.
Earned[v \in Nat] == IF v <= 2 THEN 0 ELSE v + 2 * Earned[v \div 2]

\* 2048: a score is what merging earned.  For a four that was given, and did not have to be
\* merged, this is 4 less than what its tile shows; how many of those there were follows
\* from the sum of the tiles and the number of moves.
ScoreIsEarned ==
  OfType("2048") =>
    \A s \in {0, 1} :
      LET b == game.board[s]
      IN  b.score + 2 * SumFunction(b.grid)
            = 4 * (b.moves + 2) + SumFunction([c \in T!Cells |-> Earned[b.grid[c]]])

\* 2048: a row of four is slid as it should be: each tile of the result is one tile of
\* the row or two equal neighbours, and a tile that stays alone differs from the next
\* one of the row, so that pairs are made from the front and none is merged again.
PairsMergeOnce ==
  OfType("2048") /\ game.board[0].moves + game.board[1].moves = 0 =>
    \A row \in UNION {[1 .. n -> {2, 4, 8}] : n \in 1 .. 4} :
      LET res == T!Slid(row)
          n   == Len(res.row)
      IN  \E from \in [1 .. n -> 1 .. Len(row)] :
            LET next == [k \in 1 .. n |-> IF k = n THEN Len(row) + 1 ELSE from[k + 1]]
            IN  /\ from[1] = 1
                /\ \A k \in 1 .. n :
                     \/ /\ next[k] = from[k] + 1 /\ res.row[k] = row[from[k]]
                        /\ next[k] <= Len(row) => row[next[k]] # row[from[k]]
                     \/ /\ next[k] = from[k] + 2 /\ row[from[k]] = row[from[k] + 1]
                        /\ res.row[k] = 2 * row[from[k]]

\* Werewolf: the team that has won has really won, and the side that is paid for it is
\* of that team, on time of the others and alive; while the match goes on there is a wolf alive and, when a discussion
\* or a night begins, there are more others than wolves.
TeamsDecide ==
  OfType("werewolf") =>
    LET wolves == W!Wolves(game)
        others == W!Others(game)
        ahead  == Cardinality(others) > Cardinality(wolves)
    IN  /\ game.status = "playing" => wolves # {} /\ ahead
        /\ game.winner = "VILLAGERS" => wolves = {} /\ game.role[table.winner] # "WEREWOLF"
        /\ game.winner = "WEREWOLVES" => wolves # {} /\ ~ ahead
                                         /\ game.role[table.winner] = "WEREWOLF"
        /\ table.why = "clock" => table.winner \in others
        /\ Cardinality(W!Sides \ game.alive) <= 2 * game.cycle

\* Marrakech: the dirhams only change hands; a side without any is out; and a match
\* that was played to its end is won by whoever was not eliminated or else has the most
\* dirhams and cells together.  On time nobody wins who was behind when the turn began.
DirhamsDecide ==
  OfType("marrakech") =>
    /\ game.dirhams[0] + game.dirhams[1] = 2 * MkDirhams
    /\ \A p \in {0, 1} : game.dirhams[p] = 0 <=> p \in game.eliminated
    /\ table.why = "score" =>
         /\ table.winner \in {0, 1} \ game.eliminated
         /\ game.eliminated = {} =>
              /\ game.carpets = [p \in {0, 1} |-> 0]
              /\ M!Total(game, table.winner) >= M!Total(game, 1 - table.winner)
    /\ table.why = "clock" /\ table.winner # -1 /\ game.phase = "orient" =>
         M!Total(game, table.winner) >= M!Total(game, 1 - table.winner)

\* A match ends with the result that was played.  Rock, paper, scissors: not before a
\* side has the wins it needs or the rounds are used up, and the side that has more wins,
\* on time none that has fewer.  Chess: what is on the board, or missed turns without
\* one; a position without moves is lost on time only if a write of a move failed.  A match
\* of a type without an engine is never won.
ResultIsPlayed ==
  table.status = "over" =>
    /\ OfType("rps") =>
         /\ table.why # "clock" =>
              /\ \/ game.rounds = RpsMaxRounds
                 \/ \E s \in {0, 1} : game.scores[s] = (RpsBestOf + 1) \div 2
              /\ table.winner = -1 <=> game.scores[0] = game.scores[1]
         /\ table.winner # -1 => game.scores[table.winner] >= game.scores[1 - table.winner]
    /\ OfType("chess") =>
         /\ table.why = "score" => game.over = "mate" /\ table.winner = 1 - game.turn
         /\ table.why = "draw" => game.over = "draw"
         /\ table.why = "timeout" /\ game.dbErrors = 0 => game.over = "no"
    /\ OfType("reversi") => table.why = "clock" /\ table.winner = -1

\* Poker: the best five of seven cards, found by comparing all fives with one another,
\* are what the rules make of the seven at once: aces above and below a straight, two
\* triples, three pairs, and flushes beside them included.
HandsRanked ==
  OfType("poker") /\ hand = 0 /\ phase = "hand" /\ restarts = 0 =>
    \A deck \in Decks : \A cards \in kSubset(7, deck) : H!EvaluateHand(cards) = H!RuleHand(cards)

\* The turns a side has missed are counted against it and no other: never more than it
\* missed, unless writes fail, and at least every other one, although UNO counts the
\* second of a turn from the counts of the first.
MissesAreCounted ==
  OfType("uno") \/ OfType("2048") \/ OfType("werewolf") \/ OfType("chess") =>
    \A s \in DOMAIN table.missed :
      /\ table.timeouts[s] <= table.missed[s] + (IF OfType("chess") THEN game.dbErrors ELSE 0)
      /\ table.missed[s] <= 2 * table.timeouts[s] + (IF OfType("chess") THEN game.dbErrors ELSE 0)

\* How far a werewolf match has come: cycle, phase, and who has spoken or voted in it.
WerewolfProgress(g) ==
  <<g.cycle,
    [NIGHT_WOLVES |-> 0, NIGHT_SEER |-> 1, DAY_DISCUSSION |-> 2, DAY_VOTE |-> 3,
     FINISHED |-> 4][g.phase],
    IF g.phase = "DAY_DISCUSSION" THEN SumFunction(g.talks) ELSE Cardinality(g.voted)>>

\* How far a match of throws has come: a round is thrown, then shown.
RpsProgress(g) == <<g.rounds, IF g.phase = "revealing" THEN 0 ELSE 1>>

\* How far a poker match has come: hand, street, phase, and actions on the street.
PokerProgress ==
  <<hand,
    [preflop |-> 0, flop |-> 1, turn |-> 2, river |-> 3, showdown |-> 4][street],
    [act |-> 0, resolve |-> 1, resolved |-> 2, hand |-> 3, over |-> 4][phase],
    Len(actions)>>

\* One tuple comes after another: it is larger in the first place where they differ.
After(a, b) == \E i \in DOMAIN a : a[i] > b[i] /\ \A j \in 1 .. i - 1 : a[j] = b[j]

\* The matches whose length is limited come to their end: whatever is answered or
\* missed, every turn brings a round, a move, a vote, an action or a hand more, and no
\* sequence of draws, ties, all_ins, short blinds or stuck sides keeps a loop going.
TurnsRunOut ==
  [][/\ OfType("rps") => After(RpsProgress(game'), RpsProgress(game)) \/ table'.why = "clock"
     /\ OfType("2048") => game'.board[0].moves + game'.board[1].moves
                             > game.board[0].moves + game.board[1].moves
                          \/ table'.why = "clock"
     /\ OfType("werewolf") => \/ After(WerewolfProgress(game'), WerewolfProgress(game))
                              \/ table'.why = "clock"
     /\ OfType("poker") => restarts' > restarts \/ After(PokerProgress', PokerProgress)]_allVars

=============================================================================
