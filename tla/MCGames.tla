------------------------------ MODULE MCGames ------------------------------
(* An instance of GameLoops for TLC: small decks, boards and tables. *)
EXTENDS GameLoops, TLC

Card(id, color, type, value) == [id |-> id, color |-> color, type |-> type, value |-> value]

MCDeck == {Card(1, "RED", "NUMBER", 1), Card(2, "RED", "DRAW_TWO", 0),
           Card(3, "BLUE", "REVERSE", 0), Card(4, "BLUE", "SKIP", 0),
           Card(5, "BLACK", "WILD", 0), Card(6, "BLACK", "WILD_DRAW_FOUR", 0)}

MCMissed == [uno |-> 3, werewolf |-> 2, marrakech |-> 1, chess |-> 3, rps |-> 3,
             poker |-> 0, reversi |-> 0] @@ ("2048" :> 2)

\* Two wolves and a seer among six are the fewest that reach two days.
MCRoles == {[s \in 0 .. 5 |-> <<"WEREWOLF", "SEER", "WEREWOLF", "VILLAGER", "VILLAGER",
                                "VILLAGER">>[s + 1]]}

\* Cards with straights to the five, the six, the king and the ace, flushes, and groups of
\* all sizes: six of hearts each, and others of some of their ranks.
Dealt(ranks, others) ==
  {[rank |-> r, suit |-> "hearts"] : r \in ranks}
    \cup {[rank |-> o[1], suit |-> o[2]] : o \in others}

MCDecks == {Dealt({14, 2, 3, 4, 5, 6}, {14, 5} \X {"spades", "clubs", "diamonds"}),
            Dealt({9, 10, 11, 12, 13, 14}, {<<14, "spades">>, <<13, "spades">>, <<13, "clubs">>,
                                            <<9, "spades">>, <<9, "clubs">>, <<2, "clubs">>})}
=============================================================================
