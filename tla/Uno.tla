-------------------------------- MODULE Uno --------------------------------
(***************************************************************************)
(* The UNO engine (game-engine/uno/engine.ts): operators from the state of *)
(* a game, a record, to the states it may become.                          *)
(*                                                                         *)
(* Hands and piles are sets of cards: any card of the shuffled pile may be *)
(* the one drawn.  The order of the discard pile below its top is of no    *)
(* use to the code.                                                        *)
(***************************************************************************)
EXTENDS Integers, FiniteSets

CONSTANTS Deck,      \* the cards: records of id, color, type and value
          Players,   \* how many play: 2 to 4
          HandSize   \* cards dealt to each

Sides  == 0 .. Players - 1
Colors == {c.color : c \in Deck} \ {"BLACK"}
Wild   == {"WILD", "WILD_DRAW_FOUR"}

\* getNextSide.
Following(side, direction) == (side + direction) % Players

\* A mutant of Recycled: the old discard pile stays in place.
RecycledKept(g) ==
  IF g.pile = {} /\ g.discard # {} THEN [g EXCEPT !.pile = g.discard] ELSE g

\* recycleIfEmpty: the discard pile without its top becomes the draw pile.
Recycled(g) ==
  IF g.pile = {} /\ g.discard # {} THEN [g EXCEPT !.pile = g.discard, !.discard = {}] ELSE g

Draw(g, side) ==
  LET r == Recycled(g)
  IN  IF r.pile = {} THEN {r}
      ELSE {[r EXCEPT !.pile = @ \ {c}, !.hand[side] = @ \cup {c}] : c \in r.pile}

\* drawCards.
DrawCards(g, side, count) ==
  LET drawn[n \in 0 .. count] ==
        IF n = 0 THEN {g} ELSE UNION {Draw(h, side) : h \in drawn[n - 1]}
  IN  drawn[count]

-----------------------------------------------------------------------------

\* How the starter decides who begins: a skip wraps back to the first of two players.
Started(g, starter) ==
  LET reversed == [g EXCEPT !.direction = -1, !.turn = Following(0, -1)]
      second   == [g EXCEPT !.turn = Following(0, 1)]
  IN  CASE starter.type = "SKIP"     -> {IF Players = 2 THEN g ELSE second}
        [] starter.type = "REVERSE"  -> {reversed}
        [] starter.type = "DRAW_TWO" ->
             {[second EXCEPT !.hand[0] = @ \cup d, !.pile = @ \ d] :
                d \in {s \in SUBSET g.pile : \/ Cardinality(s) = 2
                                             \/ s = g.pile /\ Cardinality(s) < 2}}
        [] OTHER -> {g}

\* createInitialState: any deal, and any starter but a WILD_DRAW_FOUR.
Deals ==
  {h \in [Sides -> SUBSET Deck] :
     /\ \A s \in Sides : Cardinality(h[s]) = HandSize
     /\ \A s, t \in Sides : s # t => h[s] \cap h[t] = {}}

InitialStates ==
  UNION {UNION {LET left == Deck \ ((UNION {deal[s] : s \in Sides}) \cup {starter})
                IN  UNION {Started([hand |-> deal, pile |-> left, discard |-> {},
                                    top |-> starter, color |-> color, direction |-> 1,
                                    turn |-> 0, status |-> "playing", winner |-> -1],
                                   starter) :
                           color \in IF starter.color = "BLACK" THEN Colors
                                     ELSE {starter.color}} :
                starter \in {c \in Deck \ UNION {deal[s] : s \in Sides} :
                               c.type # "WILD_DRAW_FOUR"}} :
         deal \in Deals}

-----------------------------------------------------------------------------

\* canPlayCard.
CanPlay(c, g) ==
  \/ c.type \in Wild
  \/ c.color = g.color
  \/ c.type = "NUMBER" /\ g.top.type = "NUMBER" /\ c.value = g.top.value
  \/ c.type # "NUMBER" /\ c.type = g.top.type

\* The PLAY_CARD entries of getLegalActions; DRAW_CARD is always legal.
Playable(g, side) == {c \in g.hand[side] : CanPlay(c, g)}

\* What a card does to the next side once it lies on the pile.
Effect(g, side, c) ==
  LET next  == Following(side, g.direction)
      after == Following(next, g.direction)
      turn(h, t) == [h EXCEPT !.turn = t]
  IN  CASE c.type = "SKIP" -> {turn(g, after)}
        [] c.type = "REVERSE" ->
             {[g EXCEPT !.direction = -@,
                        !.turn = IF Players = 2 THEN side ELSE Following(side, -g.direction)]}
        [] c.type = "DRAW_TWO" -> {turn(h, after) : h \in DrawCards(g, next, 2)}
        [] c.type = "WILD_DRAW_FOUR" -> {turn(h, after) : h \in DrawCards(g, next, 4)}
        [] OTHER -> {turn(g, next)}

\* A mutant of Play: the hand is looked at after the effects of the card.
PlayLate(g, c, color) ==
  LET side == g.turn
      laid == [g EXCEPT !.hand[side] = @ \ {c}, !.discard = @ \cup {g.top}, !.top = c,
                        !.color = IF c.type \in Wild THEN color ELSE c.color]
      done(h) == IF h.hand[h.turn] = {} THEN [h EXCEPT !.status = "finished", !.winner = h.turn]
                 ELSE h
  IN  {done(h) : h \in Effect(laid, side, c)}

\* PLAY_CARD in applyAction: the last card wins before it takes effect.
Play(g, c, color) ==
  LET side == g.turn
      laid == [g EXCEPT !.hand[side] = @ \ {c}, !.discard = @ \cup {g.top}, !.top = c,
                        !.color = IF c.type \in Wild THEN color ELSE c.color]
  IN  IF laid.hand[side] = {}
      THEN {[laid EXCEPT !.status = "finished", !.winner = side]}
      ELSE Effect(laid, side, c)

\* DRAW_CARD in applyAction, with the card that was drawn: a card that can be played
\* keeps the turn.
DrawCard(g) ==
  LET side  == g.turn
      pass(h) == [h EXCEPT !.turn = Following(side, g.direction)]
      r     == Recycled(g)
  IN  IF r.pile = {} THEN {[g |-> pass(r), card |-> {}]}
      ELSE {LET h == [r EXCEPT !.pile = @ \ {c}, !.hand[side] = @ \cup {c}]
            IN  [g |-> IF CanPlay(c, h) THEN h ELSE pass(h), card |-> {c}] : c \in r.pile}
=============================================================================
