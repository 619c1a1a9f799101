----------------------------- MODULE PokerHands -----------------------------
(***************************************************************************)
(* Which hand of a showdown is better: hand-evaluator.ts.  The best five   *)
(* of seven cards are looked for among all fives, each of which is named   *)
(* after its straights, flushes and groups of equal ranks.                 *)
(***************************************************************************)
EXTENDS Integers, Sequences, FiniteSetsExt

\* createDeck: an ace ranks 14.
Suits == {"hearts", "diamonds", "clubs", "spades"}
Deck  == [rank : 2 .. 14, suit : Suits]

\* HAND_RANK_VALUES, without the royal flush: it is the straight flush to the ace,
\* and its tiebreaker is above that of any other.
HandRank == [straight_flush |-> 9, four_of_a_kind |-> 8, full_house |-> 7, flush |-> 6,
             straight |-> 5, three_of_a_kind |-> 4, two_pair |-> 3, one_pair |-> 2,
             high_card |-> 1]

Ranks(cards)    == {c.rank : c \in cards}
Count(cards, r) == Cardinality({c \in cards : c.rank = r})

\* Some ranks from above: the i-th has i - 1 of them above it.
Falling(ranks) ==
  [i \in 1 .. Cardinality(ranks) |->
     CHOOSE r \in ranks : Cardinality({q \in ranks : q > r}) = i - 1]

\* The ranks of five cards, larger groups first, then higher ranks.
Groups(cards) ==
  LET of(n) == Falling({r \in Ranks(cards) : Count(cards, r) = n})
  IN  of(4) \o of(3) \o of(2) \o of(1)

\* A mutant of StraightHigh: the ace below a two counts as an ace.
StraightHighAce(cards) ==
  LET ranks == Ranks(cards)
  IN  IF Cardinality(ranks) < 5 THEN 0
      ELSE IF Max(ranks) - Min(ranks) = 4 \/ ranks = {14, 5, 4, 3, 2} THEN Max(ranks) ELSE 0

\* straightHigh, or 0 if five cards are no straight.
StraightHigh(cards) ==
  LET ranks == Ranks(cards)
  IN  IF Cardinality(ranks) < 5 THEN 0
      ELSE IF Max(ranks) - Min(ranks) = 4 THEN Max(ranks)
      ELSE IF ranks = {14, 5, 4, 3, 2} THEN 5 ELSE 0

\* evaluateFiveCards: the name of a hand and what decides among those of its name.
EvaluateFiveCards(cards) ==
  LET high   == StraightHigh(cards)
      flush  == Cardinality({c.suit : c \in cards}) = 1
      groups == Groups(cards)
      size(i) == Count(cards, groups[i])
      name   == CASE flush /\ high # 0               -> "straight_flush"
                  [] size(1) = 4                     -> "four_of_a_kind"
                  [] size(1) = 3 /\ size(2) = 2      -> "full_house"
                  [] flush /\ high = 0               -> "flush"
                  [] high # 0 /\ ~ flush             -> "straight"
                  [] size(1) = 3 /\ size(2) = 1      -> "three_of_a_kind"
                  [] size(1) = 2 /\ size(2) = 2      -> "two_pair"
                  [] size(1) = 2 /\ size(2) = 1      -> "one_pair"
                  [] OTHER                           -> "high_card"
  IN  [name |-> name, tiebreaker |-> IF high # 0 THEN <<high>> ELSE groups]

\* compareHands is positive.
Beats(a, b) ==
  \/ HandRank[a.name] > HandRank[b.name]
  \/ /\ a.name = b.name
     /\ \E i \in DOMAIN a.tiebreaker :
          /\ a.tiebreaker[i] > b.tiebreaker[i]
          /\ \A j \in 1 .. i - 1 : a.tiebreaker[j] = b.tiebreaker[j]

\* evaluateHand.
EvaluateHand(cards) ==
  LET hands == {EvaluateFiveCards(five) : five \in kSubset(5, cards)}
  IN  CHOOSE best \in hands : \A h \in hands : ~ Beats(h, best)

-----------------------------------------------------------------------------
(* The rules of the game, read off all cards at once *)

\* The ranks at which a straight among some cards may end.
StraightsTo(cards) ==
  {h \in 5 .. 14 : \A r \in h - 4 .. h : (IF r = 1 THEN 14 ELSE r) \in Ranks(cards)}

\* The first n ranks that are not among others, from above.
Kickers(cards, others, n) == SubSeq(Falling(Ranks(cards) \ others), 1, n)

\* What seven cards are worth, the best name first.
RuleHand(cards) ==
  LET atLeast(n) == {r \in Ranks(cards) : Count(cards, r) >= n}
      suited  == {S \in {{c \in cards : c.suit = s} : s \in {c.suit : c \in cards}} :
                    Cardinality(S) >= 5}
      flushes == UNION {StraightsTo(S) : S \in suited}
      first   == IF atLeast(2) = {} THEN 0
                 ELSE IF atLeast(3) # {} THEN Max(atLeast(3)) ELSE Max(atLeast(2))
      second  == Falling(atLeast(2) \ {first})
      hand(name, tiebreaker) == [name |-> name, tiebreaker |-> tiebreaker]
  IN  IF flushes # {} THEN hand("straight_flush", <<Max(flushes)>>)
      ELSE IF atLeast(4) # {}
      THEN hand("four_of_a_kind",
                <<Max(atLeast(4))>> \o Kickers(cards, {Max(atLeast(4))}, 1))
      ELSE IF atLeast(3) # {} /\ second # <<>>
      THEN hand("full_house", <<first, second[1]>>)
      ELSE IF suited # {} THEN hand("flush", Kickers(UNION suited, {}, 5))
      ELSE IF StraightsTo(cards) # {} THEN hand("straight", <<Max(StraightsTo(cards))>>)
      ELSE IF atLeast(3) # {}
      THEN hand("three_of_a_kind", <<first>> \o Kickers(cards, {first}, 2))
      ELSE IF second # <<>>
      THEN hand("two_pair", <<first, second[1]>> \o Kickers(cards, {first, second[1]}, 1))
      ELSE IF first # 0 THEN hand("one_pair", <<first>> \o Kickers(cards, {first}, 3))
      ELSE hand("high_card", Kickers(cards, {}, 5))
=============================================================================
