------------------------------- MODULE Poker -------------------------------
(***************************************************************************)
(* A poker match: the engine (engine.ts, betting.ts), executeHand of the   *)
(* turn controller, the poker game loop of the match manager and what a    *)
(* recovery after a restart makes of them.                                 *)
(*                                                                         *)
(* Sides are numbered in the order of the seats.  Cards are abstracted: at *)
(* a showdown any of the sides left may have the best hand.                *)
(***************************************************************************)
EXTENDS Integers, Sequences, FiniteSetsExt

CONSTANTS Players,      \* how many play: 2 to 9
          StartingStack, SmallBlind, BigBlind,
          MaxHands,     \* getPokerMaxHands(Players)
          MaxTimeouts,  \* missed turns that lose the match
          MaxErrors,    \* MAX_CONSECUTIVE_ERRORS
          MaxRestarts   \* bound: restarts

ASSUME PlayersAssumption == Players \in 2 .. 9
ASSUME StakesAssumption  ==
  /\ StartingStack \in Nat /\ SmallBlind \in Nat \ {0} /\ BigBlind \in Nat
  /\ SmallBlind < BigBlind /\ BigBlind < StartingStack
ASSUME LimitsAssumption ==
  /\ \A n \in {MaxHands, MaxTimeouts, MaxErrors} : n \in Nat \ {0}
  /\ MaxRestarts \in Nat

Sides == 1 .. Players
Chips == Players * StartingStack

VARIABLES
  stack, bet,                  \* per side: chips, and chips put in on this street
  pot,
  folded, allIn, eliminated,   \* sets of sides
  dealer,
  turn,                        \* currentPlayerSide
  street,
  actions,                     \* actionsThisStreet
  hand,                        \* handNumber
  phase,       \* "hand": top of the loop, "act": a side is asked, "resolve",
               \* "resolved": the pot is paid out, "over"
  timeouts,    \* the count in activeMatches
  seen,        \* the count executeHand holds since the hand began
  docTimeouts, \* the count in the match document
  missed,      \* how many turns a side has missed
  errors,      \* consecutiveErrors
  agents,      \* the sides the entry in activeMatches has an agent for
  result,      \* how the match ended and which side won, 0 for a draw
  restarts

chips  == <<stack, bet, pot>>
seats  == <<folded, allIn, eliminated, dealer, turn>>
deal   == <<street, actions, hand>>
clocks == <<timeouts, docTimeouts, missed, errors>>
vars   == <<chips, seats, deal, phase, seen, clocks, agents, result, restarts>>

TypeOK ==
  /\ stack \in [Sides -> 0 .. Chips] /\ bet \in [Sides -> 0 .. Chips] /\ pot \in 0 .. Chips
  /\ folded \subseteq Sides /\ allIn \subseteq Sides /\ eliminated \subseteq Sides
  /\ dealer \in Sides /\ turn \in Sides
  /\ street \in {"preflop", "flop", "turn", "river", "showdown"}
  /\ \A i \in DOMAIN actions : actions[i].side \in Sides /\ actions[i].amount \in 0 .. Chips
  /\ hand \in 0 .. MaxHands + restarts
  /\ phase \in {"hand", "act", "resolve", "resolved", "over"}
  /\ \A f \in {timeouts, seen, docTimeouts, missed} : f \in [Sides -> Nat]
  /\ errors \in 0 .. MaxErrors - 1 /\ agents \subseteq Sides
  /\ result.who \in 0 .. Players /\ restarts \in 0 .. MaxRestarts

Nobody == [p \in Sides |-> 0]

\* createInitialState.
Init ==
  /\ stack = [p \in Sides |-> StartingStack] /\ bet = Nobody /\ pot = 0
  /\ folded = {} /\ allIn = {} /\ eliminated = {}
  /\ dealer = 1 /\ turn = 1
  /\ street = "preflop" /\ actions = <<>> /\ hand = 0
  /\ phase = "hand"
  /\ timeouts = Nobody /\ seen = Nobody /\ docTimeouts = Nobody /\ missed = Nobody
  /\ errors = 0 /\ agents = Sides
  /\ result = [why |-> "none", who |-> 0]
  /\ restarts = 0

-----------------------------------------------------------------------------
(* Seats *)

\* The first of S after p in the order of the seats.
NextSeat(S, p) == IF \E q \in S : q > p THEN Min({q \in S : q > p}) ELSE Min(S)

\* The one after p in the list of S: indexOf is -1 for a side that is not in it.
ListedAfter(S, p) == IF p \in S THEN NextSeat(S, p) ELSE Min(S)

Active == Sides \ (folded \cup eliminated)

\* A mutant of Actable: being all in is not looked at.
ActableAllIn == Active

Actable == Active \ allIn

HasChips == {p \in Sides : stack[p] > 0}
MaxBet   == Max({bet[p] : p \in Sides})
ToCall   == MaxBet - bet[turn]
Acted(p) == \E i \in DOMAIN actions : actions[i].side = p

IsHandOver == Cardinality(Active) <= 1 \/ street = "showdown"

-----------------------------------------------------------------------------
(* betting.ts *)

\* getLastRaiseSize: the amount of the last raise less that of the last call, raise
\* or all_in of another side before it.  The amount of a raise is a total, those of
\* a call and an all_in are what was added.
LastRaiseSize ==
  LET raises == {i \in DOMAIN actions : actions[i].type = "raise"}
      last   == Max(raises)
      before == {i \in 1 .. last - 1 :
                   /\ actions[i].side # actions[last].side
                   /\ actions[i].type \in {"raise", "call", "all_in"}}
      prev   == IF before = {} THEN 0 ELSE actions[Max(before)].amount
  IN  IF raises = {} THEN BigBlind ELSE actions[last].amount - prev

MinRaise == Max({LastRaiseSize, BigBlind})

Raises == IF stack[turn] > ToCall + MinRaise
          THEN MaxBet + MinRaise .. stack[turn] + bet[turn] ELSE {}

\* applyAction.
Apply(type, amount) ==
  LET added == IF type = "raise" THEN amount - bet[turn] ELSE amount
  IN  /\ stack' = [stack EXCEPT ![turn] = @ - added]
      /\ bet' = [bet EXCEPT ![turn] = @ + added]
      /\ pot' = pot + added
      /\ folded' = IF type = "fold" THEN folded \cup {turn} ELSE folded
      /\ allIn' = IF added > 0 /\ added = stack[turn] THEN allIn \cup {turn} ELSE allIn
      /\ actions' = Append(actions, [side |-> turn, type |-> type, amount |-> amount])
      /\ UNCHANGED <<eliminated, dealer, street, hand>>
      /\ turn' = IF Actable' = {} THEN turn ELSE NextSeat(Actable', turn)

\* getLegalActions with validateAction: whatever a side answers becomes one of
\* these; a wrong answer becomes a check, or a fold where it cannot check.
ApplyLegal ==
  \/ Apply("fold", 0)
  \/ ToCall = 0 /\ Apply("check", 0)
  \/ ToCall > 0 /\ stack[turn] > ToCall /\ Apply("call", ToCall)
  \/ turn \notin allIn /\ stack[turn] > 0 /\ Apply("all_in", stack[turn])
  \/ \E amount \in Raises : Apply("raise", amount)

\* A mutant of StreetOver: nobody looks who has acted.
StreetOverUnasked ==
  \/ Cardinality(Active) <= 1
  \/ Actable = {}
  \/ actions # <<>> /\ \A p \in Actable : bet[p] = MaxBet

StreetOver ==
  \/ Cardinality(Active) <= 1
  \/ Actable = {}
  \/ \E p \in Actable : Actable = {p} /\ bet[p] = MaxBet /\ Acted(p)
  \/ /\ actions # <<>>
     /\ \A p \in Actable : bet[p] = MaxBet /\ Acted(p)
     /\ LET last == actions[Len(actions)]
        IN  last.type \in {"raise", "all_in"} => Actable \subseteq {last.side}

-----------------------------------------------------------------------------
(* The end of a match *)

\* endMatch with a winner or without one.  Without one determineWinner compares
\* the stacks of the first two sides; for a winner without an agent it throws and
\* the match is left without a result.
EndMatch(why, winner) ==
  /\ phase' = "over"
  /\ result' = IF winner \in Sides \ agents THEN [why |-> "throws", who |-> 0]
               ELSE [why |-> why,
                     who |-> IF winner # 0 THEN winner
                             ELSE IF stack[1] > stack[2] THEN 1
                             ELSE IF stack[2] > stack[1] THEN 2 ELSE 0]

\* The winner the engine has recorded: the only side with chips once the pot is out.
Winner == IF pot = 0 /\ Cardinality(HasChips) = 1
          THEN CHOOSE p \in Sides : stack[p] > 0 ELSE 0

TimedOut == {p \in Sides : timeouts[p] >= MaxTimeouts}

\* findTimedOutSide: the other side wins if there is only one other.
EndTimedOut == EndMatch("timeouts", IF Players = 2 THEN 3 - Min(TimedOut) ELSE 0)

\* A mutant of Most: only two stacks are compared.
MostOfTwo == {p \in {1, 2} : stack[p] >= stack[3 - p]}

Most == {p \in Sides : \A q \in Sides : stack[p] >= stack[q]}

-----------------------------------------------------------------------------
(* The loop and executeHand *)

\* The top of the loop.
LoopEnds ==
  /\ phase = "hand"
  /\ \/ Cardinality(HasChips) <= 1 /\ EndMatch("chips", Winner)
     \/ Cardinality(HasChips) > 1 /\ TimedOut # {} /\ EndTimedOut
  /\ UNCHANGED <<chips, seats, deal, seen, clocks, agents, restarts>>

\* With nobody left to act the hand is resolved.
Ask == phase' = IF Actable' = {} THEN "resolve" ELSE "act"

Post(p, amount) == Min({amount, stack[p]})

\* dealNewHand.  Heads-up the dealer is the small blind and acts first, whatever
\* the blind has left it.
Deal ==
  LET alive   == HasChips \ eliminated
      button  == IF hand = 0 THEN dealer ELSE ListedAfter(alive, dealer)
      headsUp == Cardinality(alive) = 2
      small   == IF headsUp THEN button ELSE NextSeat(alive, button)
      big     == NextSeat(alive, small)
      blind   == [p \in Sides |-> IF p = small THEN Post(p, SmallBlind)
                                  ELSE IF p = big THEN Post(p, BigBlind) ELSE 0]
  IN  /\ phase = "hand"
      /\ Cardinality(HasChips) > 1 /\ TimedOut = {}
      /\ hand' = hand + 1 /\ dealer' = button
      /\ stack' = [p \in Sides |-> stack[p] - blind[p]]
      /\ bet' = blind /\ pot' = blind[small] + blind[big]
      /\ folded' = {} /\ eliminated' = Sides \ HasChips
      /\ allIn' = {p \in {small, big} : stack[p] = blind[p]}
      /\ street' = "preflop" /\ actions' = <<>>
      /\ turn' = IF headsUp THEN small ELSE NextSeat(alive, big)
      /\ seen' = timeouts
      /\ Ask
      /\ UNCHANGED <<clocks, agents, result, restarts>>

Asking == phase = "act" /\ ~ StreetOver

\* The side in turn answers in time.
Answer ==
  /\ Asking /\ turn \in agents
  /\ ApplyLegal
  /\ errors' = 0
  /\ UNCHANGED <<phase, seen, timeouts, docTimeouts, missed, agents, result, restarts>>

\* It does not: it folds and the timeout is counted, starting from the counts of
\* the beginning of the hand; the third error in a row ends the match.
Miss ==
  /\ Asking /\ turn \in agents
  /\ missed' = [missed EXCEPT ![turn] = @ + 1]
  /\ \/ /\ errors + 1 < MaxErrors
        /\ errors' = errors + 1
        /\ timeouts' = [seen EXCEPT ![turn] = @ + 1]
        /\ docTimeouts' = [docTimeouts EXCEPT ![turn] = seen[turn] + 1]
        /\ Apply("fold", 0)
        /\ UNCHANGED <<phase, result>>
     \/ /\ errors + 1 >= MaxErrors
        /\ errors' = 0
        /\ EndMatch("errors", 0)
        /\ UNCHANGED <<chips, seats, deal, timeouts, docTimeouts>>
  /\ UNCHANGED <<seen, agents, restarts>>

\* After a recovery only the first two sides have agents; asking another throws.
AskThrows ==
  /\ Asking /\ turn \notin agents
  /\ phase' = "over" /\ result' = [why |-> "error", who |-> 0]
  /\ UNCHANGED <<chips, seats, deal, seen, clocks, agents, restarts>>

NextStreet == [preflop |-> "flop", flop |-> "turn", turn |-> "river", river |-> "showdown"]

\* advanceStreet.
Advance ==
  /\ phase = "act" /\ StreetOver /\ ~ IsHandOver
  /\ UNCHANGED <<stack, pot, folded, allIn, eliminated, dealer, hand, seen, clocks,
                 agents, result, restarts>>
  /\ street' = NextStreet[street]
  /\ IF street = "river"
     THEN phase' = "resolve" /\ UNCHANGED <<bet, actions, turn>>
     ELSE /\ bet' = Nobody /\ actions' = <<>>
          /\ turn' = IF Actable = {} THEN turn
                     ELSE IF dealer \in Active THEN NextSeat(Actable, dealer)
                     ELSE Min(Actable)
          /\ Ask

\* A mutant of Showdown: the remainder of a split pot is dropped.
ShowdownRounded ==
  /\ Cardinality(Active) > 1
  /\ \E best \in (SUBSET Active) \ {{}} :
        stack' = [p \in Sides |-> IF p \in best THEN stack[p] + pot \div Cardinality(best)
                                                ELSE stack[p]]

\* resolveShowdown: the best hands share the pot, the first of them gets the rest.
Showdown ==
  /\ Cardinality(Active) > 1
  /\ \E best \in (SUBSET Active) \ {{}} :
        LET share == pot \div Cardinality(best)
        IN  stack' = [p \in Sides |->
                        IF p \notin best THEN stack[p]
                        ELSE stack[p] + share
                             + IF p = Min(best) THEN pot % Cardinality(best) ELSE 0]

\* resolveFold: the only side left gets the pot.
Fold ==
  /\ Cardinality(Active) = 1
  /\ stack' = [p \in Sides |-> IF p \in Active THEN stack[p] + pot ELSE stack[p]]

Resolve ==
  /\ phase = "resolve" \/ (phase = "act" /\ Cardinality(Active) <= 1)
  /\ Showdown \/ Fold
  /\ pot' = 0
  /\ street' = IF Cardinality(Active) > 1 THEN "showdown" ELSE street
  /\ phase' = "resolved"
  /\ UNCHANGED <<bet, seats, actions, hand, seen, clocks, agents, result, restarts>>

\* After executeHand: the match is over, or its last hand is played, or a side has
\* missed too many turns, or the loop goes on.
AfterHand ==
  /\ phase = "resolved"
  /\ IF Winner # 0 THEN EndMatch("chips", Winner)
     ELSE IF hand >= MaxHands
     THEN EndMatch("hands", IF Cardinality(Most) = 1 THEN Min(Most) ELSE 0)
     ELSE IF TimedOut # {} THEN EndTimedOut
     ELSE phase' = "hand" /\ UNCHANGED result
  /\ UNCHANGED <<chips, seats, deal, seen, clocks, agents, restarts>>

\* The process dies and recoverActiveMatches starts the loop again, with the state
\* and the counts of the document and agents for two sides.
Restart ==
  /\ phase # "over"
  /\ restarts < MaxRestarts
  /\ restarts' = restarts + 1
  /\ phase' = "hand"
  /\ timeouts' = docTimeouts /\ errors' = 0
  /\ agents' = agents \cap {1, 2}
  /\ UNCHANGED <<chips, seats, deal, seen, docTimeouts, missed, result>>

Step == LoopEnds \/ Deal \/ Answer \/ Miss \/ AskThrows \/ Advance \/ Resolve \/ AfterHand

Next == Step \/ Restart

Spec == Init /\ [][Next]_vars

-----------------------------------------------------------------------------
(* Properties *)

\* No chip comes into being or is lost: bets, short blinds, all_ins, split pots and
\* odd chips included.  A restart in the middle of a hand loses what is in the pot.
ChipsKept ==
  LET all == pot + SumFunction(stack)
  IN  all <= Chips /\ (restarts = 0 => all = Chips)

\* Whoever is asked is still in the hand; without chips only as a blind that took
\* its last ones: nobody is asked after folding or once it is all in.
AskedIsInHand ==
  Asking => /\ turn \in Active
            /\ turn \in allIn => street = "preflop" /\ ~ Acted(turn)

\* A street ends only when every side that can still act has acted on it and has
\* put in as much as any other, the big blind's option and the answers to a raise
\* included.
StreetsAreSettled ==
  [][street' # street /\ phase = "act" /\ street' # "preflop" /\ Cardinality(Active) > 1 =>
       \A p \in Actable : Acted(p) /\ bet[p] = MaxBet]_vars

\* Without a restart, a match that ends because one side has all the chips is won
\* by that side, and one that ends with its last hand by a side no other exceeds.
\* This is for two or three players: with more, a tie at the top of others than the
\* first two goes to the better of those two.
WinnerIsAhead ==
  restarts = 0 /\ result.who # 0 =>
    /\ result.why = "chips" => stack[result.who] = Chips
    /\ result.why = "hands" => \A p \in Sides : stack[p] <= stack[result.who]

\* "2 timeouts = forfeit": a side that has missed so many turns does not win.
TimeoutsForfeit ==
  phase = "over" /\ result.who # 0 => missed[result.who] < MaxTimeouts
=============================================================================
