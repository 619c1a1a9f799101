----------------------------- MODULE GameProofs -----------------------------
(***************************************************************************)
(* Proofs about the matches of GameLoops, for any constants.  Poker: no    *)
(* chip comes into being or is lost, whoever is asked is still in the      *)
(* hand, a street ends when everybody has had a say, and the match goes to *)
(* whoever is ahead.  All loops: the turns that are missed are counted,    *)
(* and the result is the one that was played.  UNO: every card is in one   *)
(* place, and who is without cards has won.  Werewolf: the team that wins  *)
(* has won.  Marrakech: the dirhams only change hands, and decide.  2048   *)
(* and werewolf: whoever is asked can act.  Matches whose length is        *)
(* limited come nearer to their end with every step.  2048: a row is slid  *)
(* as it should be, and a score is what merging earned.  Poker hands: what *)
(* HandProofs shows of the evaluator holds of the one the matches use.     *)
(***************************************************************************)
EXTENDS FiniteSetTheorems, SumProofs, GameLoops, TLAPS

-----------------------------------------------------------------------------
(* The least and the greatest *)

LEMMA MostExists ==
  ASSUME NEW S \in SUBSET Int, IsFiniteSet(S), S # {}
  PROVE  (\E x \in S : \A y \in S : x <= y) /\ (\E x \in S : \A y \in S : x >= y)
<1> DEFINE Good(Z) == (\E x \in Z : \A y \in Z : x <= y) /\ (\E x \in Z : \A y \in Z : x >= y)
           Bad == {Z \in SUBSET S : Z # {} /\ ~ Good(Z)}
<1>1. Bad = {}
  <2> SUFFICES ASSUME Bad # {} PROVE FALSE
    OBVIOUS
  <2>1. PICK Z \in Bad : \A x \in Z : Z \ {x} \notin Bad
    <3> HIDE DEF Bad
    <3>1. Bad \in SUBSET (SUBSET S)
      BY DEF Bad
    <3> QED BY <3>1, SmallestBad
  <2>2. Z \in SUBSET S /\ Z # {} /\ ~ Good(Z)
    BY <2>1
  <2>3. PICK x \in Z : TRUE
    BY <2>2
  <2>4. CASE Z = {x}
    <3>1. x \in Int
      BY <2>2
    <3>2. Good(Z)
      BY <2>4, <3>1
    <3> QED BY <2>2, <3>2
  <2>5. CASE Z # {x}
    <3> DEFINE Y == Z \ {x}
    <3>1. Y \in SUBSET S /\ Y # {} /\ Y \notin Bad
      BY <2>1, <2>2, <2>3, <2>5
    <3>2. Good(Y)
      BY <3>1
    <3>3. PICK l \in Y : \A y \in Y : l <= y
      BY <3>2
    <3>4. PICK m \in Y : \A y \in Y : m >= y
      BY <3>2
    <3>5. x \in Int /\ l \in Int /\ m \in Int /\ \A y \in Y : y \in Int
      BY <2>2, <3>3, <3>4
    <3>6. Z = Y \cup {x} /\ x \in Z /\ l \in Z /\ m \in Z
      BY <2>3, <3>3, <3>4
    <3> HIDE DEF Y
    <3>7. \E k \in Z : \A y \in Z : k <= y
      <4>1. CASE x <= l
        BY <3>3, <3>5, <3>6, <4>1
      <4>2. CASE l <= x
        BY <3>3, <3>5, <3>6, <4>2
      <4> QED BY <3>5, <4>1, <4>2
    <3>8. \E k \in Z : \A y \in Z : k >= y
      <4>1. CASE x >= m
        BY <3>4, <3>5, <3>6, <4>1
      <4>2. CASE m >= x
        BY <3>4, <3>5, <3>6, <4>2
      <4> QED BY <3>5, <4>1, <4>2
    <3> QED BY <2>2, <3>7, <3>8
  <2> QED BY <2>4, <2>5
<1>2. S \notin Bad
  BY <1>1
<1> QED BY <1>2

LEMMA MinAndMax ==
  ASSUME NEW S \in SUBSET Int, IsFiniteSet(S), S # {}
  PROVE  /\ Min(S) \in S /\ \A x \in S : Min(S) <= x
         /\ Max(S) \in S /\ \A x \in S : Max(S) >= x
BY MostExists DEF Min, Max

LEMMA SidesFinite == IsFiniteSet(Sides) /\ Cardinality(Sides) = Players /\ Sides \subseteq Nat \ {0}
<1>1. Players \in Nat /\ Players >= 2
  BY PlayersAssumption
<1>2. IsFiniteSet(1 .. Players) /\ Cardinality(1 .. Players) = Players
  BY <1>1, FS_Interval
<1> QED BY <1>1, <1>2 DEF Sides

\* The sides of a set in the order of the seats.
LEMMA NextSeatType ==
  ASSUME NEW S \in SUBSET Sides, S # {}, NEW p \in Sides
  PROVE  /\ NextSeat(S, p) \in S /\ Min(S) \in S
         /\ \A q \in S : q # p => NextSeat(S, p) # p
<1> DEFINE Later(Z) == {q \in Z : q > p}
<1>1. ASSUME NEW Z, Z \subseteq S PROVE Z \in SUBSET Int /\ IsFiniteSet(Z)
  <2>1. Z \in SUBSET Sides
    BY <1>1
  <2>2. Z \in SUBSET Int
    BY <2>1, SidesFinite
  <2> QED BY <2>1, <2>2, SidesFinite, FS_Subset
<1>2. Min(S) \in S /\ \A q \in S : Min(S) <= q
  BY <1>1, MinAndMax
<1>3. CASE Later(S) = {}
  <2>1. NextSeat(S, p) = Min(S)
    BY <1>3 DEF NextSeat
  <2>2. ASSUME NEW q \in S, q # p, Min(S) = p PROVE FALSE
    <3>1. p <= q /\ ~ q > p
      BY <1>2, <1>3, <2>2
    <3> QED BY <2>2, <3>1, SidesFinite
  <2> QED BY <1>2, <2>1, <2>2
<1>4. CASE Later(S) # {}
  <2>1. NextSeat(S, p) = Min(Later(S))
    BY <1>4 DEF NextSeat
  <2>2. Min(Later(S)) \in Later(S)
    <3> DEFINE A == Later(S)
    <3>1. A \in SUBSET Int /\ IsFiniteSet(A)
      BY <1>1
    <3> HIDE DEF A
    <3>2. A # {} => Min(A) \in A
      BY <3>1, MinAndMax
    <3> QED BY <1>4, <3>2 DEF A
  <2>3. p \notin Later(S)
    BY SidesFinite
  <2> QED BY <1>2, <2>1, <2>2, <2>3
<1> QED BY <1>3, <1>4

\* The greatest bet.
LEMMA MaxBetType ==
  ASSUME bet \in [Sides -> Nat]
  PROVE  MaxBet \in Nat /\ \A p \in Sides : bet[p] <= MaxBet
<1> DEFINE B == {bet[p] : p \in Sides}
<1>1. IsFiniteSet(B)
  <2>1. bet \in Surjection(Sides, B)
    BY DEF Surjection
  <2> HIDE DEF B
  <2> QED BY <2>1, SidesFinite, FS_Surjection
<1>2. B \in SUBSET Int /\ B \subseteq Nat /\ B # {}
  <2>1. 1 \in Sides
    BY PlayersAssumption DEF Sides
  <2> QED BY <2>1
<1>3. \A p \in Sides : bet[p] \in B
  OBVIOUS
<1> HIDE DEF B
<1>4. Max(B) \in B /\ \A x \in B : Max(B) >= x
  BY <1>1, <1>2, MinAndMax
<1>5. MaxBet = Max(B)
  BY DEF MaxBet, B
<1> QED BY <1>2, <1>3, <1>4, <1>5

-----------------------------------------------------------------------------
(* Poker: the inductive invariant *)

Stacks  == [Sides -> Nat]
Streets == {"preflop", "flop", "turn", "river", "showdown"}
Kinds   == {"fold", "check", "call", "all_in", "raise"}
Actions == [side : Sides, type : Kinds, amount : 0 .. Chips]

ChipTypes == stack \in Stacks /\ bet \in Stacks /\ pot \in Nat

SeatTypes ==
  /\ folded \subseteq Sides /\ allIn \subseteq Sides /\ eliminated \subseteq Sides
  /\ dealer \in Sides /\ turn \in Sides

DealTypes ==
  /\ street \in Streets /\ actions \in Seq(Actions) /\ hand \in Nat
  /\ phase \in {"hand", "act", "resolve", "resolved", "over"}

ClockTypes ==
  /\ timeouts \in Stacks /\ seen \in Stacks /\ docTimeouts \in Stacks /\ missed \in Stacks
  /\ errors \in 0 .. MaxErrors - 1 /\ restarts \in 0 .. MaxRestarts

EndTypes == agents \subseteq Sides /\ result.who \in 0 .. Players

PokerTypes == ChipTypes /\ SeatTypes /\ DealTypes /\ ClockTypes /\ EndTypes

\* The pot is paid out before the next hand is dealt, but for a restart.
PotIsPaid == phase = "resolved" \/ (phase = "hand" /\ restarts = 0) => pot = 0

\* Who is eliminated has nothing, and stays so.
SeatsEmpty == \A p \in eliminated : stack[p] = 0

\* Before the first hand everything is as it was laid out.
FirstHand ==
  hand = 0 => /\ stack = [p \in Sides |-> StartingStack] /\ dealer = 1 /\ eliminated = {}
              /\ phase \in {"hand", "over"}

HandsLeft == hand <= MaxHands + restarts /\ (phase = "hand" => hand < MaxHands + restarts)

\* What was bet on a street is in the pot until it is paid out.
BetsInPot ==
  \A p \in Sides : bet[p] <= Chips /\ (phase \in {"act", "resolve"} => bet[p] <= pot)

\* Whoever's turn it is can act, or is a blind that has not acted yet.
TurnIsIn ==
  phase = "act" /\ Actable # {} =>
    turn \in Active /\ (turn \in allIn => street = "preflop" /\ ~ Acted(turn))

\* There is a result when the match is over, and agents of all until a restart.
NoResultYet == (phase # "over" => result.who = 0) /\ (restarts = 0 => agents = Sides)

PokerInv ==
  /\ PokerTypes /\ ChipsKept /\ PotIsPaid /\ SeatsEmpty /\ FirstHand /\ HandsLeft
  /\ BetsInPot /\ TurnIsIn /\ NoResultYet

LEMMA StackSum == ASSUME NEW f \in Stacks PROVE SumFunction(f) \in Nat
BY SidesFinite, SumType DEF Stacks

LEMMA ChipsType == Chips \in Nat /\ StartingStack \in Nat \ {0}
<1>1. Players \in Nat /\ StartingStack \in Nat \ {0}
  BY PlayersAssumption, StakesAssumption
<1>2. \A m, n \in Nat : m * n \in Nat
  OBVIOUS
<1> QED BY <1>1, <1>2 DEF Chips

\* What is on the table is no more than what is in the pot and the stacks together.
LEMMA ChipsBound ==
  ASSUME ChipTypes, ChipsKept, NEW p \in Sides
  PROVE  /\ pot + stack[p] <= Chips /\ pot <= Chips /\ stack[p] <= Chips
         /\ stack[p] \in Nat /\ pot \in Nat
<1> DEFINE n == SumFunction(stack)
           k == stack[p]
           c == Chips
<1>1. n \in Nat /\ k \in Nat /\ k <= n
  BY StackSum, SummandBounded, SidesFinite DEF ChipTypes, Stacks
<1>2. pot \in Nat /\ c \in Nat /\ pot + n <= c
  BY ChipsType DEF ChipTypes, ChipsKept
<1> HIDE DEF n, k, c
<1>3. pot + k <= c /\ pot <= c /\ k <= c
  BY ONLY <1>1, <1>2
<1> QED BY <1>1, <1>2, <1>3 DEF k, c

LEMMA ErrorsType ==
  0 \in 0 .. MaxErrors - 1 /\ \A e \in 0 .. MaxErrors - 1 : e + 1 < MaxErrors => e + 1 \in 0 .. MaxErrors - 1
<1>1. MaxErrors \in Nat \ {0}
  BY LimitsAssumption
<1> QED BY ONLY <1>1

\* One stack changes.
LEMMA StackChanges ==
  ASSUME NEW f \in Stacks, NEW p \in Sides, NEW v \in Nat
  PROVE  /\ [f EXCEPT ![p] = v] \in Stacks
         /\ SumFunction([f EXCEPT ![p] = v]) + f[p] = SumFunction(f) + v
<1> DEFINE g == [f EXCEPT ![p] = v]
<1>1. /\ IsFiniteSet(Sides) /\ f \in [Sides -> Nat] /\ g \in [Sides -> Nat] /\ g[p] = v
      /\ \A q \in Sides \ {p} : g[q] = f[q]
  BY SidesFinite DEF Stacks
<1>2. SumFunction(g) + f[p] = SumFunction(f) + g[p]
  <2> HIDE DEF g
  <2> QED BY ONLY <1>1, SumChangesOne, p \in Sides
<1> QED BY <1>1, <1>2 DEF Stacks

-----------------------------------------------------------------------------
(* What a side bets *)

LEMMA RaiseTypes ==
  ASSUME DealTypes
  PROVE  LastRaiseSize \in Int /\ MinRaise \in Nat
<1> DEFINE raises == {i \in DOMAIN actions : actions[i].type = "raise"}
           last   == Max(raises)
           before == {i \in 1 .. last - 1 :
                        /\ actions[i].side # actions[last].side
                        /\ actions[i].type \in {"raise", "call", "all_in"}}
           prev   == IF before = {} THEN 0 ELSE actions[Max(before)].amount
<1>1. /\ Len(actions) \in Nat /\ DOMAIN actions = 1 .. Len(actions)
      /\ \A i \in DOMAIN actions : actions[i] \in Actions
  BY DEF DealTypes
<1>2. \A i \in DOMAIN actions : actions[i].amount \in Int
  BY <1>1, ChipsType DEF Actions
<1>3. ASSUME NEW n \in Nat, NEW Z, Z \subseteq 1 .. n PROVE Z \in SUBSET Int /\ IsFiniteSet(Z)
  <2> DEFINE I == 1 .. n
  <2>1. IsFiniteSet(I) /\ Z \in SUBSET I /\ Z \in SUBSET Int
    BY <1>3, FS_Interval
  <2> HIDE DEF I
  <2> QED BY <2>1, FS_Subset
<1>4. LastRaiseSize \in Int
  <2>1. CASE raises = {}
    <3>1. LastRaiseSize = BigBlind
      BY <2>1 DEF LastRaiseSize
    <3> QED BY <3>1, StakesAssumption
  <2>2. CASE raises # {}
    <3>1. raises \subseteq 1 .. Len(actions)
      BY <1>1
    <3>2. last \in raises
      <4> HIDE DEF raises
      <4> QED BY <1>1, <1>3, <2>2, <3>1, MinAndMax
    <3>3. last \in 1 .. Len(actions)
      BY <3>1, <3>2
    <3> HIDE DEF last, raises
    <3>4. prev \in Int
      <4>1. CASE before = {}
        BY <4>1
      <4>2. CASE before # {}
        <5>1. before \subseteq 1 .. Len(actions)
          BY <1>1, <3>3
        <5>2. Max(before) \in before
          <6> HIDE DEF before
          <6> QED BY <1>1, <1>3, <4>2, <5>1, MinAndMax
        <5> QED BY <1>1, <1>2, <4>2, <5>1, <5>2
      <4> QED BY <4>1, <4>2
    <3>5. actions[last].amount \in Int
      BY <1>1, <1>2, <3>3
    <3>6. LastRaiseSize = actions[last].amount - prev
      BY <2>2 DEF LastRaiseSize, last, raises
    <3> HIDE DEF prev
    <3> QED BY <3>4, <3>5, <3>6
  <2> QED BY <2>1, <2>2
<1>5. MinRaise \in Nat
  <2> DEFINE S == {LastRaiseSize, BigBlind}
  <2>1. S \in SUBSET Int /\ S # {} /\ BigBlind \in S /\ IsFiniteSet(S)
    <3>1. IsFiniteSet({LastRaiseSize} \cup {BigBlind})
      BY ONLY FS_Singleton, FS_Union
    <3>2. S = {LastRaiseSize} \cup {BigBlind}
      OBVIOUS
    <3> QED BY <1>4, <3>1, <3>2, StakesAssumption
  <2>2. BigBlind \in Nat
    BY StakesAssumption
  <2> HIDE DEF S
  <2>3. Max(S) \in Int /\ Max(S) >= BigBlind
    BY <2>1, MinAndMax
  <2>4. Max(S) \in Nat
    BY <2>2, <2>3
  <2> QED BY <2>4 DEF MinRaise, S
<1> QED BY <1>4, <1>5

\* What an action of a kind and an amount takes from the stack.
Added(type, amount) == IF type = "raise" THEN amount - bet[turn] ELSE amount

\* Nobody bets more than it has.
LEMMA LegalIsCovered ==
  ASSUME PokerInv, phase = "act", ApplyLegal
  PROVE  \E type \in Kinds, amount \in 0 .. Chips :
           Apply(type, amount) /\ Added(type, amount) \in 0 .. stack[turn]
<1> DEFINE k == stack[turn]
           b == bet[turn]
           c == Chips
<1>1. turn \in Sides /\ bet \in Stacks /\ ChipTypes /\ DealTypes
  BY DEF PokerInv, PokerTypes, SeatTypes, ChipTypes
<1>2. pot + k <= c /\ k \in Nat /\ pot \in Nat /\ c \in Nat
  BY <1>1, ChipsBound, ChipsType DEF PokerInv
<1>3. b \in Nat /\ b <= pot
  BY <1>1 DEF PokerInv, BetsInPot, Stacks
<1>4. MaxBet \in Nat /\ b <= MaxBet
  BY <1>1, MaxBetType DEF Stacks
<1>5. MinRaise \in Nat
  BY <1>1, RaiseTypes
<1>6. ToCall = MaxBet - b
  BY DEF ToCall
<1>7. CASE Apply("fold", 0) \/ Apply("check", 0)
  <2>1. 0 \in 0 .. c /\ Added("fold", 0) \in 0 .. k /\ Added("check", 0) \in 0 .. k
    BY <1>2 DEF Added
  <2> QED BY <1>7, <2>1 DEF Kinds
<1>8. CASE k > ToCall /\ Apply("call", ToCall)
  <2>1. ToCall \in 0 .. c /\ ToCall \in 0 .. k
    <3> HIDE DEF b, k, c
    <3> QED BY <1>2, <1>3, <1>4, <1>6, <1>8
  <2>2. Added("call", ToCall) = ToCall
    BY DEF Added
  <2> QED BY <1>8, <2>1, <2>2 DEF Kinds
<1>9. CASE Apply("all_in", k)
  <2>1. k \in 0 .. c /\ Added("all_in", k) \in 0 .. k
    <3>1. Added("all_in", k) = k
      BY DEF Added
    <3> HIDE DEF k, c
    <3> QED BY <1>2, <3>1
  <2> QED BY <1>9, <2>1 DEF Kinds
<1>10. ASSUME NEW amount \in Raises, Apply("raise", amount)
       PROVE  \E a \in 0 .. c : Apply("raise", a) /\ Added("raise", a) \in 0 .. k
  <2>1. amount \in MaxBet + MinRaise .. k + b
    BY <1>10 DEF Raises
  <2>2. amount \in 0 .. c /\ amount - b \in 0 .. k
    <3> HIDE DEF b, k, c
    <3> QED BY <1>2, <1>3, <1>4, <1>5, <2>1
  <2>3. Added("raise", amount) = amount - b
    BY DEF Added
  <2> QED BY <1>10, <2>2, <2>3
<1> QED BY <1>7, <1>8, <1>9, <1>10 DEF ApplyLegal, Kinds

\* A bet goes from the stack to the pot, and the next side that can act is asked.
LEMMA ApplyKeepsPoker ==
  ASSUME PokerInv, phase = "act", NEW type \in Kinds, NEW amount \in 0 .. Chips,
         Apply(type, amount), Added(type, amount) \in 0 .. stack[turn],
         phase' = "act", ClockTypes', UNCHANGED <<agents, result, restarts>>
  PROVE  PokerInv'
<1> DEFINE k == stack[turn]
           b == bet[turn]
           d == Added(type, amount)
<1>1. /\ stack' = [stack EXCEPT ![turn] = k - d] /\ bet' = [bet EXCEPT ![turn] = b + d]
      /\ pot' = pot + d
      /\ folded' = IF type = "fold" THEN folded \cup {turn} ELSE folded
      /\ allIn' \in {allIn, allIn \cup {turn}}
      /\ actions' = Append(actions, [side |-> turn, type |-> type, amount |-> amount])
      /\ UNCHANGED <<eliminated, dealer, street, hand>>
      /\ turn' = IF Actable' = {} THEN turn ELSE NextSeat(Actable', turn)
  BY DEF Apply, Added
<1>2. turn \in Sides /\ stack \in Stacks /\ bet \in Stacks /\ ChipTypes /\ SeatTypes /\ DealTypes
  BY DEF PokerInv, PokerTypes, SeatTypes, ChipTypes
<1>3. k \in Nat /\ d \in Nat /\ k - d \in Nat /\ b \in Nat /\ b + d \in Nat /\ pot \in Nat
  <2>1. k \in Nat /\ b \in Nat /\ pot \in Nat
    BY <1>2 DEF Stacks, ChipTypes
  <2>2. d \in 0 .. k
    OBVIOUS
  <2> HIDE DEF k, b, d
  <2> QED BY <2>1, <2>2
<1> HIDE DEF d
<1>4. /\ stack' \in Stacks /\ bet' \in Stacks
      /\ SumFunction(stack') + k = SumFunction(stack) + (k - d)
  <2> HIDE DEF k, b
  <2>1. \A f \in Stacks, v \in Nat : [f EXCEPT ![turn] = v] \in Stacks
    BY <1>2, StackChanges
  <2>2. SumFunction([stack EXCEPT ![turn] = k - d]) + stack[turn] = SumFunction(stack) + (k - d)
    BY <1>2, <1>3, StackChanges
  <2> QED BY <1>1, <1>2, <1>3, <2>1, <2>2 DEF k
<1>5. ChipTypes'
  BY <1>1, <1>3, <1>4 DEF ChipTypes
<1>6. ChipsKept'
  <2> DEFINE n == SumFunction(stack)
             m == SumFunction(stack')
  <2>1. n \in Nat /\ m \in Nat
    BY <1>2, <1>4, StackSum
  <2>2. pot + d + m = pot + n
    <3> HIDE DEF n, m, k
    <3> QED BY <1>3, <1>4, <2>1 DEF n, m
  <2>3. pot' + SumFunction(stack') = pot + SumFunction(stack)
    BY <1>1, <2>2
  <2> QED BY <2>3 DEF PokerInv, ChipsKept
<1>7. Actable' \subseteq Sides /\ (Actable' # {} => turn' \in Actable')
  <2>1. Actable' \subseteq Sides
    BY DEF Actable, Active
  <2> HIDE DEF k, b
  <2> QED BY <1>1, <1>2, <2>1, NextSeatType
<1>8. SeatTypes'
  <2>1. turn' \in Sides
    BY <1>1, <1>2, <1>7
  <2> QED BY <1>1, <1>2, <2>1 DEF SeatTypes
<1>9. DealTypes'
  <2>1. [side |-> turn, type |-> type, amount |-> amount] \in Actions
    BY <1>2 DEF Actions
  <2> HIDE DEF k, b
  <2> QED BY <1>1, <1>2, <2>1 DEF DealTypes
<1>10. PokerTypes'
  BY <1>5, <1>8, <1>9 DEF PokerInv, PokerTypes, EndTypes
<1>11. PotIsPaid' /\ NoResultYet'
  BY DEF PokerInv, PotIsPaid, NoResultYet
<1>12. SeatsEmpty'
  <2>1. \A p \in Sides : stack'[p] = IF p = turn THEN k - d ELSE stack[p]
    BY <1>1, <1>2 DEF Stacks
  <2>2. k = 0 => k - d = 0
    <3> HIDE DEF k
    <3> QED BY <1>3
  <2> QED BY <1>1, <1>2, <2>1, <2>2 DEF PokerInv, SeatsEmpty, SeatTypes
<1>13. hand # 0 /\ hand' = hand
  BY <1>1 DEF PokerInv, FirstHand
<1>14. FirstHand' /\ HandsLeft'
  BY <1>13 DEF PokerInv, FirstHand, HandsLeft
<1>15. BetsInPot'
  <2>1. \A p \in Sides : bet'[p] = IF p = turn THEN b + d ELSE bet[p]
    BY <1>1, <1>2 DEF Stacks
  <2>2. \A p \in Sides : bet[p] \in Nat /\ bet[p] <= pot
    BY <1>2 DEF PokerInv, BetsInPot, Stacks
  <2>3. \A n \in Nat : n <= pot => n <= pot + d /\ n + d <= pot + d
    BY <1>3
  <2>4. \A p \in Sides : bet'[p] <= pot' /\ bet'[p] \in Nat
    BY <1>1, <1>2, <1>3, <2>1, <2>2, <2>3
  <2>5. pot' <= Chips /\ pot' \in Nat /\ Chips \in Nat
    <3>1. pot' \in Nat /\ SumFunction(stack') \in Nat /\ Chips \in Nat
          /\ pot' + SumFunction(stack') <= Chips
      BY <1>4, <1>5, <1>6, StackSum, ChipsType DEF ChipTypes, ChipsKept
    <3> DEFINE m == SumFunction(stack')
    <3>2. \A x, y, z \in Nat : x + y <= z => x <= z
      OBVIOUS
    <3> QED BY ONLY <3>1, <3>2
  <2>6. \A x, y, z \in Nat : x <= y /\ y <= z => x <= z
    OBVIOUS
  <2> QED BY <2>4, <2>5, <2>6 DEF BetsInPot
<1>16. TurnIsIn'
  BY <1>7 DEF TurnIsIn, Actable
<1> QED BY <1>6, <1>10, <1>11, <1>12, <1>14, <1>15, <1>16 DEF PokerInv

-----------------------------------------------------------------------------
(* The steps of poker *)

\* A hand is dealt to at least two, from whose stacks the blinds go to the pot.
LEMMA AnotherOf ==
  ASSUME NEW S \in SUBSET Sides, Cardinality(S) > 1, NEW p
  PROVE  \E q \in S : q # p
<1>1. IsFiniteSet(S)
  BY SidesFinite, FS_Subset
<1> SUFFICES ASSUME \A q \in S : q = p PROVE FALSE
  OBVIOUS
<1>2. CASE S = {}
  BY <1>2, FS_EmptySet
<1>3. CASE S = {p}
  BY <1>3, FS_Singleton
<1> QED BY <1>2, <1>3

LEMMA PostType ==
  ASSUME NEW p \in Sides, stack[p] \in Nat, NEW amount \in Nat
  PROVE  Post(p, amount) \in 0 .. stack[p]
<1> DEFINE k == stack[p]
           S == {amount, k}
<1>1. k \in Nat
  OBVIOUS
<1> HIDE DEF k
<1>2. IsFiniteSet(S)
  <2>1. IsFiniteSet({amount} \cup {k}) /\ S = {amount} \cup {k}
    BY FS_Singleton, FS_Union
  <2> QED BY <2>1
<1>3. S \in SUBSET Int /\ S # {} /\ k \in S /\ S \subseteq Nat
  BY <1>1
<1>4. Min(S) \in Nat /\ Min(S) <= k
  <2> HIDE DEF S
  <2> QED BY <1>2, <1>3, MinAndMax
<1>5. Post(p, amount) = Min(S)
  BY DEF Post, k
<1> HIDE DEF S
<1> QED BY <1>1, <1>4, <1>5 DEF k

LEMMA DealKeepsPoker ==
  ASSUME PokerInv, Deal
  PROVE  PokerInv'
<1> DEFINE alive   == HasChips \ eliminated
           button  == IF hand = 0 THEN dealer ELSE ListedAfter(alive, dealer)
           headsUp == Cardinality(alive) = 2
           small   == IF headsUp THEN button ELSE NextSeat(alive, button)
           big     == NextSeat(alive, small)
           x       == Post(small, SmallBlind)
           y       == Post(big, BigBlind)
           blind   == [p \in Sides |-> IF p = small THEN x ELSE IF p = big THEN y ELSE 0]
<1>1. /\ Cardinality(HasChips) > 1 /\ phase = "hand"
      /\ hand' = hand + 1 /\ dealer' = button
      /\ stack' = [p \in Sides |-> stack[p] - blind[p]]
      /\ bet' = blind /\ pot' = blind[small] + blind[big]
      /\ folded' = {} /\ eliminated' = Sides \ HasChips
      /\ allIn' = {p \in {small, big} : stack[p] = blind[p]}
      /\ street' = "preflop" /\ actions' = <<>>
      /\ turn' = IF headsUp THEN small ELSE NextSeat(alive, big)
      /\ seen' = timeouts
      /\ phase' \in {"resolve", "act"}
      /\ UNCHANGED <<clocks, agents, result, restarts>>
  BY DEF Deal, Ask
<1>2. /\ ChipTypes /\ SeatTypes /\ DealTypes /\ ClockTypes /\ stack \in Stacks
  BY DEF PokerInv, PokerTypes, ChipTypes
<1>3. alive = HasChips /\ alive \in SUBSET Sides /\ \A p \in Sides : p \in alive <=> stack[p] # 0
  BY <1>2 DEF HasChips, PokerInv, SeatsEmpty, Stacks
<1>4. \A p : \E q \in alive : q # p
  BY <1>1, <1>3, AnotherOf
<1>5. alive # {}
  BY <1>4
<1> HIDE DEF alive
<1>6. button \in alive
  <2>1. CASE hand = 0
    <3>1. dealer \in Sides /\ stack[dealer] # 0
      BY <1>2, <2>1, StakesAssumption DEF PokerInv, FirstHand, SeatTypes
    <3> QED BY <1>3, <2>1, <3>1
  <2>2. CASE hand # 0
    <3>1. ListedAfter(alive, dealer) \in alive
      BY <1>2, <1>3, <1>5, NextSeatType DEF ListedAfter, SeatTypes
    <3> QED BY <2>2, <3>1
  <2> QED BY <2>1, <2>2
<1> HIDE DEF button
<1>7. small \in alive
  BY <1>3, <1>5, <1>6, NextSeatType
<1> HIDE DEF small, headsUp
<1>8. big \in alive /\ big # small
  BY <1>3, <1>4, <1>5, <1>7, NextSeatType
<1> HIDE DEF big
<1>9. turn' \in alive
  BY <1>1, <1>3, <1>5, <1>7, <1>8, NextSeatType
<1>10. small \in Sides /\ big \in Sides
  BY <1>3, <1>7, <1>8
<1> DEFINE v == stack[small]
           w == stack[big]
<1>11. v \in Nat /\ w \in Nat /\ x \in 0 .. v /\ y \in 0 .. w
  BY <1>2, <1>10, PostType, StakesAssumption DEF Stacks
<1> HIDE DEF x, y, v, w
<1>12. x \in Nat /\ y \in Nat /\ v - x \in Nat /\ w - y \in Nat
  BY <1>11
<1>13. /\ bet'[small] = x /\ bet'[big] = y /\ bet' \in Stacks
       /\ \A p \in Sides \ {small, big} : bet'[p] = 0
  BY <1>1, <1>8, <1>10, <1>12 DEF Stacks
<1>14. /\ stack'[small] = v - x /\ stack'[big] = w - y
       /\ \A p \in Sides \ {small, big} : stack'[p] = stack[p]
       /\ stack' = [p \in Sides |-> stack'[p]]
  <2>1. \A p \in Sides \ {small, big} : stack[p] \in Nat /\ blind[p] = 0
    BY <1>2, <1>8, <1>10 DEF Stacks
  <2>2. blind[small] = x /\ blind[big] = y
    BY <1>8, <1>10
  <2> HIDE DEF blind
  <2> QED BY <1>1, <1>10, <2>1, <2>2 DEF v, w
<1>15. stack' \in Stacks
  BY <1>2, <1>12, <1>14 DEF Stacks
<1>16. pot' = x + y
  BY <1>1, <1>8, <1>10
<1> HIDE DEF blind
<1>17. pot' + SumFunction(stack') = SumFunction(stack) /\ pot' \in Nat
  <2> DEFINE f == stack
             g == stack'
             n == SumFunction(f)
             m == SumFunction(g)
  <2>1. m + v + w = n + g[small] + g[big]
    <3>1. IsFiniteSet(Sides) /\ f \in [Sides -> Nat] /\ g \in [Sides -> Nat]
      BY <1>2, <1>15, SidesFinite DEF Stacks
    <3>2. big \in Sides \ {small} /\ \A p \in Sides \ {small, big} : g[p] = f[p]
      BY <1>8, <1>10, <1>14
    <3>3. v = f[small] /\ w = f[big]
      BY DEF v, w
    <3> HIDE DEF f, g
    <3> QED BY <1>10, <3>1, <3>2, <3>3, SumChangesTwo
  <2>2. n \in Nat /\ m \in Nat
    BY <1>2, <1>15, StackSum
  <2>3. m + v + w = n + (v - x) + (w - y)
    BY <1>14, <2>1
  <2>4. x + y + m = n /\ x + y \in Nat
    <3> HIDE DEF n, m
    <3> QED BY ONLY <1>11, <1>12, <2>2, <2>3
  <2> QED BY <1>16, <2>4
<1>18. ChipTypes'
  BY <1>13, <1>15, <1>17 DEF ChipTypes
<1>19. ChipsKept'
  <2> DEFINE n == SumFunction(stack)
  <2>1. n \in Nat /\ pot \in Nat /\ Chips \in Nat
    BY <1>2, StackSum, ChipsType DEF ChipTypes
  <2>2. pot + n <= Chips /\ (restarts = 0 => pot + n = Chips /\ pot = 0)
    BY <1>1 DEF PokerInv, ChipsKept, PotIsPaid
  <2>3. n <= Chips /\ (restarts = 0 => n = Chips)
    <3> HIDE DEF n
    <3> QED BY ONLY <2>1, <2>2
  <2> QED BY <1>1, <1>17, <2>3 DEF ChipsKept
<1>20. SeatTypes'
  BY <1>1, <1>3, <1>6, <1>9, <1>10 DEF SeatTypes
<1>21. DealTypes'
  BY <1>1, <1>2 DEF DealTypes, Streets
<1>22. ClockTypes' /\ EndTypes'
  BY <1>1, <1>2 DEF ClockTypes, EndTypes, clocks, PokerInv, PokerTypes
<1>23. SeatsEmpty'
  BY <1>1, <1>2, <1>3, <1>7, <1>8, <1>14 DEF SeatsEmpty, HasChips, Stacks
<1>24. hand' \in Nat \ {0} /\ hand' <= MaxHands + restarts' /\ restarts' = restarts
  <2>1. hand \in Nat /\ hand < MaxHands + restarts /\ MaxHands \in Nat /\ restarts \in Nat
    BY <1>1, <1>2, LimitsAssumption DEF PokerInv, HandsLeft, DealTypes, ClockTypes
  <2> QED BY <1>1, <2>1
<1>25. FirstHand' /\ HandsLeft' /\ PotIsPaid' /\ NoResultYet'
  BY <1>1, <1>24 DEF FirstHand, HandsLeft, PotIsPaid, NoResultYet, PokerInv
<1>26. BetsInPot'
  <2>1. pot' <= Chips
    <3> DEFINE m == SumFunction(stack')
    <3>1. m \in Nat /\ pot' \in Nat /\ Chips \in Nat /\ pot' + m <= Chips
      BY <1>15, <1>17, <1>19, StackSum, ChipsType DEF ChipsKept
    <3>2. \A a, b, c \in Nat : a + b <= c => a <= c
      OBVIOUS
    <3> QED BY ONLY <3>1, <3>2
  <2>2. \A p \in Sides : bet'[p] \in {0, x, y}
    BY <1>13
  <2>3. \A b \in {0, x, y} : b <= x + y /\ b \in Nat
    BY <1>12
  <2>4. \A a, b, c \in Nat : a <= b /\ b <= c => a <= c
    OBVIOUS
  <2>5. \A p \in Sides : bet'[p] <= pot' /\ bet'[p] <= Chips
    BY <1>16, <1>17, <2>1, <2>2, <2>3, <2>4, ChipsType
  <2> QED BY <2>5 DEF BetsInPot
<1>27. TurnIsIn'
  <2>1. turn' \in Active' /\ ~ Acted(turn)'
    BY <1>1, <1>3, <1>9 DEF Active, Acted
  <2> QED BY <1>1, <2>1 DEF TurnIsIn
<1> QED BY <1>18, <1>19, <1>20, <1>21, <1>22, <1>23, <1>25, <1>26, <1>27 DEF PokerInv, PokerTypes

\* A match that is over stays as it is.
LEMMA EndKeepsPoker ==
  ASSUME PokerInv, phase' = "over", result'.who \in 0 .. Players, ClockTypes',
         UNCHANGED <<chips, seats, deal, agents, restarts>>
  PROVE  PokerInv'
<1>1. /\ stack' = stack /\ bet' = bet /\ pot' = pot
      /\ UNCHANGED <<folded, allIn, eliminated, dealer, turn, street, actions, hand, agents, restarts>>
  BY DEF chips, seats, deal
<1>2. PokerTypes'
  BY <1>1 DEF PokerInv, PokerTypes, ChipTypes, SeatTypes, DealTypes, EndTypes
<1> QED BY <1>1, <1>2 DEF PokerInv, ChipsKept, PotIsPaid, SeatsEmpty, FirstHand, HandsLeft, BetsInPot,
                          TurnIsIn, NoResultYet

\* The side that endMatch makes the winner.
LEMMA EndMatchType ==
  ASSUME NEW why, NEW winner \in 0 .. Players, EndMatch(why, winner)
  PROVE  phase' = "over" /\ result'.who \in 0 .. Players
<1>1. {0, 1, 2} \subseteq 0 .. Players
  BY PlayersAssumption
<1>2. result'.who \in {0, 1, 2, winner}
  BY DEF EndMatch
<1> QED BY <1>1, <1>2 DEF EndMatch

LEMMA WinnerTypes ==
  ASSUME PokerTypes
  PROVE  /\ Winner \in 0 .. Players
         /\ TimedOut # {} /\ Players = 2 => 3 - Min(TimedOut) \in 0 .. Players
         /\ Most # {} => Min(Most) \in Most /\ Min(Most) \in 0 .. Players
<1>1. Sides \subseteq 0 .. Players
  BY DEF Sides
<1>2. Winner \in 0 .. Players
  <2>1. CASE pot = 0 /\ Cardinality(HasChips) = 1
    <3>1. HasChips # {}
      BY <2>1, FS_EmptySet
    <3>2. \E p \in Sides : stack[p] > 0
      BY <3>1 DEF HasChips
    <3>3. Winner \in Sides
      BY <2>1, <3>2 DEF Winner
    <3> QED BY <1>1, <3>3
  <2>2. CASE ~ (pot = 0 /\ Cardinality(HasChips) = 1)
    BY <2>2, PlayersAssumption DEF Winner
  <2> QED BY <2>1, <2>2
<1>3. ASSUME NEW S \in SUBSET Sides, S # {} PROVE Min(S) \in S
  <2>1. 1 \in Sides
    BY PlayersAssumption DEF Sides
  <2> QED BY <1>3, <2>1, NextSeatType
<1>4. TimedOut \in SUBSET Sides /\ Most \in SUBSET Sides
  BY DEF TimedOut, Most
<1>5. TimedOut # {} /\ Players = 2 => 3 - Min(TimedOut) \in 0 .. Players
  <2> SUFFICES ASSUME TimedOut # {}, Players = 2 PROVE 3 - Min(TimedOut) \in 0 .. Players
    OBVIOUS
  <2>1. Min(TimedOut) \in 1 .. 2
    BY <1>3, <1>4 DEF Sides
  <2> QED BY <2>1
<1>6. Most # {} => Min(Most) \in Most /\ Min(Most) \in 0 .. Players
  BY <1>1, <1>3, <1>4
<1> QED BY <1>2, <1>5, <1>6

LEMMA EndTimedOutType ==
  ASSUME PokerTypes, TimedOut # {}, EndTimedOut
  PROVE  phase' = "over" /\ result'.who \in 0 .. Players
<1> DEFINE w == IF Players = 2 THEN 3 - Min(TimedOut) ELSE 0
<1>1. w \in 0 .. Players
  BY WinnerTypes, PlayersAssumption
<1>2. EndMatch("timeouts", w)
  BY DEF EndTimedOut
<1> HIDE DEF w
<1> QED BY <1>1, <1>2, EndMatchType

LEMMA LoopEndsKeepsPoker == ASSUME PokerInv, LoopEnds PROVE PokerInv'
<1>1. ClockTypes' /\ UNCHANGED <<chips, seats, deal, agents, restarts>>
  BY DEF LoopEnds, clocks, PokerInv, PokerTypes, ClockTypes
<1>2. PokerTypes
  BY DEF PokerInv
<1>3. phase' = "over" /\ result'.who \in 0 .. Players
  BY <1>2, WinnerTypes, EndMatchType, EndTimedOutType DEF LoopEnds
<1> QED BY <1>1, <1>3, EndKeepsPoker

LEMMA AskThrowsKeepsPoker == ASSUME PokerInv, AskThrows PROVE PokerInv'
<1>1. ClockTypes' /\ UNCHANGED <<chips, seats, deal, agents, restarts>>
  BY DEF AskThrows, clocks, PokerInv, PokerTypes, ClockTypes
<1>2. phase' = "over" /\ result'.who \in 0 .. Players
  BY PlayersAssumption DEF AskThrows
<1> QED BY <1>1, <1>2, EndKeepsPoker

LEMMA AnswerKeepsPoker == ASSUME PokerInv, Answer PROVE PokerInv'
<1>1. PICK type \in Kinds, amount \in 0 .. Chips :
        Apply(type, amount) /\ Added(type, amount) \in 0 .. stack[turn]
  BY LegalIsCovered DEF Answer, Asking
<1>2. ClockTypes'
  BY ErrorsType DEF Answer, PokerInv, PokerTypes, ClockTypes
<1>3. phase = "act" /\ phase' = "act" /\ UNCHANGED <<agents, result, restarts>>
  BY DEF Answer, Asking
<1> QED BY <1>1, <1>2, <1>3, ApplyKeepsPoker

LEMMA MissKeepsPoker == ASSUME PokerInv, Miss PROVE PokerInv'
<1>1. turn \in Sides /\ ClockTypes /\ PokerTypes /\ ChipTypes
  BY DEF PokerInv, PokerTypes, SeatTypes
<1>2. \A f \in Stacks : [f EXCEPT ![turn] = @ + 1] \in Stacks
  BY <1>1 DEF Stacks
<1>3. missed' \in Stacks /\ seen' = seen /\ agents' = agents /\ restarts' = restarts
  BY <1>1, <1>2 DEF Miss, ClockTypes
<1>4. CASE /\ errors + 1 < MaxErrors
           /\ errors' = errors + 1
           /\ timeouts' = [seen EXCEPT ![turn] = @ + 1]
           /\ docTimeouts' = [docTimeouts EXCEPT ![turn] = seen[turn] + 1]
           /\ Apply("fold", 0)
           /\ UNCHANGED <<phase, result>>
  <2>1. docTimeouts' \in Stacks /\ timeouts' \in Stacks
    BY <1>1, <1>2, <1>4 DEF ClockTypes, Stacks
  <2>2. errors' \in 0 .. MaxErrors - 1
    BY <1>1, <1>4, ErrorsType DEF ClockTypes
  <2>3. ClockTypes'
    BY <1>1, <1>3, <2>1, <2>2 DEF ClockTypes
  <2>4. "fold" \in Kinds /\ 0 \in 0 .. Chips /\ Added("fold", 0) \in 0 .. stack[turn]
    BY <1>1, ChipsType DEF Kinds, Added, ChipTypes, Stacks
  <2>5. phase = "act" /\ phase' = "act"
    BY <1>4 DEF Miss, Asking
  <2> QED BY <1>3, <1>4, <2>3, <2>4, <2>5, ApplyKeepsPoker
<1>5. CASE /\ errors' = 0
           /\ EndMatch("errors", 0)
           /\ UNCHANGED <<chips, seats, deal, timeouts, docTimeouts>>
  <2>1. ClockTypes'
    BY <1>1, <1>3, <1>5, ErrorsType DEF ClockTypes
  <2>2. 0 \in 0 .. Players
    BY PlayersAssumption
  <2>3. phase' = "over" /\ result'.who \in 0 .. Players
    BY <1>5, <2>2, EndMatchType
  <2> QED BY <1>3, <1>5, <2>1, <2>3, EndKeepsPoker
<1> QED BY <1>4, <1>5 DEF Miss

LEMMA AdvanceKeepsPoker == ASSUME PokerInv, Advance PROVE PokerInv'
<1>1. /\ phase = "act" /\ street \in Streets \ {"showdown"}
      /\ UNCHANGED <<stack, pot, folded, allIn, eliminated, dealer, hand, seen, clocks, agents,
                     result, restarts>>
      /\ street' \in Streets \ {"preflop"}
      /\ phase' \in {"act", "resolve"}
  BY DEF Advance, IsHandOver, Ask, NextStreet, Streets, PokerInv, PokerTypes, DealTypes
<1>2. ChipTypes /\ SeatTypes /\ DealTypes /\ ClockTypes /\ EndTypes
  BY DEF PokerInv, PokerTypes
<1>3. bet' \in {bet, Nobody} /\ actions' \in {actions, <<>>}
  BY DEF Advance
<1>4. Actable \in SUBSET Sides /\ Actable' = Actable /\ Active' = Active
  BY <1>1 DEF Actable, Active
<1>5. turn' \in Sides /\ (phase' = "act" => Actable # {} /\ turn' \in Actable)
  <2>1. CASE street = "river"
    BY <1>2, <2>1 DEF Advance, SeatTypes
  <2>2. CASE street # "river"
    <3>1. /\ turn' = IF Actable = {} THEN turn
                     ELSE IF dealer \in Active THEN NextSeat(Actable, dealer) ELSE Min(Actable)
          /\ phase' = "act" => Actable # {}
      BY <1>4, <2>2 DEF Advance, Ask
    <3>2. Actable # {} => NextSeat(Actable, dealer) \in Actable /\ Min(Actable) \in Actable
      BY <1>2, <1>4, NextSeatType DEF SeatTypes
    <3> QED BY <1>2, <1>4, <3>1, <3>2 DEF SeatTypes
  <2> QED BY <2>1, <2>2
<1>6. ChipTypes'
  BY <1>1, <1>2, <1>3 DEF ChipTypes, Stacks, Nobody
<1>7. SeatTypes' /\ DealTypes' /\ ClockTypes' /\ EndTypes'
  <2>1. SeatTypes'
    BY <1>1, <1>2, <1>5 DEF SeatTypes
  <2>2. DealTypes'
    <3>1. <<>> \in Seq(Actions)
      OBVIOUS
    <3>2. actions' \in Seq(Actions)
      BY <1>2, <1>3, <3>1, Zenon DEF DealTypes
    <3> QED BY <1>1, <1>2, <3>2 DEF DealTypes
  <2>3. ClockTypes'
    BY <1>1, <1>2 DEF ClockTypes, clocks
  <2>4. EndTypes'
    BY <1>1, <1>2 DEF EndTypes
  <2> QED BY <2>1, <2>2, <2>3, <2>4
<1>8. ChipsKept' /\ PotIsPaid' /\ SeatsEmpty' /\ FirstHand' /\ HandsLeft' /\ NoResultYet'
  BY <1>1 DEF PokerInv, ChipsKept, PotIsPaid, SeatsEmpty, FirstHand, HandsLeft, NoResultYet
<1>9. BetsInPot'
  <2>1. pot \in Nat /\ Chips \in Nat
    BY <1>2, ChipsType DEF ChipTypes
  <2>2. \A p \in Sides : bet'[p] \in {bet[p], 0}
    BY <1>3 DEF Nobody
  <2>3. \A p \in Sides : bet'[p] <= pot /\ bet'[p] <= Chips
    BY <1>1, <2>1, <2>2 DEF PokerInv, BetsInPot
  <2> QED BY <1>1, <2>3 DEF BetsInPot
<1>10. TurnIsIn'
  BY <1>4, <1>5 DEF TurnIsIn, Actable
<1> QED BY <1>6, <1>7, <1>8, <1>9, <1>10 DEF PokerInv, PokerTypes

\* The shares of a pot, with the rest for the first of the best, are the pot.
LEMMA SharesAreThePot ==
  ASSUME NEW f \in Stacks, NEW best \in SUBSET Sides, best # {}, NEW n \in Nat, NEW g,
         g = [p \in Sides |-> IF p \notin best THEN f[p]
                              ELSE f[p] + n \div Cardinality(best)
                                   + IF p = Min(best) THEN n % Cardinality(best) ELSE 0]
  PROVE  /\ g \in Stacks /\ SumFunction(g) = SumFunction(f) + n
         /\ \A p \in Sides \ best : g[p] = f[p]
<1> DEFINE c     == Cardinality(best)
           one   == {Min(best)}
           share == n \div c
           rest  == n % c
           h     == [p \in Sides |-> f[p] + IF p \in best THEN share ELSE 0]
<1>1. c \in Nat \ {0}
  <2>1. IsFiniteSet(best)
    BY SidesFinite, FS_Subset
  <2> QED BY <2>1, FS_CardinalityType, FS_EmptySet
<1>2. one \in SUBSET best /\ one \in SUBSET Sides /\ Cardinality(one) = 1
  <2>1. 1 \in Sides
    BY PlayersAssumption DEF Sides
  <2> QED BY <2>1, NextSeatType, FS_Singleton
<1>3. g = [p \in Sides |-> IF p \notin best THEN f[p]
                           ELSE f[p] + share + IF p \in one THEN rest ELSE 0]
  OBVIOUS
<1> HIDE DEF one, c
<1>4. share \in Nat /\ rest \in Nat /\ n = c * share + rest
  BY <1>1
<1> HIDE DEF share, rest
<1>5. f \in [Sides -> Nat] /\ \A p \in Sides : f[p] \in Nat
  BY DEF Stacks
<1>6. h \in [Sides -> Nat] /\ \A p \in Sides : h[p] = f[p] + IF p \in best THEN share ELSE 0
  BY <1>4, <1>5
<1>7. g \in [Sides -> Nat] /\ \A p \in Sides : g[p] = h[p] + IF p \in one THEN rest ELSE 0
  <2>1. \A p \in Sides : g[p] = h[p] + (IF p \in one THEN rest ELSE 0) /\ g[p] \in Nat
    BY <1>2, <1>3, <1>4, <1>5
  <2> QED BY <1>3, <2>1
<1>8. \A p \in Sides \ best : g[p] = f[p]
  BY <1>3
<1> HIDE DEF h
<1>9. SumFunction(h) = SumFunction(f) + c * share
  <2>1. IsFiniteSet(Sides)
    BY SidesFinite
  <2>2. SumFunction(h) = SumFunction(f) + Cardinality(best) * share
    BY ONLY <1>4, <1>5, <1>6, <2>1, SumOfGains, best \in SUBSET Sides
  <2> QED BY <2>2 DEF c
<1>10. SumFunction(g) = SumFunction(h) + Cardinality(one) * rest
  <2>1. IsFiniteSet(Sides)
    BY SidesFinite
  <2> QED BY ONLY <1>2, <1>4, <1>6, <1>7, <2>1, SumOfGains
<1> DEFINE s == SumFunction(f)
           t == SumFunction(g)
           k == c * share
<1>11. s \in Nat /\ k \in Nat /\ n = k + rest
  <2>1. \A a, b \in Nat : a * b \in Nat
    OBVIOUS
  <2> QED BY <1>1, <1>4, <2>1, StackSum
<1>12. t = (s + k) + 1 * rest
  BY <1>2, <1>9, <1>10
<1>13. t = s + n
  <2> HIDE DEF s, t, k
  <2> QED BY ONLY <1>4, <1>11, <1>12
<1> QED BY <1>7, <1>8, <1>13 DEF Stacks

LEMMA ResolveKeepsPoker == ASSUME PokerInv, Resolve PROVE PokerInv'
<1>1. /\ phase \in {"act", "resolve"} /\ phase' = "resolved" /\ pot' = 0
      /\ street' \in {street, "showdown"} /\ bet' = bet
      /\ UNCHANGED <<folded, allIn, eliminated, dealer, turn, actions, hand, seen, clocks, agents,
                     result, restarts>>
  BY DEF Resolve, seats
<1>2. ChipTypes /\ SeatTypes /\ DealTypes /\ ClockTypes /\ EndTypes
  BY DEF PokerInv, PokerTypes
<1>3. Active \in SUBSET Sides /\ eliminated \cap Active = {}
  BY DEF Active
<1>4. pot \in Nat /\ stack \in Stacks
  BY <1>2 DEF ChipTypes
<1>5. /\ stack' \in Stacks /\ SumFunction(stack') = SumFunction(stack) + pot
      /\ \A p \in Sides \ Active : stack'[p] = stack[p]
  <2>1. CASE Showdown
    <3>1. PICK best \in (SUBSET Active) \ {{}} :
            stack' = [p \in Sides |-> IF p \notin best THEN stack[p]
                                      ELSE stack[p] + pot \div Cardinality(best)
                                           + IF p = Min(best) THEN pot % Cardinality(best) ELSE 0]
      BY <2>1 DEF Showdown
    <3>2. best \in SUBSET Sides /\ best # {} /\ best \subseteq Active
      BY <1>3
    <3>3. /\ stack' \in Stacks /\ SumFunction(stack') = SumFunction(stack) + pot
          /\ \A p \in Sides \ best : stack'[p] = stack[p]
      BY <1>4, <3>1, <3>2, SharesAreThePot
    <3> QED BY <3>2, <3>3
  <2>2. CASE Fold
    <3>1. /\ Cardinality(Active) = 1
          /\ stack' = [p \in Sides |-> IF p \in Active THEN stack[p] + pot ELSE stack[p]]
      BY <2>2 DEF Fold
    <3> DEFINE g == stack'
    <3>2. /\ g \in [Sides -> Nat] /\ stack \in [Sides -> Nat]
          /\ \A p \in Sides : g[p] = stack[p] + IF p \in Active THEN pot ELSE 0
      BY <1>4, <3>1 DEF Stacks
    <3>3. \A p \in Sides \ Active : g[p] = stack[p]
      BY <3>1
    <3> HIDE DEF g
    <3>4. SumFunction(g) = SumFunction(stack) + Cardinality(Active) * pot
      <4>1. IsFiniteSet(Sides)
        BY SidesFinite
      <4> QED BY ONLY <1>3, <1>4, <3>2, <4>1, SumOfGains
    <3>5. 1 * pot = pot
      BY <1>4
    <3>6. SumFunction(g) = SumFunction(stack) + pot
      BY <3>1, <3>4, <3>5
    <3> QED BY <3>2, <3>3, <3>6 DEF Stacks, g
  <2> QED BY <2>1, <2>2 DEF Resolve
<1>6. ChipsKept' /\ ChipTypes'
  <2> DEFINE n == SumFunction(stack)
             m == SumFunction(stack')
  <2>1. n \in Nat /\ m \in Nat /\ m = n + pot
    BY <1>4, <1>5, StackSum
  <2>2. 0 + m = pot + n
    <3> HIDE DEF n, m
    <3> QED BY ONLY <1>4, <2>1
  <2>3. pot' + SumFunction(stack') = pot + SumFunction(stack)
    BY <1>1, <2>2
  <2>4. ChipsKept'
    BY <1>1, <2>3 DEF PokerInv, ChipsKept
  <2> QED BY <1>1, <1>2, <1>5, <2>4 DEF ChipTypes
<1>7. SeatTypes' /\ DealTypes' /\ ClockTypes' /\ EndTypes'
  <2>1. SeatTypes'
    BY <1>1, <1>2 DEF SeatTypes
  <2>2. DealTypes'
    BY <1>1, <1>2 DEF DealTypes, Streets
  <2>3. ClockTypes'
    BY <1>1, <1>2 DEF ClockTypes, clocks
  <2>4. EndTypes'
    BY <1>1, <1>2 DEF EndTypes
  <2> QED BY <2>1, <2>2, <2>3, <2>4
<1>8. SeatsEmpty'
  BY <1>1, <1>2, <1>3, <1>5 DEF PokerInv, SeatsEmpty, SeatTypes
<1>9. FirstHand' /\ HandsLeft' /\ PotIsPaid' /\ NoResultYet'
  BY <1>1 DEF PokerInv, FirstHand, HandsLeft, PotIsPaid, NoResultYet
<1>10. BetsInPot' /\ TurnIsIn'
  BY <1>1 DEF PokerInv, BetsInPot, TurnIsIn
<1> QED BY <1>6, <1>7, <1>8, <1>9, <1>10 DEF PokerInv, PokerTypes

LEMMA AfterHandKeepsPoker == ASSUME PokerInv, AfterHand PROVE PokerInv'
<1>1. phase = "resolved" /\ UNCHANGED <<chips, seats, deal, seen, clocks, agents, restarts>>
  BY DEF AfterHand
<1>2. ClockTypes' /\ PokerTypes
  BY <1>1 DEF clocks, PokerInv, PokerTypes, ClockTypes
<1>3. 0 \in 0 .. Players
  BY PlayersAssumption
<1>4. CASE Winner # 0
  <2>1. EndMatch("chips", Winner) /\ Winner \in 0 .. Players
    BY <1>2, <1>4, WinnerTypes DEF AfterHand
  <2>2. phase' = "over" /\ result'.who \in 0 .. Players
    BY <2>1, EndMatchType
  <2> QED BY <1>1, <1>2, <2>2, EndKeepsPoker
<1>5. CASE Winner = 0 /\ hand >= MaxHands
  <2> DEFINE w == IF Cardinality(Most) = 1 THEN Min(Most) ELSE 0
  <2>1. EndMatch("hands", w)
    BY <1>5 DEF AfterHand
  <2>2. w \in 0 .. Players
    <3>1. Cardinality(Most) = 1 => Most # {}
      BY FS_EmptySet
    <3> QED BY <1>2, <1>3, <3>1, WinnerTypes
  <2> HIDE DEF w
  <2>3. phase' = "over" /\ result'.who \in 0 .. Players
    BY <2>1, <2>2, EndMatchType
  <2> QED BY <1>1, <1>2, <2>3, EndKeepsPoker
<1>6. CASE Winner = 0 /\ ~ hand >= MaxHands /\ TimedOut # {}
  <2>1. EndTimedOut
    BY <1>6 DEF AfterHand
  <2>2. phase' = "over" /\ result'.who \in 0 .. Players
    BY <1>2, <1>6, <2>1, EndTimedOutType
  <2> QED BY <1>1, <1>2, <2>2, EndKeepsPoker
<1>7. CASE Winner = 0 /\ ~ hand >= MaxHands /\ TimedOut = {}
  <2>1. phase' = "hand" /\ result' = result
    BY <1>7 DEF AfterHand
  <2>2. /\ stack' = stack /\ bet' = bet /\ pot' = pot
        /\ UNCHANGED <<folded, allIn, eliminated, dealer, turn, street, actions, hand, agents, restarts>>
    BY <1>1 DEF chips, seats, deal
  <2>3. PokerTypes'
    BY <1>2, <2>1, <2>2 DEF PokerTypes, ChipTypes, SeatTypes, DealTypes, EndTypes
  <2>4. HandsLeft'
    <3>1. hand \in Nat /\ MaxHands \in Nat /\ restarts \in Nat
      BY <1>2, LimitsAssumption DEF PokerTypes, DealTypes, ClockTypes
    <3>2. hand < MaxHands + restarts /\ hand <= MaxHands + restarts
      BY <1>7, <3>1
    <3> QED BY <2>2, <3>2 DEF HandsLeft
  <2>5. PotIsPaid' /\ FirstHand' /\ BetsInPot' /\ TurnIsIn' /\ NoResultYet'
    BY <1>1, <2>1, <2>2 DEF PokerInv, PotIsPaid, FirstHand, BetsInPot, TurnIsIn, NoResultYet
  <2>6. ChipsKept' /\ SeatsEmpty'
    BY <2>2 DEF PokerInv, ChipsKept, SeatsEmpty
  <2> QED BY <2>3, <2>4, <2>5, <2>6 DEF PokerInv
<1> QED BY <1>4, <1>5, <1>6, <1>7

LEMMA RestartKeepsPoker == ASSUME PokerInv, Restart PROVE PokerInv'
<1>1. /\ phase # "over" /\ restarts < MaxRestarts /\ restarts' = restarts + 1 /\ phase' = "hand"
      /\ timeouts' = docTimeouts /\ errors' = 0 /\ agents' \subseteq agents
      /\ UNCHANGED <<seen, docTimeouts, missed, result>>
      /\ stack' = stack /\ bet' = bet /\ pot' = pot
      /\ UNCHANGED <<folded, allIn, eliminated, dealer, turn, street, actions, hand>>
  BY DEF Restart, chips, seats, deal
<1>2. ChipTypes /\ SeatTypes /\ DealTypes /\ ClockTypes /\ EndTypes
  BY DEF PokerInv, PokerTypes
<1>3. restarts \in Nat /\ restarts' \in 0 .. MaxRestarts /\ restarts' # 0 /\ restarts' \in Nat
  BY <1>1, <1>2, LimitsAssumption DEF ClockTypes
<1>4. PokerTypes'
  <2>1. ChipTypes' /\ SeatTypes' /\ EndTypes'
    BY <1>1, <1>2 DEF ChipTypes, SeatTypes, EndTypes
  <2>2. DealTypes'
    BY <1>1, <1>2 DEF DealTypes
  <2>3. ClockTypes'
    BY <1>1, <1>2, <1>3, ErrorsType DEF ClockTypes
  <2> QED BY <2>1, <2>2, <2>3 DEF PokerTypes
<1>5. HandsLeft'
  <2>1. hand \in Nat /\ MaxHands \in Nat /\ hand <= MaxHands + restarts
    BY <1>2, LimitsAssumption DEF PokerInv, HandsLeft, DealTypes
  <2>2. hand <= MaxHands + (restarts + 1) /\ hand < MaxHands + (restarts + 1)
    BY <1>3, <2>1
  <2> QED BY <1>1, <2>2 DEF HandsLeft
<1>6. PotIsPaid' /\ FirstHand' /\ BetsInPot' /\ TurnIsIn' /\ NoResultYet'
  BY <1>1, <1>3 DEF PokerInv, PotIsPaid, FirstHand, BetsInPot, TurnIsIn, NoResultYet
<1>7. ChipsKept' /\ SeatsEmpty'
  BY <1>1, <1>3 DEF PokerInv, ChipsKept, SeatsEmpty
<1> QED BY <1>4, <1>5, <1>6, <1>7 DEF PokerInv

\* Whatever the engine, the loop and a recovery do keeps the invariant.
LEMMA PokerKept == ASSUME PokerInv, [Next]_vars PROVE PokerInv'
<1>1. CASE LoopEnds
  BY <1>1, LoopEndsKeepsPoker
<1>2. CASE Deal
  BY <1>2, DealKeepsPoker
<1>3. CASE Answer
  BY <1>3, AnswerKeepsPoker
<1>4. CASE Miss
  BY <1>4, MissKeepsPoker
<1>5. CASE AskThrows
  BY <1>5, AskThrowsKeepsPoker
<1>6. CASE Advance
  BY <1>6, AdvanceKeepsPoker
<1>7. CASE Resolve
  BY <1>7, ResolveKeepsPoker
<1>8. CASE AfterHand
  BY <1>8, AfterHandKeepsPoker
<1>9. CASE Restart
  BY <1>9, RestartKeepsPoker
<1>10. CASE UNCHANGED vars
  <2>1. /\ stack' = stack /\ bet' = bet /\ pot' = pot
        /\ UNCHANGED <<folded, allIn, eliminated, dealer, turn, street, actions, hand, agents, restarts>>
        /\ UNCHANGED <<phase, seen, timeouts, docTimeouts, missed, errors, result>>
    BY <1>10 DEF vars, chips, seats, deal, clocks
  <2>2. PokerTypes'
    BY <2>1 DEF PokerInv, PokerTypes, ChipTypes, SeatTypes, DealTypes, ClockTypes, EndTypes
  <2>3. ChipsKept' /\ PotIsPaid' /\ SeatsEmpty' /\ FirstHand' /\ HandsLeft' /\ BetsInPot' /\ NoResultYet'
    BY <2>1 DEF PokerInv, ChipsKept, PotIsPaid, SeatsEmpty, FirstHand, HandsLeft, BetsInPot, NoResultYet
  <2>4. TurnIsIn'
    BY <2>1 DEF PokerInv, TurnIsIn, Actable, Active, Acted
  <2> QED BY <2>2, <2>3, <2>4 DEF PokerInv
<1> QED BY <1>1, <1>2, <1>3, <1>4, <1>5, <1>6, <1>7, <1>8, <1>9, <1>10 DEF Next, Step

LEMMA PokerBegins == ASSUME Init PROVE PokerInv
<1>1. 1 \in Sides /\ 0 \in 0 .. Players
  BY PlayersAssumption DEF Sides
<1>2. StartingStack \in Nat /\ Chips \in Nat /\ StartingStack <= Chips
  <2>1. Players \in Nat /\ Players >= 1 /\ StartingStack \in Nat
    BY PlayersAssumption, StakesAssumption
  <2>2. \A m, n \in Nat : m >= 1 => n <= m * n /\ m * n \in Nat
    OBVIOUS
  <2> QED BY <2>1, <2>2 DEF Chips
<1>3. Nobody \in Stacks /\ stack \in Stacks
  BY <1>2 DEF Nobody, Stacks, Init
<1>4. ChipTypes /\ SeatTypes /\ EndTypes
  BY <1>1, <1>3 DEF ChipTypes, SeatTypes, EndTypes, Init
<1>5. DealTypes
  BY DEF DealTypes, Init, Streets
<1>6. ClockTypes
  BY <1>3, ErrorsType, LimitsAssumption DEF ClockTypes, Init
<1>7. ChipsKept
  <2>1. SumFunction(stack) = Cardinality(Sides) * StartingStack
    <3>1. IsFiniteSet(Sides) /\ Sides \in SUBSET Sides
      BY SidesFinite
    <3>2. stack \in [Sides -> Nat] /\ \A p \in Sides : stack[p] = IF p \in Sides THEN StartingStack ELSE 0
      BY <1>3 DEF Stacks, Init
    <3> QED BY ONLY <1>2, <3>1, <3>2, SumOfEqual
  <2>2. SumFunction(stack) = Chips
    BY <2>1, SidesFinite DEF Chips
  <2>3. 0 + Chips = Chips /\ Chips <= Chips
    BY <1>2
  <2> QED BY <2>2, <2>3 DEF ChipsKept, Init
<1>8. PotIsPaid /\ SeatsEmpty /\ FirstHand /\ TurnIsIn /\ NoResultYet
  BY DEF PotIsPaid, SeatsEmpty, FirstHand, TurnIsIn, NoResultYet, Init
<1>9. HandsLeft
  <2>1. 0 < MaxHands + 0 /\ 0 <= MaxHands + 0
    BY LimitsAssumption
  <2> QED BY <2>1 DEF HandsLeft, Init
<1>10. BetsInPot
  BY <1>2 DEF BetsInPot, Init, Nobody
<1> QED BY <1>4, <1>5, <1>6, <1>7, <1>8, <1>9, <1>10 DEF PokerInv, PokerTypes

LEMMA PokerInvHolds == Spec => []PokerInv
<1>1. Init => PokerInv
  BY PokerBegins
<1>2. PokerInv /\ [Next]_vars => PokerInv'
  BY PokerKept
<1> QED BY <1>1, <1>2, PTL DEF Spec

\* In the loops of all the games a match of poker is one of Poker: no other loop and no
\* timer touches it.
THEOREM LoopsPlayPoker == LoopSpec => Spec
<1>1. LoopInit => Init
  BY DEF LoopInit
<1>2. [LoopNext]_allVars => [Next]_vars
  <2>1. ASSUME NEW type, Playing(type) PROVE UNCHANGED vars
    BY <2>1 DEF Playing
  <2>2. Turn => UNCHANGED vars
    BY <2>1 DEF Turn, UnoTurn, UnoFollowUp, Game2048Turn, WerewolfTurn, MkOrient, MkBorder,
                MkTribute, MkPlace, RpsRound, RpsRevealed, ChessTurn, ChessOver, BoardTurn
  <2>3. ClockFires \/ Over => UNCHANGED vars
    BY DEF ClockFires, Over
  <2>4. PokerStep => Next
    BY DEF PokerStep
  <2>5. UNCHANGED allVars => UNCHANGED vars
    BY DEF allVars
  <2> QED BY <2>2, <2>3, <2>4, <2>5 DEF LoopNext
<1> QED BY <1>1, <1>2, PTL DEF LoopSpec, Spec

-----------------------------------------------------------------------------
(* Poker: what holds of every match *)

\* No chip comes into being or is lost: bets, short blinds, all_ins, split pots and odd
\* chips included; only a restart in the middle of a hand loses what is in the pot.
THEOREM ChipsKeptHolds == LoopSpec => []ChipsKept
<1>1. PokerInv => ChipsKept
  BY DEF PokerInv
<1> QED BY <1>1, LoopsPlayPoker, PokerInvHolds, PTL

\* Whoever is asked is still in the hand, and all in only as a blind that took its last
\* chips.
THEOREM AskedIsInHandHolds == LoopSpec => []AskedIsInHand
<1>1. PokerInv => AskedIsInHand
  <2>1. StreetOver \/ Actable # {}
    BY DEF StreetOver
  <2> QED BY <2>1 DEF PokerInv, TurnIsIn, AskedIsInHand, Asking
<1> QED BY <1>1, LoopsPlayPoker, PokerInvHolds, PTL

\* A street ends only when every side that can still act has acted on it and has put in
\* as much as any other.
THEOREM StreetsAreSettledHolds == LoopSpec => StreetsAreSettled
<1> DEFINE Settled ==
      street' # street /\ phase = "act" /\ street' # "preflop" /\ Cardinality(Active) > 1 =>
         \A p \in Actable : Acted(p) /\ bet[p] = MaxBet
<1>1. PokerInv /\ [Next]_vars => [Settled]_vars
  <2> SUFFICES ASSUME Next, street' # street, phase = "act", Cardinality(Active) > 1
               PROVE  \A p \in Actable : Acted(p) /\ bet[p] = MaxBet
    OBVIOUS
  <2>1. ~ (Cardinality(Active) <= 1)
    <3>1. Cardinality(Active) \in Nat
      BY SidesFinite, FS_Subset, FS_CardinalityType DEF Active
    <3> DEFINE n == Cardinality(Active)
    <3> HIDE DEF n
    <3>2. n \in Nat /\ n > 1 => ~ (n <= 1)
      OBVIOUS
    <3> QED BY <3>1, <3>2 DEF n
  <2>2. ~ Answer /\ ~ Miss
    BY DEF Answer, ApplyLegal, Apply, Miss, deal
  <2>3. ~ LoopEnds /\ ~ Deal /\ ~ AskThrows /\ ~ AfterHand /\ ~ Restart
    BY DEF LoopEnds, Deal, AskThrows, AfterHand, Restart, deal
  <2>4. ~ Resolve
    BY <2>1 DEF Resolve
  <2>5. StreetOver
    BY <2>2, <2>3, <2>4 DEF Next, Step, Advance
  <2> QED BY <2>1, <2>5 DEF StreetOver
<1>2. Spec => [][Settled]_vars
  BY <1>1, PokerInvHolds, PTL DEF Spec
<1> QED BY <1>2, LoopsPlayPoker, PTL DEF StreetsAreSettled

\* Every variable is of its type, chips and bets within what is on the table.
THEOREM PokerIsTyped == LoopSpec => []TypeOK
<1>1. ASSUME PokerInv PROVE TypeOK
  <2>1. ChipTypes /\ SeatTypes /\ DealTypes /\ ClockTypes /\ EndTypes /\ ChipsKept
    BY <1>1 DEF PokerInv, PokerTypes
  <2>2. pot \in 0 .. Chips /\ \A p \in Sides : stack[p] \in 0 .. Chips
    <3>1. 1 \in Sides
      BY PlayersAssumption DEF Sides
    <3>2. \A p \in Sides : pot <= Chips /\ stack[p] <= Chips /\ stack[p] \in Nat /\ pot \in Nat
      BY <2>1, ChipsBound
    <3> QED BY <3>1, <3>2, ChipsType
  <2>3. \A p \in Sides : bet[p] \in 0 .. Chips
    <3>1. \A p \in Sides : bet[p] \in Nat /\ bet[p] <= Chips
      BY <1>1, <2>1 DEF PokerInv, BetsInPot, ChipTypes, Stacks
    <3> QED BY <3>1, ChipsType
  <2>4. stack \in [Sides -> 0 .. Chips] /\ bet \in [Sides -> 0 .. Chips]
    BY <2>1, <2>2, <2>3 DEF ChipTypes, Stacks
  <2>5. hand \in 0 .. MaxHands + restarts
    <3>1. hand \in Nat /\ MaxHands \in Nat /\ restarts \in Nat /\ hand <= MaxHands + restarts
      BY <1>1, <2>1, LimitsAssumption DEF PokerInv, HandsLeft, DealTypes, ClockTypes
    <3> QED BY <3>1
  <2>6. \A i \in DOMAIN actions : actions[i].side \in Sides /\ actions[i].amount \in 0 .. Chips
    <3>1. \A i \in DOMAIN actions : actions[i] \in Actions
      BY <2>1 DEF DealTypes
    <3> QED BY <3>1 DEF Actions
  <2>7. \A f \in {timeouts, seen, docTimeouts, missed} : f \in [Sides -> Nat]
    BY <2>1 DEF ClockTypes, Stacks
  <2> QED BY <2>1, <2>2, <2>4, <2>5, <2>6, <2>7
          DEF TypeOK, SeatTypes, DealTypes, ClockTypes, EndTypes, Streets
<1> QED BY <1>1, LoopsPlayPoker, PokerInvHolds, PTL

-----------------------------------------------------------------------------
(* Poker: who wins *)

\* Some side has as much as any.
LEMMA MostIsSomebody ==
  ASSUME stack \in Stacks
  PROVE  Most # {}
<1> DEFINE B == {stack[p] : p \in Sides}
<1>1. IsFiniteSet(B)
  <2>1. stack \in Surjection(Sides, B)
    BY DEF Surjection, Stacks
  <2> HIDE DEF B
  <2> QED BY <2>1, SidesFinite, FS_Surjection
<1>2. B \in SUBSET Int /\ B # {}
  <2>1. 1 \in Sides
    BY PlayersAssumption DEF Sides
  <2> QED BY <2>1 DEF Stacks
<1>3. \E x \in B : \A y \in B : x >= y
  <2> HIDE DEF B
  <2> QED BY <1>1, <1>2, MostExists
<1>4. PICK p \in Sides : \A y \in B : stack[p] >= y
  BY <1>3
<1> QED BY <1>4 DEF Most

\* Without a restart and with the pot paid out, the only side with chips has them all.
LEMMA WinnerHasAll ==
  ASSUME PokerInv, restarts = 0, pot = 0, Cardinality(HasChips) <= 1
  PROVE  Winner \in Sides /\ stack[Winner] = Chips
<1>1. stack \in Stacks /\ SumFunction(stack) = Chips /\ stack \in [Sides -> Nat]
  <2>1. stack \in Stacks /\ pot + SumFunction(stack) = Chips
    BY DEF PokerInv, PokerTypes, ChipTypes, ChipsKept
  <2> DEFINE n == SumFunction(stack)
  <2>2. n \in Nat /\ pot + n = Chips
    BY <2>1, StackSum
  <2> HIDE DEF n
  <2>3. n = Chips
    BY ONLY <2>2, pot = 0
  <2> QED BY <2>1, <2>3 DEF n, Stacks
<1>2. HasChips \in SUBSET Sides /\ IsFiniteSet(HasChips) /\ IsFiniteSet(Sides)
  BY SidesFinite, FS_Subset DEF HasChips
<1>3. HasChips # {}
  <2> SUFFICES ASSUME HasChips = {} PROVE FALSE
    OBVIOUS
  <2>1. \A p \in Sides : stack[p] = 0
    BY <1>1 DEF HasChips
  <2>2. SumFunction(stack) = 0
    BY <1>1, <1>2, <2>1, SumOfNothing
  <2>3. Chips # 0
    <3>1. Players \in Nat \ {0} /\ StartingStack \in Nat \ {0}
      BY PlayersAssumption, StakesAssumption
    <3>2. \A m, n \in Nat \ {0} : m * n # 0
      OBVIOUS
    <3> QED BY <3>1, <3>2 DEF Chips
  <2> QED BY <1>1, <2>2, <2>3
<1>4. Cardinality(HasChips) = 1
  <2> DEFINE n == Cardinality(HasChips)
  <2>1. n \in Nat /\ n # 0 /\ n <= 1
    BY <1>2, <1>3, FS_CardinalityType, FS_EmptySet
  <2> HIDE DEF n
  <2>2. n = 1
    BY ONLY <2>1
  <2> QED BY <2>2 DEF n
<1>5. PICK w : HasChips = {w}
  BY <1>2, <1>4, FS_Singleton
<1>6. w \in Sides /\ stack[w] > 0 /\ \A p \in Sides : stack[p] > 0 => p = w
  BY <1>5 DEF HasChips
<1>7. Winner = w
  BY <1>4, <1>6 DEF Winner
<1>8. SumFunction(stack) = Cardinality({w}) * stack[w]
  <2> DEFINE one == {w}
             v == stack[w]
  <2>1. v \in Nat /\ one \in SUBSET Sides /\ \A p \in Sides : stack[p] = IF p \in one THEN v ELSE 0
    BY <1>1, <1>6
  <2>2. SumFunction(stack) = Cardinality(one) * v
    <3> HIDE DEF one, v
    <3> QED BY ONLY <1>1, <1>2, <2>1, SumOfEqual
  <2> QED BY <2>2
<1>9. Cardinality({w}) = 1 /\ 1 * stack[w] = stack[w]
  <2>1. \A v \in Nat : 1 * v = v
    OBVIOUS
  <2>2. stack[w] \in Nat
    BY <1>1, <1>6
  <2> QED BY <2>1, <2>2, FS_Singleton
<1> QED BY <1>1, <1>6, <1>7, <1>8, <1>9

\* With two or three players the side that endMatch makes the winner of the last hand has
\* as much as any.
LEMMA HandsGoToMost ==
  ASSUME Players <= 3, stack \in Stacks, agents = Sides,
         EndMatch("hands", IF Cardinality(Most) = 1 THEN Min(Most) ELSE 0), result'.who # 0
  PROVE  \A p \in Sides : stack[p] <= stack[result'.who]
<1>1. Most \in SUBSET Sides /\ Most # {}
  BY MostIsSomebody DEF Most
<1>2. 1 \in Sides /\ 2 \in Sides /\ 0 \notin Sides /\ \A p \in Sides : p \in {1, 2, 3} /\ stack[p] \in Nat
  BY PlayersAssumption DEF Sides, Stacks
<1>3. \A p \in Most : \A q \in Sides : stack[q] <= stack[p]
  BY <1>1, <1>2 DEF Most
<1>4. CASE Cardinality(Most) = 1
  <2>1. Min(Most) \in Most
    BY <1>1, <1>2, NextSeatType
  <2>2. result'.who = Min(Most)
    BY <1>1, <1>2, <1>4, <2>1 DEF EndMatch
  <2> QED BY <1>3, <2>1, <2>2
<1>5. CASE Cardinality(Most) # 1
  <2>1. result'.who = IF stack[1] > stack[2] THEN 1 ELSE IF stack[2] > stack[1] THEN 2 ELSE 0
    BY <1>2, <1>5 DEF EndMatch
  <2>2. Most # {3}
    BY <1>5, FS_Singleton
  <2>3. 1 \in Most \/ 2 \in Most
    BY <1>1, <1>2, <2>2
  <2>4. (result'.who = 1 /\ stack[1] > stack[2]) \/ (result'.who = 2 /\ stack[2] > stack[1])
    BY <2>1
  <2>5. result'.who \in Most
    <3>1. CASE result'.who = 1 /\ stack[1] > stack[2]
      <4>1. 2 \notin Most
        BY <1>2, <1>3, <3>1
      <4> QED BY <2>3, <3>1, <4>1
    <3>2. CASE result'.who = 2 /\ stack[2] > stack[1]
      <4>1. 1 \notin Most
        BY <1>2, <1>3, <3>2
      <4> QED BY <2>3, <3>2, <4>1
    <3> QED BY <2>4, <3>1, <3>2
  <2> QED BY <1>3, <2>5
<1> QED BY <1>4, <1>5

\* Among two or three players, and without a restart, a match that ends because one side
\* has all the chips is won by that side, and one that ends with its last hand by a side
\* that no other exceeds.
THEOREM WinnerIsAheadHolds ==
  ASSUME Players <= 3
  PROVE  LoopSpec => []WinnerIsAhead
<1>1. Init => WinnerIsAhead
  BY DEF Init, WinnerIsAhead
<1>2. PokerInv /\ WinnerIsAhead /\ [Next]_vars => WinnerIsAhead'
  <2> SUFFICES ASSUME PokerInv, WinnerIsAhead, [Next]_vars, restarts' = 0, result'.who # 0
               PROVE  /\ result'.why = "chips" => stack'[result'.who] = Chips
                      /\ result'.why = "hands" => \A p \in Sides : stack'[p] <= stack'[result'.who]
    BY DEF WinnerIsAhead
  <2>1. ChipTypes /\ ClockTypes /\ stack \in Stacks /\ restarts \in Nat /\ PokerTypes
    BY DEF PokerInv, PokerTypes, ChipTypes, ClockTypes
  <2>2. CASE UNCHANGED vars
    BY <2>2 DEF vars, chips, WinnerIsAhead
  <2>3. CASE Next
    <3>1. phase # "over"
      BY <2>3 DEF Next, Step, LoopEnds, Deal, Answer, Miss, AskThrows, Advance, Resolve, AfterHand,
                  Restart, Asking
    <3>2. result.who = 0
      BY <3>1 DEF PokerInv, NoResultYet
    <3>3. restarts = 0 => agents = Sides
      BY DEF PokerInv, NoResultYet
    <3>4. ~ Deal /\ ~ Answer /\ ~ Advance /\ ~ Resolve /\ ~ AskThrows /\ ~ Restart
      BY <3>2 DEF Deal, Answer, Advance, Resolve, AskThrows, Restart
    <3>5. CASE LoopEnds
      <4>1. phase = "hand" /\ stack' = stack /\ restarts' = restarts
        BY <3>5 DEF LoopEnds, chips
      <4>2. pot = 0
        BY <4>1 DEF PokerInv, PotIsPaid
      <4>3. CASE Cardinality(HasChips) <= 1 /\ EndMatch("chips", Winner)
        <5>1. Winner \in Sides /\ stack[Winner] = Chips
          BY <4>1, <4>2, <4>3, WinnerHasAll
        <5>2. result' = [why |-> "chips", who |-> Winner]
          BY <3>3, <4>1, <4>3, <5>1 DEF EndMatch, Sides
        <5> QED BY <4>1, <5>1, <5>2
      <4>4. CASE EndTimedOut
        <5>1. result'.why \in {"timeouts", "throws"}
          BY <4>4 DEF EndTimedOut, EndMatch
        <5> QED BY <5>1
      <4> QED BY <3>5, <4>3, <4>4 DEF LoopEnds
    <3>6. CASE Miss
      <4>1. result' = result \/ EndMatch("errors", 0)
        BY <3>6 DEF Miss
      <4>2. result'.why \in {"errors", "throws"}
        BY <3>2, <4>1 DEF EndMatch
      <4> QED BY <4>2
    <3>7. CASE AfterHand
      <4>1. phase = "resolved" /\ stack' = stack /\ restarts' = restarts
        BY <3>7 DEF AfterHand, chips
      <4>2. pot = 0
        BY <4>1 DEF PokerInv, PotIsPaid
      <4>3. CASE Winner # 0
        <5>1. Cardinality(HasChips) <= 1
          BY <4>3 DEF Winner
        <5>2. Winner \in Sides /\ stack[Winner] = Chips
          BY <4>1, <4>2, <5>1, WinnerHasAll
        <5>3. EndMatch("chips", Winner)
          BY <3>7, <4>3 DEF AfterHand
        <5>4. result' = [why |-> "chips", who |-> Winner]
          BY <3>3, <4>1, <4>3, <5>2, <5>3 DEF EndMatch
        <5> QED BY <4>1, <5>2, <5>4
      <4>4. CASE Winner = 0 /\ hand >= MaxHands
        <5> DEFINE w == IF Cardinality(Most) = 1 THEN Min(Most) ELSE 0
        <5>1. EndMatch("hands", w)
          BY <3>7, <4>4 DEF AfterHand
        <5>2. \A p \in Sides : stack[p] <= stack[result'.who]
          BY <2>1, <3>3, <4>1, <5>1, HandsGoToMost
        <5>3. result'.why \in {"hands", "throws"}
          BY <5>1 DEF EndMatch
        <5> QED BY <4>1, <5>2, <5>3
      <4>5. CASE Winner = 0 /\ ~ hand >= MaxHands
        <5>1. EndTimedOut \/ result' = result
          BY <3>7, <4>5 DEF AfterHand
        <5>2. EndTimedOut => result'.why \in {"timeouts", "throws"}
          BY DEF EndTimedOut, EndMatch
        <5> QED BY <3>2, <5>1, <5>2
      <4> QED BY <4>3, <4>4, <4>5
    <3> QED BY <2>3, <3>4, <3>5, <3>6, <3>7 DEF Next, Step
  <2> QED BY <2>2, <2>3
<1> QED BY <1>1, <1>2, LoopsPlayPoker, PokerInvHolds, PTL DEF Spec
-----------------------------------------------------------------------------
(* The other games: the table of a match *)

\* A table is a record of its fields, and counts for the seats of the match.
IsTable(t) ==
  /\ t = [status |-> t.status, timeouts |-> t.timeouts, seen |-> t.seen, missed |-> t.missed,
          ahead |-> t.ahead, why |-> t.why, winner |-> t.winner]
  /\ t.status \in {"active", "over"}
  /\ {t.timeouts, t.seen, t.missed} \subseteq [Seats(gameType) -> Nat]

\* Misses and timeouts agree but for failing writes, e of them; the controller has seen no
\* more than there are.
Fit(t, e) ==
  \A s \in Seats(gameType) :
    t.timeouts[s] <= t.missed[s] + e /\ t.missed[s] <= 2 * t.timeouts[s] + e /\ t.seen[s] <= t.timeouts[s]

\* Between two turns the controller has seen all timeouts.
AllSeen(t) == \A s \in Seats(gameType) : t.seen[s] = t.timeouts[s]

\* Within a turn it has seen all but one of the side whose turn it is.
SeenBut(t, side, e) ==
  \A s \in Seats(gameType) :
    (s # side => t.seen[s] = t.timeouts[s]) /\ t.missed[s] <= 2 * t.seen[s] + 1 + e

\* One more for a seat, or for nobody.
LEMMA OneMoreCounts ==
  ASSUME NEW Dom, NEW f \in [Dom -> Nat], NEW side
  PROVE  [f EXCEPT ![side] = @ + 1] \in [Dom -> Nat]
<1>1. CASE side \in Dom
  <2>1. f[side] + 1 \in Nat
    BY <1>1
  <2> QED BY <2>1
<1>2. CASE side \notin Dom
  <2>1. \A s \in Dom : [f EXCEPT ![side] = @ + 1][s] = f[s]
    BY <1>2
  <2> QED BY <2>1
<1> QED BY <1>1, <1>2

\* A turn that is missed.
LEMMA CountedTable ==
  ASSUME NEW t, IsTable(t), NEW side
  PROVE  /\ IsTable(Counted(t, side)) /\ Counted(t, side).seen = t.seen
         /\ Counted(t, side).status = t.status /\ Counted(t, side).ahead = t.ahead
         /\ Counted(t, side).timeouts = [t.seen EXCEPT ![side] = @ + 1]
         /\ Counted(t, side).missed = [t.missed EXCEPT ![side] = @ + 1]
<1> DEFINE a == [t.seen EXCEPT ![side] = @ + 1]
           b == [t.missed EXCEPT ![side] = @ + 1]
<1>1. a \in [Seats(gameType) -> Nat] /\ b \in [Seats(gameType) -> Nat]
  <2>1. t.seen \in [Seats(gameType) -> Nat] /\ t.missed \in [Seats(gameType) -> Nat]
    BY DEF IsTable
  <2> QED BY <2>1, OneMoreCounts
<1>2. Counted(t, side) = [t EXCEPT !.timeouts = a, !.missed = b]
  BY DEF Counted, IsTable
<1> HIDE DEF a, b
<1>3. Counted(t, side) = [status |-> t.status, timeouts |-> a, seen |-> t.seen, missed |-> b,
                          ahead |-> t.ahead, why |-> t.why, winner |-> t.winner]
  BY <1>2 DEF IsTable
<1> QED BY <1>1, <1>3 DEF IsTable, a, b

LEMMA CountedFits ==
  ASSUME NEW t, IsTable(t), NEW side, NEW e \in Nat, Fit(t, e), SeenBut(t, side, e)
  PROVE  Fit(Counted(t, side), e)
<1> DEFINE c == Counted(t, side)
<1>1. /\ c.timeouts = [t.seen EXCEPT ![side] = @ + 1] /\ c.seen = t.seen
      /\ c.missed = [t.missed EXCEPT ![side] = @ + 1]
  BY ONLY IsTable(t), CountedTable
<1> HIDE DEF c
<1>2. ASSUME NEW s \in Seats(gameType)
      PROVE  /\ c.timeouts[s] <= c.missed[s] + e /\ c.missed[s] <= 2 * c.timeouts[s] + e
             /\ c.seen[s] <= c.timeouts[s]
  <2> DEFINE x == t.timeouts[s]
             y == t.seen[s]
             z == t.missed[s]
  <2>1. x \in Nat /\ y \in Nat /\ z \in Nat
    BY DEF IsTable
  <2>2. x <= z + e /\ z <= 2 * x + e /\ y <= x /\ (s # side => y = x) /\ z <= 2 * y + 1 + e
    BY DEF Fit, SeenBut
  <2>3. CASE s = side
    <3>1. c.timeouts[s] = y + 1 /\ c.missed[s] = z + 1 /\ c.seen[s] = y
      BY <1>1, <2>3 DEF IsTable
    <3> HIDE DEF x, y, z
    <3> QED BY <2>1, <2>2, <3>1
  <2>4. CASE s # side
    <3>1. c.timeouts[s] = y /\ c.missed[s] = z /\ c.seen[s] = y
      BY <1>1, <2>4 DEF IsTable
    <3> HIDE DEF x, y, z
    <3> QED BY <2>1, <2>2, <2>4, <3>1
  <2> QED BY <2>3, <2>4
<1> QED BY <1>2 DEF Fit, c

LEMMA CountedSeen ==
  ASSUME NEW t, IsTable(t), NEW side, NEW e \in Nat, Fit(t, e), AllSeen(t)
  PROVE  SeenBut(t, side, e) /\ SeenBut(Counted(t, side), side, e)
<1> DEFINE c == Counted(t, side)
<1>1. /\ c.timeouts = [t.seen EXCEPT ![side] = @ + 1] /\ c.seen = t.seen
      /\ c.missed = [t.missed EXCEPT ![side] = @ + 1]
  BY ONLY IsTable(t), CountedTable
<1> HIDE DEF c
<1>2. ASSUME NEW s \in Seats(gameType)
      PROVE  /\ s # side => t.seen[s] = t.timeouts[s] /\ c.seen[s] = c.timeouts[s]
             /\ t.missed[s] <= 2 * t.seen[s] + 1 + e /\ c.missed[s] <= 2 * c.seen[s] + 1 + e
  <2> DEFINE y == t.seen[s]
             z == t.missed[s]
  <2>1. y \in Nat /\ z \in Nat /\ t.timeouts[s] = y /\ z <= 2 * y + e
    BY DEF IsTable, Fit, AllSeen
  <2>2. /\ c.seen[s] = y /\ c.missed[s] \in {z, z + 1}
        /\ s # side => c.timeouts[s] = y
    BY <1>1 DEF IsTable
  <2> HIDE DEF y, z
  <2>3. z <= 2 * y + 1 + e /\ z + 1 <= 2 * y + 1 + e
    BY ONLY <2>1, e \in Nat
  <2> QED BY <2>1, <2>2, <2>3 DEF y, z
<1> QED BY <1>2 DEF SeenBut, c

\* What a request makes of the table.
LEMMA AskedTable ==
  ASSUME IsTable(table), NEW side, NEW answered
  PROVE  /\ IsTable(Asked(side, answered)) /\ Asked(side, answered).status = table.status
         /\ Asked(side, answered).ahead = table.ahead
BY CountedTable DEF Asked

LEMMA AskedFits ==
  ASSUME IsTable(table), NEW side, NEW answered, NEW e \in Nat, Fit(table, e),
         AllSeen(table) \/ SeenBut(table, side, e)
  PROVE  /\ Fit(Asked(side, answered), e)
         /\ AllSeen(table) => SeenBut(Asked(side, answered), side, e)
BY CountedFits, CountedSeen DEF Asked

LEMMA EndedShape ==
  ASSUME NEW t, IsTable(t), NEW why, NEW winner
  PROVE  /\ Ended(t, why, winner) =
              [status |-> "over", timeouts |-> t.timeouts, seen |-> t.seen, missed |-> t.missed,
               ahead |-> t.ahead, why |-> why, winner |-> winner]
         /\ [t EXCEPT !.seen = t.timeouts] =
              [status |-> t.status, timeouts |-> t.timeouts, seen |-> t.timeouts,
               missed |-> t.missed, ahead |-> t.ahead, why |-> t.why, winner |-> t.winner]
<1> DEFINE v == t.timeouts
<1>1. Ended(t, why, winner) = [t EXCEPT !.status = "over", !.why = why, !.winner = winner]
  BY DEF Ended
<1>2. /\ Ended(t, why, winner) =
              [status |-> "over", timeouts |-> t.timeouts, seen |-> t.seen, missed |-> t.missed,
               ahead |-> t.ahead, why |-> why, winner |-> winner]
  BY <1>1 DEF IsTable
<1> HIDE DEF v
<1>3. [t EXCEPT !.seen = v] =
              [status |-> t.status, timeouts |-> t.timeouts, seen |-> v,
               missed |-> t.missed, ahead |-> t.ahead, why |-> t.why, winner |-> t.winner]
  BY DEF IsTable
<1> QED BY <1>2, <1>3 DEF v

LEMMA EndedTable ==
  ASSUME NEW t, IsTable(t), NEW why, NEW winner
  PROVE  LET c == Ended(t, why, winner)
         IN  /\ IsTable(c) /\ c.timeouts = t.timeouts /\ c.missed = t.missed /\ c.ahead = t.ahead
             /\ c.seen = t.seen /\ c.status = "over" /\ c.why = why /\ c.winner = winner
<1> DEFINE c == Ended(t, why, winner)
<1>1. /\ t = [status |-> t.status, timeouts |-> t.timeouts, seen |-> t.seen, missed |-> t.missed,
              ahead |-> t.ahead, why |-> t.why, winner |-> t.winner]
      /\ {t.timeouts, t.seen, t.missed} \subseteq [Seats(gameType) -> Nat]
  BY DEF IsTable
<1>2. c = [status |-> "over", timeouts |-> t.timeouts, seen |-> t.seen, missed |-> t.missed,
           ahead |-> t.ahead, why |-> why, winner |-> winner]
  BY EndedShape
<1> HIDE DEF c
<1>3. /\ IsTable(c) /\ c.timeouts = t.timeouts /\ c.missed = t.missed /\ c.ahead = t.ahead
      /\ c.seen = t.seen /\ c.status = "over" /\ c.why = why /\ c.winner = winner
  BY <1>1, <1>2 DEF IsTable
<1> QED BY <1>3 DEF c

LEMMA SeenTable ==
  ASSUME NEW t, IsTable(t)
  PROVE  LET c == [t EXCEPT !.seen = t.timeouts]
         IN  /\ IsTable(c) /\ c.timeouts = t.timeouts /\ c.missed = t.missed /\ c.ahead = t.ahead
             /\ c.seen = t.timeouts /\ c.status = t.status
<1> DEFINE c == [t EXCEPT !.seen = t.timeouts]
<1>1. /\ t = [status |-> t.status, timeouts |-> t.timeouts, seen |-> t.seen, missed |-> t.missed,
              ahead |-> t.ahead, why |-> t.why, winner |-> t.winner]
      /\ {t.timeouts, t.seen, t.missed} \subseteq [Seats(gameType) -> Nat]
      /\ t.status \in {"active", "over"}
  BY DEF IsTable
<1>2. c = [status |-> t.status, timeouts |-> t.timeouts, seen |-> t.timeouts, missed |-> t.missed,
           ahead |-> t.ahead, why |-> t.why, winner |-> t.winner]
  BY EndedShape
<1> HIDE DEF c
<1>3. /\ IsTable(c) /\ c.timeouts = t.timeouts /\ c.missed = t.missed /\ c.ahead = t.ahead
      /\ c.seen = t.timeouts /\ c.status = t.status
  BY <1>1, <1>2 DEF IsTable
<1> QED BY <1>3 DEF c

\* What the loop makes of it after a turn.
LEMMA ConcludedTable ==
  ASSUME NEW t, IsTable(t), t.status = "active", NEW over, NEW why, NEW winner
  PROVE  LET c == Concluded(t, over, why, winner)
         IN  /\ IsTable(c) /\ c.timeouts = t.timeouts /\ c.missed = t.missed /\ c.ahead = t.ahead
             /\ \/ over /\ c.status = "over" /\ c.why = why /\ c.winner = winner /\ c.seen = t.seen
                \/ ~ over /\ Late(t) # {} /\ c.status = "over" /\ c.why = "timeout" /\ c.seen = t.seen
                \/ ~ over /\ Late(t) = {} /\ c.status = "active" /\ c.seen = t.timeouts
<1> DEFINE w == IF Cardinality(DOMAIN t.timeouts) = 2 THEN 1 - Min(Late(t)) ELSE -1
<1>1. Concluded(t, over, why, winner) = IF over THEN Ended(t, why, winner)
                                        ELSE IF Late(t) # {} THEN Ended(t, "timeout", w)
                                        ELSE [t EXCEPT !.seen = t.timeouts]
  BY DEF Concluded
<1> HIDE DEF w
<1>2. CASE over
  BY <1>1, <1>2, EndedTable
<1>3. CASE ~ over /\ Late(t) # {}
  BY <1>1, <1>3, EndedTable
<1>4. CASE ~ over /\ Late(t) = {}
  BY <1>1, <1>4, SeenTable
<1> QED BY <1>2, <1>3, <1>4

LEMMA ConcludedFits ==
  ASSUME NEW t, IsTable(t), NEW over, NEW why, NEW winner, NEW e \in Nat, Fit(t, e), t.status = "active"
  PROVE  /\ Fit(Concluded(t, over, why, winner), e)
         /\ Concluded(t, over, why, winner).status = "active" => AllSeen(Concluded(t, over, why, winner))
<1> DEFINE c == Concluded(t, over, why, winner)
<1>1. /\ IsTable(c) /\ c.timeouts = t.timeouts /\ c.missed = t.missed
      /\ c.seen \in {t.seen, t.timeouts} /\ (c.status = "active" => c.seen = t.timeouts)
  BY ConcludedTable
<1> HIDE DEF c
<1>2. \A s \in Seats(gameType) : t.timeouts[s] <= t.timeouts[s]
  BY DEF IsTable
<1>3. Fit(c, e)
  BY <1>1, <1>2 DEF Fit
<1>4. c.status = "active" => AllSeen(c)
  BY <1>1 DEF AllSeen
<1> QED BY <1>3, <1>4 DEF c

LEMMA AheadTable ==
  ASSUME NEW t, IsTable(t), NEW a
  PROVE  LET c == [t EXCEPT !.ahead = a]
         IN  /\ IsTable(c) /\ c.timeouts = t.timeouts /\ c.missed = t.missed /\ c.ahead = a
             /\ c.seen = t.seen /\ c.status = t.status /\ c.why = t.why /\ c.winner = t.winner
<1> DEFINE c == [t EXCEPT !.ahead = a]
<1>1. c = [status |-> t.status, timeouts |-> t.timeouts, seen |-> t.seen, missed |-> t.missed,
           ahead |-> a, why |-> t.why, winner |-> t.winner]
  BY DEF IsTable
<1> HIDE DEF c
<1>2. /\ IsTable(c) /\ c.timeouts = t.timeouts /\ c.missed = t.missed /\ c.ahead = a
      /\ c.seen = t.seen /\ c.status = t.status /\ c.why = t.why /\ c.winner = t.winner
  BY <1>1 DEF IsTable
<1> QED BY <1>2 DEF c

-----------------------------------------------------------------------------
(* The turns missed *)

\* The turns that were counted without being missed.
Errs(g) == IF gameType = "chess" THEN g.dbErrors ELSE 0

IsChess(g) == g = [turn |-> g.turn, over |-> g.over, dbErrors |-> g.dbErrors] /\ g.dbErrors \in Nat

CountsMisses == gameType \in {"uno", "2048", "werewolf", "chess"}

\* A turn of UNO that goes on with a card that was drawn.
Within(g) == gameType = "uno" /\ g.drawn # {}

\* The table of a match in a state g of its game.
Kept(g, t) ==
  /\ IsTable(t)
  /\ gameType = "chess" => IsChess(g)
  /\ CountsMisses => Fit(t, Errs(g))
  /\ CountsMisses /\ t.status = "active" =>
       (Within(g) /\ SeenBut(t, g.g.turn, 0)) \/ (~ Within(g) /\ AllSeen(t))

MissInv == Kept(game, table)

LEMMA MissInvInit == LoopInit => MissInv
<1> SUFFICES ASSUME LoopInit PROVE MissInv
  OBVIOUS
<1> DEFINE none == [s \in Seats(gameType) |-> 0]
<1>1. table = [status |-> "active", timeouts |-> none, seen |-> none, missed |-> none,
               ahead |-> -1, why |-> "none", winner |-> -1]
  BY DEF LoopInit
<1>2. none \in [Seats(gameType) -> Nat] /\ \A s \in Seats(gameType) : none[s] = 0
  OBVIOUS
<1>3. gameType = "chess" => game = [turn |-> 0, over |-> "no", dbErrors |-> 0]
  BY DEF LoopInit, Begins, ChessBegins
<1>4. gameType = "uno" => game.drawn = {}
  BY DEF LoopInit, Begins, UnoBegins
<1> HIDE DEF none
<1>5. IsTable(table)
  BY <1>1, <1>2 DEF IsTable
<1>6. gameType = "chess" => IsChess(game) /\ game.dbErrors = 0
  BY <1>3 DEF IsChess
<1>7. Errs(game) = 0 /\ AllSeen(table) /\ ~ Within(game)
  BY <1>1, <1>2, <1>4, <1>6 DEF Errs, AllSeen, Within
<1>8. Fit(table, Errs(game))
  BY <1>1, <1>2, <1>7 DEF Fit
<1> QED BY <1>5, <1>6, <1>7, <1>8 DEF MissInv, Kept

LEMMA StillKept == UNCHANGED gameType /\ Kept(game', table') => MissInv'
BY DEF MissInv, Kept, IsTable, IsChess, CountsMisses, Fit, Errs, Within, SeenBut, AllSeen

\* The end of a turn, from the table after its last request.
LEMMA TurnKept ==
  ASSUME NEW g, NEW t, IsTable(t), t.status = "active", gameType = "chess" => IsChess(g),
         ~ Within(g), CountsMisses => Fit(t, Errs(g)), NEW over, NEW why, NEW winner
  PROVE  Kept(g, Concluded(t, over, why, winner))
<1> DEFINE c == Concluded(t, over, why, winner)
<1>1. Errs(g) \in Nat
  BY DEF Errs, IsChess
<1>2. IsTable(c)
  BY ConcludedTable
<1>3. CountsMisses => Fit(c, Errs(g)) /\ (c.status = "active" => AllSeen(c))
  BY <1>1, ConcludedFits
<1> HIDE DEF c
<1>4. Kept(g, c)
  BY <1>2, <1>3 DEF Kept
<1> QED BY <1>4 DEF c

\* The table after a request of a turn that has begun, or of its second part.
LEMMA RequestKept ==
  ASSUME MissInv, table.status = "active", CountsMisses, NEW side, NEW answered,
         Within(game) => side = game.g.turn
  PROVE  LET t == Asked(side, answered)
         IN  /\ IsTable(t) /\ t.status = "active" /\ Fit(t, Errs(game))
             /\ ~ Within(game) => SeenBut(t, side, Errs(game))
<1>1. IsTable(table) /\ Fit(table, Errs(game)) /\ Errs(game) \in Nat
  BY DEF MissInv, Kept, Errs, IsChess
<1>2. Within(game) => Errs(game) = 0
  BY DEF Within, Errs
<1>3. \/ Within(game) /\ SeenBut(table, side, Errs(game))
      \/ ~ Within(game) /\ AllSeen(table)
  BY <1>2 DEF MissInv, Kept
<1> QED BY <1>1, <1>3, AskedTable, AskedFits

LEMMA UnoNextKept ==
  ASSUME gameType = "uno", NEW h, NEW drawn, NEW t, IsTable(t), t.status = "active", Fit(t, 0),
         drawn # {} => SeenBut(t, h.turn, 0), UnoNext(h, drawn, t)
  PROVE  Kept(game', table')
<1>1. game'.g = h /\ game'.drawn = drawn
  BY DEF UnoNext
<1>2. Errs(game') = 0 /\ (Within(game') <=> drawn # {})
  BY <1>1 DEF Errs, Within
<1>3. CASE drawn # {}
  BY <1>1, <1>2, <1>3 DEF UnoNext, Kept
<1>4. CASE drawn = {}
  <2>1. table' = Concluded(t, h.status = "finished", "score", h.winner)
    BY <1>4 DEF UnoNext
  <2> QED BY <1>2, <1>4, <2>1, TurnKept
<1> QED BY <1>3, <1>4

LEMMA UnoTurnKept == MissInv /\ UnoTurn => Kept(game', table')
<1> SUFFICES ASSUME MissInv, UnoTurn PROVE Kept(game', table')
  OBVIOUS
<1> DEFINE g == game.g
<1>1. gameType = "uno" /\ table.status = "active" /\ game.drawn = {} /\ CountsMisses
  BY DEF UnoTurn, Playing, CountsMisses
<1>2. Errs(game) = 0 /\ ~ Within(game)
  BY <1>1 DEF Errs, Within
<1>3. PICK answered \in Answers :
        LET t == Asked(g.turn, answered)
        IN  \/ \E c \in UnoReplies(g, U!Playable(g, g.turn), answered), color \in U!Colors :
                 \E h \in U!Play(g, c, color) : UnoNext(h, {}, t)
            \/ \E d \in U!DrawCard(g) : UnoNext(d.g, IF d.g.turn = g.turn THEN d.card ELSE {}, t)
  BY DEF UnoTurn
<1> DEFINE t == Asked(g.turn, answered)
<1>4. IsTable(t) /\ t.status = "active" /\ Fit(t, 0) /\ SeenBut(t, g.turn, 0)
  BY <1>1, <1>2, RequestKept
<1>5. \A h : UnoNext(h, {}, t) => Kept(game', table')
  BY <1>1, <1>4, UnoNextKept
<1>6. ASSUME NEW d \in U!DrawCard(g), UnoNext(d.g, IF d.g.turn = g.turn THEN d.card ELSE {}, t)
      PROVE  Kept(game', table')
  <2>1. CASE d.g.turn = g.turn
    BY <1>1, <1>4, <1>6, <2>1, UnoNextKept
  <2>2. CASE d.g.turn # g.turn
    BY <1>5, <1>6, <2>2
  <2> QED BY <2>1, <2>2
<1> QED BY <1>3, <1>5, <1>6

LEMMA UnoFollowUpKept == MissInv /\ UnoFollowUp => Kept(game', table')
<1> SUFFICES ASSUME MissInv, UnoFollowUp PROVE Kept(game', table')
  OBVIOUS
<1>1. gameType = "uno" /\ table.status = "active" /\ CountsMisses
  BY DEF UnoFollowUp, Playing, CountsMisses
<1>2. Errs(game) = 0
  BY <1>1 DEF Errs
<1>3. PICK answered \in Answers : \E h : UnoNext(h, {}, Asked(game.g.turn, answered))
  BY DEF UnoFollowUp
<1> DEFINE t == Asked(game.g.turn, answered)
<1>4. IsTable(t) /\ t.status = "active" /\ Fit(t, 0)
  BY <1>1, <1>2, RequestKept
<1> QED BY <1>1, <1>3, <1>4, UnoNextKept

LEMMA PlainTurnKept == MissInv /\ (Game2048Turn \/ WerewolfTurn) => Kept(game', table')
<1> SUFFICES ASSUME MissInv, Game2048Turn \/ WerewolfTurn PROVE Kept(game', table')
  OBVIOUS
<1>1. gameType \in {"2048", "werewolf"} /\ table.status = "active" /\ CountsMisses
  BY DEF Game2048Turn, WerewolfTurn, Playing, CountsMisses
<1>2. Errs(game) = 0 /\ Errs(game') = 0 /\ ~ Within(game) /\ ~ Within(game')
  BY <1>1 DEF Errs, Within
<1>3. \E side, answered, over, why, winner :
         table' = Concluded(Asked(side, answered), over, why, winner)
  BY DEF Game2048Turn, WerewolfTurn, Game2048Next, WerewolfNext
<1>4. PICK side, answered, over, why, winner :
         table' = Concluded(Asked(side, answered), over, why, winner)
  BY <1>3
<1> DEFINE t == Asked(side, answered)
<1>5. IsTable(t) /\ t.status = "active" /\ Fit(t, 0)
  BY <1>1, <1>2, RequestKept
<1> QED BY <1>1, <1>2, <1>4, <1>5, TurnKept

\* A failing write of a move counts a timeout that was not missed.
LEMMA ErrorKept ==
  ASSUME NEW t, IsTable(t), NEW side, NEW e \in Nat, Fit(t, e), AllSeen(t)
  PROVE  LET c == [Counted(t, side) EXCEPT !.missed = t.missed]
         IN  IsTable(c) /\ c.status = t.status /\ Fit(c, e + 1)
<1>a. Counted(t, side).timeouts = [t.seen EXCEPT ![side] = @ + 1]
  BY ONLY CountedTable, IsTable(t)
<1>b. IsTable(Counted(t, side))
  BY CountedTable
<1>c. Counted(t, side).seen = t.seen /\ Counted(t, side).status = t.status
  BY CountedTable
<1> DEFINE a == Counted(t, side).timeouts
           m == t.missed
           c == [Counted(t, side) EXCEPT !.missed = m]
<1>1. /\ IsTable(Counted(t, side)) /\ Counted(t, side).seen = t.seen
      /\ Counted(t, side).status = t.status /\ a = [t.seen EXCEPT ![side] = @ + 1]
  BY <1>a, <1>b, <1>c
<1>2. m \in [Seats(gameType) -> Nat] /\ a \in [Seats(gameType) -> Nat]
  BY <1>1 DEF IsTable
<1> HIDE DEF m
<1>3. c = [status |-> t.status, timeouts |-> a, seen |-> t.seen, missed |-> m,
           ahead |-> Counted(t, side).ahead, why |-> Counted(t, side).why,
           winner |-> Counted(t, side).winner]
  BY <1>1 DEF IsTable
<1> HIDE DEF a, c
<1>4. IsTable(c) /\ c.status = t.status /\ c.timeouts = a /\ c.missed = m /\ c.seen = t.seen
  BY <1>2, <1>3, IsTable(t) DEF IsTable
<1>5. ASSUME NEW s \in Seats(gameType)
      PROVE  a[s] <= m[s] + (e + 1) /\ m[s] <= 2 * a[s] + (e + 1) /\ t.seen[s] <= a[s]
  <2> DEFINE y == t.seen[s]
             z == m[s]
             x == a[s]
  <2>1. y \in Nat /\ z \in Nat /\ y <= z + e /\ z <= 2 * y + e
    BY DEF IsTable, Fit, AllSeen, m
  <2>2. x = y \/ x = y + 1
    BY <1>1, <2>1 DEF IsTable
  <2> HIDE DEF x, y, z
  <2>3. x <= z + (e + 1) /\ z <= 2 * x + (e + 1) /\ y <= x
    BY ONLY <2>1, <2>2, e \in Nat
  <2> QED BY <2>3 DEF x, y, z
<1>6. Fit(c, e + 1)
  BY <1>4, <1>5 DEF Fit
<1> QED BY <1>4, <1>6 DEF c, m

\* A move on the chess board, and one whose write failed.
LEMMA ChessMoves ==
  ASSUME NEW g, IsChess(g), NEW over
  PROVE  LET h == [g EXCEPT !.turn = 1 - @, !.over = over]
             e == [h EXCEPT !.dbErrors = @ + 1]
         IN  /\ IsChess(h) /\ h.dbErrors = g.dbErrors /\ h.over = over /\ h.turn = 1 - g.turn
             /\ IsChess(e) /\ e.dbErrors = g.dbErrors + 1 /\ e.over = over /\ e.turn = 1 - g.turn
<1> DEFINE h == [g EXCEPT !.turn = 1 - @, !.over = over]
           e == [h EXCEPT !.dbErrors = @ + 1]
<1> DEFINE x == 1 - g.turn
<1>0. h = [g EXCEPT !.turn = x, !.over = over]
  OBVIOUS
<1> HIDE DEF h, x
<1>1. h = [turn |-> x, over |-> over, dbErrors |-> g.dbErrors]
  BY <1>0 DEF IsChess
<1>2. e = [turn |-> x, over |-> over, dbErrors |-> g.dbErrors + 1]
  BY <1>1
<1> HIDE DEF e
<1>3. g.dbErrors \in Nat /\ g.dbErrors + 1 \in Nat
  BY DEF IsChess
<1>4. IsChess(h) /\ h.dbErrors = g.dbErrors /\ h.over = over /\ h.turn = x
  BY <1>1, <1>3 DEF IsChess
<1>5. IsChess(e) /\ e.dbErrors = g.dbErrors + 1 /\ e.over = over /\ e.turn = x
  BY <1>2, <1>3 DEF IsChess
<1> QED BY <1>4, <1>5 DEF e, h, x

LEMMA ChessKept == MissInv /\ (ChessTurn \/ ChessOver) => Kept(game', table')
<1> SUFFICES ASSUME MissInv, ChessTurn \/ ChessOver PROVE Kept(game', table')
  OBVIOUS
<1>1. gameType = "chess" /\ table.status = "active" /\ CountsMisses
  BY DEF ChessTurn, ChessOver, Playing, CountsMisses
<1>2. \A g : Errs(g) = g.dbErrors /\ ~ Within(g)
  BY <1>1 DEF Errs, Within
<1>3. /\ IsTable(table) /\ IsChess(game) /\ game.dbErrors \in Nat
      /\ Fit(table, game.dbErrors) /\ AllSeen(table)
  BY <1>1, <1>2 DEF MissInv, Kept, IsChess
<1>4. ASSUME NEW g, IsChess(g), NEW t, NEW reported, IsTable(t), t.status = "active",
             Fit(t, g.dbErrors), ChessConcluded(g, t, reported)
      PROVE  Kept(game', table')
  BY <1>1, <1>2, <1>4, TurnKept DEF ChessConcluded
<1>5. ASSUME NEW side
      PROVE  /\ IsTable(ChessMiss(side)) /\ ChessMiss(side).status = "active"
             /\ Fit(ChessMiss(side), game.dbErrors)
  BY <1>1, <1>3, CountedTable, CountedSeen, CountedFits DEF ChessMiss
<1>6. CASE ChessOver
  BY <1>1, <1>3, <1>4, <1>6 DEF ChessOver
<1>7. ASSUME NEW over
      PROVE  LET h == [game EXCEPT !.turn = 1 - @, !.over = over]
                 e == [h EXCEPT !.dbErrors = @ + 1]
             IN  /\ IsChess(h) /\ h.dbErrors = game.dbErrors /\ h.over = over
                 /\ IsChess(e) /\ e.dbErrors = game.dbErrors + 1
  BY <1>3, ChessMoves
<1>8. CASE ChessTurn
  <2>1. CASE ChessConcluded(game, ChessMiss(game.turn), FALSE)
    BY <1>3, <1>4, <1>5, <2>1
  <2>2. ASSUME NEW over,
               LET h == [game EXCEPT !.turn = 1 - @, !.over = over]
               IN  ChessConcluded(h, table, over # "no")
        PROVE  Kept(game', table')
    BY <1>1, <1>3, <1>4, <1>7, <2>2
  <2>3. ASSUME NEW over,
               LET h == [game EXCEPT !.turn = 1 - @, !.over = over]
                   e == [h EXCEPT !.dbErrors = @ + 1]
               IN  ChessConcluded(e, [ChessMiss(e.turn) EXCEPT !.missed = table.missed], FALSE)
        PROVE  Kept(game', table')
    <3> DEFINE h == [game EXCEPT !.turn = 1 - @, !.over = over]
               e == [h EXCEPT !.dbErrors = @ + 1]
               t == [ChessMiss(e.turn) EXCEPT !.missed = table.missed]
    <3>1. IsChess(e) /\ e.dbErrors = game.dbErrors + 1
      BY <1>7
    <3> HIDE DEF e
    <3>2. IsTable(t) /\ t.status = "active" /\ Fit(t, e.dbErrors)
      BY <1>1, <1>3, <3>1, ErrorKept DEF ChessMiss
    <3>3. ChessConcluded(e, t, FALSE)
      BY <2>3 DEF e
    <3> HIDE DEF t
    <3> QED BY <1>4, <3>1, <3>2, <3>3
  <2> QED BY <1>8, <2>1, <2>2, <2>3 DEF ChessTurn
<1> QED BY <1>6, <1>8

LEMMA MissesTable ==
  ASSUME NEW t, IsTable(t), NEW m \in [Seats(gameType) -> Nat]
  PROVE  /\ LET c == [t EXCEPT !.missed = m]
            IN  /\ IsTable(c) /\ c.ahead = t.ahead /\ c.status = t.status /\ c.seen = t.seen
                /\ c.timeouts = t.timeouts
         /\ LET c == [t EXCEPT !.timeouts = m]
            IN  /\ IsTable(c) /\ c.ahead = t.ahead /\ c.status = t.status /\ c.seen = t.seen
<1> DEFINE a == [t EXCEPT !.missed = m]
           b == [t EXCEPT !.timeouts = m]
<1>1. a = [status |-> t.status, timeouts |-> t.timeouts, seen |-> t.seen, missed |-> m,
           ahead |-> t.ahead, why |-> t.why, winner |-> t.winner]
  BY DEF IsTable
<1>2. b = [status |-> t.status, timeouts |-> m, seen |-> t.seen, missed |-> t.missed,
           ahead |-> t.ahead, why |-> t.why, winner |-> t.winner]
  BY DEF IsTable
<1> HIDE DEF a, b
<1>3. /\ IsTable(a) /\ a.ahead = t.ahead /\ a.status = t.status /\ a.seen = t.seen
      /\ a.timeouts = t.timeouts
  BY <1>1 DEF IsTable
<1>4. IsTable(b) /\ b.ahead = t.ahead /\ b.status = t.status /\ b.seen = t.seen
  BY <1>2 DEF IsTable
<1> QED BY <1>3, <1>4 DEF a, b

LEMMA RpsMissedTable ==
  ASSUME IsTable(table), gameType = "rps", NEW missing \in SUBSET {0, 1}, NEW t \in RpsMissed(missing)
  PROVE  IsTable(t) /\ t.ahead = table.ahead /\ t.status = table.status
<1> DEFINE m == [s \in {0, 1} |-> table.missed[s] + Cardinality(missing \cap {s})]
           c == [table EXCEPT !.missed = m]
<1>1. Seats(gameType) = {0, 1}
  BY DEF Seats
<1>2. ASSUME NEW s \in {0, 1} PROVE Cardinality(missing \cap {s}) \in Nat
  <2>1. IsFiniteSet({s})
    BY FS_Singleton
  <2>2. IsFiniteSet(missing \cap {s})
    BY <2>1, FS_Subset
  <2> QED BY <2>2, FS_CardinalityType
<1>3. m \in [Seats(gameType) -> Nat]
  <2>1. table.missed \in [{0, 1} -> Nat]
    BY <1>1 DEF IsTable
  <2>2. ASSUME NEW s \in {0, 1} PROVE table.missed[s] + Cardinality(missing \cap {s}) \in Nat
    <3> DEFINE n == Cardinality(missing \cap {s})
    <3>1. n \in Nat /\ table.missed[s] \in Nat
      BY <1>2, <2>1
    <3> HIDE DEF n
    <3>2. table.missed[s] + n \in Nat
      BY <3>1
    <3> QED BY <3>2 DEF n
  <2> QED BY <1>1, <2>2
<1>4. t = c \/ \E last \in missing : t = [c EXCEPT !.timeouts = [table.seen EXCEPT ![last] = @ + 1]]
  BY DEF RpsMissed
<1> HIDE DEF m
<1>5. IsTable(c) /\ c.ahead = table.ahead /\ c.status = table.status
  BY <1>3, MissesTable
<1>6. ASSUME NEW last
      PROVE  [table.seen EXCEPT ![last] = @ + 1] \in [Seats(gameType) -> Nat]
  BY OneMoreCounts DEF IsTable
<1> HIDE DEF c
<1>7. ASSUME NEW f \in [Seats(gameType) -> Nat]
      PROVE  LET d == [c EXCEPT !.timeouts = f]
             IN  IsTable(d) /\ d.ahead = c.ahead /\ d.status = c.status
  BY <1>5, MissesTable
<1> QED BY <1>4, <1>5, <1>6, <1>7

\* The other types: their tables are tables.
LEMMA UncountedKept ==
  MissInv /\ (MkOrient \/ MkBorder \/ MkTribute \/ MkPlace \/ RpsRound \/ RpsRevealed \/ BoardTurn)
    => Kept(game', table')
<1> SUFFICES ASSUME MissInv,
                    MkOrient \/ MkBorder \/ MkTribute \/ MkPlace \/ RpsRound \/ RpsRevealed \/ BoardTurn
             PROVE  Kept(game', table')
  OBVIOUS
<1>1. gameType \in {"marrakech", "rps", "reversi"} /\ table.status = "active"
  BY DEF MkOrient, MkBorder, MkTribute, MkPlace, RpsRound, RpsRevealed, BoardTurn, Playing
<1>2. IsTable(table)
  BY DEF MissInv, Kept
<1>3. IsTable(table') => Kept(game', table')
  BY <1>1 DEF Kept, CountsMisses
<1>4. ASSUME NEW h, NEW t, IsTable(t), t.status = "active", MkNext(h, t)
      PROVE  IsTable(table')
  <2> DEFINE c == Concluded(t, h.phase = "gameOver", "score", h.winner)
  <2>1. IsTable(c)
    BY <1>4, ConcludedTable
  <2>2. table' = [c EXCEPT !.ahead = MkAhead(h)]
    BY <1>4 DEF MkNext
  <2> HIDE DEF c
  <2> QED BY <2>1, <2>2, AheadTable
<1>5. CASE MkOrient
  <2>1. IsTable(Counted(table, game.current)) /\ Counted(table, game.current).status = "active"
    BY <1>1, <1>2, CountedTable
  <2> QED BY <1>2, <1>3, <1>4, <1>5, <2>1 DEF MkOrient, MkMiss
<1>6. CASE MkBorder \/ MkTribute
  BY <1>1, <1>2, <1>3, <1>4, <1>6 DEF MkBorder, MkTribute
<1>7. CASE MkPlace
  BY <1>1, <1>2, <1>3, <1>4, <1>7 DEF MkPlace
<1>8. CASE RpsRound
  BY <1>2, <1>3, <1>8, RpsMissedTable DEF RpsRound, Playing
<1>9. CASE RpsRevealed
  <2> DEFINE t == [table EXCEPT !.ahead = Ahead(game.scores)]
  <2>1. IsTable(t)
    BY <1>2, AheadTable
  <2>2. \/ \E why, winner : table' = Ended(t, why, winner)
        \/ table' = [t EXCEPT !.seen = t.timeouts]
    BY <1>9 DEF RpsRevealed
  <2> HIDE DEF t
  <2> QED BY <1>3, <2>1, <2>2, EndedTable, SeenTable
<1>10. CASE BoardTurn
  BY <1>1, <1>2, <1>3, <1>10, ConcludedTable DEF BoardTurn
<1> QED BY <1>5, <1>6, <1>7, <1>8, <1>9, <1>10

LEMMA ClockKept == MissInv /\ ClockFires => Kept(game', table')
<1> SUFFICES ASSUME MissInv, ClockFires PROVE Kept(game', table')
  OBVIOUS
<1>1. IsTable(table) /\ game' = game
  BY DEF MissInv, Kept, ClockFires
<1>2. PICK winner : table' = Ended(table, "clock", winner)
  BY DEF ClockFires
<1>3. /\ IsTable(table') /\ table'.status = "over" /\ table'.timeouts = table.timeouts
      /\ table'.missed = table.missed /\ table'.seen = table.seen
  BY <1>1, <1>2, EndedTable
<1>4. \A e : Fit(table, e) => Fit(table', e)
  BY <1>3 DEF Fit
<1> QED BY <1>1, <1>3, <1>4 DEF MissInv, Kept

LEMMA MissInvStep == MissInv /\ [LoopNext]_allVars => MissInv'
<1> SUFFICES ASSUME MissInv, [LoopNext]_allVars PROVE MissInv'
  OBVIOUS
<1>1. CASE Turn \/ ClockFires
  <2>1. UNCHANGED gameType
    BY <1>1 DEF Turn, UnoTurn, UnoFollowUp, Game2048Turn, WerewolfTurn, MkOrient, MkBorder,
                MkTribute, MkPlace, RpsRound, RpsRevealed, ChessTurn, ChessOver, BoardTurn,
                ClockFires, Playing
  <2>2. Kept(game', table')
    BY <1>1, UnoTurnKept, UnoFollowUpKept, PlainTurnKept, ChessKept, UncountedKept, ClockKept
       DEF Turn
  <2> QED BY <2>1, <2>2, StillKept
<1>2. CASE PokerStep \/ Over \/ UNCHANGED allVars
  <2>1. UNCHANGED gameType /\ game' = game /\ table' = table
    BY <1>2 DEF PokerStep, Over, allVars, loopVars
  <2>2. Kept(game', table')
    BY <2>1 DEF MissInv
  <2> QED BY <2>1, <2>2, StillKept
<1> QED BY <1>1, <1>2 DEF LoopNext

THEOREM MissInvHolds == LoopSpec => []MissInv
BY MissInvInit, MissInvStep, PTL DEF LoopSpec

\* In UNO, 2048, werewolf and chess, for any decks, boards, roles and bounds: the timeouts of
\* a side are those it missed, but for failing writes of chess and the second requests of
\* a turn of UNO.
THEOREM MissesAreCountedHolds == LoopSpec => []MissesAreCounted
<1>1. MissInv => MissesAreCounted
  <2> SUFFICES ASSUME MissInv, CountsMisses, NEW s \in DOMAIN table.missed
               PROVE  /\ table.timeouts[s] <= table.missed[s] + Errs(game)
                      /\ table.missed[s] <= 2 * table.timeouts[s] + Errs(game)
    BY DEF MissesAreCounted, OfType, CountsMisses, Errs
  <2>1. s \in Seats(gameType)
    BY DEF MissInv, Kept, IsTable
  <2> QED BY <2>1 DEF MissInv, Kept, Fit
<1> QED BY <1>1, MissInvHolds, PTL

-----------------------------------------------------------------------------
(* Results of throws, chess and the matches without an engine *)

LEMMA AheadOfTwo ==
  ASSUME NEW f \in [{0, 1} -> Int]
  PROVE  Ahead(f) = IF f[0] > f[1] THEN 0 ELSE IF f[1] > f[0] THEN 1 ELSE -1
<1> DEFINE best == {s \in DOMAIN f : \A r \in (DOMAIN f) \ {s} : f[s] > f[r]}
<1>1. Ahead(f) = IF best = {} THEN -1 ELSE Min(best)
  BY DEF Ahead
<1>2. \A x \in Int : Min({x}) = x
  <2> TAKE x \in Int
  <2>1. {x} \in SUBSET Int /\ {x} # {} /\ IsFiniteSet({x})
    BY FS_Singleton
  <2>2. Min({x}) \in {x}
    BY <2>1, MinAndMax
  <2> QED BY <2>2
<1>3. DOMAIN f = {0, 1} /\ f[0] \in Int /\ f[1] \in Int
  OBVIOUS
<1>4. CASE f[0] > f[1]
  <2>1. best = {0}
    BY <1>3, <1>4
  <2> HIDE DEF best
  <2> QED BY <1>1, <1>2, <1>4, <2>1
<1>5. CASE f[1] > f[0]
  <2>1. best = {1}
    BY <1>3, <1>5
  <2>2. ~ (f[0] > f[1])
    BY <1>3, <1>5
  <2> HIDE DEF best
  <2> QED BY <1>1, <1>2, <1>5, <2>1, <2>2
<1>6. CASE f[0] = f[1]
  <2>1. best = {} /\ ~ (f[0] > f[1]) /\ ~ (f[1] > f[0])
    BY <1>3, <1>6
  <2> HIDE DEF best
  <2> QED BY <1>1, <2>1
<1>7. f[0] > f[1] \/ f[1] > f[0] \/ f[0] = f[1]
  BY <1>3
<1> QED BY <1>4, <1>5, <1>6, <1>7

\* The wins that decide a match of throws.
Wins == (RpsBestOf + 1) \div 2

LEMMA WinsType == Wins \in Nat \ {0}
BY RpsAssumption DEF Wins

\* The scores have not passed what decides the match, and while throws are asked for they
\* have not reached it.
IsThrows(g) ==
  /\ g = [scores |-> g.scores, rounds |-> g.rounds, phase |-> g.phase]
  /\ g.scores \in [{0, 1} -> 0 .. Wins] /\ g.rounds \in 0 .. RpsMaxRounds

Thrown(g, t) ==
  /\ IsThrows(g) /\ t.ahead \in {-1, 0, 1}
  /\ t.status = "active" /\ g.phase = "waiting_moves" => ~ RpsOver(g)

\* Without an engine nobody is asked, and nobody can miss a turn.
NobodyLate(t) == \A s \in Seats(gameType) : t.timeouts[s] = 0

ResultInv ==
  /\ ResultIsPlayed
  /\ gameType = "rps" => Thrown(game, table)
  /\ gameType = "chess" => game.over \in {"no", "mate", "draw"}
  /\ gameType = "reversi" => NobodyLate(table)

LEMMA ResultBegins == LoopInit => ResultInv
<1> SUFFICES ASSUME LoopInit PROVE ResultInv
  OBVIOUS
<1> DEFINE none == [s \in Seats(gameType) |-> 0]
<1>1. table = [status |-> "active", timeouts |-> none, seen |-> none, missed |-> none,
               ahead |-> -1, why |-> "none", winner |-> -1]
  BY DEF LoopInit
<1>2. NobodyLate(table)
  BY <1>1 DEF NobodyLate
<1>3. table.status = "active" /\ table.ahead = -1
  BY <1>1
<1>4. gameType = "rps" => Thrown(game, table)
  <2> SUFFICES ASSUME gameType = "rps" PROVE Thrown(game, table)
    OBVIOUS
  <2> DEFINE zero == [s \in {0, 1} |-> 0]
  <2>1. game = [scores |-> zero, rounds |-> 0, phase |-> "waiting_moves"]
    BY DEF LoopInit, Begins, RpsBegins
  <2>2. zero \in [{0, 1} -> 0 .. Wins] /\ zero[0] = 0 /\ zero[1] = 0
    BY WinsType
  <2> HIDE DEF zero
  <2>3. IsThrows(game)
    BY <2>1, <2>2, RpsAssumption DEF IsThrows
  <2>4. ~ RpsOver(game)
    <3>1. \A n \in Nat \ {0} : ~ (0 >= n)
      OBVIOUS
    <3>2. Wins \in Nat \ {0} /\ RpsMaxRounds \in Nat \ {0}
      BY WinsType, RpsAssumption
    <3>3. RpsOver(game) <=> (\E s \in {0, 1} : game.scores[s] >= Wins) \/ game.rounds >= RpsMaxRounds
      BY DEF RpsOver, Wins
    <3> QED BY <2>1, <2>2, <3>1, <3>2, <3>3
  <2> QED BY <1>3, <2>3, <2>4 DEF Thrown
<1>5. gameType = "chess" => game.over = "no"
  BY DEF LoopInit, Begins, ChessBegins
<1> QED BY <1>2, <1>3, <1>4, <1>5 DEF ResultInv, ResultIsPlayed

LEMMA RpsRoundResult == MissInv /\ ResultInv /\ RpsRound => ResultInv'
<1> SUFFICES ASSUME MissInv, ResultInv, RpsRound PROVE ResultInv'
  OBVIOUS
<1>1. /\ gameType = "rps" /\ gameType' = gameType /\ table.status = "active"
      /\ game.phase = "waiting_moves" /\ IsTable(table)
  BY DEF RpsRound, Playing, MissInv, Kept
<1>2. IsThrows(game) /\ ~ RpsOver(game) /\ table.ahead \in {-1, 0, 1}
  BY <1>1 DEF ResultInv, Thrown
<1>3. PICK throw \in [{0, 1} -> Throws], missing \in SUBSET {0, 1} :
        /\ game' = [scores |-> [s \in {0, 1} |-> game.scores[s]
                                                   + Cardinality(RpsRoundWinner(throw) \cap {s})],
                    rounds |-> game.rounds + 1, phase |-> "revealing"]
        /\ table' \in RpsMissed(missing)
  BY DEF RpsRound
<1>4. table'.ahead = table.ahead /\ table'.status = "active"
  BY <1>1, <1>3, RpsMissedTable
<1> DEFINE f == [s \in {0, 1} |-> game.scores[s] + Cardinality(RpsRoundWinner(throw) \cap {s})]
<1>5. ASSUME NEW s \in {0, 1} PROVE f[s] \in 0 .. Wins
  <2> DEFINE n == Cardinality(RpsRoundWinner(throw) \cap {s})
  <2>1. n \in Nat /\ n <= 1
    <3>1. IsFiniteSet({s}) /\ Cardinality({s}) = 1
      BY FS_Singleton
    <3>2. IsFiniteSet(RpsRoundWinner(throw) \cap {s})
      BY <3>1, FS_Subset
    <3>3. n <= Cardinality({s})
      BY <3>1, FS_Subset
    <3> QED BY <3>1, <3>2, <3>3, FS_CardinalityType
  <2>2. game.scores[s] \in 0 .. Wins /\ ~ (game.scores[s] >= Wins) /\ Wins \in Nat
    BY <1>2, WinsType DEF IsThrows, RpsOver, Wins
  <2>3. f[s] = game.scores[s] + n
    OBVIOUS
  <2> HIDE DEF n, f
  <2>4. \A w, x \in Nat : x \in 0 .. w /\ ~ (x >= w) => x + n \in 0 .. w
    BY <2>1
  <2>5. game.scores[s] \in Nat
    BY <2>2
  <2> QED BY <2>2, <2>3, <2>4, <2>5
<1>6. game.rounds + 1 \in 0 .. RpsMaxRounds
  BY <1>2, RpsAssumption DEF IsThrows, RpsOver
<1>7. f \in [{0, 1} -> 0 .. Wins]
  BY <1>5
<1>8. game' = [scores |-> f, rounds |-> game.rounds + 1, phase |-> "revealing"]
  BY <1>3
<1> HIDE DEF f
<1>9. IsThrows(game') /\ game'.phase = "revealing"
  BY <1>6, <1>7, <1>8 DEF IsThrows
<1>10. Thrown(game', table')
  BY <1>2, <1>4, <1>9 DEF Thrown
<1> QED BY <1>1, <1>4, <1>10 DEF ResultInv, ResultIsPlayed, Thrown, IsThrows, RpsOver

LEMMA RpsRevealedResult == MissInv /\ ResultInv /\ RpsRevealed => ResultInv'
<1> SUFFICES ASSUME MissInv, ResultInv, RpsRevealed PROVE ResultInv'
  OBVIOUS
<1> DEFINE a == Ahead(game.scores)
           t == [table EXCEPT !.ahead = a]
<1>1. /\ gameType = "rps" /\ gameType' = gameType /\ table.status = "active" /\ IsTable(table)
      /\ game' = [game EXCEPT !.phase = "waiting_moves"]
      /\ table' = IF RpsOver(game) THEN Ended(t, IF a = -1 THEN "draw" ELSE "score", a)
                  ELSE [t EXCEPT !.seen = t.timeouts]
  BY DEF RpsRevealed, Playing, MissInv, Kept
<1>2. IsThrows(game)
  BY <1>1 DEF ResultInv, Thrown
<1>3. game' = [scores |-> game.scores, rounds |-> game.rounds, phase |-> "waiting_moves"]
  BY <1>1, <1>2 DEF IsThrows
<1>4. IsThrows(game')
  BY <1>2, <1>3 DEF IsThrows
<1>5. game.scores \in [{0, 1} -> 0 .. Wins] /\ game.rounds \in 0 .. RpsMaxRounds
      /\ Wins \in Nat \ {0}
  BY <1>2, WinsType DEF IsThrows
<1>6. a = IF game.scores[0] > game.scores[1] THEN 0
          ELSE IF game.scores[1] > game.scores[0] THEN 1 ELSE -1
  <2>1. game.scores \in [{0, 1} -> Int]
    BY <1>5
  <2> QED BY <2>1, AheadOfTwo
<1>7. IsTable(t) /\ t.ahead = a
  BY <1>1, AheadTable
<1> HIDE DEF a, t
<1>8. CASE RpsOver(game)
  <2>1. /\ table'.status = "over" /\ table'.ahead = a /\ table'.winner = a
        /\ table'.why \in {"draw", "score"}
    BY <1>1, <1>7, <1>8, EndedTable
  <2>2. Thrown(game', table')
    BY <1>4, <1>6, <2>1 DEF Thrown
  <2>3. game.rounds = RpsMaxRounds \/ \E s \in {0, 1} : game.scores[s] = Wins
    BY <1>5, <1>8, RpsAssumption DEF RpsOver, Wins
  <2>4. /\ a = -1 <=> game.scores[0] = game.scores[1]
        /\ a # -1 => game.scores[a] >= game.scores[1 - a]
    <3>1. game.scores[0] \in Nat /\ game.scores[1] \in Nat
      BY <1>5
    <3> QED BY <1>6, <3>1
  <2>5. ResultIsPlayed'
    BY <1>1, <1>3, <2>1, <2>3, <2>4 DEF ResultIsPlayed, OfType, Wins
  <2> QED BY <1>1, <2>2, <2>5 DEF ResultInv, Thrown, IsThrows, RpsOver
<1>9. CASE ~ RpsOver(game)
  <2>1. table'.status = "active" /\ table'.ahead = a
    <3>1. t.status = "active"
      BY <1>1, AheadTable DEF t
    <3> QED BY <1>1, <1>7, <1>9, <3>1, SeenTable
  <2>2. ~ RpsOver(game')
    BY <1>3, <1>9 DEF RpsOver
  <2>3. Thrown(game', table')
    BY <1>4, <1>6, <2>1, <2>2 DEF Thrown
  <2> QED BY <1>1, <2>1, <2>3 DEF ResultInv, ResultIsPlayed, Thrown, IsThrows, RpsOver
<1> QED BY <1>8, <1>9

\* The table after a turn that is not reported as the last.
GoesOn(t, c) ==
  \E winner : c = IF Late(t) # {} THEN Ended(t, "timeout", winner) ELSE [t EXCEPT !.seen = t.timeouts]

LEMMA TurnGoesOn ==
  ASSUME NEW t, IsTable(t), t.status = "active", NEW c, GoesOn(t, c)
  PROVE  /\ c.timeouts = t.timeouts
         /\ \/ Late(t) # {} /\ c.status = "over" /\ c.why = "timeout"
            \/ Late(t) = {} /\ c.status = "active"
<1>1. PICK winner : c = IF Late(t) # {} THEN Ended(t, "timeout", winner)
                        ELSE [t EXCEPT !.seen = t.timeouts]
  BY DEF GoesOn
<1>2. CASE Late(t) # {}
  BY <1>1, <1>2, EndedTable
<1>3. CASE Late(t) = {}
  BY <1>1, <1>3, SeenTable
<1> QED BY <1>2, <1>3

\* A turn of chess: a reported end is on the board; without a report, one that stays
\* unseen was lost to a failing write.
LEMMA ReportedResult ==
  ASSUME gameType = "chess", gameType' = gameType, NEW t, IsTable(t), NEW g, g.over \in {"mate", "draw"},
         game' = g, table' = Ended(t, IF g.over = "draw" THEN "draw" ELSE "score", ChessWinner(g))
  PROVE  ResultInv'
<1> DEFINE why == IF g.over = "draw" THEN "draw" ELSE "score"
<1>2. table'.status = "over" /\ table'.why = why /\ table'.winner = ChessWinner(g)
  BY EndedTable
<1> QED BY <1>2 DEF ResultInv, ResultIsPlayed, OfType, ChessWinner

LEMMA UnreportedResult ==
  ASSUME gameType = "chess", gameType' = gameType, NEW t, IsTable(t), t.status = "active",
         NEW g, g.over \in {"no", "mate", "draw"}, g.over = "no" \/ g.dbErrors # 0,
         game' = g, GoesOn(t, table')
  PROVE  ResultInv'
<1>1. table'.status = "active" \/ table'.why = "timeout"
  BY TurnGoesOn
<1> QED BY <1>1 DEF ResultInv, ResultIsPlayed, OfType

LEMMA ChessResult == MissInv /\ ResultInv /\ (ChessTurn \/ ChessOver) => ResultInv'
<1> SUFFICES ASSUME MissInv, ResultInv, ChessTurn \/ ChessOver PROVE ResultInv'
  OBVIOUS
<1>1. gameType = "chess" /\ gameType' = gameType /\ table.status = "active"
  BY DEF ChessTurn, ChessOver, Playing
<1>2. IsTable(table) /\ IsChess(game) /\ game.over \in {"no", "mate", "draw"}
  BY <1>1 DEF MissInv, Kept, ResultInv
<1>3. ASSUME NEW side PROVE IsTable(ChessMiss(side)) /\ ChessMiss(side).status = "active"
  BY <1>1, <1>2, CountedTable DEF ChessMiss
<1>4. CASE ChessOver
  <2>1. /\ game.over # "no" /\ game' = game
        /\ table' = Ended(table, IF game.over = "draw" THEN "draw" ELSE "score", ChessWinner(game))
    BY <1>4 DEF ChessOver, ChessConcluded, Concluded
  <2> QED BY <1>1, <1>2, <2>1, ReportedResult
<1>5. CASE ChessTurn
  <2>1. CASE ChessConcluded(game, ChessMiss(game.turn), FALSE)
    <3>1. game.over = "no"
      BY <1>5 DEF ChessTurn
    <3>2. game' = game /\ GoesOn(ChessMiss(game.turn), table')
      BY <2>1 DEF ChessConcluded, Concluded, GoesOn
    <3> QED BY <1>1, <1>3, <3>1, <3>2, UnreportedResult
  <2>2. ASSUME NEW over \in {"no", "mate", "draw"},
               LET h == [game EXCEPT !.turn = 1 - @, !.over = over]
               IN  ChessConcluded(h, table, over # "no")
        PROVE  ResultInv'
    <3> DEFINE h == [game EXCEPT !.turn = 1 - @, !.over = over]
    <3>1. h.over = over
      BY <1>2, ChessMoves
    <3>2. ChessConcluded(h, table, over # "no")
      BY <2>2
    <3> HIDE DEF h
    <3>3. CASE over = "no"
      <4>1. game' = h /\ GoesOn(table, table')
        BY <3>2, <3>3 DEF ChessConcluded, Concluded, GoesOn
      <4> QED BY <1>1, <1>2, <3>1, <3>3, <4>1, UnreportedResult
    <3>4. CASE over # "no"
      <4>1. /\ game' = h
            /\ table' = Ended(table, IF h.over = "draw" THEN "draw" ELSE "score", ChessWinner(h))
        BY <3>2, <3>4 DEF ChessConcluded, Concluded
      <4> QED BY <1>1, <1>2, <3>1, <3>4, <4>1, ReportedResult
    <3> QED BY <3>3, <3>4
  <2>3. ASSUME NEW over \in {"no", "mate", "draw"},
               LET h == [game EXCEPT !.turn = 1 - @, !.over = over]
                   e == [h EXCEPT !.dbErrors = @ + 1]
               IN  ChessConcluded(e, [ChessMiss(e.turn) EXCEPT !.missed = table.missed], FALSE)
        PROVE  ResultInv'
    <3> DEFINE h == [game EXCEPT !.turn = 1 - @, !.over = over]
               e == [h EXCEPT !.dbErrors = @ + 1]
               t == [ChessMiss(e.turn) EXCEPT !.missed = table.missed]
    <3>1. e.over = over /\ e.dbErrors = game.dbErrors + 1
      BY <1>2, ChessMoves
    <3>2. e.dbErrors # 0
      <4>1. game.dbErrors \in Nat
        BY <1>2 DEF IsChess
      <4> HIDE DEF e
      <4> QED BY <3>1, <4>1
    <3>3. ChessConcluded(e, t, FALSE)
      BY <2>3
    <3> HIDE DEF e
    <3>4. IsTable(t) /\ t.status = "active"
      <4>1. table.missed \in [Seats(gameType) -> Nat]
        BY <1>2 DEF IsTable
      <4>2. IsTable(ChessMiss(e.turn)) /\ ChessMiss(e.turn).status = "active"
        BY <1>3
      <4> DEFINE c == ChessMiss(e.turn)
                 m == table.missed
      <4> HIDE DEF c, m
      <4>3. LET d == [c EXCEPT !.missed = m] IN IsTable(d) /\ d.status = c.status
        BY <4>1, <4>2, MissesTable DEF c, m
      <4> QED BY <4>2, <4>3 DEF c, m
    <3> HIDE DEF t
    <3>5. game' = e /\ GoesOn(t, table')
      BY <3>3 DEF ChessConcluded, Concluded, GoesOn
    <3> QED BY <1>1, <3>1, <3>2, <3>4, <3>5, UnreportedResult
  <2> QED BY <1>5, <2>1, <2>2, <2>3 DEF ChessTurn
<1> QED BY <1>4, <1>5

\* A match without an engine goes on.
LEMMA BoardResult == MissInv /\ ResultInv /\ BoardTurn => ResultInv'
<1> SUFFICES ASSUME MissInv, ResultInv, BoardTurn PROVE ResultInv'
  OBVIOUS
<1>1. /\ gameType = "reversi" /\ gameType' = gameType /\ table.status = "active" /\ IsTable(table)
      /\ NobodyLate(table)
  BY DEF BoardTurn, Playing, MissInv, Kept, ResultInv
<1>2. GoesOn(table, table')
  BY DEF BoardTurn, BoardOver, Concluded, GoesOn
<1>3. Late(table) = {}
  <2>1. DOMAIN table.timeouts = Seats(gameType)
    BY <1>1 DEF IsTable
  <2>2. MaxTimeouts \in Nat \ {0}
    BY LimitsAssumption
  <2>3. \A n \in Nat \ {0} : ~ (0 >= n)
    OBVIOUS
  <2> QED BY <1>1, <2>1, <2>2, <2>3 DEF Late, NobodyLate
<1>4. table'.status = "active" /\ table'.timeouts = table.timeouts
  BY <1>1, <1>2, <1>3, TurnGoesOn
<1> QED BY <1>1, <1>4 DEF ResultInv, ResultIsPlayed, NobodyLate

\* What the timer makes of a match.
LEMMA ClockResult == MissInv /\ ResultInv /\ ClockFires => ResultInv'
<1> SUFFICES ASSUME MissInv, ResultInv, ClockFires PROVE ResultInv'
  OBVIOUS
<1>1. IsTable(table) /\ gameType' = gameType /\ game' = game /\ table.status = "active"
  BY DEF MissInv, Kept, ClockFires
<1>2. PICK winner \in OnTime : table' = Ended(table, "clock", winner)
  BY DEF ClockFires
<1>3. /\ table'.status = "over" /\ table'.why = "clock" /\ table'.winner = winner
      /\ table'.ahead = table.ahead /\ table'.timeouts = table.timeouts
  BY <1>1, <1>2, EndedTable
<1>4. CASE gameType = "rps"
  <2>1. IsThrows(game) /\ table.ahead \in {-1, 0, 1}
    BY <1>4 DEF ResultInv, Thrown
  <2>2. game.scores \in [{0, 1} -> Int] /\ game.scores[0] \in Nat /\ game.scores[1] \in Nat
    BY <2>1, WinsType DEF IsThrows
  <2>3. winner = IF Ahead(game.scores) = -1 THEN table.ahead ELSE Ahead(game.scores)
    BY <1>4 DEF OnTime
  <2>4. Ahead(game.scores) = IF game.scores[0] > game.scores[1] THEN 0
                             ELSE IF game.scores[1] > game.scores[0] THEN 1 ELSE -1
    BY <2>2, AheadOfTwo
  <2>5. winner # -1 => game.scores[winner] >= game.scores[1 - winner]
    BY <2>1, <2>2, <2>3, <2>4
  <2>6. ResultIsPlayed'
    BY <1>1, <1>3, <1>4, <2>5 DEF ResultIsPlayed, OfType
  <2>7. Thrown(game', table')
    BY <1>1, <1>3, <2>1 DEF Thrown
  <2> QED BY <1>1, <1>4, <2>6, <2>7 DEF ResultInv, Thrown, IsThrows, RpsOver
<1>5. CASE gameType = "reversi"
  <2>1. winner = -1
    BY <1>5 DEF OnTime
  <2> QED BY <1>1, <1>3, <1>5, <2>1 DEF ResultInv, ResultIsPlayed, OfType, NobodyLate
<1>6. CASE gameType \notin {"rps", "reversi"}
  BY <1>1, <1>3, <1>6 DEF ResultInv, ResultIsPlayed, OfType
<1> QED BY <1>4, <1>5, <1>6

LEMMA ResultInvStep == MissInv /\ ResultInv /\ [LoopNext]_allVars => ResultInv'
<1> SUFFICES ASSUME MissInv, ResultInv, [LoopNext]_allVars PROVE ResultInv'
  OBVIOUS
<1>1. CASE \/ UnoTurn \/ UnoFollowUp \/ Game2048Turn \/ WerewolfTurn
           \/ MkOrient \/ MkBorder \/ MkTribute \/ MkPlace
  BY <1>1 DEF UnoTurn, UnoFollowUp, Game2048Turn, WerewolfTurn, MkOrient, MkBorder, MkTribute,
              MkPlace, Playing, ResultInv, ResultIsPlayed, OfType
<1>2. CASE RpsRound \/ RpsRevealed \/ ChessTurn \/ ChessOver \/ BoardTurn \/ ClockFires
  BY <1>2, RpsRoundResult, RpsRevealedResult, ChessResult, BoardResult, ClockResult
<1>3. CASE PokerStep \/ Over \/ UNCHANGED allVars
  <2>1. UNCHANGED loopVars
    BY <1>3 DEF PokerStep, Over, allVars
  <2> QED BY <2>1 DEF loopVars, ResultInv, ResultIsPlayed, OfType, Thrown, IsThrows, RpsOver,
                      NobodyLate
<1> QED BY <1>1, <1>2, <1>3 DEF LoopNext, Turn

\* A match of throws, for any number of rounds and wins, ends when it is decided, for whoever
\* has more wins; one of chess with what is on the board, unless a write failed; and one
\* without an engine for nobody.
THEOREM ResultIsPlayedHolds == LoopSpec => []ResultIsPlayed
<1>1. ResultInv => ResultIsPlayed
  BY DEF ResultInv
<1>2. MissInv /\ ResultInv /\ [LoopNext]_allVars => (MissInv /\ ResultInv)'
  BY MissInvStep, ResultInvStep
<1> QED BY <1>1, <1>2, MissInvInit, ResultBegins, PTL DEF LoopSpec

-----------------------------------------------------------------------------
(* UNO: a game in which every card is in one place *)

IsUno(g) ==
  g = [hand |-> g.hand, pile |-> g.pile, discard |-> g.discard, top |-> g.top, color |-> g.color,
       direction |-> g.direction, turn |-> g.turn, status |-> g.status, winner |-> g.winner]

UnoTypes(g) ==
  /\ IsUno(g)
  /\ g.hand \in [U!Sides -> SUBSET UnoDeck] /\ g.pile \in SUBSET UnoDeck
  /\ g.discard \in SUBSET UnoDeck /\ g.top \in UnoDeck
  /\ g.color \in U!Colors /\ g.direction \in {1, -1} /\ g.turn \in U!Sides

\* No card is in two places, and each is in one.
Spread(cards, pile, discard, top) ==
  /\ top \notin pile /\ top \notin discard /\ pile \cap discard = {}
  /\ \A s \in U!Sides : cards[s] \cap pile = {} /\ cards[s] \cap discard = {} /\ top \notin cards[s]
  /\ \A s, r \in U!Sides : s # r => cards[s] \cap cards[r] = {}
  /\ \A c \in UnoDeck : c = top \/ c \in pile \/ c \in discard \/ \E s \in U!Sides : c \in cards[s]

UnoCards(g) == UnoTypes(g) /\ Spread(g.hand, g.pile, g.discard, g.top)

\* What drawing leaves alone.
Grows(g, h) ==
  /\ \A s \in U!Sides : g.hand[s] \subseteq h.hand[s]
  /\ h.turn = g.turn /\ h.direction = g.direction /\ h.status = g.status /\ h.winner = g.winner

LEMMA UnoSides == U!Sides = 0 .. UnoPlayers - 1 /\ UnoPlayers \in Nat /\ UnoPlayers >= 2 /\ 0 \in U!Sides
BY UnoAssumption DEF U!Sides

LEMMA FollowingType ==
  ASSUME NEW s \in U!Sides, NEW direction \in {1, -1}
  PROVE  U!Following(s, direction) \in U!Sides
<1>1. s \in Int /\ direction \in Int /\ UnoPlayers \in Nat \ {0}
  BY UnoSides
<1>2. (s + direction) % UnoPlayers \in 0 .. UnoPlayers - 1
  BY <1>1
<1> QED BY <1>2, UnoSides DEF U!Following

\* Somebody draws a card.
LEMMA SpreadDraws ==
  ASSUME NEW cards \in [U!Sides -> SUBSET UnoDeck], NEW pile \in SUBSET UnoDeck, NEW discard, NEW top,
         Spread(cards, pile, discard, top), NEW side \in U!Sides, NEW d \in SUBSET pile
  PROVE  LET more == [cards EXCEPT ![side] = @ \cup d]
         IN  /\ more \in [U!Sides -> SUBSET UnoDeck] /\ pile \ d \in SUBSET UnoDeck
             /\ Spread(more, pile \ d, discard, top)
             /\ \A s \in U!Sides : cards[s] \subseteq more[s]
             /\ d \subseteq more[side]
<1> DEFINE more == [cards EXCEPT ![side] = @ \cup d]
<1>1. more \in [U!Sides -> SUBSET UnoDeck]
  OBVIOUS
<1>2. \A s \in U!Sides : more[s] = IF s = side THEN cards[s] \cup d ELSE cards[s]
  OBVIOUS
<1> HIDE DEF more
<1>3. \A s \in U!Sides : cards[s] \subseteq more[s]
  BY <1>2
<1>4. Spread(more, pile \ d, discard, top)
  <2>1. top \notin pile \ d /\ top \notin discard /\ (pile \ d) \cap discard = {}
    BY DEF Spread
  <2>2. ASSUME NEW s \in U!Sides
        PROVE  more[s] \cap (pile \ d) = {} /\ more[s] \cap discard = {} /\ top \notin more[s]
    BY <1>2 DEF Spread
  <2>3. ASSUME NEW s \in U!Sides, NEW r \in U!Sides, s # r PROVE more[s] \cap more[r] = {}
    <3>1. /\ cards[s] \cap cards[r] = {} /\ cards[s] \cap d = {} /\ cards[r] \cap d = {}
      BY <2>3 DEF Spread
    <3>2. CASE s = side
      <4>1. more[s] = cards[s] \cup d /\ more[r] = cards[r]
        BY <1>2, <2>3, <3>2
      <4> QED BY <3>1, <4>1
    <3>3. CASE r = side
      <4>1. more[r] = cards[r] \cup d /\ more[s] = cards[s]
        BY <1>2, <2>3, <3>3
      <4> QED BY <3>1, <4>1
    <3>4. CASE s # side /\ r # side
      <4>1. more[r] = cards[r] /\ more[s] = cards[s]
        BY <1>2, <3>4
      <4> QED BY <3>1, <4>1
    <3> QED BY <3>2, <3>3, <3>4
  <2>4. ASSUME NEW c \in UnoDeck
        PROVE  c = top \/ c \in pile \ d \/ c \in discard \/ \E s \in U!Sides : c \in more[s]
    <3>1. c = top \/ c \in pile \/ c \in discard \/ \E s \in U!Sides : c \in cards[s]
      BY DEF Spread
    <3>2. c \in d => c \in more[side]
      BY <1>2
    <3> QED BY <1>3, <3>1, <3>2
  <2> QED BY <2>1, <2>2, <2>3, <2>4 DEF Spread
<1> QED BY <1>1, <1>2, <1>3, <1>4 DEF more

\* A state that differs in its piles, in its hands, in the turn or in the result.
WithPiles(g, pile, discard) == [g EXCEPT !.pile = pile, !.discard = discard]
WithHands(g, pile, cards)   == [g EXCEPT !.pile = pile, !.hand = cards]
WithTurn(g, to)             == [g EXCEPT !.turn = to]
WithWay(g, direction, to)   == [g EXCEPT !.direction = direction, !.turn = to]
WithWinner(g, winner)       == [g EXCEPT !.status = "finished", !.winner = winner]

LEMMA PileChanges ==
  ASSUME NEW g, UnoTypes(g), NEW pile \in SUBSET UnoDeck, NEW discard \in SUBSET UnoDeck
  PROVE  LET h == WithPiles(g, pile, discard)
         IN  /\ UnoTypes(h) /\ h.hand = g.hand /\ h.pile = pile /\ h.discard = discard /\ h.top = g.top
             /\ h.color = g.color /\ h.direction = g.direction /\ h.turn = g.turn
             /\ h.status = g.status /\ h.winner = g.winner
<1> DEFINE h == WithPiles(g, pile, discard)
<1>1. IsUno(g)
  BY DEF UnoTypes
<1> DEFINE k == [g EXCEPT !.pile = pile]
<1>2. h = [k EXCEPT !.discard = discard]
  BY ONLY <1>1 DEF IsUno, WithPiles
<1>3. k = [hand |-> g.hand, pile |-> pile, discard |-> g.discard, top |-> g.top, color |-> g.color,
           direction |-> g.direction, turn |-> g.turn, status |-> g.status, winner |-> g.winner]
  BY ONLY <1>1 DEF IsUno
<1> HIDE DEF k, h
<1>4. IsUno(k)
  BY ONLY <1>3 DEF IsUno
<1>5. h = [hand |-> k.hand, pile |-> k.pile, discard |-> discard, top |-> k.top, color |-> k.color,
           direction |-> k.direction, turn |-> k.turn, status |-> k.status, winner |-> k.winner]
  BY ONLY <1>2, <1>4 DEF IsUno
<1>6. h = [hand |-> g.hand, pile |-> pile, discard |-> discard, top |-> g.top, color |-> g.color,
           direction |-> g.direction, turn |-> g.turn, status |-> g.status, winner |-> g.winner]
  BY ONLY <1>3, <1>5
<1>7. /\ UnoTypes(h) /\ h.hand = g.hand /\ h.pile = pile /\ h.discard = discard /\ h.top = g.top
      /\ h.color = g.color /\ h.direction = g.direction /\ h.turn = g.turn
      /\ h.status = g.status /\ h.winner = g.winner
  BY <1>6 DEF UnoTypes, IsUno
<1> QED BY <1>7 DEF h

LEMMA HandChanges ==
  ASSUME NEW g, UnoTypes(g), NEW pile \in SUBSET UnoDeck, NEW cards \in [U!Sides -> SUBSET UnoDeck]
  PROVE  LET h == WithHands(g, pile, cards)
         IN  /\ UnoTypes(h) /\ h.hand = cards /\ h.pile = pile /\ h.discard = g.discard /\ h.top = g.top
             /\ h.color = g.color /\ h.direction = g.direction /\ h.turn = g.turn
             /\ h.status = g.status /\ h.winner = g.winner
<1> DEFINE h == WithHands(g, pile, cards)
<1>1. IsUno(g)
  BY DEF UnoTypes
<1> DEFINE k == [g EXCEPT !.pile = pile]
<1>2. h = [k EXCEPT !.hand = cards]
  BY ONLY <1>1 DEF IsUno, WithHands
<1>3. k = [hand |-> g.hand, pile |-> pile, discard |-> g.discard, top |-> g.top, color |-> g.color,
           direction |-> g.direction, turn |-> g.turn, status |-> g.status, winner |-> g.winner]
  BY ONLY <1>1 DEF IsUno
<1> HIDE DEF k, h
<1>4. IsUno(k)
  BY ONLY <1>3 DEF IsUno
<1>5. h = [hand |-> cards, pile |-> k.pile, discard |-> k.discard, top |-> k.top, color |-> k.color,
           direction |-> k.direction, turn |-> k.turn, status |-> k.status, winner |-> k.winner]
  BY ONLY <1>2, <1>4 DEF IsUno
<1>6. h = [hand |-> cards, pile |-> pile, discard |-> g.discard, top |-> g.top, color |-> g.color,
           direction |-> g.direction, turn |-> g.turn, status |-> g.status, winner |-> g.winner]
  BY ONLY <1>3, <1>5
<1>7. /\ UnoTypes(h) /\ h.hand = cards /\ h.pile = pile /\ h.discard = g.discard /\ h.top = g.top
      /\ h.color = g.color /\ h.direction = g.direction /\ h.turn = g.turn
      /\ h.status = g.status /\ h.winner = g.winner
  BY <1>6 DEF UnoTypes, IsUno
<1> QED BY <1>7 DEF h

LEMMA TurnChanges ==
  ASSUME NEW g, UnoTypes(g), NEW to \in U!Sides
  PROVE  LET h == WithTurn(g, to)
         IN  /\ UnoTypes(h) /\ h.hand = g.hand /\ h.pile = g.pile /\ h.discard = g.discard /\ h.top = g.top
             /\ h.color = g.color /\ h.direction = g.direction /\ h.turn = to
             /\ h.status = g.status /\ h.winner = g.winner
<1> DEFINE h == WithTurn(g, to)
<1>1. IsUno(g)
  BY DEF UnoTypes
<1>2. h = [hand |-> g.hand, pile |-> g.pile, discard |-> g.discard, top |-> g.top, color |-> g.color,
           direction |-> g.direction, turn |-> to, status |-> g.status, winner |-> g.winner]
  BY ONLY <1>1 DEF IsUno, WithTurn
<1> HIDE DEF h
<1>3. /\ UnoTypes(h) /\ h.hand = g.hand /\ h.pile = g.pile /\ h.discard = g.discard /\ h.top = g.top
      /\ h.color = g.color /\ h.direction = g.direction /\ h.turn = to
      /\ h.status = g.status /\ h.winner = g.winner
  BY <1>2 DEF UnoTypes, IsUno
<1> QED BY <1>3 DEF h

LEMMA WayChanges ==
  ASSUME NEW g, UnoTypes(g), NEW direction \in {1, -1}, NEW to \in U!Sides
  PROVE  LET h == WithWay(g, direction, to)
         IN  /\ UnoTypes(h) /\ h.hand = g.hand /\ h.pile = g.pile /\ h.discard = g.discard /\ h.top = g.top
             /\ h.color = g.color /\ h.direction = direction /\ h.turn = to
             /\ h.status = g.status /\ h.winner = g.winner
<1> DEFINE h == WithWay(g, direction, to)
<1>1. IsUno(g)
  BY DEF UnoTypes
<1> DEFINE k == [g EXCEPT !.direction = direction]
<1>2. h = [k EXCEPT !.turn = to]
  BY ONLY <1>1 DEF IsUno, WithWay
<1>3. k = [hand |-> g.hand, pile |-> g.pile, discard |-> g.discard, top |-> g.top, color |-> g.color,
           direction |-> direction, turn |-> g.turn, status |-> g.status, winner |-> g.winner]
  BY ONLY <1>1 DEF IsUno
<1> HIDE DEF k, h
<1>4. IsUno(k)
  BY ONLY <1>3 DEF IsUno
<1>5. h = [hand |-> k.hand, pile |-> k.pile, discard |-> k.discard, top |-> k.top, color |-> k.color,
           direction |-> k.direction, turn |-> to, status |-> k.status, winner |-> k.winner]
  BY ONLY <1>2, <1>4 DEF IsUno
<1>6. h = [hand |-> g.hand, pile |-> g.pile, discard |-> g.discard, top |-> g.top, color |-> g.color,
           direction |-> direction, turn |-> to, status |-> g.status, winner |-> g.winner]
  BY ONLY <1>3, <1>5
<1>7. /\ UnoTypes(h) /\ h.hand = g.hand /\ h.pile = g.pile /\ h.discard = g.discard /\ h.top = g.top
      /\ h.color = g.color /\ h.direction = direction /\ h.turn = to
      /\ h.status = g.status /\ h.winner = g.winner
  BY <1>6 DEF UnoTypes, IsUno
<1> QED BY <1>7 DEF h

LEMMA WinnerChanges ==
  ASSUME NEW g, UnoTypes(g), NEW winner
  PROVE  LET h == WithWinner(g, winner)
         IN  /\ UnoTypes(h) /\ h.hand = g.hand /\ h.pile = g.pile /\ h.discard = g.discard /\ h.top = g.top
             /\ h.color = g.color /\ h.direction = g.direction /\ h.turn = g.turn
             /\ h.status = "finished" /\ h.winner = winner
<1> DEFINE h == WithWinner(g, winner)
<1>1. IsUno(g)
  BY DEF UnoTypes
<1> DEFINE k == [g EXCEPT !.status = "finished"]
<1>2. h = [k EXCEPT !.winner = winner]
  BY ONLY <1>1 DEF IsUno, WithWinner
<1>3. k = [hand |-> g.hand, pile |-> g.pile, discard |-> g.discard, top |-> g.top, color |-> g.color,
           direction |-> g.direction, turn |-> g.turn, status |-> "finished", winner |-> g.winner]
  BY ONLY <1>1 DEF IsUno
<1> HIDE DEF k, h
<1>4. IsUno(k)
  BY ONLY <1>3 DEF IsUno
<1>5. h = [hand |-> k.hand, pile |-> k.pile, discard |-> k.discard, top |-> k.top, color |-> k.color,
           direction |-> k.direction, turn |-> k.turn, status |-> k.status, winner |-> winner]
  BY ONLY <1>2, <1>4 DEF IsUno
<1>6. h = [hand |-> g.hand, pile |-> g.pile, discard |-> g.discard, top |-> g.top, color |-> g.color,
           direction |-> g.direction, turn |-> g.turn, status |-> "finished", winner |-> winner]
  BY ONLY <1>3, <1>5
<1>7. /\ UnoTypes(h) /\ h.hand = g.hand /\ h.pile = g.pile /\ h.discard = g.discard /\ h.top = g.top
      /\ h.color = g.color /\ h.direction = g.direction /\ h.turn = g.turn
      /\ h.status = "finished" /\ h.winner = winner
  BY <1>6 DEF UnoTypes, IsUno
<1> QED BY <1>7 DEF h

\* Where only the turn or the direction differs, the cards are where they were.
LEMMA TurnKeepsCards ==
  ASSUME NEW g, UnoCards(g), NEW to \in U!Sides, NEW direction \in {1, -1},
         NEW h, h = WithTurn(g, to) \/ h = WithWay(g, direction, to)
  PROVE  UnoCards(h) /\ h.hand = g.hand /\ h.pile = g.pile /\ h.status = g.status /\ h.winner = g.winner
<1>1. UnoTypes(g)
  BY DEF UnoCards
<1>2. /\ UnoTypes(h) /\ h.hand = g.hand /\ h.pile = g.pile /\ h.discard = g.discard
      /\ h.top = g.top /\ h.status = g.status /\ h.winner = g.winner
  <2>1. CASE h = WithTurn(g, to)
    BY <1>1, <2>1, TurnChanges
  <2>2. CASE h = WithWay(g, direction, to)
    BY <1>1, <2>2, WayChanges
  <2> QED BY <2>1, <2>2
<1> QED BY <1>2 DEF UnoCards

LEMMA RecycledCards ==
  ASSUME NEW g, UnoCards(g)
  PROVE  LET r == U!Recycled(g)
         IN  /\ UnoCards(r) /\ r.hand = g.hand /\ Grows(g, r) /\ r.top = g.top
<1> DEFINE r == U!Recycled(g)
           pile == g.discard
           none == {}
<1>1. CASE g.pile = {} /\ g.discard # {}
  <2>1. r = WithPiles(g, pile, none)
    BY <1>1 DEF U!Recycled, WithPiles
  <2>2. pile \in SUBSET UnoDeck /\ none \in SUBSET UnoDeck /\ UnoTypes(g)
    BY DEF UnoCards, UnoTypes
  <2>3. Spread(g.hand, pile, none, g.top)
    BY <1>1 DEF UnoCards, Spread
  <2> HIDE DEF pile, none, r
  <2>4. /\ UnoTypes(r) /\ r.hand = g.hand /\ r.pile = pile /\ r.discard = none
        /\ r.top = g.top /\ r.direction = g.direction
        /\ r.turn = g.turn /\ r.status = g.status /\ r.winner = g.winner
    BY <2>1, <2>2, PileChanges
  <2> QED BY <2>3, <2>4 DEF UnoCards, Grows, r
<1>2. CASE ~ (g.pile = {} /\ g.discard # {})
  <2>1. r = g
    BY <1>2 DEF U!Recycled
  <2> QED BY <2>1 DEF Grows
<1> QED BY <1>1, <1>2

\* Cards move from the pile to a hand.
Drawn(g, side, d) == [g EXCEPT !.pile = @ \ d, !.hand[side] = @ \cup d]

LEMMA DrawnCards ==
  ASSUME NEW g, UnoCards(g), NEW side \in U!Sides, NEW d \in SUBSET g.pile
  PROVE  LET h == Drawn(g, side, d)
         IN  UnoCards(h) /\ Grows(g, h) /\ d \subseteq h.hand[side]
<1> DEFINE pile  == g.pile \ d
           cards == [g.hand EXCEPT ![side] = @ \cup d]
           h     == Drawn(g, side, d)
<1>1. h = WithHands(g, pile, cards)
  <2>1. IsUno(g)
    BY DEF UnoCards, UnoTypes
  <2> QED BY ONLY <2>1 DEF Drawn, WithHands, IsUno
<1>2. /\ cards \in [U!Sides -> SUBSET UnoDeck] /\ pile \in SUBSET UnoDeck
      /\ Spread(cards, pile, g.discard, g.top)
      /\ \A s \in U!Sides : g.hand[s] \subseteq cards[s]
      /\ d \subseteq cards[side]
  <2>1. /\ g.hand \in [U!Sides -> SUBSET UnoDeck] /\ g.pile \in SUBSET UnoDeck
        /\ g.discard \in SUBSET UnoDeck /\ Spread(g.hand, g.pile, g.discard, g.top)
    BY DEF UnoCards, UnoTypes
  <2> QED BY <2>1, SpreadDraws
<1> HIDE DEF pile, cards, h
<1>3. /\ UnoTypes(h) /\ h.hand = cards /\ h.pile = pile /\ h.discard = g.discard
      /\ h.top = g.top /\ h.direction = g.direction
      /\ h.turn = g.turn /\ h.status = g.status /\ h.winner = g.winner
  <2>1. UnoTypes(g)
    BY DEF UnoCards
  <2> QED BY <1>1, <1>2, <2>1, HandChanges
<1>4. UnoCards(h) /\ Grows(g, h) /\ d \subseteq h.hand[side]
  BY <1>2, <1>3 DEF UnoCards, Grows
<1> QED BY <1>4 DEF h

LEMMA DrawKeepsCards ==
  ASSUME NEW g, UnoCards(g), NEW side \in U!Sides, NEW h \in U!Draw(g, side)
  PROVE  UnoCards(h) /\ Grows(g, h)
<1> DEFINE r == U!Recycled(g)
<1>1. UnoCards(r) /\ Grows(g, r)
  BY RecycledCards
<1>2. h = r \/ \E c \in r.pile : h = Drawn(r, side, {c})
  BY DEF U!Draw, Drawn
<1> HIDE DEF r
<1>3. ASSUME NEW c \in r.pile, h = Drawn(r, side, {c})
      PROVE  UnoCards(h) /\ Grows(r, h)
  <2> DEFINE d == {c}
  <2>1. d \in SUBSET r.pile /\ h = Drawn(r, side, d)
    BY <1>3
  <2> HIDE DEF d
  <2> QED BY <1>1, <2>1, DrawnCards
<1> QED BY <1>1, <1>2, <1>3 DEF Grows


\* Two cards are drawn, or four.
LEMMA DrawsKeepCards ==
  ASSUME NEW g, UnoCards(g), NEW side \in U!Sides, NEW count \in 0 .. 4,
         NEW h \in U!DrawCards(g, side, count)
  PROVE  UnoCards(h) /\ Grows(g, h)
<1> DEFINE More(S) == UNION {U!Draw(k, side) : k \in S}
           Drawing(f) == [n \in 0 .. count |-> IF n = 0 THEN {g} ELSE More(f[n - 1])]
           Fine(S) == \A k \in S : UnoCards(k) /\ Grows(g, k)
           drawn == CHOOSE f : f = Drawing(f)
<1>1. U!DrawCards(g, side, count) = drawn[count]
  BY DEF U!DrawCards
<1>2. \E f : f = Drawing(f)
  <2> DEFINE b1 == More({g})
             b2 == More(b1)
             b3 == More(b2)
             b4 == More(b3)
             f  == [n \in 0 .. count |-> IF n = 0 THEN {g} ELSE IF n = 1 THEN b1 ELSE IF n = 2 THEN b2
                                         ELSE IF n = 3 THEN b3 ELSE b4]
  <2>1. b1 = More({g}) /\ b2 = More(b1) /\ b3 = More(b2) /\ b4 = More(b3)
    OBVIOUS
  <2> HIDE DEF More, b1, b2, b3, b4
  <2>2. ASSUME NEW n \in 0 .. count
        PROVE  f[n] = IF n = 0 THEN {g} ELSE More(f[n - 1])
    <3>1. n \in {0, 1, 2, 3, 4} /\ (n # 0 => n - 1 \in 0 .. count)
      OBVIOUS
    <3>2. CASE n = 0
      BY <3>2
    <3>3. CASE n = 1
      BY <3>3, <3>1, <2>1
    <3>4. CASE n = 2
      BY <3>4, <3>1, <2>1
    <3>5. CASE n = 3
      BY <3>5, <3>1, <2>1
    <3>6. CASE n = 4
      BY <3>6, <3>1, <2>1
    <3> QED BY <3>1, <3>2, <3>3, <3>4, <3>5, <3>6
  <2>3. f = Drawing(f)
    BY <2>2
  <2> HIDE DEF f
  <2> QED BY <2>3
<1>3. drawn = Drawing(drawn)
  <2> HIDE DEF Drawing
  <2> QED BY <1>2
<1> HIDE DEF drawn
<1>4. drawn[0] = {g} /\ \A n \in 1 .. count : drawn[n] = More(drawn[n - 1])
  <2>1. \A n \in 0 .. count : drawn[n] = IF n = 0 THEN {g} ELSE More(drawn[n - 1])
    BY <1>3
  <2> HIDE DEF More
  <2> QED BY <2>1
<1>5. Fine({g})
  BY DEF Grows
<1>6. ASSUME NEW S, Fine(S) PROVE Fine(More(S))
  <2> SUFFICES ASSUME NEW k \in S, NEW m \in U!Draw(k, side) PROVE UnoCards(m) /\ Grows(g, m)
    OBVIOUS
  <2>1. UnoCards(k) /\ Grows(g, k)
    BY <1>6
  <2>2. UnoCards(m) /\ Grows(k, m)
    BY <2>1, DrawKeepsCards
  <2> QED BY <2>1, <2>2 DEF Grows
<1> HIDE DEF More, Fine
<1>7. \A n \in 0 .. count : n = 0 \/ n \in 1 .. count
  OBVIOUS
<1>8. Fine(drawn[0])
  BY <1>4, <1>5
<1>9. 1 \in 0 .. count => Fine(drawn[1])
  <2>1. 1 \in 0 .. count => drawn[1] = More(drawn[0])
    BY <1>4
  <2> QED BY <1>6, <1>8, <2>1
<1>10. 2 \in 0 .. count => Fine(drawn[2])
  <2>1. 2 \in 0 .. count => drawn[2] = More(drawn[1]) /\ 1 \in 0 .. count
    BY <1>4
  <2> QED BY <1>6, <1>9, <2>1
<1>11. 3 \in 0 .. count => Fine(drawn[3])
  <2>1. 3 \in 0 .. count => drawn[3] = More(drawn[2]) /\ 2 \in 0 .. count
    BY <1>4
  <2> QED BY <1>6, <1>10, <2>1
<1>12. 4 \in 0 .. count => Fine(drawn[4])
  <2>1. 4 \in 0 .. count => drawn[4] = More(drawn[3]) /\ 3 \in 0 .. count
    BY <1>4
  <2> QED BY <1>6, <1>11, <2>1
<1>13. count \in {0, 1, 2, 3, 4} /\ count \in 0 .. count
  OBVIOUS
<1>14. Fine(drawn[count])
  BY <1>8, <1>9, <1>10, <1>11, <1>12, <1>13
<1> QED BY <1>1, <1>14 DEF Fine

\* What a card does: hands grow, and the turn and the direction change.
LEMMA EffectKeepsCards ==
  ASSUME NEW g, UnoCards(g), NEW side \in U!Sides, NEW c, NEW h \in U!Effect(g, side, c)
  PROVE  /\ UnoCards(h) /\ h.status = g.status /\ h.winner = g.winner
         /\ \A s \in U!Sides : g.hand[s] \subseteq h.hand[s]
<1> DEFINE next  == U!Following(side, g.direction)
           after == U!Following(next, g.direction)
           back  == IF UnoPlayers = 2 THEN side ELSE U!Following(side, -g.direction)
           way   == -g.direction
<1>1. g.direction \in {1, -1} /\ way \in {1, -1} /\ UnoTypes(g)
  BY DEF UnoCards, UnoTypes
<1>2. next \in U!Sides /\ after \in U!Sides /\ back \in U!Sides
  BY <1>1, FollowingType
<1>3. \/ h = WithTurn(g, after) \/ h = WithTurn(g, next) \/ h = WithWay(g, way, back)
      \/ \E count \in {2, 4} : \E k \in U!DrawCards(g, next, count) : h = WithTurn(k, after)
  <2>1. CASE c.type = "SKIP"
    BY <2>1 DEF U!Effect, WithTurn, WithWay
  <2>2. CASE c.type = "REVERSE"
    BY <2>2 DEF U!Effect, WithTurn, WithWay
  <2>3. CASE c.type = "DRAW_TWO"
    BY <2>3 DEF U!Effect, WithTurn, WithWay
  <2>4. CASE c.type = "WILD_DRAW_FOUR"
    BY <2>4 DEF U!Effect, WithTurn, WithWay
  <2>5. CASE c.type \notin {"SKIP", "REVERSE", "DRAW_TWO", "WILD_DRAW_FOUR"}
    BY <2>5 DEF U!Effect, WithTurn, WithWay
  <2> QED BY <2>1, <2>2, <2>3, <2>4, <2>5
<1> HIDE DEF next, after, back, way
<1>4. ASSUME NEW k, UnoCards(k), Grows(g, k), NEW to \in U!Sides, NEW direction \in {1, -1},
             h = WithTurn(k, to) \/ h = WithWay(k, direction, to)
      PROVE  /\ UnoCards(h) /\ h.status = g.status /\ h.winner = g.winner
             /\ \A s \in U!Sides : g.hand[s] \subseteq h.hand[s]
  <2>1. UnoCards(h) /\ h.hand = k.hand /\ h.status = k.status /\ h.winner = k.winner
    BY <1>4, TurnKeepsCards
  <2> QED BY <1>4, <2>1 DEF Grows
<1>5. Grows(g, g)
  BY DEF Grows
<1>6. ASSUME NEW count \in {2, 4}, NEW k \in U!DrawCards(g, next, count)
      PROVE  UnoCards(k) /\ Grows(g, k)
  BY <1>2, DrawsKeepCards
<1> QED BY <1>1, <1>2, <1>3, <1>4, <1>5, <1>6

\* Nobody is without cards but the winner.
UnoDecided(g) ==
  \/ g.status = "playing" /\ \A s \in U!Sides : g.hand[s] # {}
  \/ /\ g.status = "finished" /\ g.winner \in U!Sides
     /\ \A s \in U!Sides : g.hand[s] = {} <=> s = g.winner

\* A card is played.
LEMMA PlayKeepsCards ==
  ASSUME NEW g, UnoCards(g), g.status = "playing", \A s \in U!Sides : g.hand[s] # {},
         NEW c \in g.hand[g.turn], NEW color \in U!Colors, NEW h \in U!Play(g, c, color)
  PROVE  UnoCards(h) /\ UnoDecided(h)
<1> DEFINE side    == g.turn
           cards    == [g.hand EXCEPT ![side] = @ \ {c}]
           discard == g.discard \cup {g.top}
           hue     == IF c.type \in U!Wild THEN color ELSE c.color
           laid    == [g EXCEPT !.hand[side] = @ \ {c}, !.discard = @ \cup {g.top}, !.top = c,
                                !.color = IF c.type \in U!Wild THEN color ELSE c.color]
<1>1. /\ IsUno(g) /\ g.hand \in [U!Sides -> SUBSET UnoDeck] /\ g.pile \in SUBSET UnoDeck
      /\ g.discard \in SUBSET UnoDeck /\ g.top \in UnoDeck /\ side \in U!Sides
      /\ g.direction \in {1, -1} /\ c \in UnoDeck /\ Spread(g.hand, g.pile, g.discard, g.top)
  BY DEF UnoCards, UnoTypes
<1>2. cards \in [U!Sides -> SUBSET UnoDeck] /\ discard \in SUBSET UnoDeck
      /\ \A s \in U!Sides : cards[s] = IF s = side THEN g.hand[s] \ {c} ELSE g.hand[s]
  BY <1>1
<1>3. hue \in U!Colors
  BY <1>1, UnoAssumption DEF U!Colors, U!Wild
<1>4. laid = [g EXCEPT !.hand = cards, !.discard = discard, !.top = c, !.color = hue]
  BY <1>1 DEF IsUno
<1>5. U!Play(g, c, color) = IF laid.hand[side] = {}
                            THEN {WithWinner(laid, side)}
                            ELSE U!Effect(laid, side, c)
  BY DEF U!Play, WithWinner
<1> HIDE DEF cards, discard, hue, laid
<1>6. laid = [hand |-> cards, pile |-> g.pile, discard |-> discard, top |-> c, color |-> hue,
              direction |-> g.direction, turn |-> side, status |-> g.status, winner |-> g.winner]
  BY <1>1, <1>4 DEF IsUno, side
<1>7. UnoTypes(laid)
  BY <1>1, <1>2, <1>3, <1>6 DEF UnoTypes, IsUno
<1>8. Spread(cards, g.pile, discard, c)
  <2> USE DEF Spread, discard
  <2>1. c \notin g.pile /\ c \notin discard /\ g.pile \cap discard = {}
    BY <1>1
  <2>2. ASSUME NEW s \in U!Sides
        PROVE  cards[s] \cap g.pile = {} /\ cards[s] \cap discard = {} /\ c \notin cards[s]
    BY <1>1, <1>2
  <2>3. ASSUME NEW s \in U!Sides, NEW r \in U!Sides, s # r PROVE cards[s] \cap cards[r] = {}
    BY <1>1, <1>2, <2>3
  <2>4. ASSUME NEW x \in UnoDeck
        PROVE  x = c \/ x \in g.pile \/ x \in discard \/ \E s \in U!Sides : x \in cards[s]
    <3>1. x = g.top \/ x \in g.pile \/ x \in g.discard \/ \E s \in U!Sides : x \in g.hand[s]
      BY <1>1
    <3> QED BY <1>2, <3>1
  <2> QED BY <2>1, <2>2, <2>3, <2>4
<1>9. UnoCards(laid) /\ laid.hand = cards /\ laid.status = "playing"
  BY <1>6, <1>7, <1>8 DEF UnoCards
<1>10. CASE laid.hand[side] = {}
  <2>1. h = WithWinner(laid, side)
    BY <1>5, <1>10
  <2>2. /\ UnoTypes(h) /\ h.hand = cards /\ h.pile = laid.pile /\ h.discard = laid.discard
        /\ h.top = laid.top /\ h.status = "finished" /\ h.winner = side
    BY <1>7, <1>9, <2>1, WinnerChanges
  <2>3. \A s \in U!Sides : cards[s] = {} <=> s = side
    BY <1>2, <1>9, <1>10
  <2> QED BY <1>1, <1>9, <2>2, <2>3 DEF UnoCards, UnoDecided
<1>11. CASE laid.hand[side] # {}
  <2>1. /\ UnoCards(h) /\ h.status = "playing" /\ \A s \in U!Sides : cards[s] \subseteq h.hand[s]
    BY <1>1, <1>5, <1>9, <1>11, EffectKeepsCards
  <2>2. \A s \in U!Sides : cards[s] # {}
    BY <1>2, <1>9, <1>11
  <2> QED BY <2>1, <2>2 DEF UnoDecided
<1> QED BY <1>10, <1>11

\* A card is drawn; one that is offered is in the hand of the side that goes on.
LEMMA DrawCardKeepsCards ==
  ASSUME NEW g, UnoCards(g), NEW d \in U!DrawCard(g)
  PROVE  /\ UnoCards(d.g) /\ d.g.status = g.status
         /\ \A s \in U!Sides : g.hand[s] \subseteq d.g.hand[s]
         /\ d.g.turn = g.turn => d.card \subseteq d.g.hand[g.turn]
<1> DEFINE side == g.turn
           next == U!Following(side, g.direction)
           r    == U!Recycled(g)
<1>1. UnoCards(r) /\ Grows(g, r) /\ side \in U!Sides /\ g.direction \in {1, -1}
  BY RecycledCards DEF UnoCards, UnoTypes
<1>2. next \in U!Sides
  BY <1>1, FollowingType
<1>3. \/ d.g = WithTurn(r, next) /\ d.card = {}
      \/ \E c \in r.pile : LET k == Drawn(r, side, {c})
                           IN  (d.g = k \/ d.g = WithTurn(k, next)) /\ d.card = {c}
  <2>1. CASE r.pile = {}
    <3>1. d \in {[g |-> WithTurn(r, next), card |-> {}]}
      BY <2>1 DEF U!DrawCard, WithTurn
    <3> HIDE DEF r, next
    <3> QED BY <3>1
  <2>2. CASE r.pile # {}
    <3>1. d \in {LET h == Drawn(r, side, {c})
                 IN  [g |-> IF U!CanPlay(c, h) THEN h ELSE WithTurn(h, next), card |-> {c}] : c \in r.pile}
      BY <2>2 DEF U!DrawCard, WithTurn, Drawn
    <3> HIDE DEF r, next
    <3>2. PICK c \in r.pile :
            d = LET h == Drawn(r, side, {c})
                IN  [g |-> IF U!CanPlay(c, h) THEN h ELSE WithTurn(h, next), card |-> {c}]
      BY <3>1
    <3> DEFINE k == Drawn(r, side, {c})
               x == IF U!CanPlay(c, k) THEN k ELSE WithTurn(k, next)
    <3>3. d = [g |-> x, card |-> {c}] /\ (x = k \/ x = WithTurn(k, next))
      BY <3>2
    <3> HIDE DEF x
    <3>4. (d.g = k \/ d.g = WithTurn(k, next)) /\ d.card = {c}
      BY <3>3
    <3> QED BY <3>4
  <2> QED BY <2>1, <2>2
<1> HIDE DEF next, r
<1>4. ASSUME NEW k, UnoCards(k), Grows(g, k), NEW h, h = k \/ h = WithTurn(k, next)
      PROVE  /\ UnoCards(h) /\ h.status = g.status /\ h.hand = k.hand
             /\ \A s \in U!Sides : g.hand[s] \subseteq h.hand[s]
  <2>1. CASE h = k
    BY <1>4, <2>1 DEF Grows
  <2>2. CASE h = WithTurn(k, next)
    <3>1. UnoCards(h) /\ h.hand = k.hand /\ h.status = k.status
      BY <1>1, <1>2, <1>4, <2>2, TurnKeepsCards
    <3> QED BY <1>4, <3>1 DEF Grows
  <2> QED BY <1>4, <2>1, <2>2
<1>5. CASE d.g = WithTurn(r, next) /\ d.card = {}
  BY <1>1, <1>4, <1>5
<1>6. ASSUME NEW c \in r.pile,
             LET k == Drawn(r, side, {c}) IN (d.g = k \/ d.g = WithTurn(k, next)) /\ d.card = {c}
      PROVE  /\ UnoCards(d.g) /\ d.g.status = g.status /\ d.card \subseteq d.g.hand[g.turn]
             /\ \A s \in U!Sides : g.hand[s] \subseteq d.g.hand[s]
  <2> DEFINE e == {c}
             k == Drawn(r, side, e)
  <2>1. e \in SUBSET r.pile /\ d.card = e /\ (d.g = k \/ d.g = WithTurn(k, next))
    BY <1>6
  <2> HIDE DEF e
  <2>2. UnoCards(k) /\ Grows(r, k) /\ e \subseteq k.hand[side]
    BY <1>1, <2>1, DrawnCards
  <2> HIDE DEF k
  <2>3. Grows(g, k)
    BY <1>1, <2>2 DEF Grows
  <2> QED BY <1>4, <2>1, <2>2, <2>3
<1> QED BY <1>3, <1>5, <1>6


LEMMA CardsCounted ==
  ASSUME NEW g, UnoCards(g)
  PROVE  /\ (UNION {g.hand[s] : s \in U!Sides}) \cup g.pile \cup g.discard \cup {g.top} = UnoDeck
         /\ Cardinality(UnoDeck) = SumFunction([s \in U!Sides |-> Cardinality(g.hand[s])])
                                   + Cardinality(g.pile) + Cardinality(g.discard) + 1
<1> DEFINE held == UNION {g.hand[s] : s \in U!Sides}
           lies == held \cup g.pile
           rest == lies \cup g.discard
           h    == [s \in U!Sides |-> Cardinality(g.hand[s])]
<1>1. /\ g.hand \in [U!Sides -> SUBSET UnoDeck] /\ g.pile \in SUBSET UnoDeck
      /\ g.discard \in SUBSET UnoDeck /\ g.top \in UnoDeck
      /\ Spread(g.hand, g.pile, g.discard, g.top) /\ IsFiniteSet(UnoDeck)
  BY UnoAssumption DEF UnoCards, UnoTypes
<1>2. rest \cup {g.top} = UnoDeck
  <2>1. rest \cup {g.top} \subseteq UnoDeck
    BY <1>1
  <2>2. UnoDeck \subseteq rest \cup {g.top}
    BY <1>1 DEF Spread
  <2> QED BY <2>1, <2>2
<1>3. /\ g.top \notin rest /\ lies \cap g.discard = {} /\ held \cap g.pile = {}
      /\ held \in SUBSET UnoDeck /\ lies \in SUBSET UnoDeck /\ rest \in SUBSET UnoDeck
  BY <1>1 DEF Spread
<1>4. /\ IsFiniteSet(held) /\ IsFiniteSet(lies) /\ IsFiniteSet(rest)
      /\ IsFiniteSet(g.pile) /\ IsFiniteSet(g.discard)
  BY <1>1, <1>3, FS_Subset
<1>5. SumFunction(h) = Cardinality(held)
  <2>1. IsFiniteSet(U!Sides)
    BY UnoSides, FS_Interval
  <2>2. g.hand \in [U!Sides -> SUBSET held] /\ \A x \in held : \E v \in U!Sides : x \in g.hand[v]
    BY <1>1
  <2>3. \A v, w \in U!Sides : v # w => g.hand[v] \cap g.hand[w] = {}
    BY <1>1 DEF Spread
  <2> DEFINE part == g.hand
  <2>4. h = [s \in U!Sides |-> Cardinality(part[s])]
    OBVIOUS
  <2>5. /\ part \in [U!Sides -> SUBSET held] /\ \A x \in held : \E v \in U!Sides : x \in part[v]
        /\ \A v, w \in U!Sides : v # w => part[v] \cap part[w] = {}
    BY <2>2, <2>3
  <2> HIDE DEF held, h, part
  <2> QED BY ONLY <1>4, <2>1, <2>4, <2>5, SumOfSets
<1> HIDE DEF held, lies, rest, h
<1>6. Cardinality(UnoDeck) = Cardinality(rest) + 1
  BY <1>2, <1>3, <1>4, FS_AddElement
<1>7. Cardinality(rest) = Cardinality(lies) + Cardinality(g.discard) - Cardinality({})
  <2>1. rest = lies \cup g.discard
    BY DEF rest
  <2>2. Cardinality(lies \cup g.discard) = Cardinality(lies) + Cardinality(g.discard)
                                           - Cardinality(lies \cap g.discard)
    BY <1>4, FS_Union
  <2> QED BY ONLY <1>3, <2>1, <2>2
<1>8. Cardinality(lies) = Cardinality(held) + Cardinality(g.pile) - Cardinality({})
  <2>1. lies = held \cup g.pile
    BY DEF lies
  <2>2. Cardinality(held \cup g.pile) = Cardinality(held) + Cardinality(g.pile)
                                        - Cardinality(held \cap g.pile)
    BY <1>4, FS_Union
  <2> QED BY ONLY <1>3, <2>1, <2>2
<1>9. held \cup g.pile \cup g.discard \cup {g.top} = UnoDeck
  BY <1>2 DEF rest, lies
<1>10. /\ Cardinality({}) = 0 /\ Cardinality(held) \in Nat /\ Cardinality(lies) \in Nat
       /\ Cardinality(rest) \in Nat /\ Cardinality(g.pile) \in Nat /\ Cardinality(g.discard) \in Nat
  BY <1>4, FS_CardinalityType, FS_EmptySet
<1> DEFINE all   == Cardinality(UnoDeck)
           nrest == Cardinality(rest)
           nlies == Cardinality(lies)
           nheld == Cardinality(held)
           npile == Cardinality(g.pile)
           ndisc == Cardinality(g.discard)
           none  == Cardinality({})
           total == SumFunction(h)
<1>11. /\ all = nrest + 1 /\ nrest = nlies + ndisc - none /\ nlies = nheld + npile - none
       /\ none = 0 /\ total = nheld
       /\ nheld \in Nat /\ nlies \in Nat /\ nrest \in Nat /\ npile \in Nat /\ ndisc \in Nat
  BY <1>5, <1>6, <1>7, <1>8, <1>10
<1> HIDE DEF all, nrest, nlies, nheld, npile, ndisc, none, total
<1>12. all = total + npile + ndisc + 1
  BY ONLY <1>11
<1>13. Cardinality(UnoDeck) = SumFunction(h) + Cardinality(g.pile) + Cardinality(g.discard) + 1
  BY ONLY <1>12 DEF all, total, npile, ndisc
<1> HIDE DEF all, nrest, nlies, nheld, npile, ndisc, none, total
<1>14. held = UNION {g.hand[s] : s \in U!Sides} /\ h = [s \in U!Sides |-> Cardinality(g.hand[s])]
  BY DEF held, h
<1> QED BY ONLY <1>9, <1>13, <1>14

\* The side ahead is a side, and nobody has more.
LEMMA AheadOfMany ==
  ASSUME NEW D \in SUBSET Int, IsFiniteSet(D), NEW f \in [D -> Int], Ahead(f) # -1
  PROVE  Ahead(f) \in D /\ \A s \in D : f[s] <= f[Ahead(f)]
<1> DEFINE best == {s \in DOMAIN f : \A r \in (DOMAIN f) \ {s} : f[s] > f[r]}
<1>1. Ahead(f) = IF best = {} THEN -1 ELSE Min(best)
  BY DEF Ahead
<1>2. best \in SUBSET Int /\ IsFiniteSet(best) /\ best \in SUBSET D
  <2>1. best \in SUBSET D
    OBVIOUS
  <2> QED BY <2>1, FS_Subset
<1>3. \A x \in best : x \in D /\ \A s \in D : f[s] <= f[x]
  OBVIOUS
<1> HIDE DEF best
<1>4. Ahead(f) \in best
  BY <1>1, <1>2, MinAndMax
<1> QED BY <1>3, <1>4

-----------------------------------------------------------------------------
(* UNO: the match *)

Scores(g, t) ==
  /\ g.status = "playing" => t.why # "score"
  /\ g.status = "finished" => t.status = "over" /\ t.why = "score" /\ t.winner = g.winner
  /\ t.status = "active" => t.why = "none"
  /\ t.why = "clock" /\ t.winner # -1 =>
       \A s \in U!Sides : Cardinality(g.hand[t.winner]) <= Cardinality(g.hand[s])

UnoKept(g, t) ==
  /\ UnoCards(g.g) /\ UnoDecided(g.g) /\ g.drawn \subseteq g.g.hand[g.g.turn]
  /\ Scores(g.g, t)

UnoInv == gameType = "uno" => UnoKept(game, table)

\* How a match ended is not touched by a turn that goes on.
LEMMA TurnKeepsWhy ==
  ASSUME NEW t, IsTable(t), NEW side
  PROVE  Counted(t, side).why = t.why /\ [t EXCEPT !.seen = t.timeouts].why = t.why
<1>1. Counted(t, side).why = t.why
  BY DEF Counted, IsTable
<1>2. [t EXCEPT !.seen = t.timeouts].why = t.why
  BY EndedShape
<1> QED BY <1>1, <1>2

LEMMA AskedWhy ==
  ASSUME IsTable(table), NEW side, NEW answered
  PROVE  Asked(side, answered).why = table.why
BY TurnKeepsWhy DEF Asked

LEMMA UnoCounts == \A S : U!Cardinality(S) = Cardinality(S)
BY DEF U!Cardinality, Cardinality

\* A deal leaves every card in one place.
LEMMA DealIsSpread ==
  ASSUME NEW dealt \in U!Deals, NEW starter \in UnoDeck \ UNION {dealt[s] : s \in U!Sides}
  PROVE  LET left == UnoDeck \ ((UNION {dealt[s] : s \in U!Sides}) \cup {starter})
         IN  /\ dealt \in [U!Sides -> SUBSET UnoDeck]
             /\ \A s \in U!Sides : Cardinality(dealt[s]) = UnoHand
             /\ Spread(dealt, left, {}, starter)
<1> DEFINE held == UNION {dealt[s] : s \in U!Sides}
           left == UnoDeck \ (held \cup {starter})
           none == {}
<1>1. /\ dealt \in [U!Sides -> SUBSET UnoDeck]
      /\ \A s \in U!Sides : Cardinality(dealt[s]) = UnoHand
      /\ \A s, r \in U!Sides : s # r => dealt[s] \cap dealt[r] = {}
  <2>1. /\ dealt \in [U!Sides -> SUBSET UnoDeck]
        /\ \A s \in U!Sides : U!Cardinality(dealt[s]) = UnoHand
        /\ \A s, r \in U!Sides : s # r => dealt[s] \cap dealt[r] = {}
    BY DEF U!Deals
  <2> QED BY <2>1, UnoCounts
<1>2. /\ \A s \in U!Sides : dealt[s] \subseteq held
      /\ \A c \in held : \E s \in U!Sides : c \in dealt[s]
      /\ starter \notin held
  OBVIOUS
<1> HIDE DEF held
<1>3. Spread(dealt, left, none, starter)
  BY <1>1, <1>2 DEF Spread
<1> QED BY <1>1, <1>3 DEF held

LEMMA UnoStarted ==
  ASSUME NEW dealt \in U!Deals, NEW starter \in UnoDeck \ UNION {dealt[s] : s \in U!Sides},
         NEW color \in U!Colors,
         NEW g \in U!Started([hand |-> dealt,
                              pile |-> UnoDeck \ ((UNION {dealt[s] : s \in U!Sides}) \cup {starter}),
                              discard |-> {}, top |-> starter, color |-> color, direction |-> 1,
                              turn |-> 0, status |-> "playing", winner |-> -1], starter)
  PROVE  UnoCards(g) /\ UnoDecided(g) /\ g.status = "playing"
<1> DEFINE left == UnoDeck \ ((UNION {dealt[s] : s \in U!Sides}) \cup {starter})
           k == [hand |-> dealt, pile |-> left, discard |-> {}, top |-> starter, color |-> color,
                 direction |-> 1, turn |-> 0, status |-> "playing", winner |-> -1]
           back == U!Following(0, -1)
           next == U!Following(0, 1)
           way  == -1
<1>0. g \in U!Started(k, starter)
  OBVIOUS
<1> HIDE DEF k
<1>1. /\ dealt \in [U!Sides -> SUBSET UnoDeck]
      /\ \A s \in U!Sides : Cardinality(dealt[s]) = UnoHand
      /\ Spread(dealt, left, {}, starter)
  BY DealIsSpread
<1>2. \A s \in U!Sides : dealt[s] # {}
  BY <1>1, FS_EmptySet, UnoAssumption
<1>4. left \in SUBSET UnoDeck /\ 0 \in U!Sides /\ 1 \in {1, -1} /\ way \in {1, -1}
  BY UnoSides
<1>5. back \in U!Sides /\ next \in U!Sides
  BY <1>4, FollowingType
<1> HIDE DEF left, back, next
<1>6. \/ g = k \/ g = WithTurn(k, next) \/ g = WithWay(k, way, back)
      \/ \E d \in SUBSET k.pile : g = Drawn(WithTurn(k, next), 0, d)
  <2>1. CASE starter.type = "SKIP"
    BY <1>0, <2>1 DEF U!Started, WithTurn, next
  <2>2. CASE starter.type = "REVERSE"
    BY <1>0, <2>2 DEF U!Started, WithWay, back
  <2>3. CASE starter.type = "DRAW_TWO"
    <3> DEFINE h  == WithTurn(k, next)
               ds == {s \in SUBSET k.pile : U!Cardinality(s) = 2
                                            \/ (s = k.pile /\ U!Cardinality(s) < 2)}
    <3>1. U!Started(k, starter) = {[h EXCEPT !.hand[0] = @ \cup d, !.pile = @ \ d] : d \in ds}
      BY <2>3 DEF U!Started, WithTurn, next
    <3>2. ds \subseteq SUBSET k.pile
      OBVIOUS
    <3> HIDE DEF h, ds
    <3>3. PICK d \in ds : g = [h EXCEPT !.hand[0] = @ \cup d, !.pile = @ \ d]
      BY <1>0, <3>1
    <3>4. g = [h EXCEPT !.pile = @ \ d, !.hand[0] = @ \cup d]
      BY ONLY <3>3
    <3>5. g = Drawn(h, 0, d) /\ d \in SUBSET k.pile
      BY <3>2, <3>4 DEF Drawn
    <3> QED BY <3>5 DEF h
  <2>4. CASE starter.type \notin {"SKIP", "REVERSE", "DRAW_TWO"}
    BY <1>0, <2>4 DEF U!Started
  <2> QED BY <2>1, <2>2, <2>3, <2>4
<1> HIDE DEF way
<1>7. UnoCards(k) /\ k.status = "playing" /\ k.hand = dealt
  BY <1>1, <1>4 DEF UnoCards, UnoTypes, IsUno, k
<1>8. ASSUME NEW to \in U!Sides, NEW direction \in {1, -1}, NEW h,
             h = WithTurn(k, to) \/ h = WithWay(k, direction, to)
      PROVE  UnoCards(h) /\ h.status = "playing" /\ h.hand = dealt /\ h.pile = k.pile
  BY <1>7, <1>8, TurnKeepsCards
<1>9. ASSUME NEW d \in SUBSET k.pile, g = Drawn(WithTurn(k, next), 0, d)
      PROVE  UnoCards(g) /\ g.status = "playing" /\ \A s \in U!Sides : dealt[s] \subseteq g.hand[s]
  <2> DEFINE h == WithTurn(k, next)
  <2>1. UnoCards(h) /\ h.status = "playing" /\ h.hand = dealt /\ h.pile = k.pile
    BY <1>4, <1>5, <1>8
  <2>2. g = Drawn(h, 0, d)
    BY <1>9
  <2> HIDE DEF h
  <2>3. UnoCards(g) /\ Grows(h, g)
    BY <1>4, <2>1, <2>2, DrawnCards
  <2> QED BY <2>1, <2>3 DEF Grows
<1>10. /\ UnoCards(g) /\ g.status = "playing" /\ \A s \in U!Sides : dealt[s] \subseteq g.hand[s]
  BY <1>4, <1>5, <1>6, <1>7, <1>8, <1>9
<1> QED BY <1>2, <1>10 DEF UnoDecided

LEMMA UnoBegin == LoopInit => UnoInv
<1> SUFFICES ASSUME LoopInit, gameType = "uno" PROVE UnoKept(game, table)
  BY DEF UnoInv
<1>1. table.status = "active" /\ table.why = "none"
  BY DEF LoopInit
<1>2. game.drawn = {} /\ game.g \in U!InitialStates
  BY DEF LoopInit, Begins, UnoBegins
<1>3. UnoCards(game.g) /\ UnoDecided(game.g) /\ game.g.status = "playing"
  <2> DEFINE Held(dealt)   == UNION {dealt[s] : s \in U!Sides}
             Suits(starter) == IF starter.color = "BLACK" THEN U!Colors ELSE {starter.color}
             First(dealt, starter, color) ==
               U!Started([hand |-> dealt, pile |-> UnoDeck \ (Held(dealt) \cup {starter}),
                          discard |-> {}, top |-> starter, color |-> color, direction |-> 1,
                          turn |-> 0, status |-> "playing", winner |-> -1], starter)
             Tops(dealt) == {c \in UnoDeck \ Held(dealt) : c.type # "WILD_DRAW_FOUR"}
             Hued(dealt, starter) == UNION {First(dealt, starter, color) : color \in Suits(starter)}
             Topped(dealt) == UNION {Hued(dealt, starter) : starter \in Tops(dealt)}
  <2>1. U!InitialStates = UNION {Topped(dealt) : dealt \in U!Deals}
    BY DEF U!InitialStates
  <2>2. ASSUME NEW dealt \in U!Deals, NEW starter \in Tops(dealt), NEW color \in Suits(starter),
               NEW g \in First(dealt, starter, color)
        PROVE  UnoCards(g) /\ UnoDecided(g) /\ g.status = "playing"
    <3>1. starter \in UnoDeck \ Held(dealt) /\ color \in U!Colors
      BY DEF U!Colors
    <3> QED BY <3>1, UnoStarted
  <2> HIDE DEF First, Suits, Tops
  <2> QED BY <1>2, <2>1, <2>2
<1> QED BY <1>1, <1>2, <1>3 DEF UnoKept, Scores

LEMMA UnoNextInv ==
  ASSUME gameType = "uno", NEW h, UnoCards(h), UnoDecided(h), NEW drawn, drawn \subseteq h.hand[h.turn],
         drawn # {} => h.status = "playing",
         NEW t, IsTable(t), t.status = "active", t.why = "none", UnoNext(h, drawn, t)
  PROVE  UnoKept(game', table')
<1>1. game'.g = h /\ game'.drawn = drawn
  BY DEF UnoNext
<1>2. Scores(h, table')
  <2>1. CASE drawn # {}
    <3>1. table' = t
      BY <2>1 DEF UnoNext
    <3> QED BY <2>1, <3>1 DEF Scores
  <2>2. CASE drawn = {}
    <3>1. table' = Concluded(t, h.status = "finished", "score", h.winner)
      BY <2>2 DEF UnoNext
    <3>2. CASE h.status = "finished"
      <4>1. table' = Ended(t, "score", h.winner)
        BY <3>1, <3>2 DEF Concluded
      <4>2. table'.status = "over" /\ table'.why = "score" /\ table'.winner = h.winner
        BY <4>1, EndedTable
      <4> QED BY <3>2, <4>2 DEF Scores
    <3>3. CASE h.status = "playing"
      <4>1. (\E w : table' = Ended(t, "timeout", w)) \/ table' = [t EXCEPT !.seen = t.timeouts]
        BY <3>1, <3>3 DEF Concluded
      <4>2. \/ table'.status = "over" /\ table'.why = "timeout"
            \/ table'.status = "active" /\ table'.why = "none"
        <5>1. ASSUME NEW w, table' = Ended(t, "timeout", w)
              PROVE  table'.status = "over" /\ table'.why = "timeout"
          BY <5>1, EndedTable
        <5>2. ASSUME table' = [t EXCEPT !.seen = t.timeouts]
              PROVE  table'.status = "active" /\ table'.why = "none"
          BY <5>2, SeenTable, TurnKeepsWhy
        <5> QED BY <4>1, <5>1, <5>2
      <4> QED BY <3>3, <4>2 DEF Scores
    <3> QED BY <3>2, <3>3 DEF UnoDecided
  <2> QED BY <2>1, <2>2
<1> QED BY <1>1, <1>2 DEF UnoKept

LEMMA UnoTurnInv == MissInv /\ UnoInv /\ (UnoTurn \/ UnoFollowUp) => UnoKept(game', table')
<1> SUFFICES ASSUME MissInv, UnoInv, UnoTurn \/ UnoFollowUp PROVE UnoKept(game', table')
  OBVIOUS
<1> DEFINE g == game.g
<1>1. gameType = "uno" /\ table.status = "active" /\ IsTable(table)
  BY DEF UnoTurn, UnoFollowUp, Playing, MissInv, Kept
<1>2. /\ UnoCards(g) /\ g.status = "playing" /\ table.why = "none"
      /\ \A s \in U!Sides : g.hand[s] # {}
      /\ game.drawn \subseteq g.hand[g.turn]
  BY <1>1 DEF UnoInv, UnoKept, UnoDecided, Scores
<1>3. ASSUME NEW answered
      PROVE  LET t == Asked(g.turn, answered)
             IN  IsTable(t) /\ t.status = "active" /\ t.why = "none"
  BY <1>1, <1>2, AskedTable, AskedWhy
<1>4. ASSUME NEW answered, NEW c \in g.hand[g.turn], NEW color \in U!Colors, NEW h \in U!Play(g, c, color),
             UnoNext(h, {}, Asked(g.turn, answered))
      PROVE  UnoKept(game', table')
  <2>1. UnoCards(h) /\ UnoDecided(h)
    BY <1>2, PlayKeepsCards
  <2> DEFINE none == {}
             t    == Asked(g.turn, answered)
  <2>2. none \subseteq h.hand[h.turn] /\ ~ (none # {}) /\ UnoNext(h, none, t)
    BY <1>4
  <2>3. IsTable(t) /\ t.status = "active" /\ t.why = "none"
    BY <1>3
  <2> HIDE DEF none, t
  <2> QED BY <1>1, <2>1, <2>2, <2>3, UnoNextInv
<1>5. CASE UnoTurn
  <2>1. PICK answered \in Answers :
          LET t == Asked(g.turn, answered)
          IN  \/ \E c \in UnoReplies(g, U!Playable(g, g.turn), answered), color \in U!Colors :
                   \E h \in U!Play(g, c, color) : UnoNext(h, {}, t)
              \/ \E d \in U!DrawCard(g) : UnoNext(d.g, IF d.g.turn = g.turn THEN d.card ELSE {}, t)
    BY <1>5 DEF UnoTurn
  <2>2. UnoReplies(g, U!Playable(g, g.turn), answered) \subseteq g.hand[g.turn]
    BY DEF UnoReplies, U!Playable
  <2>3. ASSUME NEW d \in U!DrawCard(g),
               UnoNext(d.g, IF d.g.turn = g.turn THEN d.card ELSE {}, Asked(g.turn, answered))
        PROVE  UnoKept(game', table')
    <3> DEFINE drawn == IF d.g.turn = g.turn THEN d.card ELSE {}
               t     == Asked(g.turn, answered)
    <3>1. /\ UnoCards(d.g) /\ d.g.status = g.status
          /\ \A s \in U!Sides : g.hand[s] \subseteq d.g.hand[s]
          /\ d.g.turn = g.turn => d.card \subseteq d.g.hand[g.turn]
      BY <1>2, DrawCardKeepsCards
    <3>2. UnoDecided(d.g) /\ d.g.status = "playing"
      BY <1>2, <3>1 DEF UnoDecided
    <3>3. drawn \subseteq d.g.hand[d.g.turn]
      BY <3>1
    <3>4. IsTable(t) /\ t.status = "active" /\ t.why = "none"
      BY <1>3
    <3>5. UnoNext(d.g, drawn, t)
      BY <2>3
    <3> HIDE DEF drawn, t
    <3> QED BY <1>1, <3>1, <3>2, <3>3, <3>4, <3>5, UnoNextInv
  <2> QED BY <1>4, <2>1, <2>2, <2>3
<1>6. CASE UnoFollowUp
  <2>1. \E answered \in Answers, color \in U!Colors : \E c \in UnoReplies(g, game.drawn, answered) :
          \E h \in U!Play(g, c, color) : UnoNext(h, {}, Asked(g.turn, answered))
    BY <1>6 DEF UnoFollowUp
  <2>2. \A answered : UnoReplies(g, game.drawn, answered) \subseteq g.hand[g.turn]
    BY <1>2 DEF UnoReplies
  <2> QED BY <1>4, <2>1, <2>2
<1> QED BY <1>5, <1>6

LEMMA UnoClockInv == MissInv /\ UnoInv /\ ClockFires /\ gameType = "uno" => UnoKept(game', table')
<1> SUFFICES ASSUME MissInv, UnoInv, ClockFires, gameType = "uno" PROVE UnoKept(game', table')
  OBVIOUS
<1> DEFINE g == game.g
           f == [s \in U!Sides |-> -Cardinality(g.hand[s])]
<1>1. IsTable(table) /\ game' = game /\ table.status = "active"
  BY DEF MissInv, Kept, ClockFires
<1>2. PICK winner : winner = Ahead(f) /\ table' = Ended(table, "clock", winner)
  BY DEF ClockFires, OnTime
<1>3. table'.status = "over" /\ table'.why = "clock" /\ table'.winner = winner
  BY <1>1, <1>2, EndedTable
<1>4. UnoCards(g) /\ UnoDecided(g) /\ game.drawn \subseteq g.hand[g.turn] /\ g.status = "playing"
  BY <1>1 DEF UnoInv, UnoKept, Scores, UnoDecided
<1>5. \A s \in U!Sides : Cardinality(g.hand[s]) \in Nat
  <2>1. \A s \in U!Sides : g.hand[s] \in SUBSET UnoDeck
    BY <1>4 DEF UnoCards, UnoTypes
  <2>2. \A s \in U!Sides : IsFiniteSet(g.hand[s])
    BY <2>1, UnoAssumption, FS_Subset
  <2> QED BY <2>2, FS_CardinalityType
<1>6. winner # -1 => \A s \in U!Sides : Cardinality(g.hand[winner]) <= Cardinality(g.hand[s])
  <2> SUFFICES ASSUME winner # -1, NEW s \in U!Sides
               PROVE  Cardinality(g.hand[winner]) <= Cardinality(g.hand[s])
    OBVIOUS
  <2>1. U!Sides \in SUBSET Int /\ IsFiniteSet(U!Sides)
    BY UnoSides, FS_Interval
  <2>2. f \in [U!Sides -> Int] /\ \A r \in U!Sides : f[r] = -Cardinality(g.hand[r])
    BY <1>5
  <2> HIDE DEF f
  <2>3. winner \in U!Sides /\ f[s] <= f[winner]
    BY <1>2, <2>1, <2>2, AheadOfMany
  <2>4. Cardinality(g.hand[winner]) \in Nat /\ Cardinality(g.hand[s]) \in Nat
    BY <1>5, <2>3
  <2>5. -Cardinality(g.hand[s]) <= -Cardinality(g.hand[winner])
    BY <2>2, <2>3
  <2> DEFINE m == Cardinality(g.hand[winner])
             n == Cardinality(g.hand[s])
  <2>6. m \in Nat /\ n \in Nat /\ -n <= -m
    BY <2>4, <2>5
  <2> HIDE DEF m, n
  <2>7. m <= n
    BY <2>6
  <2> QED BY <2>7 DEF m, n
<1> QED BY <1>1, <1>3, <1>4, <1>6 DEF UnoKept, Scores

LEMMA UnoInvStep == MissInv /\ UnoInv /\ [LoopNext]_allVars => UnoInv'
<1> SUFFICES ASSUME MissInv, UnoInv, [LoopNext]_allVars, gameType' = "uno" PROVE UnoKept(game, table)'
  BY DEF UnoInv
<1>1. UnoKept(game', table') => UnoKept(game, table)'
  BY DEF UnoKept, UnoCards, UnoTypes, IsUno, UnoDecided, Scores
<1>2. CASE Turn \/ ClockFires
  <2>1. gameType = "uno" /\ (UnoTurn \/ UnoFollowUp \/ ClockFires)
    BY <1>2 DEF Turn, UnoTurn, UnoFollowUp, Game2048Turn, WerewolfTurn, MkOrient, MkBorder,
                MkTribute, MkPlace, RpsRound, RpsRevealed, ChessTurn, ChessOver, BoardTurn,
                ClockFires, Playing
  <2> QED BY <1>1, <2>1, UnoTurnInv, UnoClockInv
<1>3. CASE PokerStep \/ Over \/ UNCHANGED allVars
  <2>1. gameType' = gameType /\ game' = game /\ table' = table
    BY <1>3 DEF PokerStep, Over, allVars, loopVars
  <2> QED BY <1>1, <2>1 DEF UnoInv
<1> QED BY <1>2, <1>3 DEF LoopNext

THEOREM UnoInvHolds == LoopSpec => []UnoInv
<1>1. MissInv /\ UnoInv /\ [LoopNext]_allVars => (MissInv /\ UnoInv)'
  BY MissInvStep, UnoInvStep
<1> QED BY <1>1, MissInvInit, UnoBegin, PTL DEF LoopSpec

\* UNO, for any deck, hands and two to four players: every card stays in one place.
THEOREM CardsKeptHolds == LoopSpec => []CardsKept
<1>1. UnoInv => CardsKept
  <2> SUFFICES ASSUME UnoInv, gameType = "uno" PROVE CardsKept
    BY DEF CardsKept, OfType
  <2>1. UnoCards(game.g)
    BY DEF UnoInv, UnoKept
  <2> QED BY <2>1, CardsCounted DEF CardsKept
<1> QED BY <1>1, UnoInvHolds, PTL

\* UNO: the side without cards has won and no other, and on time nobody has fewer cards than
\* the winner.
THEOREM EmptyHandWinsHolds == LoopSpec => []EmptyHandWins
<1>1. UnoInv => EmptyHandWins
  BY DEF UnoInv, UnoKept, UnoDecided, Scores, EmptyHandWins, OfType
<1> QED BY <1>1, UnoInvHolds, PTL

-----------------------------------------------------------------------------
(* Werewolf: a match that is won when a team has won *)

WolfFields == {"role", "alive", "phase", "cycle", "active", "voted", "tally", "target", "checked",
               "talks", "status", "winner"}

\* At least these are the fields of a game.
IsWolf(g) == WolfFields \subseteq DOMAIN g

People(g) ==
  /\ IsWolf(g) /\ g.role \in RoleDeals /\ g.alive \in SUBSET W!Sides /\ g.cycle \in 1 .. MaxCycles

Dead(g) == Cardinality(W!Sides \ g.alive)

\* In the night of a cycle everybody who died did so in an earlier cycle, in its day one of
\* them in the night before.
AtNight(g) == g.phase \in {"NIGHT_WOLVES", "NIGHT_SEER"} /\ Dead(g) <= 2 * (g.cycle - 1)
ByDay(g)   == g.phase \in {"DAY_DISCUSSION", "DAY_VOTE"} /\ Dead(g) <= 2 * g.cycle - 1

\* The match goes on, and no team has won; or it is over, and the team that is said to have
\* won it has.
Playable(g) == g.status = "playing" /\ g.winner = "none"
WolfGoes(g) == Playable(g) /\ W!Won(g) = "none" /\ (AtNight(g) \/ ByDay(g))
WolfDone(g) ==
  /\ g.status = "finished" /\ g.winner \in {"DRAW", W!Won(g)} \ {"none"} /\ Dead(g) <= 2 * g.cycle

WolfOK(g) == People(g) /\ (WolfGoes(g) \/ WolfDone(g))

\* What a vote or a statement leaves alone.
Same(g, h) ==
  /\ IsWolf(h) /\ h.role = g.role /\ h.alive = g.alive /\ h.cycle = g.cycle
  /\ h.status = g.status /\ h.winner = g.winner

LEMMA WolfCounts == \A S : W!Cardinality(S) = Cardinality(S)
BY DEF W!Cardinality, Cardinality

LEMMA SameTeams ==
  ASSUME NEW g, NEW h, h.role = g.role, h.alive = g.alive
  PROVE  W!Wolves(h) = W!Wolves(g) /\ W!Others(h) = W!Others(g) /\ W!Won(h) = W!Won(g) /\ Dead(h) = Dead(g)
<1>1. W!Wolves(h) = W!Wolves(g)
  BY DEF W!Wolves
<1>2. W!Others(h) = W!Others(g)
  BY <1>1 DEF W!Others
<1> QED BY <1>1, <1>2 DEF W!Won, Dead

LEMMA SameGoesOn ==
  ASSUME NEW g, People(g), WolfGoes(g), NEW h, Same(g, h),
         \/ h.phase = g.phase
         \/ AtNight(g) /\ h.phase \in {"NIGHT_WOLVES", "NIGHT_SEER"}
         \/ ByDay(g) /\ h.phase \in {"DAY_DISCUSSION", "DAY_VOTE"}
  PROVE  WolfOK(h)
<1>1. W!Won(h) = W!Won(g) /\ Dead(h) = Dead(g)
  BY SameTeams DEF Same
<1>2. AtNight(h) \/ ByDay(h)
  BY <1>1 DEF WolfGoes, AtNight, ByDay, Same
<1>3. People(h) /\ Playable(h)
  BY DEF People, Same, WolfGoes, Playable
<1> QED BY <1>1, <1>2, <1>3 DEF WolfOK, WolfGoes

LEMMA DeadCount ==
  ASSUME NEW g, People(g)
  PROVE  /\ Dead(g) \in Nat
         /\ \A x : Cardinality(W!Sides \ (g.alive \ {x})) \in Nat
                   /\ Cardinality(W!Sides \ (g.alive \ {x})) <= Dead(g) + 1
<1> DEFINE dead == W!Sides \ g.alive
           n    == Cardinality(dead)
<1>1. IsFiniteSet(dead)
  BY RolesAssumption, FS_Subset
<1>2. n \in Nat
  BY <1>1, FS_CardinalityType
<1>3. ASSUME NEW x
      PROVE  /\ Cardinality(W!Sides \ (g.alive \ {x})) \in Nat
             /\ Cardinality(W!Sides \ (g.alive \ {x})) <= n + 1
  <2> DEFINE more == W!Sides \ (g.alive \ {x})
             m    == Cardinality(more)
  <2>1. more \subseteq dead \cup {x}
    OBVIOUS
  <2>2. IsFiniteSet(dead \cup {x}) /\ Cardinality(dead \cup {x}) \in {n, n + 1}
    <3> HIDE DEF dead
    <3>1. CASE x \in dead
      <4>1. dead \cup {x} = dead
        BY <3>1
      <4> QED BY <1>1, <4>1
    <3>2. CASE x \notin dead
      BY <1>1, <3>2, FS_AddElement
    <3> QED BY <3>1, <3>2
  <2>3. IsFiniteSet(more) /\ m <= Cardinality(dead \cup {x})
    BY <2>1, <2>2, FS_Subset
  <2>4. m \in Nat
    BY <2>3, FS_CardinalityType
  <2> HIDE DEF m, n
  <2>5. m <= n + 1
    <3> DEFINE c == Cardinality(dead \cup {x})
    <3>1. m <= c /\ c \in {n, n + 1} /\ m \in Nat /\ n \in Nat
      BY <1>2, <2>2, <2>3, <2>4
    <3> HIDE DEF c
    <3> QED BY <3>1
  <2> QED BY <2>4, <2>5 DEF m
<1> QED BY <1>2, <1>3 DEF Dead

\* Somebody dies, or nobody.
LEMMA OneDies ==
  ASSUME NEW g, People(g), NEW x
  PROVE  LET h == W!Killed(g, x)
         IN  /\ People(h) /\ h.alive = g.alive \ {x} /\ h.role = g.role /\ h.cycle = g.cycle
             /\ h.phase = g.phase /\ h.status = g.status /\ h.winner = g.winner
             /\ Dead(h) \in Nat /\ Dead(h) <= Dead(g) + 1
<1> DEFINE h == W!Killed(g, x)
<1>1. /\ IsWolf(h) /\ h.alive = g.alive \ {x} /\ h.role = g.role /\ h.cycle = g.cycle
      /\ h.phase = g.phase /\ h.status = g.status /\ h.winner = g.winner
  BY DEF W!Killed, People, IsWolf, WolfFields
<1> HIDE DEF h
<1>2. People(h)
  BY <1>1 DEF People
<1>3. Dead(h) \in Nat /\ Dead(h) <= Dead(g) + 1
  BY <1>1, DeadCount DEF Dead
<1> QED BY <1>1, <1>2, <1>3 DEF h

\* The end of a match.
LEMMA WolfEnds ==
  ASSUME NEW g, People(g), W!Won(g) # "none", Dead(g) <= 2 * g.cycle
  PROVE  WolfOK(W!Ended(g))
<1> DEFINE h == W!Ended(g)
<1>1. /\ IsWolf(h) /\ h.alive = g.alive /\ h.role = g.role /\ h.cycle = g.cycle
      /\ h.status = "finished" /\ h.winner = W!Won(g)
  BY DEF W!Ended, W!Finished, People, IsWolf, WolfFields
<1> HIDE DEF h
<1>2. W!Won(h) = W!Won(g) /\ Dead(h) = Dead(g) /\ People(h)
  BY <1>1, SameTeams DEF People
<1>3. WolfOK(h)
  BY <1>1, <1>2 DEF WolfOK, WolfDone
<1> QED BY <1>3 DEF h

LEMMA WolfDraws ==
  ASSUME NEW g, People(g), Dead(g) <= 2 * g.cycle
  PROVE  WolfOK(W!Finished([g EXCEPT !.winner = "DRAW"]))
<1> DEFINE h == W!Finished([g EXCEPT !.winner = "DRAW"])
<1>1. /\ IsWolf(h) /\ h.alive = g.alive /\ h.role = g.role /\ h.cycle = g.cycle
      /\ h.status = "finished" /\ h.winner = "DRAW"
  BY DEF W!Finished, People, IsWolf, WolfFields
<1> HIDE DEF h
<1>2. Dead(h) = Dead(g) /\ People(h)
  BY <1>1, SameTeams DEF People
<1>3. WolfOK(h)
  BY <1>1, <1>2 DEF WolfOK, WolfDone
<1> QED BY <1>3 DEF h

\* The night is over.
LEMMA DayKeepsTeams ==
  ASSUME NEW g, People(g), Playable(g), AtNight(g)
  PROVE  WolfOK(W!Day(g))
<1> DEFINE k == W!Killed(g, g.target)
           h == [k EXCEPT !.voted = {}, !.tally = W!NoVotes, !.target = W!None]
           d == [h EXCEPT !.phase = "DAY_DISCUSSION", !.talks = W!NoVotes, !.active = W!First(h.alive)]
<1>1. W!Day(g) = IF W!Won(h) # "none" THEN W!Ended(h) ELSE d
  BY DEF W!Day
<1>2. /\ People(k) /\ k.cycle = g.cycle /\ k.status = g.status /\ k.winner = g.winner
      /\ Dead(k) \in Nat /\ Dead(k) <= Dead(g) + 1
  BY OneDies
<1> HIDE DEF k
<1>3. Same(k, h)
  BY <1>2 DEF Same, People, IsWolf, WolfFields
<1> HIDE DEF h
<1>4. Same(h, d) /\ d.phase = "DAY_DISCUSSION"
  BY <1>3 DEF Same, IsWolf, WolfFields
<1> HIDE DEF d
<1>5. Dead(h) = Dead(k) /\ Dead(d) = Dead(k) /\ W!Won(d) = W!Won(h) /\ People(h) /\ People(d)
  BY <1>2, <1>3, <1>4, SameTeams DEF Same, People
<1>6. h.cycle = g.cycle /\ d.cycle = g.cycle /\ Playable(h) /\ Playable(d)
  BY <1>2, <1>3, <1>4 DEF Same, Playable
<1>7. Dead(k) <= 2 * g.cycle - 1 /\ Dead(k) <= 2 * g.cycle
  <2> DEFINE m == Dead(k)
             n == Dead(g)
             c == g.cycle
  <2>1. m \in Nat /\ n \in Nat /\ c \in Nat /\ m <= n + 1 /\ n <= 2 * (c - 1)
    BY <1>2, DeadCount DEF AtNight, People
  <2> HIDE DEF m, n, c
  <2>2. m <= 2 * c - 1 /\ m <= 2 * c
    BY <2>1
  <2> QED BY <2>2 DEF m, c
<1>8. CASE W!Won(h) # "none"
  <2>1. WolfOK(W!Ended(h))
    BY <1>5, <1>6, <1>7, <1>8, WolfEnds
  <2> QED BY <1>1, <1>8, <2>1
<1>9. CASE W!Won(h) = "none"
  <2>1. ByDay(d)
    BY <1>4, <1>5, <1>6, <1>7 DEF ByDay
  <2>2. WolfOK(d)
    BY <1>5, <1>6, <1>9, <2>1 DEF WolfOK, WolfGoes
  <2> QED BY <1>1, <1>9, <2>2
<1> QED BY <1>8, <1>9

LEMMA AfterWolvesKeepsTeams ==
  ASSUME NEW g, People(g), WolfGoes(g), AtNight(g)
  PROVE  WolfOK(W!AfterWolves(g))
<1> DEFINE seer == W!First(W!Seers(g))
           h    == [g EXCEPT !.phase = "NIGHT_SEER", !.active = seer]
<1>1. W!AfterWolves(g) = h \/ W!AfterWolves(g) = W!Day(g)
  BY DEF W!AfterWolves
<1>2. Same(g, h) /\ h.phase = "NIGHT_SEER"
  BY DEF People, Same, IsWolf, WolfFields
<1> HIDE DEF h
<1>3. WolfOK(h)
  BY <1>2, SameGoesOn
<1>4. WolfOK(W!Day(g))
  BY DayKeepsTeams DEF WolfGoes
<1> QED BY <1>1, <1>3, <1>4

\* The day is over.
LEMMA NightKeepsTeams ==
  ASSUME NEW g, People(g), Playable(g), Dead(g) <= 2 * g.cycle
  PROVE  WolfOK(W!Night(g))
<1> DEFINE h == [g EXCEPT !.voted = {}, !.tally = W!NoVotes]
           n == [h EXCEPT !.cycle = @ + 1, !.phase = "NIGHT_WOLVES", !.active = W!First(W!Wolves(h))]
<1>1. W!Night(g) = IF W!Won(h) # "none" THEN W!Ended(h)
                   ELSE IF h.cycle >= MaxCycles THEN W!Finished([h EXCEPT !.winner = "DRAW"]) ELSE n
  BY DEF W!Night
<1>2. Same(g, h)
  BY DEF People, Same, IsWolf, WolfFields
<1> HIDE DEF h
<1>3. People(h) /\ Playable(h) /\ Dead(h) = Dead(g) /\ h.cycle = g.cycle
  BY <1>2, SameTeams DEF Same, People, Playable
<1>4. /\ IsWolf(n) /\ n.role = h.role /\ n.alive = h.alive /\ n.cycle = h.cycle + 1
      /\ n.phase = "NIGHT_WOLVES" /\ n.status = h.status /\ n.winner = h.winner
  BY <1>3 DEF People, IsWolf, WolfFields
<1> HIDE DEF n
<1>5. W!Won(n) = W!Won(h) /\ Dead(n) = Dead(h)
  BY <1>4, SameTeams
<1>6. /\ Playable(n) /\ n.cycle - 1 = h.cycle
      /\ ~ (h.cycle >= MaxCycles) => People(n)
  <2>1. MaxCycles \in Nat /\ h.cycle \in 1 .. MaxCycles
    BY <1>3, RolesAssumption DEF People
  <2>2. n.cycle - 1 = h.cycle /\ (~ (h.cycle >= MaxCycles) => n.cycle \in 1 .. MaxCycles)
    BY <1>4, <2>1
  <2> QED BY <1>3, <1>4, <2>2 DEF People, Playable
<1>7. CASE W!Won(h) # "none"
  <2>1. WolfOK(W!Ended(h))
    BY <1>3, <1>7, WolfEnds
  <2> QED BY <1>1, <1>7, <2>1
<1>8. CASE W!Won(h) = "none"
  <2>1. AtNight(n)
    BY <1>3, <1>4, <1>5, <1>6 DEF AtNight
  <2>2. ~ (h.cycle >= MaxCycles) => WolfOK(n)
    BY <1>5, <1>6, <1>8, <2>1 DEF WolfOK, WolfGoes
  <2>3. WolfOK(W!Finished([h EXCEPT !.winner = "DRAW"]))
    BY <1>3, WolfDraws
  <2> QED BY <1>1, <1>8, <2>2, <2>3
<1> QED BY <1>7, <1>8

\* A vote.
LEMMA VoteKeepsTeams ==
  ASSUME NEW g, People(g), NEW side, NEW target
  PROVE  LET h == W!Voted(g, side, target)
         IN  /\ Same(g, h) /\ h.phase = g.phase
             /\ \A a : Same(g, [h EXCEPT !.active = a]) /\ [h EXCEPT !.active = a].phase = g.phase
             /\ \A a : Same(g, [h EXCEPT !.target = a]) /\ [h EXCEPT !.target = a].phase = g.phase
<1> DEFINE h == W!Voted(g, side, target)
<1>1. Same(g, h) /\ h.phase = g.phase
  BY DEF W!Voted, People, Same, IsWolf, WolfFields
<1> HIDE DEF h
<1>2. ASSUME NEW a
      PROVE  /\ Same(g, [h EXCEPT !.active = a]) /\ [h EXCEPT !.active = a].phase = g.phase
             /\ Same(g, [h EXCEPT !.target = a]) /\ [h EXCEPT !.target = a].phase = g.phase
  BY <1>1 DEF Same, IsWolf, WolfFields
<1> QED BY <1>1, <1>2 DEF h

LEMMA NightVoteKeepsTeams ==
  ASSUME NEW g, People(g), WolfGoes(g), AtNight(g), NEW side, NEW target,
         NEW n \in W!NightVote(g, side, target)
  PROVE  WolfOK(n)
<1> DEFINE h == W!Voted(g, side, target)
<1>1. \/ \E a : n = [h EXCEPT !.active = a]
      \/ \E t : n = W!AfterWolves([h EXCEPT !.target = t])
  BY DEF W!NightVote
<1>2. /\ \A a : Same(g, [h EXCEPT !.active = a]) /\ [h EXCEPT !.active = a].phase = g.phase
      /\ \A a : Same(g, [h EXCEPT !.target = a]) /\ [h EXCEPT !.target = a].phase = g.phase
  BY VoteKeepsTeams
<1> HIDE DEF h
<1>3. ASSUME NEW a, n = [h EXCEPT !.active = a] PROVE WolfOK(n)
  <2>1. Same(g, n) /\ n.phase = g.phase
    BY <1>2, <1>3
  <2> QED BY <2>1, SameGoesOn
<1>4. ASSUME NEW x, n = W!AfterWolves([h EXCEPT !.target = x]) PROVE WolfOK(n)
  <2> DEFINE k == [h EXCEPT !.target = x]
  <2>1. Same(g, k) /\ k.phase = g.phase
    BY <1>2
  <2> HIDE DEF k
  <2>2. W!Won(k) = W!Won(g) /\ Dead(k) = Dead(g)
    BY <2>1, SameTeams DEF Same
  <2>3. People(k) /\ WolfGoes(k) /\ AtNight(k)
    BY <2>1, <2>2 DEF Same, People, WolfGoes, Playable, AtNight
  <2>4. WolfOK(W!AfterWolves(k))
    BY <2>3, AfterWolvesKeepsTeams
  <2> QED BY <1>4, <2>4 DEF k
<1> QED BY <1>1, <1>3, <1>4

LEMMA DayVoteKeepsTeams ==
  ASSUME NEW g, People(g), WolfGoes(g), ByDay(g), NEW side, NEW target,
         NEW n \in W!DayVote(g, side, target)
  PROVE  WolfOK(n)
<1> DEFINE h == W!Voted(g, side, target)
<1>1. \/ \E a : n = [h EXCEPT !.active = a]
      \/ \E x : n = W!Night(W!Killed(h, x))
      \/ n = W!Night(h)
  BY DEF W!DayVote
<1>2. /\ Same(g, h) /\ h.phase = g.phase
      /\ \A a : Same(g, [h EXCEPT !.active = a]) /\ [h EXCEPT !.active = a].phase = g.phase
  BY VoteKeepsTeams
<1> HIDE DEF h
<1>3. ASSUME NEW a, n = [h EXCEPT !.active = a] PROVE WolfOK(n)
  <2>1. Same(g, n) /\ n.phase = g.phase
    BY <1>2, <1>3
  <2> QED BY <2>1, SameGoesOn
<1>4. People(h) /\ Playable(h) /\ Dead(h) = Dead(g) /\ h.cycle = g.cycle
  BY <1>2, SameTeams DEF Same, People, WolfGoes, Playable
<1>5. Dead(g) \in Nat /\ Dead(g) <= 2 * g.cycle - 1 /\ g.cycle \in Nat
  BY DeadCount DEF ByDay, People
<1>6. CASE n = W!Night(h)
  <2>1. Dead(h) <= 2 * h.cycle
    BY <1>4, <1>5
  <2> QED BY <1>4, <1>6, <2>1, NightKeepsTeams
<1>7. ASSUME NEW x, n = W!Night(W!Killed(h, x)) PROVE WolfOK(n)
  <2> DEFINE k == W!Killed(h, x)
  <2>1. /\ People(k) /\ k.cycle = h.cycle /\ k.status = h.status /\ k.winner = h.winner
        /\ Dead(k) \in Nat /\ Dead(k) <= Dead(h) + 1
    BY <1>4, OneDies
  <2> HIDE DEF k
  <2>2. Dead(k) <= 2 * k.cycle
    <3> DEFINE a == Dead(k)
               b == Dead(g)
               c == g.cycle
    <3>1. a \in Nat /\ b \in Nat /\ c \in Nat /\ a <= b + 1 /\ b <= 2 * c - 1
      BY <1>4, <1>5, <2>1
    <3> HIDE DEF a, b, c
    <3>2. a <= 2 * c
      BY <3>1
    <3> QED BY <1>4, <2>1, <3>2 DEF a, c
  <2>3. Playable(k)
    BY <1>4, <2>1 DEF Playable
  <2>4. WolfOK(W!Night(k))
    BY <2>1, <2>2, <2>3, NightKeepsTeams
  <2> QED BY <1>7, <2>4 DEF k
<1> QED BY <1>1, <1>3, <1>6, <1>7

LEMMA SayKeepsTeams ==
  ASSUME NEW g, People(g), WolfGoes(g), ByDay(g), NEW side, NEW n \in W!Say(g, side)
  PROVE  WolfOK(n)
<1> DEFINE h == [g EXCEPT !.talks[side] = @ + 1]
<1>1. \/ \E a : n = [h EXCEPT !.active = a]
      \/ \E a : n = [h EXCEPT !.phase = "DAY_VOTE", !.voted = {}, !.tally = W!NoVotes, !.active = a]
  BY DEF W!Say
<1>2. Same(g, h) /\ h.phase = g.phase
  BY DEF People, Same, IsWolf, WolfFields
<1> HIDE DEF h
<1>3. Same(g, n) /\ n.phase \in {g.phase, "DAY_VOTE"}
  BY <1>1, <1>2 DEF Same, IsWolf, WolfFields
<1> QED BY <1>3, SameGoesOn

LEMMA InvestigateKeepsTeams ==
  ASSUME NEW g, People(g), WolfGoes(g), AtNight(g), NEW target, NEW n \in W!Investigate(g, target)
  PROVE  WolfOK(n)
<1> DEFINE h == [g EXCEPT !.checked = @ \cup {target}]
<1>1. n = W!Day(h)
  BY DEF W!Investigate
<1>2. Same(g, h) /\ h.phase = g.phase
  BY DEF People, Same, IsWolf, WolfFields
<1> HIDE DEF h
<1>3. Dead(h) = Dead(g)
  BY <1>2, SameTeams DEF Same
<1>4. People(h) /\ Playable(h) /\ AtNight(h)
  BY <1>2, <1>3 DEF Same, People, WolfGoes, Playable, AtNight
<1> QED BY <1>1, <1>4, DayKeepsTeams

LEMMA ApplyKeepsTeams ==
  ASSUME NEW g, WolfOK(g), WolfGoes(g), NEW side, NEW action, NEW n \in W!Apply(g, side, action)
  PROVE  WolfOK(n)
<1>1. People(g) /\ (AtNight(g) \/ ByDay(g))
  BY DEF WolfOK, WolfGoes
<1>2. CASE g.phase = "NIGHT_WOLVES"
  <2>1. n \in W!NightVote(g, side, action) /\ AtNight(g)
    BY <1>1, <1>2 DEF W!Apply, AtNight, ByDay
  <2> QED BY <1>1, <2>1, NightVoteKeepsTeams
<1>3. CASE g.phase = "NIGHT_SEER"
  <2>1. n \in W!Investigate(g, action) /\ AtNight(g)
    BY <1>1, <1>3 DEF W!Apply, AtNight, ByDay
  <2> QED BY <1>1, <2>1, InvestigateKeepsTeams
<1>4. CASE g.phase = "DAY_DISCUSSION"
  <2>1. n \in W!Say(g, side) /\ ByDay(g)
    BY <1>1, <1>4 DEF W!Apply, AtNight, ByDay
  <2> QED BY <1>1, <2>1, SayKeepsTeams
<1>5. CASE g.phase = "DAY_VOTE"
  <2>1. n \in W!DayVote(g, side, action) /\ ByDay(g)
    BY <1>1, <1>5 DEF W!Apply, AtNight, ByDay
  <2> QED BY <1>1, <2>1, DayVoteKeepsTeams
<1> QED BY <1>1, <1>2, <1>3, <1>4, <1>5 DEF AtNight, ByDay

\* Any deal has both teams.
LEMMA TeamsMeet ==
  ASSUME NEW roles \in RoleDeals
  PROVE  LET wolves == {s \in W!Sides : roles[s] = "WEREWOLF"}
         IN  wolves # {} /\ W!Sides \ wolves # {}
<1> DEFINE wolves == {s \in W!Sides : roles[s] = "WEREWOLF"}
<1>1. wolves # {} /\ Cardinality(wolves) < Cardinality(W!Sides \ wolves)
  BY RolesAssumption
<1>2. IsFiniteSet(wolves)
  BY RolesAssumption, FS_Subset
<1>3. Cardinality(wolves) \in Nat /\ Cardinality({}) = 0
  BY <1>2, FS_CardinalityType, FS_EmptySet
<1> DEFINE n == Cardinality(wolves)
           rest == W!Sides \ wolves
<1>4. n \in Nat /\ n < Cardinality(rest)
  BY <1>1, <1>3
<1> HIDE DEF n, wolves, rest
<1>5. rest # {}
  <2> SUFFICES ASSUME rest = {} PROVE FALSE
    OBVIOUS
  <2>1. Cardinality(rest) = 0
    BY <1>3
  <2>2. n < 0
    BY <1>4, <2>1
  <2> QED BY <1>4, <2>2
<1> QED BY <1>1, <1>5 DEF wolves, rest

\* The side that is said to have won is of the team that has.
LEMMA RepresentativeOfTeam ==
  ASSUME NEW g, g.role \in RoleDeals, g.winner \in {"VILLAGERS", "WEREWOLVES"}
  PROVE  /\ Representative(g) \in W!Sides
         /\ g.role[Representative(g)] = "WEREWOLF" <=> g.winner = "WEREWOLVES"
<1> DEFINE team   == {s \in W!Sides : (g.role[s] = "WEREWOLF") = (g.winner = "WEREWOLVES")}
<1>1. team # {}
  BY TeamsMeet
<1>2. team \in SUBSET Int /\ IsFiniteSet(team) /\ team \in SUBSET W!Sides
  <2>1. team \in SUBSET W!Sides
    OBVIOUS
  <2>2. IsFiniteSet(W!Sides) /\ W!Sides \in SUBSET Nat
    BY RolesAssumption
  <2> HIDE DEF team
  <2>3. IsFiniteSet(team)
    BY ONLY <2>1, <2>2, FS_Subset
  <2> QED BY ONLY <2>1, <2>2, <2>3
<1>3. Representative(g) = Min(team)
  BY DEF Representative
<1>4. \A s \in team : (g.role[s] = "WEREWOLF") = (g.winner = "WEREWOLVES")
  OBVIOUS
<1> HIDE DEF team
<1>5. Representative(g) \in team
  BY <1>1, <1>2, <1>3, MinAndMax
<1> QED BY <1>2, <1>4, <1>5

\* While no team has won there are wolves and more others.
LEMMA TeamsLeft ==
  ASSUME NEW g, People(g)
  PROVE  LET wolves == W!Wolves(g)
             others == W!Others(g)
             ahead  == Cardinality(others) > Cardinality(wolves)
         IN  /\ W!Won(g) = "none" <=> wolves # {} /\ ahead
             /\ W!Won(g) = "VILLAGERS" <=> wolves = {}
             /\ W!Won(g) = "WEREWOLVES" <=> wolves # {} /\ ~ ahead
             /\ wolves \in SUBSET W!Sides /\ others \in SUBSET W!Sides
             /\ ahead => others # {}
<1> DEFINE wolves == W!Wolves(g)
           others == W!Others(g)
           w == Cardinality(wolves)
           v == Cardinality(others)
<1>1. wolves \in SUBSET W!Sides /\ others \in SUBSET W!Sides
  BY DEF W!Wolves, W!Others, People
<1>2. W!Won(g) = IF wolves = {} THEN "VILLAGERS" ELSE IF w >= v THEN "WEREWOLVES" ELSE "none"
  <2>1. W!Cardinality(wolves) = w /\ W!Cardinality(others) = v
    BY WolfCounts
  <2>2. W!Won(g) = IF wolves = {} THEN "VILLAGERS"
                   ELSE IF W!Cardinality(wolves) >= W!Cardinality(others) THEN "WEREWOLVES" ELSE "none"
    BY DEF W!Won
  <2> HIDE DEF w, v, wolves, others
  <2> QED BY ONLY <2>1, <2>2
<1> HIDE DEF wolves, others
<1>3. IsFiniteSet(wolves) /\ IsFiniteSet(others)
  BY <1>1, RolesAssumption, FS_Subset
<1>4. w \in Nat /\ v \in Nat
  BY <1>3, FS_CardinalityType
<1>5. v > w => others # {}
  <2> SUFFICES ASSUME others = {}, v > w PROVE FALSE
    OBVIOUS
  <2>1. v = 0
    BY FS_EmptySet
  <2> HIDE DEF v, w
  <2> QED BY <1>4, <2>1
<1> HIDE DEF v, w
<1>6. v > w <=> ~ (w >= v)
  BY <1>4
<1>7. /\ W!Won(g) = "none" <=> wolves # {} /\ v > w
      /\ W!Won(g) = "VILLAGERS" <=> wolves = {}
      /\ W!Won(g) = "WEREWOLVES" <=> wolves # {} /\ ~ (v > w)
  BY <1>2, <1>6
<1> QED BY <1>1, <1>5, <1>7 DEF wolves, others, v, w

WolfScores(g, t) ==
  /\ t.status = "active" => g.status = "playing" /\ t.why # "clock"
  /\ g.status = "finished" => t.winner = Representative(g)
  /\ t.why = "clock" => t.winner \in W!Others(g)

WolfInv == gameType = "werewolf" => WolfOK(game) /\ WolfScores(game, table)

LEMMA WolfBegins == LoopInit => WolfInv
<1> SUFFICES ASSUME LoopInit, gameType = "werewolf" PROVE WolfOK(game) /\ WolfScores(game, table)
  BY DEF WolfInv
<1>1. table.status = "active" /\ table.why = "none"
  BY DEF LoopInit
<1>2. PICK roles \in RoleDeals :
        \E a : game = [role |-> roles, alive |-> W!Sides, phase |-> "NIGHT_WOLVES", cycle |-> 1,
                       active |-> a, voted |-> {}, tally |-> W!NoVotes, target |-> W!None,
                       checked |-> {}, talks |-> W!NoVotes, status |-> "playing", winner |-> "none"]
  BY DEF LoopInit, Begins, WerewolfBegins, W!InitialStates
<1>3. /\ IsWolf(game) /\ game.role = roles /\ game.alive = W!Sides /\ game.phase = "NIGHT_WOLVES"
      /\ game.cycle = 1 /\ game.status = "playing" /\ game.winner = "none"
  BY <1>2 DEF IsWolf, WolfFields
<1>4. People(game) /\ Playable(game)
  BY <1>3, RolesAssumption DEF People, Playable
<1>5. W!Won(game) = "none"
  <2> DEFINE wolves == {s \in W!Sides : roles[s] = "WEREWOLF"}
  <2>1. wolves # {} /\ Cardinality(wolves) < Cardinality(W!Sides \ wolves)
    BY RolesAssumption
  <2>2. W!Wolves(game) = wolves /\ W!Others(game) = W!Sides \ wolves
    BY <1>3 DEF W!Wolves, W!Others
  <2> DEFINE m == Cardinality(wolves)
             n == Cardinality(W!Sides \ wolves)
  <2>3. m \in Nat /\ n \in Nat
    <3>1. IsFiniteSet(wolves) /\ IsFiniteSet(W!Sides \ wolves)
      BY RolesAssumption, FS_Subset
    <3> QED BY <3>1, FS_CardinalityType
  <2>4. m < n
    BY <2>1
  <2>5. n > m
    <3> HIDE DEF m, n
    <3> QED BY <2>3, <2>4
  <2> HIDE DEF wolves
  <2> QED BY <1>4, <2>1, <2>2, <2>5, TeamsLeft
<1>6. AtNight(game)
  <2>1. Dead(game) = 0
    <3>1. W!Sides \ game.alive = {}
      BY <1>3
    <3> QED BY <3>1, FS_EmptySet DEF Dead
  <2> QED BY <1>3, <2>1 DEF AtNight
<1> QED BY <1>1, <1>3, <1>4, <1>5, <1>6 DEF WolfOK, WolfGoes, WolfScores

LEMMA WolfTurnInv ==
  MissInv /\ WolfInv /\ WerewolfTurn => WolfOK(game') /\ WolfScores(game', table')
<1> SUFFICES ASSUME MissInv, WolfInv, WerewolfTurn PROVE WolfOK(game') /\ WolfScores(game', table')
  OBVIOUS
<1>1. gameType = "werewolf" /\ table.status = "active" /\ IsTable(table)
  BY DEF WerewolfTurn, Playing, MissInv, Kept
<1>2. WolfOK(game) /\ WolfGoes(game) /\ table.why # "clock"
  BY <1>1 DEF WolfInv, WolfOK, WolfDone, WolfScores
<1>3. PICK answered \in Answers :
        \E action : \E h \in W!Apply(game, game.active, action) :
          WerewolfNext(h, Asked(game.active, answered))
  BY DEF WerewolfTurn
<1>4. PICK action : \E h \in W!Apply(game, game.active, action) :
                      WerewolfNext(h, Asked(game.active, answered))
  BY <1>3
<1>5. PICK h \in W!Apply(game, game.active, action) : WerewolfNext(h, Asked(game.active, answered))
  BY <1>4
<1>6. WolfOK(h) /\ game' = h
  BY <1>2, <1>5, ApplyKeepsTeams DEF WerewolfNext
<1> DEFINE t    == Asked(game.active, answered)
           over == h.status = "finished"
           why  == IF h.winner = "DRAW" THEN "draw" ELSE "score"
           best == Representative(h)
<1>7. IsTable(t) /\ t.status = "active" /\ t.why # "clock"
  BY <1>1, <1>2, AskedTable, AskedWhy
<1>8. table' = Concluded(t, over, why, best) /\ why # "clock"
  BY <1>5 DEF WerewolfNext
<1> HIDE DEF t, why, best
<1>9. CASE over
  <2>1. table' = Ended(t, why, best)
    BY <1>8, <1>9 DEF Concluded
  <2>2. table'.status = "over" /\ table'.winner = best /\ table'.why = why
    BY <1>7, <2>1, EndedTable
  <2>3. WolfScores(h, table')
    BY <1>8, <2>2 DEF WolfScores, best
  <2> QED BY <1>6, <2>3
<1>10. CASE ~ over
  <2>1. (\E w : table' = Ended(t, "timeout", w)) \/ table' = [t EXCEPT !.seen = t.timeouts]
    BY <1>8, <1>10 DEF Concluded
  <2>2. table'.why # "clock"
    <3>1. ASSUME NEW w, table' = Ended(t, "timeout", w) PROVE table'.why # "clock"
      BY <1>7, <3>1, EndedTable
    <3>2. ASSUME table' = [t EXCEPT !.seen = t.timeouts] PROVE table'.why # "clock"
      BY <1>7, <3>2, TurnKeepsWhy
    <3> QED BY <2>1, <3>1, <3>2
  <2>3. h.status = "playing"
    BY <1>6, <1>10 DEF WolfOK, WolfGoes, WolfDone, Playable
  <2>4. WolfScores(h, table')
    BY <2>2, <2>3 DEF WolfScores
  <2> QED BY <1>6, <2>4
<1> QED BY <1>9, <1>10

LEMMA WolfClockInv ==
  MissInv /\ WolfInv /\ ClockFires /\ gameType = "werewolf" => WolfOK(game') /\ WolfScores(game', table')
<1> SUFFICES ASSUME MissInv, WolfInv, ClockFires, gameType = "werewolf"
             PROVE  WolfOK(game') /\ WolfScores(game', table')
  OBVIOUS
<1>1. IsTable(table) /\ game' = game /\ table.status = "active"
  BY DEF MissInv, Kept, ClockFires
<1>2. WolfOK(game) /\ WolfGoes(game) /\ People(game)
  BY <1>1 DEF WolfInv, WolfOK, WolfDone, WolfScores
<1> DEFINE others == W!Others(game)
           best   == IF others = {} THEN -1 ELSE Min(others)
<1>3. table' = Ended(table, "clock", best)
  BY DEF ClockFires, OnTime
<1>4. others # {} /\ others \in SUBSET Int /\ IsFiniteSet(others)
  <2>1. others # {} /\ others \in SUBSET W!Sides
    BY <1>2, TeamsLeft DEF WolfGoes
  <2>2. IsFiniteSet(W!Sides) /\ W!Sides \in SUBSET Nat
    BY RolesAssumption
  <2> HIDE DEF others
  <2>3. IsFiniteSet(others)
    BY ONLY <2>1, <2>2, FS_Subset
  <2> QED BY ONLY <2>1, <2>2, <2>3
<1> HIDE DEF others
<1>5. best \in others
  BY <1>4, MinAndMax
<1> HIDE DEF best
<1>6. table'.status = "over" /\ table'.why = "clock" /\ table'.winner = best
  BY <1>1, <1>3, EndedTable
<1>7. game.status = "playing"
  BY <1>2 DEF WolfGoes, Playable
<1> QED BY <1>1, <1>2, <1>5, <1>6, <1>7 DEF WolfScores, others

LEMMA WolfInvStep == MissInv /\ WolfInv /\ [LoopNext]_allVars => WolfInv'
<1> SUFFICES ASSUME MissInv, WolfInv, [LoopNext]_allVars, gameType' = "werewolf"
             PROVE  WolfOK(game') /\ WolfScores(game', table')
  BY DEF WolfInv
<1>1. CASE Turn \/ ClockFires
  <2>1. gameType = "werewolf" /\ (WerewolfTurn \/ ClockFires)
    BY <1>1 DEF Turn, UnoTurn, UnoFollowUp, Game2048Turn, WerewolfTurn, MkOrient, MkBorder,
                MkTribute, MkPlace, RpsRound, RpsRevealed, ChessTurn, ChessOver, BoardTurn,
                ClockFires, Playing
  <2> QED BY <2>1, WolfTurnInv, WolfClockInv
<1>2. CASE PokerStep \/ Over \/ UNCHANGED allVars
  <2>1. gameType' = gameType /\ game' = game /\ table' = table
    BY <1>2 DEF PokerStep, Over, allVars, loopVars
  <2> QED BY <2>1 DEF WolfInv
<1> QED BY <1>1, <1>2 DEF LoopNext

THEOREM WolfInvHolds == LoopSpec => []WolfInv
<1>1. MissInv /\ WolfInv /\ [LoopNext]_allVars => (MissInv /\ WolfInv)'
  BY MissInvStep, WolfInvStep
<1> QED BY <1>1, MissInvInit, WolfBegins, PTL DEF LoopSpec

\* Werewolf, for any deal in which there are wolves and fewer than others: the team that has
\* won has won on the table, and while the match goes on neither has.
THEOREM TeamsDecideHolds == LoopSpec => []TeamsDecide
<1>1. WolfInv => TeamsDecide
  <2> SUFFICES ASSUME WolfInv, gameType = "werewolf" PROVE TeamsDecide
    BY DEF TeamsDecide, OfType
  <2> DEFINE wolves == W!Wolves(game)
             others == W!Others(game)
             ahead  == Cardinality(others) > Cardinality(wolves)
  <2>1. WolfOK(game) /\ WolfScores(game, table) /\ People(game)
    BY DEF WolfInv, WolfOK
  <2>2. /\ W!Won(game) = "none" <=> wolves # {} /\ ahead
        /\ W!Won(game) = "VILLAGERS" <=> wolves = {}
        /\ W!Won(game) = "WEREWOLVES" <=> wolves # {} /\ ~ ahead
    BY <2>1, TeamsLeft
  <2>3. game.status = "playing" => W!Won(game) = "none"
    BY <2>1 DEF WolfOK, WolfGoes, WolfDone
  <2>4. game.winner \in {"VILLAGERS", "WEREWOLVES"}
          => W!Won(game) = game.winner /\ table.winner = Representative(game)
    BY <2>1 DEF WolfOK, WolfGoes, WolfDone, Playable, WolfScores
  <2>5. game.winner \in {"VILLAGERS", "WEREWOLVES"}
          => (game.role[table.winner] = "WEREWOLF" <=> game.winner = "WEREWOLVES")
    BY <2>1, <2>4, RepresentativeOfTeam DEF People
  <2>6. table.why = "clock" => table.winner \in others
    BY <2>1 DEF WolfScores
  <2>7. Cardinality(W!Sides \ game.alive) <= 2 * game.cycle
    <3> DEFINE n == Dead(game)
               c == game.cycle
    <3>1. n \in Nat /\ c \in Nat /\ (n <= 2 * (c - 1) \/ n <= 2 * c - 1 \/ n <= 2 * c)
      BY <2>1, DeadCount DEF WolfOK, WolfGoes, WolfDone, AtNight, ByDay, People
    <3> HIDE DEF n, c
    <3>2. n <= 2 * c
      BY <3>1
    <3> QED BY <3>2 DEF n, c, Dead
  <2> HIDE DEF wolves, others, ahead
  <2>8. /\ game.status = "playing" => wolves # {} /\ ahead
        /\ game.winner = "VILLAGERS" => wolves = {} /\ game.role[table.winner] # "WEREWOLF"
        /\ game.winner = "WEREWOLVES" => wolves # {} /\ ~ ahead
                                         /\ game.role[table.winner] = "WEREWOLF"
    BY <2>2, <2>3, <2>4, <2>5
  <2> QED BY <2>6, <2>7, <2>8 DEF TeamsDecide, OfType, wolves, others, ahead
<1> QED BY <1>1, WolfInvHolds, PTL

-----------------------------------------------------------------------------
(* Marrakech: dirhams, carpets and who is ahead *)

MkFields == {"board", "pos", "dir", "left", "dirhams", "carpets", "eliminated", "current", "phase",
             "winner"}
IsMk(g) == MkFields \subseteq DOMAIN g

\* The assam is on the board.
OnBoard(g) == g.pos \in M!Cells /\ g.dir \in M!Directions /\ g.left \in Nat

\* What the two sides have: no dirham comes into being or is lost, and a side is out that
\* has none.
Purses(g) ==
  /\ IsMk(g) /\ OnBoard(g) /\ g.current \in {0, 1}
  /\ g.dirhams \in [{0, 1} -> Nat] /\ g.carpets \in [{0, 1} -> Nat]
  /\ g.dirhams[0] + g.dirhams[1] = 2 * MkDirhams
  /\ g.eliminated \subseteq {0, 1} /\ \A p \in {0, 1} : g.dirhams[p] = 0 <=> p \in g.eliminated

\* The match goes on with both sides, and whose turn it is has a carpet; or it is over and
\* won by the side that is left, or by one that no other exceeds.
MkGoes(g) ==
  /\ g.phase \in {"orient", "borderChoice", "tribute", "place"} /\ g.winner = -1
  /\ g.eliminated = {} /\ g.carpets[g.current] > 0
  /\ g.phase = "borderChoice" => g.left > 0

NotBehind(g, p) == M!Total(g, p) >= M!Total(g, 1 - p)

MkDone(g) ==
  /\ g.phase = "gameOver" /\ g.winner \in {0, 1} \ g.eliminated
  /\ g.eliminated = {} => g.carpets = [p \in {0, 1} |-> 0] /\ NotBehind(g, g.winner)

MkOK(g) == Purses(g) /\ (MkGoes(g) \/ MkDone(g))

\* What a move of the assam leaves alone.
Moved(g, h) ==
  /\ IsMk(h) /\ h.board = g.board /\ h.dirhams = g.dirhams /\ h.carpets = g.carpets
  /\ h.eliminated = g.eliminated /\ h.current = g.current /\ h.winner = g.winner

LEMMA MkNames == M!Ids = {0, 1} /\ (\A S : M!Min(S) = Min(S)) /\ (\A S : M!Cardinality(S) = Cardinality(S))
<1>1. M!Ids = {0, 1}
  BY DEF M!Ids
<1>2. \A S : M!Min(S) = Min(S)
  BY DEF M!Min, Min
<1>3. \A S : M!Cardinality(S) = Cardinality(S)
  BY DEF M!Cardinality, Cardinality
<1> QED BY <1>1, <1>2, <1>3

LEMMA CellsFinite == IsFiniteSet(M!Cells)
<1>1. IsFiniteSet(1 .. MkSize)
  BY MkAssumption, FS_Interval
<1> QED BY <1>1, FS_Product DEF M!Cells

LEMMA MinOfTwo ==
  ASSUME NEW a \in Int, NEW b \in Int
  PROVE  Min({a, b}) = IF a <= b THEN a ELSE b
<1>1. {a, b} \in SUBSET Int /\ {a, b} # {} /\ IsFiniteSet({a, b})
  <2>1. {a, b} = {a} \cup {b}
    OBVIOUS
  <2>2. IsFiniteSet({a}) /\ IsFiniteSet({b})
    BY FS_Singleton
  <2>3. IsFiniteSet({a, b})
    BY <2>1, <2>2, FS_Union
  <2> QED BY <2>3
<1>2. Min({a, b}) \in {a, b} /\ \A x \in {a, b} : Min({a, b}) <= x
  BY <1>1, MinAndMax
<1> DEFINE m == Min({a, b})
<1>3. (m = a \/ m = b) /\ m <= a /\ m <= b
  BY <1>2
<1> HIDE DEF m
<1>4. m = IF a <= b THEN a ELSE b
  BY <1>3
<1> QED BY <1>4 DEF m

\* The assam walks to the border or as far as he has to.
LEMMA AssamMoves ==
  ASSUME NEW g, IsMk(g), g.pos \in M!Cells, g.dir \in M!Directions, NEW steps \in Nat
  PROVE  LET h == M!MovedAssam(g, steps)
         IN  /\ Moved(g, h) /\ OnBoard(h)
             /\ h.phase = "tribute" \/ (h.phase = "borderChoice" /\ h.left > 0)
<1> DEFINE x == g.pos[1]
           y == g.pos[2]
           room == CASE g.dir = "N" -> g.pos[1] - 1 [] g.dir = "S" -> MkSize - g.pos[1]
                     [] g.dir = "W" -> g.pos[2] - 1 [] g.dir = "E" -> MkSize - g.pos[2]
           n   == M!Min({steps, room})
           v   == M!Vector[g.dir]
           to  == <<g.pos[1] + n * v[1], g.pos[2] + n * v[2]>>
           rest == steps - n
           next == IF n < steps THEN "borderChoice" ELSE "tribute"
           h   == [g EXCEPT !.pos = to, !.left = rest, !.phase = next]
<1>1. M!MovedAssam(g, steps) = h
  BY DEF M!MovedAssam
<1>2. x \in 1 .. MkSize /\ y \in 1 .. MkSize /\ g.pos = <<x, y>>
  BY DEF M!Cells
<1>3. g.dir \in {"N", "S", "E", "W"}
  BY DEF M!Directions, M!Vector
<1>4. room \in Nat /\ MkSize \in Nat
  BY <1>2, <1>3, MkAssumption
<1>5. n = IF steps <= room THEN steps ELSE room
  <2> HIDE DEF room
  <2>1. n = Min({steps, room})
    BY MkNames
  <2>2. Min({steps, room}) = IF steps <= room THEN steps ELSE room
    BY <1>4, MinOfTwo
  <2> QED BY <2>1, <2>2
<1>6. n \in Nat /\ n <= steps /\ n <= room
  <2> HIDE DEF room, n
  <2> QED BY <1>4, <1>5
<1>7. to \in M!Cells
  <2>1. \/ g.dir = "N" /\ room = x - 1 /\ v[1] = -1 /\ v[2] = 0
        \/ g.dir = "S" /\ room = MkSize - x /\ v[1] = 1 /\ v[2] = 0
        \/ g.dir = "E" /\ room = MkSize - y /\ v[1] = 0 /\ v[2] = 1
        \/ g.dir = "W" /\ room = y - 1 /\ v[1] = 0 /\ v[2] = -1
    <3> HIDE DEF n, to, rest, next
    <3> QED BY <1>3 DEF M!Vector
  <2> DEFINE a == x + n * v[1]
             b == y + n * v[2]
  <2>2. to = <<a, b>>
    OBVIOUS
  <2> HIDE DEF n, v, room, x, y, to
  <2>3. a \in 1 .. MkSize /\ b \in 1 .. MkSize
    BY <1>2, <1>4, <1>6, <2>1
  <2> HIDE DEF a, b
  <2> QED BY <2>2, <2>3 DEF M!Cells
<1>8. rest \in Nat /\ (next = "tribute" \/ (next = "borderChoice" /\ rest > 0))
  <2> HIDE DEF n
  <2> QED BY <1>6
<1> HIDE DEF to, rest, next
<1>9. /\ Moved(g, h) /\ OnBoard(h)
      /\ h.phase = "tribute" \/ (h.phase = "borderChoice" /\ h.left > 0)
  <2>1. /\ h.pos = to /\ h.left = rest /\ h.phase = next /\ h.dir = g.dir
        /\ IsMk(h) /\ h.board = g.board /\ h.dirhams = g.dirhams /\ h.carpets = g.carpets
        /\ h.eliminated = g.eliminated /\ h.current = g.current /\ h.winner = g.winner
    BY DEF IsMk, MkFields
  <2> HIDE DEF h
  <2> QED BY <1>7, <1>8, <2>1 DEF Moved, OnBoard
<1> QED BY <1>1, <1>9

LEMMA MovedKeepsPurses ==
  ASSUME NEW g, Purses(g), MkGoes(g), NEW h, Moved(g, h), OnBoard(h),
         h.phase = "tribute" \/ (h.phase = "borderChoice" /\ h.left > 0)
  PROVE  Purses(h) /\ MkGoes(h)
BY DEF Purses, MkGoes, Moved

LEMMA OrientKeepsPurses ==
  ASSUME NEW g, Purses(g), MkGoes(g), NEW dir \in M!ValidDirections(g), NEW steps \in MkDice
  PROVE  LET h == M!OrientAndRoll(g, dir, steps)
         IN  Purses(h) /\ MkGoes(h) /\ h.phase # "orient"
<1> DEFINE k == [g EXCEPT !.dir = dir]
           h == M!MovedAssam(k, steps)
<1>1. M!OrientAndRoll(g, dir, steps) = h
  BY DEF M!OrientAndRoll
<1>2. dir \in M!Directions /\ steps \in Nat
  BY MkAssumption DEF M!ValidDirections
<1>3. Moved(g, k) /\ k.pos = g.pos /\ k.dir = dir
  BY DEF Purses, Moved, IsMk, MkFields
<1> HIDE DEF k
<1>4. k.pos \in M!Cells /\ IsMk(k)
  BY <1>3 DEF Purses, OnBoard, Moved
<1>5. /\ Moved(k, h) /\ OnBoard(h)
      /\ h.phase = "tribute" \/ (h.phase = "borderChoice" /\ h.left > 0)
  BY <1>2, <1>3, <1>4, AssamMoves
<1> HIDE DEF h
<1>6. Moved(g, h)
  BY <1>3, <1>5 DEF Moved
<1>7. Purses(h) /\ MkGoes(h)
  BY <1>5, <1>6, MovedKeepsPurses
<1> QED BY <1>1, <1>5, <1>7

LEMMA BorderKeepsPurses ==
  ASSUME NEW g, Purses(g), MkGoes(g), g.phase = "borderChoice", NEW dir \in M!BorderOptions(g)
  PROVE  LET h == M!ChooseBorder(g, dir)
         IN  Purses(h) /\ MkGoes(h) /\ h.phase # "orient"
<1> DEFINE to == M!Towards(g.pos, dir)
           back == M!Opposite[g.dir]
           k == [g EXCEPT !.pos = to, !.dir = back]
           steps == g.left - 1
           h == M!MovedAssam(k, steps)
<1>1. M!ChooseBorder(g, dir) = h
  BY DEF M!ChooseBorder
<1>2. to \in M!Cells
  BY DEF M!BorderOptions
<1>3. back \in M!Directions
  BY DEF Purses, OnBoard, M!Directions, M!Vector, M!Opposite
<1>4. steps \in Nat
  BY DEF Purses, OnBoard, MkGoes
<1> HIDE DEF to, back, steps
<1>5. Moved(g, k) /\ k.pos = to /\ k.dir = back
  BY DEF Purses, Moved, IsMk, MkFields
<1> HIDE DEF k
<1>6. IsMk(k)
  BY <1>5 DEF Moved
<1>7. /\ Moved(k, h) /\ OnBoard(h)
      /\ h.phase = "tribute" \/ (h.phase = "borderChoice" /\ h.left > 0)
  BY <1>2, <1>3, <1>4, <1>5, <1>6, AssamMoves
<1> HIDE DEF h
<1>8. Moved(g, h)
  BY <1>5, <1>7 DEF Moved
<1>9. Purses(h) /\ MkGoes(h)
  BY <1>7, <1>8, MovedKeepsPurses
<1> QED BY <1>1, <1>7, <1>9

\* Cells and dirhams are counted.
LEMMA TotalType ==
  ASSUME NEW g, g.dirhams \in [{0, 1} -> Nat], NEW p \in {0, 1}
  PROVE  M!Total(g, p) \in Nat
<1> DEFINE mine == {c \in M!Cells : g.board[c].player = p}
           n == Cardinality(mine)
<1>1. M!Total(g, p) = g.dirhams[p] + n
  BY MkNames DEF M!Total, M!Visible
<1>2. IsFiniteSet(mine)
  <2>1. mine \subseteq M!Cells
    OBVIOUS
  <2> HIDE DEF mine
  <2> QED BY <2>1, CellsFinite, FS_Subset
<1>3. n \in Nat
  BY <1>2, FS_CardinalityType
<1> HIDE DEF n, mine
<1> QED BY <1>1, <1>3

\* The scores are decided between two sides.
LEMMA ScoresDecide ==
  ASSUME NEW g, Purses(g), g.carpets[0] = 0, g.carpets[1] = 0, g.eliminated = {}
  PROVE  MkOK(M!Scored(g)) /\ M!Scored(g).phase = "gameOver"
<1> DEFINE best == CHOOSE p \in M!Ids : \A q \in M!Ids \ {p} : M!Leads(g, p, q)
           h == [g EXCEPT !.phase = "gameOver", !.winner = best]
           a == M!Total(g, 0)
           b == M!Total(g, 1)
           x == g.dirhams[0]
           y == g.dirhams[1]
<1>1. M!Scored(g) = h
  BY DEF M!Scored
<1>2. a \in Nat /\ b \in Nat /\ x \in Nat /\ y \in Nat
  BY TotalType DEF Purses
<1>3. /\ M!Leads(g, 0, 1) <=> a > b \/ (a = b /\ x > y) \/ (a = b /\ x = y)
      /\ M!Leads(g, 1, 0) <=> b > a \/ (b = a /\ y > x)
  BY DEF M!Leads
<1>4. M!Leads(g, 0, 1) \/ M!Leads(g, 1, 0)
  <2> HIDE DEF a, b, x, y
  <2> QED BY <1>2, <1>3
<1>5. \E p \in M!Ids : \A q \in M!Ids \ {p} : M!Leads(g, p, q)
  BY <1>4, MkNames
<1>6. best \in {0, 1} /\ \A q \in {0, 1} \ {best} : M!Leads(g, best, q)
  BY <1>5, MkNames
<1> HIDE DEF best
<1>7. NotBehind(g, best)
  <2>1. CASE best = 0
    <3>1. M!Leads(g, 0, 1)
      BY <1>6, <2>1
    <3>2. a >= b
      <4> HIDE DEF a, b, x, y
      <4> QED BY <1>2, <1>3, <3>1
    <3> QED BY <2>1, <3>2 DEF NotBehind
  <2>2. CASE best = 1
    <3>1. M!Leads(g, 1, 0)
      BY <1>6, <2>2
    <3>2. b >= a
      <4> HIDE DEF a, b, x, y
      <4> QED BY <1>2, <1>3, <3>1
    <3> QED BY <2>2, <3>2 DEF NotBehind
  <2> QED BY <1>6, <2>1, <2>2
<1>8. /\ IsMk(h) /\ h.board = g.board /\ h.dirhams = g.dirhams /\ h.carpets = g.carpets
      /\ h.eliminated = g.eliminated /\ h.current = g.current /\ h.winner = best
      /\ h.phase = "gameOver" /\ h.pos = g.pos /\ h.dir = g.dir /\ h.left = g.left
  BY DEF Purses, IsMk, MkFields
<1> HIDE DEF h
<1>9. Purses(h)
  BY <1>8 DEF Purses, OnBoard
<1>10. \A p : M!Total(h, p) = M!Total(g, p)
  BY <1>8 DEF M!Total, M!Visible
<1>11. NotBehind(h, best)
  BY <1>7, <1>10 DEF NotBehind
<1>12. h.carpets = [p \in {0, 1} |-> 0]
  BY <1>8 DEF Purses
<1>13. MkDone(h)
  BY <1>6, <1>8, <1>11, <1>12 DEF MkDone
<1> QED BY <1>1, <1>8, <1>9, <1>13 DEF MkOK

\* The next turn, or the end.
LEMMA AdvanceKeepsPurses ==
  ASSUME NEW g, Purses(g), g.eliminated = {}, g.winner = -1
  PROVE  LET h == M!Advance(g)
         IN  /\ MkOK(h) /\ h.phase \in {"orient", "gameOver"}
<1> DEFINE seat(k) == (g.current + k) % 2
           out     == {k \in 1 .. 2 : seat(k) \notin g.eliminated}
           first   == IF out = {} THEN 1 ELSE M!Min(out)
           ready   == {k \in first .. first + 2 : seat(k) \in g.eliminated \/ g.carpets[seat(k)] > 0}
           next    == seat(M!Min(ready))
           h       == [g EXCEPT !.phase = "orient", !.current = next]
<1>1. M!Advance(g) = IF \A p \in M!Ids : p \in g.eliminated \/ g.carpets[p] = 0 THEN M!Scored(g) ELSE h
  BY DEF M!Advance
<1>2. CASE \A p \in M!Ids : p \in g.eliminated \/ g.carpets[p] = 0
  <2>1. g.carpets[0] = 0 /\ g.carpets[1] = 0
    BY <1>2, MkNames
  <2>2. MkOK(M!Scored(g)) /\ M!Scored(g).phase = "gameOver"
    BY <2>1, ScoresDecide
  <2> QED BY <1>1, <1>2, <2>2
<1>3. CASE ~ (\A p \in M!Ids : p \in g.eliminated \/ g.carpets[p] = 0)
  <2>1. PICK p \in {0, 1} : g.carpets[p] > 0
    BY <1>3, MkNames DEF Purses
  <2>2. first = 1
    <3>1. out = {1, 2}
      <4>1. out = 1 .. 2
        OBVIOUS
      <4> QED BY <4>1
    <3>2. M!Min({1, 2}) = 1
      BY MkNames, MinOfTwo
    <3> HIDE DEF out
    <3> QED BY <3>1, <3>2
  <2>3. \A k \in 1 .. 3 : seat(k) \in {0, 1}
    BY DEF Purses
  <2> HIDE DEF first
  <2>4. ready = {k \in 1 .. 3 : g.carpets[seat(k)] > 0}
    BY <2>2
  <2>5. ready \in SUBSET Int /\ IsFiniteSet(ready) /\ ready # {}
    <3>1. ready \in SUBSET (1 .. 3)
      BY <2>4
    <3>2. ready # {}
      <4>1. seat(1) = p \/ seat(2) = p
        BY <2>1 DEF Purses
      <4> QED BY <2>1, <2>4, <4>1
    <3>3. IsFiniteSet(1 .. 3)
      <4> DEFINE x == 1
                 y == 3
      <4>1. x \in Int /\ y \in Int
        OBVIOUS
      <4> HIDE DEF x, y
      <4>2. IsFiniteSet(x .. y)
        BY ONLY <4>1, FS_Interval
      <4> QED BY ONLY <4>2 DEF x, y
    <3> HIDE DEF ready
    <3>4. IsFiniteSet(ready)
      BY ONLY <3>1, <3>3, FS_Subset
    <3> QED BY <3>1, <3>2, <3>4
  <2> DEFINE k == Min(ready)
  <2>6. k \in ready /\ next = seat(k)
    <3>1. M!Min(ready) = k
      BY MkNames
    <3> HIDE DEF ready
    <3> QED BY <2>5, <3>1, MinAndMax
  <2>7. next \in {0, 1} /\ g.carpets[next] > 0
    <3> HIDE DEF k
    <3> QED BY <2>3, <2>4, <2>6
  <2> HIDE DEF next
  <2>8. /\ IsMk(h) /\ h.board = g.board /\ h.dirhams = g.dirhams /\ h.carpets = g.carpets
        /\ h.eliminated = g.eliminated /\ h.current = next /\ h.winner = g.winner
        /\ h.phase = "orient" /\ h.pos = g.pos /\ h.dir = g.dir /\ h.left = g.left
    BY DEF Purses, IsMk, MkFields
  <2> HIDE DEF h
  <2>9. Purses(h)
    BY <2>7, <2>8 DEF Purses, OnBoard
  <2>10. MkGoes(h)
    BY <2>7, <2>8 DEF MkGoes
  <2> QED BY <1>1, <1>3, <2>8, <2>9, <2>10 DEF MkOK
<1> QED BY <1>2, <1>3

\* A carpet is laid.
LEMMA PlaceKeepsPurses ==
  ASSUME NEW g, Purses(g), MkGoes(g), NEW cells
  PROVE  LET h == M!Place(g, cells)
         IN  MkOK(h) /\ h.phase \in {"orient", "gameOver"}
<1> DEFINE laid == [player |-> g.current, carpet |-> {cells[1], cells[2]}]
           board == [c \in M!Cells |->
                       IF c \in laid.carpet THEN laid
                       ELSE IF g.board[c].carpet \cap laid.carpet = {} THEN g.board[c]
                       ELSE [g.board[c] EXCEPT !.carpet = {}]]
           rest == [g.carpets EXCEPT ![g.current] = @ - 1]
           k == [g EXCEPT !.carpets = rest, !.board = board]
<1>1. M!Place(g, cells) = IF \A p \in M!Ids : p \in k.eliminated \/ k.carpets[p] = 0 THEN M!Scored(k)
                          ELSE M!Advance(k)
  BY DEF M!Place
<1>2. rest \in [{0, 1} -> Nat]
  BY DEF Purses, MkGoes
<1> HIDE DEF rest, board
<1>3. /\ IsMk(k) /\ k.dirhams = g.dirhams /\ k.carpets = rest
      /\ k.eliminated = g.eliminated /\ k.current = g.current /\ k.winner = g.winner
      /\ k.phase = g.phase /\ k.pos = g.pos /\ k.dir = g.dir /\ k.left = g.left
  BY DEF Purses, IsMk, MkFields
<1> HIDE DEF k
<1>4. Purses(k) /\ k.eliminated = {} /\ k.winner = -1
  BY <1>2, <1>3 DEF Purses, OnBoard, MkGoes
<1>5. CASE \A p \in M!Ids : p \in k.eliminated \/ k.carpets[p] = 0
  <2>1. k.carpets[0] = 0 /\ k.carpets[1] = 0
    BY <1>4, <1>5, MkNames
  <2>2. MkOK(M!Scored(k)) /\ M!Scored(k).phase = "gameOver"
    BY <1>4, <2>1, ScoresDecide
  <2> QED BY <1>1, <1>5, <2>2
<1>6. CASE ~ (\A p \in M!Ids : p \in k.eliminated \/ k.carpets[p] = 0)
  BY <1>1, <1>4, <1>6, AdvanceKeepsPurses
<1> QED BY <1>5, <1>6

\* A function that is applied again and again.
Iterates(f, D, F, start, N) ==
  f \in [0 .. N -> D] /\ f[0] = start /\ \A n \in 1 .. N : f[n] = F[f[n - 1]]

LEMMA IteratesExist ==
  ASSUME NEW D, NEW F \in [D -> D], NEW start \in D, NEW N \in Nat
  PROVE  \E f : Iterates(f, D, F, start, N)
<1> DEFINE Good(k) == \E f \in [0 .. k -> D] : f[0] = start /\ \A n \in 1 .. k : f[n] = F[f[n - 1]]
           Bad == {k \in 0 .. N : ~ Good(k)}
<1>1. Bad = {}
  <2> SUFFICES ASSUME Bad # {} PROVE FALSE
    OBVIOUS
  <2>1. Bad \in SUBSET (0 .. N) /\ Bad \in SUBSET Int
    <3> HIDE DEF Good
    <3> QED OBVIOUS
  <2>2. IsFiniteSet(0 .. N)
    <3> DEFINE zero == 0
    <3>1. zero \in Int /\ N \in Int
      OBVIOUS
    <3> HIDE DEF zero
    <3>2. IsFiniteSet(zero .. N)
      BY ONLY <3>1, FS_Interval
    <3> QED BY ONLY <3>2 DEF zero
  <2>3. PICK m \in Bad : \A k \in Bad : m <= k
    <3> HIDE DEF Bad
    <3>1. IsFiniteSet(Bad)
      BY ONLY <2>1, <2>2, FS_Subset
    <3> QED BY <2>1, <3>1, MostExists
  <2>4. m \in 0 .. N /\ ~ Good(m) /\ \A k \in 0 .. N : k < m => Good(k)
    <3> HIDE DEF Good
    <3>1. \A k \in 0 .. N : k \notin Bad => Good(k)
      OBVIOUS
    <3>2. m \in 0 .. N /\ ~ Good(m)
      OBVIOUS
    <3> HIDE DEF Bad
    <3> QED BY <2>3, <3>1, <3>2
  <2>5. m # 0
    <3>1. Good(0)
      <4> DEFINE f == [n \in 0 .. 0 |-> start]
      <4>1. f \in [0 .. 0 -> D] /\ f[0] = start /\ \A n \in 1 .. 0 : f[n] = F[f[n - 1]]
        OBVIOUS
      <4> QED BY <4>1
    <3> HIDE DEF Good
    <3> QED BY <2>4, <3>1
  <2>6. m - 1 \in 0 .. N /\ m - 1 < m /\ m \in Nat
    BY <2>4, <2>5
  <2>7. PICK f \in [0 .. m - 1 -> D] : f[0] = start /\ \A n \in 1 .. m - 1 : f[n] = F[f[n - 1]]
    BY <2>4, <2>6
  <2> DEFINE h == [n \in 0 .. m |-> IF n = m THEN F[f[m - 1]] ELSE f[n]]
  <2>8. f[m - 1] \in D /\ F[f[m - 1]] \in D
    BY <2>5, <2>6, <2>7
  <2>9. h \in [0 .. m -> D]
    <3>1. \A n \in 0 .. m : n = m \/ n \in 0 .. m - 1
      BY <2>6
    <3> QED BY <2>7, <2>8, <3>1
  <2>10. h[0] = start
    BY <2>5, <2>6, <2>7
  <2>11. ASSUME NEW n \in 1 .. m PROVE h[n] = F[h[n - 1]]
    <3>1. n - 1 \in 0 .. m - 1 /\ n - 1 # m /\ n \in 0 .. m /\ n - 1 \in 0 .. m
      BY <2>6
    <3>2. h[n - 1] = f[n - 1]
      BY <3>1
    <3>3. CASE n = m
      BY <3>1, <3>2, <3>3
    <3>4. CASE n # m
      <4>1. n \in 1 .. m - 1
        BY <2>6, <3>4
      <4>2. h[n] = f[n]
        BY <3>1, <3>4
      <4> QED BY <2>7, <3>2, <4>1, <4>2
    <3> QED BY <3>3, <3>4
  <2>12. Good(m)
    <3> HIDE DEF h
    <3> QED BY <2>9, <2>10, <2>11
  <2> QED BY <2>4, <2>12
<1>2. N \in 0 .. N
  OBVIOUS
<1>3. Good(N)
  <2> HIDE DEF Good
  <2> QED BY <1>1, <1>2
<1> QED BY <1>3 DEF Iterates

\* The cells that hang together are cells of the board.
LEMMA PatchOnBoard ==
  ASSUME NEW board, NEW start \in M!Cells
  PROVE  M!Patch(board, start) \subseteq M!Cells
<1> DEFINE N == MkSize * MkSize
           mine == {c \in M!Cells : board[c].player = board[start].player}
           Grown(near) == {c \in mine : c \in near \/ \E d \in M!Directions : M!Towards(c, d) \in near}
           Reaching(f) == [n \in 0 .. N |-> IF n = 0 THEN {start} ELSE Grown(f[n - 1])]
           reach == CHOOSE f : f = Reaching(f)
<1>1. M!Patch(board, start) = reach[N]
  BY DEF M!Patch
<1>2. mine \subseteq M!Cells /\ \A near : Grown(near) \subseteq mine
  OBVIOUS
<1>3. N \in Nat /\ N # 0
  BY MkAssumption
<1> HIDE DEF mine, Grown, N
<1>4. \E f : f = Reaching(f)
  <2> DEFINE D == SUBSET M!Cells
             F == [near \in D |-> Grown(near)]
  <2>1. {start} \in D /\ F \in [D -> D]
    BY <1>2
  <2>2. \A near \in D : F[near] = Grown(near)
    OBVIOUS
  <2> HIDE DEF D, F
  <2>3. PICK f : Iterates(f, D, F, {start}, N)
    BY <1>3, <2>1, IteratesExist
  <2>4. ASSUME NEW n \in 0 .. N
        PROVE  f[n] = IF n = 0 THEN {start} ELSE Grown(f[n - 1])
    <3>1. CASE n = 0
      BY <2>3, <3>1 DEF Iterates
    <3>2. CASE n # 0
      <4>1. n \in 1 .. N /\ n - 1 \in 0 .. N
        BY <1>3, <3>2
      <4>2. f[n] = F[f[n - 1]] /\ f[n - 1] \in D
        BY <2>3, <4>1 DEF Iterates
      <4> QED BY <2>2, <3>2, <4>2
    <3> QED BY <3>1, <3>2
  <2>5. f = Reaching(f)
    BY <2>3, <2>4 DEF Iterates
  <2> QED BY <2>5
<1>5. reach = Reaching(reach)
  <2> HIDE DEF Reaching
  <2> QED BY <1>4
<1> HIDE DEF reach
<1>6. reach[N] = Grown(reach[N - 1])
  <2>1. N \in 0 .. N
    BY <1>3
  <2>2. \A n \in 0 .. N : reach[n] = IF n = 0 THEN {start} ELSE Grown(reach[n - 1])
    BY <1>5
  <2> QED BY <1>3, <2>1, <2>2
<1>7. reach[N] \subseteq mine
  BY <1>2, <1>6
<1> QED BY <1>1, <1>2, <1>7

LEMMA TributeType ==
  ASSUME NEW g, Purses(g)
  PROVE  /\ M!TributeDue(g) \in Nat
         /\ M!TributeDue(g) # 0 => g.board[g.pos].player = 1 - g.current
<1> DEFINE owner == g.board[g.pos].player
           patch == M!Patch(g.board, g.pos)
           n == Cardinality(patch)
<1>1. M!TributeDue(g) = IF owner \in M!Ids \ {g.current} THEN n ELSE 0
  BY MkNames DEF M!TributeDue
<1>2. IsFiniteSet(patch)
  <2>1. patch \in SUBSET M!Cells
    BY PatchOnBoard DEF Purses, OnBoard
  <2> HIDE DEF patch
  <2> QED BY ONLY <2>1, CellsFinite, FS_Subset
<1>3. n \in Nat
  BY <1>2, FS_CardinalityType
<1> HIDE DEF n, patch
<1>4. owner \in M!Ids \ {g.current} => owner = 1 - g.current
  BY MkNames DEF Purses
<1> QED BY <1>1, <1>3, <1>4

\* The tribute is paid, as far as there is something to pay it with.
LEMMA TributeKeepsPurses ==
  ASSUME NEW g, Purses(g), MkGoes(g), g.phase = "tribute"
  PROVE  LET h == M!Tribute(g)
         IN  /\ MkOK(h) /\ h.phase \in {"place", "gameOver"}
<1> DEFINE due  == M!TributeDue(g)
           to   == g.board[g.pos].player
           pays == M!Min({due, g.dirhams[g.current]})
           mid  == [g.dirhams EXCEPT ![g.current] = @ - pays]
           purse == [mid EXCEPT ![to] = g.dirhams[to] + pays]
           paid == [g EXCEPT !.dirhams[g.current] = @ - pays, !.dirhams[to] = @ + pays]
           board == [c \in M!Cells |->
                       IF paid.board[c].player = g.current THEN [paid.board[c] EXCEPT !.player = M!Dead]
                       ELSE paid.board[c]]
           gone == paid.eliminated \cup {g.current}
           out  == [paid EXCEPT !.eliminated = gone, !.phase = "place", !.board = board]
           rest == M!Ids \ out.eliminated
           won  == IF rest = {} THEN -1 ELSE M!Min(rest)
           last == [out EXCEPT !.phase = "gameOver", !.winner = won]
           free == [g EXCEPT !.phase = "place"]
           next == [paid EXCEPT !.phase = "place"]
<1>1. due \in Nat /\ (due # 0 => to = 1 - g.current)
  BY TributeType
<1>2. /\ due = 0 => M!Tribute(g) = free
      /\ due # 0 => M!Tribute(g) = IF paid.dirhams[g.current] > 0 THEN next
                                  ELSE IF M!Cardinality(rest) <= 1 THEN last ELSE out
  BY DEF M!Tribute
<1>3. CASE due = 0
  <2>1. /\ IsMk(free) /\ free.phase = "place" /\ free.pos = g.pos /\ free.dir = g.dir
        /\ free.left = g.left /\ free.dirhams = g.dirhams /\ free.carpets = g.carpets
        /\ free.eliminated = g.eliminated /\ free.current = g.current /\ free.winner = g.winner
    BY DEF Purses, IsMk, MkFields
  <2> HIDE DEF free
  <2>2. Purses(free) /\ MkGoes(free)
    BY <2>1 DEF Purses, OnBoard, MkGoes
  <2> HIDE DEF due
  <2> QED BY <1>2, <1>3, <2>1, <2>2 DEF MkOK
<1>4. CASE due # 0
  <2> DEFINE me == g.current
             x == g.dirhams[me]
             y == g.dirhams[1 - me]
  <2>1. me \in {0, 1} /\ x \in Nat /\ y \in Nat /\ x > 0 /\ y > 0 /\ x + y = 2 * MkDirhams
    BY DEF Purses, MkGoes
  <2>2. to = 1 - me /\ due \in Nat \ {0}
    BY <1>1, <1>4
  <2>3. pays = IF due <= x THEN due ELSE x
    <3> HIDE DEF due
    <3>1. M!Min({due, g.dirhams[g.current]}) = Min({due, g.dirhams[g.current]})
      BY MkNames
    <3> QED BY <2>1, <2>2, <3>1, MinOfTwo
  <2>4. pays \in Nat /\ pays <= x
    <3> HIDE DEF due, x, pays
    <3> QED BY <2>1, <2>2, <2>3
  <2> HIDE DEF due, to, pays
  <2>5. purse \in [{0, 1} -> Nat] /\ purse[me] = x - pays /\ purse[1 - me] = y + pays
    <3>1. g.dirhams \in [{0, 1} -> Nat]
      BY DEF Purses
    <3>2. mid = [g.dirhams EXCEPT ![me] = x - pays] /\ purse = [mid EXCEPT ![1 - me] = y + pays]
      BY <2>1, <2>2, <3>1
    <3>3. x - pays \in Nat /\ y + pays \in Nat /\ 1 - me \in {0, 1} /\ 1 - me # me
      <4> HIDE DEF x, y
      <4> QED BY <2>1, <2>4
    <3> HIDE DEF x, y, mid, purse
    <3> QED BY <2>1, <3>1, <3>2, <3>3
  <2> HIDE DEF purse
  <2>6. purse[0] + purse[1] = 2 * MkDirhams /\ purse[1 - me] > 0
    <3> HIDE DEF x, y
    <3>1. MkDirhams \in Nat
      BY MkAssumption
    <3>2. purse[me] + purse[1 - me] = 2 * MkDirhams /\ purse[1 - me] > 0
      BY <2>1, <2>4, <2>5, <3>1
    <3>3. purse[0] \in Nat /\ purse[1] \in Nat
      BY <2>5
    <3>4. me = 0 \/ me = 1
      BY <2>1
    <3> HIDE DEF me
    <3> QED BY <3>2, <3>3, <3>4
  <2> DEFINE simple == [g EXCEPT !.dirhams = purse]
  <2>11. paid = simple
    <3>1. to # g.current
      BY <2>1, <2>2
    <3> QED BY <3>1 DEF Purses, IsMk, MkFields, purse
  <2>7. /\ IsMk(paid) /\ paid.phase = g.phase /\ paid.pos = g.pos /\ paid.dir = g.dir
        /\ paid.left = g.left /\ paid.dirhams = purse /\ paid.carpets = g.carpets
        /\ paid.eliminated = {} /\ paid.current = me /\ paid.winner = -1
    <3> HIDE DEF paid
    <3> QED BY <2>11 DEF Purses, IsMk, MkFields, MkGoes
  <2> HIDE DEF paid
  <2>8. CASE purse[me] > 0
    <3>1. /\ IsMk(next) /\ next.phase = "place" /\ next.pos = g.pos /\ next.dir = g.dir
          /\ next.left = g.left /\ next.dirhams = purse /\ next.carpets = g.carpets
          /\ next.eliminated = {} /\ next.current = me /\ next.winner = -1
      BY <2>7 DEF IsMk, MkFields
    <3> HIDE DEF next
    <3>2. \A p \in {0, 1} : purse[p] # 0
      <4>1. \A p \in {0, 1} : p = me \/ p = 1 - me
        BY <2>1
      <4> QED BY <2>5, <2>6, <2>8, <4>1
    <3>3. Purses(next)
      BY <2>1, <2>5, <2>6, <3>1, <3>2 DEF Purses, OnBoard
    <3>4. MkGoes(next)
      BY <3>1 DEF MkGoes
    <3>5. M!Tribute(g) = next
      BY <1>2, <1>4, <2>7, <2>8
    <3> QED BY <3>1, <3>3, <3>4, <3>5 DEF MkOK
  <2>9. CASE ~ (purse[me] > 0)
    <3>1. purse[me] = 0
      BY <2>1, <2>5, <2>9
    <3> HIDE DEF board
    <3>2. /\ IsMk(out) /\ out.pos = g.pos /\ out.dir = g.dir
          /\ out.left = g.left /\ out.dirhams = purse /\ out.carpets = g.carpets
          /\ out.eliminated = {me} /\ out.current = me
      BY <2>7 DEF IsMk, MkFields
    <3> HIDE DEF out
    <3>3. rest = {1 - me}
      BY <2>1, <3>2, MkNames
    <3>4. M!Cardinality(rest) = 1 /\ M!Min(rest) = 1 - me
      <4> DEFINE o == 1 - me
      <4>1. o \in Int
        BY <2>1
      <4> HIDE DEF rest, o
      <4>2. Cardinality({o}) = 1
        BY FS_Singleton
      <4>3. Min({o, o}) = o /\ {o, o} = {o}
        BY <4>1, MinOfTwo
      <4>4. rest = {o}
        BY <3>3 DEF o
      <4>5. M!Cardinality(rest) = 1 /\ M!Min(rest) = o
        BY <4>2, <4>3, <4>4, MkNames
      <4> QED BY <4>5 DEF o
    <3>5. won = 1 - me
      <4> HIDE DEF rest
      <4> QED BY <3>3, <3>4
    <3>6. M!Tribute(g) = last
      <4> HIDE DEF rest, last
      <4> QED BY <1>2, <1>4, <2>7, <2>9, <3>4
    <3> HIDE DEF won, rest
    <3>7. /\ IsMk(last) /\ last.phase = "gameOver" /\ last.pos = g.pos /\ last.dir = g.dir
          /\ last.left = g.left /\ last.dirhams = purse /\ last.carpets = g.carpets
          /\ last.eliminated = {me} /\ last.current = me /\ last.winner = 1 - me
      BY <3>2, <3>5 DEF IsMk, MkFields
    <3> HIDE DEF last
    <3>8. \A p \in {0, 1} : purse[p] = 0 <=> p = me
      <4>1. \A p \in {0, 1} : p = me \/ p = 1 - me
        BY <2>1
      <4>2. purse[1 - me] # 0
        BY <2>5, <2>6
      <4> QED BY <3>1, <4>1, <4>2
    <3>9. Purses(last)
      BY <2>1, <2>5, <2>6, <3>7, <3>8 DEF Purses, OnBoard
    <3>10. MkDone(last)
      BY <2>1, <3>7 DEF MkDone
    <3> QED BY <3>6, <3>7, <3>9, <3>10 DEF MkOK
  <2> QED BY <2>8, <2>9
<1> QED BY <1>3, <1>4

LEMMA MkAheadLeads ==
  ASSUME NEW g, Purses(g)
  PROVE  /\ MkAhead(g) \in {-1, 0, 1}
         /\ MkAhead(g) # -1 => NotBehind(g, MkAhead(g))
<1> DEFINE all  == [p \in {0, 1} |-> M!Total(g, p)]
           most == Ahead(all)
           rich == Ahead(g.dirhams)
           a == M!Total(g, 0)
           b == M!Total(g, 1)
<1>1. MkAhead(g) = IF most # -1 THEN most ELSE rich
  BY DEF MkAhead
<1>2. a \in Nat /\ b \in Nat /\ all \in [{0, 1} -> Int] /\ all[0] = a /\ all[1] = b
  BY TotalType DEF Purses
<1> HIDE DEF all
<1>3. most = IF a > b THEN 0 ELSE IF b > a THEN 1 ELSE -1
  BY <1>2, AheadOfTwo
<1>4. rich \in {-1, 0, 1}
  <2>1. g.dirhams \in [{0, 1} -> Int]
    BY DEF Purses
  <2> QED BY <2>1, AheadOfTwo
<1>5. (a >= b => NotBehind(g, 0)) /\ (b >= a => NotBehind(g, 1))
  BY DEF NotBehind
<1> HIDE DEF a, b, most, rich
<1>6. CASE a > b
  <2>1. MkAhead(g) = 0 /\ a >= b
    BY <1>1, <1>2, <1>3, <1>6
  <2> QED BY <1>5, <2>1
<1>7. CASE b > a
  <2>1. MkAhead(g) = 1 /\ b >= a
    BY <1>1, <1>2, <1>3, <1>7
  <2> QED BY <1>5, <2>1
<1>8. CASE a = b
  <2>1. MkAhead(g) = rich /\ a >= b /\ b >= a
    BY <1>1, <1>2, <1>3, <1>8
  <2> QED BY <1>4, <1>5, <2>1
<1>9. a > b \/ b > a \/ a = b
  BY <1>2
<1> QED BY <1>6, <1>7, <1>8, <1>9

\* What is on the table: while the match goes on, who was ahead when the turn began; when it
\* is over, the winner, and how it was won.
MkScores(g, t) ==
  /\ t.ahead \in {-1, 0, 1}
  /\ t.status = "active" => MkGoes(g) /\ t.why \notin {"score", "clock"}
  /\ t.status = "active" /\ g.phase = "orient" /\ t.ahead # -1 => NotBehind(g, t.ahead)
  /\ t.why = "score" => MkDone(g) /\ t.winner = g.winner
  /\ t.why = "clock" /\ t.winner # -1 /\ g.phase = "orient" => NotBehind(g, t.winner)

MkInv == gameType = "marrakech" => MkOK(game) /\ MkScores(game, table)

LEMMA MkBegins == LoopInit => MkInv
<1> SUFFICES ASSUME LoopInit, gameType = "marrakech" PROVE MkOK(game) /\ MkScores(game, table)
  BY DEF MkInv
<1>1. table.status = "active" /\ table.why = "none" /\ table.ahead = -1
  BY DEF LoopInit
<1> DEFINE middle == (MkSize + 1) \div 2
<1>2. game = [board |-> [c \in M!Cells |-> M!Bare], pos |-> <<middle, middle>>, dir |-> "N", left |-> 0,
              dirhams |-> [p \in M!Ids |-> MkDirhams], carpets |-> [p \in M!Ids |-> MkCarpets],
              eliminated |-> {}, current |-> 0, phase |-> "orient", winner |-> -1]
  BY DEF LoopInit, Begins, MarrakechBegins, M!InitialState
<1>3. middle \in 1 .. MkSize
  BY MkAssumption
<1> HIDE DEF middle
<1>4. /\ IsMk(game) /\ game.pos = <<middle, middle>> /\ game.dir = "N" /\ game.left = 0
      /\ game.dirhams = [p \in {0, 1} |-> MkDirhams] /\ game.carpets = [p \in {0, 1} |-> MkCarpets]
      /\ game.eliminated = {} /\ game.current = 0 /\ game.phase = "orient" /\ game.winner = -1
  BY <1>2, MkNames DEF IsMk, MkFields
<1>5. OnBoard(game)
  BY <1>3, <1>4 DEF OnBoard, M!Cells, M!Directions, M!Vector
<1>6. MkDirhams \in Nat \ {0} /\ MkCarpets \in Nat \ {0}
  BY MkAssumption
<1>7. Purses(game)
  BY <1>4, <1>5, <1>6 DEF Purses
<1>8. MkGoes(game)
  BY <1>4, <1>6 DEF MkGoes
<1> QED BY <1>1, <1>7, <1>8 DEF MkOK, MkScores

\* The end of a turn.
LEMMA MkNextInv ==
  ASSUME NEW h, MkOK(h), h.phase \in {"orient", "gameOver"},
         NEW t, IsTable(t), t.status = "active", t.why \notin {"score", "clock"}, MkNext(h, t)
  PROVE  MkOK(game') /\ MkScores(game', table')
<1> DEFINE over == h.phase = "gameOver"
           c    == Concluded(t, over, "score", h.winner)
           best == MkAhead(h)
<1>1. game' = h /\ table' = [c EXCEPT !.ahead = best]
  BY DEF MkNext
<1>2. best \in {-1, 0, 1} /\ (best # -1 => NotBehind(h, best))
  BY MkAheadLeads DEF MkOK
<1>3. IsTable(c)
  BY ConcludedTable
<1>4. CASE over
  <2>1. c = Ended(t, "score", h.winner)
    BY <1>4 DEF Concluded
  <2>2. c.status = "over" /\ c.winner = h.winner /\ c.why = "score"
    <3> HIDE DEF c
    <3> QED BY <2>1, EndedTable
  <2> HIDE DEF c, best
  <2>3. /\ table'.status = "over" /\ table'.winner = h.winner /\ table'.why = "score"
        /\ table'.ahead = best
    BY <1>1, <1>3, <2>2, AheadTable
  <2>4. MkDone(h)
    BY <1>4 DEF MkOK, MkGoes
  <2>5. MkScores(h, table')
    BY <1>2, <2>3, <2>4 DEF MkScores
  <2> QED BY <1>1, <2>5
<1>5. CASE ~ over
  <2>1. (\E w : c = Ended(t, "timeout", w)) \/ c = [t EXCEPT !.seen = t.timeouts]
    BY <1>5 DEF Concluded
  <2> HIDE DEF c, best
  <2>2. c.why \notin {"score", "clock"}
    <3>1. ASSUME NEW w, c = Ended(t, "timeout", w) PROVE c.why \notin {"score", "clock"}
      BY <3>1, EndedTable
    <3>2. ASSUME c = [t EXCEPT !.seen = t.timeouts] PROVE c.why \notin {"score", "clock"}
      BY <3>2, TurnKeepsWhy
    <3> QED BY <2>1, <3>1, <3>2
  <2>3. table'.why \notin {"score", "clock"} /\ table'.ahead = best
    BY <1>1, <1>3, <2>2, AheadTable
  <2>4. MkGoes(h)
    BY <1>5 DEF MkOK, MkDone
  <2>5. MkScores(h, table')
    BY <1>2, <2>3, <2>4 DEF MkScores
  <2> QED BY <1>1, <2>5
<1> QED BY <1>4, <1>5

LEMMA MkTurnInv ==
  MissInv /\ MkInv /\ (MkOrient \/ MkBorder \/ MkTribute \/ MkPlace)
    => MkOK(game') /\ MkScores(game', table')
<1> SUFFICES ASSUME MissInv, MkInv, MkOrient \/ MkBorder \/ MkTribute \/ MkPlace
             PROVE  MkOK(game') /\ MkScores(game', table')
  OBVIOUS
<1>1. gameType = "marrakech" /\ table.status = "active" /\ IsTable(table)
  BY DEF MkOrient, MkBorder, MkTribute, MkPlace, Playing, MissInv, Kept
<1>2. /\ Purses(game) /\ MkGoes(game) /\ table.why \notin {"score", "clock"} /\ MkScores(game, table)
      /\ game.eliminated = {} /\ game.winner = -1
  BY <1>1 DEF MkInv, MkOK, MkScores, MkGoes
<1>3. ASSUME NEW h, Purses(h), MkGoes(h), h.phase # "orient", game' = h, table' = table
      PROVE  MkOK(game') /\ MkScores(game', table')
  BY <1>1, <1>2, <1>3 DEF MkOK, MkScores
<1>4. MkOK(M!Advance(game)) /\ M!Advance(game).phase \in {"orient", "gameOver"}
  BY <1>2, AdvanceKeepsPurses
<1>5. ASSUME MkMiss PROVE MkOK(game') /\ MkScores(game', table')
  <2> DEFINE h == M!Advance(game)
             t == Counted(table, game.current)
  <2>1. IsTable(t) /\ t.status = "active" /\ t.why = table.why
    BY <1>1, CountedTable, TurnKeepsWhy
  <2>2. MkNext(h, t)
    BY <1>5 DEF MkMiss
  <2> HIDE DEF t
  <2> QED BY <1>2, <1>4, <2>1, <2>2, MkNextInv
<1>6. CASE MkOrient
  <2>1. ASSUME NEW dir \in M!ValidDirections(game), NEW steps \in MkDice,
               game' = M!OrientAndRoll(game, dir, steps), UNCHANGED table
        PROVE  MkOK(game') /\ MkScores(game', table')
    <3> DEFINE h == M!OrientAndRoll(game, dir, steps)
    <3>1. Purses(h) /\ MkGoes(h) /\ h.phase # "orient"
      BY <1>2, OrientKeepsPurses
    <3> HIDE DEF h
    <3> QED BY <1>3, <2>1, <3>1 DEF h
  <2> QED BY <1>5, <1>6, <2>1 DEF MkOrient
<1>7. CASE MkBorder
  <2>1. PICK dir \in M!BorderOptions(game) : game' = M!ChooseBorder(game, dir)
    BY <1>7 DEF MkBorder
  <2> DEFINE h == M!ChooseBorder(game, dir)
  <2>2. game.phase = "borderChoice" /\ table' = table
    BY <1>7 DEF MkBorder
  <2>3. Purses(h) /\ MkGoes(h) /\ h.phase # "orient"
    BY <1>2, <2>2, BorderKeepsPurses
  <2> HIDE DEF h
  <2> QED BY <1>3, <2>1, <2>2, <2>3 DEF h
<1>8. CASE MkTribute
  <2> DEFINE h == M!Tribute(game)
  <2>1. game.phase = "tribute"
        /\ IF h.phase = "gameOver" THEN MkNext(h, table) ELSE game' = h /\ table' = table
    BY <1>8 DEF MkTribute
  <2>2. MkOK(h) /\ h.phase \in {"place", "gameOver"}
    BY <1>2, <2>1, TributeKeepsPurses
  <2> HIDE DEF h
  <2>3. CASE h.phase = "gameOver"
    <3>1. MkNext(h, table)
      BY <2>1, <2>3
    <3> QED BY <1>1, <1>2, <2>2, <2>3, <3>1, MkNextInv
  <2>4. CASE h.phase = "place"
    BY <1>3, <2>1, <2>2, <2>4 DEF MkOK, MkDone
  <2> QED BY <2>2, <2>3, <2>4
<1>9. CASE MkPlace
  <2>1. ASSUME NEW cells \in M!Placements(game), MkNext(M!Place(game, cells), table)
        PROVE  MkOK(game') /\ MkScores(game', table')
    <3> DEFINE h == M!Place(game, cells)
    <3>1. MkOK(h) /\ h.phase \in {"orient", "gameOver"}
      BY <1>2, PlaceKeepsPurses
    <3>2. MkNext(h, table)
      BY <2>1
    <3> HIDE DEF h
    <3> QED BY <1>1, <1>2, <3>1, <3>2, MkNextInv
  <2>2. ASSUME MkNext(M!Advance(game), table)
        PROVE  MkOK(game') /\ MkScores(game', table')
    <3> DEFINE h == M!Advance(game)
    <3>1. MkOK(h) /\ h.phase \in {"orient", "gameOver"} /\ MkNext(h, table)
      BY <1>4, <2>2
    <3> HIDE DEF h
    <3> QED BY <1>1, <1>2, <3>1, MkNextInv
  <2> QED BY <1>9, <2>1, <2>2 DEF MkPlace
<1> QED BY <1>6, <1>7, <1>8, <1>9

LEMMA MkClockInv ==
  MissInv /\ MkInv /\ ClockFires /\ gameType = "marrakech" => MkOK(game') /\ MkScores(game', table')
<1> SUFFICES ASSUME MissInv, MkInv, ClockFires, gameType = "marrakech"
             PROVE  MkOK(game') /\ MkScores(game', table')
  OBVIOUS
<1>1. IsTable(table) /\ game' = game /\ table.status = "active" /\ MkOK(game) /\ MkScores(game, table)
  BY DEF MissInv, Kept, ClockFires, MkInv
<1>2. table' = Ended(table, "clock", table.ahead)
  BY DEF ClockFires, OnTime
<1>3. /\ table'.status = "over" /\ table'.why = "clock" /\ table'.winner = table.ahead
      /\ table'.ahead = table.ahead
  BY <1>1, <1>2, EndedTable
<1> QED BY <1>1, <1>3 DEF MkScores

LEMMA MkInvStep == MissInv /\ MkInv /\ [LoopNext]_allVars => MkInv'
<1> SUFFICES ASSUME MissInv, MkInv, [LoopNext]_allVars, gameType' = "marrakech"
             PROVE  MkOK(game') /\ MkScores(game', table')
  BY DEF MkInv
<1>1. CASE Turn \/ ClockFires
  <2>1. gameType = "marrakech" /\ (MkOrient \/ MkBorder \/ MkTribute \/ MkPlace \/ ClockFires)
    BY <1>1 DEF Turn, UnoTurn, UnoFollowUp, Game2048Turn, WerewolfTurn, MkOrient, MkBorder,
                MkTribute, MkPlace, RpsRound, RpsRevealed, ChessTurn, ChessOver, BoardTurn,
                ClockFires, Playing
  <2> QED BY <2>1, MkTurnInv, MkClockInv
<1>2. CASE PokerStep \/ Over \/ UNCHANGED allVars
  <2>1. gameType' = gameType /\ game' = game /\ table' = table
    BY <1>2 DEF PokerStep, Over, allVars, loopVars
  <2> QED BY <2>1 DEF MkInv
<1> QED BY <1>1, <1>2 DEF LoopNext

THEOREM MkInvHolds == LoopSpec => []MkInv
<1>1. MissInv /\ MkInv /\ [LoopNext]_allVars => (MissInv /\ MkInv)'
  BY MissInvStep, MkInvStep
<1> QED BY <1>1, MissInvInit, MkBegins, PTL DEF LoopSpec

\* Marrakech, for any board, dice, dirhams and carpets: the dirhams only change hands, a side
\* without any is out, and the match goes to whoever is left or has the most.
THEOREM DirhamsDecideHolds == LoopSpec => []DirhamsDecide
<1>1. MkInv => DirhamsDecide
  <2> SUFFICES ASSUME MkInv, gameType = "marrakech" PROVE DirhamsDecide
    BY DEF DirhamsDecide, OfType
  <2>1. Purses(game) /\ MkScores(game, table)
    BY DEF MkInv, MkOK
  <2>2. /\ game.dirhams[0] + game.dirhams[1] = 2 * MkDirhams
        /\ \A p \in {0, 1} : game.dirhams[p] = 0 <=> p \in game.eliminated
    BY <2>1 DEF Purses
  <2>3. table.why = "score" =>
          /\ table.winner \in {0, 1} \ game.eliminated
          /\ game.eliminated = {} =>
               game.carpets = [p \in {0, 1} |-> 0] /\ NotBehind(game, table.winner)
    BY <2>1 DEF MkScores, MkDone
  <2>4. table.why = "clock" /\ table.winner # -1 /\ game.phase = "orient" => NotBehind(game, table.winner)
    BY <2>1 DEF MkScores
  <2> QED BY <2>2, <2>3, <2>4 DEF DirhamsDecide, OfType, NotBehind
<1> QED BY <1>1, MkInvHolds, PTL
-----------------------------------------------------------------------------
(* The types of all games *)

SeatOrNobody(w) == w \in Seats(gameType) \cup {-1}

LEMMA SeatsFinite == Seats(gameType) \in SUBSET Int /\ IsFiniteSet(Seats(gameType))
<1>1. U!Sides \in SUBSET Int /\ IsFiniteSet(U!Sides)
  BY UnoSides, FS_Interval
<1>2. W!Sides \in SUBSET Int /\ IsFiniteSet(W!Sides)
  BY RolesAssumption
<1>3. {0, 1} \in SUBSET Int /\ IsFiniteSet({0, 1})
  <2>1. IsFiniteSet({0}) /\ IsFiniteSet({1}) /\ {0, 1} = {0} \cup {1}
    BY FS_Singleton
  <2>2. IsFiniteSet({0} \cup {1})
    BY <2>1, FS_Union
  <2> QED BY <2>1, <2>2
<1> QED BY <1>1, <1>2, <1>3 DEF Seats

\* Two seats are those of side 0 and side 1; wolves never play for themselves.
LEMMA TwoSeats ==
  ASSUME Cardinality(Seats(gameType)) = 2
  PROVE  Seats(gameType) = {0, 1}
<1>1. CASE gameType = "uno"
  <2>1. Seats(gameType) = U!Sides
    BY <1>1 DEF Seats
  <2>2. Cardinality(0 .. UnoPlayers - 1) = UnoPlayers
    <3> DEFINE a == 0
               b == UnoPlayers - 1
    <3>1. a \in Int /\ b \in Int /\ ~ (a > b) /\ b - a + 1 = UnoPlayers
      BY UnoSides
    <3> HIDE DEF a, b
    <3>2. Cardinality(a .. b) = UnoPlayers
      BY <3>1, FS_Interval
    <3> QED BY <3>2 DEF a, b
  <2>3. UnoPlayers = 2
    BY <2>1, <2>2, UnoSides
  <2> QED BY <2>1, <2>3, UnoSides
<1>2. CASE gameType = "werewolf"
  <2>1. Seats(gameType) = W!Sides
    BY <1>2 DEF Seats
  <2>2. PICK roles \in RoleDeals : TRUE
    BY RolesAssumption
  <2> DEFINE wolves == {s \in W!Sides : roles[s] = "WEREWOLF"}
             rest == W!Sides \ wolves
             m == Cardinality(wolves)
             n == Cardinality(rest)
  <2>3. wolves # {} /\ m < n
    BY RolesAssumption
  <2>4. wolves \in SUBSET W!Sides /\ rest \in SUBSET W!Sides /\ rest = W!Sides \ wolves
    OBVIOUS
  <2> HIDE DEF wolves, rest, m, n
  <2>5. IsFiniteSet(wolves) /\ IsFiniteSet(rest) /\ n <= Cardinality(W!Sides)
        /\ (n = Cardinality(W!Sides) => rest = W!Sides)
    <3>1. IsFiniteSet(W!Sides)
      BY RolesAssumption
    <3> QED BY ONLY <2>4, <3>1, FS_Subset DEF n
  <2>6. m \in Nat /\ n \in Nat /\ (m = 0 => wolves = {})
    BY <2>5, FS_CardinalityType, FS_EmptySet DEF m, n
  <2>7. n = 2
    BY <1>2, <2>1, <2>3, <2>5, <2>6
  <2>8. rest = W!Sides
    BY <2>1, <2>5, <2>7
  <2> QED BY <2>3, <2>4, <2>8
<1>3. CASE gameType \notin {"uno", "werewolf"}
  BY <1>3 DEF Seats
<1> QED BY <1>1, <1>2, <1>3

LEMMA AheadIsSeat ==
  ASSUME NEW D \in SUBSET Int, IsFiniteSet(D), NEW f, DOMAIN f = D
  PROVE  Ahead(f) \in D \cup {-1}
<1> DEFINE best == {s \in DOMAIN f : \A r \in (DOMAIN f) \ {s} : f[s] > f[r]}
<1>1. Ahead(f) = IF best = {} THEN -1 ELSE Min(best)
  BY DEF Ahead
<1>2. best \in SUBSET D
  OBVIOUS
<1> HIDE DEF best
<1>3. best \in SUBSET Int /\ IsFiniteSet(best)
  BY <1>2, FS_Subset
<1>4. best # {} => Min(best) \in best
  BY <1>3, MinAndMax
<1> QED BY <1>1, <1>2, <1>4

\* Who has missed too many turns loses to the other of two.
LEMMA ConcludedWinner ==
  ASSUME NEW t, IsTable(t), SeatOrNobody(t.winner), NEW over, NEW why, NEW winner,
         over => SeatOrNobody(winner)
  PROVE  SeatOrNobody(Concluded(t, over, why, winner).winner)
<1> DEFINE w == IF Cardinality(DOMAIN t.timeouts) = 2 THEN 1 - Min(Late(t)) ELSE -1
<1>1. Concluded(t, over, why, winner) = IF over THEN Ended(t, why, winner)
                                        ELSE IF Late(t) # {} THEN Ended(t, "timeout", w)
                                        ELSE [t EXCEPT !.seen = t.timeouts]
  BY DEF Concluded
<1>2. Late(t) # {} => SeatOrNobody(w)
  <2> SUFFICES ASSUME Late(t) # {}, Cardinality(DOMAIN t.timeouts) = 2
               PROVE  SeatOrNobody(1 - Min(Late(t)))
    BY DEF SeatOrNobody
  <2>1. DOMAIN t.timeouts = Seats(gameType)
    BY DEF IsTable
  <2>2. Seats(gameType) = {0, 1}
    BY <2>1, TwoSeats
  <2>3. Late(t) \in SUBSET Seats(gameType)
    BY <2>1 DEF Late
  <2>4. Late(t) \in SUBSET Int /\ IsFiniteSet(Late(t))
    BY <2>3, SeatsFinite, FS_Subset
  <2>5. Min(Late(t)) \in {0, 1}
    BY <2>2, <2>3, <2>4, MinAndMax
  <2> QED BY <2>2, <2>5 DEF SeatOrNobody
<1> HIDE DEF w
<1>3. CASE over
  BY <1>1, <1>3, EndedTable
<1>4. CASE ~ over /\ Late(t) # {}
  BY <1>1, <1>2, <1>4, EndedTable
<1>5. CASE ~ over /\ Late(t) = {}
  BY <1>1, <1>5, EndedShape
<1> QED BY <1>3, <1>4, <1>5

LEMMA CountedWinner ==
  ASSUME NEW t, IsTable(t), NEW side
  PROVE  Counted(t, side).winner = t.winner
<1>1. t = [status |-> t.status, timeouts |-> t.timeouts, seen |-> t.seen, missed |-> t.missed,
           ahead |-> t.ahead, why |-> t.why, winner |-> t.winner]
  BY DEF IsTable
<1> QED BY <1>1 DEF Counted

LEMMA AskedWinner ==
  ASSUME IsTable(table), NEW side, NEW answered
  PROVE  Asked(side, answered).winner = table.winner
BY CountedWinner DEF Asked

-----------------------------------------------------------------------------
(* 2048: a fresh board has a move *)

\* The recursion of Slid.
SlideStep(tiles, f) ==
  [i \in 1 .. Len(tiles) + 1 |->
     IF i > Len(tiles) THEN [row |-> <<>>, gained |-> 0]
     ELSE IF i < Len(tiles) /\ tiles[i] = tiles[i + 1]
     THEN LET rest == IF i + 2 > Len(tiles) THEN f[Len(tiles) + 1] ELSE f[i + 2]
          IN  [row |-> <<2 * tiles[i]>> \o rest.row, gained |-> 2 * tiles[i] + rest.gained]
     ELSE LET rest == f[i + 1] IN [rest EXCEPT !.row = <<tiles[i]>> \o @]]

LEMMA OneTileSlid ==
  ASSUME NEW v
  PROVE  Len(T!Slid(<<v>>).row) = 1
<1> DEFINE t == <<v>>
           none == [row |-> <<>>, gained |-> 0]
           one  == [none EXCEPT !.row = <<v>> \o @]
           f0   == [i \in 1 .. 2 |-> IF i > 1 THEN none ELSE one]
           from == CHOOSE f : f = SlideStep(t, f)
<1>1. T!Slid(t) = from[1]
  BY DEF T!Slid, SlideStep
<1>2. Len(t) = 1 /\ t[1] = v
  OBVIOUS
<1> HIDE DEF t
<1>3. ASSUME NEW f
      PROVE  SlideStep(t, f) = [i \in 1 .. 2 |-> IF i > 1 THEN none ELSE LET rest == f[i + 1] IN [rest EXCEPT !.row = <<v>> \o @]]
  BY <1>2 DEF SlideStep
<1>4. f0 = SlideStep(t, f0)
  <2>1. f0[2] = none
    OBVIOUS
  <2> HIDE DEF none
  <2>2. SlideStep(t, f0) = [i \in 1 .. 2 |-> IF i > 1 THEN none ELSE LET rest == f0[i + 1] IN [rest EXCEPT !.row = <<v>> \o @]]
    BY <1>3
  <2>3. \A i \in 1 .. 2 : f0[i] = SlideStep(t, f0)[i]
    BY <2>1, <2>2
  <2> QED BY <2>2, <2>3
<1>5. from = SlideStep(t, from)
  BY <1>4
<1> HIDE DEF from
<1>6. from = [i \in 1 .. 2 |-> IF i > 1 THEN none ELSE LET rest == from[i + 1] IN [rest EXCEPT !.row = <<v>> \o @]]
  BY <1>3, <1>5
<1>7. from[1].row = <<v>> \o <<>>
  <2> HIDE DEF none
  <2>1. from[2] = none
    BY <1>6
  <2>2. from[1] = [none EXCEPT !.row = <<v>> \o @]
    <3> DEFINE with(rest) == [rest EXCEPT !.row = <<v>> \o @]
    <3>1. from = [i \in 1 .. 2 |-> IF i > 1 THEN none ELSE with(from[i + 1])]
      BY <1>6
    <3> HIDE DEF with
    <3>2. from[1] = with(from[2])
      BY <3>1
    <3> QED BY <2>1, <3>2 DEF with
  <2>3. none.row = <<>> /\ "row" \in DOMAIN none
    BY DEF none
  <2> QED BY <2>2, <2>3
<1>8. Len(<<v>> \o <<>>) = 1
  OBVIOUS
<1> QED BY <1>1, <1>7, <1>8 DEF t

Lines == {"up", "down", "left", "right"}

\* Of a line that has one tile, that tile is found.
LEMMA LoneTile ==
  ASSUME NEW grid, NEW move, NEW k, NEW p \in 1 .. Size2048,
         \A i \in 1 .. Size2048 : grid[T!CellAt(move, k, i)] # 0 <=> i = p
  PROVE  T!Tiles(grid, move, k) = <<grid[T!CellAt(move, k, p)]>>
<1> DEFINE at(i)  == grid[T!CellAt(move, k, i)]
           places == {i \in 1 .. Size2048 : at(i) # 0}
           nth(n) == CHOOSE i \in places : T!Cardinality({j \in places : j <= i}) = n
<1>1. T!Tiles(grid, move, k) = [n \in 1 .. T!Cardinality(places) |-> at(nth(n))]
  BY DEF T!Tiles
<1>2. places = {p}
  OBVIOUS
<1>3. \A S : T!Cardinality(S) = Cardinality(S)
  BY DEF T!Cardinality, Cardinality
<1>4. T!Cardinality(places) = 1
  BY <1>2, <1>3, FS_Singleton
<1>5. {j \in places : j <= p} = {p}
  BY <1>2
<1>6. \E i \in places : T!Cardinality({j \in places : j <= i}) = 1
  BY <1>2, <1>3, <1>5, FS_Singleton
<1>7. nth(1) \in places
  <2> HIDE DEF places
  <2> QED BY <1>6
<1>8. nth(1) = p
  BY <1>2, <1>7
<1> HIDE DEF nth, places, at
<1>9. T!Tiles(grid, move, k) = [n \in 1 .. 1 |-> at(nth(n))]
  BY <1>1, <1>4
<1>10. [n \in 1 .. 1 |-> at(nth(n))] = <<at(p)>>
  BY <1>8
<1> QED BY <1>9, <1>10 DEF at

LEMMA LoneTileMoves ==
  ASSUME NEW grid, NEW move \in Lines, NEW k \in 1 .. Size2048, NEW p \in 2 .. Size2048,
         \A i \in 1 .. Size2048 : grid[T!CellAt(move, k, i)] # 0 <=> i = p
  PROVE  T!Moved(grid, move).grid # grid
<1> DEFINE slid    == [l \in 1 .. Size2048 |-> T!Slid(T!Tiles(grid, move, l))]
           tile(l) == IF l[2] <= Len(slid[l[1]].row) THEN slid[l[1]].row[l[2]] ELSE 0
           c == T!CellAt(move, k, p)
           new == T!Moved(grid, move).grid
<1>1. new = [d \in T!Cells |-> tile(T!LineAndPlace(move, d))]
  BY DEF T!Moved
<1>2. p \in 1 .. Size2048 /\ Size2048 \in Nat
  BY DuelAssumption
<1>3. c \in T!Cells /\ T!LineAndPlace(move, c) = <<k, p>>
  BY <1>2 DEF T!CellAt, T!LineAndPlace, T!Cells, Lines
<1>4. Len(slid[k].row) = 1
  BY <1>2, LoneTile, OneTileSlid
<1> HIDE DEF slid
<1>5. tile(<<k, p>>) = 0
  BY <1>4
<1>6. new[c] = 0 /\ grid[c] # 0
  BY <1>1, <1>2, <1>3, <1>5
<1> QED BY <1>6

LEMMA LinesAreMoves == T!Range(T!Moves) = Lines /\ DOMAIN T!Moves = 1 .. 4
<1>1. T!Moves = <<"up", "down", "left", "right">>
  BY DEF T!Moves
<1>2. DOMAIN T!Moves = 1 .. 4
  BY <1>1
<1>3. T!Range(T!Moves) = {T!Moves[i] : i \in 1 .. 4}
  BY <1>2 DEF T!Range
<1>4. /\ T!Moves[1] = "up" /\ T!Moves[2] = "down" /\ T!Moves[3] = "left" /\ T!Moves[4] = "right"
  BY <1>1
<1>5. \A i \in 1 .. 4 : i = 1 \/ i = 2 \/ i = 3 \/ i = 4
  OBVIOUS
<1>6. {1, 2, 3, 4} \subseteq 1 .. 4
  OBVIOUS
<1>7. \A m : m \in {T!Moves[i] : i \in 1 .. 4} <=> m \in Lines
  BY <1>4, <1>5, <1>6 DEF Lines
<1> QED BY <1>2, <1>3, <1>7

\* A tile is given to a board that has an empty cell.
LEMMA SpawnedTile ==
  ASSUME NEW grid, DOMAIN grid = T!Cells, NEW c \in T!Cells, grid[c] = 0, NEW g \in T!Spawned(grid)
  PROVE  \E d \in T!Cells : /\ grid[d] = 0 /\ DOMAIN g = T!Cells /\ g[d] # 0
                            /\ \A e \in T!Cells : e # d => g[e] = grid[e]
<1> DEFINE empty == {d \in T!Cells : grid[d] = 0}
<1>1. empty # {}
  OBVIOUS
<1>2. g \in {[grid EXCEPT ![d] = v] : d \in empty, v \in {2, 4}}
  BY <1>1 DEF T!Spawned
<1>3. PICK d \in empty, v \in {2, 4} : g = [grid EXCEPT ![d] = v]
  BY <1>2
<1> QED BY <1>3

LEMMA FreshBoardMoves ==
  ASSUME NEW g \in T!Spawned([c \in T!Cells |-> 0]), NEW grid \in T!Spawned(g)
  PROVE  T!LegalMoves(grid) # {}
<1> DEFINE n == Size2048
           zero == [c \in T!Cells |-> 0]
<1>1. n \in Nat /\ n >= 2
  BY DuelAssumption
<1>2. T!Cells = (1 .. n) \X (1 .. n)
  BY DEF T!Cells
<1> HIDE DEF n
<1>3. <<1, 1>> \in T!Cells /\ <<2, 2>> \in T!Cells /\ <<1, 1>> # <<2, 2>>
  BY <1>1, <1>2
<1>4. PICK a \in T!Cells : DOMAIN g = T!Cells /\ g[a] # 0 /\ \A e \in T!Cells : e # a => g[e] = zero[e]
  BY <1>3, SpawnedTile
<1>5. \A e \in T!Cells : e # a => g[e] = 0
  BY <1>4
<1>6. PICK spare \in T!Cells : spare # a
  BY <1>3
<1>7. PICK b \in T!Cells : /\ g[b] = 0 /\ grid[b] # 0
                           /\ \A e \in T!Cells : e # b => grid[e] = g[e]
  BY <1>4, <1>5, <1>6, SpawnedTile
<1>8. /\ a # b
      /\ \A e \in T!Cells : grid[e] # 0 <=> e \in {a, b}
  BY <1>4, <1>5, <1>7
<1>9. PICK r \in 1 .. n, c \in 1 .. n : a = <<r, c>>
  BY <1>2
<1>10. PICK s \in 1 .. n, d \in 1 .. n : b = <<s, d>>
  BY <1>2
<1>11. \A i \in 1 .. n, j \in 1 .. n : grid[<<i, j>>] # 0 <=> (i = r /\ j = c) \/ (i = s /\ j = d)
  BY <1>2, <1>8, <1>9, <1>10
<1>12. r # s \/ c # d
  BY <1>8, <1>9, <1>10
<1>13. ASSUME NEW move \in Lines, NEW k \in 1 .. n, NEW p \in 2 .. n,
              \A i \in 1 .. n : grid[T!CellAt(move, k, i)] # 0 <=> i = p
       PROVE  T!LegalMoves(grid) # {}
  <2>1. T!Moved(grid, move).grid # grid
    BY <1>13, LoneTileMoves DEF n
  <2> QED BY <2>1, LinesAreMoves DEF T!LegalMoves
<1>14. \A k \in 1 .. n, i \in 1 .. n :
         /\ T!CellAt("left", k, i) = <<k, i>> /\ T!CellAt("right", k, i) = <<k, n + 1 - i>>
         /\ T!CellAt("up", k, i) = <<i, k>> /\ T!CellAt("down", k, i) = <<n + 1 - i, k>>
         /\ n + 1 - i \in 1 .. n
  BY <1>1 DEF T!CellAt, n
<1>15. CASE r # s /\ c # 1
  <2>1. \A i \in 1 .. n : grid[T!CellAt("left", r, i)] # 0 <=> i = c
    BY <1>1, <1>11, <1>14, <1>15
  <2>2. c \in 2 .. n
    BY <1>1, <1>15
  <2> QED BY <1>13, <2>1, <2>2 DEF Lines
<1>16. CASE r # s /\ c = 1
  <2>1. \A i \in 1 .. n : grid[T!CellAt("right", r, i)] # 0 <=> i = n
    BY <1>1, <1>11, <1>14, <1>16
  <2> QED BY <1>1, <1>13, <2>1 DEF Lines
<1>17. CASE c # d /\ r # 1
  <2>1. \A i \in 1 .. n : grid[T!CellAt("up", c, i)] # 0 <=> i = r
    <3>1. \A i \in 1 .. n : grid[<<i, c>>] # 0 <=> i = r
      BY <1>11, <1>17
    <3> QED BY <1>14, <3>1
  <2>2. r \in 2 .. n
    BY <1>1, <1>17
  <2> QED BY <1>13, <2>1, <2>2 DEF Lines
<1>18. CASE c # d /\ r = 1
  <2>1. \A i \in 1 .. n : grid[T!CellAt("down", c, i)] # 0 <=> i = n
    BY <1>1, <1>11, <1>14, <1>18
  <2> QED BY <1>1, <1>13, <2>1 DEF Lines
<1> QED BY <1>12, <1>15, <1>16, <1>17, <1>18

\* Without an answer the first legal move is made.
LEMMA FirstIsLegal ==
  ASSUME NEW grid, T!LegalMoves(grid) # {}
  PROVE  T!FirstLegal(grid) \in T!LegalMoves(grid)
<1> DEFINE legal == {i \in DOMAIN T!Moves : T!Moves[i] \in T!LegalMoves(grid)}
<1>1. legal # {}
  BY DEF T!LegalMoves, T!Range
<1>2. legal \in SUBSET (1 .. 4)
  BY LinesAreMoves
<1>3. legal \in SUBSET Int /\ IsFiniteSet(legal)
  <2> HIDE DEF legal
  <2> DEFINE one  == 1
             four == 4
             all  == one .. four
  <2>1. IsFiniteSet(all)
    <3>1. one \in Int /\ four \in Int
      OBVIOUS
    <3> HIDE DEF one, four
    <3> QED BY ONLY <3>1, FS_Interval
  <2>2. IsFiniteSet(legal)
    <3>1. legal \in SUBSET all
      BY <1>2
    <3> HIDE DEF all
    <3> QED BY ONLY <2>1, <3>1, FS_Subset
  <2>3. legal \in SUBSET Int
    BY <1>2
  <2> QED BY <2>2, <2>3
<1>4. T!Min(legal) = Min(legal)
  BY DEF T!Min, Min
<1>5. T!FirstLegal(grid) = T!Moves[Min(legal)]
  BY <1>4 DEF T!FirstLegal
<1>6. \A i \in legal : T!Moves[i] \in T!LegalMoves(grid)
  OBVIOUS
<1> HIDE DEF legal
<1> QED BY <1>1, <1>3, <1>5, <1>6, MinAndMax

-----------------------------------------------------------------------------
(* 2048: the moves of a side *)

\* A board that is stuck when it has no moves, and a match in which the side to move is
\* not done.
IsBoard(b) ==
  {"grid", "score", "moves", "stuck"} \subseteq DOMAIN b /\ (b.stuck <=> T!LegalMoves(b.grid) = {})

DuelOK(g) ==
  /\ {"board", "turn", "status", "winner"} \subseteq DOMAIN g
  /\ DOMAIN g.board = {0, 1} /\ g.turn \in {0, 1} /\ g.winner \in {-1, 0, 1}
  /\ \A s \in {0, 1} : IsBoard(g.board[s]) /\ g.board[s].moves \in 0 .. MaxMoves2048
  /\ g.status \in {"playing", "finished"} /\ (g.status = "playing" => ~ T!Done(g.board[g.turn]))

LEMMA MoveKeepsDuel ==
  ASSUME NEW g, DuelOK(g), NEW move, NEW h \in T!AppliedMove(g, g.turn, move)
  PROVE  DuelOK(h)
<1> DEFINE side  == g.turn
           moved == T!Moved(g.board[side].grid, move)
           old == g.board[side]
           board(grid) == [grid |-> grid, score |-> old.score + moved.gained, moves |-> old.moves + 1,
                           stuck |-> T!LegalMoves(grid) = {}]
           with(grid) == [g EXCEPT !.board[side] =
                            [grid  |-> grid, score |-> @.score + moved.gained, moves |-> @.moves + 1,
                             stuck |-> T!LegalMoves(grid) = {}]]
           next(grid) == IF \E c \in T!Cells : grid[c] >= WinTile
                         THEN [with(grid) EXCEPT !.status = "finished", !.winner = side]
                         ELSE T!Resolved(with(grid), side)
<1>1. g.status # "playing" => h = g
  BY DEF T!AppliedMove
<1>2. SUFFICES ASSUME g.status = "playing" PROVE DuelOK(h)
  BY <1>1
<1>3. h = g \/ \E grid : h = next(grid)
  <2>1. h \in IF g.status # "playing" \/ moved.grid = g.board[side].grid THEN {g}
              ELSE {next(grid) : grid \in T!Spawned(moved.grid)}
    BY DEF T!AppliedMove
  <2> HIDE DEF next, moved
  <2> QED BY <2>1
<1>4. SUFFICES ASSUME NEW grid, h = next(grid) PROVE DuelOK(h)
  BY <1>3
<1> DEFINE b == board(grid)
           k == with(grid)
<1>5. k = [g EXCEPT !.board = [g.board EXCEPT ![side] = b]]
  BY DEF DuelOK
<1>6. IsBoard(b) /\ b.moves \in 0 .. MaxMoves2048
  <2>1. IsBoard(b) /\ b.moves = old.moves + 1
    BY DEF IsBoard
  <2>2. old.moves \in 0 .. MaxMoves2048 /\ ~ (old.moves >= MaxMoves2048)
    BY <1>2 DEF DuelOK, T!Done
  <2> HIDE DEF b, old
  <2> QED BY <2>1, <2>2, DuelAssumption
<1>7. h = IF \E c \in T!Cells : grid[c] >= WinTile
          THEN [k EXCEPT !.status = "finished", !.winner = side]
          ELSE T!Resolved(k, side)
  BY <1>4
<1> HIDE DEF b, k, next
<1>8. /\ {"board", "turn", "status", "winner"} \subseteq DOMAIN k
      /\ DOMAIN k.board = {0, 1} /\ k.turn = side /\ k.winner = g.winner
      /\ \A s \in {0, 1} : IsBoard(k.board[s]) /\ k.board[s].moves \in 0 .. MaxMoves2048
      /\ k.status = "playing"
  <2>1. /\ {"board", "turn", "status", "winner"} \subseteq DOMAIN k
        /\ k.board = [g.board EXCEPT ![side] = b] /\ k.turn = side /\ k.winner = g.winner
        /\ k.status = "playing"
    BY <1>2, <1>5 DEF DuelOK
  <2>2. DOMAIN k.board = {0, 1}
    BY <2>1 DEF DuelOK
  <2>3. \A s \in {0, 1} : k.board[s] = IF s = side THEN b ELSE g.board[s]
    BY <2>1 DEF DuelOK
  <2>4. \A s \in {0, 1} : IsBoard(k.board[s]) /\ k.board[s].moves \in 0 .. MaxMoves2048
    <3> HIDE DEF side
    <3> QED BY <1>6, <2>3 DEF DuelOK
  <2> QED BY <2>1, <2>2, <2>4
<1>9. side \in {0, 1} /\ T!Other(side) \in {0, 1} /\ k.winner \in {-1, 0, 1}
  BY <1>8 DEF DuelOK, T!Other
<1> HIDE DEF side
<1>10. CASE \E c \in T!Cells : grid[c] >= WinTile
  <2>1. h = [k EXCEPT !.status = "finished", !.winner = side]
    BY <1>7, <1>10
  <2>2. /\ {"board", "turn", "status", "winner"} \subseteq DOMAIN h
        /\ h.board = k.board /\ h.turn = k.turn /\ h.winner = side /\ h.status = "finished"
    BY <1>8, <2>1
  <2> QED BY <1>8, <1>9, <2>2 DEF DuelOK
<1>11. CASE ~ \E c \in T!Cells : grid[c] >= WinTile
  <2>1. h = T!Resolved(k, side)
    BY <1>7, <1>11
  <2>2. CASE ~ T!Done(k.board[T!Other(side)])
    <3>1. h = [k EXCEPT !.turn = T!Other(side)]
      BY <2>1, <2>2 DEF T!Resolved
    <3> DEFINE to == T!Other(side)
    <3> HIDE DEF to
    <3>2. /\ {"board", "turn", "status", "winner"} \subseteq DOMAIN h
          /\ h.board = k.board /\ h.turn = to /\ h.winner = k.winner /\ h.status = k.status
      BY <1>8, <3>1 DEF to
    <3> QED BY <1>8, <1>9, <2>2, <3>2 DEF DuelOK, to
  <2>3. CASE T!Done(k.board[T!Other(side)]) /\ ~ T!Done(k.board[side])
    <3>1. h = [k EXCEPT !.turn = side]
      BY <2>1, <2>3 DEF T!Resolved
    <3>2. /\ {"board", "turn", "status", "winner"} \subseteq DOMAIN h
          /\ h.board = k.board /\ h.turn = side /\ h.winner = k.winner /\ h.status = k.status
      BY <1>8, <3>1
    <3> QED BY <1>8, <1>9, <2>3, <3>2 DEF DuelOK
  <2>4. CASE T!Done(k.board[T!Other(side)]) /\ T!Done(k.board[side])
    <3> DEFINE won == IF k.board[0].score > k.board[1].score THEN 0
                      ELSE IF k.board[1].score > k.board[0].score THEN 1 ELSE -1
    <3>1. h = [k EXCEPT !.status = "finished", !.winner = won]
      BY <2>1, <2>4 DEF T!Resolved
    <3>2. won \in {-1, 0, 1}
      OBVIOUS
    <3> HIDE DEF won
    <3>3. /\ {"board", "turn", "status", "winner"} \subseteq DOMAIN h
          /\ h.board = k.board /\ h.turn = k.turn /\ h.winner = won /\ h.status = "finished"
      BY <1>8, <3>1
    <3> QED BY <1>8, <1>9, <3>2, <3>3 DEF DuelOK
  <2> QED BY <2>2, <2>3, <2>4
<1> QED BY <1>10, <1>11

\* A side has moved and was given a tile.
BoardMoved(g, h, move) ==
  LET old   == g.board[g.turn]
      moved == T!Moved(old.grid, move)
  IN  /\ moved.grid # old.grid
      /\ \E grid \in T!Spawned(moved.grid) : \E d :
           /\ d.grid = grid /\ d.score = old.score + moved.gained /\ d.moves = old.moves + 1
           /\ h.board = [g.board EXCEPT ![g.turn] = d]

LEMMA AppliedBoards ==
  ASSUME NEW g, DuelOK(g), NEW move, NEW h \in T!AppliedMove(g, g.turn, move)
  PROVE  IF g.status # "playing" \/ T!Moved(g.board[g.turn].grid, move).grid = g.board[g.turn].grid
         THEN h = g
         ELSE BoardMoved(g, h, move)
<1> DEFINE side  == g.turn
           moved == T!Moved(g.board[side].grid, move)
           old == g.board[side]
           board(grid) == [grid |-> grid, score |-> old.score + moved.gained, moves |-> old.moves + 1,
                           stuck |-> T!LegalMoves(grid) = {}]
           with(grid) == [g EXCEPT !.board[side] =
                            [grid  |-> grid, score |-> @.score + moved.gained, moves |-> @.moves + 1,
                             stuck |-> T!LegalMoves(grid) = {}]]
           next(grid) == IF \E c \in T!Cells : grid[c] >= WinTile
                         THEN [with(grid) EXCEPT !.status = "finished", !.winner = side]
                         ELSE T!Resolved(with(grid), side)
<1>0. h \in IF g.status # "playing" \/ moved.grid = g.board[side].grid THEN {g}
            ELSE {next(grid) : grid \in T!Spawned(moved.grid)}
  BY DEF T!AppliedMove
<1> SUFFICES ASSUME ~ (g.status # "playing" \/ moved.grid = old.grid)
             PROVE  /\ moved.grid # old.grid
                    /\ \E grid \in T!Spawned(moved.grid) : \E d :
                         /\ d.grid = grid /\ d.score = old.score + moved.gained /\ d.moves = old.moves + 1
                         /\ h.board = [g.board EXCEPT ![side] = d]
  <2> HIDE DEF next
  <2> QED BY <1>0 DEF BoardMoved
<1>1. moved.grid # old.grid /\ \E grid \in T!Spawned(moved.grid) : h = next(grid)
  <2> HIDE DEF next, moved
  <2> QED BY <1>0
<1>2. PICK grid \in T!Spawned(moved.grid) : h = next(grid)
  BY <1>1
<1> DEFINE b == board(grid)
           k == with(grid)
<1>3. k = [g EXCEPT !.board = [g.board EXCEPT ![side] = b]]
  BY DEF DuelOK
<1>4. b.grid = grid /\ b.score = old.score + moved.gained /\ b.moves = old.moves + 1
  OBVIOUS
<1>5. h = IF \E c \in T!Cells : grid[c] >= WinTile
          THEN [k EXCEPT !.status = "finished", !.winner = side]
          ELSE T!Resolved(k, side)
  BY <1>2
<1> HIDE DEF b, k, next
<1>6. /\ {"board", "turn", "status", "winner"} \subseteq DOMAIN k
      /\ k.board = [g.board EXCEPT ![side] = b]
  BY <1>3 DEF DuelOK
<1>7. h.board = k.board
  <2>1. CASE \E c \in T!Cells : grid[c] >= WinTile
    BY <1>5, <1>6, <2>1
  <2>2. CASE ~ \E c \in T!Cells : grid[c] >= WinTile
    <3>1. h = T!Resolved(k, side)
      BY <1>5, <2>2
    <3>2. \/ \E to : h = [k EXCEPT !.turn = to]
          \/ \E won : h = [k EXCEPT !.status = "finished", !.winner = won]
      BY <3>1 DEF T!Resolved
    <3> QED BY <1>6, <3>2
  <2> QED BY <2>1, <2>2
<1> HIDE DEF moved, old, side
<1> QED BY <1>1, <1>4, <1>6, <1>7

\* A legal move is counted.
LEMMA MoveCounts ==
  ASSUME NEW g, DuelOK(g), g.status = "playing", NEW move \in T!LegalMoves(g.board[g.turn].grid),
         NEW h \in T!AppliedMove(g, g.turn, move)
  PROVE  h.board[0].moves + h.board[1].moves > g.board[0].moves + g.board[1].moves
<1> DEFINE side == g.turn
<1>1. BoardMoved(g, h, move)
  BY AppliedBoards DEF T!LegalMoves
<1>2. PICK b : b.moves = g.board[side].moves + 1 /\ h.board = [g.board EXCEPT ![side] = b]
  BY <1>1 DEF BoardMoved
<1>3. side \in {0, 1} /\ DOMAIN g.board = {0, 1} /\ \A s \in {0, 1} : g.board[s].moves \in Nat
  BY DEF DuelOK
<1>4. \A s \in {0, 1} : h.board[s].moves = IF s = side THEN g.board[s].moves + 1 ELSE g.board[s].moves
  <2>1. \A s \in {0, 1} : h.board[s] = IF s = side THEN b ELSE g.board[s]
    BY <1>2, <1>3
  <2> HIDE DEF side
  <2> QED BY <1>2, <2>1
<1> DEFINE x == g.board[0].moves
           y == g.board[1].moves
           z == h.board[0].moves
           w == h.board[1].moves
<1>5. x \in Nat /\ y \in Nat /\ ((z = x + 1 /\ w = y) \/ (z = x /\ w = y + 1))
  <2> HIDE DEF side
  <2> QED BY <1>3, <1>4
<1>6. z + w > x + y
  <2> HIDE DEF x, y, z, w
  <2> QED BY <1>5
<1> QED BY <1>6

LEMMA DuelBegins == LoopInit /\ gameType = "2048" => DuelOK(game)
<1> SUFFICES ASSUME LoopInit, gameType = "2048" PROVE DuelOK(game)
  OBVIOUS
<1> DEFINE fresh == UNION {T!Spawned(g) : g \in T!Spawned([c \in T!Cells |-> 0])}
<1>1. PICK grid \in fresh : game = [board |-> [s \in {0, 1} |-> T!Board(grid)], turn |-> 0,
                                   status |-> "playing", winner |-> -1]
  BY DEF LoopInit, Begins, Game2048Begins, T!InitialStates
<1>2. /\ {"board", "turn", "status", "winner"} \subseteq DOMAIN game
      /\ game.board = [s \in {0, 1} |-> T!Board(grid)] /\ game.turn = 0 /\ game.winner = -1
      /\ game.status = "playing"
  BY <1>1
<1>3. IsBoard(T!Board(grid)) /\ T!Board(grid).moves = 0 /\ T!Board(grid).stuck = FALSE
  <2>1. T!LegalMoves(grid) # {}
    BY <1>1, FreshBoardMoves
  <2> QED BY <2>1 DEF IsBoard, T!Board
<1>4. ~ T!Done(T!Board(grid))
  BY <1>3, DuelAssumption DEF T!Done
<1> QED BY <1>2, <1>3, <1>4, DuelAssumption DEF DuelOK

-----------------------------------------------------------------------------
(* The winner of a match is one of its seats *)

ChessTurnOK == gameType = "chess" => game.turn \in {0, 1}
DuelInv     == gameType = "2048" => DuelOK(game)
WinnerSits  == SeatOrNobody(table.winner)

TypeInv == WinnerSits /\ DuelInv /\ ChessTurnOK

\* What is known of a match besides.
GamesInv == MissInv /\ ResultInv /\ UnoInv /\ WolfInv /\ MkInv

LEMMA TypesBegin == LoopInit => TypeInv
<1> SUFFICES ASSUME LoopInit PROVE TypeInv
  OBVIOUS
<1>1. table.winner = -1
  BY DEF LoopInit
<1>2. gameType = "chess" => game.turn = 0
  BY DEF LoopInit, Begins, ChessBegins
<1> QED BY <1>1, <1>2, DuelBegins DEF TypeInv, WinnerSits, SeatOrNobody, DuelInv, ChessTurnOK

LEMMA UnoWinner ==
  GamesInv /\ TypeInv /\ (UnoTurn \/ UnoFollowUp) => SeatOrNobody(table'.winner)
<1> SUFFICES ASSUME GamesInv, TypeInv, UnoTurn \/ UnoFollowUp PROVE SeatOrNobody(table'.winner)
  OBVIOUS
<1>1. /\ gameType = "uno" /\ IsTable(table) /\ SeatOrNobody(table.winner)
      /\ UnoKept(game', table')
  BY UnoTurnInv DEF GamesInv, MissInv, Kept, TypeInv, WinnerSits, UnoTurn, UnoFollowUp, Playing
<1>2. PICK h, drawn, answered : UnoNext(h, drawn, Asked(game.g.turn, answered))
  <2>1. CASE UnoTurn
    BY <2>1 DEF UnoTurn
  <2>2. CASE UnoFollowUp
    BY <2>2 DEF UnoFollowUp
  <2> QED BY <2>1, <2>2
<1> DEFINE t == Asked(game.g.turn, answered)
           over == h.status = "finished"
<1>3. IsTable(t) /\ SeatOrNobody(t.winner)
  BY <1>1, AskedTable, AskedWinner
<1>4. game'.g = h /\ (table' = t \/ table' = Concluded(t, over, "score", h.winner))
  BY <1>2 DEF UnoNext
<1>5. over => SeatOrNobody(h.winner)
  BY <1>1, <1>4 DEF UnoKept, UnoDecided, SeatOrNobody, Seats
<1> HIDE DEF t, over
<1> QED BY <1>3, <1>4, <1>5, ConcludedWinner

LEMMA DuelTypes ==
  GamesInv /\ TypeInv /\ Game2048Turn => SeatOrNobody(table'.winner) /\ DuelOK(game')
<1> SUFFICES ASSUME GamesInv, TypeInv, Game2048Turn PROVE SeatOrNobody(table'.winner) /\ DuelOK(game')
  OBVIOUS
<1>1. gameType = "2048" /\ IsTable(table) /\ SeatOrNobody(table.winner) /\ DuelOK(game)
  BY DEF GamesInv, MissInv, Kept, TypeInv, WinnerSits, DuelInv, Game2048Turn, Playing
<1>2. PICK answered, move : \E h \in T!AppliedMove(game, game.turn, move) :
        Game2048Next(h, Asked(game.turn, answered))
  BY DEF Game2048Turn
<1>3. PICK h \in T!AppliedMove(game, game.turn, move) : Game2048Next(h, Asked(game.turn, answered))
  BY <1>2
<1>4. DuelOK(h)
  BY <1>1, <1>3, MoveKeepsDuel
<1> DEFINE t == Asked(game.turn, answered)
           over == h.status = "finished"
           why == IF h.winner = -1 THEN "draw" ELSE "score"
<1>5. IsTable(t) /\ SeatOrNobody(t.winner)
  BY <1>1, AskedTable, AskedWinner
<1>6. game' = h /\ table' = Concluded(t, over, why, h.winner)
  BY <1>3 DEF Game2048Next
<1>7. SeatOrNobody(h.winner)
  BY <1>1, <1>4 DEF DuelOK, SeatOrNobody, Seats
<1> HIDE DEF t, over, why
<1> QED BY <1>4, <1>5, <1>6, <1>7, ConcludedWinner

LEMMA RepresentativeSits ==
  ASSUME NEW g, g.role \in RoleDeals
  PROVE  Representative(g) \in W!Sides \cup {-1}
<1>1. CASE g.winner \in {"VILLAGERS", "WEREWOLVES"}
  BY <1>1, RepresentativeOfTeam
<1>2. CASE g.winner \notin {"VILLAGERS", "WEREWOLVES"}
  BY <1>2 DEF Representative
<1> QED BY <1>1, <1>2

LEMMA WolfWinner == GamesInv /\ TypeInv /\ WerewolfTurn => SeatOrNobody(table'.winner)
<1> SUFFICES ASSUME GamesInv, TypeInv, WerewolfTurn PROVE SeatOrNobody(table'.winner)
  OBVIOUS
<1>1. /\ gameType = "werewolf" /\ IsTable(table) /\ SeatOrNobody(table.winner)
      /\ WolfOK(game')
  BY WolfTurnInv DEF GamesInv, MissInv, Kept, TypeInv, WinnerSits, WerewolfTurn, Playing
<1>2. PICK h, answered : WerewolfNext(h, Asked(game.active, answered))
  BY DEF WerewolfTurn
<1> DEFINE t == Asked(game.active, answered)
           over == h.status = "finished"
           why == IF h.winner = "DRAW" THEN "draw" ELSE "score"
           best == Representative(h)
<1>3. IsTable(t) /\ SeatOrNobody(t.winner)
  BY <1>1, AskedTable, AskedWinner
<1>4. game' = h /\ table' = Concluded(t, over, why, best)
  BY <1>2 DEF WerewolfNext
<1>5. SeatOrNobody(best)
  BY <1>1, <1>4, RepresentativeSits DEF WolfOK, People, SeatOrNobody, Seats
<1> HIDE DEF t, over, why, best
<1> QED BY <1>3, <1>4, <1>5, ConcludedWinner

LEMMA MkWinner ==
  GamesInv /\ TypeInv /\ (MkOrient \/ MkBorder \/ MkTribute \/ MkPlace) => SeatOrNobody(table'.winner)
<1> SUFFICES ASSUME GamesInv, TypeInv, MkOrient \/ MkBorder \/ MkTribute \/ MkPlace
             PROVE  SeatOrNobody(table'.winner)
  OBVIOUS
<1>1. /\ gameType = "marrakech" /\ IsTable(table) /\ SeatOrNobody(table.winner)
      /\ MkOK(game')
  BY MkTurnInv DEF GamesInv, MissInv, Kept, TypeInv, WinnerSits, MkOrient, MkBorder, MkTribute, MkPlace,
                   Playing
<1>2. ASSUME NEW h, NEW t, IsTable(t), SeatOrNobody(t.winner), MkNext(h, t)
      PROVE  SeatOrNobody(table'.winner)
  <2> DEFINE over == h.phase = "gameOver"
             c    == Concluded(t, over, "score", h.winner)
             best == MkAhead(h)
  <2>1. game' = h /\ table' = [c EXCEPT !.ahead = best]
    BY <1>2 DEF MkNext
  <2>2. over => SeatOrNobody(h.winner)
    BY <1>1, <2>1 DEF MkOK, MkGoes, MkDone, SeatOrNobody, Seats
  <2> HIDE DEF over
  <2>3. SeatOrNobody(c.winner)
    BY <1>2, <2>2, ConcludedWinner
  <2>4. IsTable(c)
    <3>1. over => c = Ended(t, "score", h.winner)
      BY DEF Concluded
    <3>2. ~ over => (\E w : c = Ended(t, "timeout", w)) \/ c = [t EXCEPT !.seen = t.timeouts]
      BY DEF Concluded
    <3> HIDE DEF c
    <3> QED BY <1>2, <3>1, <3>2, EndedTable, SeenTable
  <2> HIDE DEF c, best
  <2> QED BY <2>1, <2>3, <2>4, AheadTable
<1>3. ASSUME MkMiss PROVE SeatOrNobody(table'.winner)
  <2> DEFINE t == Counted(table, game.current)
             h == M!Advance(game)
  <2>1. IsTable(t) /\ SeatOrNobody(t.winner) /\ MkNext(h, t)
    BY <1>1, <1>3, CountedTable, CountedWinner DEF MkMiss
  <2> HIDE DEF t, h
  <2> QED BY <1>2, <2>1
<1>4. CASE table' = table
  BY <1>1, <1>4
<1>5. CASE \E h : MkNext(h, table)
  BY <1>1, <1>2, <1>5
<1>6. table' = table \/ (\E h : MkNext(h, table)) \/ MkMiss
  <2>1. CASE MkOrient
    BY <2>1 DEF MkOrient
  <2>2. CASE MkBorder
    BY <2>2 DEF MkBorder
  <2>3. CASE MkTribute
    BY <2>3 DEF MkTribute
  <2>4. CASE MkPlace
    BY <2>4 DEF MkPlace
  <2> QED BY <2>1, <2>2, <2>3, <2>4
<1> QED BY <1>3, <1>4, <1>5, <1>6

LEMMA ThrowsWinner == GamesInv /\ TypeInv /\ (RpsRound \/ RpsRevealed) => SeatOrNobody(table'.winner)
<1> SUFFICES ASSUME GamesInv, TypeInv, RpsRound \/ RpsRevealed PROVE SeatOrNobody(table'.winner)
  OBVIOUS
<1>1. /\ gameType = "rps" /\ IsTable(table) /\ SeatOrNobody(table.winner) /\ IsThrows(game)
  BY DEF GamesInv, MissInv, Kept, TypeInv, WinnerSits, ResultInv, Thrown, RpsRound, RpsRevealed, Playing
<1>2. CASE RpsRound
  <2>1. PICK missing \in SUBSET {0, 1} : table' \in RpsMissed(missing)
    BY <1>2 DEF RpsRound
  <2> DEFINE m == [s \in {0, 1} |-> table.missed[s] + Cardinality(missing \cap {s})]
             t == [table EXCEPT !.missed = m]
  <2>2. table' = t \/ \E f : table' = [t EXCEPT !.timeouts = f]
    BY <2>1 DEF RpsMissed
  <2>3. table = [status |-> table.status, timeouts |-> table.timeouts, seen |-> table.seen,
                 missed |-> table.missed, ahead |-> table.ahead, why |-> table.why,
                 winner |-> table.winner]
    BY <1>1 DEF IsTable
  <2> HIDE DEF m
  <2>4. t = [status |-> table.status, timeouts |-> table.timeouts, seen |-> table.seen,
             missed |-> m, ahead |-> table.ahead, why |-> table.why, winner |-> table.winner]
    BY <2>3
  <2> HIDE DEF t
  <2>5. table'.winner = table.winner
    BY <2>2, <2>4
  <2> QED BY <1>1, <2>5
<1>3. CASE RpsRevealed
  <2> DEFINE a == Ahead(game.scores)
             t == [table EXCEPT !.ahead = a]
             why == IF a = -1 THEN "draw" ELSE "score"
  <2>1. table' = IF RpsOver(game) THEN Ended(t, why, a) ELSE [t EXCEPT !.seen = t.timeouts]
    BY <1>3 DEF RpsRevealed
  <2>2. a \in {-1, 0, 1}
    <3>1. game.scores \in [{0, 1} -> Int]
      BY <1>1, WinsType DEF IsThrows
    <3> QED BY <3>1, AheadOfTwo
  <2>3. IsTable(t) /\ t.winner = table.winner
    BY <1>1, AheadTable
  <2> HIDE DEF t, a, why
  <2>4. SeatOrNobody(a)
    BY <1>1, <2>2 DEF SeatOrNobody, Seats
  <2>5. CASE RpsOver(game)
    BY <2>1, <2>3, <2>4, <2>5, EndedTable
  <2>6. CASE ~ RpsOver(game)
    BY <1>1, <2>1, <2>3, <2>6, EndedShape
  <2> QED BY <2>5, <2>6
<1> QED BY <1>2, <1>3

LEMMA ChessTypes ==
  GamesInv /\ TypeInv /\ (ChessTurn \/ ChessOver) => SeatOrNobody(table'.winner) /\ game'.turn \in {0, 1}
<1> SUFFICES ASSUME GamesInv, TypeInv, ChessTurn \/ ChessOver
             PROVE  SeatOrNobody(table'.winner) /\ game'.turn \in {0, 1}
  OBVIOUS
<1>1. /\ gameType = "chess" /\ IsTable(table) /\ SeatOrNobody(table.winner)
      /\ IsChess(game) /\ game.turn \in {0, 1}
  BY DEF GamesInv, MissInv, Kept, TypeInv, WinnerSits, ChessTurnOK, ChessTurn, ChessOver, Playing
<1>2. ASSUME NEW h, h.turn \in {0, 1}, NEW t, IsTable(t), SeatOrNobody(t.winner), NEW reported,
             ChessConcluded(h, t, reported)
      PROVE  SeatOrNobody(table'.winner) /\ game'.turn \in {0, 1}
  <2> DEFINE why == IF h.over = "draw" THEN "draw" ELSE "score"
             best == ChessWinner(h)
  <2>1. game' = h /\ table' = Concluded(t, reported, why, best)
    BY <1>2 DEF ChessConcluded
  <2>2. SeatOrNobody(best)
    BY <1>1, <1>2 DEF ChessWinner, SeatOrNobody, Seats
  <2> HIDE DEF why, best
  <2> QED BY <1>2, <2>1, <2>2, ConcludedWinner
<1>3. ASSUME NEW side PROVE IsTable(ChessMiss(side)) /\ SeatOrNobody(ChessMiss(side).winner)
  BY <1>1, CountedTable, CountedWinner DEF ChessMiss
<1>4. CASE ChessOver
  <2> DEFINE yes == TRUE
  <2>1. ChessConcluded(game, table, yes)
    BY <1>4 DEF ChessOver
  <2> HIDE DEF yes
  <2> QED BY <1>1, <1>2, <2>1
<1>5. CASE ChessTurn
  <2> DEFINE no == FALSE
  <2>1. CASE ChessConcluded(game, ChessMiss(game.turn), no)
    <3> HIDE DEF no
    <3> QED BY <1>1, <1>2, <1>3, <2>1
  <2>2. ASSUME NEW over,
               LET h == [game EXCEPT !.turn = 1 - @, !.over = over]
               IN  \/ ChessConcluded(h, table, over # "no")
                   \/ LET e == [h EXCEPT !.dbErrors = @ + 1]
                      IN  ChessConcluded(e, [ChessMiss(e.turn) EXCEPT !.missed = table.missed], no)
        PROVE  SeatOrNobody(table'.winner) /\ game'.turn \in {0, 1}
    <3> DEFINE h == [game EXCEPT !.turn = 1 - @, !.over = over]
               e == [h EXCEPT !.dbErrors = @ + 1]
               p == over # "no"
    <3>1. h.turn = 1 - game.turn /\ e.turn = 1 - game.turn
      BY <1>1, ChessMoves
    <3> DEFINE t == [ChessMiss(e.turn) EXCEPT !.missed = table.missed]
    <3>2. ChessConcluded(h, table, p) \/ ChessConcluded(e, t, no)
      BY <2>2
    <3> DEFINE c == ChessMiss(e.turn)
               f == table.missed
    <3>3. IsTable(c) /\ SeatOrNobody(c.winner)
      BY <1>3
    <3>4. f \in [Seats(gameType) -> Nat]
      BY <1>1 DEF IsTable
    <3>5. IsTable(t) /\ SeatOrNobody(t.winner)
      <4> HIDE DEF c, f
      <4>1. [c EXCEPT !.missed = f] =
              [status |-> c.status, timeouts |-> c.timeouts, seen |-> c.seen, missed |-> f,
               ahead |-> c.ahead, why |-> c.why, winner |-> c.winner]
        BY <3>3 DEF IsTable
      <4> DEFINE u == [c EXCEPT !.missed = f]
      <4>2. IsTable(u) /\ u.winner = c.winner
        <5> HIDE DEF u
        <5>1. /\ c.status \in {"active", "over"} /\ c.timeouts \in [Seats(gameType) -> Nat]
              /\ c.seen \in [Seats(gameType) -> Nat]
          BY <3>3 DEF IsTable
        <5>2. u = [status |-> c.status, timeouts |-> c.timeouts, seen |-> c.seen, missed |-> f,
               ahead |-> c.ahead, why |-> c.why, winner |-> c.winner]
          BY <4>1 DEF u
        <5> QED BY <3>4, <5>1, <5>2 DEF IsTable
      <4>3. t = u
        BY DEF c, f
      <4> HIDE DEF t, u
      <4> QED BY <3>3, <4>2, <4>3
    <3>6. 1 - game.turn \in {0, 1}
      BY <1>1
    <3> HIDE DEF h, e, t, p, no
    <3> QED BY <1>1, <1>2, <3>1, <3>2, <3>5, <3>6
  <2>3. \/ ChessConcluded(game, ChessMiss(game.turn), no)
        \/ \E over :
             LET h == [game EXCEPT !.turn = 1 - @, !.over = over]
             IN  \/ ChessConcluded(h, table, over # "no")
                 \/ LET e == [h EXCEPT !.dbErrors = @ + 1]
                    IN  ChessConcluded(e, [ChessMiss(e.turn) EXCEPT !.missed = table.missed], no)
    BY <1>5 DEF ChessTurn
  <2> HIDE DEF no
  <2> QED BY <2>1, <2>2, <2>3
<1> QED BY <1>4, <1>5

LEMMA BoardWinner == GamesInv /\ TypeInv /\ BoardTurn => SeatOrNobody(table'.winner)
<1> SUFFICES ASSUME GamesInv, TypeInv, BoardTurn PROVE SeatOrNobody(table'.winner)
  OBVIOUS
<1> DEFINE w == -1
<1>1. IsTable(table) /\ SeatOrNobody(table.winner) /\ SeatOrNobody(w)
  BY DEF GamesInv, MissInv, Kept, TypeInv, WinnerSits, SeatOrNobody
<1>2. table' = Concluded(table, BoardOver, "score", w)
  BY DEF BoardTurn
<1> HIDE DEF w
<1> QED BY <1>1, <1>2, ConcludedWinner

LEMMA ClockWinner == GamesInv /\ TypeInv /\ ClockFires => SeatOrNobody(table'.winner)
<1> SUFFICES ASSUME GamesInv, TypeInv, ClockFires PROVE SeatOrNobody(table'.winner)
  OBVIOUS
<1>1. /\ IsTable(table) /\ table.status = "active"
  BY DEF GamesInv, MissInv, Kept, ClockFires
<1>2. PICK winner \in OnTime : table' = Ended(table, "clock", winner)
  BY DEF ClockFires
<1>3. table'.winner = winner
  BY <1>1, <1>2, EndedTable
<1>4. SeatOrNobody(winner)
  <2>1. CASE gameType = "uno"
    <3> DEFINE f == [s \in U!Sides |-> -Cardinality(game.g.hand[s])]
    <3>1. winner = Ahead(f)
      BY <1>2, <2>1 DEF OnTime
    <3>2. DOMAIN f = Seats(gameType)
      BY <2>1 DEF Seats
    <3> HIDE DEF f
    <3> QED BY <3>1, <3>2, SeatsFinite, AheadIsSeat DEF SeatOrNobody
  <2>2. CASE gameType = "2048"
    <3> DEFINE f == [s \in {0, 1} |-> game.board[s].score]
    <3>1. winner = Ahead(f)
      BY <1>2, <2>2 DEF OnTime
    <3>2. DOMAIN f = Seats(gameType)
      BY <2>2 DEF Seats
    <3> HIDE DEF f
    <3> QED BY <3>1, <3>2, SeatsFinite, AheadIsSeat DEF SeatOrNobody
  <2>3. CASE gameType = "werewolf"
    <3>1. WolfScores(game', table') /\ People(game') /\ table'.why = "clock"
      BY <1>1, <1>2, <2>3, WolfClockInv, EndedTable DEF GamesInv, WolfOK
    <3>2. table'.winner \in W!Sides
      BY <3>1 DEF WolfScores, W!Others, People
    <3> QED BY <1>3, <2>3, <3>2 DEF SeatOrNobody, Seats
  <2>4. CASE gameType = "marrakech"
    <3>1. winner = table.ahead /\ table.ahead \in {-1, 0, 1}
      BY <1>2, <2>4 DEF OnTime, GamesInv, MkInv, MkScores
    <3> QED BY <2>4, <3>1 DEF SeatOrNobody, Seats
  <2>5. CASE gameType = "rps"
    <3> DEFINE a == Ahead(game.scores)
    <3>1. winner = IF a = -1 THEN table.ahead ELSE a
      BY <1>2, <2>5 DEF OnTime
    <3>2. IsThrows(game) /\ table.ahead \in {-1, 0, 1}
      BY <2>5 DEF GamesInv, ResultInv, Thrown
    <3>3. game.scores \in [{0, 1} -> Int]
      BY <3>2, WinsType DEF IsThrows
    <3>4. a \in {-1, 0, 1}
      BY <3>3, AheadOfTwo
    <3> HIDE DEF a
    <3> QED BY <2>5, <3>1, <3>2, <3>4 DEF SeatOrNobody, Seats
  <2>6. CASE gameType \notin {"uno", "2048", "werewolf", "marrakech", "rps"}
    <3>1. winner \in {-1, 0, 1} /\ (gameType # "chess" => winner = -1)
      BY <1>2, <2>6 DEF OnTime
    <3> QED BY <2>6, <3>1 DEF SeatOrNobody, Seats
  <2> QED BY <2>1, <2>2, <2>3, <2>4, <2>5, <2>6
<1> QED BY <1>3, <1>4

LEMMA TypeInvStep == GamesInv /\ TypeInv /\ [LoopNext]_allVars => TypeInv'
<1> SUFFICES ASSUME GamesInv, TypeInv, [LoopNext]_allVars PROVE TypeInv'
  OBVIOUS
<1>1. CASE Turn
  <2>1. gameType' = gameType
    BY <1>1 DEF Turn, UnoTurn, UnoFollowUp, Game2048Turn, WerewolfTurn, MkOrient, MkBorder,
                MkTribute, MkPlace, RpsRound, RpsRevealed, ChessTurn, ChessOver, BoardTurn, Playing
  <2>2. SeatOrNobody(table'.winner)
    BY <1>1, UnoWinner, DuelTypes, WolfWinner, MkWinner, ThrowsWinner, ChessTypes, BoardWinner DEF Turn
  <2>3. gameType = "2048" => Game2048Turn
    BY <1>1 DEF Turn, UnoTurn, UnoFollowUp, WerewolfTurn, MkOrient, MkBorder,
                MkTribute, MkPlace, RpsRound, RpsRevealed, ChessTurn, ChessOver, BoardTurn, Playing
  <2>4. gameType = "chess" => ChessTurn \/ ChessOver
    BY <1>1 DEF Turn, UnoTurn, UnoFollowUp, WerewolfTurn, MkOrient, MkBorder, Game2048Turn,
                MkTribute, MkPlace, RpsRound, RpsRevealed, BoardTurn, Playing
  <2>5. gameType = "2048" => DuelOK(game')
    BY <2>3, DuelTypes
  <2>6. gameType = "chess" => game'.turn \in {0, 1}
    BY <2>4, ChessTypes
  <2>7. DuelOK(game') => DuelOK(game)'
    BY DEF DuelOK, IsBoard
  <2> QED BY <2>1, <2>2, <2>5, <2>6, <2>7 DEF TypeInv, WinnerSits, DuelInv, ChessTurnOK, SeatOrNobody
<1>2. CASE ClockFires
  <2>1. gameType' = gameType /\ game' = game
    BY <1>2 DEF ClockFires
  <2>2. SeatOrNobody(table'.winner)
    BY <1>2, ClockWinner
  <2> QED BY <2>1, <2>2 DEF TypeInv, WinnerSits, DuelInv, ChessTurnOK, SeatOrNobody
<1>3. CASE PokerStep \/ Over \/ UNCHANGED allVars
  <2>1. gameType' = gameType /\ game' = game /\ table' = table
    BY <1>3 DEF PokerStep, Over, allVars, loopVars
  <2> QED BY <2>1 DEF TypeInv, WinnerSits, DuelInv, ChessTurnOK, SeatOrNobody
<1> QED BY <1>1, <1>2, <1>3 DEF LoopNext

\* The types of the engines and tables of all games, for any constants.
THEOREM GamesAreTyped == LoopSpec => []LoopTypeOK
<1>1. GamesInv /\ TypeInv /\ [LoopNext]_allVars => (GamesInv /\ TypeInv)'
  BY TypeInvStep, MissInvStep, ResultInvStep, UnoInvStep, WolfInvStep, MkInvStep DEF GamesInv
<1>2. LoopInit => GamesInv /\ TypeInv
  BY TypesBegin, MissInvInit, ResultBegins, UnoBegin, WolfBegins, MkBegins DEF GamesInv
<1>3. GamesInv /\ TypeInv /\ TypeOK => LoopTypeOK
  <2> SUFFICES ASSUME GamesInv, TypeInv, TypeOK PROVE LoopTypeOK
    OBVIOUS
  <2>1. /\ table.status \in {"active", "over"} /\ table.winner \in Seats(gameType) \cup {-1}
        /\ \A f \in {table.timeouts, table.seen, table.missed} : f \in [Seats(gameType) -> Nat]
    BY DEF GamesInv, MissInv, Kept, IsTable, TypeInv, WinnerSits, SeatOrNobody
  <2>2. OfType("uno") => game.g.turn \in U!Sides /\ game.g.color \in U!Colors
    BY DEF GamesInv, UnoInv, UnoKept, UnoCards, UnoTypes, OfType
  <2>3. OfType("2048") => \A s \in {0, 1} : game.board[s].moves \in 0 .. MaxMoves2048
    BY DEF TypeInv, DuelInv, DuelOK, OfType
  <2>4. OfType("werewolf") => game.cycle \in 1 .. MaxCycles /\ game.alive \subseteq W!Sides
    BY DEF GamesInv, WolfInv, WolfOK, People, OfType
  <2>5. OfType("marrakech") => game.pos \in M!Cells /\ game.left \in Nat
    BY DEF GamesInv, MkInv, MkOK, Purses, OnBoard, OfType
  <2>6. OfType("rps") => game.rounds \in 0 .. RpsMaxRounds
    BY DEF GamesInv, ResultInv, Thrown, IsThrows, OfType
  <2> QED BY <2>1, <2>2, <2>3, <2>4, <2>5, <2>6 DEF LoopTypeOK
<1> QED BY <1>1, <1>2, <1>3, PokerIsTyped, PTL DEF LoopSpec
-----------------------------------------------------------------------------
(* Werewolf: whoever is to act can, and every action brings the match on *)

\* Whoever is to act is alive and has not had its turn, and there is something to do.
Acts(g) ==
  /\ g.active \in g.alive /\ g.voted \in SUBSET W!Sides /\ g.talks \in [W!Sides -> Nat]
  /\ g.phase = "NIGHT_WOLVES" => g.active \in W!Wolves(g) \ g.voted
  /\ g.phase = "NIGHT_SEER" => g.active \in W!Seers(g) /\ W!Unchecked(g, g.active) # {}
  /\ g.phase = "DAY_VOTE" => g.active \notin g.voted
ActOK(g) == g.status = "playing" => Acts(g)

\* One state comes after another.
Later(h, g) == After(WerewolfProgress(h), WerewolfProgress(g))

Rank == [NIGHT_WOLVES |-> 0, NIGHT_SEER |-> 1, DAY_DISCUSSION |-> 2, DAY_VOTE |-> 3, FINISHED |-> 4]

LEMMA AfterTriple ==
  ASSUME NEW a, NEW b, NEW c, NEW x, NEW y, NEW z,
         a > x \/ (a = x /\ b > y) \/ (a = x /\ b = y /\ c > z)
  PROVE  After(<<a, b, c>>, <<x, y, z>>)
<1> DEFINE p == <<a, b, c>>
           q == <<x, y, z>>
<1>1. DOMAIN p = 1 .. 3 /\ p[1] = a /\ p[2] = b /\ p[3] = c /\ q[1] = x /\ q[2] = y /\ q[3] = z
  OBVIOUS
<1> HIDE DEF p, q
<1>2. CASE a > x
  <2>1. 1 \in DOMAIN p /\ p[1] > q[1] /\ \A j \in 1 .. 1 - 1 : p[j] = q[j]
    BY <1>1, <1>2
  <2> QED BY <2>1 DEF After, p, q
<1>3. CASE a = x /\ b > y
  <2>1. 2 \in DOMAIN p /\ p[2] > q[2] /\ \A j \in 1 .. 2 - 1 : p[j] = q[j]
    BY <1>1, <1>3
  <2> QED BY <2>1 DEF After, p, q
<1>4. CASE a = x /\ b = y /\ c > z
  <2>1. 3 \in DOMAIN p /\ p[3] > q[3] /\ \A j \in 1 .. 3 - 1 : p[j] = q[j]
    BY <1>1, <1>4
  <2> QED BY <2>1 DEF After, p, q
<1> QED BY <1>2, <1>3, <1>4

LEMMA LaterBy ==
  ASSUME NEW g, NEW h,
         \/ h.cycle > g.cycle
         \/ h.cycle = g.cycle /\ Rank[h.phase] > Rank[g.phase]
         \/ /\ h.cycle = g.cycle /\ h.phase = g.phase
            /\ IF g.phase = "DAY_DISCUSSION" THEN SumFunction(h.talks) > SumFunction(g.talks)
               ELSE W!Cardinality(h.voted) > W!Cardinality(g.voted)
  PROVE  Later(h, g)
<1> DEFINE last(k) == IF k.phase = "DAY_DISCUSSION" THEN SumFunction(k.talks) ELSE Cardinality(k.voted)
<1>1. \A k : WerewolfProgress(k) = <<k.cycle, Rank[k.phase], last(k)>>
  BY DEF WerewolfProgress, Rank
<1>2. \/ h.cycle > g.cycle
      \/ h.cycle = g.cycle /\ Rank[h.phase] > Rank[g.phase]
      \/ h.cycle = g.cycle /\ Rank[h.phase] = Rank[g.phase] /\ last(h) > last(g)
  BY WolfCounts
<1> HIDE DEF last
<1> QED BY <1>1, <1>2, AfterTriple DEF Later

LEMMA FirstIn == ASSUME NEW S \in SUBSET W!Sides, S # {} PROVE W!First(S) \in S /\ W!First(S) # W!None
<1>1. S \in SUBSET Int /\ IsFiniteSet(S) /\ S \in SUBSET Nat
  <2>1. IsFiniteSet(W!Sides) /\ W!Sides \in SUBSET Nat
    BY RolesAssumption
  <2>2. IsFiniteSet(S)
    BY ONLY <2>1, S \in SUBSET W!Sides, FS_Subset
  <2>3. S \in SUBSET Nat
    BY <2>1
  <2> QED BY <2>2, <2>3
<1>2. W!Min(S) = Min(S)
  BY DEF W!Min, Min
<1>3. W!First(S) = Min(S)
  BY <1>2 DEF W!First
<1> QED BY <1>1, <1>3, MinAndMax DEF W!None

LEMMA EndedActs ==
  ASSUME NEW g, IsWolf(g)
  PROVE  /\ ActOK(W!Ended(g)) /\ W!Ended(g).phase = "FINISHED" /\ W!Ended(g).cycle = g.cycle
         /\ LET d == W!Finished([g EXCEPT !.winner = "DRAW"])
            IN  ActOK(d) /\ d.phase = "FINISHED" /\ d.cycle = g.cycle
<1> DEFINE e == W!Ended(g)
           d == W!Finished([g EXCEPT !.winner = "DRAW"])
<1>1. e.status = "finished" /\ e.phase = "FINISHED" /\ e.cycle = g.cycle
  BY DEF W!Ended, W!Finished, IsWolf, WolfFields
<1>2. d.status = "finished" /\ d.phase = "FINISHED" /\ d.cycle = g.cycle
  BY DEF W!Finished, IsWolf, WolfFields
<1> HIDE DEF e, d
<1>3. ActOK(e) /\ ActOK(d)
  BY <1>1, <1>2 DEF ActOK
<1> QED BY <1>1, <1>2, <1>3 DEF e, d

LEMMA NobodyTalked == W!NoVotes \in [W!Sides -> Nat]
BY DEF W!NoVotes

\* Somebody is alive, and a wolf is, as long as nobody has won.
LEMMA SomebodyActs ==
  ASSUME NEW g, People(g), W!Won(g) = "none"
  PROVE  W!First(g.alive) \in g.alive /\ W!First(W!Wolves(g)) \in W!Wolves(g) /\ W!Wolves(g) \subseteq g.alive
<1>1. W!Wolves(g) # {} /\ W!Wolves(g) \subseteq g.alive /\ g.alive \in SUBSET W!Sides
  BY TeamsLeft DEF People, W!Wolves
<1>2. g.alive # {} /\ W!Wolves(g) \in SUBSET W!Sides
  BY <1>1
<1> QED BY <1>1, <1>2, FirstIn

LEMMA DayActs ==
  ASSUME NEW g, People(g), Playable(g)
  PROVE  ActOK(W!Day(g)) /\ W!Day(g).cycle = g.cycle /\ W!Day(g).phase \in {"DAY_DISCUSSION", "FINISHED"}
<1> DEFINE k == W!Killed(g, g.target)
           h == [k EXCEPT !.voted = {}, !.tally = W!NoVotes, !.target = W!None]
           d == [h EXCEPT !.phase = "DAY_DISCUSSION", !.talks = W!NoVotes, !.active = W!First(h.alive)]
<1>1. W!Day(g) = IF W!Won(h) # "none" THEN W!Ended(h) ELSE d
  BY DEF W!Day
<1>2. People(k) /\ k.cycle = g.cycle
  BY OneDies
<1> HIDE DEF k
<1>3. Same(k, h) /\ h.voted = {}
  BY <1>2 DEF Same, People, IsWolf, WolfFields
<1> HIDE DEF h
<1>4. People(h) /\ h.cycle = g.cycle
  BY <1>2, <1>3 DEF People, Same
<1>5. /\ Same(h, d) /\ d.phase = "DAY_DISCUSSION" /\ d.voted = {} /\ d.talks = W!NoVotes
      /\ d.active = W!First(h.alive) /\ d.cycle = g.cycle
  BY <1>3, <1>4 DEF Same, IsWolf, WolfFields
<1> HIDE DEF d
<1>6. CASE W!Won(h) # "none"
  BY <1>1, <1>4, <1>6, EndedActs DEF People
<1>7. CASE W!Won(h) = "none"
  <2>1. d.active \in d.alive
    BY <1>4, <1>5, <1>7, SomebodyActs DEF Same
  <2>2. ActOK(d)
    BY <1>5, <2>1, NobodyTalked DEF ActOK, Acts
  <2> QED BY <1>1, <1>5, <1>7, <2>2
<1> QED BY <1>6, <1>7

LEMMA AfterWolvesActs ==
  ASSUME NEW g, People(g), Playable(g), g.voted \in SUBSET W!Sides, g.talks \in [W!Sides -> Nat]
  PROVE  /\ ActOK(W!AfterWolves(g)) /\ W!AfterWolves(g).cycle = g.cycle
         /\ W!AfterWolves(g).phase \in {"NIGHT_SEER", "DAY_DISCUSSION", "FINISHED"}
<1> DEFINE seer == W!First(W!Seers(g))
           h    == [g EXCEPT !.phase = "NIGHT_SEER", !.active = seer]
<1>1. CASE seer # W!None /\ W!Unchecked(g, seer) # {}
  <2>1. W!AfterWolves(g) = h
    BY <1>1 DEF W!AfterWolves
  <2>2. /\ Same(g, h) /\ h.phase = "NIGHT_SEER" /\ h.active = seer /\ h.voted = g.voted
        /\ h.talks = g.talks /\ h.checked = g.checked
    BY DEF People, Same, IsWolf, WolfFields
  <2>3. W!Seers(g) # {} /\ W!Seers(g) \in SUBSET W!Sides /\ W!Seers(g) \subseteq g.alive
    BY <1>1 DEF W!First, W!Seers, People
  <2>4. seer \in W!Seers(g)
    BY <2>3, FirstIn
  <2> HIDE DEF h, seer
  <2>5. W!Seers(h) = W!Seers(g) /\ W!Unchecked(h, seer) = W!Unchecked(g, seer) /\ h.alive = g.alive
    BY <2>2 DEF Same, W!Seers, W!Unchecked
  <2>6. ActOK(h)
    BY <1>1, <2>2, <2>3, <2>4, <2>5 DEF ActOK, Acts
  <2> QED BY <2>1, <2>2, <2>6 DEF Same
<1>2. CASE ~ (seer # W!None /\ W!Unchecked(g, seer) # {})
  <2>1. W!AfterWolves(g) = W!Day(g)
    BY <1>2 DEF W!AfterWolves
  <2> QED BY <2>1, DayActs
<1> QED BY <1>1, <1>2

LEMMA InvestigateActs ==
  ASSUME NEW g, WolfOK(g), WolfGoes(g), Acts(g), g.phase = "NIGHT_SEER",
         NEW target, NEW n \in W!Investigate(g, target)
  PROVE  ActOK(n) /\ Later(n, g)
<1> DEFINE h == [g EXCEPT !.checked = @ \cup {target}]
<1>1. n = W!Day(h)
  BY DEF W!Investigate
<1>2. People(h) /\ Playable(h) /\ h.cycle = g.cycle
  BY DEF WolfOK, WolfGoes, Playable, People, IsWolf, WolfFields
<1> HIDE DEF h
<1>3. ActOK(n) /\ n.cycle = g.cycle /\ n.phase \in {"DAY_DISCUSSION", "FINISHED"}
  BY <1>1, <1>2, DayActs
<1>4. Rank[n.phase] > Rank[g.phase]
  BY <1>3 DEF Rank
<1> QED BY <1>3, <1>4, LaterBy

\* One more has voted.
LEMMA OneMoreVotes ==
  ASSUME NEW S \in SUBSET W!Sides, NEW x \in W!Sides, x \notin S
  PROVE  W!Cardinality(S \cup {x}) > W!Cardinality(S)
<1>1. IsFiniteSet(S)
  BY RolesAssumption, FS_Subset
<1> DEFINE a == Cardinality(S)
           b == Cardinality(S \cup {x})
<1>2. a \in Nat /\ b = a + 1
  BY <1>1, FS_CardinalityType, FS_AddElement
<1>3. W!Cardinality(S \cup {x}) = b /\ W!Cardinality(S) = a
  BY WolfCounts
<1> HIDE DEF a, b
<1> QED BY <1>2, <1>3

LEMMA VotedFields ==
  ASSUME NEW g, People(g), NEW side, NEW target
  PROVE  LET h == W!Voted(g, side, target)
         IN  /\ Same(g, h) /\ h.phase = g.phase /\ h.voted = g.voted \cup {side} /\ h.talks = g.talks
             /\ \A a : LET k == [h EXCEPT !.active = a]
                     IN  /\ Same(g, k) /\ k.phase = g.phase /\ k.voted = h.voted
                         /\ k.talks = g.talks /\ k.active = a
             /\ \A a : LET k == [h EXCEPT !.target = a]
                     IN  /\ Same(g, k) /\ k.phase = g.phase /\ k.voted = h.voted
                         /\ k.talks = g.talks
<1> DEFINE h == W!Voted(g, side, target)
<1>1. Same(g, h) /\ h.phase = g.phase /\ h.voted = g.voted \cup {side} /\ h.talks = g.talks
  BY DEF W!Voted, People, Same, IsWolf, WolfFields
<1> HIDE DEF h
<1>2. ASSUME NEW a
      PROVE  LET k == [h EXCEPT !.active = a]
             IN  /\ Same(g, k) /\ k.phase = g.phase /\ k.voted = h.voted
                 /\ k.talks = g.talks /\ k.active = a
  BY <1>1 DEF Same, IsWolf, WolfFields
<1>3. ASSUME NEW a
      PROVE  LET k == [h EXCEPT !.target = a]
             IN  Same(g, k) /\ k.phase = g.phase /\ k.voted = h.voted /\ k.talks = g.talks
  BY <1>1 DEF Same, IsWolf, WolfFields
<1> QED BY <1>1, <1>2, <1>3 DEF h

LEMMA NightVoteActs ==
  ASSUME NEW g, WolfOK(g), WolfGoes(g), Acts(g), g.phase = "NIGHT_WOLVES",
         NEW target, NEW n \in W!NightVote(g, g.active, target)
  PROVE  ActOK(n) /\ Later(n, g)
<1> DEFINE side == g.active
           h    == W!Voted(g, side, target)
           left == W!Wolves(h) \ h.voted
<1>1. \/ left # {} /\ n = [h EXCEPT !.active = W!First(left)]
      \/ \E t : n = W!AfterWolves([h EXCEPT !.target = t])
  BY DEF W!NightVote
<1>2. side \in W!Wolves(g) \ g.voted /\ W!Wolves(g) \in SUBSET W!Sides /\ g.voted \in SUBSET W!Sides
      /\ side \in W!Sides /\ g.talks \in [W!Sides -> Nat] /\ g.alive \in SUBSET W!Sides
  BY DEF Acts, W!Wolves, WolfOK, People
<1>3. /\ Same(g, h) /\ h.phase = g.phase /\ h.voted = g.voted \cup {side} /\ h.talks = g.talks
      /\ \A a : LET k == [h EXCEPT !.active = a]
              IN  /\ Same(g, k) /\ k.phase = g.phase /\ k.voted = h.voted
                  /\ k.talks = g.talks /\ k.active = a
      /\ \A a : LET k == [h EXCEPT !.target = a]
              IN  /\ Same(g, k) /\ k.phase = g.phase /\ k.voted = h.voted
                  /\ k.talks = g.talks
  BY VotedFields DEF WolfOK
<1> HIDE DEF h, side
<1>4. ASSUME left # {}, n = [h EXCEPT !.active = W!First(left)] PROVE ActOK(n) /\ Later(n, g)
  <2> DEFINE a == W!First(left)
  <2>1. W!Wolves(h) = W!Wolves(g) /\ a \in W!Wolves(h) \ h.voted
    <3>1. W!Wolves(h) = W!Wolves(g)
      BY <1>3, SameTeams DEF Same
    <3>2. left \in SUBSET W!Sides
      BY <1>2, <3>1
    <3>3. a \in left
      BY <1>4, <3>2, FirstIn
    <3> QED BY <3>1, <3>3
  <2> HIDE DEF a, left
  <2>2. Same(g, n) /\ n.phase = g.phase /\ n.voted = h.voted /\ n.talks = g.talks /\ n.active = a
    BY <1>3, <1>4 DEF a
  <2>3. W!Wolves(n) = W!Wolves(g) /\ n.alive = g.alive /\ n.cycle = g.cycle
    BY <2>2, SameTeams DEF Same
  <2>4. ActOK(n)
    BY <1>2, <1>3, <2>1, <2>2, <2>3 DEF ActOK, Acts, W!Wolves
  <2>5. W!Cardinality(n.voted) > W!Cardinality(g.voted)
    BY <1>2, <1>3, <2>2, OneMoreVotes
  <2> QED BY <2>2, <2>3, <2>4, <2>5, LaterBy
<1>5. ASSUME NEW t, n = W!AfterWolves([h EXCEPT !.target = t]) PROVE ActOK(n) /\ Later(n, g)
  <2> DEFINE k == [h EXCEPT !.target = t]
  <2>1. Same(g, k) /\ k.phase = g.phase /\ k.voted = g.voted \cup {side} /\ k.talks = g.talks
    BY <1>3
  <2> HIDE DEF k
  <2>2. People(k) /\ Playable(k) /\ k.voted \in SUBSET W!Sides /\ k.talks \in [W!Sides -> Nat]
        /\ k.cycle = g.cycle
    BY <1>2, <2>1 DEF WolfOK, WolfGoes, People, Same, Playable
  <2>3. /\ ActOK(n) /\ n.cycle = g.cycle
        /\ n.phase \in {"NIGHT_SEER", "DAY_DISCUSSION", "FINISHED"}
    BY <1>5, <2>2, AfterWolvesActs DEF k
  <2>4. Rank[n.phase] > Rank[g.phase]
    BY <2>3 DEF Rank
  <2> QED BY <2>3, <2>4, LaterBy
<1> QED BY <1>1, <1>4, <1>5

\* The day is over.
LEMMA NightActs ==
  ASSUME NEW g, People(g), Playable(g), g.talks \in [W!Sides -> Nat], g.phase = "DAY_VOTE"
  PROVE  /\ ActOK(W!Night(g))
         /\ W!Night(g).cycle > g.cycle \/ (W!Night(g).cycle = g.cycle /\ W!Night(g).phase = "FINISHED")
<1> DEFINE h == [g EXCEPT !.voted = {}, !.tally = W!NoVotes]
           n == [h EXCEPT !.cycle = @ + 1, !.phase = "NIGHT_WOLVES", !.active = W!First(W!Wolves(h))]
<1>1. W!Night(g) = IF W!Won(h) # "none" THEN W!Ended(h)
                   ELSE IF h.cycle >= MaxCycles THEN W!Finished([h EXCEPT !.winner = "DRAW"]) ELSE n
  BY DEF W!Night
<1>2. Same(g, h) /\ h.voted = {} /\ h.talks = g.talks
  BY DEF People, Same, IsWolf, WolfFields
<1> HIDE DEF h
<1>3. People(h) /\ h.cycle = g.cycle
  BY <1>2 DEF Same, People
<1>4. /\ n.role = h.role /\ n.alive = h.alive /\ n.cycle = h.cycle + 1 /\ n.talks = g.talks
      /\ n.phase = "NIGHT_WOLVES" /\ n.active = W!First(W!Wolves(h)) /\ n.voted = {}
  BY <1>2, <1>3 DEF People, IsWolf, WolfFields
<1> HIDE DEF n
<1>5. CASE W!Won(h) # "none"
  BY <1>1, <1>3, <1>5, EndedActs DEF People
<1>6. CASE W!Won(h) = "none" /\ h.cycle >= MaxCycles
  BY <1>1, <1>3, <1>6, EndedActs DEF People
<1>7. CASE W!Won(h) = "none" /\ ~ (h.cycle >= MaxCycles)
  <2>1. n.active \in W!Wolves(n) /\ n.active \in n.alive
    BY <1>3, <1>4, <1>7, SomebodyActs, SameTeams
  <2>2. ActOK(n)
    BY <1>4, <2>1 DEF ActOK, Acts
  <2>3. n.cycle > g.cycle
    BY <1>3, <1>4 DEF People
  <2> QED BY <1>1, <1>7, <2>2, <2>3
<1> QED BY <1>5, <1>6, <1>7

LEMMA DayVoteActs ==
  ASSUME NEW g, WolfOK(g), WolfGoes(g), Acts(g), g.phase = "DAY_VOTE",
         NEW target, NEW n \in W!DayVote(g, g.active, target)
  PROVE  ActOK(n) /\ Later(n, g)
<1> DEFINE side == g.active
           h    == W!Voted(g, side, target)
           left == h.alive \ h.voted
<1>1. \/ left # {} /\ n = [h EXCEPT !.active = W!First(left)]
      \/ \E x : n = W!Night(W!Killed(h, x))
      \/ n = W!Night(h)
  BY DEF W!DayVote
<1>2. /\ side \in g.alive /\ side \notin g.voted /\ g.voted \in SUBSET W!Sides
      /\ side \in W!Sides /\ g.talks \in [W!Sides -> Nat] /\ g.alive \in SUBSET W!Sides
  BY DEF Acts, WolfOK, People
<1>3. /\ Same(g, h) /\ h.phase = g.phase /\ h.voted = g.voted \cup {side} /\ h.talks = g.talks
      /\ \A a : LET k == [h EXCEPT !.active = a]
              IN  /\ Same(g, k) /\ k.phase = g.phase /\ k.voted = h.voted
                  /\ k.talks = g.talks /\ k.active = a
  BY VotedFields DEF WolfOK
<1> HIDE DEF h, side
<1>4. People(h) /\ Playable(h) /\ h.cycle = g.cycle /\ h.talks \in [W!Sides -> Nat] /\ h.phase = "DAY_VOTE"
  BY <1>2, <1>3 DEF Same, People, WolfOK, WolfGoes, Playable
<1>5. ASSUME left # {}, n = [h EXCEPT !.active = W!First(left)] PROVE ActOK(n) /\ Later(n, g)
  <2> DEFINE a == W!First(left)
  <2>1. a \in h.alive \ h.voted
    <3>1. left \in SUBSET W!Sides
      BY <1>2, <1>3 DEF Same
    <3> QED BY <1>5, <3>1, FirstIn
  <2> HIDE DEF a, left
  <2>2. Same(g, n) /\ n.phase = g.phase /\ n.voted = h.voted /\ n.talks = g.talks /\ n.active = a
    BY <1>3, <1>5 DEF a
  <2>3. ActOK(n)
    BY <1>2, <1>3, <2>1, <2>2 DEF ActOK, Acts, Same
  <2>4. W!Cardinality(n.voted) > W!Cardinality(g.voted)
    BY <1>2, <1>3, <2>2, OneMoreVotes
  <2> QED BY <2>2, <2>3, <2>4, LaterBy DEF Same
<1>6. ASSUME NEW k, People(k), Playable(k), k.cycle = g.cycle, k.talks \in [W!Sides -> Nat],
             k.phase = "DAY_VOTE", n = W!Night(k)
      PROVE  ActOK(n) /\ Later(n, g)
  <2>1. ActOK(n) /\ (n.cycle > g.cycle \/ (n.cycle = g.cycle /\ n.phase = "FINISHED"))
    BY <1>6, NightActs
  <2>2. n.phase = "FINISHED" => Rank[n.phase] > Rank[g.phase]
    BY DEF Rank
  <2> QED BY <2>1, <2>2, LaterBy
<1>7. ASSUME NEW x, n = W!Night(W!Killed(h, x)) PROVE ActOK(n) /\ Later(n, g)
  <2> DEFINE k == W!Killed(h, x)
  <2>1. /\ People(k) /\ k.cycle = h.cycle /\ k.status = h.status /\ k.winner = h.winner
        /\ k.phase = h.phase
    BY <1>4, OneDies
  <2>2. k.talks = h.talks
    BY <1>4 DEF W!Killed, People, IsWolf, WolfFields
  <2> HIDE DEF k
  <2> QED BY <1>4, <1>6, <1>7, <2>1, <2>2 DEF k, Playable
<1> QED BY <1>1, <1>4, <1>5, <1>6, <1>7

LEMMA SayActs ==
  ASSUME NEW g, WolfOK(g), WolfGoes(g), Acts(g), g.phase = "DAY_DISCUSSION",
         NEW n \in W!Say(g, g.active)
  PROVE  ActOK(n) /\ Later(n, g)
<1> DEFINE side == g.active
           talks == [g.talks EXCEPT ![side] = @ + 1]
           h == [g EXCEPT !.talks[side] = @ + 1]
           vote == [h EXCEPT !.phase = "DAY_VOTE", !.voted = {}, !.tally = W!NoVotes,
                             !.active = W!First(h.alive)]
           next == W!NextSpeaker(h)
           on   == [h EXCEPT !.active = next]
<1>1. (n = on /\ next # W!None) \/ n = vote
  BY DEF W!Say
<1>2. Same(g, h) /\ h.phase = g.phase /\ h.talks = talks /\ h.voted = g.voted
  BY DEF WolfOK, People, Same, IsWolf, WolfFields
<1>3. side \in W!Sides /\ g.talks \in [W!Sides -> Nat] /\ g.alive \in SUBSET W!Sides
  BY DEF Acts, WolfOK, People
<1>4. talks \in [W!Sides -> Nat] /\ SumFunction(talks) > SumFunction(g.talks)
  <2>1. IsFiniteSet(W!Sides) /\ DOMAIN g.talks = W!Sides /\ g.talks[side] \in Nat
    BY <1>3, RolesAssumption
  <2> DEFINE old == g.talks
             v   == old[side]
             a   == SumFunction(old)
             b   == SumFunction([old EXCEPT ![side] = v + 1])
  <2>2. a \in Nat
    BY <1>3, <2>1, SumType
  <2>3. b + v = a + (v + 1) /\ b \in Nat
    <3>1. v + 1 \in Nat /\ [old EXCEPT ![side] = v + 1] \in [W!Sides -> Nat]
      BY <1>3, <2>1
    <3>2. b \in Nat
      BY <2>1, <3>1, SumType
    <3> DEFINE m == v + 1
    <3>3. m \in Nat
      BY <3>1
    <3> HIDE DEF m, side, old
    <3>4. SumFunction([old EXCEPT ![side] = m]) + old[side] = SumFunction(old) + m
      BY <1>3, <2>1, <3>3, SumExcept DEF old
    <3> QED BY <3>2, <3>4 DEF m, old
  <2>4. b > a
    <3> HIDE DEF a, b, v
    <3>1. v \in Nat
      BY <2>1 DEF v
    <3> QED BY <2>2, <2>3, <3>1
  <2> QED BY <1>3, <2>1, <2>4
<1>5. People(h) /\ W!Won(h) = "none" /\ h.alive = g.alive
  BY <1>2, SameTeams DEF Same, WolfOK, WolfGoes, People
<1> HIDE DEF talks
<1>6. next # W!None => next \in h.alive
  <2> DEFINE ready == {s \in h.alive : h.talks[s] < MaxTalks}
             later == {s \in ready : s > h.active}
  <2>1. next = IF later # {} THEN W!Min(later) ELSE W!First(ready)
    BY DEF W!NextSpeaker
  <2>2. later \in SUBSET W!Sides /\ ready \in SUBSET W!Sides /\ later \subseteq h.alive /\ ready \subseteq h.alive
    BY <1>3, <1>5
  <2> HIDE DEF later, ready, h
  <2>3. later # {} => W!First(later) = W!Min(later)
    BY DEF W!First
  <2>4. ready = {} => W!First(ready) = W!None
    BY DEF W!First
  <2> QED BY <2>1, <2>2, <2>3, <2>4, FirstIn
<1> HIDE DEF h, next
<1>7. CASE n = on /\ next # W!None
  <2>1. /\ Same(g, n) /\ n.phase = g.phase /\ n.talks = talks /\ n.voted = g.voted
        /\ n.active = next
    BY <1>2, <1>7 DEF Same, IsWolf, WolfFields
  <2>2. ActOK(n)
    BY <1>4, <1>5, <1>6, <1>7, <2>1 DEF ActOK, Acts, Same
  <2> QED BY <1>4, <2>1, <2>2, LaterBy DEF Same
<1>8. CASE n = vote
  <2>1. /\ Same(g, n) /\ n.phase = "DAY_VOTE" /\ n.talks = talks /\ n.voted = {}
        /\ n.active = W!First(h.alive)
    BY <1>2, <1>8 DEF Same, IsWolf, WolfFields
  <2>2. n.active \in n.alive
    BY <1>5, <2>1, SomebodyActs DEF Same
  <2>3. ActOK(n)
    BY <1>4, <2>1, <2>2 DEF ActOK, Acts
  <2>4. Rank[n.phase] > Rank[g.phase]
    BY <2>1 DEF Rank
  <2> QED BY <2>1, <2>3, <2>4, LaterBy DEF Same
<1> QED BY <1>1, <1>7, <1>8

LEMMA ApplyActs ==
  ASSUME NEW g, WolfOK(g), WolfGoes(g), Acts(g), NEW action, NEW n \in W!Apply(g, g.active, action)
  PROVE  ActOK(n) /\ Later(n, g)
<1> DEFINE side == g.active
<1>1. CASE g.phase = "NIGHT_WOLVES"
  <2>1. n \in W!NightVote(g, side, action)
    BY <1>1 DEF W!Apply
  <2> QED BY <1>1, <2>1, NightVoteActs
<1>2. CASE g.phase = "NIGHT_SEER"
  <2>1. n \in W!Investigate(g, action)
    BY <1>2 DEF W!Apply
  <2> QED BY <1>2, <2>1, InvestigateActs
<1>3. CASE g.phase = "DAY_DISCUSSION"
  <2>1. n \in W!Say(g, side)
    BY <1>3 DEF W!Apply
  <2> QED BY <1>3, <2>1, SayActs
<1>4. CASE g.phase = "DAY_VOTE"
  <2>1. n \in W!DayVote(g, side, action)
    BY <1>4 DEF W!Apply
  <2> QED BY <1>4, <2>1, DayVoteActs
<1> QED BY <1>1, <1>2, <1>3, <1>4 DEF WolfGoes, AtNight, ByDay

\* Whoever is to act has something to do.
LEMMA ActsAreLegal ==
  ASSUME NEW g, WolfOK(g), WolfGoes(g), Acts(g)
  PROVE  W!LegalActions(g, g.active) # {}
<1>1. g.status # "finished" /\ g.active \in g.alive
  BY DEF WolfGoes, Playable, Acts
<1>2. W!Others(g) # {}
  BY TeamsLeft DEF WolfOK, WolfGoes
<1>3. W!LegalActions(g, g.active) =
        CASE g.phase = "NIGHT_WOLVES" ->
               IF g.active \in W!Wolves(g) /\ g.active \notin g.voted THEN W!Others(g) ELSE {}
          [] g.phase = "NIGHT_SEER" ->
               IF g.active \in W!Seers(g) THEN W!Unchecked(g, g.active) ELSE {}
          [] g.phase = "DAY_DISCUSSION" -> {"say"}
          [] g.phase = "DAY_VOTE" -> IF g.active \in g.voted THEN {} ELSE g.alive
  BY <1>1 DEF W!LegalActions
<1>4. CASE g.phase = "NIGHT_WOLVES"
  BY <1>2, <1>3, <1>4 DEF Acts
<1>5. CASE g.phase = "NIGHT_SEER"
  BY <1>3, <1>5 DEF Acts
<1>6. CASE g.phase = "DAY_DISCUSSION"
  BY <1>3, <1>6
<1>7. CASE g.phase = "DAY_VOTE"
  BY <1>1, <1>3, <1>7 DEF Acts
<1> QED BY <1>4, <1>5, <1>6, <1>7 DEF WolfGoes, AtNight, ByDay

ActInv == gameType = "werewolf" => ActOK(game)

LEMMA ActsBegin == LoopInit => ActInv
<1> SUFFICES ASSUME LoopInit, gameType = "werewolf" PROVE Acts(game)
  BY DEF ActInv, ActOK
<1>1. PICK roles \in RoleDeals :
        game = [role |-> roles, alive |-> W!Sides, phase |-> "NIGHT_WOLVES", cycle |-> 1,
                active |-> W!Min({s \in W!Sides : roles[s] = "WEREWOLF"}), voted |-> {},
                tally |-> W!NoVotes, target |-> W!None, checked |-> {}, talks |-> W!NoVotes,
                status |-> "playing", winner |-> "none"]
  BY DEF LoopInit, Begins, WerewolfBegins, W!InitialStates
<1> DEFINE wolves == {s \in W!Sides : roles[s] = "WEREWOLF"}
<1>2. /\ game.role = roles /\ game.alive = W!Sides /\ game.phase = "NIGHT_WOLVES"
      /\ game.active = W!Min(wolves) /\ game.voted = {} /\ game.talks = W!NoVotes
  BY <1>1
<1>3. wolves # {} /\ wolves \in SUBSET W!Sides
  BY TeamsMeet
<1>4. W!Wolves(game) = wolves
  BY <1>2 DEF W!Wolves
<1> HIDE DEF wolves
<1>5. game.active \in wolves
  BY <1>2, <1>3, FirstIn DEF W!First
<1> QED BY <1>2, <1>3, <1>4, <1>5, NobodyTalked DEF Acts

LEMMA WolfTurnActs == WolfInv /\ ActInv /\ WerewolfTurn => ActOK(game') /\ Later(game', game)
<1> SUFFICES ASSUME WolfInv, ActInv, WerewolfTurn PROVE ActOK(game') /\ Later(game', game)
  OBVIOUS
<1>1. gameType = "werewolf" /\ table.status = "active"
  BY DEF WerewolfTurn, Playing
<1>2. WolfOK(game) /\ WolfGoes(game) /\ Acts(game)
  BY <1>1 DEF WolfInv, WolfOK, WolfDone, WolfScores, ActInv, ActOK, WolfGoes, Playable
<1>3. PICK action : \E h \in W!Apply(game, game.active, action) : game' = h
  BY DEF WerewolfTurn, WerewolfNext
<1> QED BY <1>2, <1>3, ApplyActs

LEMMA ActInvStep == WolfInv /\ ActInv /\ [LoopNext]_allVars => ActInv'
<1> SUFFICES ASSUME WolfInv, ActInv, [LoopNext]_allVars, gameType' = "werewolf" PROVE ActOK(game')
  BY DEF ActInv
<1>1. CASE Turn \/ ClockFires
  <2>1. gameType = "werewolf" /\ (WerewolfTurn \/ (ClockFires /\ game' = game))
    BY <1>1 DEF Turn, UnoTurn, UnoFollowUp, Game2048Turn, WerewolfTurn, MkOrient, MkBorder,
                MkTribute, MkPlace, RpsRound, RpsRevealed, ChessTurn, ChessOver, BoardTurn,
                ClockFires, Playing
  <2> QED BY <2>1, WolfTurnActs DEF ActInv
<1>2. CASE PokerStep \/ Over \/ UNCHANGED allVars
  <2>1. gameType' = gameType /\ game' = game
    BY <1>2 DEF PokerStep, Over, allVars, loopVars
  <2> QED BY <2>1 DEF ActInv
<1> QED BY <1>1, <1>2 DEF LoopNext

-----------------------------------------------------------------------------
(* A side that is asked has something it can do *)

\* A match that is active is being played.
DuelGoes == gameType = "2048" /\ table.status = "active" => game.status = "playing"

CanActInv == ActInv /\ DuelGoes

LEMMA CanActBegins == LoopInit => CanActInv
<1> SUFFICES ASSUME LoopInit PROVE CanActInv
  OBVIOUS
<1>1. gameType = "2048" => game.status = "playing"
  BY DEF LoopInit, Begins, Game2048Begins, T!InitialStates
<1> QED BY <1>1, ActsBegin DEF CanActInv, DuelGoes

LEMMA DuelGoesOn == GamesInv /\ TypeInv /\ Game2048Turn => (table'.status = "active" => game'.status = "playing")
<1> SUFFICES ASSUME GamesInv, TypeInv, Game2048Turn, table'.status = "active" PROVE game'.status = "playing"
  OBVIOUS
<1>1. gameType = "2048" /\ IsTable(table) /\ DuelOK(game')
  BY DuelTypes DEF GamesInv, MissInv, Kept, Game2048Turn, Playing
<1>2. PICK answered, why : table' = Concluded(Asked(game.turn, answered), game'.status = "finished", why, game'.winner)
  BY DEF Game2048Turn, Game2048Next
<1> DEFINE t == Asked(game.turn, answered)
<1>3. IsTable(t)
  BY <1>1, AskedTable
<1> HIDE DEF t
<1>4. game'.status = "finished" => table' = Ended(t, why, game'.winner)
  BY <1>2 DEF Concluded, t
<1>5. game'.status # "finished"
  <2> DEFINE winner == game'.winner
  <2> HIDE DEF winner
  <2>1. table' = Ended(t, why, winner) => table'.status = "over"
    BY <1>3, EndedTable
  <2> QED BY <1>4, <2>1 DEF winner
<1> QED BY <1>1, <1>5 DEF DuelOK

LEMMA CanActStep == GamesInv /\ TypeInv /\ CanActInv /\ [LoopNext]_allVars => CanActInv'
<1> SUFFICES ASSUME GamesInv, TypeInv, CanActInv, [LoopNext]_allVars PROVE CanActInv'
  OBVIOUS
<1>1. ActInv'
  BY ActInvStep DEF GamesInv, CanActInv
<1>2. DuelGoes'
  <2>1. CASE Turn
    <3>1. gameType' = gameType /\ (gameType = "2048" => Game2048Turn)
      BY <2>1 DEF Turn, UnoTurn, UnoFollowUp, Game2048Turn, WerewolfTurn, MkOrient, MkBorder,
                  MkTribute, MkPlace, RpsRound, RpsRevealed, ChessTurn, ChessOver, BoardTurn, Playing
    <3> QED BY <3>1, DuelGoesOn DEF DuelGoes
  <2>2. CASE ClockFires
    <3>1. gameType' = gameType /\ game' = game /\ table.status = "active"
      BY <2>2 DEF ClockFires
    <3> QED BY <3>1 DEF DuelGoes, CanActInv
  <2>3. CASE PokerStep \/ Over \/ UNCHANGED allVars
    <3>1. gameType' = gameType /\ game' = game /\ table' = table
      BY <2>3 DEF PokerStep, Over, allVars, loopVars
    <3> QED BY <3>1 DEF DuelGoes, CanActInv
  <2> QED BY <2>1, <2>2, <2>3 DEF LoopNext
<1> QED BY <1>1, <1>2 DEF CanActInv

LEMMA DuelCanAct ==
  ASSUME TypeInv, CanActInv, gameType = "2048", table.status = "active"
  PROVE  /\ DuelOK(game) /\ game.status = "playing"
         /\ T!LegalMoves(game.board[game.turn].grid) # {}
         /\ game.board[game.turn].moves < MaxMoves2048
<1>1. DuelOK(game) /\ game.status = "playing" /\ ~ T!Done(game.board[game.turn])
  BY DEF TypeInv, DuelInv, CanActInv, DuelGoes, DuelOK
<1>2. IsBoard(game.board[game.turn]) /\ game.board[game.turn].moves \in 0 .. MaxMoves2048
  BY <1>1 DEF DuelOK
<1> DEFINE m == game.board[game.turn].moves
<1>3. ~ (m >= MaxMoves2048) /\ ~ game.board[game.turn].stuck
  BY <1>1 DEF T!Done
<1>4. m < MaxMoves2048
  <2>1. m \in Nat /\ MaxMoves2048 \in Nat
    BY <1>2, DuelAssumption
  <2> HIDE DEF m
  <2> QED BY <1>3, <2>1
<1> QED BY <1>1, <1>2, <1>3, <1>4 DEF IsBoard

LEMMA WolfCanAct ==
  ASSUME GamesInv, CanActInv, gameType = "werewolf", table.status = "active"
  PROVE  WolfOK(game) /\ WolfGoes(game) /\ Acts(game)
BY DEF GamesInv, WolfInv, WolfOK, WolfDone, WolfScores, CanActInv, ActInv, ActOK, WolfGoes, Playable

LEMMA CanActHolds == LoopSpec => [](GamesInv /\ TypeInv /\ CanActInv)
<1>1. GamesInv /\ TypeInv /\ CanActInv /\ [LoopNext]_allVars => (GamesInv /\ TypeInv /\ CanActInv)'
  BY CanActStep, TypeInvStep, MissInvStep, ResultInvStep, UnoInvStep, WolfInvStep, MkInvStep DEF GamesInv
<1>2. LoopInit => GamesInv /\ TypeInv /\ CanActInv
  BY CanActBegins, TypesBegin, MissInvInit, ResultBegins, UnoBegin, WolfBegins, MkBegins DEF GamesInv
<1> QED BY <1>1, <1>2, PTL DEF LoopSpec

\* 2048 for any board and werewolf for any deal: the side that is asked has a legal move, or
\* an action, while the match goes on.
THEOREM AskedCanActHolds == LoopSpec => []AskedCanAct
<1>1. GamesInv /\ TypeInv /\ CanActInv => AskedCanAct
  <2> SUFFICES ASSUME GamesInv, TypeInv, CanActInv, table.status = "active" PROVE AskedCanAct
    BY DEF AskedCanAct
  <2>1. gameType = "werewolf" => W!LegalActions(game, game.active) # {}
    BY WolfCanAct, ActsAreLegal
  <2> QED BY <2>1, DuelCanAct DEF AskedCanAct, OfType
<1> QED BY <1>1, CanActHolds, PTL

-----------------------------------------------------------------------------
(* The matches whose length is limited come to their end *)

LEMMA AfterPair ==
  ASSUME NEW a, NEW b, NEW x, NEW y, a > x \/ (a = x /\ b > y)
  PROVE  After(<<a, b>>, <<x, y>>)
<1> DEFINE p == <<a, b>>
           q == <<x, y>>
<1>1. DOMAIN p = 1 .. 2 /\ p[1] = a /\ p[2] = b /\ q[1] = x /\ q[2] = y
  OBVIOUS
<1> HIDE DEF p, q
<1>2. CASE a > x
  <2>1. 1 \in DOMAIN p /\ p[1] > q[1] /\ \A j \in 1 .. 1 - 1 : p[j] = q[j]
    BY <1>1, <1>2
  <2> QED BY <2>1 DEF After, p, q
<1>3. CASE a = x /\ b > y
  <2>1. 2 \in DOMAIN p /\ p[2] > q[2] /\ \A j \in 1 .. 2 - 1 : p[j] = q[j]
    BY <1>1, <1>3
  <2> QED BY <2>1 DEF After, p, q
<1> QED BY <1>2, <1>3

LEMMA ThrowsRunOut ==
  GamesInv /\ gameType = "rps" /\ Turn => After(RpsProgress(game'), RpsProgress(game))
<1> SUFFICES ASSUME GamesInv, gameType = "rps", Turn PROVE After(RpsProgress(game'), RpsProgress(game))
  OBVIOUS
<1>1. RpsRound \/ RpsRevealed
  BY DEF Turn, UnoTurn, UnoFollowUp, Game2048Turn, WerewolfTurn, MkOrient, MkBorder,
         MkTribute, MkPlace, ChessTurn, ChessOver, BoardTurn, Playing
<1>2. game.rounds \in Nat /\ IsThrows(game)
  BY DEF GamesInv, ResultInv, Thrown, IsThrows
<1>3. CASE RpsRound
  <2>1. game'.rounds = game.rounds + 1 /\ game'.phase = "revealing"
    BY <1>3 DEF RpsRound
  <2>2. game'.rounds > game.rounds
    BY <1>2, <2>1
  <2> QED BY <2>2, AfterPair DEF RpsProgress
<1>4. CASE RpsRevealed
  <2>1. game'.rounds = game.rounds /\ game'.phase = "waiting_moves" /\ game.phase = "revealing"
    BY <1>2, <1>4 DEF RpsRevealed, IsThrows
  <2>2. RpsProgress(game') = <<game'.rounds, 1>> /\ RpsProgress(game) = <<game.rounds, 0>>
    BY <2>1 DEF RpsProgress
  <2>3. 1 > 0
    OBVIOUS
  <2> QED BY <2>1, <2>2, <2>3, AfterPair
<1> QED BY <1>1, <1>3, <1>4

LEMMA DuelRunsOut ==
  TypeInv /\ CanActInv /\ gameType = "2048" /\ Turn =>
    game'.board[0].moves + game'.board[1].moves > game.board[0].moves + game.board[1].moves
<1> SUFFICES ASSUME TypeInv, CanActInv, gameType = "2048", Turn
             PROVE  game'.board[0].moves + game'.board[1].moves
                      > game.board[0].moves + game.board[1].moves
  OBVIOUS
<1>1. Game2048Turn /\ table.status = "active"
  BY DEF Turn, UnoTurn, UnoFollowUp, Game2048Turn, WerewolfTurn, MkOrient, MkBorder,
         MkTribute, MkPlace, RpsRound, RpsRevealed, ChessTurn, ChessOver, BoardTurn, Playing
<1> DEFINE grid == game.board[game.turn].grid
<1>2. DuelOK(game) /\ game.status = "playing" /\ T!LegalMoves(grid) # {}
  BY <1>1, DuelCanAct
<1>3. PICK answered \in Answers :
        \E move \in Game2048Replies(grid, answered) :
          \E h \in T!AppliedMove(game, game.turn, move) : game' = h
  BY <1>1 DEF Game2048Turn, Game2048Next
<1>4. PICK move \in Game2048Replies(grid, answered) :
        \E h \in T!AppliedMove(game, game.turn, move) : game' = h
  BY <1>3
<1>5. move \in T!LegalMoves(grid)
  <2> HIDE DEF grid
  <2> QED BY <1>2, <1>4, FirstIsLegal DEF Game2048Replies
<1>6. game' \in T!AppliedMove(game, game.turn, move)
  BY <1>4
<1> QED BY <1>2, <1>5, <1>6, MoveCounts

LEMMA AfterFour ==
  ASSUME NEW a, NEW b, NEW c, NEW d, NEW x, NEW y, NEW z, NEW w,
         \/ a > x
         \/ a = x /\ b > y
         \/ a = x /\ b = y /\ c > z
         \/ a = x /\ b = y /\ c = z /\ d > w
  PROVE  After(<<a, b, c, d>>, <<x, y, z, w>>)
<1> DEFINE p == <<a, b, c, d>>
           q == <<x, y, z, w>>
<1>1. /\ DOMAIN p = 1 .. 4 /\ p[1] = a /\ p[2] = b /\ p[3] = c /\ p[4] = d
      /\ q[1] = x /\ q[2] = y /\ q[3] = z /\ q[4] = w
  OBVIOUS
<1> HIDE DEF p, q
<1>2. CASE a > x
  <2>1. 1 \in DOMAIN p /\ p[1] > q[1] /\ \A j \in 1 .. 1 - 1 : p[j] = q[j]
    BY <1>1, <1>2
  <2> QED BY <2>1 DEF After, p, q
<1>3. CASE a = x /\ b > y
  <2>1. 2 \in DOMAIN p /\ p[2] > q[2] /\ \A j \in 1 .. 2 - 1 : p[j] = q[j]
    BY <1>1, <1>3
  <2> QED BY <2>1 DEF After, p, q
<1>4. CASE a = x /\ b = y /\ c > z
  <2>1. 3 \in DOMAIN p /\ p[3] > q[3] /\ \A j \in 1 .. 3 - 1 : p[j] = q[j]
    BY <1>1, <1>4
  <2> QED BY <2>1 DEF After, p, q
<1>5. CASE a = x /\ b = y /\ c = z /\ d > w
  <2>1. 4 \in DOMAIN p /\ p[4] > q[4] /\ \A j \in 1 .. 4 - 1 : p[j] = q[j]
    BY <1>1, <1>5
  <2> QED BY <2>1 DEF After, p, q
<1> QED BY <1>2, <1>3, <1>4, <1>5

StreetRank == [preflop |-> 0, flop |-> 1, turn |-> 2, river |-> 3, showdown |-> 4]
PhaseRank  == [act |-> 0, resolve |-> 1, resolved |-> 2, hand |-> 3, over |-> 4]

LEMMA PokerComesAfter ==
  \/ hand' > hand
  \/ hand' = hand /\ StreetRank[street'] > StreetRank[street]
  \/ hand' = hand /\ street' = street /\ PhaseRank[phase'] > PhaseRank[phase]
  \/ hand' = hand /\ street' = street /\ phase' = phase /\ Len(actions') > Len(actions)
  => After(PokerProgress', PokerProgress)
<1>1. PokerProgress = <<hand, StreetRank[street], PhaseRank[phase], Len(actions)>>
  BY DEF PokerProgress, StreetRank, PhaseRank
<1>2. PokerProgress' = <<hand', StreetRank[street'], PhaseRank[phase'], Len(actions')>>
  BY DEF PokerProgress, StreetRank, PhaseRank
<1> DEFINE s == StreetRank[street]
           r == StreetRank[street']
           p == PhaseRank[phase]
           q == PhaseRank[phase']
           m == Len(actions)
           n == Len(actions')
<1> SUFFICES ASSUME \/ hand' > hand
                    \/ hand' = hand /\ r > s
                    \/ hand' = hand /\ r = s /\ q > p
                    \/ hand' = hand /\ r = s /\ q = p /\ n > m
             PROVE  After(PokerProgress', PokerProgress)
  OBVIOUS
<1> HIDE DEF s, r, p, q, m, n
<1>3. After(<<hand', r, q, n>>, <<hand, s, p, m>>)
  BY AfterFour
<1> QED BY <1>1, <1>2, <1>3 DEF s, r, p, q, m, n

\* Every step of a match of poker but a restart brings an action, a phase, a street or a
\* hand more.
LEMMA PokerRunsOut ==
  PokerInv /\ Next => restarts' > restarts \/ After(PokerProgress', PokerProgress)
<1> SUFFICES ASSUME PokerInv, Next PROVE restarts' > restarts \/ After(PokerProgress', PokerProgress)
  OBVIOUS
<1>1. DealTypes /\ restarts \in Nat
  BY DEF PokerInv, PokerTypes, ClockTypes
<1>2. \A type, amount : Apply(type, amount) => Len(actions') > Len(actions) /\ hand' = hand /\ street' = street
  <2> SUFFICES ASSUME NEW type, NEW amount, Apply(type, amount)
               PROVE  Len(actions') > Len(actions) /\ hand' = hand /\ street' = street
    OBVIOUS
  <2>1. \E a : actions' = Append(actions, a)
    BY DEF Apply
  <2>2. actions \in Seq(Actions)
    BY <1>1 DEF DealTypes
  <2>3. Len(actions') = Len(actions) + 1 /\ Len(actions) \in Nat
    BY <2>1, <2>2
  <2>4. hand' = hand /\ street' = street
    BY DEF Apply
  <2> DEFINE m == Len(actions)
             n == Len(actions')
  <2>5. n > m
    <3>1. n = m + 1 /\ m \in Nat
      BY <2>3
    <3> HIDE DEF m, n
    <3> QED BY <3>1
  <2> QED BY <2>4, <2>5
<1>3. ASSUME hand' = hand, street' = street, phase' = "over", phase # "over"
      PROVE  After(PokerProgress', PokerProgress)
  <2>1. PhaseRank[phase'] > PhaseRank[phase]
    BY <1>1, <1>3 DEF PhaseRank, DealTypes
  <2> QED BY <1>3, <2>1, PokerComesAfter
<1>4. CASE LoopEnds
  BY <1>3, <1>4 DEF LoopEnds, EndTimedOut, EndMatch, deal
<1>5. CASE Deal
  <2>1. hand' = hand + 1 /\ hand \in Nat
    BY <1>1, <1>5 DEF Deal, DealTypes
  <2>2. hand' > hand
    BY <2>1
  <2> QED BY <2>2, PokerComesAfter
<1>6. CASE Answer
  <2>1. (\E type, amount : Apply(type, amount)) /\ phase' = phase
    BY <1>6 DEF Answer, ApplyLegal
  <2> QED BY <1>2, <2>1, PokerComesAfter
<1>7. CASE Miss
  <2>1. CASE Apply("fold", 0) /\ phase' = phase
    BY <1>2, <2>1, PokerComesAfter
  <2>2. CASE EndMatch("errors", 0) /\ UNCHANGED deal
    BY <1>3, <1>7, <2>2 DEF Miss, Asking, EndMatch, deal
  <2> QED BY <1>7, <2>1, <2>2 DEF Miss
<1>8. CASE AskThrows
  BY <1>3, <1>8 DEF AskThrows, Asking, deal
<1>9. CASE Advance
  <2>1. hand' = hand /\ street' = NextStreet[street] /\ street # "showdown"
    BY <1>9 DEF Advance, IsHandOver
  <2>2. StreetRank[street'] > StreetRank[street]
    BY <1>1, <2>1 DEF StreetRank, NextStreet, DealTypes, Streets
  <2> QED BY <2>1, <2>2, PokerComesAfter
<1>10. CASE Resolve
  <2>1. hand' = hand /\ street' \in {street, "showdown"} /\ phase \in {"act", "resolve"} /\ phase' = "resolved"
    BY <1>10 DEF Resolve
  <2>2. PhaseRank[phase'] > PhaseRank[phase]
    BY <2>1 DEF PhaseRank
  <2>3. street' = street \/ StreetRank[street'] > StreetRank[street]
    BY <1>1, <2>1 DEF StreetRank, DealTypes, Streets
  <2> QED BY <2>1, <2>2, <2>3, PokerComesAfter
<1>11. CASE AfterHand
  <2>1. hand' = hand /\ street' = street /\ phase = "resolved" /\ phase' \in {"over", "hand"}
    BY <1>11 DEF AfterHand, EndTimedOut, EndMatch, deal
  <2>2. PhaseRank[phase'] > PhaseRank[phase]
    BY <2>1 DEF PhaseRank
  <2> QED BY <2>1, <2>2, PokerComesAfter
<1>12. CASE Restart
  BY <1>1, <1>12 DEF Restart
<1> QED BY <1>4, <1>5, <1>6, <1>7, <1>8, <1>9, <1>10, <1>11, <1>12 DEF Next, Step

\* Throws, 2048, werewolf and poker, for any constants: every turn, whatever is answered or
\* missed, brings the match on; only a restart of poker takes a hand back.
THEOREM TurnsRunOutHolds == LoopSpec => TurnsRunOut
<1>1. ASSUME GamesInv, TypeInv, CanActInv, PokerInv, [LoopNext]_allVars
      PROVE  [/\ OfType("rps") => After(RpsProgress(game'), RpsProgress(game)) \/ table'.why = "clock"
              /\ OfType("2048") => game'.board[0].moves + game'.board[1].moves
                                      > game.board[0].moves + game.board[1].moves
                                   \/ table'.why = "clock"
              /\ OfType("werewolf") => \/ After(WerewolfProgress(game'), WerewolfProgress(game))
                                       \/ table'.why = "clock"
              /\ OfType("poker") => restarts' > restarts \/ After(PokerProgress', PokerProgress)]_allVars
  <2>1. CASE Turn
    <3>1. gameType # "poker" /\ (gameType = "werewolf" => WerewolfTurn)
      BY <2>1 DEF Turn, UnoTurn, UnoFollowUp, Game2048Turn, WerewolfTurn, MkOrient, MkBorder,
                  MkTribute, MkPlace, RpsRound, RpsRevealed, ChessTurn, ChessOver, BoardTurn, Playing
    <3>2. gameType = "werewolf" => After(WerewolfProgress(game'), WerewolfProgress(game))
      BY <1>1, <3>1, WolfTurnActs DEF GamesInv, CanActInv, Later
    <3> QED BY <1>1, <2>1, <3>1, <3>2, ThrowsRunOut, DuelRunsOut DEF OfType
  <2>2. CASE ClockFires
    <3>1. PICK winner : table' = Ended(table, "clock", winner)
      BY <2>2 DEF ClockFires
    <3>2. table'.why = "clock" /\ gameType # "poker"
      BY <1>1, <2>2, <3>1, EndedTable DEF GamesInv, MissInv, Kept, ClockFires
    <3> QED BY <3>2 DEF OfType
  <2>3. CASE PokerStep
    BY <1>1, <2>3, PokerRunsOut DEF PokerStep, OfType
  <2>4. CASE Over \/ UNCHANGED allVars
    BY <2>4 DEF Over, allVars
  <2> QED BY <1>1, <2>1, <2>2, <2>3, <2>4 DEF LoopNext
<1> QED BY <1>1, CanActHolds, LoopsPlayPoker, PokerInvHolds, PTL DEF LoopSpec, TurnsRunOut

-----------------------------------------------------------------------------
(* 2048: how a row is slid *)

SlidRows == [row : Seq(Nat), gained : Nat]
NoTiles  == [row |-> <<>>, gained |-> 0]

\* What the recursion of Slid makes of the tiles from i on.
Pair(t, i)    == i < Len(t) /\ t[i] = t[i + 1]
Merged(v, r)  == [row |-> <<2 * v>> \o r.row, gained |-> 2 * v + r.gained]
Stays(v, r)   == [row |-> <<v>> \o r.row, gained |-> r.gained]
SlideAt(t, f, i) ==
  IF i > Len(t) THEN NoTiles
  ELSE IF Pair(t, i) THEN Merged(t[i], f[i + 2]) ELSE Stays(t[i], f[i + 1])

Slides(t, f) == DOMAIN f = 1 .. Len(t) + 1 /\ \A i \in 1 .. Len(t) + 1 : f[i] = SlideAt(t, f, i)

LEMMA SlideTypes ==
  ASSUME NEW v \in Nat, NEW r \in SlidRows
  PROVE  Merged(v, r) \in SlidRows /\ Stays(v, r) \in SlidRows /\ NoTiles \in SlidRows
<1>1. r.row \in Seq(Nat) /\ r.gained \in Nat /\ 2 * v \in Nat
  BY DEF SlidRows
<1>2. <<v>> \o r.row \in Seq(Nat) /\ <<2 * v>> \o r.row \in Seq(Nat)
  BY <1>1, InFront
<1>3. <<>> \in Seq(Nat)
  OBVIOUS
<1> QED BY <1>1, <1>2, <1>3 DEF SlidRows, Merged, Stays, NoTiles

LEMMA StaysAlone ==
  ASSUME NEW v, NEW r \in SlidRows
  PROVE  [r EXCEPT !.row = <<v>> \o @] = Stays(v, r)
<1> DEFINE a == r.row
           b == r.gained
           t == <<v>> \o a
<1>1. r = [row |-> a, gained |-> b]
  BY DEF SlidRows
<1> HIDE DEF a, b, t
<1>2. [r EXCEPT !.row = t] = [row |-> t, gained |-> b]
  BY ONLY <1>1
<1> QED BY <1>2 DEF Stays, a, b, t

\* What holds at the end, and at a place if at all later ones, holds everywhere.
LEMMA FromTheEnd ==
  ASSUME NEW n \in Nat, NEW P \in SUBSET (1 .. n + 1), n + 1 \in P,
         \A i \in 1 .. n : (\A k \in 1 .. n + 1 : k > i => k \in P) => i \in P
  PROVE  P = 1 .. n + 1
<1> DEFINE Bad == (1 .. n + 1) \ P
<1>1. IsFiniteSet(1 .. n + 1)
  <2> DEFINE one == 1
             top == n + 1
  <2>1. one \in Int /\ top \in Int
    OBVIOUS
  <2> HIDE DEF one, top
  <2>2. IsFiniteSet(one .. top)
    BY ONLY <2>1, FS_Interval
  <2> QED BY ONLY <2>2 DEF one, top
<1>2. Bad \in SUBSET (1 .. n + 1) /\ Bad \in SUBSET Int
  OBVIOUS
<1>3. CASE Bad # {}
  <2>1. PICK m \in Bad : \A k \in Bad : m >= k
    <3> HIDE DEF Bad
    <3>1. IsFiniteSet(Bad)
      BY ONLY <1>1, <1>2, FS_Subset
    <3> QED BY <1>2, <1>3, <3>1, MostExists
  <2>2. m \in 1 .. n + 1 /\ m \notin P /\ \A k \in 1 .. n + 1 : k > m => k \in P
    BY <2>1
  <2>3. m \in 1 .. n
    BY <2>2
  <2> QED BY <2>2, <2>3
<1>4. CASE Bad = {}
  BY <1>4
<1> QED BY <1>3, <1>4

\* Rows that can be slid from i on can be slid as a whole.
LEMMA SlideExists ==
  ASSUME NEW t \in Seq(Nat)
  PROVE  \E f \in [1 .. Len(t) + 1 -> SlidRows] : Slides(t, f)
<1> DEFINE n == Len(t)
           Good(k) == \E f \in [k .. n + 1 -> SlidRows] : \A i \in k .. n + 1 : f[i] = SlideAt(t, f, i)
<1>1. n \in Nat /\ \A i \in 1 .. n : t[i] \in Nat
  OBVIOUS
<1>2. Good(n + 1)
  <2> DEFINE f == [i \in n + 1 .. n + 1 |-> NoTiles]
  <2>1. NoTiles \in SlidRows
    BY DEF NoTiles, SlidRows
  <2>2. \A i \in n + 1 .. n + 1 : i = n + 1 /\ i > Len(t)
    BY <1>1
  <2>3. f \in [n + 1 .. n + 1 -> SlidRows] /\ \A i \in n + 1 .. n + 1 : f[i] = SlideAt(t, f, i)
    BY <2>1, <2>2 DEF SlideAt
  <2> QED BY <2>3
<1>3. ASSUME NEW m \in 1 .. n, Good(m + 1) PROVE Good(m)
  <2>6. m \in 1 .. n /\ m + 1 \in 1 .. n + 1 /\ m + 1 > m /\ m \in Nat /\ n \in Nat
    <3> HIDE DEF n
    <3> QED BY <1>1, <1>3
  <2>7. PICK f \in [m + 1 .. n + 1 -> SlidRows] : \A i \in m + 1 .. n + 1 : f[i] = SlideAt(t, f, i)
    BY <1>3
  <2> DEFINE first == IF Pair(t, m) THEN Merged(t[m], f[m + 2]) ELSE Stays(t[m], f[m + 1])
             h == [i \in m .. n + 1 |-> IF i = m THEN first ELSE f[i]]
  <2>8. first \in SlidRows
    <3>1. f[m + 1] \in SlidRows /\ t[m] \in Nat
      BY <1>1, <2>6, <2>7
    <3>2. Pair(t, m) => f[m + 2] \in SlidRows
      BY <2>6, <2>7 DEF Pair
    <3> QED BY <3>1, <3>2, SlideTypes
  <2>9. h \in [m .. n + 1 -> SlidRows]
    <3> HIDE DEF first
    <3> QED BY <2>6, <2>7, <2>8
  <2>10. \A i \in m + 1 .. n + 1 : h[i] = f[i] /\ i # m
    <3> HIDE DEF first
    <3> QED BY <2>6
  <2>11. ASSUME NEW i \in m .. n + 1 PROVE h[i] = SlideAt(t, h, i)
    <3>1. i \in 1 .. n + 1
      BY <2>6
    <3>2. i <= n => h[i + 1] = f[i + 1]
      BY <2>6, <2>10
    <3>3. i <= n /\ Pair(t, i) => h[i + 2] = f[i + 2]
      BY <2>6, <2>10 DEF Pair
    <3>4. SlideAt(t, h, i) = SlideAt(t, f, i)
      <4> HIDE DEF h
      <4> QED BY <3>1, <3>2, <3>3 DEF SlideAt
    <3>5. CASE i = m
      <4>1. h[i] = first
        BY <2>6, <3>5
      <4>2. SlideAt(t, f, i) = first
        BY <2>6, <3>5 DEF SlideAt
      <4> QED BY <3>4, <4>1, <4>2
    <3>6. CASE i # m
      <4>1. i \in m + 1 .. n + 1
        BY <2>6, <3>6
      <4> QED BY <2>7, <2>10, <3>4, <4>1
    <3> QED BY <3>5, <3>6
  <2> HIDE DEF h
  <2> QED BY <2>9, <2>11
<1>4. {k \in 1 .. n + 1 : Good(k)} = 1 .. n + 1
  <2> DEFINE P == {k \in 1 .. n + 1 : Good(k)}
  <2> HIDE DEF Good, n
  <2>1. n + 1 \in P
    BY <1>1, <1>2
  <2>2. ASSUME NEW i \in 1 .. n, \A k \in 1 .. n + 1 : k > i => k \in P PROVE i \in P
    <3>1. i + 1 \in P
      BY <1>1, <2>2
    <3> QED BY <1>1, <1>3, <3>1
  <2>3. P \in SUBSET (1 .. n + 1) /\ n \in Nat
    BY <1>1
  <2> HIDE DEF P
  <2>4. P = 1 .. n + 1
    BY ONLY <2>1, <2>2, <2>3, FromTheEnd
  <2> QED BY <2>4 DEF P
<1>5. Good(1)
  <2>1. 1 \in 1 .. n + 1
    BY <1>1
  <2> HIDE DEF Good
  <2> QED BY <1>4, <2>1
<1>6. PICK f \in [1 .. n + 1 -> SlidRows] : \A i \in 1 .. n + 1 : f[i] = SlideAt(t, f, i)
  BY <1>5
<1> QED BY <1>6 DEF Slides

\* What Slid recurs on: a function from the places of the row, and the only one.
LEMMA SlidFrom ==
  ASSUME NEW t \in Seq(Nat)
  PROVE  \E f \in [1 .. Len(t) + 1 -> SlidRows] : Slides(t, f) /\ T!Slid(t) = f[1]
<1> DEFINE n == Len(t)
           from == CHOOSE f : f = SlideStep(t, f)
           P == {i \in 1 .. n + 1 : from[i] \in SlidRows}
<1>1. T!Slid(t) = from[1]
  BY DEF T!Slid, SlideStep
<1>2. n \in Nat /\ \A i \in 1 .. n : t[i] \in Nat
  OBVIOUS
<1>3. ASSUME NEW f, NEW i \in 1 .. n + 1, \A k \in 1 .. n + 1 : k > i => f[k] \in SlidRows
      PROVE  SlideStep(t, f)[i] = SlideAt(t, f, i)
  <2>1. CASE i > n
    BY <2>1 DEF SlideStep, SlideAt, NoTiles
  <2>2. CASE i <= n /\ Pair(t, i)
    <3>1. i < n /\ t[i] = t[i + 1]
      BY <2>2 DEF Pair
    <3>2. (IF i + 2 > n THEN f[n + 1] ELSE f[i + 2]) = f[i + 2]
      <4>1. i + 2 > n => i + 2 = n + 1
        BY <1>2, <3>1
      <4> QED BY <4>1
    <3> DEFINE both(rest) == [row |-> <<2 * t[i]>> \o rest.row, gained |-> 2 * t[i] + rest.gained]
    <3>3. SlideStep(t, f)[i] = both(IF i + 2 > n THEN f[n + 1] ELSE f[i + 2])
      <4> DEFINE alone(rest) == [rest EXCEPT !.row = <<t[i]>> \o @]
      <4>1. SlideStep(t, f)[i] =
              IF i > n THEN [row |-> <<>>, gained |-> 0]
              ELSE IF i < n /\ t[i] = t[i + 1] THEN both(IF i + 2 > n THEN f[n + 1] ELSE f[i + 2])
              ELSE alone(f[i + 1])
        BY DEF SlideStep
      <4>2. ~ (i > n)
        BY <1>2, <2>2
      <4> HIDE DEF both, alone, n
      <4> QED BY <3>1, <4>1, <4>2
    <3>4. both(f[i + 2]) = Merged(t[i], f[i + 2])
      BY DEF Merged
    <3> HIDE DEF both
    <3> QED BY <2>2, <3>2, <3>3, <3>4 DEF SlideAt
  <2>3. CASE i <= n /\ ~ Pair(t, i)
    <3> DEFINE with(rest) == [rest EXCEPT !.row = <<t[i]>> \o @]
    <3>1. SlideStep(t, f)[i] = with(f[i + 1])
      BY <2>3 DEF SlideStep, Pair
    <3>2. f[i + 1] \in SlidRows
      BY <1>2, <1>3, <2>3
    <3>3. with(f[i + 1]) = Stays(t[i], f[i + 1])
      BY <3>2, StaysAlone
    <3> HIDE DEF with
    <3> QED BY <2>3, <3>1, <3>3 DEF SlideAt
  <2> QED BY <1>2, <2>1, <2>2, <2>3
<1>4. from = SlideStep(t, from)
  <2>1. PICK f \in [1 .. n + 1 -> SlidRows] : Slides(t, f)
    BY SlideExists
  <2>2. \A i \in 1 .. n + 1 : f[i] = SlideStep(t, f)[i]
    BY <1>3, <2>1 DEF Slides
  <2>3. DOMAIN SlideStep(t, f) = 1 .. n + 1 /\ SlideStep(t, f) = [i \in 1 .. n + 1 |-> SlideStep(t, f)[i]]
    BY DEF SlideStep
  <2>4. f = SlideStep(t, f)
    BY <2>1, <2>2, <2>3
  <2> QED BY <2>4
<1> HIDE DEF from
<1>5. P = 1 .. n + 1
  <2>1. n + 1 \in P
    <3>1. from[n + 1] = SlideAt(t, from, n + 1)
      BY <1>2, <1>3, <1>4
    <3>2. SlideAt(t, from, n + 1) = NoTiles
      BY <1>2 DEF SlideAt
    <3>3. NoTiles \in SlidRows
      BY DEF NoTiles, SlidRows
    <3> QED BY <1>2, <3>1, <3>2, <3>3
  <2>2. ASSUME NEW i \in 1 .. n, \A k \in 1 .. n + 1 : k > i => k \in P PROVE i \in P
    <3>1. from[i] = SlideAt(t, from, i)
      BY <1>2, <1>3, <1>4, <2>2
    <3>2. from[i + 1] \in SlidRows /\ t[i] \in Nat
      BY <1>2, <2>2
    <3>3. Pair(t, i) => from[i + 2] \in SlidRows
      BY <1>2, <2>2 DEF Pair
    <3>4. SlideAt(t, from, i) \in SlidRows
      BY <1>2, <3>2, <3>3, SlideTypes DEF SlideAt
    <3> QED BY <1>2, <3>1, <3>4
  <2>3. P \in SUBSET (1 .. n + 1)
    OBVIOUS
  <2> HIDE DEF P
  <2> QED BY ONLY <1>2, <2>1, <2>2, <2>3, FromTheEnd
<1>6. \A i \in 1 .. n + 1 : from[i] \in SlidRows
  BY <1>5
<1>7. from \in [1 .. n + 1 -> SlidRows]
  <2>1. from = [i \in 1 .. n + 1 |-> SlideStep(t, from)[i]]
    BY <1>4 DEF SlideStep
  <2> QED BY <1>4, <1>6, <2>1
<1>8. Slides(t, from)
  BY <1>3, <1>4, <1>6, <1>7 DEF Slides
<1> QED BY <1>1, <1>7, <1>8

\* From which tile of the row t on the tile k of a slid row r was made, and the one after.
NextTile(t, r, from, k) == IF k = Len(r.row) THEN Len(t) + 1 ELSE from[k + 1]

MadeOfOne(t, r, from, k) ==
  /\ NextTile(t, r, from, k) = from[k] + 1 /\ r.row[k] = t[from[k]]
  /\ NextTile(t, r, from, k) <= Len(t) => t[NextTile(t, r, from, k)] # t[from[k]]

MadeOfTwo(t, r, from, k) ==
  /\ NextTile(t, r, from, k) = from[k] + 2 /\ t[from[k]] = t[from[k] + 1]
  /\ r.row[k] = 2 * t[from[k]]

\* The tiles from i on, slid: none is left out, and pairs are made from the front.
PairedFrom(t, r, i) ==
  \E from \in [1 .. Len(r.row) -> i .. Len(t)] :
     /\ i <= Len(t) => Len(r.row) > 0
     /\ Len(r.row) > 0 => from[1] = i
     /\ \A k \in 1 .. Len(r.row) : MadeOfOne(t, r, from, k) \/ MadeOfTwo(t, r, from, k)

LEMMA PairedInFront ==
  ASSUME NEW t \in Seq(Nat), NEW i \in 1 .. Len(t), NEW j \in i + 1 .. Len(t) + 1,
         NEW r \in SlidRows, NEW s \in SlidRows, PairedFrom(t, r, j), NEW v \in Nat,
         s.row = <<v>> \o r.row,
         \/ j = i + 1 /\ v = t[i] /\ (j <= Len(t) => t[j] # t[i])
         \/ j = i + 2 /\ v = 2 * t[i] /\ t[i] = t[i + 1]
  PROVE  PairedFrom(t, s, i)
<1> DEFINE n == Len(t)
           m == Len(r.row)
<1>1. n \in Nat /\ m \in Nat /\ r.row \in Seq(Nat)
  BY DEF SlidRows
<1>2. /\ Len(s.row) = m + 1 /\ s.row[1] = v
      /\ \A k \in 2 .. m + 1 : s.row[k] = r.row[k - 1]
  BY <1>1, InFront
<1>3. PICK g \in [1 .. m -> j .. n] :
        /\ j <= n => m > 0
        /\ m > 0 => g[1] = j
        /\ \A k \in 1 .. m : MadeOfOne(t, r, g, k) \/ MadeOfTwo(t, r, g, k)
  BY DEF PairedFrom
<1> DEFINE h == [k \in 1 .. m + 1 |-> IF k = 1 THEN i ELSE g[k - 1]]
<1> HIDE DEF n, m
<1>4. h \in [1 .. m + 1 -> i .. n]
  <2>1. ASSUME NEW k \in 1 .. m + 1 PROVE h[k] \in i .. n
    <3>1. k # 1 => g[k - 1] \in j .. n
      BY <1>1, <1>3
    <3> QED BY <1>1, <3>1 DEF n
  <2> QED BY <2>1
<1>5. h[1] = i /\ \A k \in 1 .. m : h[k + 1] = g[k]
  BY <1>1
<1> HIDE DEF h
<1>6. NextTile(t, s, h, 1) = j
  <2>1. CASE m = 0
    <3>1. j = n + 1
      BY <1>1, <1>3, <2>1 DEF n
    <3> QED BY <1>2, <2>1, <3>1 DEF NextTile, n
  <2>2. CASE m # 0
    BY <1>1, <1>2, <1>3, <1>5, <2>2 DEF NextTile
  <2> QED BY <2>1, <2>2
<1>7. MadeOfOne(t, s, h, 1) \/ MadeOfTwo(t, s, h, 1)
  BY <1>2, <1>5, <1>6 DEF MadeOfOne, MadeOfTwo
<1>8. ASSUME NEW k \in 1 .. m PROVE MadeOfOne(t, s, h, k + 1) \/ MadeOfTwo(t, s, h, k + 1)
  <2>1. h[k + 1] = g[k] /\ s.row[k + 1] = r.row[k]
    <3>1. k + 1 \in 2 .. m + 1 /\ (k + 1) - 1 = k
      BY <1>1
    <3>2. s.row[k + 1] = r.row[(k + 1) - 1]
      BY <1>2, <3>1
    <3> QED BY <1>5, <3>1, <3>2
  <2>2. NextTile(t, s, h, k + 1) = NextTile(t, r, g, k)
    <3>1. CASE k = m
      BY <1>1, <1>2, <3>1 DEF NextTile, m
    <3>2. CASE k # m
      <4>1. k + 1 \in 1 .. m /\ k + 1 # m + 1
        BY <1>1, <3>2
      <4>2. h[(k + 1) + 1] = g[k + 1]
        BY <1>5, <4>1
      <4> QED BY <1>2, <3>2, <4>1, <4>2 DEF NextTile, m
    <3> QED BY <3>1, <3>2
  <2> QED BY <1>3, <2>1, <2>2 DEF MadeOfOne, MadeOfTwo
<1>9. \A k \in 1 .. m + 1 : MadeOfOne(t, s, h, k) \/ MadeOfTwo(t, s, h, k)
  <2>1. \A k \in 1 .. m + 1 : k = 1 \/ (k - 1 \in 1 .. m /\ (k - 1) + 1 = k)
    BY <1>1
  <2> QED BY <1>7, <1>8, <2>1
<1>10. Len(s.row) > 0 /\ h \in [1 .. Len(s.row) -> i .. Len(t)]
  BY <1>1, <1>2, <1>4 DEF n
<1>11. \A k \in 1 .. Len(s.row) : MadeOfOne(t, s, h, k) \/ MadeOfTwo(t, s, h, k)
  BY <1>2, <1>9
<1> QED BY <1>5, <1>10, <1>11 DEF PairedFrom

LEMMA SlidInPairs ==
  ASSUME NEW t \in Seq(Nat)
  PROVE  T!Slid(t) \in SlidRows /\ PairedFrom(t, T!Slid(t), 1)
<1> DEFINE n == Len(t)
<1>1. PICK f \in [1 .. n + 1 -> SlidRows] : Slides(t, f) /\ T!Slid(t) = f[1]
  BY SlidFrom
<1>2. n \in Nat /\ \A i \in 1 .. n : t[i] \in Nat
  OBVIOUS
<1> DEFINE P == {i \in 1 .. n + 1 : PairedFrom(t, f[i], i)}
<1>3. n + 1 \in P
  <2>1. f[n + 1] = NoTiles
    BY <1>1, <1>2 DEF Slides, SlideAt
  <2>2. Len(f[n + 1].row) = 0
    BY <2>1 DEF NoTiles
  <2>3. \E g : g \in [1 .. 0 -> n + 1 .. n]
    <3>1. [k \in 1 .. 0 |-> 0] \in [1 .. 0 -> n + 1 .. n]
      OBVIOUS
    <3> QED BY <3>1
  <2>4. PairedFrom(t, f[n + 1], n + 1)
    <3>1. PICK g : g \in [1 .. 0 -> n + 1 .. n]
      BY <2>3
    <3>2. ~ (n + 1 <= n) /\ ~ (0 > 0) /\ \A k \in 1 .. 0 : FALSE
      BY <1>2
    <3> QED BY <2>2, <3>1, <3>2 DEF PairedFrom
  <2> QED BY <1>2, <2>4
<1>4. ASSUME NEW i \in 1 .. n, \A k \in 1 .. n + 1 : k > i => k \in P PROVE i \in P
  <2>1. f[i] = SlideAt(t, f, i) /\ f[i] \in SlidRows /\ t[i] \in Nat /\ ~ (i > Len(t))
    BY <1>1, <1>2 DEF Slides
  <2>2. CASE Pair(t, i)
    <3>1. i + 2 \in i + 1 .. n + 1 /\ t[i] = t[i + 1]
      BY <1>2, <2>2 DEF Pair
    <3>2. f[i] = Merged(t[i], f[i + 2])
      BY <2>1, <2>2 DEF SlideAt
    <3>3. f[i].row = <<2 * t[i]>> \o f[i + 2].row
      BY <3>2 DEF Merged
    <3>4. f[i + 2] \in SlidRows /\ PairedFrom(t, f[i + 2], i + 2)
      BY <1>1, <1>2, <1>4, <3>1
    <3>5. PairedFrom(t, f[i], i)
      <4> DEFINE j == i + 2
                 v == 2 * t[i]
      <4>1. j \in i + 1 .. Len(t) + 1 /\ v \in Nat /\ j = i + 2 /\ v = 2 * t[i]
        BY <2>1, <3>1
      <4>2. f[i].row = <<v>> \o f[j].row /\ f[j] \in SlidRows /\ PairedFrom(t, f[j], j)
        BY <3>3, <3>4
      <4> HIDE DEF j, v, P
      <4> QED BY <2>1, <3>1, <4>1, <4>2, PairedInFront
    <3> QED BY <1>2, <3>5
  <2>3. CASE ~ Pair(t, i)
    <3>1. i + 1 \in i + 1 .. n + 1 /\ (i + 1 <= n => t[i + 1] # t[i])
      BY <1>2, <2>3 DEF Pair
    <3>2. f[i] = Stays(t[i], f[i + 1])
      BY <2>1, <2>3 DEF SlideAt
    <3>3. f[i].row = <<t[i]>> \o f[i + 1].row
      BY <3>2 DEF Stays
    <3>4. f[i + 1] \in SlidRows /\ PairedFrom(t, f[i + 1], i + 1)
      <4>1. i + 1 \in 1 .. n + 1 /\ i + 1 > i
        BY <1>2
      <4>2. i + 1 \in P
        BY <1>4, <4>1
      <4> QED BY <1>1, <4>1, <4>2
    <3>5. PairedFrom(t, f[i], i)
      BY <2>1, <3>1, <3>3, <3>4, PairedInFront
    <3> QED BY <1>2, <3>5
  <2> QED BY <2>2, <2>3
<1>5. P = 1 .. n + 1
  <2>1. P \in SUBSET (1 .. n + 1)
    OBVIOUS
  <2> HIDE DEF P
  <2> QED BY ONLY <1>2, <1>3, <1>4, <2>1, FromTheEnd
<1>6. 1 \in P
  BY <1>2, <1>5
<1> QED BY <1>1, <1>2, <1>6

\* 2048: whatever is on a row, sliding it leaves no tile out and merges pairs from the front,
\* each tile once.
THEOREM PairsMergeOnceHolds == LoopSpec => []PairsMergeOnce
<1>1. PairsMergeOnce
  <2> SUFFICES ASSUME NEW m \in 1 .. 4, NEW row \in [1 .. m -> {2, 4, 8}]
               PROVE  LET res == T!Slid(row)
                          n   == Len(res.row)
                      IN  \E from \in [1 .. n -> 1 .. Len(row)] :
                            LET next == [k \in 1 .. n |-> IF k = n THEN Len(row) + 1 ELSE from[k + 1]]
                            IN  /\ from[1] = 1
                                /\ \A k \in 1 .. n :
                                     \/ /\ next[k] = from[k] + 1 /\ res.row[k] = row[from[k]]
                                        /\ next[k] <= Len(row) => row[next[k]] # row[from[k]]
                                     \/ /\ next[k] = from[k] + 2 /\ row[from[k]] = row[from[k] + 1]
                                        /\ res.row[k] = 2 * row[from[k]]
    BY DEF PairsMergeOnce
  <2> DEFINE res == T!Slid(row)
             n   == Len(res.row)
  <2>1. row \in Seq(Nat) /\ Len(row) = m /\ 1 <= Len(row)
    OBVIOUS
  <2>2. PICK from \in [1 .. n -> 1 .. Len(row)] :
          /\ n > 0 /\ from[1] = 1
          /\ \A k \in 1 .. n : MadeOfOne(row, res, from, k) \/ MadeOfTwo(row, res, from, k)
    BY <2>1, SlidInPairs DEF PairedFrom
  <2> DEFINE next == [k \in 1 .. n |-> IF k = n THEN Len(row) + 1 ELSE from[k + 1]]
  <2>3. \A k \in 1 .. n : next[k] = NextTile(row, res, from, k)
    BY DEF NextTile
  <2> HIDE DEF next, res
  <2>4. \A k \in 1 .. n :
           \/ /\ next[k] = from[k] + 1 /\ res.row[k] = row[from[k]]
              /\ next[k] <= Len(row) => row[next[k]] # row[from[k]]
           \/ /\ next[k] = from[k] + 2 /\ row[from[k]] = row[from[k] + 1]
              /\ res.row[k] = 2 * row[from[k]]
    BY <2>2, <2>3 DEF MadeOfOne, MadeOfTwo
  <2> QED BY <2>2, <2>4 DEF next, res
<1> QED BY <1>1, PTL

-----------------------------------------------------------------------------
(* 2048: what merging earns *)

LEMMA GainsAreSummed == \A f : T!FoldFunction(+, 0, f) = SumFunction(f)
BY DEF T!FoldFunction, T!FoldFunctionOnSet, T!MapThenFoldSet, SumFunction, SumFunctionOnSet,
       FoldFunctionOnSet, MapThenFoldSet

\* What holds at a number if at all lesser ones holds for all.
LEMMA FromTheStart ==
  ASSUME NEW n \in Nat, NEW P \in SUBSET (0 .. n),
         \A i \in 0 .. n : (\A k \in 0 .. n : k < i => k \in P) => i \in P
  PROVE  P = 0 .. n
<1> DEFINE Bad == (0 .. n) \ P
<1>1. IsFiniteSet(0 .. n)
  <2> DEFINE zero == 0
  <2>1. zero \in Int /\ n \in Int
    OBVIOUS
  <2> HIDE DEF zero
  <2>2. IsFiniteSet(zero .. n)
    BY ONLY <2>1, FS_Interval
  <2> QED BY ONLY <2>2 DEF zero
<1>2. Bad \in SUBSET (0 .. n) /\ Bad \in SUBSET Int
  OBVIOUS
<1>3. CASE Bad # {}
  <2>1. PICK m \in Bad : \A k \in Bad : m <= k
    <3> HIDE DEF Bad
    <3>1. IsFiniteSet(Bad)
      BY ONLY <1>1, <1>2, FS_Subset
    <3> QED BY <1>2, <1>3, <3>1, MostExists
  <2>2. m \in 0 .. n /\ m \notin P /\ \A k \in 0 .. n : k < m => k \in P
    BY <2>1
  <2> QED BY <2>2
<1>4. CASE Bad = {}
  BY <1>4
<1> QED BY <1>3, <1>4

\* The recursion of Earned, up to N.
EarnedAt(f, v) == IF v <= 2 THEN 0 ELSE v + 2 * f[v \div 2]
Earns(f, N)    == f \in [0 .. N -> Nat] /\ \A v \in 0 .. N : f[v] = EarnedAt(f, v)

LEMMA HalfIsLess == \A v \in Nat : v > 2 => v \div 2 \in 1 .. v - 1
OBVIOUS

LEMMA EarnsAlike ==
  ASSUME NEW N \in Nat, NEW K \in Nat, N <= K, NEW f, NEW g, Earns(f, N), Earns(g, K)
  PROVE  \A v \in 0 .. N : f[v] = g[v]
<1> DEFINE P == {v \in 0 .. N : f[v] = g[v]}
<1>1. ASSUME NEW i \in 0 .. N, \A k \in 0 .. N : k < i => k \in P PROVE i \in P
  <2>1. i \in Nat /\ i \in 0 .. K
    OBVIOUS
  <2>2. f[i] = EarnedAt(f, i) /\ g[i] = EarnedAt(g, i)
    BY <2>1 DEF Earns
  <2>3. CASE i <= 2
    BY <2>2, <2>3 DEF EarnedAt
  <2>4. CASE i > 2
    <3> DEFINE h == i \div 2
    <3>1. h \in 1 .. i - 1
      BY <2>1, <2>4, HalfIsLess
    <3> HIDE DEF h
    <3>2. h \in 0 .. N /\ h < i
      BY <2>1, <3>1
    <3>3. f[h] = g[h]
      BY <1>1, <3>2
    <3>4. EarnedAt(f, i) = EarnedAt(g, i)
      BY <3>3 DEF EarnedAt, h
    <3> QED BY <2>2, <3>4
  <2> QED BY <2>1, <2>3, <2>4
<1>2. P \in SUBSET (0 .. N)
  OBVIOUS
<1>3. P = 0 .. N
  <2> HIDE DEF P
  <2> QED BY ONLY <1>1, <1>2, N \in Nat, FromTheStart
<1> QED BY <1>3

LEMMA EarnsExist ==
  ASSUME NEW N \in Nat
  PROVE  \E f : Earns(f, N)
<1> DEFINE Good(k) == \E f : Earns(f, k)
           P == {k \in 0 .. N : Good(k)}
<1>1. ASSUME NEW i \in 0 .. N, \A k \in 0 .. N : k < i => k \in P PROVE i \in P
  <2>1. i \in Nat
    OBVIOUS
  <2>2. CASE i = 0
    <3> DEFINE f == [v \in 0 .. 0 |-> 0]
    <3>1. f \in [0 .. 0 -> Nat] /\ \A v \in 0 .. 0 : f[v] = EarnedAt(f, v)
      BY DEF EarnedAt
    <3>2. Earns(f, 0)
      BY <3>1 DEF Earns
    <3> QED BY <2>2, <3>2
  <2>3. CASE i # 0
    <3>1. i - 1 \in 0 .. N /\ i - 1 < i
      BY <2>1, <2>3
    <3>2. PICK f : Earns(f, i - 1)
      BY <1>1, <3>1
    <3> DEFINE last == EarnedAt(f, i)
               g == [v \in 0 .. i |-> IF v = i THEN last ELSE f[v]]
    <3>3. f \in [0 .. i - 1 -> Nat] /\ \A v \in 0 .. i - 1 : f[v] = EarnedAt(f, v)
      BY <3>2 DEF Earns
    <3>4. i > 2 => i \div 2 \in 0 .. i - 1
      BY <2>1, HalfIsLess
    <3>5. last \in Nat
      <4> DEFINE h == i \div 2
      <4>1. i > 2 => f[h] \in Nat
        BY <3>3, <3>4
      <4> HIDE DEF h
      <4>2. last = IF i <= 2 THEN 0 ELSE i + 2 * f[h]
        BY DEF EarnedAt, h
      <4> HIDE DEF last
      <4> QED BY <2>1, <4>1, <4>2
    <3> HIDE DEF last
    <3>6. g \in [0 .. i -> Nat]
      <4>1. \A v \in 0 .. i : v = i \/ v \in 0 .. i - 1
        BY <2>1
      <4> QED BY <3>3, <3>5, <4>1
    <3>7. \A v \in 0 .. i - 1 : g[v] = f[v] /\ v \in 0 .. i /\ v # i
      BY <2>1
    <3>8. ASSUME NEW v \in 0 .. i PROVE g[v] = EarnedAt(g, v)
      <4> DEFINE h == v \div 2
      <4>1. v \in Nat /\ (v > 2 => h \in 0 .. i - 1)
        <5>1. v \in Nat /\ v <= i
          BY <2>1
        <5>2. v > 2 => h \in 1 .. v - 1
          BY <5>1, HalfIsLess
        <5> HIDE DEF h
        <5> QED BY <2>1, <5>1, <5>2
      <4>2. v > 2 => g[h] = f[h]
        BY <3>7, <4>1
      <4> HIDE DEF g
      <4>3. EarnedAt(g, v) = EarnedAt(f, v)
        BY <4>1, <4>2 DEF EarnedAt
      <4>4. CASE v = i
        BY <4>3, <4>4 DEF last, g
      <4>5. CASE v # i
        <5>1. v \in 0 .. i - 1
          BY <2>1, <4>5
        <5> QED BY <3>3, <3>7, <4>3, <5>1
      <4> QED BY <4>4, <4>5
    <3>9. Earns(g, i)
      <4> HIDE DEF g
      <4> QED BY <3>6, <3>8 DEF Earns
    <3> QED BY <3>9
  <2> QED BY <2>2, <2>3
<1>2. P \in SUBSET (0 .. N)
  OBVIOUS
<1>3. P = 0 .. N
  <2> HIDE DEF P
  <2> QED BY ONLY <1>1, <1>2, N \in Nat, FromTheStart
<1>4. N \in P
  BY <1>3
<1> QED BY <1>4

LEMMA EarnedRecurs == Earned \in [Nat -> Nat] /\ \A v \in Nat : Earned[v] = EarnedAt(Earned, v)
<1> DEFINE Recur(f) == [v \in Nat |-> IF v <= 2 THEN 0 ELSE v + 2 * f[v \div 2]]
           F == [N \in Nat |-> CHOOSE f : Earns(f, N)]
           h == [v \in Nat |-> F[v][v]]
<1>1. \A N \in Nat : Earns(F[N], N)
  BY EarnsExist
<1> HIDE DEF F
<1>2. \A v \in Nat : h[v] \in Nat
  <2>1. ASSUME NEW v \in Nat PROVE F[v][v] \in Nat
    <3>1. F[v] \in [0 .. v -> Nat] /\ v \in 0 .. v
      BY <1>1 DEF Earns
    <3> QED BY <3>1
  <2> QED BY <2>1
<1>3. ASSUME NEW v \in Nat PROVE h[v] = EarnedAt(h, v)
  <2>1. F[v][v] = EarnedAt(F[v], v)
    <3>1. v \in 0 .. v
      OBVIOUS
    <3> QED BY <1>1, <3>1 DEF Earns
  <2>2. CASE v > 2
    <3> DEFINE w == v \div 2
    <3>1. w \in 1 .. v - 1
      BY <2>2, HalfIsLess
    <3> HIDE DEF w
    <3>2. w \in Nat /\ w <= v /\ w \in 0 .. w
      BY <3>1
    <3>3. F[w][w] = F[v][w]
      BY <1>1, <3>2, EarnsAlike
    <3>4. h[w] = F[v][w]
      BY <3>2, <3>3
    <3>5. EarnedAt(h, v) = EarnedAt(F[v], v)
      <4> HIDE DEF h
      <4> QED BY <3>4 DEF EarnedAt, w
    <3> QED BY <2>1, <3>5
  <2>3. CASE v <= 2
    <3>1. EarnedAt(h, v) = 0 /\ EarnedAt(F[v], v) = 0
      <4> HIDE DEF h
      <4> QED BY <2>3 DEF EarnedAt
    <3> QED BY <2>1, <3>1
  <2> QED BY <2>2, <2>3
<1>4. h = Recur(h)
  <2>1. \A v \in Nat : h[v] = Recur(h)[v]
    <3> HIDE DEF h
    <3> QED BY <1>3 DEF EarnedAt
  <2>2. DOMAIN h = Nat /\ h = [v \in Nat |-> h[v]]
    OBVIOUS
  <2> HIDE DEF h
  <2> QED BY <2>1, <2>2
<1>5. Earned = CHOOSE f : f = Recur(f)
  BY DEF Earned
<1>6. Earned = Recur(Earned)
  <2> HIDE DEF h, Recur
  <2> QED BY <1>4, <1>5
<1>7. DOMAIN Earned = Nat /\ \A v \in Nat : Earned[v] = EarnedAt(Earned, v)
  BY <1>6 DEF EarnedAt
<1>8. ASSUME NEW v \in Nat PROVE Earned[v] \in Nat
  <2> DEFINE P == {k \in 0 .. v : Earned[k] \in Nat}
  <2>1. ASSUME NEW i \in 0 .. v, \A k \in 0 .. v : k < i => k \in P PROVE i \in P
    <3>1. i \in Nat /\ Earned[i] = EarnedAt(Earned, i)
      BY <1>7
    <3>2. i > 2 => i \div 2 \in 0 .. v /\ i \div 2 < i
      <4> DEFINE w == i \div 2
      <4>1. i > 2 => w \in 1 .. i - 1
        BY <3>1, HalfIsLess
      <4> HIDE DEF w
      <4>2. i > 2 => w \in 0 .. v /\ w < i
        BY <3>1, <4>1
      <4> QED BY <4>2 DEF w
    <3>3. i > 2 => Earned[i \div 2] \in Nat
      BY <2>1, <3>2
    <3>4. EarnedAt(Earned, i) \in Nat
      BY <3>1, <3>3 DEF EarnedAt
    <3> QED BY <3>1, <3>4
  <2>2. P \in SUBSET (0 .. v)
    OBVIOUS
  <2>3. P = 0 .. v
    <3> HIDE DEF P
    <3> QED BY ONLY <2>1, <2>2, v \in Nat, FromTheStart
  <2>4. v \in P
    BY <2>3
  <2> QED BY <2>4
<1>9. Earned = [v \in Nat |-> Earned[v]]
  BY <1>6
<1> QED BY <1>7, <1>8, <1>9

\* Merging two tiles earns what the new one shows.
LEMMA MergeEarns ==
  /\ Earned \in [Nat -> Nat] /\ Earned[0] = 0 /\ Earned[2] = 0 /\ Earned[4] = 4
  /\ \A v \in Nat : v >= 2 => Earned[2 * v] = 2 * v + 2 * Earned[v]
<1>1. Earned \in [Nat -> Nat] /\ \A v \in Nat : Earned[v] = EarnedAt(Earned, v)
  BY EarnedRecurs
<1>2. Earned[0] = 0 /\ Earned[2] = 0
  BY <1>1 DEF EarnedAt
<1>3. ASSUME NEW v \in Nat, v >= 2 PROVE Earned[2 * v] = 2 * v + 2 * Earned[v]
  <2> DEFINE d == 2 * v
  <2>1. d \in Nat /\ d > 2 /\ d \div 2 = v
    BY <1>3
  <2> HIDE DEF d
  <2>2. Earned[d] = d + 2 * Earned[d \div 2]
    BY <1>1, <2>1 DEF EarnedAt
  <2> QED BY <2>1, <2>2 DEF d
<1>4. Earned[4] = 4
  <2>1. Earned[4] = 4 + 2 * Earned[4 \div 2] /\ 4 \div 2 = 2
    BY <1>1 DEF EarnedAt
  <2> QED BY <1>2, <2>1
<1> QED BY <1>1, <1>2, <1>3, <1>4

-----------------------------------------------------------------------------
(* What sliding a row keeps *)

Itself == [v \in Nat |-> v]

\* The tiles from i on, slid: they add up to the same, what merging them earned is gained,
\* and if there are as many as before they are the same.
KeptFrom(t, r, i) ==
  /\ \A k \in 1 .. Len(r.row) : r.row[k] >= 2
  /\ Len(r.row) <= Len(t) + 1 - i
  /\ Len(r.row) = Len(t) + 1 - i => \A k \in 1 .. Len(r.row) : r.row[k] = t[i + k - 1]
  /\ RowSum(Itself, r.row) = SumFrom(Itself, t, i)
  /\ RowSum(Earned, r.row) = SumFrom(Earned, t, i) + r.gained

LEMMA WeightTypes == Itself \in [Nat -> Nat] /\ Earned \in [Nat -> Nat]
BY MergeEarns DEF Itself

LEMMA SameRow ==
  ASSUME NEW s \in Seq(Nat), NEW t \in Seq(Nat), Len(s) = Len(t), \A k \in 1 .. Len(t) : s[k] = t[k]
  PROVE  s = t
OBVIOUS

LEMMA KeptInFront ==
  ASSUME NEW t \in Seq(Nat), \A k \in 1 .. Len(t) : t[k] >= 2, NEW i \in 1 .. Len(t),
         NEW j \in i + 1 .. Len(t) + 1, NEW r \in SlidRows, NEW s \in SlidRows, KeptFrom(t, r, j),
         \/ j = i + 1 /\ s = Stays(t[i], r)
         \/ j = i + 2 /\ s = Merged(t[i], r) /\ t[i] = t[i + 1]
  PROVE  KeptFrom(t, s, i)
<1> DEFINE n == Len(t)
           m == Len(r.row)
           v == IF j = i + 1 THEN t[i] ELSE 2 * t[i]
<1>1. n \in Nat /\ m \in Nat /\ r.row \in Seq(Nat) /\ r.gained \in Nat /\ t[i] \in Nat /\ t[i] >= 2
      /\ i \in 1 .. n /\ j \in i + 1 .. n + 1
  BY RowTypes DEF SlidRows
<1>2. v \in Nat /\ v >= 2
  <2> HIDE DEF n, m
  <2> QED BY <1>1
<1>3. s.row = <<v>> \o r.row
  BY DEF Stays, Merged
<1> HIDE DEF v
<1>4. /\ Len(s.row) = m + 1 /\ s.row[1] = v
      /\ \A k \in 2 .. m + 1 : s.row[k] = r.row[k - 1]
  <2>1. LET q == <<v>> \o r.row
        IN  Len(q) = Len(r.row) + 1 /\ q[1] = v /\ \A k \in 2 .. Len(q) : q[k] = r.row[k - 1]
    BY <1>1, <1>2, InFront
  <2> QED BY <1>3, <2>1
<1>5. \A w \in [Nat -> Nat] : RowSum(w, r.row) \in Nat /\ RowSum(w, s.row) = w[v] + RowSum(w, r.row)
  BY <1>1, <1>2, <1>3, RowSumInFront
<1>6. \A w \in [Nat -> Nat] : /\ SumFrom(w, t, i) = w[t[i]] + SumFrom(w, t, i + 1)
                              /\ SumFrom(w, t, j) \in Nat
  <2>1. i \in 1 .. Len(t) /\ j \in 1 .. Len(t) + 1
    <3> HIDE DEF m, v
    <3> QED BY <1>1 DEF n
  <2> QED BY <2>1, SumsFrom
<1> HIDE DEF n, m
<1>7. \A k \in 1 .. m + 1 : s.row[k] >= 2
  <2>1. ASSUME NEW k \in 2 .. m + 1 PROVE s.row[k] >= 2
    <3>1. k - 1 \in 1 .. m
      BY <1>1
    <3> QED BY <1>4, <3>1 DEF KeptFrom, m
  <2>2. \A k \in 1 .. m + 1 : k = 1 \/ k \in 2 .. m + 1
    BY <1>1
  <2> QED BY <1>2, <1>4, <2>1, <2>2
<1>8. m <= n + 1 - j
  BY DEF KeptFrom, m, n
<1>9. m + 1 <= n + 1 - i
  BY <1>1, <1>8
<1>10. ASSUME m + 1 = n + 1 - i, NEW k \in 1 .. m + 1 PROVE s.row[k] = t[i + k - 1]
  <2>1. j = i + 1 /\ m = n + 1 - j
    BY <1>1, <1>8, <1>10
  <2>2. v = t[i]
    BY <2>1 DEF v
  <2>3. CASE k = 1
    <3>1. i + k - 1 = i
      BY <1>1, <2>3
    <3> QED BY <1>4, <2>2, <2>3, <3>1
  <2>4. CASE k # 1
    <3> DEFINE l == k - 1
    <3>1. l \in 1 .. m /\ k \in 2 .. m + 1 /\ j + l - 1 = i + k - 1
      BY <1>1, <2>1, <2>4
    <3>2. s.row[k] = r.row[l]
      BY <1>4, <3>1
    <3>3. r.row[l] = t[j + l - 1]
      <4> HIDE DEF l
      <4> QED BY <2>1, <3>1 DEF KeptFrom, m, n
    <3> QED BY <3>1, <3>2, <3>3
  <2> QED BY <2>3, <2>4
<1>11. RowSum(Itself, r.row) = SumFrom(Itself, t, j) /\ RowSum(Earned, r.row) = SumFrom(Earned, t, j) + r.gained
  BY DEF KeptFrom
<1>12. /\ RowSum(Itself, s.row) = SumFrom(Itself, t, i)
       /\ RowSum(Earned, s.row) = SumFrom(Earned, t, i) + s.gained
  <2> DEFINE x  == t[i]
             e  == Earned[x]
             a  == SumFrom(Itself, t, j)
             b  == SumFrom(Earned, t, j)
             a1 == SumFrom(Itself, t, i)
             b1 == SumFrom(Earned, t, i)
             p  == RowSum(Itself, s.row)
             q  == RowSum(Earned, s.row)
             g  == r.gained
  <2>1. /\ x \in Nat /\ x >= 2 /\ e \in Nat /\ a \in Nat /\ b \in Nat /\ g \in Nat
        /\ Itself[x] = x /\ Itself[v] = v
    BY <1>1, <1>2, <1>6, WeightTypes DEF Itself
  <2>2. p = v + a /\ q = Earned[v] + (b + g)
    BY <1>5, <1>11, <2>1, WeightTypes
  <2>3. CASE j = i + 1
    <3>1. s.gained = g /\ v = x
      BY <1>1, <2>3 DEF Stays, v
    <3>2. a1 = x + a /\ b1 = e + b
      BY <1>6, <2>1, <2>3, WeightTypes
    <3> HIDE DEF x, e, a, b, a1, b1, p, q, g
    <3>3. Earned[v] = e
      BY <3>1 DEF e
    <3>4. p = a1 /\ q = b1 + s.gained
      BY <2>1, <2>2, <3>1, <3>2, <3>3
    <3> QED BY <3>4 DEF p, q, a1, b1
  <2>4. CASE j = i + 2
    <3>1. s.gained = 2 * x + g /\ v = 2 * x /\ t[i + 1] = x
      <4>1. i + 2 # i + 1
        BY <1>1
      <4> QED BY <2>4, <4>1 DEF Merged, v
    <3>2. i + 1 \in 1 .. n /\ (i + 1) + 1 = j
      BY <1>1, <2>4
    <3>3. \A w \in [Nat -> Nat] : SumFrom(w, t, i + 1) = w[t[i + 1]] + SumFrom(w, t, (i + 1) + 1)
      BY <3>2, SumsFrom DEF n
    <3>4. SumFrom(Itself, t, i + 1) = x + a /\ SumFrom(Earned, t, i + 1) = e + b
      BY <2>1, <3>1, <3>2, <3>3, WeightTypes
    <3>5. a1 = x + (x + a) /\ b1 = e + (e + b)
      BY <1>6, <2>1, <3>4, WeightTypes
    <3>6. Earned[v] = 2 * x + 2 * e
      BY <2>1, <3>1, MergeEarns
    <3> HIDE DEF x, e, a, b, a1, b1, p, q, g
    <3>7. p = a1 /\ q = b1 + s.gained
      BY <2>1, <2>2, <3>1, <3>5, <3>6
    <3> QED BY <3>7 DEF p, q, a1, b1
  <2> QED BY <2>3, <2>4
<1> QED BY <1>4, <1>7, <1>9, <1>10, <1>12 DEF KeptFrom, n

LEMMA SlidKeeps ==
  ASSUME NEW t \in Seq(Nat), \A k \in 1 .. Len(t) : t[k] >= 2
  PROVE  LET s == T!Slid(t)
         IN  /\ s \in SlidRows /\ Len(s.row) <= Len(t) /\ \A k \in 1 .. Len(s.row) : s.row[k] >= 2
             /\ Len(s.row) = Len(t) => s.row = t
             /\ RowSum(Itself, s.row) = RowSum(Itself, t)
             /\ RowSum(Earned, s.row) = RowSum(Earned, t) + s.gained
<1> DEFINE n == Len(t)
<1>1. PICK f \in [1 .. n + 1 -> SlidRows] : Slides(t, f) /\ T!Slid(t) = f[1]
  BY SlidFrom
<1>2. n \in Nat /\ \A i \in 1 .. n : t[i] \in Nat
  BY RowTypes
<1> DEFINE P == {i \in 1 .. n + 1 : KeptFrom(t, f[i], i)}
<1>3. n + 1 \in P
  <2>1. f[n + 1] = NoTiles /\ n + 1 \in 1 .. n + 1
    BY <1>1, <1>2 DEF Slides, SlideAt
  <2>2. Len(NoTiles.row) = 0 /\ NoTiles.gained = 0 /\ NoTiles.row = <<>>
    BY DEF NoTiles
  <2>3. \A w \in [Nat -> Nat] : RowSum(w, <<>>) = 0
    <3>1. <<>> \in Seq(Nat) /\ 0 \in Nat
      OBVIOUS
    <3> QED BY <3>1, RowSumInFront
  <2>4. \A w \in [Nat -> Nat] : SumFrom(w, t, n + 1) = 0
    BY SumsFrom
  <2>5. RowSum(Itself, <<>>) = 0 /\ RowSum(Earned, <<>>) = 0
        /\ SumFrom(Itself, t, n + 1) = 0 /\ SumFrom(Earned, t, n + 1) = 0
    BY <2>3, <2>4, WeightTypes
  <2>6. n + 1 - (n + 1) = 0
    BY <1>2
  <2> HIDE DEF P
  <2>7. KeptFrom(t, NoTiles, n + 1)
    BY <2>2, <2>5, <2>6 DEF KeptFrom
  <2> QED BY <2>1, <2>7 DEF P
<1>4. ASSUME NEW i \in 1 .. n, \A k \in 1 .. n + 1 : k > i => k \in P PROVE i \in P
  <2>1. f[i] = SlideAt(t, f, i) /\ f[i] \in SlidRows /\ ~ (i > Len(t)) /\ i \in 1 .. n + 1
    BY <1>1, <1>2 DEF Slides
  <2> DEFINE j == IF Pair(t, i) THEN i + 2 ELSE i + 1
  <2>2. j \in i + 1 .. n + 1 /\ j \in 1 .. n + 1 /\ j > i
    <3>1. Pair(t, i) => i < n
      BY DEF Pair
    <3> HIDE DEF n
    <3> QED BY <1>2, <3>1
  <2>3. f[j] \in SlidRows /\ KeptFrom(t, f[j], j)
    <3>1. j \in P
      BY <1>4, <2>2
    <3> QED BY <1>1, <2>2, <3>1
  <2>4. \/ j = i + 1 /\ f[i] = Stays(t[i], f[j])
        \/ j = i + 2 /\ f[i] = Merged(t[i], f[j]) /\ t[i] = t[i + 1]
    BY <2>1 DEF SlideAt, Pair
  <2> HIDE DEF j, P
  <2>5. KeptFrom(t, f[i], i)
    BY <2>1, <2>2, <2>3, <2>4, KeptInFront
  <2> QED BY <2>1, <2>5 DEF P
<1>5. P = 1 .. n + 1
  <2>1. P \in SUBSET (1 .. n + 1)
    OBVIOUS
  <2> HIDE DEF P
  <2> QED BY ONLY <1>2, <1>3, <1>4, <2>1, FromTheEnd
<1>6. 1 \in 1 .. n + 1 /\ KeptFrom(t, f[1], 1)
  BY <1>2, <1>5
<1> DEFINE s == f[1]
           m == Len(s.row)
<1>7. s \in SlidRows
  BY <1>1, <1>6
<1>8. n + 1 - 1 = n
  BY <1>2
<1>9. m <= n /\ \A k \in 1 .. m : s.row[k] >= 2
  BY <1>6, <1>8 DEF KeptFrom
<1>10. m = n => s.row = t
  <2> SUFFICES ASSUME m = n PROVE s.row = t
    OBVIOUS
  <2>1. \A k \in 1 .. m : s.row[k] = t[1 + k - 1]
    BY <1>6, <1>8 DEF KeptFrom
  <2>2. \A k \in 1 .. n : s.row[k] = t[k]
    <3>1. \A k \in 1 .. n : 1 + k - 1 = k
      BY <1>2
    <3> QED BY <2>1, <3>1
  <2>3. s.row \in Seq(Nat) /\ Len(s.row) = Len(t)
    BY <1>7 DEF SlidRows
  <2> HIDE DEF s
  <2> QED BY ONLY <2>2, <2>3, t \in Seq(Nat), SameRow DEF n
<1>11. /\ RowSum(Itself, s.row) = RowSum(Itself, t)
       /\ RowSum(Earned, s.row) = RowSum(Earned, t) + s.gained
  BY <1>6, SumsFrom, WeightTypes DEF KeptFrom
<1> QED BY <1>1, <1>7, <1>9, <1>10, <1>11

-----------------------------------------------------------------------------
(* The lines of a board *)

\* The cells of a board hold nothing, or a tile from 2 on.
Grids == {g \in [T!Cells -> Nat] : \A c \in T!Cells : g[c] # 1}
Places == 1 .. Size2048

LEMMA LinesCover ==
  ASSUME NEW move \in Lines
  PROVE  /\ \A k, i \in Places : /\ T!CellAt(move, k, i) \in T!Cells
                                 /\ T!LineAndPlace(move, T!CellAt(move, k, i)) = <<k, i>>
         /\ \A c \in T!Cells : LET l == T!LineAndPlace(move, c)
                               IN  l[1] \in Places /\ l[2] \in Places /\ T!CellAt(move, l[1], l[2]) = c
<1> DEFINE n == Size2048
<1>1. n \in Nat /\ T!Cells = (1 .. n) \X (1 .. n)
  BY DuelAssumption DEF T!Cells
<1>2. \A i \in 1 .. n : n + 1 - i \in 1 .. n /\ n + 1 - (n + 1 - i) = i
  BY <1>1
<1>3. \A k, i \in 1 .. n :
        /\ T!CellAt(move, k, i) = CASE move = "left" -> <<k, i>> [] move = "right" -> <<k, n + 1 - i>>
                                    [] move = "up" -> <<i, k>> [] move = "down" -> <<n + 1 - i, k>>
  BY DEF T!CellAt
<1>4. \A a, b : T!LineAndPlace(move, <<a, b>>) =
                  CASE move = "left" -> <<a, b>> [] move = "right" -> <<a, n + 1 - b>>
                    [] move = "up" -> <<b, a>> [] move = "down" -> <<b, n + 1 - a>>
  BY DEF T!LineAndPlace
<1>5. move = "left" \/ move = "right" \/ move = "up" \/ move = "down"
  BY DEF Lines
<1> HIDE DEF n
<1>6. ASSUME NEW k \in 1 .. n, NEW i \in 1 .. n
      PROVE  /\ T!CellAt(move, k, i) \in (1 .. n) \X (1 .. n)
             /\ T!LineAndPlace(move, T!CellAt(move, k, i)) = <<k, i>>
  BY <1>2, <1>3, <1>4, <1>5
<1>7. ASSUME NEW c \in (1 .. n) \X (1 .. n)
      PROVE  LET l == T!LineAndPlace(move, c)
             IN  l[1] \in 1 .. n /\ l[2] \in 1 .. n /\ T!CellAt(move, l[1], l[2]) = c
  <2>1. PICK a \in 1 .. n, b \in 1 .. n : c = <<a, b>>
    OBVIOUS
  <2> DEFINE x == n + 1 - a
             y == n + 1 - b
  <2>2. x \in 1 .. n /\ y \in 1 .. n /\ n + 1 - x = a /\ n + 1 - y = b
    BY <1>2
  <2>3. T!LineAndPlace(move, c) = CASE move = "left" -> <<a, b>> [] move = "right" -> <<a, y>>
                                    [] move = "up" -> <<b, a>> [] move = "down" -> <<b, x>>
    BY <1>4, <2>1
  <2> HIDE DEF x, y
  <2>4. CASE move = "left"
    BY <1>3, <2>1, <2>3, <2>4
  <2>5. CASE move = "right"
    BY <1>3, <2>1, <2>2, <2>3, <2>5
  <2>6. CASE move = "up"
    BY <1>3, <2>1, <2>3, <2>6
  <2>7. CASE move = "down"
    BY <1>3, <2>1, <2>2, <2>3, <2>7
  <2> QED BY <1>5, <2>4, <2>5, <2>6, <2>7
<1> QED BY <1>1, <1>6, <1>7 DEF Places, n

GridSum(w, g)          == SumFunction([c \in T!Cells |-> w[g[c]]])
LineSum(w, g, move, k) == SumFunction([i \in Places |-> w[g[T!CellAt(move, k, i)]]])

LEMMA BoardFinite == IsFiniteSet(T!Cells) /\ IsFiniteSet(Places)
<1>1. Size2048 \in Nat
  BY DuelAssumption
<1>2. IsFiniteSet(Places)
  BY <1>1, PlacesFinite DEF Places
<1>3. T!Cells = Places \X Places
  BY DEF T!Cells, Places
<1> QED BY <1>2, <1>3, FS_Product

LEMMA LineSumType ==
  ASSUME NEW w \in [Nat -> Nat], NEW g \in [T!Cells -> Nat], NEW move \in Lines, NEW k \in Places
  PROVE  LineSum(w, g, move, k) \in Nat
<1> DEFINE f == [i \in Places |-> w[g[T!CellAt(move, k, i)]]]
<1>1. f \in [Places -> Nat]
  <2>1. ASSUME NEW i \in Places PROVE w[g[T!CellAt(move, k, i)]] \in Nat
    <3>1. T!CellAt(move, k, i) \in T!Cells
      BY LinesCover
    <3> QED BY <3>1
  <2> QED BY <2>1
<1> HIDE DEF f
<1>2. SumFunction(f) \in Nat
  BY <1>1, BoardFinite, SumType
<1> QED BY <1>2 DEF LineSum, f

\* A board is summed line by line.
LEMMA GridByLines ==
  ASSUME NEW w \in [Nat -> Nat], NEW g \in [T!Cells -> Nat], NEW move \in Lines
  PROVE  GridSum(w, g) = SumFunction([k \in Places |-> LineSum(w, g, move, k)])
<1> DEFINE S  == T!Cells
           f  == [c \in S |-> w[g[c]]]
           of == [c \in S |-> T!LineAndPlace(move, c)[1]]
           h  == [k \in Places |-> LineSum(w, g, move, k)]
<1>1. f \in [S -> Nat] /\ (\A c \in S : f[c] = w[g[c]]) /\ \A c \in S : of[c] = T!LineAndPlace(move, c)[1]
  OBVIOUS
<1>2. h \in [Places -> Nat] /\ \A k \in Places : h[k] = LineSum(w, g, move, k)
  BY LineSumType
<1>3. \A c \in S : of[c] \in Places
  BY <1>1, LinesCover
<1>4. ASSUME NEW k \in Places
      PROVE  h[k] = Cardinality(Units(f, {c \in S : of[c] = k}))
  <2> DEFINE B == {c \in S : of[c] = k}
             p == [c \in B |-> f[c]]
             q == [i \in Places |-> w[g[T!CellAt(move, k, i)]]]
             e == [i \in Places |-> T!CellAt(move, k, i)]
  <2>1. p \in [B -> Nat] /\ \A c \in B : p[c] = f[c]
    BY <1>1
  <2>2. /\ \A i \in Places : e[i] = T!CellAt(move, k, i) /\ e[i] \in S /\ of[e[i]] = k
        /\ \A i, j \in Places : e[i] = e[j] => i = j
    <3>1. \A i \in Places : T!CellAt(move, k, i) \in S /\ T!LineAndPlace(move, T!CellAt(move, k, i)) = <<k, i>>
      BY LinesCover
    <3>2. \A i \in Places : e[i] = T!CellAt(move, k, i)
      OBVIOUS
    <3> HIDE DEF e
    <3> QED BY <1>1, <3>1, <3>2
  <2>3. e \in [Places -> B]
    BY <2>2
  <2>4. q \in [Places -> Nat] /\ \A i \in Places : q[i] = p[e[i]]
    <3>1. \A i \in Places : w[g[T!CellAt(move, k, i)]] = f[e[i]] /\ f[e[i]] \in Nat /\ e[i] \in B
      BY <1>1, <2>2
    <3> HIDE DEF e, B
    <3> QED BY <2>1, <3>1
  <2>5. \A x \in B : \E i \in Places : e[i] = x
    <3>1. ASSUME NEW x \in B PROVE \E i \in Places : e[i] = x
      <4> DEFINE l == T!LineAndPlace(move, x)
      <4>1. l[1] \in Places /\ l[2] \in Places /\ T!CellAt(move, l[1], l[2]) = x /\ l[1] = k
        BY <1>1, <3>1, LinesCover
      <4> HIDE DEF l
      <4> QED BY <4>1
    <3> QED BY <3>1
  <2>6. B \in SUBSET S
    OBVIOUS
  <2> HIDE DEF p, q, e, B
  <2>7. IsFiniteSet(B)
    BY <2>6, BoardFinite, FS_Subset
  <2>8. Renamed(q, Places, p, B, e)
    BY <2>1, <2>2, <2>3, <2>4, <2>5, <2>7, BoardFinite DEF Renamed
  <2>9. SumFunction(q) = SumFunction(p)
    BY <2>8, SumRenamed
  <2>10. SumFunction(p) = Cardinality(Units(f, B))
    <3> HIDE DEF f, S
    <3>1. IsFiniteSet(S)
      BY BoardFinite DEF S
    <3> QED BY ONLY <1>1, <2>1, <2>6, <3>1, SumOfPart
  <2>11. h[k] = SumFunction(q)
    BY <1>2 DEF LineSum, q
  <2> QED BY <2>9, <2>10, <2>11 DEF B
<1>5. SumFunction(h) = SumFunction(f)
  <2> DEFINE V == Places
  <2>1. IsFiniteSet(S) /\ IsFiniteSet(V) /\ h \in [V -> Nat]
    BY <1>2, BoardFinite
  <2>2. \A v \in V : h[v] = Cardinality(Units(f, {x \in S : of[x] = v}))
    BY <1>4
  <2>3. f \in [S -> Nat] /\ \A x \in S : of[x] \in V
    BY <1>1, <1>3
  <2> HIDE DEF h, f, of, S, V
  <2> QED BY ONLY <2>1, <2>2, <2>3, SumBySlices
<1> QED BY <1>5 DEF GridSum

-----------------------------------------------------------------------------
(* The tiles of a line *)

Before(P, i) == {j \in P : j <= i}

\* The places of a line, counted from its first: for each number there is one.
LEMMA Ranks ==
  ASSUME NEW n \in Nat, NEW P \in SUBSET (1 .. n)
  PROVE  LET m == Cardinality(P)
         IN  /\ m \in Nat /\ m <= n
             /\ \A i \in P : Cardinality(Before(P, i)) \in 1 .. m
             /\ \A i, j \in P : Cardinality(Before(P, i)) = Cardinality(Before(P, j)) => i = j
             /\ \A k \in 1 .. m : \E i \in P : Cardinality(Before(P, i)) = k
             /\ m = n => P = 1 .. n /\ \A i \in 1 .. n : Cardinality(Before(P, i)) = i
<1> DEFINE m    == Cardinality(P)
           r(i) == Cardinality(Before(P, i))
           one  == 1
           all  == one .. n
<1>1. IsFiniteSet(all) /\ Cardinality(all) = n /\ P \in SUBSET all
  <2>1. one \in Int /\ n \in Int /\ (one > n => n = 0) /\ n - one + 1 = n
    OBVIOUS
  <2>2. P \in SUBSET all
    OBVIOUS
  <2> HIDE DEF one
  <2> QED BY ONLY <2>1, <2>2, FS_Interval
<1>2. IsFiniteSet(P) /\ m \in Nat /\ m <= n /\ (m = n => P = all)
  <2> HIDE DEF all
  <2>1. IsFiniteSet(P) /\ Cardinality(P) <= Cardinality(all) /\ (Cardinality(all) = Cardinality(P) => all = P)
    BY ONLY <1>1, FS_Subset
  <2>2. Cardinality(P) \in Nat
    BY <2>1, FS_CardinalityType
  <2> QED BY <1>1, <2>1, <2>2
<1>3. \A i, j \in P : i <= j \/ j <= i
  OBVIOUS
<1>4. ASSUME NEW i \in P PROVE r(i) \in 1 .. m
  <2>1. Before(P, i) \in SUBSET P /\ i \in Before(P, i)
    BY DEF Before
  <2>2. IsFiniteSet(Before(P, i)) /\ r(i) <= m
    BY <1>2, <2>1, FS_Subset
  <2>3. r(i) \in Nat /\ r(i) # 0
    BY <2>1, <2>2, FS_CardinalityType, FS_EmptySet
  <2> HIDE DEF r, m
  <2> QED BY <1>2, <2>2, <2>3 DEF r, m
<1>5. ASSUME NEW i \in P, NEW j \in P, i <= j, r(i) = r(j) PROVE i = j
  <2> DEFINE A == Before(P, i)
             B == Before(P, j)
  <2>1. A \in SUBSET B /\ B \in SUBSET P /\ j \in B
    <3>1. ASSUME NEW k \in P, k <= i PROVE k <= j
      <4>1. k \in Int /\ i \in Int /\ j \in Int /\ i <= j
        BY <1>5
      <4> QED BY ONLY <3>1, <4>1
    <3>2. j <= j
      OBVIOUS
    <3> QED BY <3>1, <3>2 DEF Before
  <2>2. IsFiniteSet(B)
    BY <1>2, <2>1, FS_Subset
  <2>3. A = B
    <3> HIDE DEF A, B
    <3> QED BY <1>5, <2>1, <2>2, FS_Subset DEF A, B
  <2>4. j <= i
    BY <2>1, <2>3 DEF Before
  <2> QED BY <1>5, <2>4
<1>6. \A i, j \in P : r(i) = r(j) => i = j
  BY <1>3, <1>5
<1> DEFINE R == {r(i) : i \in P}
           f == [i \in P |-> r(i)]
           to == one .. m
<1>7. ExistsBijection(P, R)
  <2> HIDE DEF r
  <2>1. f \in [P -> R] /\ (\A i, j \in P : f[i] = f[j] => i = j) /\ \A y \in R : \E i \in P : f[i] = y
    BY <1>6
  <2> HIDE DEF f, R
  <2> QED BY <2>1 DEF ExistsBijection, Bijection, Injection, Surjection, IsInjective
<1>8. Cardinality(R) = m /\ R \in SUBSET to
  <2>1. R \in SUBSET to
    BY <1>4
  <2> HIDE DEF R
  <2> QED BY <1>2, <1>7, <2>1, FS_Bijection
<1>9. IsFiniteSet(to) /\ Cardinality(to) = m
  <2>1. one \in Int /\ m \in Int /\ (one > m => m = 0) /\ m - one + 1 = m
    BY <1>2
  <2> HIDE DEF one, m
  <2> QED BY ONLY <2>1, FS_Interval
<1>10. R = to
  <2> HIDE DEF R, to
  <2> QED BY <1>8, <1>9, FS_Subset
<1>11. ASSUME m = n, NEW i \in 1 .. n PROVE P = 1 .. n /\ r(i) = i
  <2>1. P = 1 .. n
    BY <1>2, <1>11
  <2>2. Before(P, i) = 1 .. i
    BY <2>1 DEF Before
  <2>3. Cardinality(one .. i) = i
    <3>1. one \in Int /\ i \in Int /\ ~ (one > i) /\ i - one + 1 = i
      OBVIOUS
    <3> HIDE DEF one
    <3> QED BY ONLY <3>1, FS_Interval
  <2> QED BY <2>1, <2>2, <2>3
<1>12. m = n => P = 1 .. n
  BY <1>2
<1>13. \A k \in 1 .. m : \E i \in P : r(i) = k
  <2>1. \A k \in to : k \in R
    BY <1>10
  <2> QED BY <2>1
<1> QED BY <1>2, <1>4, <1>6, <1>11, <1>12, <1>13

\* The tiles of a line are its tiles: they add up to the same, whatever nothing adds; and if
\* there are as many as places they are the line.
LEMMA LineTiles ==
  ASSUME NEW g \in Grids, NEW move \in Lines, NEW k \in Places
  PROVE  LET t == T!Tiles(g, move, k)
         IN  /\ t \in Seq(Nat) /\ Len(t) <= Size2048 /\ \A i \in 1 .. Len(t) : t[i] >= 2
             /\ \A w \in [Nat -> Nat] : w[0] = 0 => RowSum(w, t) = LineSum(w, g, move, k)
             /\ Len(t) = Size2048 => \A i \in Places : t[i] = g[T!CellAt(move, k, i)]
<1> DEFINE n      == Size2048
           at(i)  == g[T!CellAt(move, k, i)]
           P      == {i \in 1 .. n : at(i) # 0}
           m      == Cardinality(P)
           nth(l) == CHOOSE i \in P : Cardinality(Before(P, i)) = l
           t      == T!Tiles(g, move, k)
<1>1. n \in Nat /\ P \in SUBSET (1 .. n)
  BY DuelAssumption
<1>2. t = [l \in 1 .. m |-> at(nth(l))]
  <2>1. \A S : T!Cardinality(S) = Cardinality(S)
    BY DEF T!Cardinality, Cardinality
  <2> DEFINE nt(l) == CHOOSE i \in P : T!Cardinality({j \in P : j <= i}) = l
  <2>2. t = [l \in 1 .. T!Cardinality(P) |-> at(nt(l))]
    BY DEF T!Tiles
  <2>3. \A i : T!Cardinality({j \in P : j <= i}) = Cardinality(Before(P, i))
    <3> HIDE DEF P
    <3> QED BY <2>1 DEF Before
  <2>4. \A l : nt(l) = nth(l)
    <3> HIDE DEF P
    <3> QED BY <2>3
  <2>5. T!Cardinality(P) = m
    BY <2>1
  <2> HIDE DEF nt, nth, P, at, t
  <2> QED BY <2>2, <2>4, <2>5
<1>3. \A i \in 1 .. n : at(i) \in Nat /\ at(i) # 1
  <2>1. \A i \in 1 .. n : T!CellAt(move, k, i) \in T!Cells
    BY LinesCover DEF Places
  <2> QED BY <2>1 DEF Grids
<1>4. \A i \in P : at(i) \in Nat /\ at(i) >= 2 /\ i \in 1 .. n
  <2>1. \A v \in Nat : v # 0 /\ v # 1 => v >= 2
    OBVIOUS
  <2> HIDE DEF at
  <2> QED BY <1>3, <2>1
<1>5. \A i \in 1 .. n : i \in P \/ at(i) = 0
  OBVIOUS
<1> HIDE DEF P
<1>6. /\ m \in Nat /\ m <= n
      /\ \A i \in P : Cardinality(Before(P, i)) \in 1 .. m
      /\ \A i, j \in P : Cardinality(Before(P, i)) = Cardinality(Before(P, j)) => i = j
      /\ \A l \in 1 .. m : \E i \in P : Cardinality(Before(P, i)) = l
      /\ m = n => P = 1 .. n /\ \A i \in 1 .. n : Cardinality(Before(P, i)) = i
  BY <1>1, Ranks
<1>7. \A l \in 1 .. m : nth(l) \in P /\ Cardinality(Before(P, nth(l))) = l
  BY <1>6
<1>8. \A i \in P : nth(Cardinality(Before(P, i))) = i
  <2>1. ASSUME NEW i \in P PROVE nth(Cardinality(Before(P, i))) = i
    <3> DEFINE l == Cardinality(Before(P, i))
    <3>1. l \in 1 .. m
      BY <1>6
    <3> HIDE DEF nth
    <3>2. nth(l) \in P /\ Cardinality(Before(P, nth(l))) = l
      BY <1>7, <3>1
    <3> QED BY <1>6, <3>2
  <2> QED BY <2>1
<1> HIDE DEF nth, m, at, t
<1>9. /\ t \in Seq(Nat) /\ Len(t) = m
      /\ \A l \in 1 .. m : t[l] = at(nth(l)) /\ t[l] >= 2
  <2>1. \A l \in 1 .. m : at(nth(l)) \in Nat /\ at(nth(l)) >= 2
    BY <1>4, <1>7
  <2>2. t \in Seq(Nat) /\ Len(t) = m
    <3> DEFINE v(l) == at(nth(l))
    <3>1. t = [l \in 1 .. m |-> v(l)] /\ \A l \in 1 .. m : v(l) \in Nat
      BY <1>2, <2>1
    <3> HIDE DEF v
    <3> QED BY ONLY <1>6, <3>1
  <2> QED BY <1>2, <2>1, <2>2
<1>10. ASSUME NEW w \in [Nat -> Nat], w[0] = 0 PROVE RowSum(w, t) = LineSum(w, g, move, k)
  <2> DEFINE V == 1 .. m
             S == 1 .. n
             h == [l \in V |-> w[t[l]]]
             f == [i \in S |-> w[at(i)]]
             e == [l \in V |-> nth(l)]
  <2>1. IsFiniteSet(V) /\ IsFiniteSet(S)
    BY <1>1, <1>6, PlacesFinite
  <2>2. h \in [V -> Nat]
    <3>1. \A l \in V : t[l] \in Nat
      BY <1>9, RowTypes
    <3> QED BY <3>1
  <2>3. f \in [S -> Nat]
    BY <1>3
  <2>4. e \in [V -> S]
    BY <1>4, <1>7
  <2>5. \A a, b \in V : e[a] = e[b] => a = b
    BY <1>7
  <2>6. \A l \in V : h[l] = f[e[l]]
    BY <1>4, <1>7, <1>9
  <2>7. \A i \in S : f[i] = 0 \/ \E l \in V : e[l] = i
    <3>1. ASSUME NEW i \in P PROVE \E l \in V : e[l] = i
      <4> DEFINE l == Cardinality(Before(P, i))
      <4>1. l \in V /\ nth(l) = i
        BY <1>6, <1>8
      <4>2. e[l] = i
        BY <4>1
      <4> HIDE DEF e, l
      <4> QED BY <4>1, <4>2
    <3>2. \A i \in S : i \notin P => f[i] = 0
      BY <1>5, <1>10
    <3> HIDE DEF f, e, S, V
    <3> QED BY <3>1, <3>2
  <2>8. RowSum(w, t) = SumFunction(h) /\ LineSum(w, g, move, k) = SumFunction(f)
    BY <1>9 DEF RowSum, LineSum, Places, at
  <2> HIDE DEF V, S, h, f, e
  <2>9. Renamed(h, V, f, S, e)
    BY <2>1, <2>2, <2>3, <2>4, <2>5, <2>6, <2>7 DEF Renamed
  <2> QED BY <2>8, <2>9, SumRenamed
<1>11. ASSUME m = n, NEW i \in 1 .. n PROVE t[i] = at(i)
  <2>1. nth(i) = i
    BY <1>6, <1>8, <1>11
  <2> QED BY <1>9, <1>11, <2>1
<1> QED BY <1>6, <1>9, <1>10, <1>11 DEF Places, n, t, at

-----------------------------------------------------------------------------
(* What a move keeps *)

SlidLine(g, move, k) == T!Slid(T!Tiles(g, move, k))

LEMMA SlidLines ==
  ASSUME NEW g \in Grids, NEW move \in Lines, NEW k \in Places
  PROVE  LET s == SlidLine(g, move, k)
         IN  /\ s.row \in Seq(Nat) /\ s.gained \in Nat /\ Len(s.row) <= Size2048
             /\ \A i \in 1 .. Len(s.row) : s.row[i] >= 2
             /\ RowSum(Itself, s.row) = LineSum(Itself, g, move, k)
             /\ RowSum(Earned, s.row) = LineSum(Earned, g, move, k) + s.gained
             /\ Len(s.row) = Size2048 => \A i \in Places : s.row[i] = g[T!CellAt(move, k, i)]
<1> DEFINE t == T!Tiles(g, move, k)
           s == T!Slid(t)
<1>1. /\ t \in Seq(Nat) /\ Len(t) <= Size2048 /\ \A i \in 1 .. Len(t) : t[i] >= 2
      /\ \A w \in [Nat -> Nat] : w[0] = 0 => RowSum(w, t) = LineSum(w, g, move, k)
      /\ Len(t) = Size2048 => \A i \in Places : t[i] = g[T!CellAt(move, k, i)]
  BY LineTiles
<1> HIDE DEF t
<1>2. /\ s \in SlidRows /\ Len(s.row) <= Len(t) /\ \A i \in 1 .. Len(s.row) : s.row[i] >= 2
      /\ Len(s.row) = Len(t) => s.row = t
      /\ RowSum(Itself, s.row) = RowSum(Itself, t)
      /\ RowSum(Earned, s.row) = RowSum(Earned, t) + s.gained
  BY <1>1, SlidKeeps
<1>3. RowSum(Itself, t) = LineSum(Itself, g, move, k) /\ RowSum(Earned, t) = LineSum(Earned, g, move, k)
  <2>1. Itself[0] = 0 /\ Earned[0] = 0
    BY MergeEarns DEF Itself
  <2> QED BY <1>1, <2>1, WeightTypes
<1> HIDE DEF s
<1>4. s.row \in Seq(Nat) /\ s.gained \in Nat /\ Len(s.row) \in Nat /\ Len(t) \in Nat /\ Size2048 \in Nat
  <2>1. s.row \in Seq(Nat) /\ s.gained \in Nat
    BY <1>2 DEF SlidRows
  <2> QED BY <1>1, <2>1, RowTypes, DuelAssumption
<1>5. Len(s.row) <= Size2048 /\ (Len(s.row) = Size2048 => Len(s.row) = Len(t) /\ Len(t) = Size2048)
  <2> DEFINE a == Len(s.row)
             b == Len(t)
             n == Size2048
  <2>1. a \in Nat /\ b \in Nat /\ n \in Nat /\ a <= b /\ b <= n
    BY <1>1, <1>2, <1>4
  <2> HIDE DEF a, b, n
  <2>2. a <= n /\ (a = n => a = b /\ b = n)
    BY <2>1
  <2> QED BY <2>2 DEF a, b, n
<1>6. Len(s.row) = Size2048 => \A i \in Places : s.row[i] = g[T!CellAt(move, k, i)]
  BY <1>1, <1>2, <1>5
<1> QED BY <1>2, <1>3, <1>4, <1>5, <1>6 DEF SlidLine, s, t

\* The board after a move, line by line.
LEMMA MovedGrid ==
  ASSUME NEW g \in Grids, NEW move \in Lines
  PROVE  LET new == T!Moved(g, move).grid
         IN  /\ new \in Grids
             /\ \A k, i \in Places :
                  new[T!CellAt(move, k, i)] = LET row == SlidLine(g, move, k).row
                                              IN  IF i <= Len(row) THEN row[i] ELSE 0
             /\ T!Moved(g, move).gained = SumFunction([k \in Places |-> SlidLine(g, move, k).gained])
<1> DEFINE slid    == [k \in 1 .. Size2048 |-> T!Slid(T!Tiles(g, move, k))]
           tile(l) == IF l[2] <= Len(slid[l[1]].row) THEN slid[l[1]].row[l[2]] ELSE 0
           new == T!Moved(g, move).grid
           row(k) == SlidLine(g, move, k).row
<1>1. new = [c \in T!Cells |-> tile(T!LineAndPlace(move, c))]
  BY DEF T!Moved
<1>2. \A k \in Places : slid[k] = SlidLine(g, move, k)
  BY DEF SlidLine, Places
<1>3. T!Moved(g, move).gained = SumFunction([k \in Places |-> SlidLine(g, move, k).gained])
  <2> DEFINE gain == [k \in 1 .. Size2048 |-> slid[k].gained]
  <2>1. T!Moved(g, move).gained = T!FoldFunction(+, 0, gain)
    BY DEF T!Moved
  <2>2. gain = [k \in Places |-> SlidLine(g, move, k).gained]
    BY <1>2 DEF Places
  <2> HIDE DEF gain
  <2> QED BY <2>1, <2>2, GainsAreSummed
<1> HIDE DEF slid, new
<1>4. \A k, i \in Places : tile(<<k, i>>) = IF i <= Len(row(k)) THEN row(k)[i] ELSE 0
  BY <1>2
<1> HIDE DEF tile
<1>5. \A k, i \in Places : tile(<<k, i>>) \in Nat /\ tile(<<k, i>>) # 1
  <2>1. ASSUME NEW k \in Places, NEW i \in Places PROVE tile(<<k, i>>) \in Nat /\ tile(<<k, i>>) # 1
    <3> DEFINE r == row(k)
    <3>1. r \in Seq(Nat) /\ \A j \in 1 .. Len(r) : r[j] >= 2
      BY SlidLines
    <3> HIDE DEF r
    <3>2. \A j \in 1 .. Len(r) : r[j] \in Nat /\ r[j] # 1
      <4>1. \A v \in Nat : v >= 2 => v # 1
        OBVIOUS
      <4> QED BY <3>1, <4>1, RowTypes
    <3>3. i <= Len(r) => i \in 1 .. Len(r)
      <4>1. Len(r) \in Nat /\ i \in Nat /\ i >= 1
        BY <3>1, RowTypes DEF Places
      <4> QED BY <4>1
    <3>4. tile(<<k, i>>) = IF i <= Len(r) THEN r[i] ELSE 0
      BY <1>4 DEF r
    <3>5. CASE i <= Len(r)
      BY <3>2, <3>3, <3>4, <3>5
    <3>6. CASE ~ (i <= Len(r))
      BY <3>4, <3>6
    <3> QED BY <3>5, <3>6
  <2> QED BY <2>1
<1>6. \A k, i \in Places : new[T!CellAt(move, k, i)] = tile(<<k, i>>)
  BY <1>1, LinesCover
<1>7. new \in Grids
  <2>1. ASSUME NEW c \in T!Cells PROVE tile(T!LineAndPlace(move, c)) \in Nat /\ tile(T!LineAndPlace(move, c)) # 1
    <3> DEFINE l == T!LineAndPlace(move, c)
    <3>1. l[1] \in Places /\ l[2] \in Places /\ T!CellAt(move, l[1], l[2]) = c
      BY LinesCover
    <3> HIDE DEF l
    <3>2. T!LineAndPlace(move, c) = <<l[1], l[2]>>
      BY <3>1, LinesCover
    <3> QED BY <1>5, <3>1, <3>2
  <2> QED BY <1>1, <2>1 DEF Grids
<1> QED BY <1>3, <1>4, <1>6, <1>7 DEF new, row

\* What a line of the new board adds up to.
LEMMA LineSumMoved ==
  ASSUME NEW g \in Grids, NEW move \in Lines, NEW k \in Places, NEW w \in [Nat -> Nat], w[0] = 0
  PROVE  LineSum(w, T!Moved(g, move).grid, move, k) = RowSum(w, SlidLine(g, move, k).row)
<1> DEFINE new == T!Moved(g, move).grid
           r == SlidLine(g, move, k).row
           n == Size2048
           m == Len(r)
<1>1. r \in Seq(Nat) /\ m \in Nat /\ m <= n /\ n \in Nat /\ \A i \in 1 .. m : r[i] \in Nat
  <2>1. r \in Seq(Nat) /\ m <= n
    BY SlidLines
  <2> HIDE DEF r
  <2> QED BY <2>1, RowTypes, DuelAssumption
<1>2. \A i \in 1 .. n : new[T!CellAt(move, k, i)] = IF i <= m THEN r[i] ELSE 0
  BY MovedGrid DEF Places
<1> HIDE DEF new, r, n, m
<1> DEFINE V == 1 .. m
           S == 1 .. n
           h == [i \in V |-> w[r[i]]]
           f == [i \in S |-> w[new[T!CellAt(move, k, i)]]]
           e == [i \in V |-> i]
<1>3. IsFiniteSet(V) /\ IsFiniteSet(S) /\ h \in [V -> Nat]
  BY <1>1, PlacesFinite
<1>4. \A i \in S : i \in V <=> i <= m
  BY <1>1
<1>5. e \in [V -> S] /\ \A a, b \in V : e[a] = e[b] => a = b
  <2>1. \A i \in V : i \in S
    BY <1>1
  <2> QED BY <2>1
<1>6. \A i \in S : f[i] = IF i \in V THEN w[r[i]] ELSE 0
  BY <1>2, <1>4
<1>7. f \in [S -> Nat]
  <2>1. \A i \in S : f[i] \in Nat
    <3> HIDE DEF f, S, V
    <3>1. \A i \in V : w[r[i]] \in Nat
      BY <1>1 DEF V
    <3> QED BY <1>6, <3>1
  <2> QED BY <2>1
<1>8. \A i \in V : h[i] = f[e[i]]
  BY <1>5, <1>6
<1>9. \A i \in S : f[i] = 0 \/ \E v \in V : e[v] = i
  <2> HIDE DEF f
  <2> QED BY <1>6
<1>10. RowSum(w, r) = SumFunction(h) /\ LineSum(w, new, move, k) = SumFunction(f)
  BY DEF RowSum, LineSum, Places, m, n
<1> HIDE DEF V, S, h, f, e
<1>11. Renamed(h, V, f, S, e)
  BY <1>3, <1>5, <1>7, <1>8, <1>9 DEF Renamed
<1> QED BY <1>10, <1>11, SumRenamed DEF new, r

\* The tiles add up to the same as before, and what merging earned has grown by the points.
LEMMA MoveKeepsSums ==
  ASSUME NEW g \in Grids, NEW move \in Lines
  PROVE  LET moved == T!Moved(g, move)
         IN  /\ moved.grid \in Grids /\ moved.gained \in Nat
             /\ GridSum(Itself, moved.grid) = GridSum(Itself, g)
             /\ GridSum(Earned, moved.grid) = GridSum(Earned, g) + moved.gained
<1> DEFINE new    == T!Moved(g, move).grid
           before(w) == [k \in Places |-> LineSum(w, g, move, k)]
           after(w)  == [k \in Places |-> LineSum(w, new, move, k)]
           gain   == [k \in Places |-> SlidLine(g, move, k).gained]
<1>1. new \in Grids /\ T!Moved(g, move).gained = SumFunction(gain)
  BY MovedGrid
<1>2. g \in [T!Cells -> Nat] /\ new \in [T!Cells -> Nat]
  BY <1>1 DEF Grids
<1>3. ASSUME NEW k \in Places
      PROVE  /\ LineSum(Itself, new, move, k) = LineSum(Itself, g, move, k)
             /\ LineSum(Earned, new, move, k) = LineSum(Earned, g, move, k) + SlidLine(g, move, k).gained
             /\ SlidLine(g, move, k).gained \in Nat
  <2>1. Itself[0] = 0 /\ Earned[0] = 0
    BY MergeEarns DEF Itself
  <2>2. /\ LineSum(Itself, new, move, k) = RowSum(Itself, SlidLine(g, move, k).row)
        /\ LineSum(Earned, new, move, k) = RowSum(Earned, SlidLine(g, move, k).row)
    BY <2>1, WeightTypes, LineSumMoved
  <2> QED BY <2>2, SlidLines
<1> HIDE DEF new
<1>4. \A w \in [Nat -> Nat] : /\ GridSum(w, g) = SumFunction(before(w)) /\ before(w) \in [Places -> Nat]
                              /\ GridSum(w, new) = SumFunction(after(w)) /\ after(w) \in [Places -> Nat]
  BY <1>2, GridByLines, LineSumType
<1>5. gain \in [Places -> Nat] /\ IsFiniteSet(Places)
  BY <1>3, BoardFinite
<1>6. SumFunction(gain) \in Nat
  <2> HIDE DEF gain
  <2> QED BY <1>5, SumType
<1>7. after(Itself) = before(Itself)
  BY <1>3
<1>8. \A k \in Places : after(Earned)[k] = before(Earned)[k] + gain[k]
  BY <1>3
<1>9. /\ GridSum(Itself, g) = SumFunction(before(Itself)) /\ GridSum(Itself, new) = SumFunction(after(Itself))
      /\ GridSum(Earned, g) = SumFunction(before(Earned)) /\ GridSum(Earned, new) = SumFunction(after(Earned))
      /\ before(Earned) \in [Places -> Nat] /\ after(Earned) \in [Places -> Nat]
  <2> HIDE DEF before, after
  <2> QED BY <1>4, WeightTypes
<1>10. SumFunction(after(Earned)) = SumFunction(before(Earned)) + SumFunction(gain)
  <2> DEFINE a == after(Earned)
             b == before(Earned)
             S == Places
  <2>1. a \in [S -> Nat] /\ b \in [S -> Nat] /\ gain \in [S -> Nat] /\ IsFiniteSet(S) /\ \A k \in S : a[k] = b[k] + gain[k]
    BY <1>5, <1>8, <1>9
  <2> HIDE DEF a, b, gain, S
  <2>2. SumFunction(a) = SumFunction(b) + SumFunction(gain)
    BY ONLY <2>1, SumAdds
  <2> QED BY <2>2 DEF a, b
<1> HIDE DEF before, after, gain
<1> QED BY <1>1, <1>6, <1>7, <1>9, <1>10 DEF new

\* A board that a move has changed has room for a tile.
LEMMA MoveLeavesRoom ==
  ASSUME NEW g \in Grids, NEW move \in Lines, T!Moved(g, move).grid # g
  PROVE  \E c \in T!Cells : T!Moved(g, move).grid[c] = 0
<1> DEFINE new == T!Moved(g, move).grid
           row(k) == SlidLine(g, move, k).row
           n == Size2048
<1> SUFFICES ASSUME \A c \in T!Cells : new[c] # 0 PROVE new = g
  OBVIOUS
<1>1. /\ new \in Grids
      /\ \A k, i \in Places : new[T!CellAt(move, k, i)] = IF i <= Len(row(k)) THEN row(k)[i] ELSE 0
  BY MovedGrid
<1> HIDE DEF new
<1>2. ASSUME NEW k \in Places, NEW i \in Places PROVE new[T!CellAt(move, k, i)] = g[T!CellAt(move, k, i)]
  <2> DEFINE r == row(k)
  <2>1. /\ r \in Seq(Nat) /\ Len(r) <= n
        /\ Len(r) = n => \A j \in Places : r[j] = g[T!CellAt(move, k, j)]
    BY SlidLines
  <2>2. \A j \in Places : j <= Len(r)
    <3>1. ASSUME NEW j \in Places PROVE j <= Len(r)
      <4>1. T!CellAt(move, k, j) \in T!Cells
        BY LinesCover
      <4> QED BY <1>1, <4>1
    <3> QED BY <3>1
  <2> HIDE DEF r
  <2>3. Len(r) = n
    <3> DEFINE m == Len(r)
    <3>1. m \in Nat /\ n \in Nat /\ n >= 1 /\ m <= n /\ n \in Places
      BY <2>1, RowTypes, DuelAssumption DEF Places
    <3>2. n <= m
      BY <2>2, <3>1
    <3> HIDE DEF m, n
    <3> QED BY <3>1, <3>2 DEF m
  <2>4. new[T!CellAt(move, k, i)] = r[i]
    BY <1>1, <2>2 DEF r
  <2> QED BY <2>1, <2>3, <2>4
<1>3. \A c \in T!Cells : new[c] = g[c]
  BY <1>2, LinesCover
<1> QED BY <1>1, <1>3 DEF Grids

-----------------------------------------------------------------------------
(* 2048: a score is what merging earned *)

\* A tile put on an empty cell adds what it shows, and as if it had been merged.
LEMMA TileAdds ==
  ASSUME NEW g \in Grids, NEW c \in T!Cells, g[c] = 0, NEW v \in {2, 4},
         NEW w \in [Nat -> Nat], w[0] = 0
  PROVE  LET h == [g EXCEPT ![c] = v]
         IN  /\ h \in Grids /\ GridSum(w, h) = GridSum(w, g) + w[v]
             /\ GridSum(w, g) \in Nat /\ w[v] \in Nat
<1> DEFINE S == T!Cells
           h == [g EXCEPT ![c] = v]
           a == [d \in S |-> w[g[d]]]
           b == [d \in S |-> w[h[d]]]
<1>1. v \in Nat /\ v # 1
  OBVIOUS
<1>2. h \in Grids /\ h[c] = v /\ \A d \in S \ {c} : h[d] = g[d]
  BY <1>1 DEF Grids
<1>3. a \in [S -> Nat] /\ b \in [S -> Nat] /\ a[c] = 0 /\ b[c] = w[v] /\ w[v] \in Nat
      /\ \A d \in S \ {c} : b[d] = a[d]
  <2> HIDE DEF h
  <2> QED BY <1>1, <1>2 DEF Grids
<1>4. GridSum(w, g) = SumFunction(a) /\ GridSum(w, h) = SumFunction(b)
  BY DEF GridSum
<1>5. IsFiniteSet(S) /\ c \in S
  BY BoardFinite
<1> DEFINE x == SumFunction(a)
           y == SumFunction(b)
           z == w[v]
<1>6. x \in Nat /\ y \in Nat /\ y + 0 = x + z
  <2> HIDE DEF a, b, S, z
  <2>1. x \in Nat /\ y \in Nat
    BY <1>3, <1>5, SumType
  <2>2. y + a[c] = x + b[c]
    BY ONLY <1>3, <1>5, SumChangesOne
  <2> QED BY <1>3, <2>1, <2>2 DEF z
<1>7. y = x + z
  <2> HIDE DEF x, y, z
  <2>1. z \in Nat
    BY <1>3 DEF z
  <2> QED BY <1>6, <2>1
<1> QED BY <1>2, <1>3, <1>4, <1>6, <1>7

\* A board whose score is what merging earned.
BoardEarned(b) ==
  /\ b.grid \in Grids /\ b.score \in Nat /\ b.moves \in Nat
  /\ b.score + 2 * GridSum(Itself, b.grid) = 4 * (b.moves + 2) + GridSum(Earned, b.grid)

LEMMA SumsAreTyped ==
  ASSUME NEW g \in Grids
  PROVE  GridSum(Itself, g) \in Nat /\ GridSum(Earned, g) \in Nat
<1>1. ASSUME NEW w \in [Nat -> Nat] PROVE GridSum(w, g) \in Nat
  <2> DEFINE f == [c \in T!Cells |-> w[g[c]]]
  <2>1. f \in [T!Cells -> Nat]
    BY DEF Grids
  <2> HIDE DEF f
  <2>2. SumFunction(f) \in Nat
    BY <2>1, BoardFinite, SumType
  <2> QED BY <2>2 DEF GridSum, f
<1> QED BY <1>1, WeightTypes

\* A tile that is given counts for a move: twice what it shows is 4 more than what merging
\* would have earned.
LEMMA TileGiven ==
  ASSUME NEW g \in Grids, NEW c \in T!Cells, g[c] = 0, NEW v \in {2, 4}
  PROVE  LET h == [g EXCEPT ![c] = v]
         IN  h \in Grids /\ 2 * GridSum(Itself, h) + GridSum(Earned, g)
                              = 2 * GridSum(Itself, g) + GridSum(Earned, h) + 4
<1> DEFINE h == [g EXCEPT ![c] = v]
           a == GridSum(Itself, g)
           b == GridSum(Itself, h)
           p == GridSum(Earned, g)
           q == GridSum(Earned, h)
<1>1. Itself[0] = 0 /\ Earned[0] = 0 /\ Itself[v] = v
  BY MergeEarns DEF Itself
<1>2. h \in Grids /\ b = a + Itself[v] /\ q = p + Earned[v] /\ a \in Nat /\ p \in Nat
  BY <1>1, WeightTypes, TileAdds
<1>3. (v = 2 /\ Earned[v] = 0) \/ (v = 4 /\ Earned[v] = 4)
  BY MergeEarns
<1>4. 2 * b + p = 2 * a + q + 4
  <2> DEFINE e == Earned[v]
  <2>1. b = a + v /\ q = p + e /\ a \in Nat /\ p \in Nat /\ ((v = 2 /\ e = 0) \/ (v = 4 /\ e = 4))
    BY <1>1, <1>2, <1>3
  <2> HIDE DEF a, b, p, q, e
  <2>2. CASE v = 2 /\ e = 0
    <3>1. b = a + 2 /\ q = p /\ q \in Nat /\ a \in Nat /\ b \in Nat
      BY <2>1, <2>2
    <3>2. 2 * b = 2 * a + 4
      BY ONLY <3>1
    <3> QED BY ONLY <3>1, <3>2
  <2>3. CASE v = 4 /\ e = 4
    <3>1. b = a + 4 /\ q = p + 4
      BY <2>1, <2>3
    <3> QED BY <2>1, <3>1
  <2> QED BY <2>1, <2>2, <2>3
<1> QED BY <1>2, <1>4

LEMMA SpawnedEarns ==
  ASSUME NEW g \in Grids, \E c \in T!Cells : g[c] = 0, NEW h \in T!Spawned(g)
  PROVE  h \in Grids /\ 2 * GridSum(Itself, h) + GridSum(Earned, g)
                          = 2 * GridSum(Itself, g) + GridSum(Earned, h) + 4
<1> DEFINE empty == {c \in T!Cells : g[c] = 0}
<1>1. empty # {}
  OBVIOUS
<1>2. h \in {[g EXCEPT ![c] = v] : c \in empty, v \in {2, 4}}
  BY <1>1 DEF T!Spawned
<1>3. PICK c \in empty, v \in {2, 4} : h = [g EXCEPT ![c] = v]
  BY <1>2
<1>4. c \in T!Cells /\ g[c] = 0
  OBVIOUS
<1> QED BY <1>3, <1>4, TileGiven

\* A move and the tile that follows it.
LEMMA MoveEarns ==
  ASSUME NEW b, BoardEarned(b), NEW move \in Lines,
         T!Moved(b.grid, move).grid # b.grid, NEW h \in T!Spawned(T!Moved(b.grid, move).grid),
         NEW d, d.grid = h, d.score = b.score + T!Moved(b.grid, move).gained, d.moves = b.moves + 1
  PROVE  BoardEarned(d)
<1> DEFINE g    == b.grid
           new  == T!Moved(g, move).grid
           gain == T!Moved(g, move).gained
<1>1. /\ g \in Grids /\ b.score \in Nat /\ b.moves \in Nat
      /\ b.score + 2 * GridSum(Itself, g) = 4 * (b.moves + 2) + GridSum(Earned, g)
  BY DEF BoardEarned
<1>2. /\ new \in Grids /\ gain \in Nat
      /\ GridSum(Itself, new) = GridSum(Itself, g) /\ GridSum(Earned, new) = GridSum(Earned, g) + gain
  BY <1>1, MoveKeepsSums
<1>3. \E c \in T!Cells : new[c] = 0
  BY <1>1, MoveLeavesRoom
<1>4. h \in Grids /\ 2 * GridSum(Itself, h) + GridSum(Earned, new)
                       = 2 * GridSum(Itself, new) + GridSum(Earned, h) + 4
  <2> HIDE DEF new
  <2> QED BY <1>2, <1>3, SpawnedEarns DEF new
<1> DEFINE a == GridSum(Itself, g)
           p == GridSum(Earned, g)
           x == GridSum(Itself, h)
           q == GridSum(Earned, h)
           s == b.score
           m == b.moves
           t == d.score
           l == d.moves
<1>5. a \in Nat /\ p \in Nat /\ x \in Nat /\ q \in Nat
  BY <1>1, <1>4, SumsAreTyped
<1>6. /\ s \in Nat /\ m \in Nat /\ gain \in Nat /\ t = s + gain /\ l = m + 1
      /\ s + 2 * a = 4 * (m + 2) + p /\ 2 * x + (p + gain) = 2 * a + q + 4
  BY <1>1, <1>2, <1>4
<1>7. t \in Nat /\ l \in Nat /\ t + 2 * x = 4 * (l + 2) + q
  <2> HIDE DEF a, p, x, q, s, m, gain, t, l
  <2> QED BY <1>5, <1>6
<1> QED BY <1>4, <1>7 DEF BoardEarned

DuelEarned(g) == \A s \in {0, 1} : BoardEarned(g.board[s])

LEMMA MoveKeepsEarned ==
  ASSUME NEW g, DuelOK(g), DuelEarned(g), NEW move \in Lines, NEW h \in T!AppliedMove(g, g.turn, move)
  PROVE  DuelEarned(h)
<1> DEFINE old   == g.board[g.turn]
           moved == T!Moved(old.grid, move)
<1>1. g.turn \in {0, 1} /\ DOMAIN g.board = {0, 1} /\ BoardEarned(old)
  BY DEF DuelOK, DuelEarned
<1> SUFFICES ASSUME BoardMoved(g, h, move) PROVE DuelEarned(h)
  <2>1. h = g \/ BoardMoved(g, h, move)
    BY AppliedBoards
  <2> QED BY <2>1
<1>2. moved.grid # old.grid
  BY DEF BoardMoved
<1>3. PICK d : /\ d.grid \in T!Spawned(moved.grid) /\ d.score = old.score + moved.gained
               /\ d.moves = old.moves + 1 /\ h.board = [g.board EXCEPT ![g.turn] = d]
  BY DEF BoardMoved
<1>4. BoardEarned(d)
  <2> HIDE DEF old
  <2> QED BY <1>1, <1>2, <1>3, MoveEarns
<1>5. \A s \in {0, 1} : h.board[s] = IF s = g.turn THEN d ELSE g.board[s]
  BY <1>1, <1>3
<1> QED BY <1>4, <1>5 DEF DuelEarned

\* The first board: two tiles, no points.
LEMMA FirstBoardEarned ==
  ASSUME NEW g \in T!Spawned([c \in T!Cells |-> 0]), NEW h \in T!Spawned(g)
  PROVE  BoardEarned(T!Board(h))
<1> DEFINE zero == [c \in T!Cells |-> 0]
           n == Size2048
<1>1. zero \in Grids /\ \A c \in T!Cells : zero[c] = 0
  BY DEF Grids
<1>2. n \in Nat /\ n >= 2 /\ T!Cells = (1 .. n) \X (1 .. n)
  BY DuelAssumption DEF T!Cells
<1>3. <<1, 1>> \in T!Cells /\ <<2, 2>> \in T!Cells /\ <<1, 1>> # <<2, 2>>
  <2> HIDE DEF n
  <2> QED BY <1>2
<1>4. GridSum(Itself, zero) = 0 /\ GridSum(Earned, zero) = 0
  <2>1. ASSUME NEW w \in [Nat -> Nat], w[0] = 0 PROVE GridSum(w, zero) = 0
    <3> DEFINE f == [c \in T!Cells |-> w[zero[c]]]
    <3>1. f \in [T!Cells -> Nat] /\ \A c \in T!Cells : f[c] = 0
      BY <2>1
    <3> HIDE DEF f
    <3>2. SumFunction(f) = 0
      BY <3>1, BoardFinite, SumOfNothing
    <3> QED BY <3>2 DEF GridSum, f
  <2>2. Itself[0] = 0 /\ Earned[0] = 0
    BY MergeEarns DEF Itself
  <2> HIDE DEF zero
  <2> QED BY <2>1, <2>2, WeightTypes
<1>5. DOMAIN zero = T!Cells
  OBVIOUS
<1> HIDE DEF zero
<1>6. g \in T!Spawned(zero)
  BY DEF zero
<1>7. g \in Grids /\ 2 * GridSum(Itself, g) + GridSum(Earned, zero)
                       = 2 * GridSum(Itself, zero) + GridSum(Earned, g) + 4
  BY <1>1, <1>3, <1>6, SpawnedEarns
<1>8. \E c \in T!Cells : g[c] = 0
  <2>1. PICK a \in T!Cells : \A e \in T!Cells : e # a => g[e] = zero[e]
    BY <1>1, <1>3, <1>5, <1>6, SpawnedTile
  <2>2. PICK c \in T!Cells : c # a
    BY <1>3
  <2> QED BY <1>1, <2>1, <2>2
<1>9. h \in Grids /\ 2 * GridSum(Itself, h) + GridSum(Earned, g)
                       = 2 * GridSum(Itself, g) + GridSum(Earned, h) + 4
  BY <1>7, <1>8, SpawnedEarns
<1> DEFINE b == T!Board(h)
           a == GridSum(Itself, g)
           p == GridSum(Earned, g)
           x == GridSum(Itself, h)
           q == GridSum(Earned, h)
<1>10. b.grid = h /\ b.score = 0 /\ b.moves = 0
  BY DEF T!Board
<1>11. a \in Nat /\ p \in Nat /\ x \in Nat /\ q \in Nat
  BY <1>7, <1>9, SumsAreTyped
<1>12. 0 + 2 * x = 4 * (0 + 2) + q
  <2>1. 2 * a + 0 = 2 * 0 + p + 4 /\ 2 * x + p = 2 * a + q + 4
    BY <1>4, <1>7, <1>9
  <2> HIDE DEF a, p, x, q
  <2> QED BY <1>11, <2>1
<1> HIDE DEF b
<1>13. BoardEarned(b)
  BY <1>9, <1>10, <1>12 DEF BoardEarned
<1> QED BY <1>13 DEF b

EarnInv == gameType = "2048" => DuelEarned(game)

LEMMA EarnBegins == LoopInit => EarnInv
<1> SUFFICES ASSUME LoopInit, gameType = "2048" PROVE DuelEarned(game)
  BY DEF EarnInv
<1> DEFINE fresh == UNION {T!Spawned(g) : g \in T!Spawned([c \in T!Cells |-> 0])}
<1>1. PICK grid \in fresh : game = [board |-> [s \in {0, 1} |-> T!Board(grid)], turn |-> 0,
                                   status |-> "playing", winner |-> -1]
  BY DEF LoopInit, Begins, Game2048Begins, T!InitialStates
<1>2. \A s \in {0, 1} : game.board[s] = T!Board(grid)
  BY <1>1
<1>3. BoardEarned(T!Board(grid))
  BY FirstBoardEarned
<1> QED BY <1>2, <1>3 DEF DuelEarned

LEMMA DuelTurnEarns == GamesInv /\ TypeInv /\ CanActInv /\ EarnInv /\ Game2048Turn => DuelEarned(game')
<1> SUFFICES ASSUME GamesInv, TypeInv, CanActInv, EarnInv, Game2048Turn PROVE DuelEarned(game')
  OBVIOUS
<1> DEFINE grid == game.board[game.turn].grid
<1>1. gameType = "2048" /\ table.status = "active"
  BY DEF Game2048Turn, Playing
<1>2. DuelOK(game) /\ T!LegalMoves(grid) # {} /\ DuelEarned(game)
  BY <1>1, DuelCanAct DEF EarnInv
<1>3. PICK answered \in Answers :
        \E move \in Game2048Replies(grid, answered) :
          \E h \in T!AppliedMove(game, game.turn, move) : game' = h
  BY DEF Game2048Turn, Game2048Next
<1>4. PICK move \in Game2048Replies(grid, answered) :
        \E h \in T!AppliedMove(game, game.turn, move) : game' = h
  BY <1>3
<1>5. move \in T!LegalMoves(grid)
  <2> HIDE DEF grid
  <2> QED BY <1>2, <1>4, FirstIsLegal DEF Game2048Replies
<1>6. move \in Lines
  <2> HIDE DEF grid
  <2> QED BY <1>5, LinesAreMoves DEF T!LegalMoves
<1>7. game' \in T!AppliedMove(game, game.turn, move)
  BY <1>4
<1> QED BY <1>2, <1>6, <1>7, MoveKeepsEarned

LEMMA EarnStep == GamesInv /\ TypeInv /\ CanActInv /\ EarnInv /\ [LoopNext]_allVars => EarnInv'
<1> SUFFICES ASSUME GamesInv, TypeInv, CanActInv, EarnInv, [LoopNext]_allVars, gameType' = "2048"
             PROVE  DuelEarned(game')
  <2>1. DuelEarned(game') => DuelEarned(game)'
    BY DEF DuelEarned, BoardEarned
  <2> QED BY <2>1 DEF EarnInv
<1>1. CASE Turn \/ ClockFires
  <2>1. gameType = "2048" /\ (Game2048Turn \/ (ClockFires /\ game' = game))
    BY <1>1 DEF Turn, UnoTurn, UnoFollowUp, Game2048Turn, WerewolfTurn, MkOrient, MkBorder,
                MkTribute, MkPlace, RpsRound, RpsRevealed, ChessTurn, ChessOver, BoardTurn,
                ClockFires, Playing
  <2> QED BY <2>1, DuelTurnEarns DEF EarnInv
<1>2. CASE PokerStep \/ Over \/ UNCHANGED allVars
  <2>1. gameType' = gameType /\ game' = game
    BY <1>2 DEF PokerStep, Over, allVars, loopVars
  <2> QED BY <2>1 DEF EarnInv
<1> QED BY <1>1, <1>2 DEF LoopNext

\* 2048 on boards of any size and for any number of moves: the score of a side is what
\* merging earned.
THEOREM ScoreIsEarnedHolds == LoopSpec => []ScoreIsEarned
<1>1. EarnInv => ScoreIsEarned
  <2> SUFFICES ASSUME EarnInv, gameType = "2048", NEW s \in {0, 1}
               PROVE  LET b == game.board[s]
                      IN  b.score + 2 * SumFunction(b.grid)
                            = 4 * (b.moves + 2) + SumFunction([c \in T!Cells |-> Earned[b.grid[c]]])
    BY DEF ScoreIsEarned, OfType
  <2> DEFINE b == game.board[s]
  <2>1. BoardEarned(b)
    BY DEF EarnInv, DuelEarned
  <2> HIDE DEF b
  <2>2. [c \in T!Cells |-> Itself[b.grid[c]]] = b.grid
    BY <2>1 DEF BoardEarned, Grids, Itself
  <2>3. GridSum(Itself, b.grid) = SumFunction(b.grid)
    BY <2>2 DEF GridSum
  <2> QED BY <2>1, <2>3 DEF BoardEarned, GridSum, b
<1>2. EarnInv /\ (GamesInv /\ TypeInv /\ CanActInv) /\ [LoopNext]_allVars => EarnInv'
  BY EarnStep
<1>3. LoopInit => EarnInv
  BY EarnBegins
<1> QED BY <1>1, <1>2, <1>3, CanActHolds, PTL DEF LoopSpec

-----------------------------------------------------------------------------
(* Poker hands *)

Hp == INSTANCE HandProofs

\* The evaluator of the matches is the one HandProofs is about.
LEMMA SameHands ==
  ASSUME NEW S
  PROVE  H!EvaluateHand(S) = Hp!EvaluateHand(S) /\ H!RuleHand(S) = Hp!RuleHand(S)
<1>1. H!EvaluateHand(S) = Hp!EvaluateHand(S)
  BY DEF H!EvaluateHand, H!EvaluateFiveCards, H!Beats, H!StraightHigh, H!Groups, H!Falling,
         H!Count, H!Ranks, H!HandRank, H!Max, H!Min, H!Cardinality, H!kSubset,
         Hp!EvaluateHand, Hp!EvaluateFiveCards, Hp!Beats, Hp!StraightHigh, Hp!Groups,
         Hp!Falling, Hp!Count, Hp!Ranks, Hp!HandRank, Hp!Max, Hp!Min, Hp!Cardinality, Hp!kSubset
<1>2. H!RuleHand(S) = Hp!RuleHand(S)
  BY DEF H!RuleHand, H!StraightsTo, H!Kickers, H!Falling, H!Count, H!Ranks, H!Max, H!Cardinality,
         Hp!RuleHand, Hp!StraightsTo, Hp!Kickers, Hp!Falling, Hp!Count, Hp!Ranks, Hp!Max,
         Hp!Cardinality
<1> QED BY <1>1, <1>2

\* Poker with any decks of the code's cards: the best of all fives of any seven cards is
\* what the rules make of the seven at once.
THEOREM HandsRankedHolds == LoopSpec => []HandsRanked
<1>1. ASSUME NEW deck \in Decks, NEW cards \in kSubset(7, deck)
      PROVE  H!EvaluateHand(cards) = H!RuleHand(cards)
  <2>1. cards \in SUBSET H!Deck /\ Cardinality(cards) = 7
    BY DecksAssumption DEF kSubset
  <2>2. cards \in SUBSET Hp!Deck /\ Hp!Cardinality(cards) = 7
    BY <2>1 DEF H!Deck, H!Suits, Hp!Deck, Hp!Suits, Hp!Cardinality, Cardinality
  <2>3. Hp!EvaluateHand(cards) = Hp!RuleHand(cards)
    BY <2>2, Hp!BestOfSeven
  <2> QED BY <2>3, SameHands
<1>2. HandsRanked
  BY <1>1 DEF HandsRanked
<1> QED BY <1>2, PTL
=============================================================================
