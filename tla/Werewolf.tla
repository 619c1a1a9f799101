------------------------------ MODULE Werewolf ------------------------------
(***************************************************************************)
(* The werewolf engine (game-engine/werewolf/engine.ts): operators from    *)
(* the state of a game, a record, to the states it may become.             *)
(*                                                                         *)
(* Sides are numbered in the order of their letters.  What is said in a    *)
(* discussion changes nothing but whose turn it is; votes are kept as who  *)
(* has voted and how many votes each side has.                             *)
(***************************************************************************)
EXTENDS Integers, FiniteSetsExt

CONSTANTS RoleDeals,   \* the shuffles of the roles: functions from the sides
          MaxCycles,   \* WEREWOLF_MAX_CYCLES
          MaxTalks     \* WEREWOLF_MAX_DISCUSSION_TURNS_PER_PLAYER

Sides == DOMAIN (CHOOSE d \in RoleDeals : TRUE)
None  == -1
NoVotes == [s \in Sides |-> 0]

Wolves(g) == {s \in g.alive : g.role[s] = "WEREWOLF"}
Others(g) == g.alive \ Wolves(g)
Seers(g)  == {s \in g.alive : g.role[s] = "SEER"}

First(S) == IF S = {} THEN None ELSE Min(S)

\* createInitialState.
InitialStates ==
  {[role |-> deal, alive |-> Sides, phase |-> "NIGHT_WOLVES", cycle |-> 1,
    active |-> Min({s \in Sides : deal[s] = "WEREWOLF"}),
    voted |-> {}, tally |-> NoVotes, target |-> None, checked |-> {}, talks |-> NoVotes,
    status |-> "playing", winner |-> "none"] : deal \in RoleDeals}

-----------------------------------------------------------------------------

\* seerHasUncheckedTargets.
Unchecked(g, seer) == g.alive \ (g.checked \cup {seer})

\* getLegalActions: the targets a side may name, or what it may say.
LegalActions(g, side) ==
  IF g.status = "finished" \/ g.active # side \/ side \notin g.alive THEN {}
  ELSE CASE g.phase = "NIGHT_WOLVES" ->
              IF side \in Wolves(g) /\ side \notin g.voted THEN Others(g) ELSE {}
         [] g.phase = "NIGHT_SEER" -> IF side \in Seers(g) THEN Unchecked(g, side) ELSE {}
         [] g.phase = "DAY_DISCUSSION" -> {"say"}
         [] g.phase = "DAY_VOTE" -> IF side \in g.voted THEN {} ELSE g.alive

Finished(g) == [g EXCEPT !.status = "finished", !.phase = "FINISHED", !.active = None]

\* A mutant of Won: as many wolves as others have not won yet.
WonByMore(g) ==
  IF Wolves(g) = {} THEN "VILLAGERS"
  ELSE IF Cardinality(Wolves(g)) > Cardinality(Others(g)) THEN "WEREWOLVES"
  ELSE "none"

\* checkWinCondition.
Won(g) ==
  IF Wolves(g) = {} THEN "VILLAGERS"
  ELSE IF Cardinality(Wolves(g)) >= Cardinality(Others(g)) THEN "WEREWOLVES"
  ELSE "none"

Ended(g) == Finished([g EXCEPT !.winner = Won(g)])

\* killPlayer; None is nobody.
Killed(g, side) == [g EXCEPT !.alive = @ \ {side}]

\* resolveNightAndAdvanceToDay.
Day(g) ==
  LET h == [Killed(g, g.target) EXCEPT !.voted = {}, !.tally = NoVotes, !.target = None]
  IN  IF Won(h) # "none" THEN Ended(h)
      ELSE [h EXCEPT !.phase = "DAY_DISCUSSION", !.talks = NoVotes, !.active = First(h.alive)]

\* advanceFromNightWolves.
AfterWolves(g) ==
  LET seer == First(Seers(g))
  IN  IF seer # None /\ Unchecked(g, seer) # {}
      THEN [g EXCEPT !.phase = "NIGHT_SEER", !.active = seer]
      ELSE Day(g)

Leaders(g) == {s \in Sides : g.tally[s] > 0 /\ \A t \in Sides : g.tally[t] <= g.tally[s]}

\* A vote for oneself in the day is an abstention.
Voted(g, side, target) ==
  [g EXCEPT !.voted = @ \cup {side},
            !.tally[target] = IF g.phase = "DAY_VOTE" /\ target = side THEN @ ELSE @ + 1]

\* NIGHT_KILL_VOTE, resolveWolfVote: a hash of the seed decides a tie.
NightVote(g, side, target) ==
  LET h    == Voted(g, side, target)
      left == Wolves(h) \ h.voted
  IN  IF left # {} THEN {[h EXCEPT !.active = First(left)]}
      ELSE {AfterWolves([h EXCEPT !.target = t]) : t \in Leaders(h)}

\* SEER_INVESTIGATE.
Investigate(g, target) == {Day([g EXCEPT !.checked = @ \cup {target}])}

\* nextDiscussionSpeaker: the next one alive, in the order of the sides and around,
\* with turns left.
NextSpeaker(g) ==
  LET ready == {s \in g.alive : g.talks[s] < MaxTalks}
      later == {s \in ready : s > g.active}
  IN  IF later # {} THEN Min(later) ELSE First(ready)

\* A statement in the discussion.
Say(g, side) ==
  LET h == [g EXCEPT !.talks[side] = @ + 1]
  IN  IF NextSpeaker(h) # None THEN {[h EXCEPT !.active = NextSpeaker(h)]}
      ELSE {[h EXCEPT !.phase = "DAY_VOTE", !.voted = {}, !.tally = NoVotes,
                      !.active = First(h.alive)]}

\* A mutant of Night: the cycle is not counted.
NightUncounted(g) ==
  LET h == [g EXCEPT !.voted = {}, !.tally = NoVotes]
  IN  IF Won(h) # "none" THEN Ended(h)
      ELSE [h EXCEPT !.phase = "NIGHT_WOLVES", !.active = First(Wolves(h))]

\* advanceFromDayVote.
Night(g) ==
  LET h == [g EXCEPT !.voted = {}, !.tally = NoVotes]
  IN  IF Won(h) # "none" THEN Ended(h)
      ELSE IF h.cycle >= MaxCycles THEN Finished([h EXCEPT !.winner = "DRAW"])
      ELSE [h EXCEPT !.cycle = @ + 1, !.phase = "NIGHT_WOLVES", !.active = First(Wolves(h))]

\* DAY_VOTE, resolveDayVote: a tie lynches nobody.
DayVote(g, side, target) ==
  LET h    == Voted(g, side, target)
      left == h.alive \ h.voted
  IN  IF left # {} THEN {[h EXCEPT !.active = First(left)]}
      ELSE IF Cardinality(Leaders(h)) = 1 THEN {Night(Killed(h, First(Leaders(h))))}
      ELSE {Night(h)}

\* applyAction for a legal action.
Apply(g, side, action) ==
  CASE g.phase = "NIGHT_WOLVES"   -> NightVote(g, side, action)
    [] g.phase = "NIGHT_SEER"     -> Investigate(g, action)
    [] g.phase = "DAY_DISCUSSION" -> Say(g, side)
    [] g.phase = "DAY_VOTE"       -> DayVote(g, side, action)
=============================================================================
