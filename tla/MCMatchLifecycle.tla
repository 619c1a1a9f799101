-------------------------- MODULE MCMatchLifecycle --------------------------
(* Instances of MatchLifecycle for TLC. *)
EXTENDS MatchLifecycle

CONSTANTS m1, m2, a1, a2, a3

\* One match of two agents.
OneMatch     == {m1}
TwoAgents    == {a1, a2}
OnePlayers   == [m \in OneMatch |-> TwoAgents]

\* Two matches that share an agent.
TwoMatches   == {m1, m2}
ThreeAgents  == {a1, a2, a3}
TwoPlayers   == [m \in TwoMatches |-> IF m = m1 THEN {a1, a2} ELSE {a2, a3}]
=============================================================================
