--------------------------- MODULE MCMatchmaking ---------------------------
(* Instances of Matchmaking for TLC. *)
EXTENDS Matchmaking, TLC

CONSTANTS a1, a2, a3, a4, r1, r2, p1, p2

\* The identities of agents, requests and passes are interchangeable.
Symmetry == Permutations(Agents) \cup Permutations(Requests) \cup Permutations(Passes)
=============================================================================
