----------------------------- MODULE Settlement -----------------------------
(***************************************************************************)
(* What the orchestrator promises of a match: it is opened once, while it  *)
(* is open its pot leaves the platform wallet at most once, and nothing is *)
(* paid after it is closed.  MatchLifecycle implements this specification  *)
(* as long as the process neither restarts nor sees a database call fail.  *)
(***************************************************************************)
CONSTANT Matches

VARIABLES stage,   \* per match: "unborn", "open" or "closed"
          paid     \* how often the pot of a match has left the platform wallet

vars == <<stage, paid>>

TypeOK == /\ stage \in [Matches -> {"unborn", "open", "closed"}]
          /\ paid \in [Matches -> {0, 1}]

Init == /\ stage = [m \in Matches |-> "unborn"]
        /\ paid = [m \in Matches |-> 0]

Open(m) == /\ stage[m] = "unborn"
           /\ stage' = [stage EXCEPT ![m] = "open"]
           /\ UNCHANGED paid

Pay(m) == /\ stage[m] = "open"
          /\ paid[m] = 0
          /\ paid' = [paid EXCEPT ![m] = 1]
          /\ UNCHANGED stage

Close(m) == /\ stage[m] = "open"
            /\ stage' = [stage EXCEPT ![m] = "closed"]
            /\ UNCHANGED paid

Next == \E m \in Matches : Open(m) \/ Pay(m) \/ Close(m)

Spec == Init /\ [][Next]_vars
=============================================================================
