----------------------------- MODULE HumanMoves -----------------------------
(***************************************************************************)
(* HumanMoveService and its three callers that hand in a move: the socket  *)
(* (RealtimeGateway), the play endpoint (PlayService) and the agent        *)
(* endpoint (AgentApiService).  A match asks one seat at a time, or both   *)
(* at once (rock-paper-scissors).                                          *)
(***************************************************************************)
EXTENDS Integers, FiniteSets

CONSTANTS TurnMatches, ThrowMatches,   \* matches that ask in turn, or both sides
          SideKeyed,                   \* matches with a key for each side: throws and 2048
          PullSeats,                   \* seats of agents that use the agent endpoint
          Submits,                     \* bound: requests with a move at a time
          MaxTurns, MaxSubmits         \* bounds: turns of each match, requests

\* Both sides of a match that asks them at once need a key each.
ASSUME KeysAssumption == ThrowMatches \subseteq SideKeyed

TwoSides == {"a", "b"}
Boards   == TurnMatches \cup ThrowMatches
Seated   == Boards \X TwoSides         \* who sits where: an agent sits in one place
Nobody   == <<"nobody", "nobody">>

\* The keys of pendingMoves: the match, or the match and the side.
MainKey(m) == <<m, "both">>
KeyOf(seat) == IF seat[1] \in SideKeyed THEN seat ELSE MainKey(seat[1])
Keys == Seated \cup {MainKey(m) : m \in Boards}

VARIABLES
  asked,     \* the seats whose loop waits for their move
  turns,     \* how often a match has asked
  pending,   \* pendingMoves: the seat that is waited for under a key, or Nobody
  timers,    \* the keys of the running timers
  answers,   \* by whom the last move of a seat was handed in
  submit,    \* where a request with a move stands
  dropped,   \* the matches whose pending move the cleanup job cancelled
  submits

moveVars == <<asked, turns, pending, timers, answers, submit, dropped, submits>>

NoSubmit == [pc |-> "free", by |-> Nobody, match |-> "none", key |-> Nobody, seat |-> Nobody]

MovesInit ==
  /\ asked = {} /\ turns = [m \in Boards |-> 0]
  /\ pending = [k \in Keys |-> Nobody] /\ timers = {}
  /\ answers = [s \in Seated |-> Nobody]
  /\ submit = [r \in Submits |-> NoSubmit]
  /\ dropped = {} /\ submits = 0

-----------------------------------------------------------------------------
\* A turn controller asks one seat, or both, and waits for all that it asked.
\* waitForMove: what is pending under the key is cancelled.
Asks(m, seats) ==
  /\ turns[m] < MaxTurns[m] /\ turns' = [turns EXCEPT ![m] = @ + 1]
  /\ m \notin dropped /\ \A s \in asked : s[1] # m
  /\ asked' = asked \cup seats
  /\ pending' = [k \in Keys |-> IF \E s \in seats : k = KeyOf(s)
                               THEN CHOOSE s \in seats : k = KeyOf(s) ELSE pending[k]]
  /\ timers' = timers \cup {KeyOf(s) : s \in seats}
  /\ UNCHANGED <<answers, submit, dropped, submits>>

\* A mutant of TimesOut: a turn is not given up while a move for it is looked at.
TimesOutUnsubmitted(key) ==
  /\ key \in timers /\ \A r \in Submits : submit[r].key # key
  /\ timers' = timers \ {key}
  /\ pending' = [pending EXCEPT ![key] = Nobody]
  /\ asked' = asked \ {pending[key]}
  /\ answers' = [s \in Seated |-> IF s = pending[key] THEN Nobody ELSE answers[s]]
  /\ UNCHANGED <<turns, submit, dropped, submits>>

\* The timer of a key fires: the entry goes and the turn is told.
TimesOut(key) ==
  /\ key \in timers
  /\ timers' = timers \ {key}
  /\ pending' = [pending EXCEPT ![key] = Nobody]
  /\ asked' = asked \ {pending[key]}
  /\ answers' = [s \in Seated |-> IF s = pending[key] THEN Nobody ELSE answers[s]]
  /\ UNCHANGED <<turns, submit, dropped, submits>>

\* cancelPending in MatchCleanupJob: by the match alone, and the turn is not told.
Cancels(m) ==
  /\ m \notin dropped /\ dropped' = dropped \cup {m}
  /\ pending' = [pending EXCEPT ![MainKey(m)] = Nobody]
  /\ timers' = timers \ {MainKey(m)}
  /\ UNCHANGED <<asked, turns, answers, submit, submits>>

-----------------------------------------------------------------------------
\* A user is known by the seat its agent sits on.
Step(r, pc, key) == submit' = [submit EXCEPT ![r].pc = pc, ![r].key = key,
                                             ![r].seat = pending[key]]

\* handleGameMove and submitMove of PlayService look for the pending agent of the match.
\* The socket, if there is none, goes on with the keys of the sides.
Looks(r, by, m, socket) ==
  /\ submit[r] = NoSubmit /\ submits < MaxSubmits /\ submits' = submits + 1
  /\ by \notin PullSeats
  /\ submit' = [submit EXCEPT ![r] =
       IF pending[MainKey(m)] # Nobody
       THEN [pc |-> "verify", by |-> by, match |-> m, key |-> MainKey(m),
             seat |-> pending[MainKey(m)]]
       ELSE IF socket THEN [NoSubmit EXCEPT !.pc = "a", !.by = by, !.match = m]
       ELSE NoSubmit]
  /\ UNCHANGED <<asked, turns, pending, timers, answers, dropped>>

\* The key of a side: the agent pending there is read while others go on, and taken if
\* it is the user's.
LooksAt(r, side) ==
  LET key == <<submit[r].match, side>>
  IN  /\ submit[r].pc = side
      /\ IF pending[key] # Nobody /\ pending[key] = submit[r].by
         THEN Step(r, "verify", key)
         ELSE submit' = [submit EXCEPT ![r] = IF side = "a" THEN [@ EXCEPT !.pc = "b"]
                                              ELSE NoSubmit]
      /\ UNCHANGED <<asked, turns, pending, timers, answers, dropped, submits>>

\* The agent is read again, and must be the user's.
Verifies(r) ==
  /\ submit[r].pc = "verify"
  /\ submit' = [submit EXCEPT ![r] = IF @.seat = @.by THEN [@ EXCEPT !.pc = "submit"]
                                     ELSE NoSubmit]
  /\ UNCHANGED <<asked, turns, pending, timers, answers, dropped, submits>>

\* A mutant of SubmitMove: whoever is pending now gets the move.
SubmitMoveToAnyone(key, seat, by) ==
  LET to == pending[key]
  IN  IF to = Nobody THEN UNCHANGED <<asked, pending, timers, answers>>
      ELSE /\ timers' = timers \ {key}
           /\ pending' = [pending EXCEPT ![key] = Nobody]
           /\ asked' = asked \ {to}
           /\ answers' = [answers EXCEPT ![to] = by]

\* A mutant of SubmitMove: the timer is cleared before the agent is looked at.
SubmitMoveClearsFirst(key, seat, by) ==
  /\ timers' = timers \ {key}
  /\ IF pending[key] # seat THEN UNCHANGED <<asked, pending, answers>>
     ELSE /\ pending' = [pending EXCEPT ![key] = Nobody]
          /\ asked' = asked \ {seat}
          /\ answers' = [answers EXCEPT ![seat] = by]

\* HumanMoveService.submitMove: refused if another agent is waited for by now.
SubmitMove(key, seat, by) ==
  IF pending[key] # seat THEN UNCHANGED <<asked, pending, timers, answers>>
  ELSE /\ timers' = timers \ {key}
       /\ pending' = [pending EXCEPT ![key] = Nobody]
       /\ asked' = asked \ {seat}
       /\ answers' = [answers EXCEPT ![seat] = by]

Hands(r) ==
  /\ submit[r].pc = "submit"
  /\ SubmitMove(submit[r].key, submit[r].seat, submit[r].by)
  /\ submit' = [submit EXCEPT ![r] = NoSubmit]
  /\ UNCHANGED <<turns, dropped, submits>>

\* submitMove of AgentApiService does not wait in between: the key of the side for
\* rock-paper-scissors, else that of the match.
HandsOver(seat) ==
  LET key == IF seat[1] \in ThrowMatches /\ pending[seat] = seat THEN seat
             ELSE MainKey(seat[1])
  IN  /\ seat \in PullSeats /\ submits < MaxSubmits /\ submits' = submits + 1
      /\ SubmitMove(key, seat, seat)
      /\ UNCHANGED <<turns, submit, dropped>>

\* A mutant of Due: the keys of the sides are forgotten.
DueByMatch(seat) == pending[MainKey(seat[1])] = seat

\* heartbeat of HeartbeatService: whether the agent of a seat is told to move.
Due(seat) ==
  LET main == MainKey(seat[1])
  IN  pending[IF pending[main] # Nobody THEN main ELSE seat] = seat

-----------------------------------------------------------------------------
SubmitStep(r) == LooksAt(r, "a") \/ LooksAt(r, "b") \/ Verifies(r) \/ Hands(r)

MovesNext ==
  \/ \E seat \in Seated : HandsOver(seat) \/ (seat[1] \in TurnMatches /\ Asks(seat[1], {seat}))
  \/ \E m \in ThrowMatches : Asks(m, {m} \X TwoSides)
  \/ \E key \in Keys : TimesOut(key)
  \/ \E m \in Boards : Cancels(m)
  \/ \E r \in Submits :
        \/ SubmitStep(r)
        \/ \E by \in Seated, socket \in BOOLEAN : Looks(r, by, by[1], socket)

-----------------------------------------------------------------------------
(* Properties *)

\* A turn is only ever answered by the one who was asked, whatever happened between
\* looking up the pending agent and handing in: turns that ended, the next seat asked.
MovesAreOwn == \A s \in Seated : answers[s] \in {Nobody, s}

\* The service and the loops agree: a seat is waited for under its key and with a
\* running timer exactly while its loop waits, except where the cleanup cancelled.
WaitingIsPending ==
  /\ \A s \in asked : s[1] \notin dropped =>
        pending[KeyOf(s)] = s /\ KeyOf(s) \in timers
  /\ \A k \in Keys : /\ pending[k] # Nobody <=> k \in timers
                     /\ pending[k] # Nobody => pending[k] \in asked

\* An agent that polls learns of every turn of its own, and of no other: it is due
\* exactly while the loop waits for it, except where the cleanup cancelled.
DueIsAsked == \A s \in Seated : s[1] \notin dropped => (Due(s) <=> s \in asked)
=============================================================================
