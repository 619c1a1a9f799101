---------------------------- MODULE Matchmaking ----------------------------
(***************************************************************************)
(* The matchmaking queue: MatchmakingQueue, the join and cancel handlers   *)
(* of MatchmakingController, processPairing with its forced reset, the     *)
(* periodic cleanup, the store of x402 payments and a restart.             *)
(*                                                                         *)
(* A ticket is one entry object: <<agent, n>> is the agent's n-th joining. *)
(* Handlers and passes keep references to tickets across their awaits but  *)
(* look entries up by agent, so a later ticket of the agent may be the one *)
(* they find.                                                              *)
(***************************************************************************)
EXTENDS Integers, Sequences, FiniteSets
LOCAL INSTANCE Functions

CONSTANTS Agents,
          Alpha,        \* agents that queue with ALPHA: checked, not paid, on joining
          Requests,     \* join and cancel requests handled at the same time
          Passes,       \* runs of processPairing that may overlap
          MaxJoins,     \* bound: joinings per agent
          MaxTickets,   \* bound: joinings of all agents
          MaxPayments,  \* bound: x402 payments per agent
          MaxResets,    \* bound: forced resets of the processing flag
          MaxRestarts,  \* bound: restarts
          MaxFaults     \* bound: failing calls

ASSUME AlphaAssumption == Alpha \subseteq Agents
ASSUME PassesAssumption == IsFiniteSet(Passes)
ASSUME BoundsAssumption ==
  \A n \in {MaxJoins, MaxTickets, MaxPayments, MaxResets, MaxRestarts, MaxFaults} : n \in Nat

Tickets  == Agents \X (1 .. MaxJoins)
Owner(t) == t[1]
Owners(team) == {Owner(team[i]) : i \in DOMAIN team}

VARIABLES
  entries,     \* MatchmakingQueue.entries
  docs,        \* the queueentries collection, unique by agent
  pairing,     \* the tickets whose status is "pairing"; the others are "waiting"
  joins,       \* how often an agent has joined
  status,      \* Agent.status
  matches,     \* the live matches: <<team, which match of that team>>
  stored,      \* agents with a payment in X402PaymentStore
  payments,    \* how often an agent has paid a stake to the platform
  refunds,     \* how often the stake of a ticket was sent back
  matched,     \* how often a ticket was matched
  request,     \* where a join or cancel request stands
  pass,        \* where a pass stands
  processing,  \* the flag of processPairing
  cleaning,    \* the tickets cleanupStaleEntries has taken out
  resets, restarts, faults

queue   == <<entries, docs, pairing>>
agents  == <<joins, status, matches>>
money   == <<stored, payments, refunds, matched>>
passes  == <<pass, processing>>
mishaps == <<resets, restarts, faults>>
vars    == <<queue, agents, money, request, passes, cleaning, mishaps>>

NoRequest == [pc |-> "idle", agent |-> {}, ticket |-> {}, cancel |-> FALSE]
NoPass    == [pc |-> "idle", team |-> <<>>, at |-> 1, drops |-> 0, rest |-> {}]

TypeOK ==
  /\ entries \subseteq Tickets /\ docs \subseteq Tickets /\ pairing \subseteq Tickets
  /\ joins \in [Agents -> 0 .. MaxJoins]
  /\ stored \subseteq Agents
  /\ status \in [Agents -> {"idle", "queued", "in_match"}]
  /\ \A g \in matches : Owners(g[1]) \subseteq Agents /\ g[2] \in Nat
  /\ payments \in [Agents -> 0 .. MaxPayments]
  /\ refunds \in [Tickets -> Nat] /\ matched \in [Tickets -> Nat]
  /\ \A r \in Requests :
        /\ request[r].pc \in {"idle", "checked", "adding", "saving", "leaving", "idling"}
        /\ request[r].agent \subseteq Agents /\ request[r].ticket \subseteq Tickets
  /\ \A p \in Passes :
        /\ pass[p].pc \in {"idle", "claim", "check", "drop", "create", "start",
                           "unlist", "reset"}
        /\ pass[p].pc # "idle" => pass[p].at \in 1 .. Len(pass[p].team) + 1
  /\ processing \in BOOLEAN /\ cleaning \subseteq Tickets
  /\ resets \in 0 .. MaxResets /\ restarts \in 0 .. MaxRestarts
  /\ faults \in 0 .. MaxFaults

Init ==
  /\ entries = {} /\ docs = {} /\ pairing = {}
  /\ joins = [a \in Agents |-> 0]
  /\ status = [a \in Agents |-> "idle"] /\ matches = {}
  /\ stored = {} /\ payments = [a \in Agents |-> 0]
  /\ refunds = [t \in Tickets |-> 0] /\ matched = [t \in Tickets |-> 0]
  /\ request = [r \in Requests |-> NoRequest]
  /\ pass = [p \in Passes |-> NoPass] /\ processing = FALSE
  /\ cleaning = {}
  /\ resets = 0 /\ restarts = 0 /\ faults = 0

-----------------------------------------------------------------------------
OfAgent(S, a) == {t \in S : Owner(t) = a}
Waiting       == entries \ pairing
Plays(a)      == \E g \in matches : a \in Owners(g[1])

\* A call to the database or to the orchestrator fails.
Fault == /\ faults < MaxFaults
         /\ faults' = faults + 1
         /\ UNCHANGED <<resets, restarts>>

-----------------------------------------------------------------------------
(* Payments *)

\* X402StakeController and PlayService put a verified payment in the store.
Pay(a) ==
  /\ a \notin Alpha
  /\ payments[a] < MaxPayments
  /\ payments' = [payments EXCEPT ![a] = @ + 1]
  /\ stored' = stored \cup {a}
  /\ UNCHANGED <<queue, agents, refunds, matched, request, passes, cleaning, mishaps>>

\* After ten minutes the payment is dropped from the store.
PaymentExpires(a) ==
  /\ a \in stored
  /\ stored' = stored \ {a}
  /\ UNCHANGED <<queue, agents, payments, refunds, matched, request, passes,
                 cleaning, mishaps>>

-----------------------------------------------------------------------------
(* The join and cancel requests *)

To(r, pc) == request' = [request EXCEPT ![r].pc = pc]
Done(r)   == request' = [request EXCEPT ![r] = NoRequest]

\* leaveQueue up to the deletion: an entry being paired cannot leave, the request
\* is over; any other is taken out.
LeaveQueue(r, a, cancel) ==
  LET mine == OfAgent(entries, a)
  IN  /\ entries' = IF mine \cap pairing = {} THEN entries \ mine ELSE entries
      /\ request' = [request EXCEPT ![r] =
                       IF mine \cap pairing = {}
                       THEN [pc |-> "leaving", agent |-> {a}, ticket |-> mine,
                             cancel |-> cancel]
                       ELSE NoRequest]

\* The bounds let an agent join once more.
MayJoin(a) == joins[a] < MaxJoins /\ SumFunction(joins) < MaxTickets

\* The agent is idle and, for USDC, has a payment in the store.
JoinChecks(r, a) ==
  /\ request[r].pc = "idle"
  /\ status[a] = "idle"
  /\ a \in Alpha \cup stored
  /\ MayJoin(a)
  /\ request' = [request EXCEPT ![r] = [NoRequest EXCEPT !.pc = "checked", !.agent = {a}]]
  /\ UNCHANGED <<queue, agents, money, passes, cleaning, mishaps>>

\* joinQueue, up to the creation of the document.  It throws for an agent that has
\* an entry, is in a match or has joined less than five seconds ago (any that has
\* joined may have); the controller then makes the agent leave the queue.  The
\* cooldown outlasts the creation of the document.
JoinQueue(r) ==
  /\ request[r].pc = "checked"
  /\ \E a \in request[r].agent :
        \/ /\ joins[a] > 0 \/ Plays(a) \/ OfAgent(entries, a) # {}
           /\ LeaveQueue(r, a, FALSE)
           /\ UNCHANGED joins
        \/ /\ ~ Plays(a) /\ OfAgent(entries, a) = {}
           /\ \A q \in Requests : request[q].pc = "adding" => a \notin request[q].agent
           /\ MayJoin(a)
           /\ joins' = [joins EXCEPT ![a] = @ + 1]
           /\ request' = [request EXCEPT ![r].pc = "adding",
                                         ![r].ticket = {<<a, joins[a] + 1>>}]
           /\ UNCHANGED entries
  /\ UNCHANGED <<docs, pairing, status, matches, money, passes, cleaning, mishaps>>

\* The document is created, unless the agent has one, and the entry pushed.
JoinAdds(r) ==
  /\ request[r].pc = "adding"
  /\ \E a \in request[r].agent :
        \/ /\ OfAgent(docs, a) = {}
           /\ docs' = docs \cup request[r].ticket
           /\ entries' = entries \cup request[r].ticket
           /\ To(r, "saving")
           /\ UNCHANGED mishaps
        \/ /\ \/ OfAgent(docs, a) # {} /\ UNCHANGED mishaps
              \/ Fault
           /\ LeaveQueue(r, a, FALSE)
           /\ UNCHANGED docs
  /\ UNCHANGED <<pairing, agents, money, passes, cleaning>>

\* A mutant of JoinSaves: the agent gets the status of the entry.
JoinSavesWaiting(r) ==
  /\ request[r].pc = "saving"
  /\ status' = [a \in Agents |-> IF a \in request[r].agent THEN "waiting" ELSE status[a]]
  /\ Done(r)
  /\ UNCHANGED <<queue, joins, matches, money, passes, cleaning, mishaps>>

JoinSaves(r) ==
  /\ request[r].pc = "saving"
  /\ \E a \in request[r].agent :
        \/ /\ status' = [status EXCEPT ![a] = "queued"]
           /\ Done(r)
           /\ UNCHANGED <<entries, mishaps>>
        \/ /\ Fault
           /\ LeaveQueue(r, a, FALSE)
           /\ UNCHANGED status
  /\ UNCHANGED <<docs, pairing, joins, matches, money, passes, cleaning>>

Cancel(r, a) ==
  /\ request[r].pc = "idle"
  /\ status[a] = "queued"
  /\ LeaveQueue(r, a, TRUE)
  /\ UNCHANGED <<docs, pairing, agents, money, passes, cleaning, mishaps>>

\* The document is gone; an entry that was waiting gets its stake back.  A cancel
\* goes on to save the status.  A failed join saves nothing: the status it sets,
\* idle, is the one its copy of the agent was loaded with.
LeaveDeletes(r) ==
  /\ request[r].pc = "leaving"
  /\ \/ /\ docs' = {t \in docs : Owner(t) \notin request[r].agent}
        /\ refunds' = [t \in Tickets |-> IF t \in request[r].ticket \ pairing
                                         THEN refunds[t] + 1 ELSE refunds[t]]
        /\ IF request[r].cancel THEN To(r, "idling") ELSE Done(r)
        /\ UNCHANGED mishaps
     \/ /\ Fault
        /\ Done(r)
        /\ UNCHANGED <<docs, refunds>>
  /\ UNCHANGED <<entries, pairing, agents, stored, payments, matched, passes, cleaning>>

LeaveSaves(r) ==
  /\ request[r].pc = "idling"
  /\ status' = [a \in Agents |-> IF a \in request[r].agent THEN "idle" ELSE status[a]]
  /\ Done(r)
  /\ UNCHANGED <<queue, joins, matches, money, passes, cleaning, mishaps>>

-----------------------------------------------------------------------------
(* processPairing *)

\* The tables findPokerGroup may seat, and the sets of pairs findPairs may
\* return, of a set W of tickets that wait: members pay with the same token.
OneToken(team) == Owners(team) \subseteq Alpha \/ Owners(team) \cap Alpha = {}
Tables(W) == {t \in UNION {[1 .. n -> W] : n \in 3 .. Cardinality(W)} :
                Cardinality(Owners(t)) = Len(t) /\ OneToken(t)}
Pairs(W)  == {t \in [1 .. 2 -> W] : Owner(t[1]) # Owner(t[2]) /\ OneToken(t)}
Pairings(W) == {P \in (SUBSET Pairs(W)) \ {{}} :
                  \A s, t \in P : s # t => Owners(s) \cap Owners(t) = {}}

Begins(p, team, rest) ==
  pass' = [pass EXCEPT ![p] = [pc |-> "claim", team |-> team, at |-> 1,
                               drops |-> 0, rest |-> rest]]

\* A pass is over.
Ends(p) == /\ pass' = [pass EXCEPT ![p] = NoPass]
           /\ processing' = FALSE

\* The pass goes on with its next pair, or is over; after a table it looks for
\* pairs among the tickets W that wait now, and may find none that suit.
TakeNext(p, W) ==
  LET team == pass[p].team
      rest == pass[p].rest
  IN  \/ /\ rest # {}
         /\ \E t \in rest : Begins(p, t, rest \ {t})
         /\ UNCHANGED processing
      \/ /\ rest = {} /\ Len(team) > 2
         /\ \E P \in Pairings(W) : \E t \in P : Begins(p, t, P \ {t})
         /\ UNCHANGED processing
      \/ rest = {} /\ Ends(p)

At(p, pc, i) == pass' = [pass EXCEPT ![p].pc = pc, ![p].at = i]

\* The next place of the team, or what follows the last one.
Advance(p, pc, after) ==
  IF pass[p].at < Len(pass[p].team) THEN At(p, pc, pass[p].at + 1) ELSE At(p, after, 1)

Current(p) == Owner(pass[p].team[pass[p].at])

\* A mutant of PassStarts: the processing flag is not looked at.
PassStartsUnflagged(p) ==
  /\ pass[p].pc = "idle"
  /\ processing' = TRUE
  /\ \E P \in Pairings(Waiting) : \E t \in P : Begins(p, t, P \ {t})
  /\ UNCHANGED <<queue, agents, money, request, cleaning, mishaps>>

\* A pass begins when no other is at work, or when the other one has been for
\* thirty seconds and its flag is reset.  It may find nobody to match.
PassStarts(p) ==
  /\ pass[p].pc = "idle"
  /\ \/ ~ processing /\ UNCHANGED resets
     \/ processing /\ resets < MaxResets /\ resets' = resets + 1
  /\ \/ /\ processing' = TRUE
        /\ \/ \E t \in Tables(Waiting) : Begins(p, t, {})
           \/ \E P \in Pairings(Waiting) : \E t \in P : Begins(p, t, P \ {t})
     \/ Ends(p)
  /\ UNCHANGED <<queue, agents, money, request, cleaning, restarts, faults>>

\* setStatus "pairing", for one member after the other.
Claim(p) ==
  /\ pass[p].pc = "claim"
  /\ pairing' = pairing \cup OfAgent(entries, Current(p))
  /\ \/ Advance(p, "claim", "check") /\ UNCHANGED mishaps
     \/ Fault /\ At(p, "reset", 1)
  /\ UNCHANGED <<entries, docs, agents, money, request, processing, cleaning>>

\* The payments are looked up again.  A member without one leaves the queue; a
\* table goes on without looking back, unless fewer than two have paid.
Check(p) ==
  LET team   == pass[p].team
      unpaid == {i \in pass[p].at .. Len(team) : Owner(team[i]) \notin Alpha \cup stored}
  IN  /\ pass[p].pc = "check"
      /\ \/ /\ unpaid = {}
            /\ At(p, IF Len(team) - pass[p].drops < 2 THEN "reset" ELSE "create", 1)
            /\ UNCHANGED entries
         \/ \E i \in unpaid :
               /\ \A j \in unpaid : i <= j
               /\ entries' = entries \ OfAgent(entries, Owner(team[i]))
               /\ At(p, "drop", i)
      /\ UNCHANGED <<docs, pairing, agents, money, request, processing, cleaning, mishaps>>

\* Its document is gone, it is idle and gets its stake back.  A pair is given up,
\* a table goes on with its other members.
Drop(p) ==
  /\ pass[p].pc = "drop"
  /\ docs' = docs \ OfAgent(docs, Current(p))
  /\ status' = [status EXCEPT ![Current(p)] = "idle"]
  /\ refunds' = [refunds EXCEPT ![pass[p].team[pass[p].at]] = @ + 1]
  /\ IF Len(pass[p].team) = 2
     THEN At(p, "reset", 1)
     ELSE pass' = [pass EXCEPT ![p].pc = "check", ![p].at = @ + 1, ![p].drops = @ + 1]
  /\ UNCHANGED <<entries, pairing, joins, matches, stored, payments,
                 matched, request, processing, cleaning, mishaps>>

\* orchestrator.startMatch creates the match of the whole team ...
Create(p) ==
  LET team == pass[p].team
  IN  /\ pass[p].pc = "create"
      /\ \/ /\ matched' = [t \in Tickets |-> IF \E i \in DOMAIN team : team[i] = t
                                             THEN matched[t] + 1 ELSE matched[t]]
            /\ matches' = matches \cup {<<team, matched[team[1]]>>}
            /\ status' = [a \in Agents |-> IF a \in Owners(team) THEN "in_match"
                                                                 ELSE status[a]]
            /\ At(p, "start", 1)
            /\ UNCHANGED mishaps
         \/ /\ Fault
            /\ At(p, "reset", 1)
            /\ UNCHANGED <<matched, matches, status>>
      /\ UNCHANGED <<queue, joins, stored, payments, refunds, request,
                     processing, cleaning>>

\* ... and starts it; then the payments are consumed.
Start(p) ==
  /\ pass[p].pc = "start"
  /\ \/ /\ stored' = stored \ Owners(pass[p].team)
        /\ At(p, "unlist", 1)
        /\ UNCHANGED mishaps
     \/ /\ Fault
        /\ At(p, "reset", 1)
        /\ stored' \in {stored, stored \ Owners(pass[p].team)}
  /\ UNCHANGED <<queue, agents, payments, refunds, matched, request, processing, cleaning>>

\* The members leave the queue, one after the other.
Unlist(p) ==
  /\ pass[p].pc = "unlist"
  /\ entries' = entries \ OfAgent(entries, Current(p))
  /\ \/ /\ docs' = docs \ OfAgent(docs, Current(p))
        /\ IF pass[p].at < Len(pass[p].team)
           THEN At(p, "unlist", pass[p].at + 1) /\ UNCHANGED processing
           ELSE TakeNext(p, Waiting \ OfAgent(entries, Current(p)))
        /\ UNCHANGED mishaps
     \/ /\ Fault
        /\ At(p, "reset", 1)
        /\ UNCHANGED <<docs, processing>>
  /\ UNCHANGED <<pairing, agents, money, request, cleaning>>

\* A mutant of Reset: only the first member waits again.
ResetFirstOnly(p) ==
  /\ pass[p].pc = "reset"
  /\ pairing' = pairing \ OfAgent(entries, Owner(pass[p].team[1]))
  /\ TakeNext(p, Waiting)
  /\ UNCHANGED <<entries, docs, agents, money, request, cleaning, mishaps>>

\* The attempt failed: the members that are in the queue wait again.
Reset(p) ==
  /\ pass[p].pc = "reset"
  /\ pairing' = pairing \ OfAgent(entries, Current(p))
  /\ IF pass[p].at < Len(pass[p].team)
     THEN At(p, "reset", pass[p].at + 1) /\ UNCHANGED processing
     ELSE TakeNext(p, Waiting \cup OfAgent(entries, Current(p)))
  /\ UNCHANGED <<entries, docs, agents, money, request, cleaning, mishaps>>

\* A match is over, or its start was cancelled.
MatchEnds(g) ==
  /\ matches' = matches \ {g}
  /\ status' = [a \in Agents |-> IF a \in Owners(g[1]) THEN "idle" ELSE status[a]]
  /\ UNCHANGED <<queue, joins, money, request, passes, cleaning, mishaps>>

-----------------------------------------------------------------------------
(* periodicCleanup and a restart *)

\* A mutant of CleanupBegins: it takes out the entries that wait.
CleanupBeginsWaiting ==
  /\ cleaning = {}
  /\ cleaning' \in (SUBSET Waiting) \ {{}}
  /\ entries' = entries \ cleaning'
  /\ UNCHANGED <<docs, pairing, agents, money, request, passes, mishaps>>

\* cleanupStaleEntries takes out the entries being paired that joined more than a
\* minute ago; any may have.
CleanupBegins ==
  /\ cleaning = {}
  /\ cleaning' \in (SUBSET (entries \cap pairing)) \ {{}}
  /\ entries' = entries \ cleaning'
  /\ UNCHANGED <<docs, pairing, agents, money, request, passes, mishaps>>

\* Their documents go, their stakes go back, and who is queued without an entry
\* is idle.
Unqueued(S) == [a \in Agents |-> IF status[a] = "queued" /\ OfAgent(S, a) = {}
                                 THEN "idle" ELSE status[a]]

CleanupEnds ==
  /\ cleaning # {}
  /\ cleaning' = {}
  /\ docs' = {d \in docs : \A t \in cleaning : Owner(t) # Owner(d)}
  /\ refunds' = [t \in Tickets |-> IF t \in cleaning THEN refunds[t] + 1 ELSE refunds[t]]
  /\ status' = Unqueued(entries)
  /\ UNCHANGED <<entries, pairing, joins, matches, stored, payments,
                 matched, request, passes, mishaps>>

\* The process dies and loadFromDatabase runs: documents older than ten minutes
\* are deleted, the others are the new queue.
Restart ==
  /\ restarts < MaxRestarts
  /\ restarts' = restarts + 1
  /\ \E lost \in SUBSET docs : docs' = docs \ lost
  /\ entries' = docs'
  /\ status' = Unqueued(docs')
  /\ stored' = {} /\ cleaning' = {}
  /\ request' = [r \in Requests |-> NoRequest]
  /\ pass' = [p \in Passes |-> NoPass] /\ processing' = FALSE
  /\ UNCHANGED <<pairing, joins, matches, payments, refunds, matched, resets, faults>>

-----------------------------------------------------------------------------
PassStep(p) == \/ Claim(p) \/ Check(p) \/ Drop(p) \/ Create(p) \/ Start(p)
               \/ Unlist(p) \/ Reset(p)

RequestStep(r) == JoinQueue(r) \/ JoinAdds(r) \/ JoinSaves(r) \/ LeaveDeletes(r) \/ LeaveSaves(r)

Next ==
  \/ \E a \in Agents : Pay(a) \/ PaymentExpires(a)
  \/ \E g \in matches : MatchEnds(g)
  \/ \E r \in Requests : RequestStep(r) \/ \E a \in Agents : JoinChecks(r, a) \/ Cancel(r, a)
  \/ \E p \in Passes : PassStarts(p) \/ PassStep(p)
  \/ CleanupBegins \/ CleanupEnds \/ Restart

Spec == Init /\ [][Next]_vars

(***************************************************************************)
(* Fairness: awaited calls return, the two intervals keep running.  Nobody *)
(* has to pay, join, cancel or end a match.                                *)
(***************************************************************************)
FairSpec == /\ Spec
            /\ \A p \in Passes : WF_vars(PassStep(p))
            /\ \A r \in Requests : WF_vars(RequestStep(r))
            /\ WF_vars(CleanupBegins) /\ WF_vars(CleanupEnds)

-----------------------------------------------------------------------------
(* Properties *)

\* An entry is "pairing" only while a pass is at work on its agent, as long as
\* there was no restart: no way out of an attempt forgets one, whoever leaves,
\* joins or is cleaned up meanwhile.
PairingIsHeld ==
  restarts = 0 =>
    \A t \in entries \cap pairing :
       \E p \in Passes : Owner(t) \in Owners(pass[p].team)

\* A ticket is matched once, plus once for every forced reset of the flag, every
\* failed call and every restart (which may load the document of an entry that had
\* left): cleanup, cancelling and payments that expire do not bring a matched
\* entry back, and the mishaps do so only once each.
MatchedOnce == \A t \in Tickets : matched[t] <= 1 + resets + faults + restarts

\* An entry that is "pairing" does not stay so: its pass ends, or the cleanup
\* takes it out after a restart.
PairingEnds ==
  \A t \in Tickets : t \in entries \cap pairing ~> t \notin entries \cap pairing

\* Nobody plays two matches at a time.
PlaysOnce ==
  \A g, h \in matches : g # h => Owners(g[1]) \cap Owners(h[1]) = {}

\* A stake goes back only to an agent that was not matched with it.
RefundedUnmatched == \A t \in Tickets : refunds[t] > 0 => matched[t] = 0
=============================================================================
