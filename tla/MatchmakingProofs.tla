-------------------------- MODULE MatchmakingProofs --------------------------
(***************************************************************************)
(* Proofs about the queue for any agents, requests, passes and bounds: the *)
(* types, that an entry which is "pairing" has a pass at work on its       *)
(* agent, and how often a ticket can be matched.                           *)
(***************************************************************************)
EXTENDS FiniteSetTheorems, SequenceTheorems, Matchmaking, TLAPS

-----------------------------------------------------------------------------
(* The types *)

Teams         == {s \in Seq(Tickets) : Len(s) >= 2}
RequestPlaces == {"idle", "checked", "adding", "saving", "leaving", "idling"}
RequestStates == [pc : RequestPlaces, agent : SUBSET Agents, ticket : SUBSET Tickets,
                  cancel : BOOLEAN]
PassPlaces    == {"idle", "claim", "check", "drop", "create", "start", "unlist", "reset"}
PassStates    == [pc : PassPlaces, team : Seq(Tickets), at : Nat, drops : Nat,
                  rest : SUBSET Teams]

QueueTypes == /\ entries \subseteq Tickets /\ docs \subseteq Tickets
              /\ pairing \subseteq Tickets /\ cleaning \subseteq Tickets
AgentTypes == /\ joins \in [Agents -> 0 .. MaxJoins]
              /\ status \in [Agents -> {"idle", "queued", "in_match"}]
              /\ matches \subseteq Teams \X Nat
MoneyTypes == /\ stored \subseteq Agents /\ payments \in [Agents -> 0 .. MaxPayments]
              /\ refunds \in [Tickets -> Nat] /\ matched \in [Tickets -> Nat]
BoundTypes == /\ resets \in 0 .. MaxResets /\ restarts \in 0 .. MaxRestarts
              /\ faults \in 0 .. MaxFaults
PassTypes  == pass \in [Passes -> PassStates] /\ processing \in BOOLEAN

Types == /\ QueueTypes /\ AgentTypes /\ MoneyTypes /\ BoundTypes /\ PassTypes
         /\ request \in [Requests -> RequestStates]

-----------------------------------------------------------------------------
(* The passes *)

In(t, team) == \E i \in DOMAIN team : team[i] = t
Apart(s, u) == \A i \in DOMAIN s, j \in DOMAIN u : s[i] # u[j]

\* A pass that is over is as if it never was; another has a team, stands at one of
\* its places (a check may have passed the last), and no two of its pairs share a ticket.
PassShape(s) ==
  /\ s.pc = "idle" => s = NoPass
  /\ s.pc # "idle" =>
        /\ s.team \in Teams
        /\ s.at \in 1 .. Len(s.team) + 1
        /\ s.pc # "check" => s.at <= Len(s.team)
  /\ \A u \in s.rest : Apart(u, s.team)
  /\ \A u, v \in s.rest : u # v => Apart(u, v)

Shapes == \A p \in Passes : PassShape(pass[p])

-----------------------------------------------------------------------------
(* The tickets: one that was not handed out, or whose document is being made, is *)
(* nowhere else yet.                                                             *)

Adding(t) == \E r \in Requests : request[r].pc = "adding" /\ t \in request[r].ticket
Fresh(t)  == t[2] > joins[t[1]] \/ Adding(t)

Adders ==
  /\ \A r \in Requests : request[r].pc = "adding" =>
        \E a \in request[r].agent : request[r].ticket = {<<a, joins[a]>>}
  /\ \A q, r \in Requests : request[q].pc = "adding" /\ request[r].pc = "adding" /\ q # r
                            => request[q].ticket \cap request[r].ticket = {}

Unused(t) ==
  /\ t \notin entries /\ t \notin docs /\ t \notin pairing /\ t \notin cleaning
  /\ matched[t] = 0
  /\ \A p \in Passes : /\ ~ In(t, pass[p].team)
                       /\ \A s \in pass[p].rest : ~ In(t, s)

FreshUnused == \A t \in Tickets : Fresh(t) => Unused(t)

-----------------------------------------------------------------------------
(* PairingIsHeld *)

\* A pass that has to let go of the agent's entry: it stands at, or before, the
\* agent's place when the team leaves the queue or waits again.
HoldsEntry(s, a) ==
  \E i \in DOMAIN s.team : /\ Owner(s.team[i]) = a
                           /\ s.pc \in {"unlist", "reset"} => s.at <= i

Held == restarts = 0 =>
          \A t \in entries \cap pairing : \E p \in Passes : HoldsEntry(pass[p], Owner(t))

-----------------------------------------------------------------------------
(* MatchedOnce *)

\* The pass has matched the ticket and not yet taken its agent out of the queue ...
HasMatched(s, t) ==
  \/ s.pc = "start" /\ In(t, s.team)
  \/ s.pc = "unlist" /\ \E i \in DOMAIN s.team : s.team[i] = t /\ s.at <= i

\* ... or may still match it.
MayMatch(s, t) ==
  \/ s.pc \in {"claim", "check", "drop", "create"} /\ In(t, s.team)
  \/ \E u \in s.rest : In(t, u)

Active     == {p \in Passes : pass[p].pc # "idle"}
Open(t)    == {p \in Passes : pass[p].pc # "idle" /\ ~ HasMatched(pass[p], t)}
Pending(t) == {p \in Passes : MayMatch(pass[p], t)}

Bit(b)  == IF b THEN 1 ELSE 0
Flag    == Bit(processing)
Mishaps == resets + faults + restarts

\* Passes at work: one under the flag and one for every time it was reset.  A ticket
\* in the queue is matched by passes that have not taken it out yet, or after a
\* mishap; one that has left is matched only by passes that chose it before.
Counted ==
  /\ Cardinality(Active) <= Flag + resets
  /\ \A t \in entries : Cardinality(Open(t)) + matched[t] <= Flag + Mishaps
  /\ \A t \in Tickets : Cardinality(Pending(t)) + matched[t] <= 1 + Mishaps

Inv == Types /\ Shapes /\ Adders /\ FreshUnused /\ Held /\ Counted

-----------------------------------------------------------------------------
(* How a pass moves *)

Moved(p) == /\ pass' \in [Passes -> PassStates]
            /\ \A q \in Passes : q # p => pass'[q] = pass[q]

\* It goes on with its team ...
Goes(p, pc, i) == /\ Moved(p)
                  /\ pass'[p].pc = pc /\ pass'[p].at = i
                  /\ pass'[p].team = pass[p].team /\ pass'[p].rest = pass[p].rest

\* ... takes the next, of tickets in W or a pair it had chosen before ...
Chosen(s, t) == In(t, s.team) \/ \E u \in s.rest : In(t, u)

TakesTeam(p, W) ==
  /\ Moved(p)
  /\ pass'[p].pc = "claim" /\ pass'[p].at = 1
  /\ PassShape(pass'[p])
  /\ \A t \in Tickets : Chosen(pass'[p], t) => t \in W \/ \E u \in pass[p].rest : In(t, u)

\* ... or is over.
IsOver(p) == Moved(p) /\ pass'[p] = NoPass /\ processing' = FALSE

LEMMA NoPassType == NoPass \in PassStates
BY DEF NoPass, PassStates, PassPlaces

LEMMA MoveTo ==
  ASSUME PassTypes, NEW p \in Passes, NEW s \in PassStates, pass' = [pass EXCEPT ![p] = s]
  PROVE  Moved(p) /\ pass'[p] = s
BY DEF PassTypes, Moved

LEMMA AtGoes ==
  ASSUME PassTypes, NEW p \in Passes, NEW pc \in PassPlaces, NEW i \in Nat, At(p, pc, i)
  PROVE  Goes(p, pc, i)
<1> DEFINE c == pass[p]
           d == [[c EXCEPT !.pc = pc] EXCEPT !.at = i]
           s == [pc |-> pc, team |-> c.team, at |-> i, drops |-> c.drops, rest |-> c.rest]
<1>1. c \in PassStates
  BY DEF PassTypes
<1>2. d = s
  <2>1. d = [[c EXCEPT !.pc = pc] EXCEPT !.at = i]
    OBVIOUS
  <2> HIDE DEF c, d
  <2> QED
    BY <1>1, <2>1 DEF PassStates
<1>3. pass' = [pass EXCEPT ![p] = d]
  BY DEF At, PassTypes
<1>4. s \in PassStates
  BY <1>1 DEF PassStates
<1>5. Moved(p) /\ pass'[p] = s
  <2> HIDE DEF d, s
  <2> QED
    BY <1>2, <1>3, <1>4, MoveTo
<1> QED
  BY <1>5 DEF Goes

LEMMA AtGoesTo ==
  ASSUME PassTypes, NEW p \in Passes
  PROVE  \A pc \in PassPlaces : \A i \in Nat : At(p, pc, i) => Goes(p, pc, i)
BY AtGoes

LEMMA EndsIsOver == ASSUME PassTypes, NEW p \in Passes, Ends(p) PROVE IsOver(p)
BY NoPassType, MoveTo DEF Ends, IsOver

\* What findPairs and findPokerGroup return are teams of tickets that wait.
LEMMA PairTeam ==
  ASSUME NEW W \in SUBSET Tickets, NEW t \in Pairs(W)
  PROVE  /\ t \in Teams
         /\ \A u \in Tickets : In(u, t) => u \in W
<1>1. t \in [1 .. 2 -> W]
  BY DEF Pairs
<1>2. t \in Seq(Tickets) /\ Len(t) = 2
  BY <1>1
<1>3. \A u \in Tickets : In(u, t) => u \in W
  BY <1>1 DEF In
<1>4. t \in Teams
  <2>1. Len(t) >= 2
    BY <1>2
  <2> QED BY <1>2, <2>1, Zenon DEF Teams
<1> QED
  BY <1>3, <1>4

LEMMA TableTeam ==
  ASSUME NEW W \in SUBSET Tickets, NEW t \in Tables(W)
  PROVE  /\ t \in Teams
         /\ \A u \in Tickets : In(u, t) => u \in W
<1>1. PICK n \in 3 .. Cardinality(W) : t \in [1 .. n -> W]
  BY DEF Tables
<1>2. n \in Nat /\ n >= 3
  BY <1>1
<1>3. t \in Seq(Tickets) /\ Len(t) = n
  BY <1>1, <1>2
<1>4. \A u \in Tickets : In(u, t) => u \in W
  BY <1>1 DEF In
<1>5. t \in Teams
  <2>1. Len(t) >= 2
    BY <1>2, <1>3
  <2> QED BY <1>3, <2>1, Zenon DEF Teams
<1> QED
  BY <1>4, <1>5

LEMMA PairsApart ==
  ASSUME NEW W \in SUBSET Tickets, NEW P \in Pairings(W), NEW s \in P, NEW u \in P, s # u
  PROVE  Apart(s, u)
BY DEF Pairings, Apart, Owners

LEMMA BeginsTakes ==
  ASSUME PassTypes, NEW p \in Passes, NEW W \in SUBSET Tickets, NEW t \in Teams,
         NEW R \in SUBSET Teams, Begins(p, t, R),
         \A u \in R : Apart(u, t),
         \A u, v \in R : u # v => Apart(u, v),
         \A k \in Tickets : In(k, t) \/ (\E u \in R : In(k, u))
                            => k \in W \/ \E u \in pass[p].rest : In(k, u)
  PROVE  TakesTeam(p, W)
<1> DEFINE s == [pc |-> "claim", team |-> t, at |-> 1, drops |-> 0, rest |-> R]
<1>1. s \in PassStates
  BY DEF PassStates, PassPlaces, Teams
<1>2. Moved(p) /\ pass'[p] = s
  BY <1>1, MoveTo DEF Begins
<1>3. PassShape(s)
  BY DEF PassShape, Teams
<1> QED
  BY <1>2, <1>3 DEF TakesTeam, Chosen

LEMMA PairingBegins ==
  ASSUME PassTypes, NEW p \in Passes, NEW W \in SUBSET Tickets,
         NEW P \in Pairings(W), NEW t \in P, Begins(p, t, P \ {t})
  PROVE  TakesTeam(p, W)
<1>1. P \subseteq Pairs(W)
  BY DEF Pairings
<1>2. \A u \in P : u \in Teams /\ \A k \in Tickets : In(k, u) => k \in W
  BY <1>1, PairTeam
<1>3. \A u, v \in P : u # v => Apart(u, v)
  BY PairsApart
<1> QED
  BY <1>2, <1>3, BeginsTakes

LEMMA TakeNextTakes ==
  ASSUME PassTypes, Shapes, NEW p \in Passes, NEW W \in SUBSET Tickets, TakeNext(p, W)
  PROVE  \/ TakesTeam(p, W) /\ processing' = processing
         \/ IsOver(p)
<1>1. pass[p] \in PassStates /\ PassShape(pass[p])
  BY DEF PassTypes, Shapes
<1>2. CASE \E t \in pass[p].rest : Begins(p, t, pass[p].rest \ {t}) /\ processing' = processing
  <2>1. PICK t \in pass[p].rest : Begins(p, t, pass[p].rest \ {t})
    BY <1>2
  <2>2. pass[p].rest \subseteq Teams /\ \A u, v \in pass[p].rest : u # v => Apart(u, v)
    BY <1>1 DEF PassStates, PassShape
  <2> QED
    BY <1>2, <2>1, <2>2, BeginsTakes
<1>3. CASE /\ \E P \in Pairings(W) : \E t \in P : Begins(p, t, P \ {t})
           /\ processing' = processing
  BY <1>3, PairingBegins
<1>4. CASE Ends(p)
  BY <1>4, EndsIsOver
<1> QED
  BY <1>2, <1>3, <1>4 DEF TakeNext

-----------------------------------------------------------------------------
(* Counting passes *)

LEMMA CountChange ==
  ASSUME NEW A, NEW B, NEW p, IsFiniteSet(A), \A q : q # p => (q \in A <=> q \in B)
  PROVE  /\ Cardinality(A) \in Nat /\ Cardinality(B) \in Nat
         /\ Cardinality(B) + Bit(p \in A) = Cardinality(A) + Bit(p \in B)
<1> DEFINE C == A \ {p}
<1>1. IsFiniteSet(C) /\ Cardinality(C) = IF p \in A THEN Cardinality(A) - 1 ELSE Cardinality(A)
  BY FS_RemoveElement
<1>2. Cardinality(C) \in Nat /\ Cardinality(A) \in Nat
  BY <1>1, FS_CardinalityType
<1>3. p \notin C /\ Cardinality(C \cup {p}) = Cardinality(C) + 1
  BY <1>1, FS_AddElement
<1>4. B = IF p \in B THEN C \cup {p} ELSE C
  OBVIOUS
<1>5. Cardinality(B) = IF p \in B THEN Cardinality(C) + 1 ELSE Cardinality(C)
  BY <1>3, <1>4
<1> HIDE DEF C
<1> QED
  BY <1>1, <1>2, <1>5 DEF Bit

LEMMA CountsFinite ==
  /\ IsFiniteSet(Active) /\ Cardinality(Active) \in Nat
  /\ \A t : IsFiniteSet(Open(t)) /\ Cardinality(Open(t)) \in Nat
  /\ \A t : IsFiniteSet(Pending(t)) /\ Cardinality(Pending(t)) \in Nat
<1>1. \A S \in SUBSET Passes : IsFiniteSet(S) /\ Cardinality(S) \in Nat
  BY FS_Subset, FS_CardinalityType, PassesAssumption
<1> QED
  BY <1>1 DEF Active, Open, Pending

LEMMA CountSubsets ==
  ASSUME Shapes, NEW t
  PROVE  /\ Cardinality(Open(t)) <= Cardinality(Active)
         /\ (\A p \in Passes : ~ (HasMatched(pass[p], t) /\ MayMatch(pass[p], t)))
               => Cardinality(Pending(t)) <= Cardinality(Open(t))
<1>1. Open(t) \subseteq Active
  BY DEF Open, Active
<1>2. \A p \in Passes : MayMatch(pass[p], t) => pass[p].pc # "idle"
  BY DEF MayMatch, Shapes, PassShape, NoPass
<1>3. (\A p \in Passes : ~ (HasMatched(pass[p], t) /\ MayMatch(pass[p], t)))
        => Pending(t) \subseteq Open(t)
  BY <1>2 DEF Pending, Open
<1> QED
  BY <1>1, <1>3, CountsFinite, FS_Subset

\* A pass does not match twice what it has chosen once.
LEMMA MatchesOrMay ==
  ASSUME NEW s, PassShape(s)
  PROVE  \A t : ~ (HasMatched(s, t) /\ MayMatch(s, t))
BY DEF PassShape, HasMatched, MayMatch, In, Apart

\* Counted holds after a step of one pass when its part in the counts, and the
\* matches of tickets, are made up for by the flag and the mishaps.
LEMMA PassCounts ==
  ASSUME Types, Types', Shapes, Shapes', Counted, NEW p \in Passes, Moved(p),
         entries' \subseteq entries,
         Bit((pass[p].pc # "idle")') + Flag + resets <= Bit(pass[p].pc # "idle") + Flag' + resets',
         \A t \in entries' :
            Bit((p \in Open(t))') + matched'[t] + Flag + Mishaps
               <= Bit(p \in Open(t)) + matched[t] + Flag' + Mishaps',
         \A t \in Tickets \ entries' :
            Bit((p \in Pending(t))') + matched'[t] + Mishaps
               <= Bit(p \in Pending(t)) + matched[t] + Mishaps'
  PROVE  Counted'
<1>1. /\ Flag \in 0 .. 1 /\ Flag' \in 0 .. 1 /\ resets \in Nat /\ resets' \in Nat
      /\ Mishaps \in Nat /\ Mishaps' \in Nat
      /\ \A t \in Tickets : matched[t] \in Nat /\ matched'[t] \in Nat
      /\ entries' \subseteq Tickets
  <2>1. Flag \in 0 .. 1 /\ Flag' \in 0 .. 1
    BY DEF Flag, Bit
  <2>2. /\ resets \in Nat /\ restarts \in Nat /\ faults \in Nat
        /\ resets' \in Nat /\ restarts' \in Nat /\ faults' \in Nat
    BY BoundsAssumption DEF Types, BoundTypes
  <2>3. Mishaps \in Nat /\ Mishaps' \in Nat
    <3>1. \A x, y, z \in Nat : x + y + z \in Nat
      OBVIOUS
    <3> QED
      BY ONLY <2>2, <3>1 DEF Mishaps
  <2> QED
    BY <2>1, <2>2, <2>3 DEF Types, QueueTypes, MoneyTypes
<1>2. \A q : q # p => (q \in Active <=> q \in Active')
  BY DEF Moved, Active
<1>3. \A q \in Passes : q # p => pass'[q] = pass[q]
  BY DEF Moved
<1>4. Cardinality(Active') <= Flag' + resets'
  <2>1. (p \in Active) = (pass[p].pc # "idle") /\ (p \in Active') = (pass[p].pc # "idle")'
    BY DEF Active
  <2>2. /\ Cardinality(Active) \in Nat /\ Cardinality(Active') \in Nat
        /\ Cardinality(Active') + Bit(p \in Active) = Cardinality(Active) + Bit(p \in Active')
    BY ONLY <1>2, CountsFinite, CountChange
  <2>3. /\ Bit(pass[p].pc # "idle") \in 0 .. 1 /\ Bit((pass[p].pc # "idle")') \in 0 .. 1
    BY DEF Bit
  <2> QED
    BY <1>1, <2>1, <2>2, <2>3 DEF Counted
<1>5. ASSUME NEW t \in entries'
      PROVE  Cardinality(Open(t)') + matched'[t] <= Flag' + Mishaps'
  <2>1. /\ Cardinality(Open(t)) \in Nat /\ Cardinality(Open(t)') \in Nat
        /\ Cardinality(Open(t)') + Bit(p \in Open(t)) = Cardinality(Open(t)) + Bit(p \in Open(t)')
    <3>1. \A q : q # p => (q \in Open(t) <=> q \in Open(t)')
      BY ONLY <1>3 DEF Open
    <3>2. IsFiniteSet(Open(t))
      BY ONLY CountsFinite
    <3> QED
      BY ONLY <3>1, <3>2, CountChange
  <2>2. Bit(p \in Open(t)) \in 0 .. 1 /\ Bit((p \in Open(t))') \in 0 .. 1
    BY DEF Bit
  <2>3. Cardinality(Open(t)) + matched[t] <= Flag + Mishaps
    BY DEF Counted
  <2>4. Bit((p \in Open(t))') + matched'[t] + Flag + Mishaps
          <= Bit(p \in Open(t)) + matched[t] + Flag' + Mishaps'
    OBVIOUS
  <2> QED
    BY <1>1, <2>1, <2>2, <2>3, <2>4
<1>6. ASSUME NEW t \in Tickets
      PROVE  Cardinality(Pending(t)') + matched'[t] <= 1 + Mishaps'
  <2>1. CASE t \in entries'
    <3>1. Cardinality(Pending(t)') <= Cardinality(Open(t)')
      <4>1. \A q \in Passes : ~ (HasMatched(pass'[q], t) /\ MayMatch(pass'[q], t))
        BY MatchesOrMay DEF Shapes
      <4>2. /\ \A q \in Passes : MayMatch(pass'[q], t) => pass'[q].pc # "idle"
        BY DEF MayMatch, Shapes, PassShape, NoPass
      <4>3. Pending(t)' \subseteq Open(t)'
        BY <4>1, <4>2 DEF Pending, Open
      <4>4. Open(t)' \subseteq Passes
        BY DEF Open
      <4> QED
        BY ONLY <4>3, <4>4, PassesAssumption, FS_Subset
    <3>2. Cardinality(Open(t)') \in Nat /\ Cardinality(Pending(t)') \in Nat
      <4>1. Open(t)' \subseteq Passes /\ Pending(t)' \subseteq Passes
        BY DEF Open, Pending
      <4> QED
        BY ONLY <4>1, PassesAssumption, FS_Subset, FS_CardinalityType
    <3>3. Cardinality(Open(t)') + matched'[t] <= Flag' + Mishaps'
      BY <1>5, <2>1
    <3> QED
      BY <1>1, <3>1, <3>2, <3>3
  <2>2. CASE t \notin entries'
    <3>1. /\ Cardinality(Pending(t)) \in Nat /\ Cardinality(Pending(t)') \in Nat
          /\ Cardinality(Pending(t)') + Bit(p \in Pending(t))
               = Cardinality(Pending(t)) + Bit(p \in Pending(t)')
      <4>1. \A q : q # p => (q \in Pending(t) <=> q \in Pending(t)')
        BY ONLY <1>3 DEF Pending
      <4>2. IsFiniteSet(Pending(t))
        BY ONLY CountsFinite
      <4> QED
        BY ONLY <4>1, <4>2, CountChange
    <3>2. Bit(p \in Pending(t)) \in 0 .. 1 /\ Bit((p \in Pending(t))') \in 0 .. 1
      BY DEF Bit
    <3>3. Cardinality(Pending(t)) + matched[t] <= 1 + Mishaps
      BY DEF Counted
    <3>4. Bit((p \in Pending(t))') + matched'[t] + Mishaps
            <= Bit(p \in Pending(t)) + matched[t] + Mishaps'
      BY <2>2
    <3> QED
      BY <1>1, <3>1, <3>2, <3>3, <3>4
  <2> QED
    BY <2>1, <2>2
<1> QED
  BY <1>4, <1>5, <1>6 DEF Counted

-----------------------------------------------------------------------------
(* What keeps the invariant *)

LEMMA BoundsAreNumbers ==
  ASSUME BoundTypes
  PROVE  resets \in Nat /\ restarts \in Nat /\ faults \in Nat /\ Mishaps \in Nat
<1>1. resets \in Nat /\ restarts \in Nat /\ faults \in Nat
  BY BoundsAssumption DEF BoundTypes
<1> QED
  BY <1>1 DEF Mishaps

\* A step of a pass.
LEMMA PassKeeps ==
  ASSUME Inv, Types', NEW p \in Passes, Moved(p), PassShape(pass'[p]),
         joins' = joins, request' = request, cleaning' = cleaning, restarts' = restarts,
         entries' \subseteq entries, docs' \subseteq docs, pairing' \subseteq pairing \cup entries,
         \A t \in Tickets : matched'[t] # matched[t] => In(t, pass[p].team),
         \A t \in Tickets : Chosen(pass'[p], t) => t \in entries \/ Chosen(pass[p], t),
         \A t \in entries' \cap pairing' :
            t \notin pairing \/ HoldsEntry(pass[p], Owner(t)) => HoldsEntry(pass'[p], Owner(t)),
         Bit((pass[p].pc # "idle")') + Flag + resets <= Bit(pass[p].pc # "idle") + Flag' + resets',
         \A t \in entries' :
            Bit((p \in Open(t))') + matched'[t] + Flag + Mishaps
               <= Bit(p \in Open(t)) + matched[t] + Flag' + Mishaps',
         \A t \in Tickets \ entries' :
            Bit((p \in Pending(t))') + matched'[t] + Mishaps
               <= Bit(p \in Pending(t)) + matched[t] + Mishaps'
  PROVE  Inv'
<1>1. \A q \in Passes : q # p => pass'[q] = pass[q]
  BY DEF Moved
<1>2. Shapes'
  BY <1>1 DEF Inv, Shapes
<1>3. Adders'
  BY DEF Inv, Adders
<1>4. FreshUnused'
  <2> SUFFICES ASSUME NEW t \in Tickets, Fresh(t)'
               PROVE  Unused(t)'
    BY DEF FreshUnused
  <2>1. Unused(t)
    BY DEF Inv, FreshUnused, Fresh, Adding
  <2>2. /\ t \notin entries' /\ t \notin docs' /\ t \notin pairing' /\ t \notin cleaning'
    BY <2>1 DEF Unused
  <2>3. ~ Chosen(pass[p], t) /\ t \notin entries
    BY <2>1 DEF Unused, Chosen
  <2>4. matched'[t] = 0
    BY <2>1, <2>3 DEF Unused, Chosen
  <2>5. \A q \in Passes : ~ Chosen(pass'[q], t)
    BY <1>1, <2>1, <2>3 DEF Unused, Chosen
  <2> QED
    BY <2>2, <2>4, <2>5 DEF Unused, Chosen
<1>5. Held'
  <2> SUFFICES ASSUME restarts = 0, NEW t \in entries' \cap pairing'
               PROVE  \E q \in Passes : HoldsEntry(pass'[q], Owner(t))
    BY DEF Held
  <2>1. CASE t \in pairing
    <3>1. PICK q \in Passes : HoldsEntry(pass[q], Owner(t))
      BY <2>1 DEF Inv, Held
    <3> QED
      BY <1>1, <3>1
  <2>2. CASE t \notin pairing
    BY <2>2
  <2> QED
    BY <2>1, <2>2
<1>6. Counted'
  BY <1>2, PassCounts DEF Inv
<1> QED
  BY <1>2, <1>3, <1>4, <1>5, <1>6 DEF Inv

\* Any other step that gives nobody an entry.
LEMMA QuietKeeps ==
  ASSUME Inv, Types', UNCHANGED <<pass, processing, matched, joins, pairing>>,
         resets' = resets, restarts' = restarts, faults <= faults',
         entries' \subseteq entries, docs' \subseteq docs, cleaning' \subseteq cleaning \cup entries,
         \A r \in Requests : (request[r].pc = "adding")' => request'[r] = request[r]
  PROVE  Inv'
<1>1. Shapes'
  BY DEF Inv, Shapes
<1>2. Adders'
  BY DEF Inv, Adders
<1>3. FreshUnused'
  <2> SUFFICES ASSUME NEW t \in Tickets, Fresh(t)'
               PROVE  Unused(t)'
    BY DEF FreshUnused
  <2>1. Unused(t)
    BY DEF Inv, FreshUnused, Fresh, Adding
  <2> QED
    BY <2>1 DEF Unused
<1>4. Held'
  BY DEF Inv, Held
<1>5. Counted'
  <2>1. /\ Active' = Active /\ Flag' = Flag
        /\ \A t \in Tickets : Open(t)' = Open(t) /\ Pending(t)' = Pending(t)
    BY DEF Active, Flag, Open, Pending
  <2>2. resets' \in Nat /\ Mishaps \in Nat /\ Mishaps' \in Nat /\ Mishaps <= Mishaps'
    <3>1. BoundTypes /\ BoundTypes'
      BY DEF Inv, Types
    <3>2. /\ resets \in Nat /\ restarts \in Nat /\ faults \in Nat
          /\ resets' \in Nat /\ restarts' \in Nat /\ faults' \in Nat
      BY <3>1, BoundsAssumption DEF BoundTypes
    <3> QED
      BY <3>1, <3>2, BoundsAreNumbers DEF Mishaps
  <2>3. /\ Flag \in 0 .. 1 /\ Cardinality(Active) \in Nat
        /\ \A t \in Tickets : /\ matched[t] \in Nat /\ Cardinality(Open(t)) \in Nat
                             /\ Cardinality(Pending(t)) \in Nat
        /\ entries \subseteq Tickets
    BY CountsFinite DEF Inv, Types, MoneyTypes, QueueTypes, Flag, Bit
  <2>4. Counted
    BY DEF Inv
  <2> QED
    BY <2>1, <2>2, <2>3, <2>4 DEF Counted
<1> QED
  BY <1>1, <1>2, <1>3, <1>4, <1>5 DEF Inv

-----------------------------------------------------------------------------
(* The steps of payments, requests and the cleanup *)

RequestTypes == request \in [Requests -> RequestStates]

\* What a request's own step leaves of the others.
Steps(r) == /\ RequestTypes'
            /\ \A q \in Requests : q # r => request'[q] = request[q]

LEMMA RequestMoves ==
  ASSUME RequestTypes, NEW r \in Requests, NEW s \in RequestStates,
         request' = [request EXCEPT ![r] = s]
  PROVE  Steps(r) /\ request'[r] = s
BY DEF RequestTypes, Steps

LEMMA NoRequestType == NoRequest \in RequestStates /\ NoRequest.pc = "idle"
BY DEF NoRequest, RequestStates, RequestPlaces

LEMMA ToSteps ==
  ASSUME RequestTypes, NEW r \in Requests, NEW pc \in RequestPlaces, To(r, pc)
  PROVE  Steps(r) /\ request'[r].pc = pc
<1> DEFINE c == request[r]
           d == [c EXCEPT !.pc = pc]
           s == [pc |-> pc, agent |-> c.agent, ticket |-> c.ticket, cancel |-> c.cancel]
<1>1. c \in RequestStates
  BY DEF RequestTypes
<1>2. d = s
  <2>1. d = [c EXCEPT !.pc = pc]
    OBVIOUS
  <2> HIDE DEF c, d
  <2> QED
    BY <1>1, <2>1 DEF RequestStates
<1>3. request' = [request EXCEPT ![r] = d]
  BY DEF To, RequestTypes
<1>4. s \in RequestStates
  BY <1>1 DEF RequestStates
<1>5. Steps(r) /\ request'[r] = s
  <2> HIDE DEF d, s
  <2> QED
    BY <1>2, <1>3, <1>4, RequestMoves
<1> QED
  BY <1>5

LEMMA DoneSteps ==
  ASSUME RequestTypes, NEW r \in Requests, Done(r)
  PROVE  Steps(r) /\ request'[r].pc = "idle"
<1>1. request' = [request EXCEPT ![r] = NoRequest]
  BY DEF Done
<1>2. Steps(r) /\ request'[r] = NoRequest
  BY <1>1, NoRequestType, RequestMoves
<1> QED
  BY <1>2, NoRequestType

LEMMA LeaveQueueSteps ==
  ASSUME RequestTypes, QueueTypes, NEW r \in Requests, NEW a \in Agents, NEW cancel \in BOOLEAN,
         LeaveQueue(r, a, cancel)
  PROVE  Steps(r) /\ request'[r].pc # "adding" /\ entries' \subseteq entries
<1> DEFINE mine == OfAgent(entries, a)
           s == [pc |-> "leaving", agent |-> {a}, ticket |-> mine, cancel |-> cancel]
<1>1. s \in RequestStates
  BY DEF RequestStates, RequestPlaces, OfAgent, QueueTypes
<1>2. entries' \subseteq entries
  BY DEF LeaveQueue
<1>3. CASE mine \cap pairing = {}
  <2>1. request' = [request EXCEPT ![r] = s]
    BY <1>3 DEF LeaveQueue
  <2>2. Steps(r) /\ request'[r] = s
    BY ONLY RequestTypes, <1>1, <2>1, RequestMoves
  <2> QED
    BY <1>2, <2>2
<1>4. CASE mine \cap pairing # {}
  <2>1. request' = [request EXCEPT ![r] = NoRequest]
    BY <1>4 DEF LeaveQueue
  <2>2. Steps(r) /\ request'[r] = NoRequest
    BY <2>1, NoRequestType, RequestMoves
  <2> QED
    BY <1>2, <2>2, NoRequestType
<1> QED
  BY <1>3, <1>4

\* A request's step that creates no document.
LEMMA RequestKeeps ==
  ASSUME Inv, NEW r \in Requests, Steps(r), request'[r].pc # "adding",
         UNCHANGED <<pass, processing, matched, joins, pairing, matches, stored, payments,
                     cleaning, resets, restarts>>,
         faults' \in 0 .. MaxFaults, faults <= faults',
         entries' \subseteq entries, docs' \subseteq docs,
         status' \in [Agents -> {"idle", "queued", "in_match"}], refunds' \in [Tickets -> Nat]
  PROVE  Inv'
<1>1. Types'
  BY DEF Inv, Types, QueueTypes, AgentTypes, MoneyTypes, BoundTypes, PassTypes, Steps, RequestTypes
<1>2. \A q \in Requests : (request[q].pc = "adding")' => request'[q] = request[q]
  BY DEF Steps
<1> QED
  BY <1>1, <1>2, QuietKeeps

LEMMA PayStep == ASSUME Inv, NEW a \in Agents, Pay(a) PROVE Inv'
<1>1. Types'
  BY BoundsAssumption DEF Inv, Types, QueueTypes, AgentTypes, MoneyTypes, BoundTypes, PassTypes, Pay,
       queue, agents, passes, mishaps
<1> QED
  BY <1>1, QuietKeeps, BoundsAssumption DEF Pay, queue, agents, passes, mishaps, Inv, Types, BoundTypes

LEMMA PaymentExpiresStep == ASSUME Inv, NEW a \in Agents, PaymentExpires(a) PROVE Inv'
<1>1. Types'
  BY DEF Inv, Types, QueueTypes, AgentTypes, MoneyTypes, BoundTypes, PassTypes, PaymentExpires,
       queue, agents, passes, mishaps
<1> QED
  BY <1>1, QuietKeeps, BoundsAssumption DEF PaymentExpires, queue, agents, passes, mishaps,
       Inv, Types, BoundTypes

LEMMA MatchEndsStep == ASSUME Inv, NEW g \in matches, MatchEnds(g) PROVE Inv'
<1>1. Types'
  <2>1. status' \in [Agents -> {"idle", "queued", "in_match"}]
    BY DEF MatchEnds, Inv, Types, AgentTypes
  <2> QED
    BY <2>1 DEF Inv, Types, QueueTypes, AgentTypes, MoneyTypes, BoundTypes, PassTypes, MatchEnds,
       queue, money, passes, mishaps
<1> QED
  BY <1>1, QuietKeeps, BoundsAssumption DEF MatchEnds, queue, money, passes, mishaps,
       Inv, Types, BoundTypes

LEMMA FaultCounts ==
  ASSUME BoundTypes, Fault \/ UNCHANGED mishaps
  PROVE  /\ resets' = resets /\ restarts' = restarts /\ faults <= faults'
         /\ faults' \in 0 .. MaxFaults /\ BoundTypes'
         /\ Fault => faults' = faults + 1
BY BoundsAssumption DEF BoundTypes, Fault, mishaps

LEMMA CheckedRequest ==
  ASSUME NEW c \in RequestStates, NEW a \in Agents
  PROVE  /\ [c EXCEPT !.pc = "checked", !.agent = {a}] \in RequestStates
         /\ [c EXCEPT !.pc = "checked", !.agent = {a}].pc # "adding"
<1> DEFINE d == [c EXCEPT !.pc = "checked", !.agent = {a}]
<1>1. d = [pc |-> "checked", agent |-> {a}, ticket |-> c.ticket, cancel |-> c.cancel]
  <2>1. d = [[c EXCEPT !.pc = "checked"] EXCEPT !.agent = {a}]
    OBVIOUS
  <2> HIDE DEF d
  <2> QED
    BY <2>1 DEF RequestStates
<1> HIDE DEF d
<1>2. d \in RequestStates /\ d.pc # "adding"
  BY <1>1 DEF RequestStates, RequestPlaces
<1> QED
  BY <1>2 DEF d

LEMMA JoinChecksStep ==
  ASSUME Inv, NEW r \in Requests, NEW a \in Agents, JoinChecks(r, a) PROVE Inv'
<1> DEFINE s == [NoRequest EXCEPT !.pc = "checked", !.agent = {a}]
<1>2. s \in RequestStates /\ s.pc # "adding"
  BY ONLY NoRequestType, CheckedRequest, a \in Agents
<1>3. request' = [request EXCEPT ![r] = s]
  BY DEF JoinChecks
<1>4. Steps(r) /\ request'[r] = s
  <2> HIDE DEF s
  <2> QED
    BY <1>2, <1>3, RequestMoves DEF Inv, Types, RequestTypes
<1> HIDE DEF s
<1> QED
  BY <1>2, <1>4, RequestKeeps, BoundsAssumption DEF JoinChecks, queue, agents, money, passes, mishaps,
     Inv, Types, BoundTypes, AgentTypes, MoneyTypes

LEMMA CancelStep ==
  ASSUME Inv, NEW r \in Requests, NEW a \in Agents, Cancel(r, a) PROVE Inv'
<1>1. Steps(r) /\ request'[r].pc # "adding" /\ entries' \subseteq entries
  BY LeaveQueueSteps DEF Cancel, Inv, Types, RequestTypes
<1> QED
  BY <1>1, RequestKeeps, BoundsAssumption DEF Cancel, agents, money, passes, mishaps,
     Inv, Types, BoundTypes, AgentTypes, MoneyTypes

LEMMA JoinSavesStep ==
  ASSUME Inv, NEW r \in Requests, JoinSaves(r) PROVE Inv'
<1>1. RequestTypes /\ QueueTypes /\ BoundTypes /\ request[r].agent \subseteq Agents
  BY DEF Inv, Types, RequestTypes, RequestStates
<1>2. PICK a \in request[r].agent :
        \/ /\ status' = [status EXCEPT ![a] = "queued"]
           /\ Done(r)
           /\ UNCHANGED <<entries, mishaps>>
        \/ /\ Fault
           /\ LeaveQueue(r, a, FALSE)
           /\ UNCHANGED status
  BY DEF JoinSaves
<1>3. Steps(r) /\ request'[r].pc # "adding" /\ entries' \subseteq entries
  BY <1>1, <1>2, DoneSteps, LeaveQueueSteps
<1>4. status' \in [Agents -> {"idle", "queued", "in_match"}]
  BY <1>1, <1>2 DEF Inv, Types, AgentTypes
<1>5. resets' = resets /\ restarts' = restarts /\ faults <= faults' /\ faults' \in 0 .. MaxFaults
  BY <1>1, <1>2, FaultCounts
<1> QED
  BY <1>3, <1>4, <1>5, RequestKeeps DEF JoinSaves, money, passes, Inv, Types, MoneyTypes

LEMMA LeaveDeletesStep ==
  ASSUME Inv, NEW r \in Requests, LeaveDeletes(r) PROVE Inv'
<1>1. RequestTypes /\ BoundTypes /\ refunds \in [Tickets -> Nat]
  BY DEF Inv, Types, RequestTypes, MoneyTypes
<1>2. Steps(r) /\ request'[r].pc # "adding"
  BY <1>1, DoneSteps, ToSteps DEF LeaveDeletes, RequestPlaces
<1>3. docs' \subseteq docs
  BY DEF LeaveDeletes
<1>4. refunds' \in [Tickets -> Nat]
  BY <1>1 DEF LeaveDeletes
<1>5. resets' = resets /\ restarts' = restarts /\ faults <= faults' /\ faults' \in 0 .. MaxFaults
  BY <1>1, FaultCounts DEF LeaveDeletes
<1> QED
  BY <1>2, <1>3, <1>4, <1>5, RequestKeeps DEF LeaveDeletes, agents, passes, Inv, Types, AgentTypes

LEMMA LeaveSavesStep ==
  ASSUME Inv, NEW r \in Requests, LeaveSaves(r) PROVE Inv'
<1>1. RequestTypes /\ BoundTypes
  BY DEF Inv, Types, RequestTypes
<1>2. Steps(r) /\ request'[r].pc # "adding"
  BY <1>1, DoneSteps DEF LeaveSaves
<1>3. status' \in [Agents -> {"idle", "queued", "in_match"}]
  BY DEF LeaveSaves, Inv, Types, AgentTypes
<1>4. resets' = resets /\ restarts' = restarts /\ faults <= faults' /\ faults' \in 0 .. MaxFaults
  BY <1>1, FaultCounts DEF LeaveSaves
<1> QED
  BY <1>2, <1>3, <1>4, RequestKeeps DEF LeaveSaves, queue, money, passes, Inv, Types, MoneyTypes

LEMMA CleanupBeginsStep == ASSUME Inv, CleanupBegins PROVE Inv'
<1>1. Types'
  BY DEF Inv, Types, QueueTypes, AgentTypes, MoneyTypes, BoundTypes, PassTypes, CleanupBegins,
       agents, money, passes, mishaps
<1> QED
  BY <1>1, QuietKeeps, BoundsAssumption DEF CleanupBegins, agents, money, passes, mishaps,
       Inv, Types, BoundTypes

LEMMA CleanupEndsStep == ASSUME Inv, CleanupEnds PROVE Inv'
<1>1. refunds' \in [Tickets -> Nat]
  BY DEF Inv, Types, MoneyTypes, CleanupEnds
<1>2. status' \in [Agents -> {"idle", "queued", "in_match"}]
  BY DEF Inv, Types, AgentTypes, CleanupEnds, Unqueued
<1>3. docs' \subseteq docs
  BY DEF CleanupEnds
<1>4. Types'
  BY <1>1, <1>2, <1>3 DEF Inv, Types, QueueTypes, AgentTypes, MoneyTypes, BoundTypes, PassTypes,
     CleanupEnds, passes, mishaps
<1> QED
  BY <1>3, <1>4, QuietKeeps, BoundsAssumption DEF CleanupEnds, passes, mishaps, Inv, Types, BoundTypes

\* The agent that joins gets its next ticket ...
LEMMA JoinQueueAdds ==
  ASSUME Inv, NEW r \in Requests, NEW a \in request[r].agent,
         \A q \in Requests : request[q].pc = "adding" => a \notin request[q].agent,
         joins[a] < MaxJoins,
         joins' = [joins EXCEPT ![a] = @ + 1],
         request' = [request EXCEPT ![r].pc = "adding", ![r].ticket = {<<a, joins[a] + 1>>}],
         UNCHANGED <<queue, status, matches, money, passes, cleaning, mishaps>>
  PROVE  Inv'
<1> DEFINE c == request[r]
           new == <<a, joins[a] + 1>>
           d == [[c EXCEPT !.pc = "adding"] EXCEPT !.ticket = {new}]
           s == [pc |-> "adding", agent |-> c.agent, ticket |-> {new}, cancel |-> c.cancel]
<1>1. c \in RequestStates /\ a \in Agents /\ RequestTypes
  BY DEF Inv, Types, RequestTypes, RequestStates
<1>2. joins \in [Agents -> 0 .. MaxJoins] /\ joins[a] \in 0 .. MaxJoins /\ MaxJoins \in Nat
  BY <1>1, BoundsAssumption DEF Inv, Types, AgentTypes
<1>3. new \in Tickets
  BY <1>1, <1>2 DEF Tickets
<1>4. d = s
  <2>1. d = [[c EXCEPT !.pc = "adding"] EXCEPT !.ticket = {new}]
    OBVIOUS
  <2> HIDE DEF c, d, new
  <2> QED
    BY <1>1, <2>1 DEF RequestStates
<1>5. request' = [request EXCEPT ![r] = d]
  BY <1>1 DEF RequestTypes
<1>6. s \in RequestStates
  BY <1>1, <1>3 DEF RequestStates, RequestPlaces
<1>7. Steps(r) /\ request'[r] = s
  <2> HIDE DEF d, s
  <2> QED
    BY <1>1, <1>4, <1>5, <1>6, RequestMoves
<1>8. /\ request'[r].agent = request[r].agent /\ request'[r].ticket = {new}
      /\ \A q \in Requests : q # r => request'[q] = request[q]
  <2>1. s.agent = request[r].agent /\ s.ticket = {new}
    OBVIOUS
  <2> HIDE DEF s, new, c, d
  <2> QED
    BY ONLY <1>7, <2>1 DEF Steps
<1>9. /\ joins' \in [Agents -> 0 .. MaxJoins] /\ joins'[a] = joins[a] + 1
      /\ \A b \in Agents : b # a => joins'[b] = joins[b]
  BY <1>1, <1>2
<1>10. Types'
  BY <1>7, <1>9 DEF Inv, Types, QueueTypes, AgentTypes, MoneyTypes, BoundTypes, PassTypes, Steps,
     RequestTypes, queue, money, passes, mishaps
<1>11. \A q \in Requests : q # r /\ request[q].pc = "adding" =>
         \E b \in request[q].agent : b # a /\ b \in Agents /\ request[q].ticket = {<<b, joins[b]>>}
  BY DEF Inv, Adders, Types, RequestStates
<1>12. Adders'
  <2>1. \A q \in Requests : q # r /\ request[q].pc = "adding" =>
          /\ \E b \in request[q].agent : request[q].ticket = {<<b, joins'[b]>>}
          /\ request[q].ticket \cap {new} = {}
    BY ONLY <1>9, <1>11
  <2>2. request'[r].ticket = {<<a, joins'[a]>>} /\ a \in request'[r].agent
    BY <1>8, <1>9
  <2>3. \A q, k \in Requests : request[q].pc = "adding" /\ request[k].pc = "adding" /\ q # k
                            => request[q].ticket \cap request[k].ticket = {}
    BY DEF Inv, Adders
  <2> HIDE DEF new, s, c, d
  <2>4. ASSUME NEW q \in Requests, (request[q].pc = "adding")'
        PROVE  \E b \in request'[q].agent : request'[q].ticket = {<<b, joins'[b]>>}
    <3>1. CASE q = r
      BY ONLY <2>2, <3>1
    <3>2. CASE q # r
      BY ONLY <1>8, <2>1, <2>4, <3>2
    <3> QED
      BY <3>1, <3>2
  <2>5. ASSUME NEW q \in Requests, NEW k \in Requests, q # k,
               (request[q].pc = "adding")', (request[k].pc = "adding")'
        PROVE  request'[q].ticket \cap request'[k].ticket = {}
    BY ONLY <1>8, <2>1, <2>3, <2>5
  <2> QED
    BY <2>4, <2>5 DEF Adders
<1>13. FreshUnused'
  <2> SUFFICES ASSUME NEW t \in Tickets, Fresh(t)'
               PROVE  Unused(t)'
    BY DEF FreshUnused
  <2>1. Fresh(t)
    <3>1. t[1] \in Agents /\ t[2] \in Nat /\ joins[t[1]] \in Nat
      BY <1>2 DEF Tickets
    <3>2. CASE t[2] > joins'[t[1]]
      BY <1>2, <1>9, <3>1, <3>2 DEF Fresh
    <3>3. CASE Adding(t)' /\ t # new
      BY <1>8, <3>3 DEF Fresh, Adding
    <3>4. CASE t = new
      BY <1>2, <3>4 DEF Fresh
    <3> QED
      BY <3>2, <3>3, <3>4 DEF Fresh
  <2> QED
    BY <2>1 DEF Inv, FreshUnused, Unused, queue, money, passes
<1>14. Shapes' /\ Held'
  BY DEF Inv, Shapes, Held, queue, passes, mishaps
<1>15. Counted'
  BY DEF Inv, Counted, Active, Open, Pending, Flag, Mishaps, queue, money, passes, mishaps
<1> QED
  BY <1>10, <1>12, <1>13, <1>14, <1>15 DEF Inv

LEMMA JoinQueueStep == ASSUME Inv, NEW r \in Requests, JoinQueue(r) PROVE Inv'
<1>1. PICK a \in request[r].agent :
        \/ LeaveQueue(r, a, FALSE) /\ UNCHANGED joins
        \/ /\ \A q \in Requests : request[q].pc = "adding" => a \notin request[q].agent
           /\ joins[a] < MaxJoins
           /\ joins' = [joins EXCEPT ![a] = @ + 1]
           /\ request' = [request EXCEPT ![r].pc = "adding", ![r].ticket = {<<a, joins[a] + 1>>}]
           /\ UNCHANGED entries
  BY DEF JoinQueue, MayJoin
<1>2. CASE LeaveQueue(r, a, FALSE) /\ UNCHANGED joins
  <2>1. Steps(r) /\ request'[r].pc # "adding" /\ entries' \subseteq entries
    BY <1>2, LeaveQueueSteps DEF Inv, Types, RequestTypes, RequestStates
  <2> QED
    BY <1>2, <2>1, RequestKeeps, BoundsAssumption DEF JoinQueue, money, passes, mishaps,
       Inv, Types, BoundTypes, AgentTypes, MoneyTypes
<1>3. CASE joins' = [joins EXCEPT ![a] = @ + 1]
           /\ request' = [request EXCEPT ![r].pc = "adding", ![r].ticket = {<<a, joins[a] + 1>>}]
           /\ joins[a] < MaxJoins /\ UNCHANGED entries
           /\ \A q \in Requests : request[q].pc = "adding" => a \notin request[q].agent
  BY <1>3, JoinQueueAdds DEF JoinQueue, queue
<1> QED
  BY <1>1, <1>2, <1>3

\* ... and its entry, which nobody has seen before.
LEMMA EntryAdded ==
  ASSUME Inv, NEW r \in Requests, request[r].pc = "adding",
         docs' = docs \cup request[r].ticket, entries' = entries \cup request[r].ticket,
         To(r, "saving"),
         UNCHANGED <<pairing, agents, money, passes, cleaning, mishaps>>
  PROVE  Inv'
<1>1. PICK a \in Agents : request[r].ticket = {<<a, joins[a]>>}
  BY DEF Inv, Types, RequestStates, Adders
<1>2. request[r].ticket \subseteq Tickets
  BY DEF Inv, Types, RequestStates
<1>3. Steps(r) /\ request'[r].pc = "saving"
  BY ToSteps DEF RequestPlaces, Inv, Types, RequestTypes
<1>4. Types'
  BY <1>2, <1>3 DEF Inv, Types, QueueTypes, AgentTypes, MoneyTypes, BoundTypes, PassTypes, Steps,
     RequestTypes, agents, money, passes, mishaps
<1>5. \A q \in Requests : (request[q].pc = "adding")' => q # r /\ request'[q] = request[q]
  BY <1>3 DEF Steps
<1>6. Adders'
  BY <1>5 DEF Inv, Adders, agents
<1>7. \A t \in request[r].ticket : t \in Tickets /\ Unused(t)
  BY <1>2 DEF Inv, FreshUnused, Fresh, Adding
<1>8. FreshUnused'
  <2> SUFFICES ASSUME NEW t \in Tickets, Fresh(t)'
               PROVE  Unused(t)'
    BY DEF FreshUnused
  <2>1. t \notin request[r].ticket
    <3>1. CASE t[2] > joins'[t[1]]
      <4>1. joins' = joins /\ joins[a] \in Nat
        BY BoundsAssumption DEF Inv, Types, AgentTypes, agents
      <4> QED
        BY <1>1, <3>1, <4>1
    <3>2. CASE Adding(t)'
      BY <1>5, <3>2 DEF Adding, Inv, Adders
    <3> QED
      BY <3>1, <3>2 DEF Fresh
  <2>2. Fresh(t)
    BY <1>5 DEF Fresh, Adding, agents
  <2>3. Unused(t)
    BY <2>2 DEF Inv, FreshUnused
  <2> QED
    BY <2>1, <2>3 DEF Unused, money, passes
<1>9. Shapes' /\ Held'
  <2>1. Shapes'
    BY DEF Inv, Shapes, passes
  <2>2. entries' \cap pairing' \subseteq entries \cap pairing
    BY <1>7 DEF Unused
  <2>3. Held'
    BY <2>2 DEF Inv, Held, passes, mishaps
  <2> QED
    BY <2>1, <2>3
<1>10. Counted'
  <2>1. /\ Active' = Active /\ Flag' = Flag /\ Mishaps' = Mishaps
        /\ resets' = resets /\ matched' = matched
        /\ \A t \in Tickets : Open(t)' = Open(t) /\ Pending(t)' = Pending(t)
    BY DEF Active, Flag, Open, Pending, Mishaps, passes, mishaps, money
  <2>2. \A t \in request[r].ticket :
          /\ t \in Tickets /\ matched[t] = 0
          /\ Cardinality(Open(t)) <= Cardinality(Active)
    BY <1>7, CountSubsets DEF Unused, Inv
  <2>3. /\ Flag \in 0 .. 1 /\ Mishaps \in Nat /\ resets \in Nat /\ resets <= Mishaps
        /\ Cardinality(Active) \in Nat /\ \A t \in Tickets : Cardinality(Open(t)) \in Nat
    <3>1. BoundTypes
      BY DEF Inv, Types
    <3>2. resets \in Nat /\ restarts \in Nat /\ faults \in Nat /\ Mishaps \in Nat
      BY <3>1, BoundsAreNumbers
    <3>3. resets <= Mishaps
      BY <3>2 DEF Mishaps
    <3> QED
      BY <3>2, <3>3, CountsFinite DEF Flag, Bit
  <2>4. Counted
    BY DEF Inv
  <2>5. \A t \in entries' : Cardinality(Open(t)) + matched[t] <= Flag + Mishaps
    <3> SUFFICES ASSUME NEW t \in entries'
                 PROVE  Cardinality(Open(t)) + matched[t] <= Flag + Mishaps
      OBVIOUS
    <3>1. CASE t \in entries
      BY <2>4, <3>1 DEF Counted
    <3>2. CASE t \in request[r].ticket
      BY <2>2, <2>3, <2>4, <3>2 DEF Counted
    <3> QED
      BY <3>1, <3>2
  <2>6. entries' \subseteq Tickets
    BY <1>4 DEF Types, QueueTypes
  <2> QED
    BY <2>1, <2>4, <2>5, <2>6 DEF Counted
<1> QED
  BY <1>4, <1>6, <1>8, <1>9, <1>10 DEF Inv

LEMMA JoinAddsStep == ASSUME Inv, NEW r \in Requests, JoinAdds(r) PROVE Inv'
<1>1. PICK a \in request[r].agent :
        \/ /\ docs' = docs \cup request[r].ticket
           /\ entries' = entries \cup request[r].ticket
           /\ To(r, "saving")
           /\ UNCHANGED mishaps
        \/ /\ Fault \/ UNCHANGED mishaps
           /\ LeaveQueue(r, a, FALSE)
           /\ UNCHANGED docs
  BY DEF JoinAdds
<1>2. CASE docs' = docs \cup request[r].ticket /\ entries' = entries \cup request[r].ticket
           /\ To(r, "saving") /\ UNCHANGED mishaps
  BY <1>2, EntryAdded DEF JoinAdds
<1>3. CASE (Fault \/ UNCHANGED mishaps) /\ LeaveQueue(r, a, FALSE) /\ UNCHANGED docs
  <2>1. Steps(r) /\ request'[r].pc # "adding" /\ entries' \subseteq entries
    BY <1>3, LeaveQueueSteps DEF Inv, Types, RequestTypes, RequestStates
  <2>2. resets' = resets /\ restarts' = restarts /\ faults <= faults' /\ faults' \in 0 .. MaxFaults
    BY <1>3, FaultCounts DEF Inv, Types
  <2> QED
    BY <1>3, <2>1, <2>2, RequestKeeps DEF JoinAdds, agents, money, passes,
       Inv, Types, AgentTypes, MoneyTypes
<1> QED
  BY <1>1, <1>2, <1>3

-----------------------------------------------------------------------------
(* A restart *)

LEMMA RestartStep == ASSUME Inv, Restart PROVE Inv'
<1>1. entries' = docs' /\ docs' \subseteq docs
  BY DEF Restart
<1>2. /\ \A p \in Passes : pass'[p] = NoPass
      /\ pass' \in [Passes -> PassStates] /\ processing' = FALSE
  BY NoPassType DEF Restart
<1>3. \A r \in Requests : request'[r] = NoRequest
  BY DEF Restart
<1>4. request' \in [Requests -> RequestStates]
  BY NoRequestType DEF Restart
<1>5. BoundTypes' /\ restarts' = restarts + 1 /\ resets' = resets /\ faults' = faults
  BY BoundsAssumption DEF Restart, Inv, Types, BoundTypes
<1>6. Types'
  <2>1. status' \in [Agents -> {"idle", "queued", "in_match"}]
    BY DEF Inv, Types, AgentTypes, Restart, Unqueued
  <2> QED
    BY <1>1, <1>2, <1>4, <1>5, <2>1 DEF Inv, Types, QueueTypes, AgentTypes, MoneyTypes, PassTypes,
       Restart
<1>7. Shapes'
  BY <1>2 DEF Shapes, PassShape, NoPass
<1>8. Adders'
  BY <1>3, NoRequestType DEF Adders
<1>9. FreshUnused'
  <2> SUFFICES ASSUME NEW t \in Tickets, Fresh(t)'
               PROVE  Unused(t)'
    BY DEF FreshUnused
  <2>1. Fresh(t)
    BY <1>3, NoRequestType DEF Fresh, Adding, Restart
  <2>2. Unused(t)
    BY <2>1 DEF Inv, FreshUnused
  <2>3. \A p \in Passes : ~ In(t, pass'[p].team) /\ pass'[p].rest = {}
    BY <1>2 DEF In, NoPass
  <2> QED
    BY <1>1, <2>2, <2>3 DEF Unused, Restart
<1>10. Held'
  BY <1>5, BoundsAreNumbers DEF Held, Inv, Types
<1>11. Counted'
  <2>1. /\ Active' = {} /\ \A t \in Tickets : Open(t)' = {} /\ Pending(t)' = {}
    BY <1>2 DEF Active, Open, Pending, MayMatch, NoPass
  <2>2. Cardinality({}) = 0
    BY FS_EmptySet
  <2>3. resets \in Nat /\ Mishaps \in Nat /\ Mishaps' = Mishaps + 1 /\ Flag' = 0
    <3>1. resets \in Nat /\ restarts \in Nat /\ faults \in Nat /\ Mishaps \in Nat
      BY BoundsAreNumbers DEF Inv, Types
    <3>2. resets + faults + (restarts + 1) = (resets + faults + restarts) + 1
      BY <3>1
    <3> QED
      BY <1>2, <1>5, <3>1, <3>2 DEF Mishaps, Flag, Bit
  <2>4. \A t \in Tickets : /\ matched'[t] = matched[t] /\ matched[t] \in Nat
                          /\ Cardinality(Pending(t)) \in Nat
                          /\ Cardinality(Pending(t)) + matched[t] <= 1 + Mishaps
    BY CountsFinite DEF Restart, Inv, Types, MoneyTypes, Counted
  <2>5. ASSUME NEW t \in Tickets
        PROVE  /\ Cardinality(Open(t)') + matched'[t] <= Flag' + Mishaps'
               /\ Cardinality(Pending(t)') + matched'[t] <= 1 + Mishaps'
    BY <2>1, <2>2, <2>3, <2>4
  <2>6. entries' \subseteq Tickets
    BY <1>6 DEF Types, QueueTypes
  <2>7. Cardinality(Active') <= Flag' + resets'
    BY <1>5, <2>1, <2>2, <2>3
  <2> QED
    BY <2>5, <2>6, <2>7 DEF Counted
<1> QED
  BY <1>6, <1>7, <1>8, <1>9, <1>10, <1>11 DEF Inv

-----------------------------------------------------------------------------
(* The steps of a pass *)

LEMMA PassFacts ==
  ASSUME Inv, NEW p \in Passes, pass[p].pc # "idle"
  PROVE  /\ PassTypes /\ pass[p] \in PassStates /\ PassShape(pass[p])
         /\ pass[p].team \in Teams /\ Len(pass[p].team) \in Nat /\ Len(pass[p].team) >= 2
         /\ DOMAIN pass[p].team = 1 .. Len(pass[p].team)
         /\ \A i \in DOMAIN pass[p].team : pass[p].team[i] \in Tickets
         /\ pass[p].at \in Nat /\ pass[p].at \in 1 .. Len(pass[p].team) + 1
         /\ pass[p].pc # "check" => pass[p].at \in 1 .. Len(pass[p].team)
<1>1. PassTypes /\ pass[p] \in PassStates /\ PassShape(pass[p])
  BY DEF Inv, Types, PassTypes, Shapes
<1>2. pass[p].team \in Teams /\ pass[p].at \in 1 .. Len(pass[p].team) + 1
      /\ (pass[p].pc # "check" => pass[p].at <= Len(pass[p].team))
  BY <1>1 DEF PassShape
<1>3. pass[p].team \in Seq(Tickets) /\ Len(pass[p].team) >= 2
  BY <1>2 DEF Teams
<1> QED
  BY <1>1, <1>2, <1>3

LEMMA MishapsGrow ==
  ASSUME BoundTypes, BoundTypes', restarts' = restarts
  PROVE  /\ Mishaps \in Nat /\ Mishaps' \in Nat /\ resets \in Nat /\ resets' \in Nat
         /\ faults \in Nat /\ faults' \in Nat
         /\ Mishaps' + resets + faults = Mishaps + resets' + faults'
<1>1. /\ resets \in Nat /\ restarts \in Nat /\ faults \in Nat
      /\ resets' \in Nat /\ faults' \in Nat
  BY BoundsAssumption DEF BoundTypes
<1>2. Mishaps = resets + faults + restarts /\ Mishaps' = resets' + faults' + restarts
  BY DEF Mishaps
<1>3. \A x, y, z \in Nat : x + y + z \in Nat
  OBVIOUS
<1>4. Mishaps \in Nat /\ Mishaps' \in Nat
  BY ONLY <1>1, <1>2, <1>3
<1>5. Mishaps' + resets + faults = Mishaps + resets' + faults'
  <2> DEFINE r == resets f == faults z == restarts u == resets' v == faults'
  <2>1. r \in Nat /\ f \in Nat /\ z \in Nat /\ u \in Nat /\ v \in Nat
    BY <1>1
  <2>2. Mishaps = r + f + z /\ Mishaps' = u + v + z
    BY <1>2
  <2> HIDE DEF r, f, z, u, v
  <2>3. Mishaps' + r + f = Mishaps + u + v
    BY ONLY <2>1, <2>2
  <2> QED
    BY <2>3 DEF r, f, u, v
<1> QED
  BY ONLY <1>1, <1>4, <1>5

\* It stays with its team, at one of its places.
Stays(p) ==
  /\ Moved(p)
  /\ pass'[p].team = pass[p].team /\ pass'[p].rest = pass[p].rest
  /\ pass'[p].pc # "idle"
  /\ pass'[p].at \in 1 .. Len(pass[p].team) + 1
  /\ pass'[p].pc # "check" => pass'[p].at <= Len(pass[p].team)

LEMMA GoesStays ==
  ASSUME NEW p \in Passes, NEW pc, NEW i, Goes(p, pc, i), pc # "idle",
         i \in 1 .. Len(pass[p].team) + 1, pc # "check" => i <= Len(pass[p].team)
  PROVE  Stays(p)
BY DEF Goes, Stays

\* What every step of a pass leaves alone.
PassLeaves(p) ==
  /\ joins' = joins /\ request' = request /\ cleaning' = cleaning /\ restarts' = restarts
  /\ entries' \subseteq entries /\ docs' \subseteq docs /\ pairing' \subseteq pairing \cup entries

\* A step within a team.
LEMMA GoesKeeps ==
  ASSUME Inv, Types', NEW p \in Passes, pass[p].pc # "idle",
         Stays(p), PassLeaves(p), processing' = processing, resets' = resets,
         faults' \in {faults, faults + 1},
         \A t \in Tickets :
            \/ matched'[t] = matched[t]
            \/ /\ matched'[t] = matched[t] + 1 /\ In(t, pass[p].team)
               /\ ~ HasMatched(pass[p], t) /\ HasMatched(pass'[p], t)
               /\ MayMatch(pass[p], t) /\ ~ MayMatch(pass'[p], t),
         \A t \in entries' : HasMatched(pass[p], t) =>
                               HasMatched(pass'[p], t) \/ faults' = faults + 1,
         \A t \in Tickets : MayMatch(pass'[p], t) => MayMatch(pass[p], t),
         \A t \in entries' \cap pairing' :
            t \notin pairing \/ HoldsEntry(pass[p], Owner(t)) => HoldsEntry(pass'[p], Owner(t))
  PROVE  Inv'
<1>1. /\ Moved(p) /\ pass'[p].pc # "idle" /\ pass'[p].at \in 1 .. Len(pass[p].team) + 1
      /\ pass'[p].pc # "check" => pass'[p].at <= Len(pass[p].team)
      /\ pass'[p].team = pass[p].team /\ pass'[p].rest = pass[p].rest
  BY DEF Stays
<1>2. PassShape(pass'[p])
  BY <1>1, PassFacts DEF PassShape
<1>3. \A t \in Tickets : Chosen(pass'[p], t) => t \in entries \/ Chosen(pass[p], t)
  BY <1>1 DEF Chosen
<1>4. /\ Mishaps \in Nat /\ Mishaps' \in Nat /\ Mishaps <= Mishaps' /\ Flag' = Flag
      /\ (faults' = faults + 1 => Mishaps' = Mishaps + 1) /\ Flag \in 0 .. 1 /\ resets \in Nat
  <2>1. /\ Mishaps \in Nat /\ Mishaps' \in Nat /\ resets \in Nat /\ resets' \in Nat
        /\ faults \in Nat /\ faults' \in Nat
        /\ Mishaps' + resets + faults = Mishaps + resets' + faults'
    BY MishapsGrow DEF Inv, Types, PassLeaves
  <2>2. Flag' = Flag /\ Flag \in 0 .. 1
    BY DEF Flag, Bit
  <2> QED
    BY <2>1, <2>2
<1>5. Bit((pass[p].pc # "idle")') + Flag + resets <= Bit(pass[p].pc # "idle") + Flag' + resets'
  BY <1>1, <1>4 DEF Bit
<1>6. \A t \in Tickets : matched[t] \in Nat
  BY DEF Inv, Types, MoneyTypes
<1>7. ASSUME NEW t \in entries'
      PROVE  Bit((p \in Open(t))') + matched'[t] + Flag + Mishaps
               <= Bit(p \in Open(t)) + matched[t] + Flag' + Mishaps'
  <2>1. t \in Tickets
    BY DEF Types, QueueTypes
  <2>2. /\ (p \in Open(t)) <=> ~ HasMatched(pass[p], t)
        /\ (p \in Open(t))' <=> ~ HasMatched(pass'[p], t)
    BY <1>1 DEF Open
  <2>3. /\ Bit(p \in Open(t)) = IF HasMatched(pass[p], t) THEN 0 ELSE 1
        /\ Bit((p \in Open(t))') = IF HasMatched(pass'[p], t) THEN 0 ELSE 1
    BY <2>2 DEF Bit
  <2> QED
    BY <1>4, <1>6, <2>1, <2>3
<1>8. ASSUME NEW t \in Tickets \ entries'
      PROVE  Bit((p \in Pending(t))') + matched'[t] + Mishaps
               <= Bit(p \in Pending(t)) + matched[t] + Mishaps'
  <2>1. /\ (p \in Pending(t)) <=> MayMatch(pass[p], t)
        /\ (p \in Pending(t))' <=> MayMatch(pass'[p], t)
    BY DEF Pending
  <2>2. /\ Bit(p \in Pending(t)) = IF MayMatch(pass[p], t) THEN 1 ELSE 0
        /\ Bit((p \in Pending(t))') = IF MayMatch(pass'[p], t) THEN 1 ELSE 0
    BY <2>1 DEF Bit
  <2> QED
    BY <1>4, <1>6, <2>2
<1>9. \A t \in Tickets : matched'[t] # matched[t] => In(t, pass[p].team)
  OBVIOUS
<1> QED
  BY <1>1, <1>2, <1>3, <1>5, <1>7, <1>8, <1>9, PassKeeps DEF PassLeaves

\* The same, before a match is created or after the attempt failed.
LEMMA WaitingGoesKeeps ==
  ASSUME Inv, Types', NEW p \in Passes, pass[p].pc # "idle",
         Stays(p), PassLeaves(p), processing' = processing, resets' = resets,
         faults' \in {faults, faults + 1}, matched' = matched,
         \A t : ~ HasMatched(pass[p], t),
         \A t : MayMatch(pass'[p], t) => MayMatch(pass[p], t),
         \A t \in entries' \cap pairing' :
            t \notin pairing \/ HoldsEntry(pass[p], Owner(t)) => HoldsEntry(pass'[p], Owner(t))
  PROVE  Inv'
<1>1. \A t \in Tickets :
         \/ matched'[t] = matched[t]
         \/ /\ matched'[t] = matched[t] + 1 /\ In(t, pass[p].team)
            /\ ~ HasMatched(pass[p], t) /\ HasMatched(pass'[p], t)
            /\ MayMatch(pass[p], t) /\ ~ MayMatch(pass'[p], t)
  OBVIOUS
<1>2. \A t \in entries' : HasMatched(pass[p], t) =>
                            HasMatched(pass'[p], t) \/ faults' = faults + 1
  OBVIOUS
<1>3. \A t \in Tickets : MayMatch(pass'[p], t) => MayMatch(pass[p], t)
  OBVIOUS
<1> QED
  BY <1>1, <1>2, <1>3, GoesKeeps

\* A new team, whose members wait.
LEMMA TakesKeeps ==
  ASSUME Inv, Types', NEW p \in Passes, NEW W \in SUBSET entries', TakesTeam(p, W), PassLeaves(p),
         matched' = matched, faults' = faults, resets <= resets',
         1 + Flag + resets <= Bit(pass[p].pc # "idle") + Flag' + resets',
         \A t \in entries' : ~ HasMatched(pass[p], t),
         \A t \in entries' \cap pairing' : t \in pairing /\ ~ HoldsEntry(pass[p], Owner(t))
  PROVE  Inv'
<1>1. /\ Moved(p) /\ pass'[p].pc = "claim" /\ PassShape(pass'[p])
      /\ \A t \in Tickets : Chosen(pass'[p], t) => t \in W \/ \E u \in pass[p].rest : In(t, u)
  BY DEF TakesTeam
<1>2. \A t \in Tickets : Chosen(pass'[p], t) => t \in entries \/ Chosen(pass[p], t)
  BY <1>1 DEF Chosen, PassLeaves
<1>3. /\ Mishaps \in Nat /\ Mishaps' \in Nat /\ resets \in Nat /\ resets' \in Nat
      /\ Mishaps' + resets = Mishaps + resets' /\ Flag \in 0 .. 1 /\ Flag' \in 0 .. 1
  <2>1. /\ Mishaps \in Nat /\ Mishaps' \in Nat /\ resets \in Nat /\ resets' \in Nat
        /\ faults \in Nat /\ Mishaps' + resets + faults = Mishaps + resets' + faults'
    BY MishapsGrow DEF Inv, Types, PassLeaves
  <2>2. Flag \in 0 .. 1 /\ Flag' \in 0 .. 1
    BY DEF Flag, Bit
  <2> QED
    BY <2>1, <2>2
<1>4. Bit((pass[p].pc # "idle")') + Flag + resets <= Bit(pass[p].pc # "idle") + Flag' + resets'
  BY <1>1 DEF Bit
<1>5. \A t \in Tickets : matched[t] \in Nat
  BY DEF Inv, Types, MoneyTypes
<1>6. ASSUME NEW t \in entries'
      PROVE  Bit((p \in Open(t))') + matched'[t] + Flag + Mishaps
               <= Bit(p \in Open(t)) + matched[t] + Flag' + Mishaps'
  <2>1. t \in Tickets
    BY DEF Types, QueueTypes
  <2>2. (p \in Open(t)) <=> pass[p].pc # "idle"
    BY DEF Open
  <2>3. /\ Bit(p \in Open(t)) = Bit(pass[p].pc # "idle") /\ Bit((p \in Open(t))') <= 1
        /\ Bit((p \in Open(t))') \in Nat /\ Bit(pass[p].pc # "idle") \in Nat
    BY <2>2 DEF Bit
  <2> QED
    BY <1>3, <1>5, <2>1, <2>3
<1>7. ASSUME NEW t \in Tickets \ entries'
      PROVE  Bit((p \in Pending(t))') + matched'[t] + Mishaps
               <= Bit(p \in Pending(t)) + matched[t] + Mishaps'
  <2>1. (p \in Pending(t))' => p \in Pending(t)
    <3>1. MayMatch(pass'[p], t) => Chosen(pass'[p], t)
      BY DEF MayMatch, Chosen
    <3>2. MayMatch(pass'[p], t) => MayMatch(pass[p], t)
      BY <1>1, <3>1 DEF MayMatch
    <3> QED
      BY <3>2 DEF Pending
  <2>2. Bit((p \in Pending(t))') <= Bit(p \in Pending(t)) /\ Mishaps <= Mishaps'
        /\ Bit((p \in Pending(t))') \in Nat /\ Bit(p \in Pending(t)) \in Nat
    <3>2. Mishaps <= Mishaps'
      BY <1>3
    <3> QED
      BY <2>1, <3>2 DEF Bit
  <2> QED
    BY <1>3, <1>5, <2>2
<1> QED
  BY <1>1, <1>2, <1>4, <1>6, <1>7, PassKeeps DEF PassLeaves

\* The end of a pass.
LEMMA OverKeeps ==
  ASSUME Inv, Types', NEW p \in Passes, IsOver(p), PassLeaves(p),
         matched' = matched, faults' = faults, resets <= resets',
         Flag + resets <= Bit(pass[p].pc # "idle") + resets',
         \A t \in entries' : ~ HasMatched(pass[p], t),
         \A t \in entries' \cap pairing' : t \in pairing /\ ~ HoldsEntry(pass[p], Owner(t))
  PROVE  Inv'
<1>1. /\ Moved(p) /\ pass'[p] = NoPass /\ Flag' = 0
      /\ pass'[p].pc = "idle" /\ pass'[p].team = <<>> /\ pass'[p].rest = {}
  BY DEF IsOver, NoPass, Flag, Bit
<1>2. PassShape(pass'[p]) /\ \A t \in Tickets : ~ Chosen(pass'[p], t) /\ ~ MayMatch(pass'[p], t)
  BY <1>1 DEF PassShape, Chosen, MayMatch, In
<1>3. /\ Mishaps \in Nat /\ Mishaps' \in Nat /\ resets \in Nat /\ resets' \in Nat
      /\ Mishaps' + resets = Mishaps + resets' /\ Flag \in 0 .. 1
  <2>1. /\ Mishaps \in Nat /\ Mishaps' \in Nat /\ resets \in Nat /\ resets' \in Nat
        /\ faults \in Nat /\ Mishaps' + resets + faults = Mishaps + resets' + faults'
    BY MishapsGrow DEF Inv, Types, PassLeaves
  <2>2. Flag \in 0 .. 1
    BY DEF Flag, Bit
  <2> QED
    BY <2>1, <2>2
<1>4. Bit((pass[p].pc # "idle")') + Flag + resets <= Bit(pass[p].pc # "idle") + Flag' + resets'
  BY <1>1, <1>3 DEF Bit
<1>5. \A t \in Tickets : matched[t] \in Nat
  BY DEF Inv, Types, MoneyTypes
<1>6. ASSUME NEW t \in entries'
      PROVE  Bit((p \in Open(t))') + matched'[t] + Flag + Mishaps
               <= Bit(p \in Open(t)) + matched[t] + Flag' + Mishaps'
  <2>1. t \in Tickets
    BY DEF Types, QueueTypes
  <2>2. ((p \in Open(t)) <=> pass[p].pc # "idle") /\ ~ (p \in Open(t))'
    BY <1>1 DEF Open
  <2>3. /\ Bit(p \in Open(t)) = Bit(pass[p].pc # "idle") /\ Bit((p \in Open(t))') = 0
        /\ Bit(pass[p].pc # "idle") \in Nat
    BY <2>2 DEF Bit
  <2>4. \A b, f, m, k, n, r, s \in Nat :
          f + r <= b + s /\ n + r = k + s => 0 + m + f + k <= b + m + 0 + n
    OBVIOUS
  <2> DEFINE b == Bit(pass[p].pc # "idle")
             f == Flag
             m == matched[t]
             k == Mishaps
             n == Mishaps'
             r == resets
             s == resets'
  <2>5. /\ b \in Nat /\ f \in Nat /\ m \in Nat /\ k \in Nat /\ n \in Nat /\ r \in Nat /\ s \in Nat
        /\ f + r <= b + s /\ n + r = k + s
    BY <1>3, <1>5, <2>1, <2>3
  <2>6. 0 + m + f + k <= b + m + 0 + n
    <3> HIDE DEF b, f, m, k, n, r, s
    <3> QED BY ONLY <2>4, <2>5
  <2> QED
    BY <1>1, <2>3, <2>6
<1>7. ASSUME NEW t \in Tickets \ entries'
      PROVE  Bit((p \in Pending(t))') + matched'[t] + Mishaps
               <= Bit(p \in Pending(t)) + matched[t] + Mishaps'
  <2>1. ~ (p \in Pending(t))'
    BY <1>2 DEF Pending
  <2>2. Bit((p \in Pending(t))') = 0 /\ Bit(p \in Pending(t)) \in Nat /\ Mishaps <= Mishaps'
    BY <1>3, <2>1 DEF Bit
  <2> QED
    BY <1>3, <1>5, <2>2
<1> QED
  BY <1>1, <1>2, <1>4, <1>6, <1>7, PassKeeps DEF PassLeaves

LEMMA PassStartsStep == ASSUME Inv, NEW p \in Passes, PassStarts(p) PROVE Inv'
<1>1. /\ PassTypes /\ BoundTypes /\ Waiting \in SUBSET Tickets /\ Shapes
      /\ pass[p] = NoPass /\ pass[p].pc = "idle"
  BY DEF Inv, Types, QueueTypes, Waiting, Shapes, PassShape, PassStarts
<1>2. /\ PassLeaves(p) /\ matched' = matched /\ faults' = faults /\ entries' = entries
      /\ pairing' = pairing
  BY DEF PassStarts, PassLeaves, queue, agents, money
<1>3. /\ BoundTypes' /\ resets \in Nat /\ resets' \in Nat
      /\ (~ processing /\ resets' = resets) \/ (processing /\ resets' = resets + 1)
  BY BoundsAssumption DEF PassStarts, BoundTypes, Inv, Types
<1>4. \/ TakesTeam(p, Waiting) /\ processing' = TRUE
      \/ IsOver(p)
  <2>1. ASSUME NEW t \in Tables(Waiting), Begins(p, t, {}), processing' = TRUE
        PROVE  TakesTeam(p, Waiting)
    <3>1. t \in Teams /\ \A u \in Tickets : In(u, t) => u \in Waiting
      BY <1>1, TableTeam
    <3> QED
      BY <1>1, <2>1, <3>1, BeginsTakes
  <2>2. ASSUME NEW P \in Pairings(Waiting), NEW t \in P, Begins(p, t, P \ {t})
        PROVE  TakesTeam(p, Waiting)
    BY <1>1, <2>2, PairingBegins
  <2>3. ASSUME Ends(p) PROVE IsOver(p)
    BY <1>1, <2>3, EndsIsOver
  <2> QED
    BY <2>1, <2>2, <2>3 DEF PassStarts
<1>5. Types'
  <2>1. pass' \in [Passes -> PassStates] /\ processing' \in BOOLEAN
    BY <1>4 DEF TakesTeam, IsOver, Moved
  <2> QED
    BY <1>3, <2>1 DEF Inv, Types, QueueTypes, AgentTypes, MoneyTypes, PassTypes, PassStarts,
       queue, agents, money
<1>6. \A t : ~ HasMatched(pass[p], t) /\ ~ HoldsEntry(pass[p], Owner(t))
  BY <1>1 DEF HasMatched, HoldsEntry, NoPass
<1>7. /\ Waiting \in SUBSET entries' /\ Bit(pass[p].pc # "idle") = 0
      /\ (Flag = 0 /\ resets' = resets) \/ (Flag = 1 /\ resets' = resets + 1)
  BY <1>1, <1>2, <1>3 DEF Waiting, Bit, Flag
<1>8. CASE TakesTeam(p, Waiting) /\ processing' = TRUE
  <2>1. Flag' = 1
    BY <1>8 DEF Flag, Bit
  <2>2. 1 + Flag + resets <= Bit(pass[p].pc # "idle") + Flag' + resets' /\ resets <= resets'
    BY ONLY <1>3, <1>7, <2>1
  <2> QED
    BY <1>2, <1>5, <1>6, <1>7, <1>8, <2>2, TakesKeeps
<1>9. CASE IsOver(p)
  <2>1. Flag + resets <= Bit(pass[p].pc # "idle") + resets' /\ resets <= resets'
    BY ONLY <1>3, <1>7
  <2> QED
    BY <1>2, <1>5, <1>6, <1>9, <2>1, OverKeeps
<1> QED
  BY <1>4, <1>8, <1>9

LEMMA ClaimStep == ASSUME Inv, NEW p \in Passes, Claim(p) PROVE Inv'
<1> DEFINE team == pass[p].team
           at   == pass[p].at
<1>1. pass[p].pc = "claim"
  BY DEF Claim
<1>2. /\ PassTypes /\ Len(team) \in Nat /\ Len(team) >= 2 /\ at \in Nat /\ at \in 1 .. Len(team)
      /\ at \in DOMAIN team
  BY <1>1, PassFacts
<1>3. \/ Goes(p, "claim", at + 1) /\ at < Len(team) /\ UNCHANGED mishaps
      \/ Goes(p, "check", 1) /\ UNCHANGED mishaps
      \/ Goes(p, "reset", 1) /\ Fault
  <2>1. at + 1 \in Nat
    BY <1>2
  <2>2. Advance(p, "claim", "check") => (At(p, "claim", at + 1) /\ at < Len(team)) \/ At(p, "check", 1)
    BY DEF Advance
  <2>3. /\ At(p, "claim", at + 1) => Goes(p, "claim", at + 1)
        /\ At(p, "check", 1) => Goes(p, "check", 1)
        /\ At(p, "reset", 1) => Goes(p, "reset", 1)
    <3>1. "claim" \in PassPlaces /\ "check" \in PassPlaces /\ "reset" \in PassPlaces
      BY DEF PassPlaces
    <3> HIDE DEF at
    <3> QED
      BY <1>2, <2>1, <3>1, AtGoesTo
  <2> QED
    BY <2>2, <2>3 DEF Claim
<1>4. /\ restarts' = restarts /\ resets' = resets /\ BoundTypes'
      /\ faults' \in {faults, faults + 1}
  BY <1>3, FaultCounts DEF Inv, Types, mishaps
<1>5. /\ PassLeaves(p) /\ matched' = matched /\ processing' = processing
      /\ entries' = entries /\ pairing' = pairing \cup OfAgent(entries, Owner(team[at]))
  BY <1>4 DEF Claim, PassLeaves, agents, money, OfAgent, Current
<1>6. Types'
  <2>1. pass' \in [Passes -> PassStates]
    BY <1>3 DEF Goes, Moved
  <2>2. pairing' \subseteq Tickets
    BY <1>5 DEF Inv, Types, QueueTypes, OfAgent
  <2> QED
    BY <1>4, <2>1, <2>2 DEF Inv, Types, QueueTypes, AgentTypes, MoneyTypes, PassTypes, Claim,
       agents, money
<1>7. /\ pass'[p].team = team /\ pass'[p].rest = pass[p].rest
      /\ pass'[p].pc \in {"claim", "check", "reset"}
      /\ pass'[p].pc = "reset" => pass'[p].at = 1
  BY <1>3 DEF Goes
<1>8. /\ \A t : ~ HasMatched(pass[p], t)
      /\ \A t : MayMatch(pass'[p], t) => MayMatch(pass[p], t)
  BY <1>1, <1>7 DEF HasMatched, MayMatch
<1>9. \A t \in entries' \cap pairing' :
         t \notin pairing \/ HoldsEntry(pass[p], Owner(t)) => HoldsEntry(pass'[p], Owner(t))
  <2>1. \A a : (\E i \in DOMAIN team : Owner(team[i]) = a) => HoldsEntry(pass'[p], a)
    BY <1>2, <1>7 DEF HoldsEntry
  <2>2. \A t \in entries' \cap pairing' : t \notin pairing => Owner(t) = Owner(team[at])
    BY <1>5 DEF OfAgent
  <2> QED
    BY <1>2, <2>1, <2>2 DEF HoldsEntry
<1>10. Stays(p)
  <2>1. CASE Goes(p, "claim", at + 1) /\ at < Len(team)
    <3>1. at + 1 \in 1 .. Len(team) + 1 /\ at + 1 <= Len(team)
      BY <1>2, <2>1
    <3> QED
      BY <2>1, <3>1, GoesStays
  <2>2. 1 \in 1 .. Len(team) + 1 /\ 1 <= Len(team)
    BY <1>2
  <2> QED
    BY <1>3, <2>1, <2>2, GoesStays
<1>11. pass[p].pc # "idle"
  BY <1>1
<1> QED
  BY ONLY Inv, p \in Passes, <1>4, <1>5, <1>6, <1>8, <1>9, <1>10, <1>11, WaitingGoesKeeps

LEMMA HoldsOn ==
  ASSUME Inv, NEW p \in Passes, pass[p].pc # "idle", Stays(p),
         pass'[p].pc \in {"unlist", "reset"} => pass'[p].at = 1
  PROVE  \A a : HoldsEntry(pass[p], a) => HoldsEntry(pass'[p], a)
<1>1. DOMAIN pass[p].team = 1 .. Len(pass[p].team) /\ Len(pass[p].team) \in Nat
  BY PassFacts
<1>2. \A i \in DOMAIN pass[p].team : i \in Nat /\ 1 <= i
  BY <1>1
<1> QED
  BY <1>2 DEF HoldsEntry, Stays

LEMMA CheckStep == ASSUME Inv, NEW p \in Passes, Check(p) PROVE Inv'
<1> DEFINE team == pass[p].team
           at   == pass[p].at
<1>1. pass[p].pc = "check" /\ pass[p].pc # "idle"
  BY DEF Check
<1>2. PassTypes /\ Len(team) \in Nat /\ Len(team) >= 2 /\ at \in Nat /\ at >= 1
  BY <1>1, PassFacts
<1>3. \/ (Goes(p, "reset", 1) \/ Goes(p, "create", 1)) /\ entries' = entries
      \/ \E i \in 1 .. Len(team) : Goes(p, "drop", i) /\ entries' \subseteq entries
  <2>1. "create" \in PassPlaces /\ "drop" \in PassPlaces /\ "reset" \in PassPlaces
    BY DEF PassPlaces
  <2>2. CASE (At(p, "reset", 1) \/ At(p, "create", 1)) /\ entries' = entries
    BY <1>2, <2>1, <2>2, AtGoesTo
  <2>3. ASSUME NEW i \in at .. Len(team), At(p, "drop", i), entries' \subseteq entries
        PROVE  \E k \in 1 .. Len(team) : Goes(p, "drop", k)
    <3>1. i \in Nat /\ i \in 1 .. Len(team)
      BY <1>2
    <3>2. Goes(p, "drop", i)
      BY <1>2, <2>1, <2>3, <3>1, AtGoesTo
    <3> QED
      BY <3>1, <3>2
  <2> QED
    BY <2>2, <2>3 DEF Check
<1>4. /\ restarts' = restarts /\ resets' = resets /\ faults' = faults
      /\ PassLeaves(p) /\ matched' = matched /\ processing' = processing /\ pairing' = pairing
  BY <1>3 DEF Check, PassLeaves, agents, money, mishaps
<1>5. Types'
  <2>1. pass' \in [Passes -> PassStates] /\ entries' \subseteq Tickets
    BY <1>3 DEF Goes, Moved, Inv, Types, QueueTypes
  <2> QED
    BY <1>4, <2>1 DEF Inv, Types, QueueTypes, AgentTypes, MoneyTypes, PassTypes, BoundTypes, Check,
       agents, money
<1>6. Stays(p)
  <2>1. 1 \in 1 .. Len(team) + 1 /\ 1 <= Len(team)
    BY <1>2
  <2>2. \A i \in 1 .. Len(team) : i \in 1 .. Len(team) + 1 /\ i <= Len(team)
    BY <1>2
  <2> QED
    BY <1>3, <2>1, <2>2, GoesStays
<1>7. /\ pass'[p].team = team /\ pass'[p].rest = pass[p].rest
      /\ pass'[p].pc \in {"reset", "create", "drop"}
      /\ pass'[p].pc = "reset" => pass'[p].at = 1
  BY <1>3 DEF Goes
<1>8. /\ \A t : ~ HasMatched(pass[p], t)
      /\ \A t : MayMatch(pass'[p], t) => MayMatch(pass[p], t)
  BY <1>1, <1>7 DEF HasMatched, MayMatch
<1>9. \A t \in entries' \cap pairing' :
         t \notin pairing \/ HoldsEntry(pass[p], Owner(t)) => HoldsEntry(pass'[p], Owner(t))
  BY <1>1, <1>4, <1>6, <1>7, HoldsOn
<1> QED
  BY ONLY Inv, p \in Passes, <1>1, <1>4, <1>5, <1>6, <1>8, <1>9, WaitingGoesKeeps

LEMMA DropGoes ==
  ASSUME PassTypes, NEW p \in Passes, pass[p].at \in Nat,
         pass' = [pass EXCEPT ![p].pc = "check", ![p].at = @ + 1, ![p].drops = @ + 1]
  PROVE  Goes(p, "check", pass[p].at + 1)
<1> DEFINE c == pass[p]
           i == c.at + 1
           k == c.drops + 1
           d == [[[c EXCEPT !.pc = "check"] EXCEPT !.at = i] EXCEPT !.drops = k]
           s == [pc |-> "check", team |-> c.team, at |-> i, drops |-> k, rest |-> c.rest]
<1>1. c \in PassStates
  BY DEF PassTypes
<1>2. d = s
  <2>1. d = [[[c EXCEPT !.pc = "check"] EXCEPT !.at = i] EXCEPT !.drops = k]
    OBVIOUS
  <2> HIDE DEF c, d, i, k
  <2> QED
    BY <1>1, <2>1 DEF PassStates
<1>3. pass' = [pass EXCEPT ![p] = d]
  <2>1. pass = [q \in Passes |-> pass[q]] /\ c \in PassStates
    BY <1>1 DEF PassTypes
  <2> QED
    BY <1>1, <2>1 DEF PassStates
<1>4. s \in PassStates
  <2>1. c.drops \in Nat /\ c.at \in Nat /\ c.team \in Seq(Tickets) /\ c.rest \in SUBSET Teams
    BY <1>1 DEF PassStates
  <2> HIDE DEF c
  <2> QED
    BY <2>1 DEF PassStates, PassPlaces
<1>5. Moved(p) /\ pass'[p] = s
  <2> HIDE DEF d, s
  <2> QED
    BY <1>2, <1>3, <1>4, MoveTo
<1> QED
  BY <1>5 DEF Goes

LEMMA DropStep == ASSUME Inv, NEW p \in Passes, Drop(p) PROVE Inv'
<1> DEFINE team == pass[p].team
           at   == pass[p].at
<1>1. pass[p].pc = "drop" /\ pass[p].pc # "idle"
  BY DEF Drop
<1>2. /\ PassTypes /\ Len(team) \in Nat /\ Len(team) >= 2 /\ at \in Nat /\ at \in 1 .. Len(team)
      /\ team[at] \in Tickets
  BY <1>1, PassFacts
<1>3. Goes(p, "reset", 1) \/ Goes(p, "check", at + 1)
  <2>1. "reset" \in PassPlaces
    BY DEF PassPlaces
  <2> QED
    BY <1>2, <2>1, AtGoesTo, DropGoes DEF Drop
<1>4. /\ restarts' = restarts /\ resets' = resets /\ faults' = faults
      /\ PassLeaves(p) /\ matched' = matched /\ processing' = processing
      /\ pairing' = pairing /\ entries' = entries
  BY DEF Drop, PassLeaves, mishaps
<1>5. Types'
  <2>1. pass' \in [Passes -> PassStates] /\ docs' \subseteq Tickets
    BY <1>3 DEF Goes, Moved, Inv, Types, QueueTypes, Drop
  <2>2. status' \in [Agents -> {"idle", "queued", "in_match"}] /\ refunds' \in [Tickets -> Nat]
    <3>1. status \in [Agents -> {"idle", "queued", "in_match"}] /\ refunds \in [Tickets -> Nat]
      BY DEF Inv, Types, AgentTypes, MoneyTypes
    <3>2. status' = [status EXCEPT ![Current(p)] = "idle"]
      BY DEF Drop
    <3>3. refunds' = [refunds EXCEPT ![team[at]] = @ + 1]
      BY DEF Drop
    <3>4. refunds[team[at]] + 1 \in Nat
      BY <1>2, <3>1
    <3>5. status' \in [Agents -> {"idle", "queued", "in_match"}]
      BY <3>1, <3>2
    <3> QED
      BY ONLY <3>1, <3>3, <3>4, <3>5
  <2> QED
    BY <1>4, <2>1, <2>2 DEF Inv, Types, QueueTypes, AgentTypes, MoneyTypes, PassTypes, BoundTypes, Drop
<1>6. Stays(p)
  <2>1. 1 \in 1 .. Len(team) + 1 /\ 1 <= Len(team) /\ at + 1 \in 1 .. Len(team) + 1
    BY <1>2
  <2> QED
    BY <1>3, <2>1, GoesStays
<1>7. /\ pass'[p].team = team /\ pass'[p].rest = pass[p].rest
      /\ pass'[p].pc \in {"reset", "check"}
      /\ pass'[p].pc = "reset" => pass'[p].at = 1
  BY <1>3 DEF Goes
<1>8. /\ \A t : ~ HasMatched(pass[p], t)
      /\ \A t : MayMatch(pass'[p], t) => MayMatch(pass[p], t)
  BY <1>1, <1>7 DEF HasMatched, MayMatch
<1>9. \A t \in entries' \cap pairing' :
         t \notin pairing \/ HoldsEntry(pass[p], Owner(t)) => HoldsEntry(pass'[p], Owner(t))
  BY <1>1, <1>4, <1>6, <1>7, HoldsOn
<1> QED
  BY ONLY Inv, p \in Passes, <1>1, <1>4, <1>5, <1>6, <1>8, <1>9, WaitingGoesKeeps

LEMMA CreateStep == ASSUME Inv, NEW p \in Passes, Create(p) PROVE Inv'
<1> DEFINE team == pass[p].team
           at   == pass[p].at
<1>1. pass[p].pc = "create" /\ pass[p].pc # "idle"
  BY DEF Create
<1>2. /\ PassTypes /\ BoundTypes /\ Len(team) \in Nat /\ Len(team) >= 2
      /\ DOMAIN team = 1 .. Len(team) /\ team \in Teams
      /\ \A i \in DOMAIN team : team[i] \in Tickets
  BY <1>1, PassFacts DEF Inv, Types
<1>3. \/ /\ Goes(p, "start", 1) /\ UNCHANGED mishaps
         /\ matched' = [t \in Tickets |-> IF In(t, team) THEN matched[t] + 1 ELSE matched[t]]
         /\ matches' = matches \cup {<<team, matched[team[1]]>>}
         /\ status' = [a \in Agents |-> IF a \in Owners(team) THEN "in_match" ELSE status[a]]
      \/ Goes(p, "reset", 1) /\ Fault /\ UNCHANGED <<matched, matches, status>>
  <2>1. "reset" \in PassPlaces /\ "start" \in PassPlaces
    BY DEF PassPlaces
  <2> QED
    BY <1>2, <2>1, AtGoesTo DEF Create, In
<1>4. /\ restarts' = restarts /\ resets' = resets /\ BoundTypes'
      /\ faults' \in {faults, faults + 1}
  BY <1>2, <1>3, FaultCounts DEF mishaps
<1>5. /\ PassLeaves(p) /\ processing' = processing /\ entries' = entries /\ pairing' = pairing
  BY <1>4 DEF Create, PassLeaves, queue
<1>6. matched \in [Tickets -> Nat] /\ status \in [Agents -> {"idle", "queued", "in_match"}]
      /\ matches \subseteq Teams \X Nat
  BY DEF Inv, Types, MoneyTypes, AgentTypes
<1>7. Types'
  <2>1. pass' \in [Passes -> PassStates]
    BY <1>3 DEF Goes, Moved
  <2>2. matched' \in [Tickets -> Nat] /\ status' \in [Agents -> {"idle", "queued", "in_match"}]
    BY <1>3, <1>6
  <2>3. matches' \subseteq Teams \X Nat
    <3>1. 1 \in DOMAIN team
      BY <1>2
    <3>2. matched[team[1]] \in Nat
      BY <1>2, <1>6, <3>1
    <3> QED
      BY <1>2, <1>3, <1>6, <3>2
  <2> QED
    BY <1>4, <1>5, <2>1, <2>2, <2>3 DEF Inv, Types, QueueTypes, AgentTypes, MoneyTypes, PassTypes, Create,
       queue
<1>8. /\ pass'[p].team = team /\ pass'[p].rest = pass[p].rest /\ pass'[p].at = 1
      /\ pass'[p].pc \in {"start", "reset"}
      /\ pass'[p].pc = "reset" => matched' = matched
  BY <1>3 DEF Goes
<1>9. Stays(p)
  <2>1. 1 \in 1 .. Len(team) + 1 /\ 1 <= Len(team)
    BY <1>2
  <2> QED
    BY <1>3, <2>1, GoesStays
<1>10. PassShape(pass[p]) /\ \A t : ~ HasMatched(pass[p], t)
  BY <1>1, PassFacts DEF HasMatched
<1>11. \A t : MayMatch(pass'[p], t) => MayMatch(pass[p], t)
  BY <1>8 DEF MayMatch
<1>12. ASSUME NEW t \in Tickets
       PROVE  \/ matched'[t] = matched[t]
              \/ /\ matched'[t] = matched[t] + 1 /\ In(t, team)
                 /\ ~ HasMatched(pass[p], t) /\ HasMatched(pass'[p], t)
                 /\ MayMatch(pass[p], t) /\ ~ MayMatch(pass'[p], t)
  <2> SUFFICES ASSUME matched'[t] # matched[t]
               PROVE  /\ matched'[t] = matched[t] + 1 /\ In(t, team)
                      /\ ~ HasMatched(pass[p], t) /\ HasMatched(pass'[p], t)
                      /\ MayMatch(pass[p], t) /\ ~ MayMatch(pass'[p], t)
    OBVIOUS
  <2>1. matched'[t] = matched[t] + 1 /\ In(t, team) /\ pass'[p].pc = "start"
    BY <1>3, <1>8
  <2>2. HasMatched(pass'[p], t) /\ MayMatch(pass[p], t)
    BY <1>1, <1>8, <2>1 DEF HasMatched, MayMatch
  <2>3. PassShape(pass'[p])
    BY <1>8, <1>9, <1>10, <1>2 DEF PassShape, Stays
  <2>4. ~ MayMatch(pass'[p], t)
    BY <2>2, <2>3, MatchesOrMay
  <2> QED
    BY <1>10, <2>1, <2>2, <2>4
<1>13. \A t \in entries' \cap pairing' :
         t \notin pairing \/ HoldsEntry(pass[p], Owner(t)) => HoldsEntry(pass'[p], Owner(t))
  BY <1>1, <1>5, <1>8, <1>9, HoldsOn
<1> QED
  BY ONLY Inv, p \in Passes, <1>1, <1>4, <1>5, <1>7, <1>9, <1>10, <1>11, <1>12, <1>13, GoesKeeps

LEMMA StartStep == ASSUME Inv, NEW p \in Passes, Start(p) PROVE Inv'
<1> DEFINE team == pass[p].team
<1>1. pass[p].pc = "start" /\ pass[p].pc # "idle"
  BY DEF Start
<1>2. /\ PassTypes /\ BoundTypes /\ Len(team) \in Nat /\ Len(team) >= 2
      /\ DOMAIN team = 1 .. Len(team) /\ PassShape(pass[p])
  BY <1>1, PassFacts DEF Inv, Types
<1>3. \/ Goes(p, "unlist", 1) /\ UNCHANGED mishaps
      \/ Goes(p, "reset", 1) /\ Fault
  <2>1. "reset" \in PassPlaces /\ "unlist" \in PassPlaces
    BY DEF PassPlaces
  <2> QED
    BY <1>2, <2>1, AtGoesTo DEF Start
<1>4. /\ restarts' = restarts /\ resets' = resets /\ BoundTypes'
      /\ faults' \in {faults, faults + 1}
  BY <1>2, <1>3, FaultCounts DEF mishaps
<1>5. /\ PassLeaves(p) /\ processing' = processing /\ entries' = entries /\ pairing' = pairing
      /\ matched' = matched
  BY <1>4 DEF Start, PassLeaves, queue, agents
<1>6. Types'
  <2>1. pass' \in [Passes -> PassStates] /\ stored' \subseteq Agents
    BY <1>3 DEF Goes, Moved, Start, Inv, Types, MoneyTypes
  <2> QED
    BY <1>4, <1>5, <2>1 DEF Inv, Types, QueueTypes, AgentTypes, MoneyTypes, PassTypes, Start,
       queue, agents
<1>7. /\ pass'[p].team = team /\ pass'[p].rest = pass[p].rest /\ pass'[p].at = 1
      /\ pass'[p].pc = "unlist" \/ (pass'[p].pc = "reset" /\ faults' = faults + 1)
  BY <1>2, <1>3, FaultCounts DEF Goes
<1>8. Stays(p)
  <2>1. 1 \in 1 .. Len(team) + 1 /\ 1 <= Len(team)
    BY <1>2
  <2> QED
    BY <1>3, <2>1, GoesStays
<1>9. \A t : HasMatched(pass[p], t) => HasMatched(pass'[p], t) \/ faults' = faults + 1
  <2>1. \A i \in DOMAIN team : 1 <= i
    BY <1>2
  <2>2. \A t : HasMatched(pass[p], t) => In(t, team)
    BY <1>1 DEF HasMatched
  <2> HIDE DEF team
  <2>3. ASSUME NEW t, In(t, team), pass'[p].pc = "unlist" PROVE HasMatched(pass'[p], t)
    BY ONLY <1>7, <2>1, <2>3 DEF HasMatched, In
  <2> QED
    BY <1>7, <2>2, <2>3
<1>10. \A t : MayMatch(pass'[p], t) => MayMatch(pass[p], t)
  BY <1>7 DEF MayMatch
<1>11. \A t \in entries' \cap pairing' :
         t \notin pairing \/ HoldsEntry(pass[p], Owner(t)) => HoldsEntry(pass'[p], Owner(t))
  BY <1>1, <1>5, <1>7, <1>8, HoldsOn
<1> QED
  BY ONLY Inv, p \in Passes, <1>1, <1>4, <1>5, <1>6, <1>8, <1>9, <1>10, <1>11, GoesKeeps

\* Where the members leave the queue or wait again: the next member, or another team.
LEMMA NextPlace ==
  ASSUME Inv, NEW p \in Passes, pass[p].pc \in {"unlist", "reset"}, NEW W \in SUBSET Tickets,
         IF pass[p].at < Len(pass[p].team)
         THEN At(p, pass[p].pc, pass[p].at + 1) /\ UNCHANGED processing
         ELSE TakeNext(p, W)
  PROVE  \/ /\ pass[p].at < Len(pass[p].team) /\ processing' = processing
            /\ Goes(p, pass[p].pc, pass[p].at + 1)
         \/ pass[p].at = Len(pass[p].team) /\ TakesTeam(p, W) /\ processing' = processing
         \/ pass[p].at = Len(pass[p].team) /\ IsOver(p)
<1>1. /\ PassTypes /\ Shapes /\ Len(pass[p].team) \in Nat /\ pass[p].at \in Nat
      /\ pass[p].at \in 1 .. Len(pass[p].team) /\ pass[p].pc \in PassPlaces
  BY PassFacts DEF Inv, PassPlaces
<1>2. CASE pass[p].at < Len(pass[p].team)
  <2>1. pass[p].at + 1 \in Nat
    BY <1>1
  <2>2. At(p, pass[p].pc, pass[p].at + 1) /\ processing' = processing
    BY <1>2
  <2>3. Goes(p, pass[p].pc, pass[p].at + 1)
    BY ONLY <1>1, <2>1, <2>2, p \in Passes, AtGoesTo
  <2> QED
    BY <1>2, <2>2, <2>3
<1>3. CASE ~ (pass[p].at < Len(pass[p].team))
  <2>1. pass[p].at = Len(pass[p].team)
    BY <1>1, <1>3
  <2>2. TakeNext(p, W)
    BY <1>3
  <2> QED
    BY <1>1, <2>1, <2>2, TakeNextTakes
<1> QED
  BY <1>2, <1>3

LEMMA UnlistStep == ASSUME Inv, NEW p \in Passes, Unlist(p) PROVE Inv'
<1> DEFINE team == pass[p].team
           at   == pass[p].at
           W    == Waiting \ OfAgent(entries, Current(p))
<1>1. pass[p].pc = "unlist" /\ pass[p].pc # "idle"
  BY DEF Unlist
<1>2. /\ PassTypes /\ BoundTypes /\ Len(team) \in Nat /\ Len(team) >= 2
      /\ DOMAIN team = 1 .. Len(team) /\ at \in Nat /\ at \in 1 .. Len(team)
  BY <1>1, PassFacts DEF Inv, Types
<1>3. entries' = entries \ OfAgent(entries, Owner(team[at])) /\ W \in SUBSET Tickets /\ W \in SUBSET entries'
  BY DEF Unlist, Current, Waiting, Inv, Types, QueueTypes
<1>4. \/ /\ at < Len(team) /\ processing' = processing
         /\ Goes(p, "unlist", at + 1) /\ UNCHANGED mishaps
      \/ at = Len(team) /\ TakesTeam(p, W) /\ processing' = processing /\ UNCHANGED mishaps
      \/ at = Len(team) /\ IsOver(p) /\ UNCHANGED mishaps
      \/ Goes(p, "reset", 1) /\ Fault /\ processing' = processing
  <2>1. CASE UNCHANGED mishaps /\ IF at < Len(team)
                                  THEN At(p, "unlist", at + 1) /\ UNCHANGED processing
                                  ELSE TakeNext(p, W)
    BY <1>1, <1>3, <2>1, NextPlace
  <2>2. CASE Fault /\ At(p, "reset", 1) /\ UNCHANGED processing
    <3>1. "reset" \in PassPlaces /\ 1 \in Nat
      BY DEF PassPlaces
    <3> QED
      BY <1>2, <2>2, <3>1, AtGoesTo
  <2> QED
    BY <2>1, <2>2 DEF Unlist
<1>5. /\ restarts' = restarts /\ resets' = resets /\ BoundTypes'
      /\ faults' \in {faults, faults + 1} /\ resets \in Nat
      /\ pass'[p].pc = "reset" => faults' = faults + 1
  <2>1. Fault \/ UNCHANGED mishaps
    BY <1>4
  <2>2. restarts' = restarts /\ resets' = resets /\ BoundTypes'
        /\ faults' \in {faults, faults + 1} /\ resets \in Nat
    BY <1>2, <2>1, FaultCounts, BoundsAreNumbers DEF mishaps
  <2>3. pass'[p].pc = "reset" => Fault
    BY <1>4 DEF Goes, TakesTeam, IsOver, NoPass
  <2> QED
    BY <1>2, <2>2, <2>3, FaultCounts
<1>6. PassLeaves(p) /\ pairing' = pairing /\ matched' = matched
  <2>1. docs' \subseteq docs
    BY DEF Unlist
  <2> QED
    BY <1>3, <1>5, <2>1 DEF Unlist, PassLeaves, agents, money
<1>7. Types'
  <2>1. pass' \in [Passes -> PassStates] /\ processing' \in BOOLEAN
    BY <1>4 DEF Goes, TakesTeam, IsOver, Moved, Inv, Types, PassTypes
  <2> QED
    BY <1>5, <1>6, <2>1 DEF Inv, Types, QueueTypes, AgentTypes, MoneyTypes, PassTypes, Unlist,
       agents, money, PassLeaves
<1>8. \A t \in entries' : Owner(t) # Owner(team[at])
  BY <1>3 DEF OfAgent
<1>9. \A t : ~ MayMatch(pass[p], t) \/ \E u \in pass[p].rest : In(t, u)
  BY <1>1 DEF MayMatch
<1>10. CASE pass'[p].pc \in {"unlist", "reset"}
  <2>1. /\ pass'[p].team = team /\ pass'[p].rest = pass[p].rest
        /\ \/ pass'[p].pc = "unlist" /\ pass'[p].at = at + 1
           \/ pass'[p].pc = "reset" /\ pass'[p].at = 1
    BY <1>4, <1>10 DEF Goes, TakesTeam, IsOver, NoPass
  <2>2. Stays(p)
    <3>1. 1 \in 1 .. Len(team) + 1 /\ 1 <= Len(team)
          /\ (at < Len(team) => at + 1 \in 1 .. Len(team) + 1 /\ at + 1 <= Len(team))
      BY <1>2
    <3> QED
      BY <1>4, <1>10, <3>1, GoesStays DEF TakesTeam, IsOver, NoPass
  <2>3. processing' = processing
    BY <1>4, <1>10 DEF IsOver, NoPass
  <2>4. \A i \in DOMAIN team : i \in Nat /\ (at <= i => at + 1 <= i \/ i = at)
                                 /\ 1 <= i
    BY <1>2
  <2>5. \A t \in entries' : HasMatched(pass[p], t) =>
                              HasMatched(pass'[p], t) \/ faults' = faults + 1
    <3> SUFFICES ASSUME NEW t \in entries', HasMatched(pass[p], t), pass'[p].pc = "unlist"
                 PROVE  HasMatched(pass'[p], t)
      BY <1>5, <2>1
    <3>1. PICK i \in DOMAIN team : team[i] = t /\ at <= i
      BY <1>1 DEF HasMatched
    <3>2. at + 1 <= i
      BY <1>8, <2>4, <3>1
    <3>3. pass'[p].at = at + 1
      BY <2>1
    <3> QED
      BY <2>1, <3>1, <3>2, <3>3 DEF HasMatched
  <2>6. \A t : MayMatch(pass'[p], t) => MayMatch(pass[p], t)
    BY <2>1 DEF MayMatch
  <2>7. ASSUME NEW t \in entries' \cap pairing', t \notin pairing \/ HoldsEntry(pass[p], Owner(t))
        PROVE  HoldsEntry(pass'[p], Owner(t))
    <3>1. PICK i \in DOMAIN team : Owner(team[i]) = Owner(t) /\ at <= i
      BY <1>1, <1>6, <2>7 DEF HoldsEntry
    <3>2. at + 1 <= i /\ 1 <= i
      BY <1>8, <2>4, <3>1
    <3>3. pass'[p].at <= i
      BY <2>1, <3>2
    <3> QED
      BY <2>1, <3>1, <3>3 DEF HoldsEntry
  <2>8. \A t \in Tickets : matched'[t] = matched[t]
    BY <1>6
  <2> QED
    BY ONLY Inv, p \in Passes, <1>1, <1>5, <1>6, <1>7, <2>2, <2>3, <2>5, <2>6, <2>7, <2>8, GoesKeeps
<1>11. ASSUME at = Len(team)
       PROVE  /\ \A t \in entries' : ~ HasMatched(pass[p], t)
              /\ \A t \in entries' \cap pairing' : t \in pairing /\ ~ HoldsEntry(pass[p], Owner(t))
  <2>1. \A i \in DOMAIN team : at <= i => i = at
    BY <1>2, <1>11
  <2>2. \A t \in entries' : ~ HasMatched(pass[p], t)
    BY <1>1, <1>8, <2>1 DEF HasMatched
  <2>3. \A t \in entries' : ~ HoldsEntry(pass[p], Owner(t))
    BY <1>1, <1>8, <2>1 DEF HoldsEntry
  <2> QED
    BY <1>6, <2>2, <2>3
<1>12. Bit(pass[p].pc # "idle") = 1 /\ Flag \in 0 .. 1 /\ (processing' = processing => Flag' = Flag)
  BY <1>1 DEF Bit, Flag
<1>13. CASE at = Len(team) /\ TakesTeam(p, W) /\ processing' = processing /\ UNCHANGED mishaps
  <2>1. 1 + Flag + resets <= Bit(pass[p].pc # "idle") + Flag' + resets' /\ resets <= resets'
        /\ faults' = faults
    BY <1>5, <1>12, <1>13 DEF mishaps
  <2> QED
    BY <1>3, <1>6, <1>7, <1>11, <1>13, <2>1, TakesKeeps
<1>14. CASE at = Len(team) /\ IsOver(p) /\ UNCHANGED mishaps
  <2>1. Flag + resets <= Bit(pass[p].pc # "idle") + resets' /\ resets <= resets' /\ faults' = faults
    BY <1>5, <1>12, <1>14 DEF mishaps
  <2> QED
    BY <1>6, <1>7, <1>11, <1>14, <2>1, OverKeeps
<1> QED
  BY <1>4, <1>10, <1>13, <1>14 DEF Goes

LEMMA ResetStep == ASSUME Inv, NEW p \in Passes, Reset(p) PROVE Inv'
<1> DEFINE team == pass[p].team
           at   == pass[p].at
           W    == Waiting \cup OfAgent(entries, Current(p))
<1>1. pass[p].pc = "reset" /\ pass[p].pc # "idle"
  BY DEF Reset
<1>2. /\ PassTypes /\ BoundTypes /\ Len(team) \in Nat /\ Len(team) >= 2
      /\ DOMAIN team = 1 .. Len(team) /\ at \in Nat /\ at \in 1 .. Len(team)
  BY <1>1, PassFacts DEF Inv, Types
<1>3. /\ pairing' = pairing \ OfAgent(entries, Owner(team[at])) /\ entries' = entries
      /\ W \in SUBSET Tickets /\ W \in SUBSET entries'
  BY DEF Reset, Current, Waiting, Inv, Types, QueueTypes, OfAgent
<1>4. \/ at < Len(team) /\ processing' = processing /\ Goes(p, "reset", at + 1)
      \/ at = Len(team) /\ TakesTeam(p, W) /\ processing' = processing
      \/ at = Len(team) /\ IsOver(p)
  BY <1>1, <1>3, NextPlace DEF Reset
<1>5. /\ restarts' = restarts /\ resets' = resets /\ faults' = faults /\ BoundTypes'
      /\ resets \in Nat
  BY <1>2, BoundsAreNumbers DEF Reset, mishaps, BoundTypes
<1>6. PassLeaves(p) /\ matched' = matched
  BY <1>3, <1>5 DEF Reset, PassLeaves, agents, money
<1>7. Types'
  <2>1. pass' \in [Passes -> PassStates] /\ processing' \in BOOLEAN
    BY <1>4 DEF Goes, TakesTeam, IsOver, Moved, Inv, Types, PassTypes
  <2> QED
    BY <1>3, <1>5, <2>1 DEF Inv, Types, QueueTypes, AgentTypes, MoneyTypes, PassTypes, Reset,
       agents, money
<1>8. \A t \in entries' \cap pairing' : t \in pairing /\ Owner(t) # Owner(team[at])
  BY <1>3 DEF OfAgent
<1>9. \A t : ~ HasMatched(pass[p], t)
  BY <1>1 DEF HasMatched
<1>10. CASE at < Len(team) /\ processing' = processing /\ Goes(p, "reset", at + 1)
  <2>1. /\ pass'[p].team = team /\ pass'[p].rest = pass[p].rest
        /\ pass'[p].pc = "reset" /\ pass'[p].at = at + 1
    BY <1>10 DEF Goes
  <2>2. Stays(p)
    <3>1. at + 1 \in 1 .. Len(team) + 1 /\ at + 1 <= Len(team)
      BY <1>2, <1>10
    <3> QED
      BY <1>10, <3>1, GoesStays
  <2>3. \A i \in DOMAIN team : i \in Nat /\ (at <= i => at + 1 <= i \/ i = at)
    BY <1>2
  <2>4. \A t : MayMatch(pass'[p], t) => MayMatch(pass[p], t)
    BY <2>1 DEF MayMatch
  <2>5. ASSUME NEW t \in entries' \cap pairing', t \notin pairing \/ HoldsEntry(pass[p], Owner(t))
        PROVE  HoldsEntry(pass'[p], Owner(t))
    <3>1. PICK i \in DOMAIN team : Owner(team[i]) = Owner(t) /\ at <= i
      BY <1>1, <1>8, <2>5 DEF HoldsEntry
    <3>2. pass'[p].at <= i
      BY <1>8, <2>1, <2>3, <3>1
    <3> QED
      BY <2>1, <3>1, <3>2 DEF HoldsEntry
  <2>6. processing' = processing /\ faults' \in {faults, faults + 1}
    BY <1>5, <1>10
  <2> QED
    BY ONLY Inv, p \in Passes, <1>1, <1>5, <1>6, <1>7, <1>9, <2>2, <2>4, <2>5, <2>6, WaitingGoesKeeps
<1>11. ASSUME at = Len(team)
       PROVE  \A t \in entries' \cap pairing' : t \in pairing /\ ~ HoldsEntry(pass[p], Owner(t))
  <2>1. \A i \in DOMAIN team : at <= i => i = at
    BY <1>2, <1>11
  <2> QED
    BY <1>1, <1>8, <2>1 DEF HoldsEntry
<1>12. Bit(pass[p].pc # "idle") = 1 /\ Flag \in 0 .. 1 /\ (processing' = processing => Flag' = Flag)
  BY <1>1 DEF Bit, Flag
<1>13. CASE at = Len(team) /\ TakesTeam(p, W) /\ processing' = processing
  <2>1. 1 + Flag + resets <= Bit(pass[p].pc # "idle") + Flag' + resets' /\ resets <= resets'
    BY <1>5, <1>12, <1>13
  <2> QED
    BY <1>3, <1>5, <1>6, <1>7, <1>9, <1>11, <1>13, <2>1, TakesKeeps
<1>14. CASE at = Len(team) /\ IsOver(p)
  <2>1. Flag + resets <= Bit(pass[p].pc # "idle") + resets' /\ resets <= resets'
    BY <1>5, <1>12, <1>14
  <2> QED
    BY <1>5, <1>6, <1>7, <1>9, <1>11, <1>14, <2>1, OverKeeps
<1> QED
  BY <1>4, <1>10, <1>13, <1>14

-----------------------------------------------------------------------------
(* The invariant *)

LEMMA InvInit == Init => Inv
<1> SUFFICES ASSUME Init PROVE Inv
  OBVIOUS
<1>1. Types
  <2>1. \A a \in {MaxJoins, MaxPayments, MaxResets, MaxRestarts, MaxFaults} : 0 \in 0 .. a
    BY BoundsAssumption
  <2> QED
    BY <2>1, NoPassType, NoRequestType DEF Init, Types, QueueTypes, AgentTypes, MoneyTypes, BoundTypes,
       PassTypes
<1>2. /\ \A p \in Passes : pass[p] = NoPass
      /\ \A r \in Requests : request[r] = NoRequest
  BY DEF Init
<1>3. Shapes
  BY <1>2 DEF Shapes, PassShape, NoPass
<1>4. Adders
  BY <1>2, NoRequestType DEF Adders
<1>5. FreshUnused
  <2>1. \A p \in Passes : pass[p].team = <<>> /\ pass[p].rest = {}
    BY <1>2 DEF NoPass
  <2> QED
    BY <2>1 DEF Init, FreshUnused, Unused, In
<1>6. Held
  BY DEF Init, Held
<1>7. Counted
  <2>1. Active = {} /\ \A t \in Tickets : Open(t) = {} /\ Pending(t) = {}
    BY <1>2 DEF Active, Open, Pending, MayMatch, NoPass
  <2>2. Cardinality({}) = 0
    BY FS_EmptySet
  <2>3. Flag = 0 /\ resets = 0 /\ Mishaps = 0 /\ entries = {} /\ \A t \in Tickets : matched[t] = 0
    BY DEF Init, Flag, Bit, Mishaps
  <2> QED
    BY ONLY <2>1, <2>2, <2>3 DEF Counted
<1> QED
  BY <1>1, <1>3, <1>4, <1>5, <1>6, <1>7 DEF Inv

LEMMA InvStep == Inv /\ [Next]_vars => Inv'
<1> SUFFICES ASSUME Inv, [Next]_vars PROVE Inv'
  OBVIOUS
<1>1. CASE \E a \in Agents : Pay(a) \/ PaymentExpires(a)
  BY <1>1, PayStep, PaymentExpiresStep
<1>2. CASE \E g \in matches : MatchEnds(g)
  BY <1>2, MatchEndsStep
<1>3. ASSUME NEW r \in Requests, RequestStep(r) \/ \E a \in Agents : JoinChecks(r, a) \/ Cancel(r, a)
      PROVE  Inv'
  BY <1>3, JoinQueueStep, JoinAddsStep, JoinSavesStep, LeaveDeletesStep, LeaveSavesStep,
     JoinChecksStep, CancelStep DEF RequestStep
<1>4. ASSUME NEW p \in Passes, PassStarts(p) \/ PassStep(p)
      PROVE  Inv'
  BY <1>4, PassStartsStep, ClaimStep, CheckStep, DropStep, CreateStep, StartStep, UnlistStep,
     ResetStep DEF PassStep
<1>5. CASE CleanupBegins \/ CleanupEnds \/ Restart
  BY <1>5, CleanupBeginsStep, CleanupEndsStep, RestartStep
<1>6. CASE UNCHANGED vars
  <2>1. UNCHANGED <<entries, docs, pairing, joins, status, matches, stored, payments, refunds,
                    matched, request, pass, processing, cleaning, resets, restarts, faults>>
    BY <1>6 DEF vars, queue, agents, money, passes, mishaps
  <2>2. Types' /\ Shapes' /\ Adders'
    BY <2>1 DEF Inv, Types, QueueTypes, AgentTypes, MoneyTypes, BoundTypes, PassTypes, Shapes, Adders
  <2>3. FreshUnused'
    BY <2>1 DEF Inv, FreshUnused, Fresh, Adding, Unused
  <2>4. Held' /\ Counted'
    BY <2>1 DEF Inv, Held, Counted, Active, Open, Pending, Flag, Mishaps
  <2> QED
    BY <2>2, <2>3, <2>4 DEF Inv
<1> QED
  BY <1>1, <1>2, <1>3, <1>4, <1>5, <1>6 DEF Next

\* Every value the handlers, the passes, the cleanup and a restart store is of its
\* type, and a pass that is at work stands at a place of its team.
THEOREM QueueIsTyped == Spec => []TypeOK
<1>1. Inv => TypeOK
  <2> SUFFICES ASSUME Inv PROVE TypeOK
    OBVIOUS
  <2>1. \A g \in matches : Owners(g[1]) \subseteq Agents /\ g[2] \in Nat
    <3> SUFFICES ASSUME NEW g \in matches
                 PROVE  Owners(g[1]) \subseteq Agents /\ g[2] \in Nat
      OBVIOUS
    <3>1. g \in Teams \X Nat
      BY DEF Inv, Types, AgentTypes
    <3>2. g[1] \in Seq(Tickets) /\ g[2] \in Nat
      BY <3>1 DEF Teams
    <3>3. \A i \in DOMAIN g[1] : g[1][i] \in Tickets
      BY <3>2
    <3> QED
      BY <3>2, <3>3 DEF Owners, Owner, Tickets
  <2>2. \A r \in Requests :
          /\ request[r].pc \in {"idle", "checked", "adding", "saving", "leaving", "idling"}
          /\ request[r].agent \subseteq Agents /\ request[r].ticket \subseteq Tickets
    BY DEF Inv, Types, RequestStates, RequestPlaces
  <2>3. \A p \in Passes :
          /\ pass[p].pc \in {"idle", "claim", "check", "drop", "create", "start",
                             "unlist", "reset"}
          /\ pass[p].pc # "idle" => pass[p].at \in 1 .. Len(pass[p].team) + 1
    BY DEF Inv, Types, PassTypes, PassStates, PassPlaces, Shapes, PassShape
  <2> QED
    BY <2>1, <2>2, <2>3 DEF TypeOK, Inv, Types, QueueTypes, AgentTypes, MoneyTypes, BoundTypes, PassTypes
<1> QED
  BY <1>1, InvInit, InvStep, PTL DEF Spec

\* As long as there was no restart, an entry that is "pairing" has a pass at work on
\* its agent: processPairing lets go of every entry it has claimed, whatever the
\* requests and the cleanup do between its awaits.
THEOREM PairingIsHeldHolds == Spec => []PairingIsHeld
<1>1. Inv => PairingIsHeld
  BY DEF Inv, Held, PairingIsHeld, HoldsEntry, Owners
<1> QED
  BY <1>1, InvInit, InvStep, PTL DEF Spec

\* A ticket is matched once, and once more at most for every forced reset of the
\* flag, every failed call and every restart.
THEOREM MatchedOnceHolds == Spec => []MatchedOnce
<1>1. Inv => MatchedOnce
  <2> SUFFICES ASSUME Inv, NEW t \in Tickets
               PROVE  matched[t] <= 1 + resets + faults + restarts
    BY DEF MatchedOnce
  <2>1. Cardinality(Pending(t)) + matched[t] <= 1 + Mishaps
    BY DEF Inv, Counted
  <2>2. Cardinality(Pending(t)) \in Nat /\ matched[t] \in Nat
    BY CountsFinite DEF Inv, Types, MoneyTypes
  <2>3. resets \in Nat /\ restarts \in Nat /\ faults \in Nat
    BY BoundsAreNumbers DEF Inv, Types
  <2> QED
    BY <2>1, <2>2, <2>3 DEF Mishaps
<1> QED
  BY <1>1, InvInit, InvStep, PTL DEF Spec
=============================================================================
