----------------------------- MODULE PlayProofs -----------------------------
(***************************************************************************)
(* Proofs about PlayService and Betting, for any agents, requests, bets    *)
(* and bounds.  An agent gets one entry at a time: the cooldown of         *)
(* joinQueue is what keeps two requests, or a request and the loop, from   *)
(* adding an entry for one agent at once.  No token is lost or made, and   *)
(* no entry is unpaid.  What is offered for the bets of a match is never   *)
(* more than its pool.                                                     *)
(***************************************************************************)
EXTENDS FiniteSetTheorems, SumProofs, OpenClawProofs, TLAPS

CallPlaces == {"free", "transfer", "mark", "enter", "adding", "saves", "revert", "leaving",
               "freeing", "takes", "funds"}
CallStates == [pc : CallPlaces, agent : Agents \cup {"none"}]
TickStates == [pc : {"free", "counts", "stops", "checks", "takes"}, todo : SUBSET Managed]
Entries    == [Agents -> {"none", "waiting", "pairing"}]

PlayTypes ==
  /\ call \in [Callers -> CallStates]
  /\ \A c \in Callers : call[c].pc # "free" => Caller(c) \in Agents
  /\ entry \in Entries
  /\ tick \in TickStates

\* While a document is being created its agent cools down, has no entry, and is not
\* with another caller at the same place.
AddingAlone ==
  /\ \A c \in Callers : Calling(c, "adding") => Caller(c) \in recent /\ entry[Caller(c)] = "none"
  /\ \A c, d \in Callers :
       Calling(c, "adding") /\ Calling(d, "adding") /\ Caller(c) = Caller(d) => c = d

PlayInv == PlayTypes /\ AddingAlone

LEMMA PlayInvInit == ASSUME NEW cast, PlayInit(cast) PROVE PlayInv
BY DEF PlayInit, PlayInv, PlayTypes, CallStates, CallPlaces, TickStates, Entries, AddingAlone, Free, Calling, Caller

-----------------------------------------------------------------------------
(* The steps *)

\* What happens to the entries while a document is created: none comes into being.
NoNewEntry ==
  /\ entry' \in Entries
  /\ \A a \in Agents : entry[a] = "none" => entry'[a] = "none"

TickTyped == tick' \in TickStates

\* The callers stay where they are.
LEMMA OthersKeepInv ==
  ASSUME PlayInv, call' = call, NoNewEntry, recent' = recent, TickTyped
  PROVE  PlayInv'
<1>1. \A c \in Callers : call[c].pc = "adding" => call[c].agent \in Agents
  BY DEF PlayInv, PlayTypes, Caller
<1>2. PlayTypes'
  BY DEF PlayInv, PlayTypes, NoNewEntry, TickTyped, Caller
<1>3. AddingAlone'
  BY <1>1 DEF PlayInv, AddingAlone, NoNewEntry, Calling, Caller
<1> QED BY <1>2, <1>3 DEF PlayInv

\* A caller goes on to anywhere but the creation of a document.
LEMMA CallKeepsInv ==
  ASSUME PlayInv, NEW c \in Callers, NEW q \in CallStates,
         call' = [call EXCEPT ![c] = q], q.pc # "adding", q.pc # "free" => q.agent \in Agents,
         NoNewEntry, recent \subseteq recent', TickTyped
  PROVE  PlayInv'
<1>1. \A d \in Callers : call'[d] = IF d = c THEN q ELSE call[d]
  BY DEF PlayInv, PlayTypes
<1>2. \A d \in Callers : call[d].pc = "adding" => call[d].agent \in Agents
  BY DEF PlayInv, PlayTypes, Caller
<1>3. PlayTypes'
  BY <1>1 DEF PlayInv, PlayTypes, NoNewEntry, TickTyped, Caller
<1>4. AddingAlone'
  BY <1>1, <1>2 DEF PlayInv, AddingAlone, NoNewEntry, Calling, Caller
<1> QED BY <1>3, <1>4 DEF PlayInv

\* Who enters was not cooling down, so nobody else adds its entry.
LEMMA EnterKeepsInv == ASSUME PlayInv, NEW c \in Callers, Enter(c) PROVE PlayInv'
<1>1. call[c] \in CallStates /\ call[c].agent \in Agents /\ call[c].pc = "enter"
  BY DEF PlayInv, PlayTypes, Enter, Calling, Caller
<1>2. NoNewEntry /\ TickTyped
  BY DEF PlayInv, PlayTypes, Enter, NoNewEntry, TickTyped, ticks
<1>3. CASE Rejected(c)
  <2> DEFINE q == IF Caller(c) \in Humans THEN [call[c] EXCEPT !.pc = "revert"] ELSE Free
  <2>1. q \in CallStates /\ q.pc # "adding" /\ (q.pc # "free" => q.agent \in Agents)
    BY <1>1 DEF CallStates, CallPlaces, Free
  <2>2. call' = [call EXCEPT ![c] = q]
    BY <1>3 DEF Rejected, Goes, Returns
  <2>3. recent \subseteq recent'
    BY DEF Enter
  <2> HIDE DEF q
  <2> QED BY <1>2, <2>1, <2>2, <2>3, CallKeepsInv
<1>4. CASE Goes(c, "adding") /\ Caller(c) \notin recent /\ entry[Caller(c)] = "none"
  <2>1. \A d \in Callers : call'[d] = IF d = c THEN [pc |-> "adding", agent |-> Caller(c)]
                                      ELSE call[d]
    BY <1>1, <1>4 DEF Goes, PlayInv, PlayTypes, CallStates, Caller
  <2>2. call' \in [Callers -> CallStates]
    BY <1>1, <1>4 DEF Goes, PlayInv, PlayTypes, CallStates, CallPlaces
  <2>3. PlayTypes'
    BY <1>1, <1>2, <2>1, <2>2 DEF PlayInv, PlayTypes, NoNewEntry, TickTyped, Caller
  <2>4. recent' = recent \cup {Caller(c)} /\ entry' = entry
    BY DEF Enter
  <2>5. AddingAlone'
    BY <1>4, <2>1, <2>4 DEF PlayInv, AddingAlone, Calling, Caller
  <2> QED BY <2>3, <2>5 DEF PlayInv
<1> QED BY <1>3, <1>4 DEF Enter

\* Who adds an entry was alone.
LEMMA AddKeepsInv == ASSUME PlayInv, NEW c \in Callers, Add(c) PROVE PlayInv'
<1>1. call[c] \in CallStates /\ call[c].agent \in Agents /\ call[c].pc = "adding"
  BY DEF PlayInv, PlayTypes, Add, Calling, Caller
<1> DEFINE q(pc) == [call[c] EXCEPT !.pc = pc]
<1>2. q("saves") \in CallStates /\ q("revert") \in CallStates /\ Free \in CallStates
  BY <1>1 DEF CallStates, CallPlaces, Free
<1>3. PICK r \in {q("saves"), q("revert"), Free} : call' = [call EXCEPT ![c] = r]
  BY DEF Add, Rejected, Goes, Returns
<1>4. r \in CallStates /\ r.pc # "adding" /\ (r.pc # "free" => r.agent \in Agents)
  BY <1>1, <1>2, <1>3 DEF CallStates, CallPlaces, Free
<1>5. \A d \in Callers : call'[d] = IF d = c THEN r ELSE call[d]
  BY <1>3 DEF PlayInv, PlayTypes
<1>6. /\ entry' \in Entries /\ recent' = recent /\ tick' = tick
      /\ \A a \in Agents : a # Caller(c) => entry'[a] = entry[a]
  BY DEF Add, Rejected, PlayInv, PlayTypes, Entries, ticks
<1>7. PlayTypes'
  BY <1>2, <1>3, <1>4, <1>5, <1>6 DEF PlayInv, PlayTypes, Caller
<1>8. \A d \in Callers : Calling(d, "adding") =>
        Caller(d) \in Agents /\ (d # c => Caller(d) # Caller(c))
  BY <1>1 DEF PlayInv, PlayTypes, AddingAlone, Calling, Caller
<1>9. AddingAlone'
  BY <1>4, <1>5, <1>6, <1>8 DEF PlayInv, AddingAlone, Calling, Caller
<1> QED BY <1>7, <1>9 DEF PlayInv

\* The requests that begin and those that end, and what they do in between.
LEMMA RequestKeepsPlayInv ==
  ASSUME PlayInv, NEW c \in Calls, NEW a \in Agents,
         \/ a \in Managed /\ ManagedJoins(c, a)
         \/ a \in Humans /\ HumanJoins(c, a)
         \/ Leaves(c, a)
         \/ TakesOut(c, a)
  PROVE  PlayInv'
<1>1. c \in Callers
  BY DEF Callers
<1>2. PICK pc \in {"transfer", "leaving", "takes"} :
        call' = [call EXCEPT ![c] = [pc |-> pc, agent |-> a]]
  BY DEF ManagedJoins, HumanJoins, Leaves, TakesOut
<1>3. [pc |-> pc, agent |-> a] \in CallStates
  BY DEF CallStates, CallPlaces
<1>4. entry' = entry /\ recent' = recent /\ tick' = tick
  BY DEF ManagedJoins, HumanJoins, Leaves, TakesOut, SwitchesOff, ticks
<1>5. NoNewEntry /\ TickTyped
  BY <1>4 DEF NoNewEntry, TickTyped, PlayInv, PlayTypes
<1> QED BY <1>1, <1>2, <1>3, <1>4, <1>5, CallKeepsInv

\* A caller that goes on from elsewhere to a place that is not "adding", or returns.
LEMMA CallStepKeepsInv == ASSUME PlayInv, NEW c \in Callers, CallStep(c) PROVE PlayInv'
<1>1. call[c] \in CallStates
  BY DEF PlayInv, PlayTypes
<1>2. ASSUME Transfer(c) \/ Mark(c) \/ Saves(c) \/ Revert(c) \/ LeaveQueue(c) \/ Frees(c)
             \/ TakeOut(c) \/ FundBrain(c)
      PROVE  PlayInv'
  <2>1. call[c].pc # "free" /\ call[c].agent \in Agents
    BY <1>2 DEF PlayInv, PlayTypes, Transfer, Mark, Saves, Revert, LeaveQueue, Frees, TakeOut,
                FundBrain, Calling, Caller
  <2> DEFINE q(pc) == [call[c] EXCEPT !.pc = pc]
  <2>2. PICK r \in {q("enter"), q("mark"), q("freeing"), q("funds"), Free} :
          call' = [call EXCEPT ![c] = r]
    BY <1>2 DEF Transfer, Mark, Saves, Revert, LeaveQueue, Frees, TakeOut, FundBrain, Goes,
                Returns
  <2>3. r \in CallStates /\ r.pc # "adding" /\ (r.pc # "free" => r.agent \in Agents)
    BY <1>1, <2>1, <2>2 DEF CallStates, CallPlaces, Free
  <2>4. /\ recent' = recent /\ tick' = tick
        /\ entry' = entry \/ entry' = [entry EXCEPT ![Caller(c)] = "none"]
    BY <1>2 DEF Transfer, Mark, Saves, Revert, LeaveQueue, Frees, TakeOut, FundBrain, ticks
  <2>5. NoNewEntry /\ TickTyped
    BY <2>4 DEF NoNewEntry, TickTyped, PlayInv, PlayTypes, Entries
  <2> HIDE DEF q
  <2> QED BY <2>2, <2>3, <2>4, <2>5, CallKeepsInv
<1> QED BY <1>2, EnterKeepsInv, AddKeepsInv DEF CallStep

LEMMA TickStepKeepsInv == ASSUME PlayInv, TickStep PROVE PlayInv'
<1>1. entry' = entry /\ recent' = recent /\ NoNewEntry
  BY DEF TickStep, TickReads, TickCounts, TickStops, TickChecks, TickTakes, NoNewEntry, PlayInv,
         PlayTypes
<1>2. CASE TickTakes /\ tick.todo # {}
  <2>1. PICK m \in tick.todo : /\ tick' = [tick EXCEPT !.todo = @ \ {m}]
                               /\ call' = [call EXCEPT ![Autoplay] =
                                             [pc |-> "transfer", agent |-> m]]
    BY <1>2 DEF TickTakes
  <2>2. m \in Agents /\ Autoplay \in Callers /\ TickTyped
    BY <2>1 DEF PlayInv, PlayTypes, TickStates, TickTyped, Agents, Callers
  <2>3. [pc |-> "transfer", agent |-> m] \in CallStates
    BY <2>2 DEF CallStates, CallPlaces
  <2> QED BY <1>1, <2>1, <2>2, <2>3, CallKeepsInv
<1>3. CASE ~ (TickTakes /\ tick.todo # {})
  <2>1. call' = call
    BY <1>3 DEF TickStep, TickReads, TickCounts, TickStops, TickChecks, TickTakes
  <2>2. tick \in TickStates
    BY DEF PlayInv, PlayTypes
  <2>3. TickTyped
    BY <1>3, <2>2 DEF TickStep, TickReads, TickCounts, TickStops, TickChecks, TickTakes,
                      TickTyped, TickStates
  <2> QED BY <1>1, <2>1, <2>3, OthersKeepInv
<1> QED BY <1>2, <1>3

\* An agent whose document is being created does not cool down.
LEMMA CoolsDownKeepsInv == ASSUME PlayInv, NEW a \in Agents, CoolsDown(a) PROVE PlayInv'
<1>1. call' = call /\ entry' = entry /\ tick' = tick
  BY DEF CoolsDown, ticks
<1>2. \A c \in Callers : Calling(c, "adding") => Caller(c) \in recent'
  BY DEF CoolsDown, PlayInv, AddingAlone
<1> QED BY <1>1, <1>2 DEF PlayInv, PlayTypes, AddingAlone, Calling, Caller

\* Pairing, matches and the switch leave the callers alone and make no entry.
LEMMA OthersStepKeepsInv ==
  ASSUME PlayInv,
         \/ \E a \in Agents : Exhibits(a)
         \/ \E m \in Managed : Switch(m) \/ Deletes(m)
         \/ \E team \in SUBSET Agents : Pairs(team)
         \/ Counts \/ Begins
         \/ \E g \in playing : Ends(g)
  PROVE  PlayInv'
<1>1. call' = call /\ recent' = recent /\ tick' = tick
  BY DEF Exhibits, Switch, SwitchesOn, SwitchesOff, Deletes, Pairs, Counts, Begins, Ends, ticks
<1>2. TickTyped
  BY <1>1 DEF TickTyped, PlayInv, PlayTypes
<1>3. NoNewEntry
  <2>1. CASE entry' = entry
    BY <2>1 DEF NoNewEntry, PlayInv, PlayTypes
  <2>2. CASE \E team \in SUBSET Agents : Pairs(team)
    BY <2>2 DEF Pairs, NoNewEntry, PlayInv, PlayTypes, Entries
  <2>3. CASE Begins
    BY <2>3 DEF Begins, Paired, NoNewEntry, PlayInv, PlayTypes, Entries
  <2> QED BY <2>1, <2>2, <2>3 DEF Exhibits, Switch, Deletes, Counts, Ends
<1> QED BY <1>1, <1>2, <1>3, OthersKeepInv

-----------------------------------------------------------------------------
(* The theorem *)

LEMMA PlayInvNext == ASSUME PlayInv, [ServicesNext]_serviceVars PROVE PlayInv'
<1>1. CASE UNCHANGED playVars
  BY <1>1, OthersKeepInv DEF playVars, PlayInv, PlayTypes, NoNewEntry, TickTyped
<1>2. CASE PlayNext
  <2>1. Calls \subseteq Callers /\ Managed \subseteq Agents /\ Humans \subseteq Agents
    BY DEF Callers, Agents
  <2>2. ASSUME NEW c \in Calls, NEW m \in Managed, ManagedJoins(c, m) PROVE PlayInv'
    BY <2>1, <2>2, RequestKeepsPlayInv
  <2>3. ASSUME NEW c \in Calls, NEW h \in Humans, HumanJoins(c, h) PROVE PlayInv'
    BY <2>1, <2>3, RequestKeepsPlayInv
  <2>4. ASSUME NEW c \in Calls, NEW a \in Agents, Leaves(c, a) \/ TakesOut(c, a) PROVE PlayInv'
    BY <2>4, RequestKeepsPlayInv
  <2>5. ASSUME NEW a \in Agents, NEW b \in Agents, Pairs({a, b}) PROVE PlayInv'
    BY <2>5, OthersStepKeepsInv
  <2> QED BY <1>2, <2>2, <2>3, <2>4, <2>5, CallStepKeepsInv, TickStepKeepsInv,
             CoolsDownKeepsInv, OthersStepKeepsInv DEF PlayNext
<1> QED BY <1>1, <1>2 DEF ServicesNext, serviceVars

\* Where the entries are added one after the other there is one of each agent at most.
LEMMA AloneIsOne == PlayInv => OneEntry
<1> SUFFICES ASSUME PlayInv PROVE OneEntry
  OBVIOUS
<1> DEFINE adding(a) == {c \in Callers : Calling(c, "adding") /\ Caller(c) = a}
           one(a)    == Cardinality(adding(a)) + (IF entry[a] = "none" THEN 0 ELSE 1) <= 1
<1>1. ASSUME NEW a \in Agents PROVE one(a)
  <2>1. CASE adding(a) = {}
    <3>1. Cardinality(adding(a)) = 0
      BY <2>1, FS_EmptySet
    <3> HIDE DEF adding
    <3> QED BY <3>1
  <2>2. CASE adding(a) # {}
    <3>1. PICK c \in adding(a) : TRUE
      BY <2>2
    <3>2. adding(a) = {c} /\ entry[a] = "none"
      BY <3>1 DEF PlayInv, AddingAlone
    <3>3. Cardinality(adding(a)) = 1
      BY <3>2, FS_Singleton
    <3> HIDE DEF adding
    <3> QED BY <3>2, <3>3
  <2> QED BY <2>1, <2>2
<1>2. \A a \in Agents : one(a)
  <2> HIDE DEF one
  <2> QED BY <1>1
<1> QED BY <1>2, Zenon DEF OneEntry

\* An agent gets one entry at a time, whoever makes it join.
THEOREM OneEntryHolds == ServicesSpec => []OneEntry
<1>1. ServicesInit => PlayInv
  BY PlayInvInit DEF ServicesInit
<1>2. PlayInv /\ [ServicesNext]_serviceVars => PlayInv'
  BY PlayInvNext
<1> QED BY <1>1, <1>2, AloneIsOne, PTL DEF ServicesSpec

-----------------------------------------------------------------------------
(* The tokens *)

Moneys == [Agents -> Nat]

IsPair(team) == \E a, b \in Agents : a # b /\ team = {a, b}

Entered == {a \in Agents : entry[a] # "none"}
Staked  == {g \in playing : g.staked}

\* Two play for stakes, and two are paired.
MoneyTypes ==
  /\ wallet \in Moneys /\ surplus \in Moneys /\ gone \in Moneys
  /\ IsFiniteSet(Staked) /\ \A g \in Staked : IsPair(g.team)
  /\ Paired = {} \/ IsPair(Paired)

StatusTypes ==
  /\ status \in [Agents -> {"idle", "queued", "in_match", "disabled"}]
  /\ recent \subseteq Agents
  /\ loop \in BOOLEAN /\ count \in {"none", "asked", "some", "zero"}

MoneyInv == PlayInv /\ StatusTypes /\ MoneyTypes /\ EntriesPaid /\ StakesKept

\* A token is counted where it is.
Tokens == SumFunction(wallet) + SumFunction(surplus) + SumFunction(gone)
            + Cardinality(Entered) + 2 * Cardinality(Staked)

Paying   == {"mark", "enter", "adding", "funds"}
OnWay(a) == {c \in Callers : Caller(c) = a /\ call[c].pc \in Paying}

\* The place r of a caller is one of those that agent a's tokens are on the way from.
Way(r, a) == IF r.agent = a /\ r.pc \in Paying THEN 1 ELSE 0

LEMMA AgentsFinite == IsFiniteSet(Agents) /\ Cardinality(Agents) \in Nat /\ IsFiniteSet(Callers)
<1>1. IsFiniteSet(Agents)
  BY PlayAssumption, FS_Union DEF Agents
<1>2. IsFiniteSet(Callers)
  BY PlayAssumption, FS_AddElement DEF Callers
<1> QED BY <1>1, <1>2, FS_CardinalityType

LEMMA OnWayFinite ==
  ASSUME NEW a PROVE IsFiniteSet(OnWay(a)) /\ Cardinality(OnWay(a)) \in Nat
<1>1. OnWay(a) \subseteq Callers
  BY DEF OnWay
<1> QED BY <1>1, AgentsFinite, FS_Subset, FS_CardinalityType

LEMMA PaidIsOnWay == EntriesPaid <=> \A a \in Agents : Cardinality(OnWay(a)) <= surplus[a]
BY Zenon DEF EntriesPaid, OnWay, Paying

\* A caller that is on its way has a token of its own among the surplus.
LEMMA PaidIsThere ==
  ASSUME MoneyInv, NEW c \in Callers, call[c].pc \in Paying
  PROVE  Caller(c) \in Agents /\ surplus[Caller(c)] \in Nat \ {0}
<1> DEFINE a == Caller(c)
<1>1. a \in Agents
  BY DEF MoneyInv, PlayInv, PlayTypes, Paying
<1>2. surplus[a] \in Nat
  BY <1>1 DEF MoneyInv, MoneyTypes, Moneys
<1>3. c \in OnWay(a)
  BY DEF OnWay
<1>4. Cardinality(OnWay(a)) # 0
  BY <1>3, OnWayFinite, FS_EmptySet
<1>5. Cardinality(OnWay(a)) <= surplus[a]
  BY <1>1, PaidIsOnWay DEF MoneyInv
<1> DEFINE n == Cardinality(OnWay(a))
<1>6. n \in Nat
  BY OnWayFinite
<1> DEFINE s == surplus[a]
<1>7. s \in Nat /\ n # 0 /\ n <= s
  BY <1>2, <1>4, <1>5
<1>8. s # 0
  <2> HIDE DEF n, s
  <2> QED BY ONLY <1>6, <1>7
<1> QED BY <1>1, <1>7, <1>8

\* One caller moves.
LEMMA OnWayChanges ==
  ASSUME PlayTypes, NEW c \in Callers, NEW q \in CallStates, call' = [call EXCEPT ![c] = q],
         NEW a \in Agents
  PROVE  Cardinality(OnWay(a))' + Way(call[c], a) = Cardinality(OnWay(a)) + Way(q, a)
<1> DEFINE U == OnWay(a) \ {c}
           n == Cardinality(U)
<1>1. IsFiniteSet(U) /\ n \in Nat /\ c \notin U
  BY OnWayFinite, FS_Subset, FS_CardinalityType
<1>2. \A d \in Callers : call'[d] = IF d = c THEN q ELSE call[d]
  BY DEF PlayTypes
<1>3. OnWay(a) = IF Way(call[c], a) = 1 THEN U \cup {c} ELSE U
  BY DEF OnWay, Way, Caller
<1>4. OnWay(a)' = IF Way(q, a) = 1 THEN U \cup {c} ELSE U
  BY <1>2 DEF OnWay, Way, Caller
<1>5. Way(q, a) \in {0, 1} /\ Way(call[c], a) \in {0, 1}
  BY DEF Way
<1> HIDE DEF U
<1>6. Cardinality(U \cup {c}) = n + 1
  BY <1>1, FS_AddElement
<1>7. Cardinality(OnWay(a)) = n + Way(call[c], a)
  <2>1. CASE Way(call[c], a) = 1
    BY <1>1, <1>3, <1>6, <2>1
  <2>2. CASE Way(call[c], a) = 0
    BY <1>1, <1>3, <2>2
  <2> QED BY <1>5, <2>1, <2>2
<1>8. Cardinality(OnWay(a)') = n + Way(q, a)
  <2>1. CASE Way(q, a) = 1
    BY <1>1, <1>4, <1>6, <2>1
  <2>2. CASE Way(q, a) = 0
    BY <1>1, <1>4, <2>2
  <2> QED BY <1>5, <2>1, <2>2
<1>9. \A x, y \in {0, 1} : (n + y) + x = (n + x) + y
  BY <1>1
<1> QED BY <1>5, <1>7, <1>8, <1>9

\* Entries stay paid where the surplus makes good for who came on the way.
LEMMA PaidAfter ==
  ASSUME MoneyInv, NEW c \in Callers, NEW q \in CallStates, call' = [call EXCEPT ![c] = q],
         surplus' \in Moneys,
         \A b \in Agents : surplus'[b] + Way(call[c], b) >= surplus[b] + Way(q, b)
  PROVE  EntriesPaid'
<1>1. ASSUME NEW b \in Agents PROVE Cardinality(OnWay(b))' <= surplus'[b]
  <2> DEFINE n == Cardinality(OnWay(b))
             s == surplus'[b]
             m == Cardinality(OnWay(b)')
             w == Way(call[c], b)
             v == Way(q, b)
             t == surplus[b]
  <2>1. m + w = n + v
    BY OnWayChanges DEF MoneyInv, PlayInv
  <2>2. n \in Nat /\ m \in Nat
    <3>1. \A U : U \subseteq Callers => Cardinality(U) \in Nat
      BY AgentsFinite, FS_Subset, FS_CardinalityType
    <3>2. OnWay(b) \subseteq Callers /\ OnWay(b)' \subseteq Callers
      BY DEF OnWay
    <3> QED BY <3>1, <3>2
  <2>3. w \in Nat /\ v \in Nat
    BY DEF Way
  <2>4. n <= t
    BY PaidIsOnWay DEF MoneyInv
  <2>5. s \in Nat /\ t \in Nat
    BY DEF MoneyInv, MoneyTypes, Moneys
  <2>6. s + w >= t + v
    OBVIOUS
  <2> HIDE DEF n, m, w, v, s, t
  <2>7. m <= s
    BY ONLY <2>1, <2>2, <2>3, <2>4, <2>5, <2>6
  <2> QED BY <2>7 DEF m, s
<1>2. (\A b \in Agents : Cardinality(OnWay(b)) <= surplus[b])'
  BY <1>1
<1>3. EntriesPaid' <=> (\A a \in Agents : Cardinality(OnWay(a)) <= surplus[a])'
  BY Zenon DEF EntriesPaid, OnWay, Paying
<1> QED BY <1>2, <1>3

-----------------------------------------------------------------------------
(* Where the tokens go *)

LEMMA MoneySum == ASSUME NEW f \in Moneys PROVE SumFunction(f) \in Nat
BY AgentsFinite, SumType DEF Moneys

LEMMA Gains ==
  ASSUME NEW f \in Moneys, NEW a \in Agents, NEW k \in Nat
  PROVE  /\ [f EXCEPT ![a] = @ + k] \in Moneys
         /\ SumFunction([f EXCEPT ![a] = @ + k]) = SumFunction(f) + k
<1> DEFINE v == f[a] + k
           n == SumFunction(f)
           m == SumFunction([f EXCEPT ![a] = v])
           old == f[a]
<1>1. old \in Nat /\ v \in Nat /\ v = old + k
  BY DEF Moneys
<1>2. [f EXCEPT ![a] = v] \in Moneys
  BY <1>1 DEF Moneys
<1>3. m + old = n + v
  <2> DEFINE g == [f EXCEPT ![a] = v]
  <2>1. IsFiniteSet(Agents) /\ f \in [Agents -> Nat]
    BY AgentsFinite DEF Moneys
  <2>2. g \in [Agents -> Nat] /\ g[a] = v /\ \A b \in Agents \ {a} : g[b] = f[b]
    BY <1>1, <2>1
  <2>3. SumFunction(g) + f[a] = SumFunction(f) + g[a]
    <3> HIDE DEF g
    <3> QED BY ONLY <2>1, <2>2, SumChangesOne, a \in Agents
  <2> QED BY <2>2, <2>3
<1>4. m \in Nat /\ n \in Nat
  BY <1>2, MoneySum
<1>5. m = n + k
  <2> HIDE DEF v, n, m, old
  <2> QED BY ONLY <1>1, <1>3, <1>4, k \in Nat
<1> QED BY <1>2, <1>5

LEMMA Loses ==
  ASSUME NEW f \in Moneys, NEW a \in Agents, f[a] # 0
  PROVE  /\ [f EXCEPT ![a] = @ - 1] \in Moneys
         /\ SumFunction([f EXCEPT ![a] = @ - 1]) = SumFunction(f) + (0 - 1)
<1> DEFINE v == f[a] - 1
           n == SumFunction(f)
           m == SumFunction([f EXCEPT ![a] = v])
           old == f[a]
<1>1. old \in Nat /\ v \in Nat /\ v = old - 1
  BY DEF Moneys
<1>2. [f EXCEPT ![a] = v] \in Moneys
  BY <1>1 DEF Moneys
<1>3. m + old = n + v
  <2> DEFINE g == [f EXCEPT ![a] = v]
  <2>1. IsFiniteSet(Agents) /\ f \in [Agents -> Nat]
    BY AgentsFinite DEF Moneys
  <2>2. g \in [Agents -> Nat] /\ g[a] = v /\ \A b \in Agents \ {a} : g[b] = f[b]
    BY <1>1, <2>1
  <2>3. SumFunction(g) + f[a] = SumFunction(f) + g[a]
    <3> HIDE DEF g
    <3> QED BY ONLY <2>1, <2>2, SumChangesOne, a \in Agents
  <2> QED BY <2>2, <2>3
<1>4. m \in Nat /\ n \in Nat
  BY <1>2, MoneySum
<1>5. m = n + (0 - 1)
  <2> HIDE DEF v, n, m, old
  <2> QED BY ONLY <1>1, <1>3, <1>4
<1> QED BY <1>2, <1>5

LEMMA TokenCounts ==
  ASSUME MoneyTypes
  PROVE  \A n \in {SumFunction(wallet), SumFunction(surplus), SumFunction(gone),
                   Cardinality(Entered), Cardinality(Staked)} : n \in Nat /\ n + 0 = n
<1>1. Entered \subseteq Agents
  BY DEF Entered
<1>2. /\ SumFunction(wallet) \in Nat /\ SumFunction(surplus) \in Nat /\ SumFunction(gone) \in Nat
      /\ Cardinality(Entered) \in Nat /\ Cardinality(Staked) \in Nat
  BY <1>1, MoneySum, AgentsFinite, FS_Subset, FS_CardinalityType DEF MoneyTypes
<1>3. \A n \in Nat : n + 0 = n
  OBVIOUS
<1> QED BY <1>2, <1>3

\* What leaves one place comes to another.
LEMMA TokensMove ==
  ASSUME MoneyInv, PlayInv', StatusTypes', MoneyTypes', EntriesPaid',
         NEW dw \in Int, NEW ds \in Int, NEW dg \in Int, NEW de \in Int, NEW dk \in Int,
         SumFunction(wallet') = SumFunction(wallet) + dw,
         SumFunction(surplus') = SumFunction(surplus) + ds,
         SumFunction(gone') = SumFunction(gone) + dg,
         Cardinality(Entered)' = Cardinality(Entered) + de,
         Cardinality(Staked)' = Cardinality(Staked) + dk,
         dw + ds + dg + de + 2 * dk = 0
  PROVE  MoneyInv'
<1> DEFINE w == SumFunction(wallet)
           s == SumFunction(surplus)
           g == SumFunction(gone)
           e == Cardinality(Entered)
           k == Cardinality(Staked)
<1>1. w \in Nat /\ s \in Nat /\ g \in Nat
  BY TokenCounts DEF MoneyInv
<1>2. e \in Nat /\ k \in Nat
  BY TokenCounts DEF MoneyInv
<1>3. Tokens' = (w + dw) + (s + ds) + (g + dg) + (e + de) + 2 * (k + dk)
  BY DEF Tokens
<1>4. Tokens = w + s + g + e + 2 * k
  BY DEF Tokens
<1> HIDE DEF w, s, g, e, k
<1>5. (w + dw) + (s + ds) + (g + dg) + (e + de) + 2 * (k + dk) = w + s + g + e + 2 * k
  BY ONLY <1>1, <1>2, dw \in Int, ds \in Int, dg \in Int, de \in Int, dk \in Int,
          dw + ds + dg + de + 2 * dk = 0
<1>6. Tokens = Funds * Cardinality(Agents)
  BY Zenon DEF MoneyInv, StakesKept, Tokens, Entered, Staked
<1>7. Tokens' = Funds * Cardinality(Agents)
  BY <1>3, <1>4, <1>5, <1>6
<1>8. StakesKept'
  BY <1>7, Zenon DEF StakesKept, Tokens, Entered, Staked
<1> QED BY <1>8 DEF MoneyInv

\* One entry more, or less.
LEMMA EntersOne ==
  ASSUME entry \in Entries, NEW a \in Agents, entry[a] = "none",
         entry' = [entry EXCEPT ![a] = "waiting"]
  PROVE  Cardinality(Entered)' = Cardinality(Entered) + 1
<1>1. Entered' = Entered \cup {a} /\ a \notin Entered
  BY DEF Entered, Entries
<1>2. IsFiniteSet(Entered)
  BY AgentsFinite, FS_Subset DEF Entered
<1>3. Cardinality(Entered \cup {a}) = Cardinality(Entered) + 1
  BY <1>1, <1>2, FS_AddElement
<1> QED BY <1>1, <1>3

LEMMA LeavesOne ==
  ASSUME entry \in Entries, NEW a \in Agents, entry[a] # "none",
         entry' = [entry EXCEPT ![a] = "none"]
  PROVE  Cardinality(Entered)' = Cardinality(Entered) + (0 - 1)
<1> DEFINE E == Entered'
<1>1. Entered = E \cup {a} /\ a \notin E
  BY DEF Entered, Entries
<1>2. IsFiniteSet(E)
  BY AgentsFinite, FS_Subset DEF Entered
<1> DEFINE n == Cardinality(E)
           m == Cardinality(Entered)
<1>3. n \in Nat
  BY <1>2, FS_CardinalityType
<1>4. m = n + 1
  <2> HIDE DEF E
  <2> QED BY <1>1, <1>2, FS_AddElement
<1>5. n = m + (0 - 1)
  <2> HIDE DEF n, m
  <2> QED BY ONLY <1>3, <1>4
<1> QED BY <1>5

-----------------------------------------------------------------------------
(* The steps of a caller *)

\* The matches and the pairing are left alone.
LEMMA MoneyTypesKept ==
  ASSUME MoneyTypes, wallet' \in Moneys, surplus' \in Moneys, gone' \in Moneys,
         playing' = playing, Paired' = Paired
  PROVE  MoneyTypes' /\ Staked' = Staked
<1>1. Staked' = Staked
  BY DEF Staked
<1> QED BY <1>1 DEF MoneyTypes

\* A caller goes on without a token, or gives up its claim to one.
LEMMA QuietCall ==
  ASSUME MoneyInv, PlayInv', StatusTypes', NEW c \in Callers, NEW q \in CallStates,
         call' = [call EXCEPT ![c] = q], UNCHANGED <<money, entry, playing>>,
         \A b \in Agents : Way(call[c], b) >= Way(q, b)
  PROVE  MoneyInv'
<1>1. wallet' = wallet /\ surplus' = surplus /\ gone' = gone
  BY DEF money
<1>2. wallet \in Moneys /\ surplus \in Moneys /\ gone \in Moneys
  BY DEF MoneyInv, MoneyTypes
<1>3. MoneyTypes' /\ Staked' = Staked
  <2>1. Paired' = Paired
    BY DEF Paired
  <2> QED BY <1>1, <1>2, <2>1, MoneyTypesKept DEF MoneyInv
<1>4. EntriesPaid'
  <2>1. ASSUME NEW b \in Agents PROVE surplus[b] + Way(call[c], b) >= surplus[b] + Way(q, b)
    <3>1. surplus[b] \in Nat /\ Way(q, b) \in Nat /\ Way(call[c], b) \in Nat
      BY <1>2 DEF Moneys, Way
    <3>2. Way(call[c], b) >= Way(q, b)
      OBVIOUS
    <3>3. \A n, v, w \in Nat : w >= v => n + w >= n + v
      OBVIOUS
    <3> QED BY ONLY <3>1, <3>2, <3>3
  <2> QED BY <1>1, <1>2, <2>1, PaidAfter
<1>5. Entered' = Entered
  BY DEF Entered
<1>6. /\ SumFunction(wallet') = SumFunction(wallet) + 0
      /\ SumFunction(surplus') = SumFunction(surplus) + 0
      /\ SumFunction(gone') = SumFunction(gone) + 0
      /\ Cardinality(Entered)' = Cardinality(Entered) + 0
      /\ Cardinality(Staked)' = Cardinality(Staked) + 0
  BY <1>1, <1>3, <1>5, TokenCounts DEF MoneyInv
<1> QED BY <1>3, <1>4, <1>6, TokensMove

\* Paying, taking out: a token leaves the wallet, or the balance was too small.
LEMMA TransferKeepsMoney ==
  ASSUME MoneyInv, PlayInv', StatusTypes', NEW c \in Callers, Transfer(c)
  PROVE  MoneyInv'
<1> DEFINE a == Caller(c)
           q(pc) == [call[c] EXCEPT !.pc = pc]
<1>1. /\ a \in Agents /\ call[c] \in CallStates /\ call[c].pc = "transfer"
      /\ Free \in CallStates /\ q("enter") \in CallStates /\ q("mark") \in CallStates
  BY DEF MoneyInv, PlayInv, PlayTypes, Transfer, Calling, CallStates, CallPlaces, Free
<1>2. CASE Returns(c) /\ UNCHANGED money
  <2>1. \A b \in Agents : Way(call[c], b) >= Way(Free, b)
    BY DEF Way, Free, Paying
  <2>2. call' = [call EXCEPT ![c] = Free] /\ UNCHANGED <<money, entry, playing>>
    BY <1>2 DEF Returns, Transfer
  <2> QED BY <1>1, <2>1, <2>2, QuietCall
<1>3. CASE /\ wallet[a] > 0
           /\ wallet' = [wallet EXCEPT ![a] = @ - 1]
           /\ surplus' = [surplus EXCEPT ![a] = @ + 1]
           /\ Goes(c, IF a \in Managed THEN "enter" ELSE "mark")
  <2>1. PICK r \in {q("enter"), q("mark")} : call' = [call EXCEPT ![c] = r]
    BY <1>3 DEF Goes
  <2>2. r \in CallStates /\ \A b \in Agents : Way(r, b) = IF b = a THEN 1 ELSE 0
    BY <1>1, <2>1 DEF Way, Paying, CallStates, Caller
  <2>3. gone' = gone /\ playing' = playing /\ entry' = entry
    BY DEF Transfer
  <2>4. wallet \in Moneys /\ surplus \in Moneys /\ gone \in Moneys
    BY DEF MoneyInv, MoneyTypes
  <2>5. wallet[a] # 0
    BY <1>1, <1>3, <2>4 DEF Moneys
  <2> HIDE DEF a, q
  <2>6. wallet' \in Moneys /\ SumFunction(wallet') = SumFunction(wallet) + (0 - 1)
    BY <1>1, <1>3, <2>4, <2>5, Loses
  <2>7. surplus' \in Moneys /\ SumFunction(surplus') = SumFunction(surplus) + 1
    BY <1>1, <1>3, <2>4, Gains
  <2>8. MoneyTypes' /\ Staked' = Staked
    BY <2>3, <2>4, <2>6, <2>7, MoneyTypesKept DEF MoneyInv, Paired
  <2>9. EntriesPaid'
    <3>1. \A b \in Agents : Way(call[c], b) \in Nat
      BY DEF Way
    <3>2. \A b \in Agents : surplus'[b] = surplus[b] + (IF b = a THEN 1 ELSE 0) /\ surplus[b] \in Nat
      BY <1>1, <1>3, <2>4 DEF Moneys
    <3>3. \A n, w \in Nat : \A v \in {0, 1} : (n + v) + w >= n + v
      OBVIOUS
    <3>4. ASSUME NEW b \in Agents PROVE surplus'[b] + Way(call[c], b) >= surplus[b] + Way(r, b)
      BY <2>2, <3>1, <3>2, <3>3
    <3> QED BY <2>1, <2>2, <2>7, <3>4, PaidAfter
  <2>10. Entered' = Entered
    BY <2>3 DEF Entered
  <2>11. /\ SumFunction(gone') = SumFunction(gone) + 0
         /\ Cardinality(Entered)' = Cardinality(Entered) + 0
         /\ Cardinality(Staked)' = Cardinality(Staked) + 0
    BY <2>3, <2>8, <2>10, TokenCounts DEF MoneyInv
  <2> QED BY <2>6, <2>7, <2>8, <2>9, <2>11, TokensMove
<1> QED BY <1>2, <1>3 DEF Transfer

LEMMA TakeOutKeepsMoney ==
  ASSUME MoneyInv, PlayInv', StatusTypes', NEW c \in Callers, TakeOut(c)
  PROVE  MoneyInv'
<1> DEFINE a == Caller(c)
           q == [call[c] EXCEPT !.pc = "funds"]
<1>1. /\ a \in Agents /\ call[c] \in CallStates /\ call[c].pc = "takes"
      /\ Free \in CallStates /\ q \in CallStates
  BY DEF MoneyInv, PlayInv, PlayTypes, TakeOut, Calling, CallStates, CallPlaces, Free
<1>2. /\ \A b \in Agents : Way(call[c], b) = 0 /\ Way(Free, b) = 0
      /\ \A b \in Agents : Way(q, b) = IF b = a THEN 1 ELSE 0
  BY <1>1 DEF Way, Free, Paying, CallStates, Caller
<1>3. playing' = playing /\ entry' = entry
  BY DEF TakeOut
<1>4. wallet \in Moneys /\ surplus \in Moneys /\ gone \in Moneys
  BY DEF MoneyInv, MoneyTypes
<1>5. CASE Returns(c) /\ UNCHANGED money
  <2>1. call' = [call EXCEPT ![c] = Free]
    BY <1>5 DEF Returns
  <2>2. \A b \in Agents : Way(call[c], b) >= Way(Free, b)
    BY <1>2
  <2> QED BY <1>1, <1>3, <1>5, <2>1, <2>2, QuietCall
<1>6. ASSUME wallet[a] # 0, wallet' = [wallet EXCEPT ![a] = @ - 1],
             \/ /\ gone' = [gone EXCEPT ![a] = @ + 1] /\ Returns(c)
                /\ UNCHANGED surplus
             \/ /\ surplus' = [surplus EXCEPT ![a] = @ + 1] /\ Goes(c, "funds")
                /\ UNCHANGED gone
      PROVE  MoneyInv'
  <2> HIDE DEF a
  <2>1. wallet' \in Moneys /\ SumFunction(wallet') = SumFunction(wallet) + (0 - 1)
    BY <1>1, <1>4, <1>6, Loses
  <2>2. surplus' \in Moneys /\ gone' \in Moneys
    <3>1. [surplus EXCEPT ![a] = @ + 1] \in Moneys /\ [gone EXCEPT ![a] = @ + 1] \in Moneys
      BY <1>1, <1>4, Gains
    <3> QED BY <1>4, <1>6, <3>1
  <2>3. MoneyTypes' /\ Staked' = Staked /\ Entered' = Entered
    BY <1>3, <1>4, <2>1, <2>2, MoneyTypesKept DEF MoneyInv, Paired, Entered
  <2>4. /\ Cardinality(Entered)' = Cardinality(Entered) + 0
        /\ Cardinality(Staked)' = Cardinality(Staked) + 0
        /\ SumFunction(gone) + 0 = SumFunction(gone)
        /\ SumFunction(surplus) + 0 = SumFunction(surplus)
    BY <2>3, TokenCounts DEF MoneyInv
  <2>5. CASE gone' = [gone EXCEPT ![a] = @ + 1] /\ Returns(c) /\ UNCHANGED surplus
    <3>1. SumFunction(gone') = SumFunction(gone) + 1
      BY <1>1, <1>4, <2>5, Gains
    <3>2. call' = [call EXCEPT ![c] = Free]
      BY <2>5 DEF Returns
    <3>3. \A b \in Agents : surplus'[b] + Way(call[c], b) >= surplus[b] + Way(Free, b)
      BY <1>2, <1>4, <2>5 DEF Moneys
    <3>4. EntriesPaid'
      BY <1>1, <2>2, <3>2, <3>3, PaidAfter
    <3>5. SumFunction(surplus') = SumFunction(surplus) + 0
      BY <2>4, <2>5
    <3> QED BY <2>1, <2>3, <2>4, <3>1, <3>4, <3>5, TokensMove
  <2>6. CASE surplus' = [surplus EXCEPT ![a] = @ + 1] /\ Goes(c, "funds") /\ UNCHANGED gone
    <3>1. SumFunction(surplus') = SumFunction(surplus) + 1
      BY <1>1, <1>4, <2>6, Gains
    <3>2. call' = [call EXCEPT ![c] = q]
      BY <2>6 DEF Goes
    <3>3. \A b \in Agents : /\ surplus'[b] = surplus[b] + (IF b = a THEN 1 ELSE 0)
                            /\ surplus[b] \in Nat
      BY <1>1, <1>4, <2>6 DEF Moneys
    <3>4. \A n \in Nat : \A v \in {0, 1} : (n + v) + 0 >= n + v
      OBVIOUS
    <3>5. ASSUME NEW b \in Agents PROVE surplus'[b] + Way(call[c], b) >= surplus[b] + Way(q, b)
      BY <1>2, <3>3, <3>4
    <3>6. EntriesPaid'
      <4> HIDE DEF q
      <4> QED BY <1>1, <2>2, <3>2, <3>5, PaidAfter
    <3>7. SumFunction(gone') = SumFunction(gone) + 0
      BY <2>4, <2>6
    <3> QED BY <2>1, <2>3, <2>4, <3>1, <3>6, <3>7, TokensMove
  <2> QED BY <1>6, <2>5, <2>6
<1> QED BY <1>5, <1>6 DEF TakeOut

\* The brain gets the token of the one that took it out.
LEMMA FundBrainKeepsMoney ==
  ASSUME MoneyInv, PlayInv', StatusTypes', NEW c \in Callers, FundBrain(c)
  PROVE  MoneyInv'
<1> DEFINE a == Caller(c)
<1>1. call[c] \in CallStates /\ call[c].pc = "funds" /\ Free \in CallStates
  BY DEF MoneyInv, PlayInv, PlayTypes, FundBrain, Calling, CallStates, CallPlaces, Free
<1>2. a \in Agents /\ surplus[a] \in Nat \ {0}
  BY <1>1, PaidIsThere DEF Paying
<1>3. \A b \in Agents : Way(Free, b) = 0 /\ Way(call[c], b) = IF b = a THEN 1 ELSE 0
  BY <1>1 DEF Way, Free, Paying, CallStates, Caller
<1>4. /\ playing' = playing /\ entry' = entry /\ wallet' = wallet
      /\ call' = [call EXCEPT ![c] = Free]
  BY DEF FundBrain, Returns
<1>5. wallet \in Moneys /\ surplus \in Moneys /\ gone \in Moneys
  BY DEF MoneyInv, MoneyTypes
<1>6. CASE UNCHANGED <<gone, surplus>>
  <2>1. UNCHANGED <<money, entry, playing>>
    BY <1>4, <1>6 DEF money
  <2>2. \A b \in Agents : Way(call[c], b) >= Way(Free, b)
    BY <1>3
  <2> QED BY <1>1, <1>4, <2>1, <2>2, QuietCall
<1>7. CASE /\ gone' = [gone EXCEPT ![a] = @ + 1]
           /\ surplus' = [surplus EXCEPT ![a] = @ - 1]
  <2> HIDE DEF a
  <2>1. gone' \in Moneys /\ SumFunction(gone') = SumFunction(gone) + 1
    BY <1>2, <1>5, <1>7, Gains
  <2>2. surplus' \in Moneys /\ SumFunction(surplus') = SumFunction(surplus) + (0 - 1)
    BY <1>2, <1>5, <1>7, Loses
  <2>3. MoneyTypes' /\ Staked' = Staked /\ Entered' = Entered
    BY <1>4, <1>5, <2>1, <2>2, MoneyTypesKept DEF MoneyInv, Paired, Entered
  <2>4. /\ Cardinality(Entered)' = Cardinality(Entered) + 0
        /\ Cardinality(Staked)' = Cardinality(Staked) + 0
        /\ SumFunction(wallet') = SumFunction(wallet) + 0
    BY <1>4, <2>3, TokenCounts DEF MoneyInv
  <2>5. \A b \in Agents : /\ surplus'[b] = IF b = a THEN surplus[b] - 1 ELSE surplus[b]
                          /\ surplus[b] \in Nat
    BY <1>2, <1>5, <1>7 DEF Moneys
  <2>6. \A n \in Nat : (n - 1) + 1 >= n + 0 /\ n + 0 >= n + 0
    OBVIOUS
  <2>7. ASSUME NEW b \in Agents PROVE surplus'[b] + Way(call[c], b) >= surplus[b] + Way(Free, b)
    BY <1>3, <2>5, <2>6
  <2>8. EntriesPaid'
    BY <1>1, <1>4, <2>2, <2>7, PaidAfter
  <2> QED BY <2>1, <2>2, <2>3, <2>4, <2>8, TokensMove
<1> QED BY <1>6, <1>7 DEF FundBrain

\* The entry takes the token of the one that adds it.
LEMMA AddKeepsMoney ==
  ASSUME MoneyInv, PlayInv', StatusTypes', NEW c \in Callers, Add(c)
  PROVE  MoneyInv'
<1> DEFINE a == Caller(c)
           q(pc) == [call[c] EXCEPT !.pc = pc]
<1>1. /\ call[c] \in CallStates /\ call[c].pc = "adding"
      /\ Free \in CallStates /\ q("saves") \in CallStates /\ q("revert") \in CallStates
  BY DEF MoneyInv, PlayInv, PlayTypes, Add, Calling, CallStates, CallPlaces, Free
<1>2. a \in Agents /\ surplus[a] \in Nat \ {0}
  BY <1>1, PaidIsThere DEF Paying
<1>3. PICK r \in {q("saves"), q("revert"), Free} : call' = [call EXCEPT ![c] = r]
  BY DEF Add, Rejected, Goes, Returns
<1>4. /\ r \in CallStates
      /\ \A b \in Agents : Way(r, b) = 0 /\ Way(call[c], b) = IF b = a THEN 1 ELSE 0
  BY <1>1, <1>3 DEF Way, Free, Paying, CallStates, Caller
<1>5. playing' = playing /\ wallet' = wallet /\ gone' = gone
  BY DEF Add
<1>6. wallet \in Moneys /\ surplus \in Moneys /\ gone \in Moneys
  BY DEF MoneyInv, MoneyTypes
<1> HIDE DEF q
<1>7. CASE UNCHANGED <<entry, surplus>>
  <2>1. UNCHANGED <<money, entry, playing>>
    BY <1>5, <1>7 DEF money
  <2>2. \A b \in Agents : Way(call[c], b) >= Way(r, b)
    BY <1>4
  <2> QED BY <1>3, <1>4, <2>1, <2>2, QuietCall
<1>8. CASE /\ entry' = [entry EXCEPT ![a] = "waiting"]
           /\ surplus' = [surplus EXCEPT ![a] = @ - 1]
  <2>1. entry \in Entries /\ entry[a] = "none"
    BY <1>1 DEF MoneyInv, PlayInv, PlayTypes, AddingAlone, Calling
  <2>2. Paired' = Paired
    BY <1>8, <2>1 DEF Paired, Entries
  <2> HIDE DEF a
  <2>3. surplus' \in Moneys /\ SumFunction(surplus') = SumFunction(surplus) + (0 - 1)
    BY <1>2, <1>6, <1>8, Loses
  <2>4. MoneyTypes' /\ Staked' = Staked
    BY <1>5, <1>6, <2>2, <2>3, MoneyTypesKept DEF MoneyInv
  <2>5. Cardinality(Entered)' = Cardinality(Entered) + 1
    BY <1>2, <1>8, <2>1, EntersOne
  <2>6. /\ Cardinality(Staked)' = Cardinality(Staked) + 0
        /\ SumFunction(wallet') = SumFunction(wallet) + 0
        /\ SumFunction(gone') = SumFunction(gone) + 0
    BY <1>5, <2>4, TokenCounts DEF MoneyInv
  <2>7. \A b \in Agents : /\ surplus'[b] = IF b = a THEN surplus[b] - 1 ELSE surplus[b]
                          /\ surplus[b] \in Nat
    BY <1>2, <1>6, <1>8 DEF Moneys
  <2>8. \A n \in Nat : (n - 1) + 1 >= n + 0 /\ n + 0 >= n + 0
    OBVIOUS
  <2>9. ASSUME NEW b \in Agents PROVE surplus'[b] + Way(call[c], b) >= surplus[b] + Way(r, b)
    BY <1>4, <2>7, <2>8
  <2>10. EntriesPaid'
    BY <1>3, <1>4, <2>3, <2>9, PaidAfter
  <2> QED BY <2>3, <2>4, <2>5, <2>6, <2>10, TokensMove
<1> QED BY <1>7, <1>8 DEF Add

\* The stake of a waiting entry goes back, or stays with the platform.
LEMMA LeaveQueueKeepsMoney ==
  ASSUME MoneyInv, PlayInv', StatusTypes', NEW c \in Callers, LeaveQueue(c)
  PROVE  MoneyInv'
<1> DEFINE a == Caller(c)
           q == [call[c] EXCEPT !.pc = "freeing"]
<1>1. /\ a \in Agents /\ call[c] \in CallStates /\ call[c].pc = "leaving"
      /\ Free \in CallStates /\ q \in CallStates
  BY DEF MoneyInv, PlayInv, PlayTypes, LeaveQueue, Calling, CallStates, CallPlaces, Free
<1>2. PICK r \in {q, Free} : call' = [call EXCEPT ![c] = r]
  BY DEF LeaveQueue, Goes, Returns
<1>3. r \in CallStates /\ \A b \in Agents : Way(r, b) = 0 /\ Way(call[c], b) = 0
  BY <1>1, <1>2 DEF Way, Free, Paying, CallStates
<1>4. playing' = playing /\ gone' = gone
  <2>1. entry[a] # "waiting" => gone' = gone
    BY DEF LeaveQueue, money
  <2> QED BY <2>1 DEF LeaveQueue
<1>5. wallet \in Moneys /\ surplus \in Moneys /\ gone \in Moneys
  BY DEF MoneyInv, MoneyTypes
<1> HIDE DEF q
<1>6. CASE entry[a] # "waiting"
  <2>1. UNCHANGED <<money, entry, playing>>
    BY <1>4, <1>6 DEF LeaveQueue
  <2>2. \A b \in Agents : Way(call[c], b) >= Way(r, b)
    BY <1>3
  <2> QED BY <1>2, <1>3, <2>1, <2>2, QuietCall
<1>7. ASSUME entry[a] = "waiting", entry' = [entry EXCEPT ![a] = "none"],
             \/ wallet' = [wallet EXCEPT ![a] = @ + 1] /\ surplus' = surplus
             \/ surplus' = [surplus EXCEPT ![a] = @ + 1] /\ wallet' = wallet
      PROVE  MoneyInv'
  <2>1. entry \in Entries
    BY DEF MoneyInv, PlayInv, PlayTypes
  <2>2. Paired' = Paired
    BY <1>7, <2>1 DEF Paired, Entries
  <2> HIDE DEF a
  <2>3. /\ [surplus EXCEPT ![a] = @ + 1] \in Moneys /\ [wallet EXCEPT ![a] = @ + 1] \in Moneys
        /\ SumFunction([surplus EXCEPT ![a] = @ + 1]) = SumFunction(surplus) + 1
        /\ SumFunction([wallet EXCEPT ![a] = @ + 1]) = SumFunction(wallet) + 1
    BY <1>1, <1>5, Gains
  <2>4. surplus' \in Moneys /\ wallet' \in Moneys
    BY <1>5, <1>7, <2>3
  <2>5. MoneyTypes' /\ Staked' = Staked
    BY <1>4, <1>5, <2>2, <2>4, MoneyTypesKept DEF MoneyInv
  <2>6. Cardinality(Entered)' = Cardinality(Entered) + (0 - 1)
    BY <1>1, <1>7, <2>1, LeavesOne
  <2>7. /\ Cardinality(Staked)' = Cardinality(Staked) + 0
        /\ SumFunction(gone') = SumFunction(gone) + 0
        /\ SumFunction(wallet) + 0 = SumFunction(wallet)
        /\ SumFunction(surplus) + 0 = SumFunction(surplus)
    BY <1>4, <2>5, TokenCounts DEF MoneyInv
  <2>8. EntriesPaid'
    <3>1. \A b \in Agents : /\ surplus[b] \in Nat
                            /\ surplus'[b] \in {surplus[b], surplus[b] + 1}
      BY <1>1, <1>5, <1>7 DEF Moneys
    <3>2. \A n \in Nat : n + 0 >= n + 0 /\ (n + 1) + 0 >= n + 0
      OBVIOUS
    <3>3. ASSUME NEW b \in Agents PROVE surplus'[b] + Way(call[c], b) >= surplus[b] + Way(r, b)
      BY <1>3, <3>1, <3>2
    <3> QED BY <1>2, <1>3, <2>4, <3>3, PaidAfter
  <2>9. CASE wallet' = [wallet EXCEPT ![a] = @ + 1] /\ surplus' = surplus
    <3>1. SumFunction(wallet') = SumFunction(wallet) + 1
      BY <2>3, <2>9
    <3>2. SumFunction(surplus') = SumFunction(surplus) + 0
      BY <2>7, <2>9
    <3> QED BY <2>5, <2>6, <2>7, <2>8, <3>1, <3>2, TokensMove
  <2>10. CASE surplus' = [surplus EXCEPT ![a] = @ + 1] /\ wallet' = wallet
    <3>1. SumFunction(surplus') = SumFunction(surplus) + 1
      BY <2>3, <2>10
    <3>2. SumFunction(wallet') = SumFunction(wallet) + 0
      BY <2>7, <2>10
    <3> QED BY <2>5, <2>6, <2>7, <2>8, <3>1, <3>2, TokensMove
  <2> QED BY <1>7, <2>9, <2>10
<1> QED BY <1>6, <1>7 DEF LeaveQueue

\* The steps of a caller that move no token.
LEMMA QuietCallsKeepMoney ==
  ASSUME MoneyInv, PlayInv', StatusTypes', NEW c \in Callers,
         Mark(c) \/ Enter(c) \/ Saves(c) \/ Revert(c) \/ Frees(c)
  PROVE  MoneyInv'
<1> DEFINE q(pc) == [call[c] EXCEPT !.pc = pc]
<1>1. /\ call[c] \in CallStates
      /\ \A pc \in {"enter", "adding", "revert"} : q(pc) \in CallStates
      /\ Free \in CallStates
  BY DEF MoneyInv, PlayInv, PlayTypes, CallStates, CallPlaces, Free
<1>2. PICK r \in {q("enter"), q("adding"), q("revert"), Free} :
        /\ call' = [call EXCEPT ![c] = r]
        /\ r.pc \in Paying => call[c].pc \in Paying /\ r.agent = call[c].agent
  <2>1. CASE Mark(c) \/ Enter(c)
    <3>1. call[c].pc \in Paying
      BY <2>1 DEF Mark, Enter, Calling, Paying
    <3>2. \A r \in {q("enter"), q("adding"), q("revert")} : r.agent = call[c].agent
      BY <1>1 DEF CallStates
    <3>3. Free.pc \notin Paying
      BY DEF Free, Paying
    <3> HIDE DEF q
    <3>4. \E r \in {q("enter"), q("adding"), q("revert"), Free} : call' = [call EXCEPT ![c] = r]
      BY <2>1 DEF Mark, Enter, Rejected, Goes, Returns, q
    <3> QED BY <3>1, <3>2, <3>3, <3>4
  <2>2. CASE Saves(c) \/ Revert(c) \/ Frees(c)
    <3>1. call' = [call EXCEPT ![c] = Free]
      BY <2>2 DEF Saves, Revert, Frees, Returns
    <3>2. Free.pc \notin Paying
      BY DEF Free, Paying
    <3> QED BY <3>1, <3>2
  <2> QED BY <2>1, <2>2
<1>3. r \in CallStates
  BY <1>1, <1>2
<1>4. \A b \in Agents : Way(call[c], b) >= Way(r, b)
  BY <1>2 DEF Way
<1>5. UNCHANGED <<money, entry, playing>>
  BY DEF Mark, Enter, Saves, Revert, Frees, money
<1> QED BY <1>2, <1>3, <1>4, <1>5, QuietCall

-----------------------------------------------------------------------------
(* The other steps *)

\* The callers and the surplus are left alone.
LEMMA OthersMove ==
  ASSUME MoneyInv, PlayInv', StatusTypes', MoneyTypes', call' = call, surplus' = surplus,
         gone' = gone, NEW dw \in Int, NEW de \in Int, NEW dk \in Int,
         SumFunction(wallet') = SumFunction(wallet) + dw,
         Cardinality(Entered)' = Cardinality(Entered) + de,
         Cardinality(Staked)' = Cardinality(Staked) + dk,
         dw + de + 2 * dk = 0
  PROVE  MoneyInv'
<1>1. EntriesPaid'
  BY DEF MoneyInv, EntriesPaid, Caller
<1>2. SumFunction(surplus') = SumFunction(surplus) + 0 /\ SumFunction(gone') = SumFunction(gone) + 0
  BY TokenCounts DEF MoneyInv
<1> DEFINE z == 0
<1>3. z \in Int /\ dw + z + z + de + 2 * dk = 0
  OBVIOUS
<1>4. SumFunction(surplus') = SumFunction(surplus) + z /\ SumFunction(gone') = SumFunction(gone) + z
  BY <1>2
<1> HIDE DEF z
<1> QED BY <1>1, <1>3, <1>4, TokensMove

LEMMA QuietStep ==
  ASSUME MoneyInv, PlayInv', StatusTypes', UNCHANGED <<call, money>>,
         Entered' = Entered, Staked' = Staked, Paired' = {} \/ IsPair(Paired')
  PROVE  MoneyInv'
<1>1. wallet' = wallet /\ surplus' = surplus /\ gone' = gone
  BY DEF money
<1>2. MoneyTypes'
  BY <1>1 DEF MoneyInv, MoneyTypes
<1>3. /\ SumFunction(wallet') = SumFunction(wallet) + 0
      /\ Cardinality(Entered)' = Cardinality(Entered) + 0
      /\ Cardinality(Staked)' = Cardinality(Staked) + 0
  BY <1>1, TokenCounts DEF MoneyInv
<1> QED BY <1>1, <1>2, <1>3, OthersMove

LEMMA PairsKeepsMoney ==
  ASSUME MoneyInv, PlayInv', StatusTypes', NEW a \in Agents, NEW b \in Agents, a # b,
         Pairs({a, b})
  PROVE  MoneyInv'
<1>1. entry \in Entries
  BY DEF MoneyInv, PlayInv, PlayTypes
<1>2. Entered' = Entered /\ Paired' = {a, b}
  BY <1>1 DEF Pairs, Entered, Paired, Entries
<1>3. IsPair(Paired')
  BY <1>2 DEF IsPair
<1>4. UNCHANGED <<call, money>> /\ Staked' = Staked
  BY DEF Pairs, Staked
<1> QED BY <1>2, <1>3, <1>4, QuietStep

\* Two entries less, one match for stakes more.
LEMMA BeginsKeepsMoney ==
  ASSUME MoneyInv, PlayInv', StatusTypes', Begins
  PROVE  MoneyInv'
<1>1. entry \in Entries
  BY DEF MoneyInv, PlayInv, PlayTypes
<1>2. UNCHANGED <<call, money>>
  BY DEF Begins
<1>3. CASE \E a \in Paired : Busy(a)
  <2>1. entry' = [a \in Agents |-> IF a \in Paired THEN "waiting" ELSE entry[a]] /\ playing' = playing
    BY <1>3 DEF Begins
  <2>2. Entered' = Entered /\ Paired' = {} /\ Staked' = Staked
    BY <1>1, <2>1 DEF Entered, Paired, Entries, Staked
  <2> QED BY <1>2, <2>2, QuietStep
<1>4. CASE ~ \E a \in Paired : Busy(a)
  <2> DEFINE g == [team |-> Paired, staked |-> TRUE]
             E == Entered'
             n == Cardinality(E)
             m == Cardinality(Entered)
  <2>1. /\ entry' = [a \in Agents |-> IF a \in Paired THEN "none" ELSE entry[a]]
        /\ playing' = playing \cup {g} /\ Paired # {}
    BY <1>4 DEF Begins
  <2>2. PICK x \in Agents, y \in Agents : x # y /\ Paired = {x, y}
    BY <2>1 DEF MoneyInv, MoneyTypes, IsPair
  <2>3. /\ Entered = (E \cup {x}) \cup {y} /\ x \notin E /\ y \notin E \cup {x}
        /\ IsFiniteSet(E)
    <3>1. \A a \in Agents : a \in E <=> (a \notin Paired /\ entry[a] # "none")
      BY <2>1 DEF Entered
    <3>2. \A a \in Paired : entry[a] # "none"
      BY DEF Paired
    <3>3. E \subseteq Agents
      BY DEF Entered
    <3>4. E \subseteq Agents => IsFiniteSet(E)
      BY AgentsFinite, FS_Subset
    <3>5. Entered = (E \cup {x}) \cup {y}
      <4> HIDE DEF E
      <4> QED BY <2>2, <3>1, <3>2, <3>3 DEF Entered
    <3> QED BY <2>2, <3>1, <3>3, <3>4, <3>5
  <2>4. n \in Nat /\ m = (n + 1) + 1
    <3> HIDE DEF E
    <3>1. IsFiniteSet(E \cup {x}) /\ Cardinality(E \cup {x}) = n + 1
      BY <2>3, FS_AddElement
    <3>2. Cardinality((E \cup {x}) \cup {y}) = (n + 1) + 1
      <4> DEFINE F == E \cup {x}
      <4> HIDE DEF F
      <4> QED BY <2>3, <3>1, FS_AddElement DEF F
    <3> QED BY <2>3, <3>2, FS_CardinalityType
  <2>5. n = m + (0 - 2)
    <3> HIDE DEF n, m
    <3> QED BY ONLY <2>4
  <2>6. Staked' = Staked \cup {g} /\ g \notin Staked
    <3>1. g \notin playing
      BY <1>4, <2>1 DEF Busy
    <3>2. g.staked
      OBVIOUS
    <3> HIDE DEF g
    <3> QED BY <2>1, <3>1, <3>2 DEF Staked
  <2>7. Cardinality(Staked)' = Cardinality(Staked) + 1 /\ IsFiniteSet(Staked')
    <3> HIDE DEF g
    <3>1. IsFiniteSet(Staked)
      BY DEF MoneyInv, MoneyTypes
    <3> QED BY <2>6, <3>1, FS_AddElement
  <2>8. MoneyTypes'
    <3>1. wallet' \in Moneys /\ surplus' \in Moneys /\ gone' \in Moneys
      BY <1>2 DEF MoneyInv, MoneyTypes, money
    <3>2. Paired' = {}
      BY <1>1, <2>1 DEF Paired, Entries
    <3>3. IsPair(g.team)
      BY <2>2 DEF IsPair
    <3>4. \A h \in Staked' : IsPair(h.team)
      <4> HIDE DEF g
      <4> QED BY <2>6, <3>3 DEF MoneyInv, MoneyTypes
    <3>5. (\A h \in Staked : IsPair(h.team))' <=> \A h \in Staked' : IsPair(h.team)
      BY DEF IsPair
    <3> QED BY <2>7, <3>1, <3>2, <3>4, <3>5 DEF MoneyTypes
  <2>9. SumFunction(wallet') = SumFunction(wallet) + 0
    BY <1>2, TokenCounts DEF MoneyInv, money
  <2>10. surplus' = surplus /\ gone' = gone /\ call' = call
    BY <1>2 DEF money
  <2> QED BY <2>5, <2>7, <2>8, <2>9, <2>10, OthersMove
<1> QED BY <1>3, <1>4

\* The pot of a match for stakes goes to one or to both.
LEMMA EndsKeepsMoney ==
  ASSUME MoneyInv, PlayInv', StatusTypes', NEW g \in playing, Ends(g)
  PROVE  MoneyInv'
<1>1. UNCHANGED <<surplus, gone, entry, call>> /\ playing' = playing \ {g}
  BY DEF Ends
<1>2. Entered' = Entered /\ Paired' = Paired
  BY <1>1 DEF Entered, Paired
<1>3. Paired' = {} \/ IsPair(Paired')
  BY <1>2 DEF MoneyInv, MoneyTypes
<1>4. wallet \in Moneys /\ surplus \in Moneys /\ gone \in Moneys
  BY DEF MoneyInv, MoneyTypes
<1>5. CASE ~ g.staked
  <2>1. wallet' = wallet
    BY <1>5 DEF Ends
  <2>2. Staked' = Staked
    BY <1>1, <1>5 DEF Staked
  <2> QED BY <1>1, <1>2, <1>3, <2>1, <2>2, QuietStep DEF money
<1>6. CASE g.staked
  <2>1. g \in Staked /\ Staked' = Staked \ {g} /\ IsFiniteSet(Staked)
    BY <1>1, <1>6 DEF Staked, MoneyInv, MoneyTypes
  <2>2. IsFiniteSet(Staked') /\ Cardinality(Staked)' = Cardinality(Staked) + (0 - 1)
    <3> DEFINE n == Cardinality(Staked)
    <3>1. n \in Nat
      BY <2>1, FS_CardinalityType
    <3>2. Cardinality(Staked') = n - 1 /\ IsFiniteSet(Staked')
      BY <2>1, FS_RemoveElement
    <3>3. n - 1 = n + (0 - 1)
      <4> HIDE DEF n
      <4> QED BY ONLY <3>1
    <3> QED BY <3>2, <3>3
  <2>3. PICK x \in Agents, y \in Agents : x # y /\ g.team = {x, y}
    BY <2>1 DEF MoneyInv, MoneyTypes, IsPair
  <2>4. wallet' \in Moneys /\ SumFunction(wallet') = SumFunction(wallet) + 2
    <3>1. ASSUME NEW w \in g.team, wallet' = [wallet EXCEPT ![w] = @ + 2]
          PROVE  wallet' \in Moneys /\ SumFunction(wallet') = SumFunction(wallet) + 2
      <4>1. w \in Agents
        BY <2>3
      <4>2. \A k \in Nat : /\ [wallet EXCEPT ![w] = @ + k] \in Moneys
                           /\ SumFunction([wallet EXCEPT ![w] = @ + k]) = SumFunction(wallet) + k
        BY ONLY <1>4, <4>1, Gains
      <4>3. 2 \in Nat
        OBVIOUS
      <4>4. /\ [wallet EXCEPT ![w] = @ + 2] \in Moneys
            /\ SumFunction([wallet EXCEPT ![w] = @ + 2]) = SumFunction(wallet) + 2
        BY ONLY <4>2, <4>3, Zenon
      <4> QED BY <3>1, <4>4
    <3>2. ASSUME wallet' = [a \in Agents |-> IF a \in g.team THEN wallet[a] + 1 ELSE wallet[a]]
          PROVE  wallet' \in Moneys /\ SumFunction(wallet') = SumFunction(wallet) + 2
      <4>1. /\ wallet' \in Moneys /\ wallet'[x] = wallet[x] + 1 /\ wallet'[y] = wallet[y] + 1
            /\ \A a \in Agents \ {x, y} : wallet'[a] = wallet[a]
        BY <1>4, <2>3, <3>2 DEF Moneys
      <4> DEFINE f == wallet
                 h == wallet'
                 n == SumFunction(f)
                 m == SumFunction(h)
                 u == f[x]
                 v == f[y]
      <4>2. m + u + v = n + h[x] + h[y]
        <5>1. IsFiniteSet(Agents) /\ f \in [Agents -> Nat] /\ h \in [Agents -> Nat]
          BY <1>4, <4>1, AgentsFinite DEF Moneys
        <5>2. y \in Agents \ {x} /\ \A a \in Agents \ {x, y} : h[a] = f[a]
          BY <2>3, <4>1
        <5> HIDE DEF f, h
        <5> QED BY <5>1, <5>2, SumChangesTwo
      <4>3. u \in Nat /\ v \in Nat /\ n \in Nat /\ m \in Nat
        BY <1>4, <4>1, MoneySum DEF Moneys
      <4>4. m + u + v = n + (u + 1) + (v + 1)
        BY <4>1, <4>2
      <4>5. m = n + 2
        <5> HIDE DEF n, m, u, v
        <5> QED BY ONLY <4>3, <4>4
      <4> QED BY <4>1, <4>5
    <3> QED BY <1>6, <3>1, <3>2 DEF Ends
  <2>5. MoneyTypes'
    <3>1. \A h \in Staked' : IsPair(h.team)
      BY <2>1 DEF MoneyInv, MoneyTypes
    <3>2. (\A h \in Staked : IsPair(h.team))' <=> \A h \in Staked' : IsPair(h.team)
      BY DEF IsPair
    <3> QED BY <1>1, <1>3, <1>4, <2>2, <2>4, <3>1, <3>2 DEF MoneyTypes
  <2>6. Cardinality(Entered)' = Cardinality(Entered) + 0
    BY <1>2, TokenCounts DEF MoneyInv
  <2> QED BY <1>1, <2>2, <2>4, <2>5, <2>6, OthersMove
<1> QED BY <1>5, <1>6

LEMMA StatusTyped == ASSUME PlayInv, StatusTypes, [ServicesNext]_serviceVars PROVE StatusTypes'
<1>1. CASE UNCHANGED playVars
  BY <1>1 DEF playVars, StatusTypes, ticks
<1>2. CASE PlayNext
  <2> DEFINE Values == {"idle", "queued", "in_match", "disabled"}
  <2>1. status \in [Agents -> Values] /\ recent \subseteq Agents /\ loop \in BOOLEAN
        /\ count \in {"none", "asked", "some", "zero"}
    BY DEF StatusTypes
  <2>2. \A c \in Callers : call[c].pc # "free" => Caller(c) \in Agents
    BY DEF PlayInv, PlayTypes
  <2>3. Managed \subseteq Agents /\ Humans \subseteq Agents /\ Calls \subseteq Callers
    BY DEF Agents, Callers
  <2>4. ASSUME NEW c \in Callers, CallStep(c) PROVE StatusTypes'
    <3>1. loop' = loop /\ count' = count
      BY <2>4 DEF CallStep, Transfer, Mark, Enter, Add, Saves, Revert, LeaveQueue, Frees, TakeOut,
                  FundBrain, ticks
    <3>2. recent' \in {recent, recent \cup {Caller(c)}} /\ Caller(c) \in Agents
      BY <2>2, <2>4 DEF CallStep, Transfer, Mark, Enter, Add, Saves, Revert, LeaveQueue, Frees,
                        TakeOut, FundBrain, Calling
    <3>3. status' = status \/ \E v \in {"idle", "queued"} : status' = [status EXCEPT ![Caller(c)] = v]
      BY <2>4 DEF CallStep, Transfer, Mark, Enter, Add, Saves, Revert, LeaveQueue, Frees, TakeOut,
                  FundBrain, Saved
    <3> QED BY <2>1, <3>1, <3>2, <3>3 DEF StatusTypes
  <2>5. ASSUME NEW c \in Calls,
               \/ \E m \in Managed : ManagedJoins(c, m)
               \/ \E h \in Humans : HumanJoins(c, h)
               \/ \E a \in Agents : Leaves(c, a) \/ TakesOut(c, a)
        PROVE StatusTypes'
    <3>1. recent' = recent /\ loop' = loop /\ count' \in {count, "asked"}
      BY <2>5 DEF ManagedJoins, HumanJoins, Leaves, TakesOut, SwitchesOff, ticks
    <3>2. status' = status \/ \E h \in Agents : status' = [status EXCEPT ![h] = "idle"]
      BY <2>3, <2>5 DEF ManagedJoins, HumanJoins, Leaves, TakesOut, Saved
    <3> QED BY <2>1, <3>1, <3>2 DEF StatusTypes
  <2>6. ASSUME NEW a \in Agents, CoolsDown(a) \/ Exhibits(a) PROVE StatusTypes'
    BY <2>1, <2>6 DEF StatusTypes, CoolsDown, Exhibits, Saved, ticks
  <2>7. ASSUME NEW m \in Managed, Switch(m) \/ Deletes(m) PROVE StatusTypes'
    BY <2>1, <2>3, <2>7 DEF StatusTypes, Switch, SwitchesOn, SwitchesOff, Deletes, Saved, ticks
  <2>8. ASSUME NEW a \in Agents, NEW b \in Agents, Pairs({a, b}) PROVE StatusTypes'
    BY <2>1, <2>8 DEF StatusTypes, Pairs, ticks
  <2>9. ASSUME TickStep \/ Counts PROVE StatusTypes'
    BY <2>1, <2>9 DEF StatusTypes, TickStep, TickReads, TickCounts, TickStops, TickChecks, TickTakes,
                      Counts
  <2>10. ASSUME Begins PROVE StatusTypes'
    BY <2>1, <2>10 DEF StatusTypes, Begins, ticks
  <2>11. ASSUME NEW g \in playing, Ends(g) PROVE StatusTypes'
    BY <2>1, <2>11 DEF StatusTypes, Ends, ticks
  <2> QED BY <1>2, <2>4, <2>5, <2>6, <2>7, <2>8, <2>9, <2>10, <2>11 DEF PlayNext
<1> QED BY <1>1, <1>2 DEF ServicesNext, serviceVars

LEMMA MoneyInvNext == ASSUME MoneyInv, [ServicesNext]_serviceVars PROVE MoneyInv'
<1>1. PlayInv'
  BY PlayInvNext DEF MoneyInv
<1>2. StatusTypes'
  BY StatusTyped DEF MoneyInv
<1>3. Paired = {} \/ IsPair(Paired)
  BY DEF MoneyInv, MoneyTypes
<1>4. ASSUME UNCHANGED <<call, money, entry>>, Staked' = Staked PROVE MoneyInv'
  <2>1. Entered' = Entered /\ Paired' = Paired
    BY <1>4 DEF Entered, Paired
  <2> QED BY <1>1, <1>2, <1>3, <1>4, <2>1, QuietStep
<1>5. CASE UNCHANGED playVars
  BY <1>4, <1>5 DEF playVars, money, Staked
<1>6. CASE PlayNext
  <2>1. ASSUME NEW c \in Callers, CallStep(c) PROVE MoneyInv'
    BY <1>1, <1>2, <2>1, TransferKeepsMoney, TakeOutKeepsMoney, FundBrainKeepsMoney, AddKeepsMoney,
       LeaveQueueKeepsMoney, QuietCallsKeepMoney DEF CallStep
  <2>2. ASSUME NEW c \in Callers, NEW pc \in {"transfer", "leaving", "takes"}, NEW a \in Agents,
               call' = [call EXCEPT ![c] = [pc |-> pc, agent |-> a]],
               UNCHANGED <<money, entry, playing>>
        PROVE  MoneyInv'
    <3> DEFINE r == [pc |-> pc, agent |-> a]
    <3>1. r \in CallStates
      BY DEF CallStates, CallPlaces
    <3>2. \A b \in Agents : Way(call[c], b) >= Way(r, b)
      BY DEF Way, Paying
    <3> HIDE DEF r
    <3>3. call' = [call EXCEPT ![c] = r]
      BY <2>2 DEF r
    <3> QED BY <1>1, <1>2, <2>2, <3>1, <3>2, <3>3, QuietCall
  <2>3. ASSUME NEW c \in Calls,
               \/ \E m \in Managed : ManagedJoins(c, m)
               \/ \E h \in Humans : HumanJoins(c, h)
               \/ \E a \in Agents : Leaves(c, a) \/ TakesOut(c, a)
        PROVE MoneyInv'
    <3>1. \E a \in Agents, pc \in {"transfer", "leaving", "takes"} :
            call' = [call EXCEPT ![c] = [pc |-> pc, agent |-> a]]
      BY <2>3 DEF ManagedJoins, HumanJoins, Leaves, TakesOut, Agents
    <3>2. UNCHANGED <<money, entry, playing>>
      BY <2>3 DEF ManagedJoins, HumanJoins, Leaves, TakesOut
    <3> QED BY <2>2, <3>1, <3>2 DEF Callers
  <2>4. ASSUME TickStep PROVE MoneyInv'
    <3>1. UNCHANGED <<money, entry, playing>>
      BY <2>4 DEF TickStep, TickReads, TickCounts, TickStops, TickChecks, TickTakes
    <3>2. CASE call' = call
      BY <1>4, <3>1, <3>2 DEF Staked
    <3>3. CASE call' # call
      <4>1. \E m \in tick.todo : call' = [call EXCEPT ![Autoplay] = [pc |-> "transfer", agent |-> m]]
        BY <2>4, <3>3 DEF TickStep, TickReads, TickCounts, TickStops, TickChecks, TickTakes
      <4>2. tick.todo \subseteq Agents /\ Autoplay \in Callers
        BY DEF MoneyInv, PlayInv, PlayTypes, TickStates, Agents, Callers
      <4> QED BY <2>2, <3>1, <4>1, <4>2
    <3> QED BY <3>2, <3>3
  <2>5. ASSUME \/ Counts \/ \E a \in Agents : CoolsDown(a)
               \/ \E m \in Managed : Switch(m) \/ Deletes(m)
        PROVE  MoneyInv'
    BY <1>4, <2>5 DEF Counts, CoolsDown, Switch, Deletes, Staked
  <2>6. ASSUME NEW a \in Agents, Exhibits(a) PROVE MoneyInv'
    <3> DEFINE g == [team |-> {a}, staked |-> FALSE]
    <3>1. playing' = playing \cup {g} /\ ~ g.staked
      BY <2>6 DEF Exhibits
    <3>2. Staked' = Staked
      <4> HIDE DEF g
      <4> QED BY <3>1 DEF Staked
    <3> QED BY <1>4, <2>6, <3>2 DEF Exhibits
  <2> QED BY <1>1, <1>2, <1>6, <2>1, <2>3, <2>4, <2>5, <2>6, PairsKeepsMoney, BeginsKeepsMoney,
             EndsKeepsMoney DEF PlayNext
<1> QED BY <1>5, <1>6 DEF ServicesNext, serviceVars

LEMMA MoneyInvInit == ASSUME NEW cast, PlayInit(cast) PROVE MoneyInv
<1>1. PlayInv
  BY PlayInvInit
<1>2. StatusTypes
  BY DEF PlayInit, StatusTypes
<1>3. /\ Entered = {} /\ Staked = {} /\ Paired = {}
      /\ \A a \in Agents : OnWay(a) = {}
  BY DEF PlayInit, Entered, Staked, Paired, OnWay, Paying, Free
<1>4. wallet \in Moneys /\ surplus \in Moneys /\ gone \in Moneys
  BY PlayAssumption DEF PlayInit, Moneys
<1>5. MoneyTypes
  BY <1>3, <1>4, FS_EmptySet DEF MoneyTypes
<1>6. EntriesPaid
  <2>1. \A a \in Agents : surplus[a] = 0
    BY DEF PlayInit
  <2>2. Cardinality({}) = 0 /\ 0 <= 0
    BY FS_EmptySet
  <2> QED BY <1>3, <2>1, <2>2, PaidIsOnWay
<1>7. StakesKept
  <2> DEFINE n == Cardinality(Agents)
  <2>1. SumFunction(wallet) = n * Funds
    <3>1. IsFiniteSet(Agents) /\ wallet \in [Agents -> Nat] /\ Funds \in Nat
      BY <1>4, AgentsFinite, PlayAssumption DEF Moneys
    <3>2. \A a \in Agents : wallet[a] = IF a \in Agents THEN Funds ELSE 0
      BY DEF PlayInit
    <3> QED BY ONLY <3>1, <3>2, SumOfEqual
  <2>2. SumFunction(surplus) = 0 /\ SumFunction(gone) = 0
    <3>1. /\ IsFiniteSet(Agents) /\ surplus \in [Agents -> Nat] /\ gone \in [Agents -> Nat]
          /\ \A a \in Agents : surplus[a] = 0 /\ gone[a] = 0
      BY <1>4, AgentsFinite DEF Moneys, PlayInit
    <3> QED BY ONLY <3>1, SumOfNothing
  <2>3. Cardinality(Entered) = 0 /\ Cardinality(Staked) = 0
    BY <1>3, FS_EmptySet
  <2>4. n \in Nat /\ Funds \in Nat
    BY AgentsFinite, PlayAssumption
  <2>5. Tokens = n * Funds + 0 + 0 + 0 + 2 * 0
    BY <2>1, <2>2, <2>3 DEF Tokens
  <2>6. n * Funds + 0 + 0 + 0 + 2 * 0 = Funds * n
    <3> HIDE DEF n
    <3> QED BY ONLY <2>4
  <2>7. Tokens = Funds * Cardinality(Agents)
    BY <2>5, <2>6
  <2> QED BY <2>7, Zenon DEF StakesKept, Tokens, Entered, Staked
<1> QED BY <1>1, <1>2, <1>5, <1>6, <1>7 DEF MoneyInv

-----------------------------------------------------------------------------
(* The theorems *)

LEMMA MoneyInvHolds == ServicesSpec => []MoneyInv
<1>1. ServicesInit => MoneyInv
  BY MoneyInvInit DEF ServicesInit
<1>2. MoneyInv /\ [ServicesNext]_serviceVars => MoneyInv'
  BY MoneyInvNext
<1> QED BY <1>1, <1>2, PTL DEF ServicesSpec

\* No more entries and deposits are on their way than were paid.
THEOREM EntriesPaidHolds == ServicesSpec => []EntriesPaid
<1>1. MoneyInv => EntriesPaid
  BY DEF MoneyInv
<1> QED BY <1>1, MoneyInvHolds, PTL

\* A token is always in one place.
THEOREM StakesKeptHolds == ServicesSpec => []StakesKept
<1>1. MoneyInv => StakesKept
  BY DEF MoneyInv
<1> QED BY <1>1, MoneyInvHolds, PTL

\* No agent has less than nothing, whatever is on its way, and no turn is tried more
\* often than it may be.
THEOREM ServicesAreTyped == ServicesSpec => []ServicesTypeOK
<1>1. MoneyInv => PlayTypeOK
  <2> SUFFICES ASSUME MoneyInv PROVE PlayTypeOK
    OBVIOUS
  <2>1. \A a \in Agents : {wallet[a], surplus[a], gone[a]} \subseteq Nat
    BY DEF MoneyInv, MoneyTypes, Moneys
  <2>2. tick.todo \subseteq Managed /\ entry \in [Agents -> {"none", "waiting", "pairing"}]
    BY DEF MoneyInv, PlayInv, PlayTypes, TickStates, Entries
  <2> QED BY <2>1, <2>2 DEF MoneyInv, StatusTypes, PlayTypeOK
<1>2. PlayTypeOK /\ SocketTypeOK => ServicesTypeOK
  BY DEF ServicesTypeOK
<1> QED BY <1>1, <1>2, MoneyInvHolds, SocketIsTyped, PTL
-----------------------------------------------------------------------------
(* Bets: the inductive invariant *)

SlipStates == {"free", "transfer", "refused", "create", "placed"}
SlipTypes  == [pc : SlipStates, user : Bettors \cup {None}, on : Contestants \cup {None}, amount : Nat]

BetTypes ==
  /\ slip \in [Slips -> SlipTypes] /\ pot \in Nat
  /\ \A b \in Slips : slip[b].pc # "free" => slip[b].user \in Bettors
  /\ matchStatus = "cancelled" => winner = None

\* The platform has the stakes of the bets that were made or are about to be.
InPotOf(s) == IF s.pc \in {"create", "placed"} THEN s.amount ELSE 0
InPot      == [b \in Slips |-> InPotOf(slip[b])]
BetInv     == BetTypes /\ pot = SumFunction(InPot)

Stake == [b \in Slips |-> slip[b].amount]

LEMMA SlipsFinite == IsFiniteSet(Slips)
BY BettingAssumption, FS_Interval DEF Slips

LEMMA InPotTypes == ASSUME BetTypes PROVE InPot \in [Slips -> Nat] /\ Stake \in [Slips -> Nat]
<1>1. \A b \in Slips : slip[b].amount \in Nat
  BY DEF BetTypes, SlipTypes
<1> QED BY <1>1 DEF InPot, InPotOf, Stake

\* The sum of some bets is the number of units staked on them.
LEMMA BetsSum ==
  ASSUME BetTypes, NEW B \in SUBSET Slips
  PROVE  Sum(B) = Cardinality(Units(Stake, B)) /\ Sum(B) \in Nat
<1> DEFINE g == [b \in B |-> slip[b].amount]
<1>1. Stake \in [Slips -> Nat]
  BY InPotTypes
<1>2. g \in [B -> Nat] /\ \A b \in B : g[b] = Stake[b]
  BY DEF BetTypes, SlipTypes, Stake
<1>3. Sum(B) = SumFunction(g)
  BY DEF Sum
<1> HIDE DEF g
<1> QED BY <1>1, <1>2, <1>3, SlipsFinite, SumOfPart

LEMMA MoreBets ==
  ASSUME BetTypes, NEW B \in SUBSET Slips, NEW A \in SUBSET B
  PROVE  Sum(A) <= Sum(B)
<1>1. A \in SUBSET Slips
  OBVIOUS
<1>2. Units(Stake, A) \subseteq Units(Stake, B)
  BY DEF Units
<1>3. IsFiniteSet(Units(Stake, B))
  BY InPotTypes, SlipsFinite, UnitsAreFinite
<1>4. Cardinality(Units(Stake, A)) <= Cardinality(Units(Stake, B))
  BY <1>2, <1>3, FS_Subset
<1> QED BY <1>1, <1>4, BetsSum

\* What the users have bet is what was bet.
LEMMA UsersBet ==
  ASSUME BetTypes, NEW B \in SUBSET Bets, NEW s \in [Bettors -> Nat],
         \A u \in Bettors : s[u] = Sum({b \in B : slip[b].user = u})
  PROVE  SumFunction(s) = Sum(B)
<1> DEFINE f == [b \in B |-> slip[b].amount]
           of == [b \in B |-> slip[b].user]
<1>1. B \in SUBSET Slips /\ IsFiniteSet(B)
  BY SlipsFinite, FS_Subset DEF Bets
<1>2. f \in [B -> Nat] /\ \A b \in B : f[b] = Stake[b]
  BY <1>1 DEF BetTypes, SlipTypes, Stake
<1>3. \A b \in B : of[b] \in Bettors /\ of[b] = slip[b].user
  BY <1>1 DEF BetTypes, Bets
<1>4. Sum(B) = SumFunction(f)
  BY DEF Sum
<1> HIDE DEF f, of
<1>5. ASSUME NEW u \in Bettors
      PROVE  s[u] = Cardinality(Units(f, {b \in B : of[b] = u}))
  <2> DEFINE mine == {b \in B : slip[b].user = u}
  <2>1. mine = {b \in B : of[b] = u} /\ mine \in SUBSET Slips /\ mine \subseteq B
    BY <1>1, <1>3
  <2>2. s[u] = Cardinality(Units(Stake, mine))
    BY <2>1, BetsSum
  <2> HIDE DEF mine
  <2>3. Units(Stake, mine) = Units(f, mine)
    BY <1>2, <2>1 DEF Units
  <2> QED BY <2>1, <2>2, <2>3
<1>6. IsFiniteSet(Bettors)
  BY BettingAssumption
<1>7. SumFunction(s) = SumFunction(f)
  BY ONLY <1>1, <1>2, <1>3, <1>5, <1>6, SumBySlices, s \in [Bettors -> Nat]
<1> QED BY <1>4, <1>7

\* If each user is offered no more than so much for a unit it bet, all together are.
LEMMA OffersScale ==
  ASSUME BetTypes, NEW c \in Nat, NEW B \in SUBSET Bets, NEW offered \in [Bettors -> Nat],
         \A u \in Bettors : offered[u] <= c * Sum({b \in B : slip[b].user = u})
  PROVE  SumFunction(offered) <= c * Sum(B)
<1> DEFINE s == [u \in Bettors |-> Sum({b \in B : slip[b].user = u})]
           g == [u \in Bettors |-> c * s[u]]
<1>1. s \in [Bettors -> Nat]
  <2>1. B \in SUBSET Slips
    BY DEF Bets
  <2> QED BY <2>1, BetsSum
<1>2. \A u \in Bettors : s[u] = Sum({b \in B : slip[b].user = u})
  OBVIOUS
<1> HIDE DEF s
<1>3. g \in [Bettors -> Nat] /\ \A u \in Bettors : g[u] = c * s[u]
  <2>1. \A m, n \in Nat : m * n \in Nat
    OBVIOUS
  <2> QED BY <1>1, <2>1
<1>4. \A u \in Bettors : offered[u] <= g[u]
  BY <1>2, <1>3
<1> HIDE DEF g
<1>5. IsFiniteSet(Bettors)
  BY BettingAssumption
<1>6. SumFunction(offered) <= SumFunction(g)
  BY <1>3, <1>4, <1>5, SumAtMost
<1>7. SumFunction(g) = c * SumFunction(s)
  BY ONLY <1>1, <1>3, <1>5, SumScales, c \in Nat
<1>8. SumFunction(s) = Sum(B)
  BY <1>1, <1>2, UsersBet
<1> QED BY <1>6, <1>7, <1>8

\* A match that is cancelled gives everything back, one without a winner less the fee; the
\* bets on a winner share the pool.
LEMMA PayoutsFit ==
  ASSUME BetTypes, NEW mine, \A u \in Bettors : mine[u] \in SUBSET BetsOf(u),
         NEW offered \in [Bettors -> Nat], \A u \in Bettors : offered[u] <= Payout(mine[u])
  PROVE  SumFunction(offered) <=
           (IF winner = None THEN 1 ELSE Winnable)
             * ((IF matchStatus = "cancelled" THEN 100 ELSE 100 - Fee) * TotalPool)
<1> DEFINE n == SumFunction(offered)
<1>1. /\ Bets \in SUBSET Slips /\ On(Bets, winner) \in SUBSET Slips
      /\ On(Bets, winner) \in SUBSET Bets /\ Bets \in SUBSET Bets
  BY DEF Bets, On
<1>2. TotalPool \in Nat /\ Winnable \in Nat /\ n \in Nat
  BY <1>1, BetsSum, BettingAssumption, SumType DEF TotalPool, Winnable
<1>3. \A a, b \in Nat : a * b \in Nat /\ a * b = b * a
  OBVIOUS
<1>4. ASSUME NEW u \in Bettors
      PROVE  /\ BetsOf(u) = {b \in Bets : slip[b].user = u}
             /\ On(BetsOf(u), winner) = {b \in On(Bets, winner) : slip[b].user = u}
             /\ Sum(mine[u]) \in Nat /\ Sum(BetsOf(u)) \in Nat /\ Sum(mine[u]) <= Sum(BetsOf(u))
             /\ Sum(On(mine[u], winner)) \in Nat /\ Sum(On(BetsOf(u), winner)) \in Nat
             /\ Sum(On(mine[u], winner)) <= Sum(On(BetsOf(u), winner))
  <2>1. /\ BetsOf(u) \in SUBSET Slips /\ mine[u] \in SUBSET BetsOf(u) /\ mine[u] \in SUBSET Slips
        /\ On(BetsOf(u), winner) \in SUBSET Slips /\ On(mine[u], winner) \in SUBSET Slips
        /\ On(mine[u], winner) \in SUBSET On(BetsOf(u), winner)
    BY <1>1 DEF BetsOf, On
  <2>2. BetsOf(u) = {b \in Bets : slip[b].user = u}
    BY DEF BetsOf
  <2>3. On(BetsOf(u), winner) = {b \in On(Bets, winner) : slip[b].user = u}
    BY DEF BetsOf, On
  <2> QED BY <2>1, <2>2, <2>3, BetsSum, MoreBets
<1>5. CASE matchStatus = "cancelled"
  <2> DEFINE c == 100
  <2>1. \A u \in Bettors : offered[u] <= c * Sum({b \in Bets : slip[b].user = u})
    <3>1. \A a, b, m \in Nat : a <= 100 * b /\ b <= m => a <= 100 * m
      OBVIOUS
    <3> QED BY <1>4, <1>5, <3>1 DEF Payout
  <2>2. c \in Nat
    OBVIOUS
  <2> HIDE DEF c
  <2>3. n <= c * Sum(Bets)
    BY <1>1, <2>1, <2>2, OffersScale
  <2>4. winner = None
    BY <1>5 DEF BetTypes
  <2>5. \A m \in Nat : 1 * (100 * m) = 100 * m
    OBVIOUS
  <2> QED BY <1>2, <1>5, <2>3, <2>4, <2>5 DEF c, TotalPool
<1>6. CASE matchStatus = "completed" /\ winner = None
  <2> DEFINE c == 95
  <2>1. \A u \in Bettors : offered[u] <= c * Sum({b \in Bets : slip[b].user = u})
    <3>1. \A a, b, m \in Nat : a <= (100 - 5) * b /\ b <= m => a <= 95 * m
      OBVIOUS
    <3> QED BY <1>4, <1>6, <3>1 DEF Payout, Fee
  <2>2. c \in Nat
    OBVIOUS
  <2> HIDE DEF c
  <2>3. n <= c * Sum(Bets)
    BY <1>1, <2>1, <2>2, OffersScale
  <2>4. \A m \in Nat : 1 * ((100 - 5) * m) = 95 * m
    OBVIOUS
  <2> QED BY <1>2, <1>6, <2>3, <2>4 DEF c, TotalPool, Fee
<1>7. CASE matchStatus = "completed" /\ winner # None
  <2> DEFINE c == 95 * TotalPool
  <2>1. c \in Nat
    BY <1>2
  <2>2. ASSUME NEW u \in Bettors
        PROVE  offered[u] <= c * Sum({b \in On(Bets, winner) : slip[b].user = u})
    <3> DEFINE a == Sum(On(mine[u], winner))
               b == Sum(On(BetsOf(u), winner))
               t == TotalPool
               k == offered[u]
    <3>1. a \in Nat /\ b \in Nat /\ a <= b /\ t \in Nat /\ k \in Nat
      BY <1>2, <1>4
    <3>2. k <= 0 \/ k <= (100 - 5) * a * t
      BY <1>7 DEF Payout, Fee
    <3>3. k <= (95 * t) * b
      <4> HIDE DEF a, b, t, k
      <4>1. (100 - 5) * a * t = (95 * t) * a
        BY ONLY <3>1
      <4>2. (95 * t) * a <= (95 * t) * b /\ (95 * t) * a \in Nat /\ (95 * t) * b \in Nat
        <5>1. \A x, y, z \in Nat : y <= z => x * y <= x * z /\ x * y \in Nat /\ x * z \in Nat
          OBVIOUS
        <5>2. 95 * t \in Nat
          BY ONLY <3>1
        <5> QED BY ONLY <3>1, <5>1, <5>2
      <4> DEFINE p == (95 * t) * a
                 q == (95 * t) * b
      <4>3. k <= 0 \/ k <= p
        BY <3>2, <4>1
      <4>4. p <= q /\ p \in Nat /\ q \in Nat
        BY <4>2
      <4> HIDE DEF p, q
      <4>5. k <= q
        BY ONLY <3>1, <4>3, <4>4
      <4> QED BY <4>5 DEF q
    <3> QED BY <1>4, <3>3
  <2> HIDE DEF c
  <2>3. n <= c * Winnable
    BY <1>1, <2>1, <2>2, OffersScale DEF Winnable
  <2>4. c * Winnable = Winnable * c
    BY <1>2, <1>3, <2>1
  <2> QED BY <1>7, <2>3, <2>4 DEF c, Fee
<1>8. CASE matchStatus \notin {"completed", "cancelled"}
  <2>1. \A u \in Bettors : offered[u] = 0
    <3>1. \A u \in Bettors : offered[u] <= 0 /\ offered[u] \in Nat
      BY <1>8 DEF Payout
    <3> QED BY <3>1
  <2>2. n = 0
    BY <2>1, BettingAssumption, SumOfNothing
  <2>3. (IF winner = None THEN 1 ELSE Winnable) \in Nat /\ (100 - Fee) * TotalPool \in Nat
    BY <1>2 DEF Fee
  <2>4. \A a, b \in Nat : 0 <= a * b
    OBVIOUS
  <2> QED BY <1>8, <2>2, <2>3, <2>4
<1> QED BY <1>5, <1>6, <1>7, <1>8

LEMMA OffersAreFair == ASSUME BetInv PROVE OffersFitThePool
<1>1. BetTypes
  BY DEF BetInv
<1>2. ASSUME NEW u \in Bettors, NEW mine \in SUBSET BetsOf(u) PROVE Payout(mine) \in Nat
  <2>1. Bets \in SUBSET Slips /\ mine \in SUBSET Slips /\ On(mine, winner) \in SUBSET Slips
    BY DEF BetsOf, Bets, On
  <2>2. Sum(mine) \in Nat /\ Sum(On(mine, winner)) \in Nat /\ TotalPool \in Nat
    BY <1>1, <2>1, BetsSum DEF TotalPool
  <2>3. \A a, b \in Nat : (100 - 5) * a * b \in Nat /\ (100 - 5) * a \in Nat /\ 100 * a \in Nat
    OBVIOUS
  <2> QED BY <2>2, <2>3 DEF Payout, Fee
<1>3. SumFunction([u \in Bettors |-> Offered(u)]) <=
           (IF winner = None THEN 1 ELSE Winnable)
             * ((IF matchStatus = "cancelled" THEN 100 ELSE 100 - Fee) * TotalPool)
  <2> DEFINE offered == [u \in Bettors |-> Offered(u)]
             mine == [u \in Bettors |-> BetsOf(u)]
  <2>1. offered \in [Bettors -> Nat] /\ \A u \in Bettors : offered[u] <= Payout(mine[u])
    <3>1. \A u \in Bettors : Payout(BetsOf(u)) \in Nat
      BY <1>2
    <3> QED BY <3>1 DEF Offered
  <2>2. \A u \in Bettors : mine[u] \in SUBSET BetsOf(u)
    OBVIOUS
  <2> HIDE DEF offered, mine
  <2>3. SumFunction(offered) <=
           (IF winner = None THEN 1 ELSE Winnable)
             * ((IF matchStatus = "cancelled" THEN 100 ELSE 100 - Fee) * TotalPool)
    BY <1>1, <2>1, <2>2, PayoutsFit
  <2> QED BY <2>3 DEF offered
<1>4. SumFunction([u \in Bettors |-> PendingClaim(u)]) <=
           (IF winner = None THEN 1 ELSE Winnable)
             * ((IF matchStatus = "cancelled" THEN 100 ELSE 100 - Fee) * TotalPool)
  <2> DEFINE offered == [u \in Bettors |-> PendingClaim(u)]
             mine == [u \in Bettors |-> BetsOf(u) \ claimed]
  <2>1. offered \in [Bettors -> Nat] /\ \A u \in Bettors : offered[u] <= Payout(mine[u])
    <3>1. \A u \in Bettors : Payout(BetsOf(u) \ claimed) \in Nat
      BY <1>2
    <3> QED BY <3>1 DEF PendingClaim
  <2>2. \A u \in Bettors : mine[u] \in SUBSET BetsOf(u)
    OBVIOUS
  <2> HIDE DEF offered, mine
  <2>3. SumFunction(offered) <=
           (IF winner = None THEN 1 ELSE Winnable)
             * ((IF matchStatus = "cancelled" THEN 100 ELSE 100 - Fee) * TotalPool)
    BY <1>1, <2>1, <2>2, PayoutsFit
  <2> QED BY <2>3 DEF offered
<1>5. TotalPool <= pot
  <2>1. Bets \in SUBSET Slips
    BY DEF Bets
  <2>2. Units(Stake, Bets) \subseteq Units(InPot, Slips)
    BY DEF Units, Bets, Stake, InPot, InPotOf
  <2>3. IsFiniteSet(Units(InPot, Slips)) /\ SumFunction(InPot) = Cardinality(Units(InPot, Slips))
    BY <1>1, InPotTypes, SlipsFinite, UnitsAreFinite, SumCountsUnits
  <2>4. Cardinality(Units(Stake, Bets)) <= Cardinality(Units(InPot, Slips))
    BY <2>2, <2>3, FS_Subset
  <2> QED BY <1>1, <2>1, <2>3, <2>4, BetsSum DEF TotalPool, BetInv
<1> QED BY <1>3, <1>4, <1>5 DEF OffersFitThePool

\* A bet moves on, and its stake to the platform with it.
LEMMA SlipMoves ==
  ASSUME BetInv, NEW b \in Slips, NEW s \in SlipTypes, slip' = [slip EXCEPT ![b] = s],
         s.pc # "free" => s.user \in Bettors, UNCHANGED <<matchStatus, winner>>,
         pot' \in Nat, pot' + InPotOf(slip[b]) = pot + InPotOf(s)
  PROVE  BetInv'
<1>1. BetTypes /\ pot \in Nat /\ pot = SumFunction(InPot)
  BY DEF BetInv, BetTypes
<1>2. BetTypes'
  BY <1>1 DEF BetTypes
<1> DEFINE f == InPot
           g == InPot'
<1>3. f \in [Slips -> Nat] /\ g \in [Slips -> Nat]
  <2>1. \A c \in Slips : slip'[c].amount \in Nat
    BY <1>2 DEF BetTypes, SlipTypes
  <2> QED BY <1>1, <2>1, InPotTypes DEF InPot, InPotOf
<1>4. /\ f[b] = InPotOf(slip[b]) /\ g[b] = InPotOf(s)
      /\ \A c \in Slips \ {b} : g[c] = f[c]
  <2>1. slip'[b] = s /\ \A c \in Slips \ {b} : slip'[c] = slip[c]
    BY <1>1 DEF BetTypes
  <2> QED BY <2>1 DEF InPot, InPotOf
<1> HIDE DEF f, g
<1>5. SumFunction(g) + f[b] = SumFunction(f) + g[b]
  BY <1>3, <1>4, SlipsFinite, SumChangesOne
<1>6. pot' = SumFunction(g)
  <2> DEFINE m == SumFunction(f)
             n == SumFunction(g)
             x == f[b]
             y == g[b]
             p == pot'
  <2>1. m \in Nat /\ n \in Nat /\ x \in Nat /\ y \in Nat /\ n + x = m + y
    BY <1>3, <1>5, SlipsFinite, SumType
  <2>2. p \in Nat /\ p + x = m + y
    BY <1>1, <1>4 DEF f
  <2> HIDE DEF m, n, x, y, p
  <2>3. p = n
    BY ONLY <2>1, <2>2
  <2> QED BY <2>3 DEF n, p
<1> QED BY <1>2, <1>6 DEF BetInv, g

LEMMA BetInvNext == ASSUME BetInv, [ServicesNext]_serviceVars PROVE BetInv'
<1>1. BetTypes /\ pot = SumFunction(InPot)
  BY DEF BetInv
<1>2. CASE UNCHANGED <<slip, pot, winner, matchStatus>>
  BY <1>1, <1>2 DEF BetInv, BetTypes, InPot
<1>3. CASE MatchIsOver
  <2>1. BetTypes' /\ slip' = slip /\ pot' = pot
    BY <1>1, <1>3 DEF MatchIsOver, BetTypes
  <2> QED BY <1>1, <2>1 DEF BetInv, InPot
<1>4. ASSUME NEW b \in Slips PROVE slip[b] \in SlipTypes /\ pot + 0 = pot /\ 0 \in Nat
  BY <1>1 DEF BetTypes
<1>5. ASSUME NEW b \in Slips, NEW u \in Bettors, NEW on \in Contestants, NEW amount \in Amounts,
             Places(b, u, on, amount)
      PROVE  BetInv'
  <2> DEFINE s == [pc |-> "transfer", user |-> u, on |-> on, amount |-> amount]
  <2>1. s \in SlipTypes /\ s.user \in Bettors
    BY BettingAssumption DEF SlipTypes, SlipStates
  <2>2. /\ slip' = [slip EXCEPT ![b] = s] /\ UNCHANGED <<matchStatus, winner>> /\ pot' = pot
        /\ slip[b] = NoSlip
    BY <1>5 DEF Places
  <2>3. InPotOf(slip[b]) = 0 /\ InPotOf(s) = 0
    BY <2>2 DEF InPotOf, NoSlip
  <2> HIDE DEF s
  <2> QED BY <1>1, <2>1, <2>2, <2>3, SlipMoves DEF BetTypes
<1>6. ASSUME NEW b \in Slips, NEW pc \in SlipStates \ {"free"}, slip[b].pc # "free"
      PROVE  LET s == [slip[b] EXCEPT !.pc = pc]
             IN  /\ [slip EXCEPT ![b].pc = pc] = [slip EXCEPT ![b] = s]
                 /\ s \in SlipTypes /\ s.user \in Bettors /\ s.amount = slip[b].amount /\ s.pc = pc
  <2>1. slip[b] \in SlipTypes /\ slip[b].user \in Bettors
    BY <1>1, <1>6 DEF BetTypes
  <2> QED BY <2>1 DEF SlipTypes
<1>7. ASSUME NEW b \in Slips, Stakes(b) PROVE BetInv'
  <2>1. slip[b].pc = "transfer" /\ InPotOf(slip[b]) = 0 /\ UNCHANGED <<matchStatus, winner>>
    BY <1>7 DEF Stakes, InPotOf
  <2>2. CASE slip' = [slip EXCEPT ![b].pc = "refused"] /\ UNCHANGED <<purse, pot>>
    <3> DEFINE s == [slip[b] EXCEPT !.pc = "refused"]
    <3>1. slip' = [slip EXCEPT ![b] = s] /\ s \in SlipTypes /\ s.user \in Bettors /\ s.pc = "refused"
      BY <1>6, <2>1, <2>2 DEF SlipStates
    <3> HIDE DEF s
    <3>2. InPotOf(s) = 0
      BY <3>1 DEF InPotOf
    <3> QED BY <1>1, <2>1, <2>2, <3>1, <3>2, SlipMoves DEF BetTypes
  <2>3. CASE slip' = [slip EXCEPT ![b].pc = "create"] /\ pot' = pot + slip[b].amount
    <3> DEFINE s == [slip[b] EXCEPT !.pc = "create"]
    <3>1. /\ slip' = [slip EXCEPT ![b] = s] /\ s \in SlipTypes /\ s.user \in Bettors /\ s.pc = "create"
          /\ s.amount = slip[b].amount
      BY <1>6, <2>1, <2>3 DEF SlipStates
    <3> HIDE DEF s
    <3>2. InPotOf(s) = slip[b].amount /\ slip[b].amount \in Nat
      BY <1>4, <3>1 DEF InPotOf, SlipTypes
    <3>3. pot' \in Nat /\ pot' + InPotOf(slip[b]) = pot + InPotOf(s)
      BY <1>1, <2>1, <2>3, <3>2 DEF BetTypes
    <3> QED BY <2>1, <3>1, <3>3, SlipMoves
  <2> QED BY <1>7, <2>2, <2>3 DEF Stakes
<1>8. ASSUME NEW b \in Slips, Creates(b) PROVE BetInv'
  <2>1. /\ slip[b].pc = "create" /\ UNCHANGED <<matchStatus, winner, pot>>
        /\ slip' = [slip EXCEPT ![b].pc = "placed"] /\ InPotOf(slip[b]) = slip[b].amount
    BY <1>8 DEF Creates, InPotOf
  <2> DEFINE s == [slip[b] EXCEPT !.pc = "placed"]
  <2>2. /\ slip' = [slip EXCEPT ![b] = s] /\ s \in SlipTypes /\ s.user \in Bettors /\ s.pc = "placed"
        /\ s.amount = slip[b].amount
    BY <1>6, <2>1 DEF SlipStates
  <2> HIDE DEF s
  <2>3. InPotOf(s) = InPotOf(slip[b])
    BY <2>1, <2>2 DEF InPotOf
  <2> QED BY <1>1, <2>1, <2>2, <2>3, SlipMoves DEF BetTypes
<1>9. ASSUME NEW u \in Bettors, Claims(u) \/ ClaimPays(u) PROVE UNCHANGED <<slip, pot, winner, matchStatus>>
  BY <1>9 DEF Claims, ClaimPays
<1>10. BetNext => BetInv'
  BY <1>2, <1>3, <1>5, <1>7, <1>8, <1>9 DEF BetNext
<1>11. UNCHANGED betVars => UNCHANGED <<slip, pot, winner, matchStatus>>
  BY DEF betVars
<1> QED BY <1>2, <1>10, <1>11 DEF ServicesNext, serviceVars

LEMMA BetInvInit == ASSUME BetInit PROVE BetInv
<1>1. slip = [b \in Slips |-> NoSlip] /\ pot = 0 /\ matchStatus = "active"
  BY DEF BetInit
<1>2. NoSlip \in SlipTypes /\ NoSlip.pc = "free" /\ InPotOf(NoSlip) = 0
  BY DEF NoSlip, SlipTypes, SlipStates, InPotOf
<1>3. BetTypes
  BY <1>1, <1>2 DEF BetTypes
<1>4. \A b \in Slips : InPot[b] = 0
  BY <1>1, <1>2 DEF InPot
<1>5. SumFunction(InPot) = 0
  BY <1>3, <1>4, SlipsFinite, InPotTypes, SumOfNothing
<1> QED BY <1>1, <1>3, <1>5 DEF BetInv

\* What all users are offered is never more than the pool less the fee, and the platform
\* has it: for any users, bets and amounts, whenever bets are created and claimed.
THEOREM OffersFitThePoolHolds == ServicesSpec => []OffersFitThePool
<1>1. ServicesInit => BetInv
  BY BetInvInit DEF ServicesInit
<1>2. BetInv /\ [ServicesNext]_serviceVars => BetInv'
  BY BetInvNext
<1>3. BetInv => OffersFitThePool
  BY OffersAreFair
<1> QED BY <1>1, <1>2, <1>3, PTL DEF ServicesSpec
=============================================================================
