-------------------------------- MODULE Play --------------------------------
(***************************************************************************)
(* PlayService: how human and managed agents, whose wallets the platform   *)
(* keeps, come into the matchmaking queue and leave it, and the loop that  *)
(* makes managed agents play by themselves.  The queue and the pairing are *)
(* taken as a whole here, Matchmaking has their steps; a stake is 1.       *)
(***************************************************************************)
EXTENDS Integers, FiniteSets, Functions

CONSTANTS Managed, Humans,   \* agents of the two kinds
          Calls,             \* bound: user requests at a time
          Funds,             \* what an agent has at first
          PlayEvents         \* bound: user requests, failing transfers, refunds and writes

ASSUME PlayAssumption ==
  /\ IsFiniteSet(Managed) /\ IsFiniteSet(Humans) /\ IsFiniteSet(Calls)
  /\ Funds \in Nat

Agents    == Managed \cup Humans
Autoplay  == "autoplay"      \* autoplayTick, as the caller of escrowAndEnqueue
Callers   == Calls \cup {Autoplay}

VARIABLES
  status,     \* Agent.status
  auto,       \* Agent.autoPlay
  wallet,     \* the tokens of an agent
  surplus,    \* tokens taken from an agent that are not the stake of an entry
  gone,       \* tokens an agent put into its brain, or its user withdrew
  entry,      \* the agent's entry in MatchmakingQueue: "none", "waiting", "pairing"
  recent,     \* agents that joined less than JOIN_COOLDOWN_MS ago
  playing,    \* the running matches: [team, staked]
  call,       \* where a caller stands
  tick,       \* where autoplayTick stands: [pc, todo]
  loop,       \* autoplayInterval is set
  count,      \* where a maybeStartAutoplayLoop stands
  playEvents

playVars == <<status, auto, wallet, surplus, gone, entry, recent, playing, call,
              tick, loop, count, playEvents>>
money    == <<wallet, surplus, gone>>
ticks    == <<tick, loop, count>>

Free == [pc |-> "free", agent |-> "none"]

\* An agent that is not in the cast is as good as a deleted one.
PlayInit(cast) ==
  /\ status = [a \in Agents |-> IF a \in cast THEN "idle" ELSE "disabled"]
  /\ auto = [a \in Agents |-> a \in Managed \cap cast]
  /\ wallet = [a \in Agents |-> Funds] /\ surplus = [a \in Agents |-> 0]
  /\ gone = [a \in Agents |-> 0]
  /\ entry = [a \in Agents |-> "none"] /\ recent = {} /\ playing = {}
  /\ call = [c \in Callers |-> Free] /\ tick = [pc |-> "free", todo |-> {}]
  /\ loop = TRUE /\ count = "none" /\ playEvents = 0

Busy(a) == \E g \in playing : a \in g.team

Event == playEvents < PlayEvents /\ playEvents' = playEvents + 1

Goes(c, pc)     == call' = [call EXCEPT ![c].pc = pc]
Returns(c)      == call' = [call EXCEPT ![c] = Free]
Calling(c, pc)  == call[c].pc = pc
Caller(c)       == call[c].agent
Saved(a, value) == status' = [status EXCEPT ![a] = value]

-----------------------------------------------------------------------------
(* The requests to join *)

\* managedJoinQueue and, for an agent of the tick's list, escrowAndEnqueue.
ManagedJoins(c, m) ==
  /\ Event /\ call[c] = Free /\ status[m] = "idle"
  /\ call' = [call EXCEPT ![c] = [pc |-> "transfer", agent |-> m]]
  /\ UNCHANGED <<status, auto, money, entry, recent, playing, ticks>>

\* joinQueue: a status "queued" without an entry is repaired first.
HumanJoins(c, h) ==
  /\ Event /\ call[c] = Free
  /\ status[h] = "idle" \/ (status[h] = "queued" /\ entry[h] = "none")
  /\ Saved(h, "idle")
  /\ call' = [call EXCEPT ![c] = [pc |-> "transfer", agent |-> h]]
  /\ UNCHANGED <<auto, money, entry, recent, playing, ticks>>

\* A mutant of Transfer: a transfer that fails is not noticed.
TransferUnnoticed(c) ==
  LET a == Caller(c)
  IN  /\ Calling(c, "transfer")
      /\ IF wallet[a] > 0
         THEN wallet' = [wallet EXCEPT ![a] = @ - 1] /\ surplus' = [surplus EXCEPT ![a] = @ + 1]
         ELSE UNCHANGED money
      /\ Goes(c, IF a \in Managed THEN "enter" ELSE "mark")
      /\ UNCHANGED <<status, auto, gone, entry, recent, playing, ticks, playEvents>>

\* A mutant of Transfer: the balance is not looked at.
TransferOverdrawn(c) ==
  LET a == Caller(c)
  IN  /\ Calling(c, "transfer")
      /\ wallet' = [wallet EXCEPT ![a] = @ - 1]
      /\ surplus' = [surplus EXCEPT ![a] = @ + 1]
      /\ Goes(c, IF a \in Managed THEN "enter" ELSE "mark")
      /\ UNCHANGED <<status, auto, gone, entry, recent, playing, ticks, playEvents>>

\* The balance is looked at and the stake moved to the platform's wallet.
Transfer(c) ==
  LET a == Caller(c)
  IN  /\ Calling(c, "transfer")
      /\ \/ /\ wallet[a] > 0
            /\ wallet' = [wallet EXCEPT ![a] = @ - 1]
            /\ surplus' = [surplus EXCEPT ![a] = @ + 1]
            /\ Goes(c, IF a \in Managed THEN "enter" ELSE "mark")
            /\ UNCHANGED playEvents
         \/ /\ \/ wallet[a] = 0 /\ UNCHANGED playEvents
               \/ Event
            /\ Returns(c)
            /\ UNCHANGED money
      /\ UNCHANGED <<status, auto, gone, entry, recent, playing, ticks>>

\* A human is queued before it has an entry ...
Mark(c) ==
  /\ Calling(c, "mark")
  /\ Saved(Caller(c), "queued") /\ Goes(c, "enter")
  /\ UNCHANGED <<auto, money, entry, recent, playing, ticks, playEvents>>

\* ... and idle again if it does not get one; the stake stays where it is.
Rejected(c) ==
  IF Caller(c) \in Humans THEN Goes(c, "revert") ELSE Returns(c)

\* A mutant of Enter: the cooldown begins with the entry.
EnterLateCooldown(c) ==
  LET a == Caller(c)
  IN  /\ Calling(c, "enter")
      /\ IF a \in recent \/ Busy(a) \/ entry[a] # "none" THEN Rejected(c) ELSE Goes(c, "adding")
      /\ UNCHANGED <<status, auto, money, entry, recent, playing, ticks, playEvents>>

\* MatchmakingService.joinQueue up to the creation of the document.
Enter(c) ==
  LET a == Caller(c)
  IN  /\ Calling(c, "enter")
      /\ recent' = recent \cup {a}
      /\ IF a \in recent \/ Busy(a) \/ entry[a] # "none" THEN Rejected(c) ELSE Goes(c, "adding")
      /\ UNCHANGED <<status, auto, money, entry, playing, ticks, playEvents>>

\* MatchmakingQueue.add.  A managed agent is queued after that.
Add(c) ==
  LET a == Caller(c)
  IN  /\ Calling(c, "adding")
      /\ \/ /\ entry' = [entry EXCEPT ![a] = "waiting"]
            /\ surplus' = [surplus EXCEPT ![a] = @ - 1]
            /\ IF a \in Humans THEN Returns(c) ELSE Goes(c, "saves")
            /\ UNCHANGED playEvents
         \/ /\ Event /\ Rejected(c)
            /\ UNCHANGED <<entry, surplus>>
      /\ UNCHANGED <<status, auto, wallet, gone, recent, playing, ticks>>

Saves(c) ==
  /\ Calling(c, "saves")
  /\ Saved(Caller(c), "queued") /\ Returns(c)
  /\ UNCHANGED <<auto, money, entry, recent, playing, ticks, playEvents>>

Revert(c) ==
  /\ Calling(c, "revert")
  /\ Saved(Caller(c), "idle") /\ Returns(c)
  /\ UNCHANGED <<auto, money, entry, recent, playing, ticks, playEvents>>

\* More than JOIN_COOLDOWN_MS pass; the creation of a document does not take as long.
CoolsDown(a) ==
  /\ a \in recent /\ \A c \in Callers : Calling(c, "adding") => Caller(c) # a
  /\ recent' = recent \ {a}
  /\ UNCHANGED <<status, auto, money, entry, playing, call, ticks, playEvents>>

-----------------------------------------------------------------------------
(* The requests to leave, and the switch of autoplay *)

\* setManagedAutoplay: switching on starts the loop, switching off counts the agents
\* that are left.  Bound: one maybeStartAutoplayLoop at a time.
SwitchesOn(m) ==
  /\ auto' = [auto EXCEPT ![m] = TRUE] /\ loop' = TRUE
  /\ UNCHANGED <<tick, count>>

SwitchesOff(m) ==
  /\ count = "none" /\ count' = "asked"
  /\ auto' = [auto EXCEPT ![m] = FALSE]
  /\ UNCHANGED <<tick, loop>>

\* The count is read, and the loop started or stopped when the answer has come; a count
\* that fails is taken for zero.
Counts ==
  /\ \/ /\ count = "asked" /\ UNCHANGED loop
        /\ \/ count' = (IF \E m \in Managed : auto[m] THEN "some" ELSE "zero")
              /\ UNCHANGED playEvents
           \/ Event /\ count' = "zero"
     \/ count \in {"some", "zero"} /\ loop' = (count = "some") /\ count' = "none"
        /\ UNCHANGED playEvents
  /\ UNCHANGED <<status, auto, money, entry, recent, playing, call, tick>>

\* cancelQueue, and setManagedAutoplay(false) of an agent that is queued.
Leaves(c, a) ==
  /\ Event /\ call[c] = Free /\ status[a] = "queued"
  /\ IF a \in Managed THEN SwitchesOff(a) ELSE UNCHANGED <<auto, ticks>>
  /\ call' = [call EXCEPT ![c] = [pc |-> "leaving", agent |-> a]]
  /\ UNCHANGED <<status, money, entry, recent, playing>>

\* A mutant of LeaveQueue: the stake goes back whether there was an entry or not.
LeaveQueueAlways(c) ==
  LET a == Caller(c)
  IN  /\ Calling(c, "leaving") /\ entry[a] # "pairing"
      /\ Goes(c, "freeing")
      /\ entry' = [entry EXCEPT ![a] = "none"]
      /\ wallet' = [wallet EXCEPT ![a] = @ + 1]
      /\ UNCHANGED <<status, auto, gone, surplus, recent, playing, ticks, playEvents>>

\* leaveQueue: throws while the agent is paired; a waiting stake goes back.
LeaveQueue(c) ==
  LET a == Caller(c)
  IN  /\ Calling(c, "leaving")
      /\ IF entry[a] = "pairing" THEN Returns(c) ELSE Goes(c, "freeing")
      /\ IF entry[a] # "waiting" THEN UNCHANGED <<entry, money, playEvents>>
         ELSE /\ entry' = [entry EXCEPT ![a] = "none"]
              /\ \/ /\ wallet' = [wallet EXCEPT ![a] = @ + 1]
                    /\ UNCHANGED <<surplus, playEvents>>
                 \/ /\ Event                                  \* only logged
                    /\ surplus' = [surplus EXCEPT ![a] = @ + 1]
                    /\ UNCHANGED wallet
      /\ UNCHANGED <<status, auto, gone, recent, playing, ticks>>

Frees(c) ==
  /\ Calling(c, "freeing")
  /\ Saved(Caller(c), "idle") /\ Returns(c)
  /\ UNCHANGED <<auto, money, entry, recent, playing, ticks, playEvents>>

\* setManagedAutoplay of an agent that is not queued, or switching it on.
Switch(m) ==
  /\ Event /\ status[m] # "disabled"
  /\ SwitchesOn(m) \/ (status[m] # "queued" /\ SwitchesOff(m))
  /\ UNCHANGED <<status, money, entry, recent, playing, call>>

-----------------------------------------------------------------------------
(* Other requests of a user *)

\* depositStakeToPod of a managed agent, withdraw of a human: the balance is read ...
TakesOut(c, a) ==
  /\ Event /\ call[c] = Free /\ wallet[a] > 0
  /\ a \in Managed => status[a] # "disabled"
  /\ call' = [call EXCEPT ![c] = [pc |-> "takes", agent |-> a]]
  /\ UNCHANGED <<status, auto, money, entry, recent, playing, ticks>>

\* ... and a token moved, which fails if a stake was faster.
TakeOut(c) ==
  LET a == Caller(c)
  IN  /\ Calling(c, "takes")
      /\ IF wallet[a] = 0 THEN Returns(c) /\ UNCHANGED money
         ELSE /\ wallet' = [wallet EXCEPT ![a] = @ - 1]
              /\ IF a \in Humans
                 THEN /\ gone' = [gone EXCEPT ![a] = @ + 1] /\ Returns(c)
                      /\ UNCHANGED surplus
                 ELSE /\ surplus' = [surplus EXCEPT ![a] = @ + 1] /\ Goes(c, "funds")
                      /\ UNCHANGED gone
      /\ UNCHANGED <<status, auto, entry, recent, playing, ticks, playEvents>>

\* The relayer pays as much into the brain.  If it cannot the platform has the token.
FundBrain(c) ==
  LET a == Caller(c)
  IN  /\ Calling(c, "funds") /\ Returns(c)
      /\ \/ /\ gone' = [gone EXCEPT ![a] = @ + 1]
            /\ surplus' = [surplus EXCEPT ![a] = @ - 1]
            /\ UNCHANGED playEvents
         \/ Event /\ UNCHANGED <<gone, surplus>>
      /\ UNCHANGED <<status, auto, wallet, entry, recent, playing, ticks>>

\* deleteMine: an agent in the queue may be deleted too, and keeps its entry.
Deletes(m) ==
  /\ Event /\ status[m] \in {"idle", "queued"} /\ Saved(m, "disabled")
  /\ UNCHANGED <<auto, money, entry, recent, playing, call, ticks>>

-----------------------------------------------------------------------------
(* autoplayTick *)

\* It reads the idle agents, unless another tick is running.
TickReads ==
  LET idle == {m \in Managed : auto[m] /\ status[m] = "idle"}
  IN  /\ loop /\ tick.pc = "free"
      /\ tick' = [pc |-> IF idle = {} THEN "counts" ELSE "checks", todo |-> idle]
      /\ UNCHANGED <<status, auto, money, entry, recent, playing, call, loop, count, playEvents>>

\* Without any, the loop is stopped if no agent has autoplay on, or the count fails.
TickCounts ==
  /\ tick.pc = "counts"
  /\ \/ tick' = [tick EXCEPT !.pc = IF \E m \in Managed : auto[m] THEN "free" ELSE "stops"]
        /\ UNCHANGED playEvents
     \/ Event /\ tick' = [tick EXCEPT !.pc = "stops"]
  /\ UNCHANGED <<status, auto, money, entry, recent, playing, call, loop, count>>

TickStops ==
  /\ tick.pc = "stops" /\ tick' = [tick EXCEPT !.pc = "free"] /\ loop' = FALSE
  /\ UNCHANGED <<status, auto, money, entry, recent, playing, call, count, playEvents>>

\* A mutant of TickChecks: it waits for two that wait besides the ready ones.
TickChecksWaiting ==
  LET ready == {m \in tick.todo : wallet[m] > 0}
  IN  /\ tick.pc = "checks"
      /\ tick' = IF Cardinality({a \in Agents : entry[a] # "none"}) < 2
                 THEN [pc |-> "free", todo |-> {}] ELSE [pc |-> "takes", todo |-> ready]
      /\ UNCHANGED <<status, auto, money, entry, recent, playing, call, loop, count, playEvents>>

\* It keeps those that can pay, and holds them back if there are not two with those
\* that are in the queue.
TickChecks ==
  LET ready == {m \in tick.todo : wallet[m] > 0}
      held  == ready = {} \/ Cardinality(ready) + Cardinality({a \in Agents : entry[a] # "none"}) < 2
  IN  /\ tick.pc = "checks"
      /\ tick' = IF held THEN [pc |-> "free", todo |-> {}] ELSE [pc |-> "takes", todo |-> ready]
      /\ UNCHANGED <<status, auto, money, entry, recent, playing, call, loop, count, playEvents>>

\* It makes one after the other join, whatever their status is by now.
TickTakes ==
  /\ tick.pc = "takes" /\ call[Autoplay] = Free
  /\ IF tick.todo = {} THEN tick' = [pc |-> "free", todo |-> {}] /\ UNCHANGED call
     ELSE \E m \in tick.todo :
            /\ tick' = [tick EXCEPT !.todo = @ \ {m}]
            /\ call' = [call EXCEPT ![Autoplay] = [pc |-> "transfer", agent |-> m]]
  /\ UNCHANGED <<status, auto, money, entry, recent, playing, loop, count, playEvents>>

-----------------------------------------------------------------------------
(* The matches *)

\* processPairing has chosen two ...
Pairs(team) ==
  /\ \A a \in team : entry[a] = "waiting"
  /\ \A a \in Agents : entry[a] # "pairing"
  /\ entry' = [a \in Agents |-> IF a \in team THEN "pairing" ELSE entry[a]]
  /\ UNCHANGED <<status, auto, money, recent, playing, call, ticks, playEvents>>

Paired == {a \in Agents : entry[a] = "pairing"}

\* ... and their match is created, unless one of them is in another one.
Begins ==
  /\ Paired # {}
  /\ IF \E a \in Paired : Busy(a)
     THEN /\ entry' = [a \in Agents |-> IF a \in Paired THEN "waiting" ELSE entry[a]]
          /\ UNCHANGED <<status, playing>>
     ELSE /\ entry' = [a \in Agents |-> IF a \in Paired THEN "none" ELSE entry[a]]
          /\ status' = [a \in Agents |-> IF a \in Paired THEN "in_match" ELSE status[a]]
          /\ playing' = playing \cup {[team |-> Paired, staked |-> TRUE]}
  /\ UNCHANGED <<auto, money, recent, call, ticks, playEvents>>

\* createTestMatch and createManagedExhibitionMatch, against a bot and without stakes:
\* an agent that is queued may play too.
Exhibits(a) ==
  /\ Event /\ status[a] \notin {"in_match", "disabled"} /\ ~ Busy(a)
  /\ Saved(a, "in_match")
  /\ playing' = playing \cup {[team |-> {a}, staked |-> FALSE]}
  /\ UNCHANGED <<auto, money, entry, recent, call, ticks>>

\* The pot goes to the winner or back to both (fees are left out).
Ends(g) ==
  /\ playing' = playing \ {g}
  /\ status' = [a \in Agents |-> IF a \in g.team THEN "idle" ELSE status[a]]
  /\ IF ~ g.staked THEN UNCHANGED wallet
     ELSE \/ \E w \in g.team : wallet' = [wallet EXCEPT ![w] = @ + 2]
          \/ wallet' = [a \in Agents |-> IF a \in g.team THEN wallet[a] + 1 ELSE wallet[a]]
  /\ UNCHANGED <<auto, surplus, gone, entry, recent, call, ticks, playEvents>>

-----------------------------------------------------------------------------
CallStep(c) == \/ Transfer(c) \/ Mark(c) \/ Enter(c) \/ Add(c) \/ Saves(c) \/ Revert(c)
               \/ LeaveQueue(c) \/ Frees(c) \/ TakeOut(c) \/ FundBrain(c)

TickStep == TickReads \/ TickCounts \/ TickStops \/ TickChecks \/ TickTakes

PlayNext ==
  \/ \E c \in Calls : \/ \E m \in Managed : ManagedJoins(c, m)
                      \/ \E h \in Humans : HumanJoins(c, h)
                      \/ \E a \in Agents : Leaves(c, a) \/ TakesOut(c, a)
  \/ \E c \in Callers : CallStep(c)
  \/ \E a \in Agents : CoolsDown(a) \/ Exhibits(a)
  \/ \E m \in Managed : Switch(m) \/ Deletes(m)
  \/ \E a, b \in Agents : a # b /\ Pairs({a, b})
  \/ TickStep \/ Counts \/ Begins
  \/ \E g \in playing : Ends(g)

-----------------------------------------------------------------------------
(* Properties *)

PlayTypeOK ==
  /\ status \in [Agents -> {"idle", "queued", "in_match", "disabled"}]
  /\ \A a \in Agents : {wallet[a], surplus[a], gone[a]} \subseteq Nat
  /\ entry \in [Agents -> {"none", "waiting", "pairing"}]
  /\ recent \subseteq Agents /\ tick.todo \subseteq Managed
  /\ loop \in BOOLEAN /\ count \in {"none", "asked", "some", "zero"}

\* Every entry, and every token put into a brain, was paid by a transfer of its own,
\* whoever joined and whatever failed: no more is on its way than was taken.
EntriesPaid ==
  \A a \in Agents :
    Cardinality({c \in Callers : Caller(c) = a
                                 /\ call[c].pc \in {"mark", "enter", "adding", "funds"}})
      <= surplus[a]

\* An agent gets one entry at a time, though the user, another request and autoplay may
\* join with it at once and add looks for an entry before it waits for the database.
OneEntry ==
  \A a \in Agents :
    Cardinality({c \in Callers : Calling(c, "adding") /\ Caller(c) = a})
      + (IF entry[a] = "none" THEN 0 ELSE 1) <= 1

\* A token is always in one place: a wallet, an entry, a match, the surplus of the
\* platform or out of the game; leaving, pairing and cancelling at once do not pay a
\* stake back twice.
StakesKept ==
  SumFunction(wallet) + SumFunction(surplus) + SumFunction(gone)
    + Cardinality({a \in Agents : entry[a] # "none"})
    + 2 * Cardinality({g \in playing : g.staked}) = Funds * Cardinality(Agents)

\* An idle, funded agent has an opponent: one in the queue, or one that waits too.
Ready(m) == auto[m] /\ status[m] = "idle" /\ wallet[m] > 0
Waits(m) == Ready(m) /\ \E a \in Agents \ {m} : entry[a] # "none" \/ (a \in Managed /\ Ready(a))
=============================================================================
