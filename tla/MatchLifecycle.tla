--------------------------- MODULE MatchLifecycle ---------------------------
(***************************************************************************)
(* The life of a match in the orchestrator: createMatch and startMatch,    *)
(* the game loop, the match clock, the two ways to end (endMatch through   *)
(* handleMatchEnd, and endMatchWithError), the guard set endedMatches with *)
(* its five second timer, the stale-match job, stopAll at shutdown, and    *)
(* recoverActiveMatches after a restart.                                   *)
(*                                                                         *)
(* The process is single threaded, so an action is the synchronous code    *)
(* between two awaits: it completes the awaited call and runs to the next  *)
(* one.  What a restart loses is the volatile state; docStatus and         *)
(* agentStatus live in MongoDB, held and payments are on the chain.        *)
(***************************************************************************)
EXTENDS Integers, FiniteSets

CONSTANTS Matches,
          Agents,
          Players,        \* [Matches -> SUBSET Agents]
          MaxRestarts,    \* bound: crashes and shutdowns
          MaxFaults,      \* bound: failing database calls
          MaxChainFaults  \* bound: failing token transfers

ASSUME PlayersAssumption == Players \in [Matches -> SUBSET Agents]
ASSUME BoundsAssumption == /\ MaxRestarts \in Nat
                           /\ MaxFaults \in Nat
                           /\ MaxChainFaults \in Nat

Callers == {"loop", "clock", "stop", "boot"}  \* who calls endMatch

VARIABLES
  docStatus,    \* Match.status, "none" before the document exists
  agentStatus,  \* Agent.status, restricted to "idle" and "in_match"
  held,         \* the players whose stake is in the platform wallet
  payments,     \* how often the pot has left the platform wallet
  stake,        \* "none", "prepaid" (USDC, x402) or "transfer" (ALPHA)
  memory,       \* the entry of activeMatches: "absent", "starting", "active"
  wallets,      \* the matches whose entry has its wallet addresses
  engines,      \* the matches with an engine state (chessEngines, ...)
  timers,       \* the matches whose clock is armed
  ended,        \* endedMatches
  expiring,     \* the matches whose five second guard timer is armed
  starter,      \* where createMatch and startMatch stand
  loop,         \* where the game loop stands
  handler,      \* where handleMatchEnd stands, for each caller of endMatch
  errorer,      \* where endMatchWithError stands
  sweep,        \* the stale matches MatchCleanupJob is closing
  server,       \* "up", "stopping", "down" or "booting"
  agenda,       \* the matches stopAll or recoverActiveMatches has to visit
  freeing,      \* the match whose players recovery is about to free
  restarts, faults, chainFaults  \* how much has gone wrong so far

store    == <<docStatus, agentStatus>>
chain    == <<held, payments, stake>>
guard    == <<ended, expiring>>
entry    == <<memory, wallets, engines, timers>>
tasks    == <<starter, loop, handler, errorer, sweep>>
process  == <<server, agenda, freeing>>
mishaps  == <<restarts, faults, chainFaults>>
vars     == <<store, chain, guard, entry, tasks, process, mishaps>>

-----------------------------------------------------------------------------
StarterPc == {"none", "marking", "loading", "transfer", "escrow",
              "activating", "cancel", "cancelling", "done", "failed"}
LoopPc    == {"none", "top", "turn", "done"}
HandlerPc == {"idle", "find", "settle", "save", "stats"}
ErrorerPc == {"idle", "save", "saveBlind", "free"}

TypeOK ==
  /\ docStatus \in [Matches -> {"none", "starting", "active", "completed",
                                "cancelled", "error"}]
  /\ agentStatus \in [Agents -> {"idle", "in_match"}]
  /\ held \in [Matches -> SUBSET Agents]
  /\ payments \in [Matches -> Nat]
  /\ stake \in [Matches -> {"none", "prepaid", "transfer"}]
  /\ memory \in [Matches -> {"absent", "starting", "active"}]
  /\ wallets \subseteq Matches /\ engines \subseteq Matches
  /\ timers \subseteq Matches
  /\ ended \subseteq Matches /\ expiring \subseteq Matches
  /\ starter \in [Matches -> StarterPc]
  /\ loop \in [Matches -> LoopPc]
  /\ handler \in [Matches -> [Callers -> HandlerPc]]
  /\ errorer \in [Matches -> ErrorerPc]
  /\ sweep \subseteq Matches
  /\ server \in {"up", "stopping", "down", "booting"}
  /\ agenda \subseteq Matches
  /\ freeing \subseteq Matches
  /\ restarts \in Nat /\ faults \in Nat /\ chainFaults \in Nat

Init ==
  /\ docStatus = [m \in Matches |-> "none"]
  /\ agentStatus = [a \in Agents |-> "idle"]
  /\ held = [m \in Matches |-> {}]
  /\ payments = [m \in Matches |-> 0]
  /\ stake = [m \in Matches |-> "none"]
  /\ memory = [m \in Matches |-> "absent"]
  /\ wallets = {} /\ engines = {} /\ timers = {}
  /\ ended = {} /\ expiring = {}
  /\ starter = [m \in Matches |-> "none"]
  /\ loop = [m \in Matches |-> "none"]
  /\ handler = [m \in Matches |-> [c \in Callers |-> "idle"]]
  /\ errorer = [m \in Matches |-> "idle"]
  /\ sweep = {}
  /\ server = "up" /\ agenda = {} /\ freeing = {}
  /\ restarts = 0 /\ faults = 0 /\ chainFaults = 0

-----------------------------------------------------------------------------
Set(f, m, v) == [f EXCEPT ![m] = v]

\* The status the players of m get in the database.
Mark(m, status) == agentStatus' = [a \in Agents |->
                                     IF a \in Players[m] THEN status
                                                         ELSE agentStatus[a]]

\* A database call of the process fails.
Fault      == faults < MaxFaults /\ faults' = faults + 1
              /\ UNCHANGED <<restarts, chainFaults>>
\* A token transfer fails.
ChainFault == chainFaults < MaxChainFaults /\ chainFaults' = chainFaults + 1
              /\ UNCHANGED <<restarts, faults>>

Running == server # "down"
Handling(m) == \E c \in Callers : handler[m][c] # "idle"

\* activeMatches.removeMatch, with the maps deleted along with the entry.
Remove(m) == /\ memory' = Set(memory, m, "absent")
             /\ wallets' = wallets \ {m}
             /\ engines' = engines \ {m}

\* A mutant of EndMatch: it does not look at endedMatches.
EndMatchUnguarded(m, c) ==
  /\ memory[m] # "absent"
  /\ timers' = timers \ {m}
  /\ ended' = ended \cup {m}
  /\ handler' = [handler EXCEPT ![m][c] = "find"]
  /\ UNCHANGED <<memory, wallets, engines, expiring>>

(***************************************************************************)
(* endMatch up to its first await: nothing if the match is in the guard    *)
(* set; otherwise it enters the guard set, and handleMatchEnd either finds *)
(* the entry and stops its clock, or returns at once and the finally block *)
(* runs.  A clock that calls has fired; stopAll stops the clock first.     *)
(***************************************************************************)
EndMatch(m, c) ==
  /\ timers' = IF \/ c = "clock"
                  \/ memory[m] # "absent" /\ (c = "stop" \/ m \notin ended)
               THEN timers \ {m} ELSE timers
  /\ UNCHANGED <<memory, wallets>>
  /\ \/ /\ m \in ended
        /\ UNCHANGED <<guard, engines, handler>>
     \/ /\ m \notin ended /\ memory[m] = "absent"
        /\ ended' = ended \cup {m}
        /\ expiring' = expiring \cup {m}
        /\ engines' = engines \ {m}
        /\ UNCHANGED handler
     \/ /\ m \notin ended /\ memory[m] # "absent"
        /\ ended' = ended \cup {m}
        /\ handler' = [handler EXCEPT ![m][c] = "find"]
        /\ UNCHANGED <<engines, expiring>>

\* endMatchWithError up to its first await.
EndMatchWithError(m) ==
  IF m \in ended
  THEN UNCHANGED <<ended, timers, errorer>>
  ELSE /\ ended' = ended \cup {m}
       /\ timers' = IF memory[m] = "absent" THEN timers ELSE timers \ {m}
       /\ errorer' = Set(errorer, m, IF memory[m] = "absent"
                                     THEN "saveBlind" ELSE "save")

-----------------------------------------------------------------------------
(* createMatch and startMatch *)

\* A mutant of Create: nobody looks whether a player is in another match.
CreateUnchecked(m) ==
  /\ server \in {"up", "stopping"}
  /\ docStatus[m] = "none"
  /\ stake' = Set(stake, m, "none")
  /\ docStatus' = Set(docStatus, m, "starting")
  /\ memory' = Set(memory, m, "starting")
  /\ engines' = engines \cup {m}
  /\ starter' = Set(starter, m, "marking")
  /\ UNCHANGED <<agentStatus, held, payments, guard, wallets, timers, loop,
                 handler, errorer, sweep, process, mishaps>>

Create(m) ==
  /\ server \in {"up", "stopping"}
  /\ docStatus[m] = "none"
  /\ \A a \in Players[m], n \in Matches :
        a \in Players[n] => memory[n] = "absent"
  /\ \E s \in {"none", "prepaid", "transfer"}, paid \in SUBSET Players[m] :
        /\ s = "none" => paid = {}
        /\ s = "prepaid" => paid = Players[m]
        /\ stake' = Set(stake, m, s)
        /\ held' = Set(held, m, paid)
  /\ docStatus' = Set(docStatus, m, "starting")
  /\ memory' = Set(memory, m, "starting")
  /\ engines' = engines \cup {m}
  /\ starter' = Set(starter, m, "marking")
  /\ UNCHANGED <<agentStatus, payments, guard, wallets, timers, loop,
                 handler, errorer, sweep, process, mishaps>>

\* The players' documents are set to in_match; startMatch begins.
MarkInMatch(m) ==
  /\ starter[m] = "marking"
  /\ \/ /\ Mark(m, "in_match")
        /\ starter' = Set(starter, m, IF memory[m] = "starting"
                                      THEN "loading" ELSE "failed")
        /\ UNCHANGED mishaps
     \/ /\ Fault
        /\ starter' = Set(starter, m, "failed")
        /\ UNCHANGED agentStatus
  /\ UNCHANGED <<docStatus, chain, guard, entry, loop, handler, errorer,
                 sweep, process>>

\* startMatch has read the match and the agents: a missing wallet (or no
\* platform wallet) cancels a staked match, otherwise the addresses are kept
\* in the entry, which updateMatch requires to be there.
LoadWallets(m) ==
  /\ starter[m] = "loading"
  /\ \/ /\ stake[m] # "none"
        /\ starter' = Set(starter, m, "cancel")
        /\ UNCHANGED <<memory, wallets>>
     \/ /\ memory[m] = "absent"
        /\ starter' = Set(starter, m, "failed")
        /\ UNCHANGED <<memory, wallets>>
     \/ /\ memory[m] # "absent"
        /\ wallets' = wallets \cup {m}
        /\ \/ /\ stake[m] = "none"
              /\ memory' = Set(memory, m, "active")
              /\ starter' = Set(starter, m, "activating")
           \/ /\ stake[m] # "none"
              /\ \E next \in {"cancel", IF stake[m] = "prepaid"
                                        THEN "escrow" ELSE "transfer"} :
                    starter' = Set(starter, m, next)
              /\ UNCHANGED memory
  /\ UNCHANGED <<store, chain, guard, engines, timers, loop, handler,
                 errorer, sweep, process, mishaps>>

\* A mutant of TransferStake: one transfer and on to the escrow.
TransferStakeOnce(m) ==
  /\ starter[m] = "transfer"
  /\ \E a \in Players[m] : held' = Set(held, m, held[m] \cup {a})
  /\ starter' = Set(starter, m, "escrow")
  /\ UNCHANGED <<store, payments, stake, guard, entry, loop, handler,
                 errorer, sweep, process, mishaps>>

\* The stakes of an ALPHA match are pulled one player after the other; a
\* failing transfer cancels the match and leaves the earlier ones where they are.
TransferStake(m) ==
  /\ starter[m] = "transfer"
  /\ \/ /\ held[m] # Players[m]
        /\ \E a \in Players[m] \ held[m] : held' = Set(held, m, held[m] \cup {a})
        /\ UNCHANGED <<starter, mishaps>>
     \/ /\ held[m] = Players[m]
        /\ starter' = Set(starter, m, "escrow")
        /\ UNCHANGED <<held, mishaps>>
     \/ /\ ChainFault
        /\ starter' = Set(starter, m, "cancel")
        /\ UNCHANGED held
  /\ UNCHANGED <<store, payments, stake, guard, entry, loop, handler,
                 errorer, sweep, process>>

\* The escrow hashes are stored; the entry becomes active.
RecordEscrow(m) ==
  /\ starter[m] = "escrow"
  /\ \/ /\ memory[m] # "absent"
        /\ memory' = Set(memory, m, "active")
        /\ starter' = Set(starter, m, "activating")
        /\ UNCHANGED mishaps
     \/ /\ memory[m] = "absent"
        /\ starter' = Set(starter, m, "failed")
        /\ UNCHANGED <<memory, mishaps>>
     \/ /\ Fault
        /\ starter' = Set(starter, m, "cancel")
        /\ UNCHANGED memory
  /\ UNCHANGED <<store, chain, guard, wallets, engines, timers, loop,
                 handler, errorer, sweep, process>>

\* The document becomes active, the clock is armed and the loop begins.
Activate(m) ==
  /\ starter[m] = "activating"
  /\ \/ /\ docStatus' = Set(docStatus, m, "active")
        /\ timers' = timers \cup {m}
        /\ loop' = Set(loop, m, "top")
        /\ starter' = Set(starter, m, "done")
        /\ UNCHANGED mishaps
     \/ /\ Fault
        /\ starter' = Set(starter, m, "failed")
        /\ UNCHANGED <<docStatus, timers, loop>>
  /\ UNCHANGED <<agentStatus, chain, guard, memory, wallets, engines,
                 handler, errorer, sweep, process>>

\* A mutant of CancelStart: a status the schema does not know.
CancelStartMisspelt(m) ==
  /\ starter[m] = "cancel"
  /\ docStatus' = Set(docStatus, m, "canceled")
  /\ starter' = Set(starter, m, "cancelling")
  /\ UNCHANGED <<agentStatus, chain, guard, entry, loop, handler, errorer,
                 sweep, process, mishaps>>

\* An early exit of startMatch: the document is cancelled ...
CancelStart(m) ==
  /\ starter[m] = "cancel"
  /\ \/ /\ docStatus' = Set(docStatus, m, "cancelled")
        /\ starter' = Set(starter, m, "cancelling")
        /\ UNCHANGED mishaps
     \/ /\ Fault
        /\ starter' = Set(starter, m, "failed")
        /\ UNCHANGED docStatus
  /\ UNCHANGED <<agentStatus, chain, guard, entry, loop, handler, errorer,
                 sweep, process>>

\* A mutant of FreeCancelled: the players stay in_match.
FreeCancelledUnfreed(m) ==
  /\ starter[m] = "cancelling"
  /\ Remove(m)
  /\ starter' = Set(starter, m, "done")
  /\ UNCHANGED <<store, chain, guard, timers, loop, handler, errorer, sweep,
                 process, mishaps>>

\* ... then the players are idle again and the entry is gone, and with it the
\* state of a marrakech match (that of another game stays behind).
FreeCancelled(m) ==
  /\ starter[m] = "cancelling"
  /\ \/ /\ Mark(m, "idle")
        /\ memory' = Set(memory, m, "absent")
        /\ wallets' = wallets \ {m}
        /\ engines' \in {engines, engines \ {m}}
        /\ starter' = Set(starter, m, "done")
        /\ UNCHANGED mishaps
     \/ /\ Fault
        /\ starter' = Set(starter, m, "failed")
        /\ UNCHANGED <<agentStatus, memory, wallets, engines>>
  /\ UNCHANGED <<docStatus, chain, guard, timers, loop, handler, errorer,
                 sweep, process>>

-----------------------------------------------------------------------------
(* The game loop and the match clock *)

\* The head of the loop: it leaves when the entry is gone, reports a lost
\* engine state, ends a finished or timed out game, or asks for a turn.
LoopTop(m) ==
  /\ loop[m] = "top"
  /\ \/ /\ memory[m] # "active"
        /\ loop' = Set(loop, m, "done")
        /\ UNCHANGED <<guard, memory, wallets, engines, timers, handler, errorer>>
     \/ /\ memory[m] = "active" /\ m \notin engines
        /\ EndMatchWithError(m)
        /\ loop' = Set(loop, m, "done")
        /\ UNCHANGED <<expiring, memory, wallets, engines, handler>>
     \/ /\ memory[m] = "active" /\ m \in engines
        /\ \/ /\ EndMatch(m, "loop")
              /\ loop' = Set(loop, m, "done")
           \/ /\ loop' = Set(loop, m, "turn")
              /\ UNCHANGED <<guard, memory, wallets, engines, timers, handler>>
        /\ UNCHANGED errorer
  /\ UNCHANGED <<store, chain, starter, sweep, process, mishaps>>

\* The turn controller returns.  If the entry is gone meanwhile, updateMatch
\* throws (the chess and reversi loops may also just return); a throw of the
\* loop is reported to endMatchWithError.
LoopTurn(m) ==
  /\ loop[m] = "turn"
  /\ \/ /\ memory[m] # "absent"
        /\ \/ /\ EndMatch(m, "loop")
              /\ loop' = Set(loop, m, "done")
           \/ /\ loop' = Set(loop, m, "top")
              /\ UNCHANGED <<guard, memory, wallets, engines, timers, handler>>
        /\ UNCHANGED errorer
     \/ /\ memory[m] = "absent"
        /\ loop' = Set(loop, m, "done")
        /\ UNCHANGED <<guard, memory, wallets, engines, timers, handler, errorer>>
     \/ /\ EndMatchWithError(m)
        /\ loop' = Set(loop, m, "done")
        /\ UNCHANGED <<expiring, memory, wallets, engines, handler>>
  /\ UNCHANGED <<store, chain, starter, sweep, process, mishaps>>

\* handleMatchTimeout: the match has lasted MATCH_DURATION_MS.
ClockFires(m) ==
  /\ m \in timers
  /\ IF memory[m] = "absent"
     THEN /\ timers' = timers \ {m}
          /\ UNCHANGED <<guard, memory, wallets, engines, handler>>
     ELSE EndMatch(m, "clock")
  /\ UNCHANGED <<store, chain, starter, loop, errorer, sweep, process, mishaps>>

GuardExpires(m) ==
  /\ m \in expiring
  /\ expiring' = expiring \ {m}
  /\ ended' = ended \ {m}
  /\ UNCHANGED <<store, chain, entry, tasks, process, mishaps>>

-----------------------------------------------------------------------------
(* handleMatchEnd, called by c *)

\* handleMatchEnd throws: endMatch logs it and runs its finally block, the
\* entry stays in activeMatches.
HandlerThrows(m, c) ==
  /\ Fault
  /\ handler' = [handler EXCEPT ![m][c] = "idle"]
  /\ engines' = engines \ {m}
  /\ expiring' = expiring \cup {m}
  /\ UNCHANGED <<store, chain, ended, memory, wallets, timers>>

\* A mutant of HandlerFinds: the guard timer is armed before the work is done.
HandlerFindsEarlyTimer(m, c) ==
  /\ handler[m][c] = "find"
  /\ handler' = [handler EXCEPT ![m][c] = IF stake[m] = "none" THEN "save"
                                                             ELSE "settle"]
  /\ expiring' = expiring \cup {m}
  /\ UNCHANGED <<store, chain, ended, entry, starter, loop, errorer, sweep,
                 process, mishaps>>

HandlerFinds(m, c) ==
  /\ handler[m][c] = "find"
  /\ \/ /\ handler' = [handler EXCEPT ![m][c] = IF stake[m] = "none" THEN "save"
                                                                   ELSE "settle"]
        /\ UNCHANGED <<store, chain, guard, entry, mishaps>>
     \/ HandlerThrows(m, c)
  /\ UNCHANGED <<starter, loop, errorer, sweep, process>>

\* The payout, or the refunds of a draw one after the other.  Whatever fails is
\* logged and the match goes on to be completed.
HandlerSettles(m, c) ==
  /\ handler[m][c] = "settle"
  /\ handler' = [handler EXCEPT ![m][c] = "save"]
  /\ \/ /\ m \in wallets
        /\ payments' = Set(payments, m, payments[m] + 1)
        /\ held' = Set(held, m, {})
        /\ UNCHANGED mishaps
     \/ /\ m \in wallets
        /\ ChainFault
        /\ \E unpaid \in SUBSET held[m] \ {{}} :
              /\ held' = Set(held, m, unpaid)
              /\ payments' = IF unpaid = held[m] THEN payments
                             ELSE Set(payments, m, payments[m] + 1)
     \/ /\ m \notin wallets
        /\ UNCHANGED <<held, payments, mishaps>>
  /\ UNCHANGED <<store, stake, guard, entry, starter, loop, errorer, sweep, process>>

HandlerSaves(m, c) ==
  /\ handler[m][c] = "save"
  /\ \/ /\ docStatus' = Set(docStatus, m, "completed")
        /\ handler' = [handler EXCEPT ![m][c] = "stats"]
        /\ UNCHANGED <<agentStatus, chain, guard, entry, mishaps>>
     \/ HandlerThrows(m, c)
  /\ UNCHANGED <<starter, loop, errorer, sweep, process>>

\* updateAgentStats swallows its errors; then the entry goes and endMatch's
\* finally block runs.
HandlerFrees(m, c) ==
  /\ handler[m][c] = "stats"
  /\ handler' = [handler EXCEPT ![m][c] = "idle"]
  /\ \/ /\ Mark(m, "idle")
        /\ UNCHANGED mishaps
     \/ /\ Fault
        /\ \E stuck \in SUBSET Players[m] \ {{}} :
              agentStatus' = [a \in Agents |->
                                IF a \in Players[m] \ stuck THEN "idle"
                                                            ELSE agentStatus[a]]
  /\ Remove(m)
  /\ expiring' = expiring \cup {m}
  /\ UNCHANGED <<docStatus, chain, ended, timers, starter, loop, errorer,
                 sweep, process>>

-----------------------------------------------------------------------------
(* endMatchWithError *)

\* What follows the try block: the entry goes, the guard timer is armed.
ErrorRemoves(m) == /\ Remove(m)
                   /\ expiring' = expiring \cup {m}
                   /\ errorer' = Set(errorer, m, "idle")

\* The document becomes "error".  refund is called without targets: it moves
\* nothing.
ErrorSaves(m) ==
  /\ errorer[m] \in {"save", "saveBlind"}
  /\ \/ /\ docStatus' = Set(docStatus, m, "error")
        /\ \/ /\ errorer[m] = "save"
              /\ errorer' = Set(errorer, m, "free")
              /\ UNCHANGED <<memory, wallets, engines, expiring>>
           \/ /\ errorer[m] = "saveBlind"
              /\ ErrorRemoves(m)
        /\ UNCHANGED mishaps
     \/ /\ Fault
        /\ ErrorRemoves(m)
        /\ UNCHANGED docStatus
  /\ UNCHANGED <<agentStatus, chain, ended, timers, starter, loop, handler,
                 sweep, process>>

ErrorFrees(m) ==
  /\ errorer[m] = "free"
  /\ ErrorRemoves(m)
  /\ \/ Mark(m, "idle") /\ UNCHANGED mishaps
     \/ Fault /\ UNCHANGED agentStatus
  /\ UNCHANGED <<docStatus, chain, ended, timers, starter, loop, handler,
                 sweep, process>>

-----------------------------------------------------------------------------
(* MatchCleanupJob *)

\* A mutant of Stale: matches that never started are not looked for.
StaleActive(m) == /\ docStatus[m] = "active"
                  /\ starter[m] \in {"none", "done", "failed"}
                  /\ loop[m] \in {"none", "done"}
                  /\ ~ Handling(m)
                  /\ errorer[m] = "idle"
                  /\ m \notin timers \cup ended

\* No document update for seven days: nothing that would write one is running,
\* and the clock, armed before the last write, has fired.
Stale(m) == /\ docStatus[m] \in {"starting", "active"}
            /\ starter[m] \in {"none", "done", "failed"}
            /\ loop[m] \in {"none", "done"}
            /\ ~ Handling(m)
            /\ errorer[m] = "idle"
            /\ m \notin timers \cup ended

SweepFinds ==
  /\ Running
  /\ sweep = {}
  /\ \E m \in Matches : Stale(m)
  /\ sweep' = {m \in Matches : Stale(m)}
  /\ UNCHANGED <<store, chain, guard, entry, starter, loop, handler, errorer,
                 process, mishaps>>

\* The documents become "error" whatever their status is by now, the players
\* idle, the entries go.
SweepCloses ==
  /\ sweep # {}
  /\ sweep' = {}
  /\ docStatus' = [m \in Matches |-> IF m \in sweep THEN "error" ELSE docStatus[m]]
  /\ agentStatus' = [a \in Agents |->
                       IF \E m \in sweep : a \in Players[m] THEN "idle"
                                                            ELSE agentStatus[a]]
  /\ memory' = [m \in Matches |-> IF m \in sweep THEN "absent" ELSE memory[m]]
  /\ wallets' = wallets \ sweep
  /\ timers' = timers \ {m \in sweep : memory[m] # "absent"}
  /\ UNCHANGED <<chain, guard, engines, starter, loop, handler, errorer,
                 process, mishaps>>

-----------------------------------------------------------------------------
(* Shutdown, crash and recovery *)

\* orchestrator.stop calls stopAll, which ends the matches one by one.
Stop ==
  /\ server = "up"
  /\ restarts < MaxRestarts
  /\ server' = "stopping"
  /\ agenda' = {m \in Matches : memory[m] # "absent"}
  /\ UNCHANGED <<store, chain, guard, entry, tasks, freeing, mishaps>>

StopEnds(m) ==
  /\ server = "stopping"
  /\ m \in agenda
  /\ \A n \in Matches : handler[n]["stop"] = "idle"
  /\ agenda' = agenda \ {m}
  /\ EndMatch(m, "stop")
  /\ UNCHANGED <<store, chain, starter, loop, errorer, sweep, server, freeing,
                 mishaps>>

\* The process ends: when stopAll is done, or by a crash at any time.
ProcessDies ==
  /\ server # "down"
  /\ restarts < MaxRestarts
  /\ restarts' = restarts + 1
  /\ server' = "down"
  /\ agenda' = {} /\ freeing' = {}
  /\ memory' = [m \in Matches |-> "absent"]
  /\ wallets' = {} /\ engines' = {} /\ timers' = {}
  /\ ended' = {} /\ expiring' = {}
  /\ starter' = [m \in Matches |-> IF starter[m] = "none" THEN "none" ELSE "done"]
  /\ loop' = [m \in Matches |-> "none"]
  /\ handler' = [m \in Matches |-> [c \in Callers |-> "idle"]]
  /\ errorer' = [m \in Matches |-> "idle"]
  /\ sweep' = {}
  /\ UNCHANGED <<store, chain, faults, chainFaults>>

Boot ==
  /\ server = "down"
  /\ server' = "booting"
  /\ agenda' = {m \in Matches : docStatus[m] \in {"starting", "active"}}
  /\ UNCHANGED <<store, chain, guard, entry, tasks, freeing, mishaps>>

\* recoverActiveMatches is at m: the starting matches come first.
Recovering(m) ==
  /\ server = "booting"
  /\ m \in agenda
  /\ freeing = {}
  /\ \A n \in Matches : handler[n]["boot"] = "idle"
  /\ docStatus[m] # "starting" => \A n \in agenda : docStatus[n] # "starting"

\* A starting match, and an active one of uno, rps or werewolf, is cancelled;
\* an active match whose agents are missing, or that cannot be rebuilt, is in
\* error.  No stake is sent back: refund has no targets.
RecoverCancels(m) ==
  /\ Recovering(m)
  /\ \/ docStatus' = Set(docStatus, m, "cancelled")
     \/ docStatus[m] = "active" /\ docStatus' = Set(docStatus, m, "error")
  /\ agenda' = agenda \ {m}
  /\ freeing' = {m}
  /\ UNCHANGED <<agentStatus, chain, guard, entry, tasks, server, mishaps>>

RecoverFrees(m) ==
  /\ m \in freeing
  /\ freeing' = {}
  /\ Mark(m, "idle")
  /\ UNCHANGED <<docStatus, chain, guard, entry, tasks, server, agenda, mishaps>>

\* Chess, poker, marrakech and reversi matches are rebuilt and go on.
RecoverResumes(m) ==
  /\ Recovering(m)
  /\ docStatus[m] = "active"
  /\ agenda' = agenda \ {m}
  /\ memory' = Set(memory, m, "active")
  /\ wallets' = wallets \cup {m}
  /\ engines' = engines \cup {m}
  /\ timers' = timers \cup {m}
  /\ loop' = Set(loop, m, "top")
  /\ UNCHANGED <<store, chain, guard, starter, handler, errorer, sweep,
                 server, freeing, mishaps>>

\* A match older than MATCH_DURATION_MS gets a minimal entry and is ended.
RecoverExpired(m) ==
  /\ Recovering(m)
  /\ docStatus[m] = "active"
  /\ agenda' = agenda \ {m}
  /\ memory' = Set(memory, m, "active")
  /\ wallets' = wallets \cup {m}
  /\ ended' = ended \cup {m}
  /\ handler' = [handler EXCEPT ![m]["boot"] = "find"]
  /\ UNCHANGED <<store, chain, expiring, engines, timers, starter, loop,
                 errorer, sweep, server, freeing, mishaps>>

BootDone ==
  /\ server = "booting"
  /\ agenda = {} /\ freeing = {}
  /\ \A n \in Matches : handler[n]["boot"] = "idle"
  /\ server' = "up"
  /\ UNCHANGED <<store, chain, guard, entry, tasks, agenda, freeing, mishaps>>

-----------------------------------------------------------------------------
StartStep(m) ==
  \/ MarkInMatch(m) \/ LoadWallets(m) \/ TransferStake(m) \/ RecordEscrow(m)
  \/ Activate(m) \/ CancelStart(m) \/ FreeCancelled(m)

HandlerStep(m, c) ==
  \/ HandlerFinds(m, c) \/ HandlerSettles(m, c)
  \/ HandlerSaves(m, c) \/ HandlerFrees(m, c)

ErrorStep(m) == ErrorSaves(m) \/ ErrorFrees(m)

RecoverStep(m) ==
  \/ RecoverCancels(m) \/ RecoverFrees(m) \/ RecoverResumes(m) \/ RecoverExpired(m)

Next ==
  \/ \E m \in Matches :
        \/ Create(m) \/ StartStep(m)
        \/ LoopTop(m) \/ LoopTurn(m) \/ ClockFires(m) \/ GuardExpires(m)
        \/ \E c \in Callers : HandlerStep(m, c)
        \/ ErrorStep(m)
        \/ StopEnds(m) \/ RecoverStep(m)
  \/ SweepFinds \/ SweepCloses
  \/ Stop \/ ProcessDies \/ Boot \/ BootDone

Spec == Init /\ [][Next]_vars

(***************************************************************************)
(* Fairness: an awaited call returns, a turn is bounded by its timeout, a  *)
(* timer fires, the cleanup job runs every five minutes and a process that *)
(* is down is started again.  Creating a match, stopping and crashing are  *)
(* never forced.                                                           *)
(***************************************************************************)
Fairness ==
  /\ \A m \in Matches :
        /\ WF_vars(StartStep(m))
        /\ WF_vars(LoopTop(m)) /\ WF_vars(LoopTurn(m))
        /\ WF_vars(ClockFires(m)) /\ WF_vars(GuardExpires(m))
        /\ \A c \in Callers : WF_vars(HandlerStep(m, c))
        /\ WF_vars(ErrorStep(m))
        /\ WF_vars(StopEnds(m)) /\ WF_vars(RecoverStep(m))
  /\ WF_vars(SweepFinds) /\ WF_vars(SweepCloses)
  /\ WF_vars(Boot) /\ WF_vars(BootDone)

FairSpec == Spec /\ Fairness
-----------------------------------------------------------------------------
(* Properties *)

\* The pot of a match leaves the platform wallet at most once, plus once for
\* every restart and every failed database call: endedMatches and activeMatches
\* together keep every other second call of handleMatchEnd from paying again.
PaymentsBounded == \A m \in Matches : payments[m] <= 1 + restarts + faults

\* One ending at a time: the loop, the clock, stopAll, recovery and an error may
\* all want to end a match, but endedMatches, whose entry outlives the work by five
\* seconds, lets one of them at a time pay, save and clean up.
OneEnding ==
  \A m \in Matches :
     /\ \A c, d \in Callers :
           handler[m][c] # "idle" /\ handler[m][d] # "idle" => c = d
     /\ errorer[m] # "idle" => ~ Handling(m)

\* A pot is paid out only when the platform holds the stake of every player:
\* the loop and the clock, which end a match, begin after startMatch has
\* collected all the stakes.
PaysCollectedStakes ==
  [][\A m \in Matches :
       payments'[m] > payments[m] => held[m] = Players[m]]_vars

\* Whoever plays is marked in_match: while the loop of a match runs and nobody
\* has begun to end it, no other match's end may set one of its players idle.
PlayersMarked ==
  \A m \in Matches : loop[m] \in {"top", "turn"} /\ memory[m] = "active" /\ m \notin ended
     => \A a \in Players[m] : agentStatus[a] = "in_match"

\* Every match reaches its end: whatever crashes and failing database calls have
\* cut short, the loop, the clock, recovery or in the last resort the cleanup job
\* gives its document a final status.
MatchesClose ==
  \A m \in Matches : docStatus[m] \in {"starting", "active"}
     ~> docStatus[m] \in {"completed", "cancelled", "error"}

\* An agent does not stay in_match for ever.
AgentsFreed ==
  \A a \in Agents : agentStatus[a] = "in_match" ~> agentStatus[a] = "idle"

\* The stakes of a match that ended in error or was cancelled have gone back.
RefundedOnError ==
  \A m \in Matches :
     /\ docStatus[m] \in {"error", "cancelled"}
     /\ memory[m] = "absent" /\ ~ Handling(m)
     /\ starter[m] \in {"done", "failed"} /\ freeing = {} /\ sweep = {}
     => held[m] = {}

-----------------------------------------------------------------------------
(***************************************************************************)
(* Why PaymentsBounded holds, as an inductive invariant of every match.    *)
(***************************************************************************)

\* Whoever ends the match holds it in endedMatches, its guard timer not armed yet.
GuardInv(m) ==
  /\ m \in expiring => m \in ended
  /\ Handling(m) \/ errorer[m] # "idle" => m \in ended \ expiring
  /\ \A c, d \in Callers : handler[m][c] # "idle" /\ handler[m][d] # "idle" => c = d
  /\ errorer[m] # "idle" => ~ Handling(m)

\* What is in memory or being ended has a document.
BornInv(m) == memory[m] # "absent" \/ Handling(m) => docStatus[m] # "none"

\* Nothing runs for a match before recovery has reached it, and the last restart
\* allows it one more payment.
Dormant(m) ==
  /\ memory[m] = "absent" /\ m \notin ended /\ m \notin timers
  /\ starter[m] \in {"none", "done"} /\ loop[m] = "none"
  /\ ~ Handling(m) /\ errorer[m] = "idle"
  /\ payments[m] <= restarts + faults

DormantInv(m) ==
  server = "down" \/ (server = "booting" /\ m \in agenda) => Dormant(m)

\* A match that has used up its payments is out of memory, or its handler is past
\* the payment.
PaymentInv(m) ==
  /\ payments[m] <= 1 + restarts + faults
  /\ payments[m] > restarts + faults =>
        /\ docStatus[m] # "none"
        /\ \A c \in Callers : handler[m][c] \notin {"find", "settle"}
        /\ memory[m] = "absent" \/ Handling(m)

MatchInv(m) == GuardInv(m) /\ BornInv(m) /\ DormantInv(m) /\ PaymentInv(m)

-----------------------------------------------------------------------------
(* Refinement: every step is a step of Settlement or leaves it unchanged. *)

StageOf(m) == IF docStatus[m] = "none" THEN "unborn"
              ELSE IF memory[m] # "absent" THEN "open" ELSE "closed"

Abstract == INSTANCE Settlement
              WITH stage <- [m \in Matches |-> StageOf(m)],
                   paid  <- payments

\* Without restarts and failing database calls MatchLifecycle implements
\* Settlement: a pot is paid at most once, between the match's creation and the
\* removal of its entry, and a removed entry never comes back.
ImplementsSettlement == Abstract!Spec
=============================================================================
