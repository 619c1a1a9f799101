------------------------ MODULE MatchLifecycleProofs ------------------------
(***************************************************************************)
(* Proofs about MatchLifecycle for every set of matches and agents and     *)
(* every bound: type correctness, and PaymentsBounded by an inductive      *)
(* invariant that says what the guard set endedMatches protects.  Then,    *)
(* while the process neither restarts nor sees a database call fail, and   *)
(* for any number of failing transfers: it implements Settlement, pays     *)
(* only when all stakes are collected, and whoever plays is marked         *)
(* in_match.                                                               *)
(***************************************************************************)
EXTENDS MatchLifecycle, TLAPS

-----------------------------------------------------------------------------
(* Type correctness *)

\* endMatch and endMatchWithError leave every variable they touch in its type.
LEMMA EndMatchType ==
  ASSUME TypeOK, NEW m \in Matches, NEW c \in Callers, EndMatch(m, c)
  PROVE  /\ ended' \subseteq Matches /\ expiring' \subseteq Matches
         /\ engines' \subseteq Matches /\ timers' \subseteq Matches
         /\ wallets' = wallets /\ memory' = memory
         /\ handler' \in [Matches -> [Callers -> HandlerPc]]
<1>1. ended \subseteq Matches /\ expiring \subseteq Matches
  BY DEF TypeOK
<1>2. engines \subseteq Matches /\ timers \subseteq Matches
  BY DEF TypeOK
<1>3. handler \in [Matches -> [Callers -> HandlerPc]] /\ "find" \in HandlerPc
  BY DEF TypeOK, HandlerPc
<1>4. handler' \in [Matches -> [Callers -> HandlerPc]]
  BY <1>3 DEF EndMatch
<1>5. ended' \subseteq Matches /\ expiring' \subseteq Matches
  BY <1>1 DEF EndMatch, guard
<1>6. engines' \subseteq Matches /\ timers' \subseteq Matches
  BY <1>2 DEF EndMatch
<1>7. QED BY <1>4, <1>5, <1>6 DEF EndMatch

LEMMA EndMatchWithErrorType ==
  ASSUME TypeOK, NEW m \in Matches, EndMatchWithError(m)
  PROVE  /\ ended' \subseteq Matches /\ timers' \subseteq Matches
         /\ errorer' \in [Matches -> ErrorerPc]
<1>1. ended \subseteq Matches /\ timers \subseteq Matches
  BY DEF TypeOK
<1>2. errorer \in [Matches -> ErrorerPc]
  BY DEF TypeOK
<1>3. "save" \in ErrorerPc /\ "saveBlind" \in ErrorerPc
  BY DEF ErrorerPc
<1>4. QED BY <1>1, <1>2, <1>3 DEF EndMatchWithError, Set

\* The counters stay naturals, whether or not a call fails.
LEMMA MishapsType ==
  ASSUME TypeOK, UNCHANGED mishaps \/ Fault \/ ChainFault
  PROVE  restarts' \in Nat /\ faults' \in Nat /\ chainFaults' \in Nat
BY DEF TypeOK, mishaps, Fault, ChainFault

\* Setting one place of a function keeps its type.
LEMMA SetType ==
  ASSUME NEW T, NEW f \in [Matches -> T], NEW m \in Matches, NEW v \in T
  PROVE  Set(f, m, v) \in [Matches -> T]
BY DEF Set

\* The steps of createMatch and startMatch.
LEMMA StartType == ASSUME TypeOK, NEW m \in Matches, StartStep(m) PROVE TypeOK'
<1> USE DEF store, chain, guard, entry, process, mishaps
<1>1. starter \in [Matches -> StarterPc] /\ loop \in [Matches -> LoopPc]
  BY DEF TypeOK
<1>2. /\ {"loading", "transfer", "escrow", "activating"} \subseteq StarterPc
      /\ {"cancel", "cancelling", "done", "failed"} \subseteq StarterPc
      /\ {"top"} \subseteq LoopPc
  BY DEF StarterPc, LoopPc
<1>3. /\ docStatus \in [Matches -> {"none", "starting", "active", "completed",
                                    "cancelled", "error"}]
      /\ agentStatus \in [Agents -> {"idle", "in_match"}]
  BY DEF TypeOK
<1>4. /\ memory \in [Matches -> {"absent", "starting", "active"}]
      /\ wallets \subseteq Matches /\ engines \subseteq Matches
      /\ timers \subseteq Matches
  BY DEF TypeOK
<1>5. held \in [Matches -> SUBSET Agents] /\ Players[m] \subseteq Agents
  BY PlayersAssumption DEF TypeOK
<1>6. CASE MarkInMatch(m)
  <2>1. starter' \in [Matches -> StarterPc]
    BY <1>1, <1>2, <1>6 DEF MarkInMatch, Set
  <2>2. agentStatus' \in [Agents -> {"idle", "in_match"}]
    BY <1>3, <1>6 DEF MarkInMatch, Mark
  <2>3. UNCHANGED mishaps \/ Fault
    BY <1>6 DEF MarkInMatch
  <2>4. QED BY <1>6, <2>1, <2>2, <2>3, MishapsType DEF TypeOK, MarkInMatch
<1>7. CASE LoadWallets(m)
  <2>1. starter' \in [Matches -> StarterPc]
    BY <1>1, <1>2, <1>7 DEF LoadWallets, Set
  <2>2. /\ memory' \in [Matches -> {"absent", "starting", "active"}]
        /\ wallets' \subseteq Matches
    BY <1>4, <1>7 DEF LoadWallets, Set
  <2>3. QED BY <1>7, <2>1, <2>2 DEF TypeOK, LoadWallets
<1>8. CASE TransferStake(m)
  <2>1. starter' \in [Matches -> StarterPc]
    BY <1>1, <1>2, <1>8 DEF TransferStake, Set
  <2>2. held' \in [Matches -> SUBSET Agents]
    BY <1>5, <1>8 DEF TransferStake, Set
  <2>3. UNCHANGED mishaps \/ ChainFault
    BY <1>8 DEF TransferStake
  <2>4. QED BY <1>8, <2>1, <2>2, <2>3, MishapsType DEF TypeOK, TransferStake
<1>9. CASE RecordEscrow(m)
  <2>1. starter' \in [Matches -> StarterPc]
    BY <1>1, <1>2, <1>9 DEF RecordEscrow, Set
  <2>2. memory' \in [Matches -> {"absent", "starting", "active"}]
    BY <1>4, <1>9 DEF RecordEscrow, Set
  <2>3. UNCHANGED mishaps \/ Fault
    BY <1>9 DEF RecordEscrow
  <2>4. QED BY <1>9, <2>1, <2>2, <2>3, MishapsType DEF TypeOK, RecordEscrow
<1>10. CASE Activate(m)
  <2>1. starter' \in [Matches -> StarterPc] /\ loop' \in [Matches -> LoopPc]
    BY <1>1, <1>2, <1>10 DEF Activate, Set
  <2>2. docStatus' \in [Matches -> {"none", "starting", "active", "completed",
                                    "cancelled", "error"}]
    BY <1>3, <1>10 DEF Activate, Set
  <2>3. timers' \subseteq Matches
    BY <1>4, <1>10 DEF Activate
  <2>4. UNCHANGED mishaps \/ Fault
    BY <1>10 DEF Activate
  <2>5. QED
    BY <1>10, <2>1, <2>2, <2>3, <2>4, MishapsType DEF TypeOK, Activate
<1>11. CASE CancelStart(m)
  <2>1. starter' \in [Matches -> StarterPc]
    BY <1>1, <1>2, <1>11 DEF CancelStart, Set
  <2>2. docStatus' \in [Matches -> {"none", "starting", "active", "completed",
                                    "cancelled", "error"}]
    BY <1>3, <1>11 DEF CancelStart, Set
  <2>3. UNCHANGED mishaps \/ Fault
    BY <1>11 DEF CancelStart
  <2>4. QED BY <1>11, <2>1, <2>2, <2>3, MishapsType DEF TypeOK, CancelStart
<1>12. CASE FreeCancelled(m)
  <2>1. starter' \in [Matches -> StarterPc]
    BY <1>1, <1>2, <1>12 DEF FreeCancelled, Set
  <2>2. agentStatus' \in [Agents -> {"idle", "in_match"}]
    BY <1>3, <1>12 DEF FreeCancelled, Mark
  <2>3. /\ memory' \in [Matches -> {"absent", "starting", "active"}]
        /\ wallets' \subseteq Matches /\ engines' \subseteq Matches
    BY <1>4, <1>12 DEF FreeCancelled, Remove, Set
  <2>4. UNCHANGED mishaps \/ Fault
    BY <1>12 DEF FreeCancelled
  <2>5. QED
    BY <1>12, <2>1, <2>2, <2>3, <2>4, MishapsType DEF TypeOK, FreeCancelled
<1>13. QED
  BY <1>6, <1>7, <1>8, <1>9, <1>10, <1>11, <1>12 DEF StartStep

\* The game loop, the clock, the guard timer and stopAll.
LEMMA EndingType ==
  ASSUME TypeOK, NEW m \in Matches,
         LoopTop(m) \/ LoopTurn(m) \/ ClockFires(m) \/ GuardExpires(m) \/ StopEnds(m)
  PROVE  TypeOK'
<1> USE DEF store, chain, guard, process, mishaps
<1>1. loop \in [Matches -> LoopPc] /\ {"turn", "top", "done"} \subseteq LoopPc
  BY DEF TypeOK, LoopPc
<1>2. {"loop", "clock", "stop"} \subseteq Callers
  BY DEF Callers
<1>3. CASE LoopTop(m)
  <2>1. loop' \in [Matches -> LoopPc]
    BY <1>1, <1>3 DEF LoopTop, Set
  <2>2. \/ EndMatch(m, "loop") /\ UNCHANGED errorer
        \/ EndMatchWithError(m) /\ UNCHANGED <<expiring, memory, wallets, engines, handler>>
        \/ UNCHANGED <<guard, memory, wallets, engines, timers, handler, errorer>>
    BY <1>3 DEF LoopTop
  <2>3. QED
    BY <1>2, <1>3, <2>1, <2>2, EndMatchType, EndMatchWithErrorType
    DEF TypeOK, LoopTop
<1>4. CASE LoopTurn(m)
  <2>1. loop' \in [Matches -> LoopPc]
    BY <1>1, <1>4 DEF LoopTurn, Set
  <2>2. \/ EndMatch(m, "loop") /\ UNCHANGED errorer
        \/ EndMatchWithError(m) /\ UNCHANGED <<expiring, memory, wallets, engines, handler>>
        \/ UNCHANGED <<guard, memory, wallets, engines, timers, handler, errorer>>
    BY <1>4 DEF LoopTurn
  <2>3. QED
    BY <1>2, <1>4, <2>1, <2>2, EndMatchType, EndMatchWithErrorType
    DEF TypeOK, LoopTurn
<1>5. CASE ClockFires(m)
  <2>1. \/ EndMatch(m, "clock")
        \/ /\ timers' \subseteq timers
           /\ UNCHANGED <<guard, memory, wallets, engines, handler>>
    BY <1>5 DEF ClockFires
  <2>2. QED BY <1>2, <1>5, <2>1, EndMatchType DEF TypeOK, ClockFires
<1>6. CASE GuardExpires(m)
  BY <1>6 DEF TypeOK, GuardExpires, entry, tasks
<1>7. CASE StopEnds(m)
  BY <1>2, <1>7, EndMatchType DEF TypeOK, StopEnds
<1>8. QED BY <1>3, <1>4, <1>5, <1>6, <1>7

\* handleMatchEnd and endMatchWithError.
LEMMA HandlerType ==
  ASSUME TypeOK, NEW m \in Matches, NEW c \in Callers, HandlerStep(m, c)
  PROVE  TypeOK'
<1> USE DEF store, chain, guard, entry, process, mishaps
<1>1. /\ handler \in [Matches -> [Callers -> HandlerPc]]
      /\ {"idle", "settle", "save", "stats"} \subseteq HandlerPc
  BY DEF TypeOK, HandlerPc
<1>2. engines \subseteq Matches /\ expiring \subseteq Matches
  BY DEF TypeOK
<1>3. held \in [Matches -> SUBSET Agents] /\ payments \in [Matches -> Nat]
  BY DEF TypeOK
<1>4. CASE HandlerFinds(m, c)
  <2>1. handler' \in [Matches -> [Callers -> HandlerPc]]
    BY <1>1, <1>4 DEF HandlerFinds, HandlerThrows
  <2>2. engines' \subseteq Matches /\ expiring' \subseteq Matches
    BY <1>2, <1>4 DEF HandlerFinds, HandlerThrows
  <2>3. UNCHANGED mishaps \/ Fault
    BY <1>4 DEF HandlerFinds, HandlerThrows
  <2>4. UNCHANGED <<store, chain, ended, memory, wallets, timers, starter,
                    loop, errorer, sweep, process>>
    BY <1>4 DEF HandlerFinds, HandlerThrows
  <2>5. QED BY <2>1, <2>2, <2>3, <2>4, MishapsType DEF TypeOK
<1>5. CASE HandlerSettles(m, c)
  <2>1. handler' \in [Matches -> [Callers -> HandlerPc]]
    BY <1>1, <1>5 DEF HandlerSettles
  <2>2. held' \in [Matches -> SUBSET Agents]
    <3>1. \E rest \in SUBSET Agents : held' = Set(held, m, rest) \/ held' = held
      BY <1>3, <1>5 DEF HandlerSettles
    <3>2. QED BY <1>3, <3>1 DEF Set
  <2>3. payments' \in [Matches -> Nat]
    BY <1>3, <1>5 DEF HandlerSettles, Set
  <2>4. UNCHANGED mishaps \/ ChainFault
    BY <1>5 DEF HandlerSettles
  <2>5. QED BY <1>5, <2>1, <2>2, <2>3, <2>4, MishapsType DEF TypeOK, HandlerSettles
<1>6. CASE HandlerSaves(m, c)
  <2>1. handler' \in [Matches -> [Callers -> HandlerPc]]
    BY <1>1, <1>6 DEF HandlerSaves, HandlerThrows
  <2>2. engines' \subseteq Matches /\ expiring' \subseteq Matches
    BY <1>2, <1>6 DEF HandlerSaves, HandlerThrows
  <2>3. UNCHANGED mishaps \/ Fault
    BY <1>6 DEF HandlerSaves, HandlerThrows
  <2>4. docStatus' = docStatus \/ docStatus' = Set(docStatus, m, "completed")
    BY <1>6 DEF HandlerSaves, HandlerThrows
  <2>5. docStatus' \in [Matches -> {"none", "starting", "active", "completed",
                                    "cancelled", "error"}]
    BY <2>4 DEF TypeOK, Set
  <2>6. UNCHANGED <<agentStatus, chain, ended, memory, wallets, timers, starter,
                    loop, errorer, sweep, process>>
    BY <1>6 DEF HandlerSaves, HandlerThrows
  <2>7. QED BY <2>1, <2>2, <2>3, <2>5, <2>6, MishapsType DEF TypeOK
<1>7. CASE HandlerFrees(m, c)
  <2>1. handler' \in [Matches -> [Callers -> HandlerPc]]
    BY <1>1, <1>7 DEF HandlerFrees
  <2>2. agentStatus' \in [Agents -> {"idle", "in_match"}]
    <3>1. agentStatus \in [Agents -> {"idle", "in_match"}]
      BY DEF TypeOK
    <3>2. QED BY <1>7, <3>1 DEF HandlerFrees, Mark
  <2>3. UNCHANGED mishaps \/ Fault
    BY <1>7 DEF HandlerFrees
  <2>4. memory' \in [Matches -> {"absent", "starting", "active"}]
    BY <1>7 DEF HandlerFrees, Remove, TypeOK, Set
  <2>5. QED
    BY <1>7, <2>1, <2>2, <2>3, <2>4, MishapsType DEF TypeOK, HandlerFrees, Remove
<1>8. QED BY <1>4, <1>5, <1>6, <1>7 DEF HandlerStep

LEMMA ErrorType == ASSUME TypeOK, NEW m \in Matches, ErrorStep(m) PROVE TypeOK'
<1> USE DEF chain, process, mishaps
<1>1. errorer \in [Matches -> ErrorerPc] /\ {"idle", "free"} \subseteq ErrorerPc
  BY DEF TypeOK, ErrorerPc
<1>2. errorer' \in [Matches -> ErrorerPc]
  BY <1>1 DEF ErrorStep, ErrorSaves, ErrorFrees, ErrorRemoves, Set
<1>3. memory' = memory \/ memory' = Set(memory, m, "absent")
  BY DEF ErrorStep, ErrorSaves, ErrorFrees, ErrorRemoves, Remove
<1>4. memory' \in [Matches -> {"absent", "starting", "active"}]
  BY <1>3 DEF TypeOK, Set
<1>5. wallets' \subseteq wallets /\ engines' \subseteq engines
      /\ expiring' \subseteq expiring \cup {m}
  BY DEF ErrorStep, ErrorSaves, ErrorFrees, ErrorRemoves, Remove
<1>6. UNCHANGED mishaps \/ Fault
  BY DEF ErrorStep, ErrorSaves, ErrorFrees
<1>7. docStatus' = docStatus \/ docStatus' = Set(docStatus, m, "error")
  BY DEF ErrorStep, ErrorSaves, ErrorFrees
<1>8. docStatus' \in [Matches -> {"none", "starting", "active", "completed",
                                  "cancelled", "error"}]
  BY <1>7 DEF TypeOK, Set
<1>9. agentStatus' = agentStatus \/ Mark(m, "idle")
  BY DEF ErrorStep, ErrorSaves, ErrorFrees
<1>10. agentStatus' \in [Agents -> {"idle", "in_match"}]
  BY <1>9 DEF TypeOK, Mark
<1>11. UNCHANGED <<chain, ended, timers, starter, loop, handler, sweep, process>>
  BY DEF ErrorStep, ErrorSaves, ErrorFrees
<1>12. QED
  BY <1>2, <1>4, <1>5, <1>6, <1>8, <1>10, <1>11, MishapsType DEF TypeOK

\* Recovery, the cleanup job, shutdown and the process itself.
LEMMA RecoverType == ASSUME TypeOK, NEW m \in Matches, RecoverStep(m) PROVE TypeOK'
<1> USE DEF store, chain, guard, entry, tasks, mishaps
<1>1. CASE RecoverCancels(m)
  <2>1. \E s \in {"cancelled", "error"} : docStatus' = Set(docStatus, m, s)
    BY <1>1 DEF RecoverCancels
  <2>2. docStatus' \in [Matches -> {"none", "starting", "active", "completed",
                                    "cancelled", "error"}]
    BY <2>1 DEF TypeOK, Set
  <2>3. QED BY <1>1, <2>2 DEF TypeOK, RecoverCancels
<1>2. CASE RecoverFrees(m)
  BY <1>2 DEF TypeOK, RecoverFrees, Mark
<1>3. CASE RecoverResumes(m)
  BY <1>3 DEF TypeOK, RecoverResumes, Set, LoopPc
<1>4. CASE RecoverExpired(m)
  BY <1>4 DEF TypeOK, RecoverExpired, Set, HandlerPc, Callers
<1>5. QED BY <1>1, <1>2, <1>3, <1>4 DEF RecoverStep

LEMMA ProcessType ==
  ASSUME TypeOK, SweepFinds \/ SweepCloses \/ Stop \/ ProcessDies \/ Boot \/ BootDone
  PROVE  TypeOK'
<1> USE DEF store, chain, guard, entry, tasks, process, mishaps
<1>1. CASE SweepFinds  BY <1>1 DEF TypeOK, SweepFinds
<1>2. CASE SweepCloses BY <1>2 DEF TypeOK, SweepCloses
<1>3. CASE Stop        BY <1>3 DEF TypeOK, Stop
<1>4. CASE ProcessDies
  BY <1>4 DEF TypeOK, ProcessDies, StarterPc, LoopPc, HandlerPc, ErrorerPc
<1>5. CASE Boot        BY <1>5 DEF TypeOK, Boot
<1>6. CASE BootDone    BY <1>6 DEF TypeOK, BootDone
<1>7. QED BY <1>1, <1>2, <1>3, <1>4, <1>5, <1>6

\* In every reachable state every variable has its type.
THEOREM TypeCorrect == Spec => []TypeOK
<1>1. Init => TypeOK
  BY DEF Init, TypeOK, StarterPc, LoopPc, HandlerPc, ErrorerPc
<1>2. TypeOK /\ [Next]_vars => TypeOK'
  <2> SUFFICES ASSUME TypeOK, [Next]_vars PROVE TypeOK'
    OBVIOUS
  <2>1. ASSUME NEW m \in Matches, Create(m) PROVE TypeOK'
    <3> USE DEF guard, process, mishaps
    <3>1. starter' \in [Matches -> StarterPc]
      BY <2>1 DEF TypeOK, Create, Set, StarterPc
    <3>2. /\ stake' \in [Matches -> {"none", "prepaid", "transfer"}]
          /\ held' \in [Matches -> SUBSET Agents]
      <4>1. PICK s \in {"none", "prepaid", "transfer"}, paid \in SUBSET Players[m] :
               /\ stake' = Set(stake, m, s)
               /\ held' = Set(held, m, paid)
        BY <2>1 DEF Create
      <4>2. Players[m] \subseteq Agents
        BY PlayersAssumption
      <4>3. QED BY <4>1, <4>2 DEF TypeOK, Set
    <3>3. /\ docStatus' = Set(docStatus, m, "starting")
          /\ memory' = Set(memory, m, "starting")
      BY <2>1 DEF Create
    <3>4. docStatus' \in [Matches -> {"none", "starting", "active", "completed",
                                      "cancelled", "error"}]
      BY <3>3 DEF TypeOK, Set
    <3>5. memory' \in [Matches -> {"absent", "starting", "active"}]
      BY <3>3 DEF TypeOK, Set
    <3>6. QED BY <2>1, <3>1, <3>2, <3>4, <3>5 DEF TypeOK, Create
  <2>2. CASE UNCHANGED vars
    BY <2>2 DEF TypeOK, vars, store, chain, guard, entry, tasks, process, mishaps
  <2>3. QED
    BY <2>1, <2>2, StartType, EndingType, HandlerType, ErrorType, RecoverType,
       ProcessType DEF Next
<1>3. QED BY <1>1, <1>2, PTL DEF Spec

-----------------------------------------------------------------------------
(* The inductive invariant *)

\* What a step on m leaves alone: everything MatchInv reads of the other matches.
Others(m) ==
  /\ server' = server /\ agenda' \subseteq agenda
  /\ restarts' = restarts /\ faults' >= faults
  /\ \A n \in Matches \ {m} :
        /\ docStatus'[n] = docStatus[n] /\ payments'[n] = payments[n]
        /\ memory'[n] = memory[n] /\ starter'[n] = starter[n]
        /\ loop'[n] = loop[n] /\ errorer'[n] = errorer[n]
        /\ \A c \in Callers : handler'[n][c] = handler[n][c]
        /\ (n \in ended') <=> (n \in ended)
        /\ (n \in expiring') <=> (n \in expiring)
        /\ (n \in timers') <=> (n \in timers)

\* So a step on m keeps MatchInv of every other match.
LEMMA OthersKept ==
  ASSUME TypeOK, TypeOK', NEW m \in Matches, NEW n \in Matches \ {m},
         Others(m), MatchInv(n)
  PROVE  MatchInv(n)'
<1>1. /\ restarts \in Nat /\ faults \in Nat /\ payments[n] \in Nat
      /\ restarts' = restarts /\ faults' >= faults /\ faults' \in Nat
      /\ server' = server /\ agenda' \subseteq agenda
  BY DEF TypeOK, Others
<1>2. /\ docStatus'[n] = docStatus[n] /\ payments'[n] = payments[n]
      /\ memory'[n] = memory[n] /\ starter'[n] = starter[n]
      /\ loop'[n] = loop[n] /\ errorer'[n] = errorer[n]
      /\ \A c \in Callers : handler'[n][c] = handler[n][c]
      /\ (n \in ended') <=> (n \in ended)
      /\ (n \in expiring') <=> (n \in expiring)
      /\ (n \in timers') <=> (n \in timers)
  BY DEF Others
<1>3. GuardInv(n)' BY <1>2 DEF MatchInv, GuardInv, Handling
<1>4. BornInv(n)' BY <1>2 DEF MatchInv, BornInv, Handling
<1>5. Dormant(n) => Dormant(n)'
  <2>1. payments[n] <= restarts + faults => payments'[n] <= restarts' + faults'
    BY <1>1, <1>2, SMT
  <2>2. QED BY <1>2, <2>1 DEF Dormant, Handling
<1>6. DormantInv(n)' BY <1>1, <1>2, <1>5 DEF MatchInv, DormantInv
<1>7. PaymentInv(n)'
  <2>1. PaymentInv(n) BY DEF MatchInv
  <2>2. payments'[n] <= 1 + restarts' + faults'
    BY <1>1, <1>2, <2>1 DEF PaymentInv
  <2>3. payments'[n] > restarts' + faults' => payments[n] > restarts + faults
    BY <1>1, <1>2
  <2>4. QED BY <1>2, <2>1, <2>2, <2>3 DEF PaymentInv, Handling
<1>8. QED BY <1>3, <1>4, <1>6, <1>7 DEF MatchInv

\* A failing call only adds to the failures.
LEMMA Failures ==
  ASSUME TypeOK, UNCHANGED mishaps \/ Fault \/ ChainFault
  PROVE  restarts' = restarts /\ faults' >= faults
BY DEF TypeOK, mishaps, Fault, ChainFault

\* A match that recovery has still to visit: nothing runs for it.
Asleep(m) == server = "down" \/ (server = "booting" /\ m \in agenda)

LEMMA AwakeKeeps ==
  ASSUME NEW m \in Matches, ~ Asleep(m), Others(m)
  PROVE  DormantInv(m)'
BY DEF Asleep, DormantInv, Others

\* The payments of a match stay bounded while none is made.
LEMMA UnpaidKeeps ==
  ASSUME TypeOK, TypeOK', NEW m \in Matches, Others(m), payments' = payments,
         PaymentInv(m)
  PROVE  /\ payments'[m] <= 1 + restarts' + faults'
         /\ payments'[m] > restarts' + faults' => payments[m] > restarts + faults
<1>1. /\ restarts' = restarts /\ faults' >= faults
      /\ restarts \in Nat /\ faults \in Nat /\ faults' \in Nat /\ payments[m] \in Nat
  BY DEF Others, TypeOK
<1>2. payments'[m] <= 1 + restarts' + faults'
  BY <1>1 DEF PaymentInv
<1>3. QED BY <1>1, <1>2

\* A step that starts no ending and pays nothing keeps MatchInv, unless it brings
\* the match into memory.
LEMMA QuietKeeps ==
  ASSUME TypeOK, TypeOK', NEW m \in Matches, MatchInv(m), ~ Asleep(m), Others(m),
         UNCHANGED <<payments, guard, handler, errorer>>,
         memory[m] = "absent" => memory'[m] = "absent",
         docStatus[m] # "none" => docStatus'[m] # "none"
  PROVE  MatchInv(m)'
<1>1. GuardInv(m)' BY DEF MatchInv, GuardInv, Handling, guard
<1>2. BornInv(m)' BY DEF MatchInv, BornInv, Handling
<1>3. PaymentInv(m)' BY UnpaidKeeps DEF MatchInv, PaymentInv, Handling
<1>4. QED BY <1>1, <1>2, <1>3, AwakeKeeps DEF MatchInv

\* startMatch.
LEMMA StartKeeps ==
  ASSUME TypeOK, TypeOK', NEW m \in Matches, MatchInv(m), StartStep(m)
  PROVE  Others(m) /\ MatchInv(m)'
<1> USE DEF StartStep
<1>1. /\ UNCHANGED <<payments, guard, handler, errorer, process>>
      /\ starter[m] \notin {"none", "done"}
  BY DEF MarkInMatch, LoadWallets, TransferStake, RecordEscrow, Activate,
         CancelStart, FreeCancelled, chain, guard, entry, process
<1>2. UNCHANGED mishaps \/ Fault \/ ChainFault
  BY DEF MarkInMatch, LoadWallets, TransferStake, RecordEscrow, Activate,
         CancelStart, FreeCancelled
<1>3. /\ memory[m] = "absent" => memory'[m] = "absent"
      /\ \A n \in Matches \ {m} : memory'[n] = memory[n]
  BY DEF MarkInMatch, LoadWallets, TransferStake, RecordEscrow, Activate,
         CancelStart, FreeCancelled, Remove, entry, Set, TypeOK
<1>4. /\ docStatus[m] # "none" => docStatus'[m] # "none"
      /\ \A n \in Matches \ {m} : docStatus'[n] = docStatus[n]
  BY DEF MarkInMatch, LoadWallets, TransferStake, RecordEscrow, Activate,
         CancelStart, FreeCancelled, store, Set, TypeOK
<1>5. \A n \in Matches \ {m} :
         /\ starter'[n] = starter[n] /\ loop'[n] = loop[n]
         /\ (n \in timers') <=> (n \in timers)
  BY DEF MarkInMatch, LoadWallets, TransferStake, RecordEscrow, Activate,
         CancelStart, FreeCancelled, entry, Set, TypeOK
<1>6. Others(m)
  BY <1>1, <1>2, <1>3, <1>4, <1>5, Failures DEF Others, guard, process
<1>7. ~ Asleep(m)
  BY <1>1 DEF MatchInv, DormantInv, Dormant, Asleep
<1>8. QED BY <1>1, <1>3, <1>4, <1>6, <1>7, QuietKeeps

\* createMatch: the match is new, so nobody has begun to end it.
LEMMA CreateKeeps ==
  ASSUME TypeOK, TypeOK', NEW m \in Matches, MatchInv(m), Create(m)
  PROVE  Others(m) /\ MatchInv(m)'
<1>1. /\ UNCHANGED <<payments, guard, timers, loop, handler, errorer, process, mishaps>>
      /\ docStatus' = Set(docStatus, m, "starting")
      /\ memory' = Set(memory, m, "starting")
      /\ starter' = Set(starter, m, "marking")
      /\ docStatus[m] = "none" /\ server \in {"up", "stopping"}
  BY DEF Create
<1>2. Others(m)
  BY <1>1 DEF Others, TypeOK, Set, guard, process, mishaps
<1>3. docStatus'[m] = "starting"
  BY <1>1 DEF Set, TypeOK
<1>4. GuardInv(m)'
  BY <1>1 DEF MatchInv, GuardInv, Handling, guard
<1>5. payments[m] <= restarts + faults
  BY <1>1 DEF MatchInv, PaymentInv, TypeOK
<1>6. PaymentInv(m)'
  BY <1>1, <1>5 DEF PaymentInv, TypeOK, mishaps
<1>7. QED
  BY <1>1, <1>2, <1>3, <1>4, <1>6, AwakeKeeps
  DEF MatchInv, BornInv, Asleep

\* endMatch up to its first await: the guard set lets it through only when nobody
\* else is ending the match.
LEMMA EndMatchKeeps ==
  ASSUME TypeOK, TypeOK', NEW m \in Matches, NEW c \in Callers,
         MatchInv(m), ~ Asleep(m), Others(m), EndMatch(m, c),
         UNCHANGED <<docStatus, payments, errorer>>
  PROVE  MatchInv(m)'
<1>1. CASE m \in ended
  BY <1>1, QuietKeeps DEF EndMatch
<1>2. CASE m \notin ended /\ memory[m] = "absent"
  <2>1. /\ ended' = ended \cup {m} /\ expiring' = expiring \cup {m}
        /\ handler' = handler /\ memory' = memory
    BY <1>2 DEF EndMatch
  <2>2. ~ Handling(m) /\ errorer[m] = "idle"
    BY <1>2 DEF MatchInv, GuardInv
  <2>3. GuardInv(m)' BY <2>1, <2>2 DEF MatchInv, GuardInv, Handling
  <2>4. BornInv(m)' BY <2>1 DEF MatchInv, BornInv, Handling
  <2>5. PaymentInv(m)'
    BY <2>1, UnpaidKeeps DEF MatchInv, PaymentInv, Handling
  <2>6. QED BY <2>3, <2>4, <2>5, AwakeKeeps DEF MatchInv
<1>3. CASE m \notin ended /\ memory[m] # "absent"
  <2>1. /\ ended' = ended \cup {m} /\ expiring' = expiring /\ memory' = memory
        /\ handler' = [handler EXCEPT ![m][c] = "find"]
    BY <1>3 DEF EndMatch
  <2>2. ~ Handling(m) /\ errorer[m] = "idle" /\ m \notin expiring
    BY <1>3 DEF MatchInv, GuardInv
  <2>3. \A d \in Callers : handler'[m][d] # "idle" => d = c
    BY <2>1, <2>2 DEF Handling, TypeOK
  <2>4. GuardInv(m)' BY <2>1, <2>2, <2>3 DEF GuardInv
  <2>5. docStatus[m] # "none" BY <1>3 DEF MatchInv, BornInv
  <2>6. ~ (payments[m] > restarts + faults)
    BY <1>3, <2>2 DEF MatchInv, PaymentInv
  <2>7. PaymentInv(m)'
    BY <2>6, UnpaidKeeps DEF MatchInv, PaymentInv
  <2>8. QED BY <2>4, <2>5, <2>7, AwakeKeeps DEF MatchInv, BornInv
<1>4. QED BY <1>1, <1>2, <1>3

LEMMA EndMatchWithErrorKeeps ==
  ASSUME TypeOK, TypeOK', NEW m \in Matches,
         MatchInv(m), ~ Asleep(m), Others(m), EndMatchWithError(m),
         UNCHANGED <<docStatus, payments, handler, memory, expiring>>
  PROVE  MatchInv(m)'
<1>1. CASE m \in ended
  BY <1>1, QuietKeeps DEF EndMatchWithError, guard
<1>2. CASE m \notin ended
  <2>1. ended' = ended \cup {m} /\ errorer'[m] # "idle"
    BY <1>2 DEF EndMatchWithError, Set, TypeOK
  <2>2. ~ Handling(m) /\ m \notin expiring
    BY <1>2 DEF MatchInv, GuardInv
  <2>3. GuardInv(m)' BY <2>1, <2>2 DEF MatchInv, GuardInv, Handling
  <2>4. BornInv(m)' BY <2>1 DEF MatchInv, BornInv, Handling
  <2>5. PaymentInv(m)'
    BY UnpaidKeeps DEF MatchInv, PaymentInv, Handling
  <2>6. QED BY <2>3, <2>4, <2>5, AwakeKeeps DEF MatchInv
<1>3. QED BY <1>1, <1>2

\* endMatch and endMatchWithError touch nothing of another match.
LEMMA EndMatchFrame ==
  ASSUME TypeOK, NEW m \in Matches, NEW n \in Matches \ {m},
         \/ \E c \in Callers : EndMatch(m, c) /\ UNCHANGED errorer
         \/ EndMatchWithError(m) /\ UNCHANGED <<expiring, memory, handler>>
         \/ UNCHANGED <<guard, memory, timers, handler, errorer>>
  PROVE  /\ memory'[n] = memory[n] /\ errorer'[n] = errorer[n]
         /\ \A c \in Callers : handler'[n][c] = handler[n][c]
         /\ (n \in ended') <=> (n \in ended)
         /\ (n \in expiring') <=> (n \in expiring)
         /\ (n \in timers') <=> (n \in timers)
BY DEF EndMatch, EndMatchWithError, guard, Set, TypeOK

\* The game loop, the clock, the guard timer and stopAll.
LEMMA LoopKeeps ==
  ASSUME TypeOK, TypeOK', NEW m \in Matches, MatchInv(m), LoopTop(m) \/ LoopTurn(m)
  PROVE  Others(m) /\ MatchInv(m)'
<1>1. /\ UNCHANGED <<store, chain, starter, sweep, process, mishaps>>
      /\ loop[m] # "none"
      /\ \E l \in LoopPc : loop' = Set(loop, m, l)
  BY DEF LoopTop, LoopTurn, LoopPc
<1>2. \/ EndMatch(m, "loop") /\ UNCHANGED errorer
      \/ EndMatchWithError(m) /\ UNCHANGED <<expiring, memory, handler>>
      \/ UNCHANGED <<guard, memory, timers, handler, errorer>>
  BY DEF LoopTop, LoopTurn
<1>3. "loop" \in Callers
  BY DEF Callers
<1>4. \A n \in Matches \ {m} : loop'[n] = loop[n]
  BY <1>1 DEF Set, TypeOK
<1>5. Others(m)
  BY <1>1, <1>2, <1>3, <1>4, EndMatchFrame
  DEF Others, store, chain, process, mishaps, TypeOK
<1>6. ~ Asleep(m)
  BY <1>1 DEF MatchInv, DormantInv, Dormant, Asleep
<1>7. MatchInv(m)'
  BY <1>1, <1>2, <1>3, <1>5, <1>6, EndMatchKeeps, EndMatchWithErrorKeeps, QuietKeeps
  DEF store, chain
<1>8. QED BY <1>5, <1>7

LEMMA ClockKeeps ==
  ASSUME TypeOK, TypeOK', NEW m \in Matches, MatchInv(m), ClockFires(m)
  PROVE  Others(m) /\ MatchInv(m)'
<1>1. /\ UNCHANGED <<store, chain, starter, loop, errorer, sweep, process, mishaps>>
      /\ m \in timers
  BY DEF ClockFires
<1>2. \/ EndMatch(m, "clock")
      \/ timers' = timers \ {m} /\ UNCHANGED <<guard, memory, handler>>
  BY DEF ClockFires
<1>3. "clock" \in Callers
  BY DEF Callers
<1>4. Others(m)
  <2>1. CASE EndMatch(m, "clock")
    BY <1>1, <1>3, <2>1, EndMatchFrame
    DEF Others, store, chain, process, mishaps, TypeOK
  <2>2. CASE timers' = timers \ {m} /\ UNCHANGED <<guard, memory, handler>>
    BY <1>1, <2>2 DEF Others, store, chain, guard, process, mishaps, TypeOK
  <2>3. QED BY <1>2, <2>1, <2>2
<1>5. ~ Asleep(m)
  BY <1>1 DEF MatchInv, DormantInv, Dormant, Asleep
<1>6. MatchInv(m)'
  BY <1>1, <1>2, <1>3, <1>4, <1>5, EndMatchKeeps, QuietKeeps DEF store, chain
<1>7. QED BY <1>4, <1>6

LEMMA GuardKeeps ==
  ASSUME TypeOK, TypeOK', NEW m \in Matches, MatchInv(m), GuardExpires(m)
  PROVE  Others(m) /\ MatchInv(m)'
<1>1. /\ UNCHANGED <<store, chain, entry, tasks, process, mishaps>>
      /\ m \in expiring /\ expiring' = expiring \ {m} /\ ended' = ended \ {m}
  BY DEF GuardExpires
<1>2. Others(m)
  BY <1>1 DEF Others, store, chain, entry, tasks, process, mishaps, TypeOK
<1>3. m \in ended /\ ~ Handling(m) /\ errorer[m] = "idle"
  BY <1>1 DEF MatchInv, GuardInv
<1>4. ~ Asleep(m)
  BY <1>3 DEF MatchInv, DormantInv, Dormant, Asleep
<1>5. GuardInv(m)'
  BY <1>1, <1>3 DEF MatchInv, GuardInv, Handling, tasks
<1>6. BornInv(m)'
  BY <1>1 DEF MatchInv, BornInv, Handling, store, entry, tasks
<1>7. PaymentInv(m)'
  BY <1>1, <1>2, UnpaidKeeps
  DEF MatchInv, PaymentInv, Handling, store, chain, entry, tasks
<1>8. QED BY <1>2, <1>4, <1>5, <1>6, <1>7, AwakeKeeps DEF MatchInv

LEMMA StopKeeps ==
  ASSUME TypeOK, TypeOK', NEW m \in Matches, MatchInv(m), StopEnds(m)
  PROVE  Others(m) /\ MatchInv(m)'
<1>1. /\ UNCHANGED <<store, chain, starter, loop, errorer, sweep, server, mishaps>>
      /\ server = "stopping" /\ agenda' = agenda \ {m} /\ EndMatch(m, "stop")
  BY DEF StopEnds
<1>2. "stop" \in Callers
  BY DEF Callers
<1>3. Others(m)
  BY <1>1, <1>2, EndMatchFrame DEF Others, store, chain, mishaps, TypeOK
<1>4. ~ Asleep(m)
  BY <1>1 DEF Asleep
<1>5. MatchInv(m)'
  BY <1>1, <1>2, <1>3, <1>4, EndMatchKeeps DEF store, chain
<1>6. QED BY <1>3, <1>5

\* A handler that goes on keeps the guard; its match is awake and has a document.
LEMMA HandlerAwake ==
  ASSUME NEW m \in Matches, NEW c \in Callers, MatchInv(m), handler[m][c] # "idle"
  PROVE  /\ m \in ended \ expiring /\ ~ Asleep(m) /\ docStatus[m] # "none"
         /\ errorer[m] = "idle"
         /\ \A d \in Callers \ {c} : handler[m][d] = "idle"
BY DEF MatchInv, GuardInv, BornInv, DormantInv, Dormant, Asleep, Handling

LEMMA HandlerGoesOn ==
  ASSUME TypeOK, TypeOK', NEW m \in Matches, NEW c \in Callers, MatchInv(m),
         Others(m), UNCHANGED <<guard, memory, errorer>>,
         handler[m][c] # "idle", docStatus'[m] # "none",
         NEW h \in {"settle", "save", "stats"},
         handler' = [handler EXCEPT ![m][c] = h],
         payments'[m] <= 1 + restarts' + faults',
         payments'[m] > restarts' + faults' => h # "settle"
  PROVE  MatchInv(m)'
<1>1. /\ m \in ended \ expiring /\ ~ Asleep(m)
      /\ errorer[m] = "idle"
      /\ \A d \in Callers \ {c} : handler[m][d] = "idle"
  BY HandlerAwake
<1>2. /\ handler'[m][c] = h
      /\ \A d \in Callers \ {c} : handler'[m][d] = "idle"
  BY <1>1 DEF TypeOK
<1>3. Handling(m)' BY <1>2 DEF Handling
<1>4. GuardInv(m)' BY <1>1, <1>2 DEF GuardInv, guard
<1>5. PaymentInv(m)' BY <1>2, <1>3 DEF PaymentInv
<1>6. QED BY <1>1, <1>4, <1>5, AwakeKeeps DEF MatchInv, BornInv

LEMMA HandlerThrowsKeeps ==
  ASSUME TypeOK, TypeOK', NEW m \in Matches, NEW c \in Callers, MatchInv(m),
         Others(m), UNCHANGED errorer, handler[m][c] # "idle", HandlerThrows(m, c)
  PROVE  MatchInv(m)'
<1>1. /\ m \in ended \ expiring /\ ~ Asleep(m) /\ docStatus[m] # "none"
      /\ errorer[m] = "idle"
      /\ \A d \in Callers \ {c} : handler[m][d] = "idle"
  BY HandlerAwake
<1>2. /\ UNCHANGED <<store, chain, ended, memory>>
      /\ handler' = [handler EXCEPT ![m][c] = "idle"]
      /\ expiring' = expiring \cup {m}
      /\ restarts' = restarts /\ faults' = faults + 1
  BY DEF HandlerThrows, Fault
<1>3. ~ Handling(m)' BY <1>1, <1>2 DEF Handling, TypeOK
<1>4. GuardInv(m)' BY <1>1, <1>2, <1>3 DEF GuardInv, Handling
<1>5. payments'[m] <= restarts' + faults'
  BY <1>2 DEF MatchInv, PaymentInv, chain, TypeOK
<1>6. PaymentInv(m)' BY <1>5 DEF PaymentInv, TypeOK
<1>7. QED BY <1>1, <1>2, <1>4, <1>6, AwakeKeeps DEF MatchInv, BornInv, store

\* handleMatchEnd pays only before the payment of this life of the process.
LEMMA HandlerKeeps ==
  ASSUME TypeOK, TypeOK', NEW m \in Matches, NEW c \in Callers, MatchInv(m),
         HandlerStep(m, c)
  PROVE  Others(m) /\ MatchInv(m)'
<1>1. PaymentInv(m) BY DEF MatchInv
<1>2. Others(m)
  <2>1. /\ UNCHANGED <<timers, starter, loop, errorer, process, ended>>
        /\ UNCHANGED mishaps \/ Fault \/ ChainFault
    BY DEF HandlerStep, HandlerFinds, HandlerSettles, HandlerSaves, HandlerFrees,
           HandlerThrows, guard, entry
  <2>2. \A n \in Matches \ {m} :
           /\ docStatus'[n] = docStatus[n] /\ memory'[n] = memory[n]
           /\ (n \in expiring') <=> (n \in expiring)
    BY DEF HandlerStep, HandlerFinds, HandlerSettles, HandlerSaves, HandlerFrees,
           HandlerThrows, Remove, Set, guard, entry, store, TypeOK
  <2>3. \A n \in Matches \ {m} : payments'[n] = payments[n]
    BY DEF HandlerStep, HandlerFinds, HandlerSettles, HandlerSaves, HandlerFrees,
           HandlerThrows, Set, chain, TypeOK
  <2>4. \A n \in Matches \ {m}, d \in Callers : handler'[n][d] = handler[n][d]
    BY DEF HandlerStep, HandlerFinds, HandlerSettles, HandlerSaves, HandlerFrees,
           HandlerThrows, TypeOK
  <2>5. QED BY <2>1, <2>2, <2>3, <2>4, Failures DEF Others, process
<1>3. CASE HandlerFinds(m, c)
  <2>1. handler[m][c] = "find" /\ UNCHANGED errorer
    BY <1>3 DEF HandlerFinds
  <2>2. CASE HandlerThrows(m, c)
    BY <1>2, <2>1, <2>2, HandlerThrowsKeeps
  <2>3. CASE /\ \E h \in {"settle", "save"} : handler' = [handler EXCEPT ![m][c] = h]
             /\ UNCHANGED <<store, chain, guard, entry, mishaps>>
    <3>1. ~ (payments[m] > restarts + faults)
      BY <1>1, <2>1 DEF PaymentInv
    <3>2. docStatus'[m] # "none"
      BY <2>1, <2>3, HandlerAwake DEF store
    <3>3. /\ payments'[m] <= 1 + restarts' + faults'
          /\ ~ (payments'[m] > restarts' + faults')
      BY <1>1, <2>3, <3>1 DEF PaymentInv, chain, mishaps
    <3>4. QED BY <1>2, <2>1, <2>3, <3>2, <3>3, HandlerGoesOn DEF entry
  <2>4. QED BY <1>3, <2>2, <2>3 DEF HandlerFinds
<1>4. CASE HandlerSettles(m, c)
  <2>1. /\ handler[m][c] = "settle"
        /\ handler' = [handler EXCEPT ![m][c] = "save"]
        /\ UNCHANGED <<store, guard, entry, errorer, restarts, faults>>
    BY <1>4 DEF HandlerSettles, ChainFault, mishaps
  <2>2. ~ (payments[m] > restarts + faults)
    BY <1>1, <2>1 DEF PaymentInv
  <2>3. payments' = payments \/ payments' = Set(payments, m, payments[m] + 1)
    BY <1>4 DEF HandlerSettles
  <2>4. payments'[m] <= 1 + restarts' + faults'
    BY <2>1, <2>2, <2>3 DEF Set, TypeOK
  <2>5. docStatus'[m] # "none"
    BY <2>1, HandlerAwake DEF store
  <2>6. QED BY <1>2, <2>1, <2>4, <2>5, HandlerGoesOn DEF entry
<1>5. CASE HandlerSaves(m, c)
  <2>1. handler[m][c] = "save" /\ UNCHANGED errorer
    BY <1>5 DEF HandlerSaves
  <2>2. CASE HandlerThrows(m, c)
    BY <1>2, <2>1, <2>2, HandlerThrowsKeeps
  <2>3. CASE /\ docStatus' = Set(docStatus, m, "completed")
             /\ handler' = [handler EXCEPT ![m][c] = "stats"]
             /\ UNCHANGED <<agentStatus, chain, guard, entry, mishaps>>
    <3>1. docStatus'[m] # "none"
      BY <2>3 DEF Set, TypeOK
    <3>2. payments'[m] <= 1 + restarts' + faults'
      BY <1>1, <2>3 DEF PaymentInv, chain, mishaps
    <3>3. QED BY <1>2, <2>1, <2>3, <3>1, <3>2, HandlerGoesOn DEF entry
  <2>4. QED BY <1>5, <2>2, <2>3 DEF HandlerSaves
<1>6. CASE HandlerFrees(m, c)
  <2>1. /\ handler[m][c] = "stats"
        /\ handler' = [handler EXCEPT ![m][c] = "idle"]
        /\ memory' = Set(memory, m, "absent") /\ expiring' = expiring \cup {m}
        /\ UNCHANGED <<docStatus, chain, ended, errorer>>
    BY <1>6 DEF HandlerFrees, Remove
  <2>2. /\ m \in ended \ expiring /\ ~ Asleep(m) /\ docStatus[m] # "none"
        /\ errorer[m] = "idle"
        /\ \A d \in Callers \ {c} : handler[m][d] = "idle"
    BY <2>1, HandlerAwake
  <2>3. \A d \in Callers : handler'[m][d] = "idle"
    BY <2>1, <2>2 DEF TypeOK
  <2>4. GuardInv(m)' BY <2>1, <2>2, <2>3 DEF GuardInv, Handling
  <2>5. memory'[m] = "absent"
    BY <2>1 DEF Set, TypeOK
  <2>6. PaymentInv(m)'
    BY <1>1, <1>2, <2>1, <2>2, <2>3, <2>5, UnpaidKeeps DEF PaymentInv, chain
  <2>7. QED BY <1>2, <2>1, <2>2, <2>4, <2>6, AwakeKeeps DEF MatchInv, BornInv
<1>7. QED BY <1>2, <1>3, <1>4, <1>5, <1>6 DEF HandlerStep

\* endMatchWithError pays nothing and leaves the match out of memory.
LEMMA ErrorKeeps ==
  ASSUME TypeOK, TypeOK', NEW m \in Matches, MatchInv(m), ErrorStep(m)
  PROVE  Others(m) /\ MatchInv(m)'
<1>1. /\ UNCHANGED <<chain, ended, timers, starter, loop, handler, process>>
      /\ errorer[m] # "idle"
      /\ UNCHANGED mishaps \/ Fault
  BY DEF ErrorStep, ErrorSaves, ErrorFrees
<1>2. \/ /\ errorer' = Set(errorer, m, "free")
         /\ UNCHANGED <<memory, wallets, engines, expiring>>
      \/ /\ errorer' = Set(errorer, m, "idle")
         /\ memory' = Set(memory, m, "absent")
         /\ expiring' = expiring \cup {m}
  BY DEF ErrorStep, ErrorSaves, ErrorFrees, ErrorRemoves, Remove
<1>3. docStatus' = docStatus \/ docStatus' = Set(docStatus, m, "error")
  BY DEF ErrorStep, ErrorSaves, ErrorFrees
<1>4. \A n \in Matches \ {m} :
         /\ docStatus'[n] = docStatus[n] /\ memory'[n] = memory[n]
         /\ errorer'[n] = errorer[n]
         /\ (n \in expiring') <=> (n \in expiring)
  BY <1>2, <1>3 DEF Set, TypeOK
<1>5. Others(m)
  BY <1>1, <1>4, Failures DEF Others, chain, process
<1>6. m \in ended \ expiring /\ ~ Handling(m) /\ ~ Asleep(m)
  BY <1>1 DEF MatchInv, GuardInv, DormantInv, Dormant, Asleep
<1>7. GuardInv(m)'
  BY <1>1, <1>2, <1>6 DEF GuardInv, Handling, Set, TypeOK
<1>8. /\ docStatus[m] # "none" => docStatus'[m] # "none"
      /\ memory[m] = "absent" => memory'[m] = "absent"
  BY <1>2, <1>3 DEF Set, TypeOK
<1>9. BornInv(m)'
  BY <1>1, <1>8 DEF MatchInv, BornInv, Handling
<1>10. PaymentInv(m)'
  BY <1>1, <1>5, <1>8, UnpaidKeeps DEF MatchInv, PaymentInv, Handling, chain
<1>11. QED BY <1>5, <1>6, <1>7, <1>9, <1>10, AwakeKeeps DEF MatchInv

\* Recovery wakes a match up: its document is there, and the restart that put it
\* to sleep allows one more payment.
LEMMA RecoverKeeps ==
  ASSUME TypeOK, TypeOK', NEW m \in Matches, MatchInv(m),
         RecoverCancels(m) \/ RecoverResumes(m) \/ RecoverExpired(m)
  PROVE  Others(m) /\ MatchInv(m)'
<1>1. Dormant(m)
  BY DEF RecoverCancels, RecoverResumes, RecoverExpired, Recovering,
         MatchInv, DormantInv
<1>2. /\ UNCHANGED <<chain, starter, errorer, expiring, server, mishaps>>
      /\ agenda' = agenda \ {m}
  <2>1. CASE RecoverCancels(m) BY <2>1 DEF RecoverCancels, guard, tasks
  <2>2. CASE RecoverResumes(m) BY <2>2 DEF RecoverResumes, guard
  <2>3. CASE RecoverExpired(m) BY <2>3 DEF RecoverExpired
  <2>4. QED BY <2>1, <2>2, <2>3
<1>3. ~ (payments'[m] > restarts' + faults')
  BY <1>1, <1>2 DEF Dormant, chain, mishaps, TypeOK
<1>4. payments'[m] <= 1 + restarts' + faults'
  BY <1>2 DEF MatchInv, PaymentInv, chain, mishaps
<1>5. PaymentInv(m)'
  BY <1>3, <1>4 DEF PaymentInv
<1>6. m \notin expiring /\ ~ Handling(m) /\ errorer[m] = "idle"
  BY <1>1 DEF MatchInv, GuardInv, Dormant
<1>7. CASE RecoverCancels(m)
  <2>1. UNCHANGED <<guard, memory, timers, loop, handler>>
    BY <1>7 DEF RecoverCancels, entry, tasks
  <2>2. \E s \in {"cancelled", "error"} : docStatus' = Set(docStatus, m, s)
    BY <1>7 DEF RecoverCancels
  <2>3. docStatus'[m] # "none" /\ \A n \in Matches \ {m} : docStatus'[n] = docStatus[n]
    BY <2>2 DEF Set, TypeOK
  <2>4. Others(m)
    BY <1>2, <2>1, <2>3 DEF Others, chain, guard, mishaps, TypeOK
  <2>5. GuardInv(m)' BY <1>2, <1>6, <2>1 DEF GuardInv, Handling, guard
  <2>6. DormantInv(m)' BY <1>2, <1>7 DEF DormantInv, RecoverCancels, Recovering
  <2>7. QED BY <1>5, <2>3, <2>4, <2>5, <2>6 DEF MatchInv, BornInv
<1>8. CASE RecoverResumes(m)
  <2>1. /\ UNCHANGED <<store, guard, handler>> /\ docStatus[m] = "active"
        /\ memory' = Set(memory, m, "active") /\ timers' = timers \cup {m}
        /\ loop' = Set(loop, m, "top")
    BY <1>8 DEF RecoverResumes
  <2>2. Others(m)
    BY <1>2, <2>1 DEF Others, chain, guard, store, mishaps, Set, TypeOK
  <2>3. GuardInv(m)' BY <1>2, <1>6, <2>1 DEF GuardInv, Handling, guard
  <2>4. DormantInv(m)' BY <1>2, <1>8 DEF DormantInv, RecoverResumes, Recovering
  <2>5. QED BY <1>5, <2>1, <2>2, <2>3, <2>4 DEF MatchInv, BornInv, store
<1>9. CASE RecoverExpired(m)
  <2>1. /\ UNCHANGED <<store, timers, loop>> /\ docStatus[m] = "active"
        /\ memory' = Set(memory, m, "active") /\ ended' = ended \cup {m}
        /\ handler' = [handler EXCEPT ![m]["boot"] = "find"]
    BY <1>9 DEF RecoverExpired
  <2>2. Others(m)
    BY <1>2, <2>1 DEF Others, chain, store, mishaps, Set, TypeOK
  <2>3. \A d \in Callers : handler'[m][d] # "idle" => d = "boot"
    BY <1>6, <2>1 DEF Handling, TypeOK
  <2>4. GuardInv(m)' BY <1>2, <1>6, <2>1, <2>3 DEF GuardInv
  <2>5. DormantInv(m)' BY <1>2, <1>9 DEF DormantInv, RecoverExpired, Recovering
  <2>6. QED BY <1>5, <2>1, <2>2, <2>4, <2>5 DEF MatchInv, BornInv, store
<1>10. QED BY <1>7, <1>8, <1>9

\* The steps of no match in particular.
LEMMA ProcessKeeps ==
  ASSUME TypeOK, TypeOK', \A m \in Matches : MatchInv(m),
         SweepFinds \/ SweepCloses \/ Stop \/ ProcessDies \/ Boot \/ BootDone
  PROVE  \A m \in Matches : MatchInv(m)'
<1> SUFFICES ASSUME NEW m \in Matches PROVE MatchInv(m)'
  OBVIOUS
<1> USE DEF store, chain, guard, entry, tasks, process, mishaps
<1>1. MatchInv(m)
  OBVIOUS
<1>2. CASE SweepFinds
  BY <1>1, <1>2 DEF SweepFinds, MatchInv, GuardInv, BornInv, DormantInv, Dormant,
                    PaymentInv, Handling
<1>3. CASE SweepCloses
  <2>1. /\ UNCHANGED <<chain, guard, starter, loop, handler, errorer, process, mishaps>>
        /\ docStatus[m] # "none" => docStatus'[m] # "none"
        /\ memory[m] = "absent" => memory'[m] = "absent"
        /\ timers' \subseteq timers
    BY <1>3 DEF SweepCloses
  <2>2. GuardInv(m)' BY <1>1, <2>1 DEF MatchInv, GuardInv, Handling
  <2>3. BornInv(m)' BY <1>1, <2>1 DEF MatchInv, BornInv, Handling
  <2>4. DormantInv(m)' BY <1>1, <2>1 DEF MatchInv, DormantInv, Dormant, Handling
  <2>5. PaymentInv(m)' BY <1>1, <2>1 DEF MatchInv, PaymentInv, Handling
  <2>6. QED BY <2>2, <2>3, <2>4, <2>5 DEF MatchInv
<1>4. CASE Stop
  BY <1>1, <1>4 DEF Stop, MatchInv, GuardInv, BornInv, DormantInv, Dormant,
                    PaymentInv, Handling
<1>5. CASE ProcessDies
  <2>1. /\ UNCHANGED <<docStatus, chain, faults>> /\ restarts' = restarts + 1
        /\ memory' = [n \in Matches |-> "absent"]
        /\ timers' = {} /\ ended' = {} /\ expiring' = {}
        /\ starter' = [n \in Matches |-> IF starter[n] = "none" THEN "none" ELSE "done"]
        /\ loop' = [n \in Matches |-> "none"]
        /\ handler' = [n \in Matches |-> [c \in Callers |-> "idle"]]
        /\ errorer' = [n \in Matches |-> "idle"]
    BY <1>5 DEF ProcessDies
  <2>2. ~ Handling(m)' BY <2>1 DEF Handling
  <2>3. GuardInv(m)' /\ BornInv(m)' BY <2>1, <2>2 DEF GuardInv, BornInv, Handling
  <2>4. payments'[m] <= restarts' + faults'
    BY <1>1, <2>1 DEF MatchInv, PaymentInv, TypeOK
  <2>5. DormantInv(m)' BY <2>1, <2>2, <2>4 DEF DormantInv, Dormant
  <2>6. PaymentInv(m)' BY <2>4 DEF PaymentInv, TypeOK
  <2>7. QED BY <2>3, <2>5, <2>6 DEF MatchInv
<1>6. CASE Boot
  BY <1>1, <1>6 DEF Boot, MatchInv, GuardInv, BornInv, DormantInv, Dormant,
                    PaymentInv, Handling
<1>7. CASE BootDone
  BY <1>1, <1>7 DEF BootDone, MatchInv, GuardInv, BornInv, DormantInv, Dormant,
                    PaymentInv, Handling
<1>8. QED BY <1>2, <1>3, <1>4, <1>5, <1>6, <1>7

\* A step that changes nothing MatchInv reads.
LEMMA StutterKeeps ==
  ASSUME NEW m \in Matches, MatchInv(m),
         UNCHANGED <<docStatus, payments, memory, timers, starter, loop, handler,
                     errorer, ended, expiring, server, agenda, restarts, faults>>
  PROVE  MatchInv(m)'
BY DEF MatchInv, GuardInv, BornInv, DormantInv, Dormant, PaymentInv, Handling

\* MatchInv is an invariant of every match.
LEMMA Invariance == Spec => [](TypeOK /\ \A m \in Matches : MatchInv(m))
<1> DEFINE Inv == \A m \in Matches : MatchInv(m)
<1>1. Init => Inv
  BY DEF Init, MatchInv, GuardInv, BornInv, DormantInv, PaymentInv, Handling
<1>2. TypeOK /\ TypeOK' /\ Inv /\ [Next]_vars => Inv'
  <2> SUFFICES ASSUME TypeOK, TypeOK', Inv, [Next]_vars PROVE Inv'
    OBVIOUS
  <2>1. ASSUME NEW m \in Matches, Others(m), MatchInv(m)' PROVE Inv'
    <3> SUFFICES ASSUME NEW n \in Matches PROVE MatchInv(n)'
      OBVIOUS
    <3>1. CASE n = m BY <2>1, <3>1
    <3>2. CASE n # m BY <2>1, <3>2, OthersKept
    <3>3. QED BY <3>1, <3>2
  <2>2. ASSUME NEW m \in Matches,
               \/ Create(m) \/ StartStep(m) \/ LoopTop(m) \/ LoopTurn(m)
               \/ ClockFires(m) \/ GuardExpires(m) \/ ErrorStep(m) \/ StopEnds(m)
               \/ \E c \in Callers : HandlerStep(m, c)
               \/ RecoverCancels(m) \/ RecoverResumes(m) \/ RecoverExpired(m)
        PROVE  Others(m) /\ MatchInv(m)'
    BY <2>2, CreateKeeps, StartKeeps, LoopKeeps, ClockKeeps, GuardKeeps,
       ErrorKeeps, StopKeeps, HandlerKeeps, RecoverKeeps
  <2>3. ASSUME NEW m \in Matches, RecoverFrees(m) PROVE Inv'
    BY <2>3, StutterKeeps
    DEF RecoverFrees, chain, guard, entry, tasks, mishaps
  <2>4. CASE UNCHANGED vars
    BY <2>4, StutterKeeps
    DEF vars, store, chain, guard, entry, tasks, process, mishaps
  <2>5. QED BY <2>1, <2>2, <2>3, <2>4, ProcessKeeps DEF Next, RecoverStep
<1>3. QED BY <1>1, <1>2, TypeCorrect, PTL DEF Spec

\* The pot of a match leaves the platform wallet at most once, plus once for every
\* restart and every failed database call.
THEOREM PaymentsAreBounded == Spec => []PaymentsBounded
<1>1. (\A m \in Matches : MatchInv(m)) => PaymentsBounded
  BY DEF PaymentsBounded, MatchInv, PaymentInv
<1>2. QED BY <1>1, Invariance, PTL

\* One ending at a time works on a match.
THEOREM EndingsExclude == Spec => []OneEnding
<1>1. (\A m \in Matches : MatchInv(m)) => OneEnding
  BY DEF OneEnding, MatchInv, GuardInv
<1>2. QED BY <1>1, Invariance, PTL

-----------------------------------------------------------------------------
(* The process, which runs without a mishap: the cleanup job never finds a match *)

CalmServer == /\ server = "up" /\ agenda = {} /\ freeing = {} /\ sweep = {}
              /\ restarts = 0 /\ faults = 0

-----------------------------------------------------------------------------
(* A match, by where its startMatch stands *)

\* Nothing runs for it but startMatch.
Quiet(m) == /\ loop[m] = "none" /\ m \notin timers
            /\ m \notin ended /\ m \notin expiring
            /\ ~ Handling(m) /\ errorer[m] = "idle"

Starting == {"marking", "loading", "transfer", "escrow", "activating", "cancel", "cancelling"}

BeforeStart(m) ==
  starter[m] = "none" => /\ docStatus[m] = "none" /\ memory[m] = "absent"
                         /\ Quiet(m)

InStart(m) ==
  starter[m] \in Starting =>
    /\ memory[m] = IF starter[m] = "activating" THEN "active" ELSE "starting"
    /\ docStatus[m] = IF starter[m] = "cancelling" THEN "cancelled" ELSE "starting"
    /\ Quiet(m)

\* In memory it is being ended or its clock is armed; out of memory its document
\* has a final status.
AfterStart(m) ==
  /\ starter[m] # "failed"
  /\ starter[m] = "done" =>
       \/ /\ memory[m] = "absent" /\ ~ Handling(m) /\ errorer[m] \in {"idle", "saveBlind"}
          /\ docStatus[m] \in {"completed", "cancelled", "error"}
       \/ /\ memory[m] = "active" /\ errorer[m] \in {"idle", "save", "free"}
          /\ docStatus[m] \in {"active", "completed", "error"}
          /\ m \in ended => Handling(m) \/ errorer[m] # "idle"
          /\ ~ Handling(m) /\ errorer[m] = "idle" => docStatus[m] = "active" /\ m \in timers
  /\ \A c \in Callers : handler[m][c] = "stats" => docStatus[m] = "completed"
  /\ errorer[m] = "free" => docStatus[m] = "error"

\* The stakes are all held from their collection to the payment.
Collected(m) == stake[m] = "none" \/ held[m] = Players[m]

StakesInv(m) ==
  /\ stake[m] = "prepaid" /\ starter[m] \in {"marking", "loading"} => Collected(m)
  /\ starter[m] \in {"escrow", "activating"} => Collected(m)
  /\ starter[m] = "done" /\ memory[m] # "absent" =>
        Collected(m) \/ \E c \in Callers : handler[m][c] \in {"save", "stats"}
  /\ \A c \in Callers : handler[m][c] = "settle" => stake[m] # "none"

LifeInv(m) == BeforeStart(m) /\ InStart(m) /\ AfterStart(m) /\ StakesInv(m)

-----------------------------------------------------------------------------
(* The players of the matches in memory *)

\* No agent is in two of them, and all of them are marked once startMatch begins.
Alone(m, n) == memory[m] # "absent" /\ memory[n] # "absent" => Players[m] \cap Players[n] = {}

Marked(m) == memory[m] # "absent" /\ starter[m] # "marking"
               => \A a \in Players[m] : agentStatus[a] = "in_match"

CalmInv == /\ CalmServer
           /\ \A m \in Matches : LifeInv(m) /\ Marked(m)
           /\ \A m, n \in Matches : m # n => Alone(m, n)
-----------------------------------------------------------------------------
(* Only steps of a match are taken *)

MatchStep(m) ==
  \/ Create(m) \/ StartStep(m) \/ LoopTop(m) \/ LoopTurn(m) \/ ClockFires(m)
  \/ GuardExpires(m) \/ ErrorStep(m) \/ \E c \in Callers : HandlerStep(m, c)

LEMMA NoFault == ASSUME MaxFaults = 0, TypeOK PROVE ~ Fault
BY DEF Fault, TypeOK

\* A match whose startMatch is over or not begun is not stale.
LEMMA NeverStale ==
  ASSUME NEW m \in Matches, LifeInv(m)
  PROVE  ~ Stale(m)
BY DEF LifeInv, BeforeStart, AfterStart, Quiet, Stale

LEMMA OnlyMatches ==
  ASSUME MaxRestarts = 0, TypeOK, CalmServer, \A m \in Matches : LifeInv(m), Next
  PROVE  \E m \in Matches : MatchStep(m)
<1>1. ~ SweepFinds /\ ~ SweepCloses
  BY NeverStale DEF SweepFinds, SweepCloses, CalmServer
<1>2. ~ Stop /\ ~ ProcessDies
  BY DEF Stop, ProcessDies, TypeOK
<1>3. ~ Boot /\ ~ BootDone
  BY DEF Boot, BootDone, CalmServer
<1>4. \A m \in Matches : ~ StopEnds(m) /\ ~ RecoverStep(m)
  BY DEF StopEnds, RecoverStep, RecoverCancels, RecoverFrees, RecoverResumes, RecoverExpired,
     Recovering, CalmServer
<1> QED
  BY <1>1, <1>2, <1>3, <1>4 DEF Next, MatchStep

LEMMA CalmGoesOn ==
  ASSUME MaxFaults = 0, TypeOK, CalmServer, NEW m \in Matches, MatchStep(m)
  PROVE  CalmServer'
<1>1. UNCHANGED <<process, sweep>>
  BY DEF MatchStep, Create, StartStep, MarkInMatch, LoadWallets, TransferStake, RecordEscrow,
     Activate, CancelStart, FreeCancelled, LoopTop, LoopTurn, ClockFires, GuardExpires, ErrorStep,
     ErrorSaves, ErrorFrees, HandlerStep, HandlerFinds, HandlerSettles, HandlerSaves, HandlerFrees,
     tasks
<1>2. UNCHANGED mishaps \/ ChainFault
  BY NoFault DEF MatchStep, Create, StartStep, MarkInMatch, LoadWallets, TransferStake, RecordEscrow,
     Activate, CancelStart, FreeCancelled, LoopTop, LoopTurn, ClockFires, GuardExpires, ErrorStep,
     ErrorSaves, ErrorFrees, HandlerStep, HandlerFinds, HandlerSettles, HandlerSaves, HandlerFrees,
     HandlerThrows
<1> QED
  BY <1>1, <1>2 DEF CalmServer, process, mishaps, ChainFault

-----------------------------------------------------------------------------
(* A step of one match leaves the others alone *)

Rests(m) == /\ Others(m)
            /\ \A n \in Matches \ {m} : stake'[n] = stake[n] /\ held'[n] = held[n]

LEMMA RestKeeps ==
  ASSUME NEW m \in Matches, NEW n \in Matches \ {m}, Rests(m), LifeInv(n)
  PROVE  LifeInv(n)'
<1>1. /\ docStatus'[n] = docStatus[n] /\ memory'[n] = memory[n] /\ starter'[n] = starter[n]
      /\ loop'[n] = loop[n] /\ errorer'[n] = errorer[n]
      /\ \A c \in Callers : handler'[n][c] = handler[n][c]
      /\ (n \in ended') <=> (n \in ended)
      /\ (n \in expiring') <=> (n \in expiring)
      /\ (n \in timers') <=> (n \in timers)
      /\ stake'[n] = stake[n] /\ held'[n] = held[n]
  BY DEF Rests, Others
<1>2. Handling(n)' <=> Handling(n)
  BY <1>1 DEF Handling
<1>3. Quiet(n)' <=> Quiet(n)
  BY <1>1, <1>2 DEF Quiet
<1>4. BeforeStart(n)' /\ InStart(n)'
  BY <1>1, <1>3 DEF LifeInv, BeforeStart, InStart
<1>5. AfterStart(n)'
  BY <1>1, <1>2 DEF LifeInv, AfterStart
<1>6. StakesInv(n)'
  BY <1>1 DEF LifeInv, StakesInv, Collected
<1> QED
  BY <1>4, <1>5, <1>6 DEF LifeInv

\* Whatever runs for a match but startMatch runs after it.
LEMMA AfterStartOnly ==
  ASSUME TypeOK, NEW m \in Matches, LifeInv(m), ~ Quiet(m)
  PROVE  starter[m] = "done"
BY DEF TypeOK, StarterPc, Starting, LifeInv, BeforeStart, InStart, AfterStart

-----------------------------------------------------------------------------
(* The steps *)

LEMMA CreateLife ==
  ASSUME TypeOK, TypeOK', NEW m \in Matches, LifeInv(m), Create(m)
  PROVE  LifeInv(m)'
<1>1. /\ UNCHANGED <<guard, timers, loop, handler, errorer>>
      /\ docStatus'[m] = "starting" /\ memory'[m] = "starting" /\ starter'[m] = "marking"
      /\ docStatus[m] = "none"
  BY DEF Create, Set, TypeOK
<1>2. starter[m] = "none"
  BY <1>1 DEF TypeOK, StarterPc, Starting, LifeInv, InStart, AfterStart
<1>3. Quiet(m)' /\ Quiet(m)
  BY <1>1, <1>2 DEF LifeInv, BeforeStart, Quiet, Handling, guard
<1>4. stake'[m] = "prepaid" => held'[m] = Players[m]
  BY DEF Create, Set, TypeOK
<1>5. \A c \in Callers : handler'[m][c] = "idle"
  BY <1>3 DEF Quiet, Handling
<1>6. BeforeStart(m)' /\ InStart(m)'
  BY <1>1, <1>3 DEF BeforeStart, InStart, Starting
<1>7. AfterStart(m)' /\ StakesInv(m)'
  BY <1>1, <1>3, <1>4, <1>5 DEF AfterStart, StakesInv, Collected, Quiet
<1> QED
  BY <1>6, <1>7 DEF LifeInv

\* startMatch: the stakes are collected before the match becomes active.
LEMMA StartLife ==
  ASSUME MaxFaults = 0, TypeOK, TypeOK', NEW m \in Matches, LifeInv(m), StartStep(m)
  PROVE  LifeInv(m)'
<1>1. ~ Fault
  BY NoFault
<1>2. /\ starter[m] \in Starting /\ Quiet(m)
      /\ memory[m] = IF starter[m] = "activating" THEN "active" ELSE "starting"
      /\ docStatus[m] = IF starter[m] = "cancelling" THEN "cancelled" ELSE "starting"
  BY DEF StartStep, MarkInMatch, LoadWallets, TransferStake, RecordEscrow, Activate, CancelStart,
     FreeCancelled, Starting, LifeInv, InStart
<1>3. /\ UNCHANGED <<guard, handler, errorer, stake>>
      /\ starter'[m] # "done" => UNCHANGED <<timers, loop>>
  BY <1>1 DEF StartStep, MarkInMatch, LoadWallets, TransferStake, RecordEscrow, Activate, CancelStart,
     FreeCancelled, chain, entry, Set, TypeOK
<1>4. \A c \in Callers : handler[m][c] = "idle" /\ handler'[m][c] = "idle"
  BY <1>2, <1>3 DEF Quiet, Handling
<1>5. errorer'[m] = "idle" /\ ~ Handling(m)' /\ m \notin ended'
  BY <1>2, <1>3, <1>4 DEF Quiet, Handling, guard
<1>6. starter'[m] # "done" => Quiet(m)'
  BY <1>2, <1>3, <1>5 DEF Quiet, guard
<1>7. CASE MarkInMatch(m)
  <2>1. starter[m] = "marking" /\ starter'[m] = "loading"
    BY <1>1, <1>2, <1>7 DEF MarkInMatch, Set, TypeOK
  <2>2. UNCHANGED <<memory, docStatus, held>>
    BY <1>7 DEF MarkInMatch, entry, chain
  <2> QED
    BY <1>2, <1>3, <1>4, <1>5, <1>6, <2>1, <2>2 DEF LifeInv, BeforeStart, InStart, AfterStart,
       StakesInv, Collected, Starting
<1>8. CASE LoadWallets(m)
  <2>1. /\ starter[m] = "loading" /\ UNCHANGED <<docStatus, held>>
        /\ \/ starter'[m] = "cancel" /\ memory'[m] = memory[m]
           \/ starter'[m] = "activating" /\ memory'[m] = "active" /\ stake[m] = "none"
           \/ starter'[m] = "escrow" /\ memory'[m] = memory[m] /\ stake[m] = "prepaid"
           \/ starter'[m] = "transfer" /\ memory'[m] = memory[m]
    BY <1>2, <1>8 DEF LoadWallets, Set, TypeOK, store, chain
  <2> QED
    BY <1>2, <1>3, <1>4, <1>5, <1>6, <2>1 DEF LifeInv, BeforeStart, InStart, AfterStart,
       StakesInv, Collected, Starting
<1>9. CASE TransferStake(m)
  <2>1. /\ starter[m] = "transfer" /\ UNCHANGED <<memory, docStatus>>
        /\ \/ starter'[m] = "transfer"
           \/ starter'[m] = "escrow" /\ held'[m] = Players[m]
           \/ starter'[m] = "cancel"
    BY <1>9 DEF TransferStake, Set, TypeOK, store, entry
  <2> QED
    BY <1>2, <1>3, <1>4, <1>5, <1>6, <2>1 DEF LifeInv, BeforeStart, InStart, AfterStart,
       StakesInv, Collected, Starting
<1>10. CASE RecordEscrow(m)
  <2>1. /\ starter[m] = "escrow" /\ UNCHANGED <<docStatus, held>>
        /\ starter'[m] = "activating" /\ memory'[m] = "active"
    BY <1>1, <1>2, <1>10 DEF RecordEscrow, Set, TypeOK, store, chain
  <2> QED
    BY <1>2, <1>3, <1>4, <1>5, <1>6, <2>1 DEF LifeInv, BeforeStart, InStart, AfterStart,
       StakesInv, Collected, Starting
<1>11. CASE Activate(m)
  <2>1. /\ starter[m] = "activating" /\ UNCHANGED <<memory, held>>
        /\ starter'[m] = "done" /\ docStatus'[m] = "active" /\ m \in timers'
    BY <1>1, <1>11 DEF Activate, Set, TypeOK, chain
  <2> QED
    BY <1>2, <1>3, <1>4, <1>5, <2>1 DEF LifeInv, BeforeStart, InStart, AfterStart,
       StakesInv, Collected, Starting
<1>12. CASE CancelStart(m)
  <2>1. /\ starter[m] = "cancel" /\ UNCHANGED <<memory, held>>
        /\ starter'[m] = "cancelling" /\ docStatus'[m] = "cancelled"
    BY <1>1, <1>12 DEF CancelStart, Set, TypeOK, entry, chain
  <2> QED
    BY <1>2, <1>3, <1>4, <1>5, <1>6, <2>1 DEF LifeInv, BeforeStart, InStart, AfterStart,
       StakesInv, Collected, Starting
<1>13. CASE FreeCancelled(m)
  <2>1. /\ starter[m] = "cancelling" /\ UNCHANGED <<docStatus, held>>
        /\ starter'[m] = "done" /\ memory'[m] = "absent"
    BY <1>1, <1>13 DEF FreeCancelled, Set, TypeOK, chain
  <2> QED
    BY <1>2, <1>3, <1>4, <1>5, <2>1 DEF LifeInv, BeforeStart, InStart, AfterStart,
       StakesInv, Collected, Starting
<1> QED
  BY <1>7, <1>8, <1>9, <1>10, <1>11, <1>12, <1>13 DEF StartStep

\* endMatch and endMatchWithError begin an ending; a loop or a clock that finds no
\* entry leaves.
LEMMA EndingLife ==
  ASSUME TypeOK, TypeOK', NEW m \in Matches, LifeInv(m), GuardInv(m),
         starter[m] = "done", UNCHANGED <<docStatus, held, stake, starter>>,
         \/ \E c \in Callers : EndMatch(m, c) /\ UNCHANGED errorer
         \/ EndMatchWithError(m) /\ UNCHANGED <<expiring, memory, handler>>
         \/ /\ UNCHANGED <<guard, memory, handler, errorer>>
            /\ timers' = timers \/ memory[m] = "absent"
  PROVE  LifeInv(m)'
<1>1. BeforeStart(m)' /\ InStart(m)'
  BY DEF BeforeStart, InStart, Starting
<1>2. AfterStart(m) /\ StakesInv(m)
  BY DEF LifeInv
<1>3. ASSUME NEW c \in Callers, EndMatch(m, c), UNCHANGED errorer
      PROVE  AfterStart(m)' /\ StakesInv(m)'
  <2>1. CASE m \in ended
    <3>1. UNCHANGED <<ended, handler, memory>>
      BY <1>3, <2>1 DEF EndMatch, guard
    <3>2. memory[m] = "active" => Handling(m) \/ errorer[m] # "idle"
      BY <1>2, <2>1 DEF AfterStart
    <3> QED BY <1>2, <1>3, <3>1, <3>2 DEF AfterStart, StakesInv, Collected, Handling
  <2>2. CASE m \notin ended /\ memory[m] = "absent"
    <3>1. UNCHANGED <<handler, memory>>
      BY <1>3, <2>2 DEF EndMatch
    <3> QED BY <1>2, <1>3, <2>2, <3>1 DEF AfterStart, StakesInv, Collected, Handling
  <2>3. CASE m \notin ended /\ memory[m] # "absent"
    <3>1. memory' = memory /\ handler' = [handler EXCEPT ![m][c] = "find"]
      BY <1>3, <2>3 DEF EndMatch
    <3>2. \A d \in Callers : handler[m][d] = "idle"
      BY <2>3 DEF GuardInv, Handling
    <3>3. /\ handler'[m][c] = "find"
          /\ \A d \in Callers : handler'[m][d] \in {"idle", "find"}
      BY <3>1, <3>2 DEF TypeOK
    <3>4. Collected(m)
      BY <1>2, <2>3, <3>2 DEF StakesInv
    <3>5. Handling(m)'
      BY <3>3 DEF Handling
    <3>6. AfterStart(m)'
      BY <1>2, <1>3, <2>3, <3>1, <3>3, <3>5 DEF AfterStart
    <3> QED BY <3>3, <3>4, <3>6 DEF StakesInv, Collected
  <2> QED BY <2>1, <2>2, <2>3
<1>4. ASSUME EndMatchWithError(m), UNCHANGED <<expiring, memory, handler>>
      PROVE  AfterStart(m)' /\ StakesInv(m)'
  <2>1. StakesInv(m)'
    BY <1>2, <1>4 DEF StakesInv, Collected
  <2>2. CASE m \in ended
    BY <1>2, <1>4, <2>1, <2>2 DEF EndMatchWithError, AfterStart, Handling
  <2>3. CASE m \notin ended
    <3>1. errorer'[m] = IF memory[m] = "absent" THEN "saveBlind" ELSE "save"
      BY <1>4, <2>3 DEF EndMatchWithError, Set, TypeOK
    <3> QED BY <1>2, <1>4, <2>1, <3>1 DEF AfterStart, Handling
  <2> QED BY <2>2, <2>3, <2>1
<1>5. ASSUME UNCHANGED <<guard, memory, handler, errorer>>,
             timers' = timers \/ memory[m] = "absent"
      PROVE  AfterStart(m)' /\ StakesInv(m)'
  BY <1>2, <1>5 DEF AfterStart, StakesInv, Collected, Handling, guard
<1> QED
  BY <1>1, <1>3, <1>4, <1>5 DEF LifeInv

\* The game loop and the match clock run after startMatch.
LEMMA LoopLife ==
  ASSUME TypeOK, TypeOK', NEW m \in Matches, LifeInv(m), GuardInv(m),
         LoopTop(m) \/ LoopTurn(m) \/ ClockFires(m)
  PROVE  LifeInv(m)'
<1>1. starter[m] = "done"
  BY AfterStartOnly DEF LoopTop, LoopTurn, ClockFires, Quiet
<1>2. UNCHANGED <<docStatus, held, stake, starter>>
  BY DEF LoopTop, LoopTurn, ClockFires, store, chain
<1>3. {"loop", "clock"} \subseteq Callers
  BY DEF Callers
<1>4. \/ \E c \in Callers : EndMatch(m, c) /\ UNCHANGED errorer
      \/ EndMatchWithError(m) /\ UNCHANGED <<expiring, memory, handler>>
      \/ /\ UNCHANGED <<guard, memory, handler, errorer>>
         /\ timers' = timers \/ memory[m] = "absent"
  BY <1>3 DEF LoopTop, LoopTurn, ClockFires
<1> QED
  BY <1>1, <1>2, <1>4, EndingLife

\* The guard timer of a match runs when its entry is gone.
LEMMA GuardLife ==
  ASSUME TypeOK, TypeOK', NEW m \in Matches, LifeInv(m), GuardInv(m), GuardExpires(m)
  PROVE  LifeInv(m)'
<1>1. starter[m] = "done"
  BY AfterStartOnly DEF GuardExpires, Quiet
<1>2. UNCHANGED <<docStatus, stake, held, memory, starter, handler, errorer, timers>>
  BY DEF GuardExpires, store, chain, entry, tasks
<1>3. m \in ended /\ ~ Handling(m) /\ errorer[m] = "idle"
  BY DEF GuardExpires, GuardInv
<1>4. memory[m] = "absent"
  BY <1>1, <1>3 DEF LifeInv, AfterStart
<1>5. BeforeStart(m)' /\ InStart(m)'
  BY <1>1, <1>2 DEF BeforeStart, InStart, Starting
<1>6. AfterStart(m)' /\ StakesInv(m)'
  BY <1>1, <1>2, <1>4 DEF LifeInv, AfterStart, StakesInv, Collected, Handling
<1> QED
  BY <1>5, <1>6 DEF LifeInv

\* handleMatchEnd: a settled match is completed whatever its payout did.
LEMMA HandlerLife ==
  ASSUME MaxFaults = 0, TypeOK, TypeOK', NEW m \in Matches, NEW c \in Callers,
         LifeInv(m), GuardInv(m), HandlerStep(m, c)
  PROVE  LifeInv(m)'
<1>1. ~ Fault
  BY NoFault
<1>2. handler[m][c] # "idle"
  BY DEF HandlerStep, HandlerFinds, HandlerSettles, HandlerSaves, HandlerFrees
<1>3. Handling(m)
  BY <1>2 DEF Handling
<1>4. starter[m] = "done" /\ starter' = starter /\ errorer' = errorer
  BY <1>3, AfterStartOnly DEF Quiet, HandlerStep, HandlerFinds, HandlerSettles,
     HandlerSaves, HandlerFrees
<1>5. \A d \in Callers \ {c} : handler[m][d] = "idle"
  BY <1>2 DEF GuardInv
<1>6. /\ memory[m] = "active" /\ errorer[m] = "idle"
      /\ docStatus[m] \in {"active", "completed", "error"}
  BY <1>3, <1>4 DEF LifeInv, AfterStart, GuardInv
<1>7. BeforeStart(m)' /\ InStart(m)'
  BY <1>4 DEF BeforeStart, InStart, Starting
<1>8. CASE HandlerFinds(m, c)
  <2>1. /\ handler[m][c] = "find"
        /\ handler' = [handler EXCEPT ![m][c] = IF stake[m] = "none" THEN "save" ELSE "settle"]
        /\ UNCHANGED <<docStatus, stake, held, memory>>
    BY <1>1, <1>8 DEF HandlerFinds, HandlerThrows, store, chain, entry
  <2>2. /\ handler'[m][c] = IF stake[m] = "none" THEN "save" ELSE "settle"
        /\ \A d \in Callers \ {c} : handler'[m][d] = "idle"
    BY <1>5, <2>1 DEF TypeOK
  <2>3. Collected(m)
    BY <1>4, <1>5, <1>6, <2>1 DEF LifeInv, StakesInv
  <2>4. AfterStart(m)'
    BY <1>4, <1>6, <2>1, <2>2 DEF AfterStart, Handling
  <2>5. StakesInv(m)'
    BY <1>4, <2>1, <2>2, <2>3 DEF StakesInv, Collected
  <2> QED BY <1>7, <2>4, <2>5 DEF LifeInv
<1>9. CASE HandlerSettles(m, c)
  <2>1. /\ handler' = [handler EXCEPT ![m][c] = "save"]
        /\ UNCHANGED <<docStatus, stake, memory>>
    BY <1>9 DEF HandlerSettles, store, entry
  <2>2. /\ handler'[m][c] = "save"
        /\ \A d \in Callers \ {c} : handler'[m][d] = "idle"
    BY <1>5, <2>1 DEF TypeOK
  <2>3. AfterStart(m)'
    BY <1>4, <1>6, <2>1, <2>2 DEF AfterStart, Handling
  <2>4. StakesInv(m)'
    BY <1>4, <2>1, <2>2 DEF StakesInv, Collected
  <2> QED BY <1>7, <2>3, <2>4 DEF LifeInv
<1>10. CASE HandlerSaves(m, c)
  <2>1. /\ handler' = [handler EXCEPT ![m][c] = "stats"]
        /\ docStatus' = Set(docStatus, m, "completed")
        /\ UNCHANGED <<stake, memory>>
    BY <1>1, <1>10 DEF HandlerSaves, HandlerThrows, chain, entry
  <2>2. /\ handler'[m][c] = "stats"
        /\ \A d \in Callers \ {c} : handler'[m][d] = "idle"
    BY <1>5, <2>1 DEF TypeOK
  <2>3. docStatus'[m] = "completed"
    BY <2>1 DEF Set, TypeOK
  <2>4. AfterStart(m)'
    BY <1>4, <1>6, <2>1, <2>2, <2>3 DEF AfterStart, Handling
  <2>5. StakesInv(m)'
    BY <1>4, <2>1, <2>2 DEF StakesInv, Collected
  <2> QED BY <1>7, <2>4, <2>5 DEF LifeInv
<1>11. CASE HandlerFrees(m, c)
  <2>1. /\ handler[m][c] = "stats"
        /\ handler' = [handler EXCEPT ![m][c] = "idle"]
        /\ memory' = Set(memory, m, "absent")
        /\ docStatus' = docStatus
    BY <1>11 DEF HandlerFrees, Remove
  <2>2. \A d \in Callers : handler'[m][d] = "idle"
    BY <1>5, <2>1 DEF TypeOK
  <2>3. memory'[m] = "absent"
    BY <2>1 DEF Set, TypeOK
  <2>4. docStatus[m] = "completed"
    BY <2>1 DEF LifeInv, AfterStart
  <2>5. AfterStart(m)'
    BY <1>4, <1>6, <2>1, <2>2, <2>3, <2>4 DEF AfterStart, Handling
  <2>6. StakesInv(m)'
    BY <1>4, <2>2, <2>3 DEF StakesInv
  <2> QED BY <1>7, <2>5, <2>6 DEF LifeInv
<1> QED
  BY <1>8, <1>9, <1>10, <1>11 DEF HandlerStep

\* endMatchWithError.
LEMMA ErrorLife ==
  ASSUME MaxFaults = 0, TypeOK, TypeOK', NEW m \in Matches, LifeInv(m), GuardInv(m),
         ErrorStep(m)
  PROVE  LifeInv(m)'
<1>1. ~ Fault
  BY NoFault
<1>2. errorer[m] # "idle" /\ ~ Handling(m)
  BY DEF ErrorStep, ErrorSaves, ErrorFrees, GuardInv
<1>3. /\ starter[m] = "done"
      /\ UNCHANGED <<starter, handler, stake, held>>
  BY <1>2, AfterStartOnly DEF Quiet, ErrorStep, ErrorSaves, ErrorFrees, chain
<1>4. \A c \in Callers : handler[m][c] = "idle" /\ handler'[m][c] = "idle"
  BY <1>2, <1>3 DEF Handling
<1>5. ~ Handling(m)'
  BY <1>4 DEF Handling
<1>6. BeforeStart(m)' /\ InStart(m)'
  BY <1>3 DEF BeforeStart, InStart, Starting
<1>7. CASE errorer[m] = "save"
  <2>1. /\ errorer' = Set(errorer, m, "free") /\ docStatus' = Set(docStatus, m, "error")
        /\ memory' = memory
    BY <1>1, <1>7 DEF ErrorStep, ErrorSaves, ErrorFrees
  <2>2. errorer'[m] = "free" /\ docStatus'[m] = "error"
    BY <2>1 DEF Set, TypeOK
  <2>3. memory[m] = "active"
    BY <1>3, <1>7 DEF LifeInv, AfterStart
  <2>4. AfterStart(m)'
    BY <1>3, <1>4, <2>1, <2>2, <2>3 DEF AfterStart
  <2>5. StakesInv(m)'
    BY <1>3, <1>4, <2>1 DEF LifeInv, StakesInv, Collected
  <2> QED BY <1>6, <2>4, <2>5 DEF LifeInv
<1>8. CASE errorer[m] # "save"
  <2>1. /\ errorer' = Set(errorer, m, "idle") /\ memory' = Set(memory, m, "absent")
        /\ \/ docStatus' = Set(docStatus, m, "error")
           \/ errorer[m] = "free" /\ docStatus' = docStatus
    BY <1>1, <1>8 DEF ErrorStep, ErrorSaves, ErrorFrees, ErrorRemoves, Remove
  <2>2. errorer'[m] = "idle" /\ memory'[m] = "absent" /\ docStatus'[m] = "error"
    BY <2>1 DEF LifeInv, AfterStart, Set, TypeOK
  <2>3. AfterStart(m)'
    BY <1>3, <1>4, <1>5, <2>2 DEF AfterStart
  <2>4. StakesInv(m)'
    BY <1>3, <1>4, <2>2 DEF StakesInv
  <2> QED BY <1>6, <2>3, <2>4 DEF LifeInv
<1> QED
  BY <1>7, <1>8

-----------------------------------------------------------------------------
(* The steps together *)

LEMMA StepLife ==
  ASSUME MaxFaults = 0, TypeOK, TypeOK', NEW m \in Matches, LifeInv(m), MatchInv(m),
         MatchStep(m)
  PROVE  LifeInv(m)'
<1>1. GuardInv(m)
  BY DEF MatchInv
<1> QED
  BY <1>1, CreateLife, StartLife, LoopLife, GuardLife, HandlerLife, ErrorLife DEF MatchStep

LEMMA StepRests ==
  ASSUME TypeOK, TypeOK', NEW m \in Matches, MatchInv(m), MatchStep(m)
  PROVE  Rests(m)
<1>1. Others(m)
  BY CreateKeeps, StartKeeps, LoopKeeps, ClockKeeps, GuardKeeps, HandlerKeeps, ErrorKeeps
  DEF MatchStep
<1>2. CASE Create(m)
  BY <1>1, <1>2 DEF Create, Set, Rests, TypeOK
<1>3. CASE ~ Create(m)
  <2>1. UNCHANGED stake /\ (UNCHANGED held \/ \E h \in SUBSET Agents : held' = Set(held, m, h))
    <3>1. CASE StartStep(m)
      <4>1. UNCHANGED stake /\ (UNCHANGED held \/ \E h : held' = Set(held, m, h))
        BY <3>1 DEF StartStep, MarkInMatch, LoadWallets, TransferStake, RecordEscrow, Activate,
           CancelStart, FreeCancelled, chain
      <4> QED BY <4>1 DEF Set, TypeOK
    <3>2. CASE \E c \in Callers : HandlerStep(m, c)
      <4>1. UNCHANGED stake /\ (UNCHANGED held \/ \E h : held' = Set(held, m, h))
        BY <3>2 DEF HandlerStep, HandlerFinds, HandlerSettles, HandlerSaves, HandlerFrees,
           HandlerThrows, chain
      <4> QED BY <4>1 DEF Set, TypeOK
    <3>3. CASE LoopTop(m) \/ LoopTurn(m) \/ ClockFires(m) \/ GuardExpires(m) \/ ErrorStep(m)
      BY <3>3 DEF LoopTop, LoopTurn, ClockFires, GuardExpires, ErrorStep, ErrorSaves, ErrorFrees,
         chain
    <3> QED BY <1>3, <3>1, <3>2, <3>3 DEF MatchStep
  <2> QED BY <1>1, <2>1 DEF Rests, Set, TypeOK
<1> QED
  BY <1>2, <1>3

\* What a step of a match does to its entry and to its players.
Opens(m) == /\ agentStatus' = agentStatus /\ starter'[m] = "marking"
            /\ \A a \in Players[m], n \in Matches : a \in Players[n] => memory[n] = "absent"
Marks(m) == memory[m] # "absent" /\ Mark(m, "in_match")
Frees(m) == memory[m] # "absent" /\ memory'[m] = "absent" /\ Mark(m, "idle")
Stays(m) == /\ agentStatus' = agentStatus /\ starter[m] # "marking"
            /\ memory[m] = "absent" => memory'[m] = "absent"

LEMMA StepMarks ==
  ASSUME MaxFaults = 0, TypeOK, NEW m \in Matches, LifeInv(m), MatchInv(m), MatchStep(m)
  PROVE  Opens(m) \/ Marks(m) \/ Frees(m) \/ Stays(m)
<1>1. ~ Fault
  BY NoFault
<1>2. CASE Create(m)
  BY <1>2 DEF Create, Set, Opens, TypeOK
<1>3. CASE StartStep(m)
  <2>1. memory[m] # "absent"
    BY <1>3 DEF StartStep, MarkInMatch, LoadWallets, TransferStake, RecordEscrow, Activate,
       CancelStart, FreeCancelled, LifeInv, InStart, Starting
  <2>2. CASE MarkInMatch(m)
    BY <1>1, <2>1, <2>2 DEF MarkInMatch, Marks
  <2>3. CASE FreeCancelled(m)
    BY <1>1, <2>1, <2>3 DEF FreeCancelled, Set, Frees, TypeOK
  <2>4. CASE LoadWallets(m) \/ TransferStake(m) \/ RecordEscrow(m) \/ Activate(m) \/ CancelStart(m)
    BY <2>1, <2>4 DEF LoadWallets, TransferStake, RecordEscrow, Activate, CancelStart, Stays, store
  <2> QED BY <1>3, <2>2, <2>3, <2>4 DEF StartStep
<1>4. CASE LoopTop(m) \/ LoopTurn(m) \/ ClockFires(m) \/ GuardExpires(m)
  <2>1. starter[m] = "done"
    BY <1>4, AfterStartOnly DEF LoopTop, LoopTurn, ClockFires, GuardExpires, Quiet
  <2>2. UNCHANGED <<agentStatus, memory>>
    BY <1>4 DEF LoopTop, LoopTurn, ClockFires, GuardExpires, EndMatch, store, entry
  <2> QED BY <2>1, <2>2 DEF Stays
<1>5. ASSUME NEW c \in Callers, HandlerStep(m, c)
      PROVE  Frees(m) \/ Stays(m)
  <2>1. Handling(m)
    BY <1>5 DEF Handling, HandlerStep, HandlerFinds, HandlerSettles, HandlerSaves, HandlerFrees
  <2>2. starter[m] = "done" /\ memory[m] # "absent"
    BY <2>1, AfterStartOnly DEF Quiet, LifeInv, AfterStart
  <2>3. CASE HandlerFrees(m, c)
    BY <1>1, <2>2, <2>3 DEF HandlerFrees, Remove, Set, Frees, TypeOK
  <2>4. CASE ~ HandlerFrees(m, c)
    BY <1>1, <1>5, <2>2, <2>4 DEF HandlerStep, HandlerFinds, HandlerSettles, HandlerSaves,
       HandlerThrows, Stays, store
  <2> QED BY <2>3, <2>4
<1>6. CASE ErrorStep(m)
  <2>1. errorer[m] # "idle"
    BY <1>6 DEF ErrorStep, ErrorSaves, ErrorFrees
  <2>2. starter[m] = "done"
    BY <2>1, AfterStartOnly DEF Quiet
  <2>3. CASE ErrorFrees(m)
    <3>1. memory[m] # "absent"
      BY <2>2, <2>3 DEF ErrorFrees, LifeInv, AfterStart
    <3> QED BY <1>1, <2>3, <3>1 DEF ErrorFrees, ErrorRemoves, Remove, Set, Frees, TypeOK
  <2>4. CASE ErrorSaves(m)
    BY <1>1, <2>2, <2>4 DEF ErrorSaves, ErrorRemoves, Remove, Set, Stays, TypeOK
  <2> QED BY <1>6, <2>3, <2>4 DEF ErrorStep
<1> QED
  BY <1>2, <1>3, <1>4, <1>5, <1>6 DEF MatchStep

\* Nobody's players are freed by another match: no agent is in two matches.
LEMMA MarkedKeeps ==
  ASSUME TypeOK, NEW m \in Matches, Rests(m), Opens(m) \/ Marks(m) \/ Frees(m) \/ Stays(m),
         \A n \in Matches : Marked(n), \A n, k \in Matches : n # k => Alone(n, k)
  PROVE  /\ \A n \in Matches : Marked(n)'
         /\ \A n, k \in Matches : n # k => Alone(n, k)'
<1>1. \A n \in Matches \ {m} : memory'[n] = memory[n] /\ starter'[n] = starter[n]
  BY DEF Rests, Others
<1>2. \A n \in Matches : Players[n] \subseteq Agents
  BY PlayersAssumption
<1>3. Marked(m)'
  BY <1>2 DEF Marked, Opens, Marks, Frees, Stays, Mark
<1>4. ASSUME NEW n \in Matches \ {m} PROVE Marked(n)'
  <2>1. Marked(n) /\ Alone(m, n)
    OBVIOUS
  <2>2. CASE ~ Frees(m)
    BY <1>1, <1>2, <2>1, <2>2 DEF Marked, Opens, Marks, Stays, Mark
  <2>3. CASE Frees(m)
    BY <1>1, <1>2, <2>1, <2>3 DEF Marked, Alone, Frees, Mark
  <2> QED BY <2>2, <2>3
<1>5. ASSUME NEW n \in Matches \ {m}, memory'[m] # "absent", memory'[n] # "absent"
      PROVE  Players[m] \cap Players[n] = {}
  <2>1. memory[n] # "absent"
    BY <1>1, <1>5
  <2>2. CASE Opens(m)
    BY <2>1, <2>2 DEF Opens
  <2>3. CASE ~ Opens(m)
    <3>1. memory[m] # "absent"
      BY <1>5, <2>3 DEF Marks, Frees, Stays
    <3>2. Alone(m, n)
      OBVIOUS
    <3> QED BY <2>1, <3>1, <3>2 DEF Alone
  <2> QED BY <2>2, <2>3
<1>6. ASSUME NEW n \in Matches, NEW k \in Matches, n # k PROVE Alone(n, k)'
  <2>1. CASE n = m \/ k = m
    BY <1>5, <1>6, <2>1 DEF Alone
  <2>2. CASE n # m /\ k # m
    <3>1. Alone(n, k)
      BY <1>6
    <3> QED BY <1>1, <2>2, <3>1 DEF Alone
  <2> QED BY <2>1, <2>2
<1> QED
  BY <1>3, <1>4, <1>6

LEMMA CalmInit == Init => CalmInv
BY DEF Init, CalmInv, CalmServer, LifeInv, BeforeStart, InStart, AfterStart, StakesInv, Collected,
   Starting, Quiet, Handling, Marked, Alone

LEMMA CalmStutters ==
  ASSUME CalmInv, UNCHANGED vars
  PROVE  CalmInv'
<1>1. /\ UNCHANGED <<docStatus, agentStatus, held, stake, memory, timers, ended, expiring, starter>>
      /\ UNCHANGED <<loop, handler, errorer, sweep, server, agenda, freeing, restarts, faults>>
  BY DEF vars, store, chain, guard, entry, tasks, process, mishaps
<1>2. CalmServer'
  BY <1>1 DEF CalmInv, CalmServer
<1>3. ASSUME NEW m \in Matches PROVE LifeInv(m)'
  <2>1. LifeInv(m)
    BY DEF CalmInv
  <2>2. (Handling(m)' <=> Handling(m)) /\ (Quiet(m)' <=> Quiet(m))
    BY <1>1 DEF Handling, Quiet
  <2> QED
    BY <1>1, <2>1, <2>2 DEF LifeInv, BeforeStart, InStart, AfterStart, StakesInv, Collected
<1>4. ASSUME NEW m \in Matches PROVE Marked(m)'
  BY <1>1 DEF CalmInv, Marked
<1>5. ASSUME NEW m \in Matches, NEW n \in Matches, m # n PROVE Alone(m, n)'
  BY <1>1, <1>5 DEF CalmInv, Alone
<1> QED
  BY <1>2, <1>3, <1>4, <1>5 DEF CalmInv

LEMMA CalmStep ==
  ASSUME MaxRestarts = 0, MaxFaults = 0, TypeOK, TypeOK', \A m \in Matches : MatchInv(m),
         CalmInv, Next
  PROVE  CalmInv'
<1>1. /\ CalmServer
      /\ \A m \in Matches : LifeInv(m)
      /\ \A m \in Matches : Marked(m)
      /\ \A m, n \in Matches : m # n => Alone(m, n)
  BY DEF CalmInv
<1>2. PICK m \in Matches : MatchStep(m)
  BY <1>1, OnlyMatches
<1>3. CalmServer'
  BY <1>1, <1>2, CalmGoesOn
<1>4. MatchInv(m) /\ LifeInv(m)
  BY <1>1
<1>5. Rests(m)
  BY <1>2, <1>4, StepRests
<1>6. ASSUME NEW n \in Matches PROVE LifeInv(n)'
  <2>1. CASE n = m
    BY <1>2, <1>4, <2>1, StepLife
  <2>2. CASE n # m
    BY <1>1, <1>5, <2>2, RestKeeps
  <2> QED BY <2>1, <2>2
<1>7. Opens(m) \/ Marks(m) \/ Frees(m) \/ Stays(m)
  BY <1>2, <1>4, StepMarks
<1>8. /\ \A n \in Matches : Marked(n)'
      /\ \A n, k \in Matches : n # k => Alone(n, k)'
  BY <1>1, <1>5, <1>7, MarkedKeeps
<1> QED
  BY <1>3, <1>6, <1>8 DEF CalmInv

LEMMA Calm ==
  ASSUME MaxRestarts = 0, MaxFaults = 0
  PROVE  Spec => [](TypeOK /\ (\A m \in Matches : MatchInv(m)) /\ CalmInv)
<1>1. TypeOK /\ TypeOK' /\ (\A m \in Matches : MatchInv(m)) /\ CalmInv /\ [Next]_vars => CalmInv'
  BY CalmStep, CalmStutters
<1> QED
  BY <1>1, CalmInit, Invariance, PTL DEF Spec

-----------------------------------------------------------------------------
(* What follows *)

\* While no restart and no failing database call comes in between, a pot is paid
\* out only when the platform holds the stake of every player.
THEOREM PaysCollectedStakesHolds ==
  ASSUME MaxRestarts = 0, MaxFaults = 0
  PROVE  Spec => PaysCollectedStakes
<1>1. ASSUME TypeOK, TypeOK', \A m \in Matches : MatchInv(m), CalmInv, Next, NEW m \in Matches,
             payments'[m] > payments[m]
      PROVE  held[m] = Players[m]
  <2>1. CalmServer /\ LifeInv(m) /\ MatchInv(m) /\ \A n \in Matches : LifeInv(n)
    BY <1>1 DEF CalmInv
  <2>2. PICK n \in Matches : MatchStep(n)
    BY <1>1, <2>1, OnlyMatches
  <2>3. n = m
    <3>1. MatchInv(n)
      BY <1>1
    <3>2. Rests(n)
      BY <1>1, <2>2, <3>1, StepRests
    <3>3. m # n => payments'[m] = payments[m]
      BY <3>2 DEF Rests, Others
    <3> QED BY <1>1, <3>3 DEF TypeOK
  <2>4. ~ UNCHANGED payments
    BY <1>1 DEF TypeOK
  <2>5. PICK c \in Callers : handler[m][c] = "settle"
    BY <2>2, <2>3, <2>4 DEF MatchStep, Create, StartStep, MarkInMatch, LoadWallets, TransferStake,
       RecordEscrow, Activate, CancelStart, FreeCancelled, LoopTop, LoopTurn, ClockFires,
       GuardExpires, ErrorStep, ErrorSaves, ErrorFrees, HandlerStep, HandlerFinds, HandlerSettles,
       HandlerSaves, HandlerFrees, HandlerThrows, chain
  <2>6. starter[m] = "done" /\ Handling(m)
    BY <1>1, <2>1, <2>5, AfterStartOnly DEF Handling, Quiet
  <2>7. memory[m] # "absent"
    BY <2>1, <2>6 DEF LifeInv, AfterStart
  <2>8. \A d \in Callers : handler[m][d] \notin {"save", "stats"}
    BY <2>1, <2>5 DEF MatchInv, GuardInv
  <2> QED
    BY <2>1, <2>5, <2>6, <2>7, <2>8 DEF LifeInv, StakesInv, Collected
<1>2. TypeOK /\ TypeOK' /\ (\A m \in Matches : MatchInv(m)) /\ CalmInv /\ [Next]_vars
        => [\A m \in Matches : payments'[m] > payments[m] => held[m] = Players[m]]_vars
  BY <1>1
<1> QED
  BY <1>2, Calm, PTL DEF Spec, PaysCollectedStakes

\* And whoever plays is marked in_match: the end of another match never sets a
\* player of a running match idle.
THEOREM PlayersMarkedHolds ==
  ASSUME MaxRestarts = 0, MaxFaults = 0
  PROVE  Spec => []PlayersMarked
<1>1. ASSUME TypeOK, CalmInv PROVE PlayersMarked
  <2> SUFFICES ASSUME NEW m \in Matches, loop[m] \in {"top", "turn"}, memory[m] = "active"
               PROVE  \A a \in Players[m] : agentStatus[a] = "in_match"
    BY DEF PlayersMarked
  <2>1. LifeInv(m) /\ Marked(m)
    BY <1>1 DEF CalmInv
  <2>2. starter[m] = "done"
    BY <1>1, <2>1, AfterStartOnly DEF Quiet
  <2> QED
    BY <2>1, <2>2 DEF Marked
<1> QED
  BY <1>1, Calm, PTL

-----------------------------------------------------------------------------
(* The refinement *)

\* A step of a match, seen from its document, its entry and its payments: it opens
\* the match, pays its first pot, or leaves an entry that was removed removed.
LEMMA StepStages ==
  ASSUME MaxFaults = 0, TypeOK, TypeOK', NEW m \in Matches, LifeInv(m), LifeInv(m)', MatchInv(m),
         CalmServer, MatchStep(m)
  PROVE  \/ /\ StageOf(m) = "unborn" /\ StageOf(m)' = "open" /\ payments' = payments
         \/ /\ StageOf(m) = "open" /\ StageOf(m)' = "open"
            /\ payments[m] = 0 /\ payments' = [payments EXCEPT ![m] = 1]
         \/ /\ StageOf(m) # "unborn" /\ StageOf(m)' # "unborn" /\ payments' = payments
            /\ StageOf(m) = "closed" => StageOf(m)' = "closed"
<1>1. CASE Create(m)
  <2>1. /\ docStatus[m] = "none" /\ payments' = payments
        /\ docStatus'[m] = "starting" /\ memory'[m] = "starting"
    BY <1>1 DEF Create, Set, TypeOK
  <2> QED BY <2>1 DEF StageOf
<1>2. CASE ~ Create(m)
  <2>1. starter[m] # "none" /\ (~ StartStep(m) => starter[m] = "done")
    <3>1. CASE StartStep(m)
      BY <3>1 DEF StartStep, MarkInMatch, LoadWallets, TransferStake, RecordEscrow, Activate,
         CancelStart, FreeCancelled
    <3>2. CASE ~ StartStep(m)
      <4>1. ~ Quiet(m)
        BY <1>2, <3>2 DEF MatchStep, LoopTop, LoopTurn, ClockFires, GuardExpires, ErrorStep,
           ErrorSaves, ErrorFrees, HandlerStep, HandlerFinds, HandlerSettles, HandlerSaves,
           HandlerFrees, Quiet, Handling
      <4> QED BY <4>1, AfterStartOnly
    <3> QED BY <3>1, <3>2
  <2>2. starter'[m] \notin {"none", "marking"}
    BY <1>2, <2>1 DEF MatchStep, StartStep, MarkInMatch, LoadWallets, TransferStake, RecordEscrow,
       Activate, CancelStart, FreeCancelled, LoopTop, LoopTurn, ClockFires, GuardExpires, tasks,
       ErrorStep, ErrorSaves, ErrorFrees, HandlerStep, HandlerFinds, HandlerSettles, HandlerSaves,
       HandlerFrees, Set, TypeOK
  <2>3. docStatus[m] # "none" /\ docStatus'[m] # "none"
    BY <2>1, <2>2 DEF LifeInv, InStart, AfterStart, Starting, TypeOK, StarterPc
  <2>4. memory[m] = "absent" => memory'[m] = "absent"
    BY <2>2, StepMarks DEF Opens, Marks, Frees, Stays
  <2>5. CASE payments' = payments
    BY <2>3, <2>4, <2>5 DEF StageOf
  <2>6. CASE payments' # payments
    <3>1. PICK c \in Callers : HandlerSettles(m, c)
      BY <1>2, <2>6 DEF MatchStep, StartStep, MarkInMatch, LoadWallets, TransferStake,
         RecordEscrow, Activate, CancelStart, FreeCancelled, LoopTop, LoopTurn, ClockFires,
         GuardExpires, ErrorStep, ErrorSaves, ErrorFrees, HandlerStep, HandlerFinds,
         HandlerSaves, HandlerFrees, HandlerThrows, chain
    <3>2. /\ handler[m][c] = "settle" /\ UNCHANGED <<docStatus, memory>>
          /\ payments' = Set(payments, m, payments[m] + 1)
      BY <2>6, <3>1 DEF HandlerSettles, store, entry
    <3>3. payments[m] = 0
      BY <3>2 DEF MatchInv, PaymentInv, CalmServer, TypeOK
    <3>4. Handling(m)
      BY <3>2 DEF Handling
    <3>5. memory[m] # "absent"
      BY <3>4, AfterStartOnly DEF Quiet, LifeInv, AfterStart
    <3> QED BY <2>3, <3>2, <3>3, <3>5 DEF StageOf, Set
  <2> QED BY <2>5, <2>6
<1> QED
  BY <1>1, <1>2

\* As long as the process neither restarts nor sees a database call fail, every
\* step of a match opens it, pays its pot for the first time, closes it, or is
\* nothing Settlement sees.
THEOREM SettlementImplemented ==
  ASSUME MaxRestarts = 0, MaxFaults = 0
  PROVE  Spec => ImplementsSettlement
<1>1. Init => Abstract!Init
  BY DEF Init, Abstract!Init, StageOf
<1>2. ASSUME TypeOK, TypeOK', \A m \in Matches : MatchInv(m), CalmInv, CalmInv', Next
      PROVE  Abstract!Next \/ UNCHANGED Abstract!vars
  <2>1. CalmServer /\ \A n \in Matches : LifeInv(n) /\ LifeInv(n)'
    BY <1>2 DEF CalmInv
  <2>2. PICK m \in Matches : MatchStep(m)
    BY <1>2, <2>1, OnlyMatches
  <2>3. MatchInv(m)
    BY <1>2
  <2>4. Rests(m)
    BY <1>2, <2>2, <2>3, StepRests
  <2>5. \A n \in Matches \ {m} : StageOf(n)' = StageOf(n)
    BY <2>4 DEF Rests, Others, StageOf
  <2>6. \/ /\ StageOf(m) = "unborn" /\ StageOf(m)' = "open" /\ payments' = payments
        \/ /\ StageOf(m) = "open" /\ StageOf(m)' = "open"
           /\ payments[m] = 0 /\ payments' = [payments EXCEPT ![m] = 1]
        \/ /\ StageOf(m) # "unborn" /\ StageOf(m)' # "unborn" /\ payments' = payments
           /\ StageOf(m) = "closed" => StageOf(m)' = "closed"
    BY <1>2, <2>1, <2>2, <2>3, StepStages
  <2>7. \A n \in Matches : StageOf(n) \in {"unborn", "open", "closed"}
                        /\ StageOf(n)' \in {"unborn", "open", "closed"}
    BY DEF StageOf
  <2> DEFINE stage == [n \in Matches |-> StageOf(n)]
             next  == [n \in Matches |-> StageOf(n)']
  <2>8. stage' = next
    OBVIOUS
  <2>9. CASE StageOf(m)' = StageOf(m)
    <3>1. next = stage
      BY <2>5, <2>9
    <3> QED
      BY <2>6, <2>8, <2>9, <3>1 DEF Abstract!Next, Abstract!Pay, Abstract!vars
  <2>10. CASE StageOf(m)' # StageOf(m)
    <3>1. next = [stage EXCEPT ![m] = StageOf(m)']
      BY <2>5
    <3> QED
      BY <2>6, <2>7, <2>8, <2>10, <3>1 DEF Abstract!Next, Abstract!Open, Abstract!Close
  <2> QED BY <2>9, <2>10
<1>3. /\ TypeOK /\ TypeOK' /\ (\A m \in Matches : MatchInv(m))
      /\ CalmInv /\ CalmInv' /\ [Next]_vars
      => [Abstract!Next]_(Abstract!vars)
  <2>1. UNCHANGED vars => UNCHANGED Abstract!vars
    BY DEF vars, Abstract!vars, StageOf, store, chain, entry
  <2> QED BY <1>2, <2>1
<1> QED
  BY <1>1, <1>3, Calm, PTL DEF Spec, ImplementsSettlement, Abstract!Spec
=============================================================================
