# Verification of the match platform

TLA+ models of the backend in `src/src` (NestJS, MongoDB, Solana and EVM
settlement): agents and humans queue with a stake, are paired, play one of eight
games, and the platform pays the winner.  The modules here are translated from
the code; TLC checks them on small instances, and TLAPS proves the
safety properties that TLC checks, for all instances: of the core with its
refinement of an abstract settlement, the queue, the games, the pending moves, the
play service, the bets and the connections to agents.

## The system

The backend is one Node process.  Code between two `await`s runs without
interruption, so every action of the models is such a stretch of code: it
completes the awaited call and runs to the next `await`.  The database and the
chains outlive the process; everything else is lost in a restart.

| component | state | operations | talks to |
|---|---|---|---|
| matchmaking queue, service, controller (`matchmaking/`) | entries in memory, `queueentries` collection, processing flag, cooldowns | join, cancel, processPairing (every 2 s), periodicCleanup (every minute), load at startup | orchestrator (`startMatch` callback), payment store, settlement (refunds), agents collection |
| x402 payments (`settlement/x402-*`) | verified payments and used hashes, in memory | setPayment, getPayment, consumePayment, verify | chain, matchmaking |
| match manager (`orchestrator/match-manager.service.ts`) | engine states per game, `endedMatches` | createMatch, startMatch, game loops, endMatch, endMatchWithError, handleMatchTimeout, recoverActiveMatches, stopAll | everything below |
| active matches, match clock | one entry per running match; its timer | addMatch, updateMatch, removeMatch; start, stop | match manager, result handler, cleanup job, joinQueue |
| result handler | none of its own | handleMatchEnd: payout or refunds, fee, referrals, status, ratings and agent status | settlement, matches and agents collections |
| turn controllers, human moves, agent client | pending human moves | one turn: ask, wait with a timeout, apply | game engines, agents over HTTP and websocket |
| openclaw client and websocket (`openclaw-ws/`) | one client per gateway and token with its socket, requests and runs | sendAgentChat, connect, disconnect, reconnect, cleanup | gateways of agents |
| cleanup job (`worker/jobs/match-cleanup.job.ts`) | none | closes matches nobody has updated for seven days | matches, agents, active matches |
| settlement router, EVM and Solana services | nonce and key handling | payout, refund, fee, transfers | chains |
| play, managed agents (`play/`, `managed-agent/`) | agent documents, autoplay | escrow and enqueue, autoplay, pod deposits | matchmaking, settlement |
| betting | bets and pools | place, settle, claim | match events, chain |
| scheduled matches | schedule documents | register, open | orchestrator |
| game engines | one game state each | legal moves, apply, end | turn controllers |
| realtime, event bus | rooms, subscriptions | broadcast, request and reply | clients |
| auth, mail, referrals, said, leaderboard, agents, matches, agent-api, relayer | documents | request handlers | database |

What is hard here: several callers race to end a match while transfers are
awaited; timers outlive what they were armed for; database state is written in
several steps that a crash can separate; handlers keep references across awaits
and look things up again by another key; payments are made before, and refunds
after, decisions that other handlers may overtake.  `PROJECT.json` lists these
hazards at their lines with the properties that cover them.

What makes each part correct, in one line each: a match is paid out at most
once and only from collected stakes (match manager, result handler); every match
and every attempt to pair reaches an end (cleanup, recovery, pairing); an agent's
status says where it is (matchmaking, result handler); a ticket is used once
(matchmaking); a payment backs one stake (payment store); cards, chips and dirhams
are kept, and a match goes to whoever the rules or the missed turns say (games);
a turn is answered by its own seat or times out (human moves); it never waits on a
dead connection (openclaw); no token is lost or
paid back twice, and autoplay plays (play); bets are covered by the pool (betting).

## Modules

| module | models |
|---|---|
| `Settlement` | the abstract promise about a match: opened once, paid at most once while open, closed for good |
| `MatchLifecycle` | match manager, active matches, clock, result handler, cleanup job, recovery |
| `Matchmaking` | queue, join and cancel, pairing passes, cleanup, payment store, restart |
| `Poker` | poker engine and betting, a hand, the loop over hands, recovery of a table |
| `PokerHands` | the evaluator of poker hands, and the rules it is compared with |
| `Uno`, `Game2048`, `Werewolf`, `Marrakech` | the engines of these games, as operators on a state of a game |
| `GameLoops` | the loops and turn controllers of all games over these engines; extends `Poker` |
| `HumanMoves` | pending moves and the three ways a move is handed in |
| `Play` | `PlayService`: joining, leaving, autoplay, deposits and withdrawals |
| `Betting` | bets on a match, what is offered for them, claims |
| `OpenClaw` | `callOpenClaw`, `OpenClawWsService` and `OpenClawWsClient` |
| `Services` | composes the last four |
| `MatchLifecycleProofs` | theorems about `MatchLifecycle`; that it implements `Settlement` |
| `MatchmakingProofs` | theorems about `Matchmaking` |
| `GameProofs` | theorems about `GameLoops`, `Poker` and the engines |
| `HandProofs` | theorems about `PokerHands` |
| `HumanMovesProofs`, `OpenClawProofs`, `PlayProofs` | theorems about the services, the last also about `Betting` |
| `SumProofs` | what the sum of a function over a finite set is |
| `MCMatchLifecycle`, `MCMatchmaking`, `MCPoker`, `MCGames`, `MCServices` | instances for TLC |

How they fit together: `Matchmaking` and `Play` end where a match begins,
`MatchLifecycle` is one match from its document to the removal of its entry with
a turn as a single choice of outcome, and `GameLoops`, `HumanMoves` and `OpenClaw` are
what happens in such a turn: the first takes an answer or a missed turn as given, the
others are how an answer comes in.

Definitions whose comment begins with "A mutant of" are faulty versions of an
action or operator.  They are part of no specification: each shows that a property
is able to fail (`PROJECT.json`, `mutants`).

### MatchLifecycle

State: `docStatus` and `agentStatus` are the documents; `held`, `payments` and
`stake` say what the platform wallet has taken and given; `memory`, `wallets`,
`engines` and `timers` are the entry in `activeMatches` with what belongs to it;
`ended` and `expiring` are `endedMatches` and the five second timers that empty
it.  `starter`, `loop`, `handler`, `errorer` and `sweep` are program counters of
`createMatch`/`startMatch`, the game loop, `handleMatchEnd` per caller of
`endMatch`, `endMatchWithError` and the cleanup job; `server`, `agenda` and
`freeing` those of shutdown and recovery.

| actions | code |
|---|---|
| `Create`, `MarkInMatch` | `createMatchMulti` and the `create...Match` of the games |
| `LoadWallets`, `TransferStake`, `RecordEscrow`, `Activate`, `CancelStart`, `FreeCancelled` | `startMatch` with its three early exits |
| `LoopTop`, `LoopTurn` | the eight `run...GameLoop`s: checks, one turn, checks |
| `ClockFires`, `GuardExpires` | `handleMatchTimeout`, the timer at the end of `endMatch` |
| `HandlerFinds`, `HandlerSettles`, `HandlerSaves`, `HandlerFrees` | `handleMatchEnd`, called by the loop, the clock, `stopAll` or recovery |
| `ErrorSaves`, `ErrorFrees` | `endMatchWithError` |
| `SweepFinds`, `SweepCloses` | `MatchCleanupJob.run` |
| `Stop`, `StopEnds`, `ProcessDies`, `Boot`, `Recover...`, `BootDone` | `OrchestratorService.start` and `stop`, `stopAll`, `recoverActiveMatches` |

Abstracted: the games (a turn returns, finishes the game or throws), who wins,
amounts, fees, referrals and cashback; the several documents written by one
`Promise.all` change together; a refund to several players counts as one payment
of the pot, also when a part of it fails.  `Create` requires that no player is in
an active match, which is what `joinQueue` looks at; the run `Matchmaking_twice`
shows how that check can be overtaken, and `PlayersMarked` holds only where it is
not.  A match document is never deleted.

### Matchmaking

A ticket `<<agent, n>>` is one entry object.  `entries`, `docs` and `pairing` are
the queue in memory, its collection, and the tickets with status "pairing";
`request` and `pass` are the program counters of join and cancel requests and of
runs of `processPairing`; `cleaning` holds what the cleanup has taken out.
`stored`, `payments`, `refunds` and `matched` count what happened to the money and
to the tickets.  `matches` are the live matches.

| actions | code |
|---|---|
| `Pay`, `PaymentExpires` | `X402PaymentStore.setPayment` and its timer |
| `JoinChecks`, `JoinQueue`, `JoinAdds`, `JoinSaves` | `MatchmakingController.join`, `joinQueue`, `MatchmakingQueue.add` |
| `Cancel`, `LeaveDeletes`, `LeaveSaves` | `cancel` and `leaveQueue`, the latter also after a failed join |
| `PassStarts`, `Claim`, `Check`, `Drop`, `Create`, `Start`, `Unlist`, `Reset` | `processPairing` for a table or a pair |
| `CleanupBegins`, `CleanupEnds` | `periodicCleanup`, `cleanupStaleEntries` |
| `MatchEnds`, `Restart` | the end of a match; `loadFromDatabase` and `onModuleInit` |

Which tickets are compatible (rating, stake, owner, game) is left open: any team
with one token may be chosen.  The poker countdown is a delay and not modelled.
Time is abstracted: a payment may expire, an entry be older than a minute, a
cooldown still be running, and a pass be older than thirty seconds, at any moment.
Mongoose writes only fields that changed, so the `save` of "idle" in the error
path of `join` writes nothing.  A refund is assumed to succeed.

### Poker

State: `stack`, `bet` and `pot` are the chips; `folded`, `allIn` and `eliminated`
the flags of the players; `dealer`, `turn`, `street`, `actions` and `hand` the rest of
the engine state that decides anything.  `phase` is where the loop and `executeHand`
are.  `timeouts`, `seen` and `docTimeouts` are the three copies of the timeout counts:
in `activeMatches`, in the entry `executeHand` was called with, and in the document.
`missed` counts the turns each side really missed; no code holds it.

| actions | code |
|---|---|
| `LoopEnds`, `AfterHand` | `runPokerGameLoop` with `findTimedOutSide`, `endMatch` and `determineWinner` |
| `Deal`, `Advance`, `Resolve` | `dealNewHand`, `advanceStreet`, `resolveShowdown` and `resolveFold`, as `executeHand` calls them |
| `Answer` | one turn: `getLegalActions`, `validateAction`, `applyAction` |
| `Miss` | a turn that fails: the third error in a row ends the match, others fold and are counted by `handleTimeout` |
| `AskThrows`, `Restart` | a recovered table has agents for the first two sides |

Cards are abstracted: at a showdown any sides may tie for the best hand.  Amounts are
whole.  A change of the state and its save are one step; a crash between them is a
restart before the change.  What the match timer makes of a table is left out.

`PokerHands` is the evaluator that the abstraction leaves out.  `EvaluateHand` follows
the code: all fives among seven cards, each named by its groups, suits and straight,
compared two at a time.  `RuleHand` says what the rules say of the seven at once.
`HandsRanked` compares them.

A card is a record of a rank and a suit, and `Deck` has the fifty-two of `createDeck`.
The code's names for ranks are left out: an ace is 14 from the start.

### The engines: Uno, Game2048, Werewolf, Marrakech

Each module has no variables: a game state is a record, and an operator per function
of the engine maps it to the set of states it may become, where cards are drawn,
tiles spawned, ties broken or dice thrown.

| module | state | operators and code |
|---|---|---|
| `Uno` | `hand`, `pile`, `discard`, `top`, `color`, `turn`, `direction` | `InitialStates` = `createInitialState` with what a starter does; `Recycled`, `DrawCards`; `Play`, `DrawCard` = `applyAction`; `CanPlay`, `Playable` = `getLegalActions` |
| `Game2048` | a board per side with `score`, `moves`, `stuck`; `turn` | `Slid`, `Moved` = `slideRowLeft`, `applyMoveToGrid`; `Spawned`; `AppliedMove`, `Resolved` = `applyMove`, `resolveTurnOrEnd` |
| `Werewolf` | `role`, `alive`, `phase`, `active`, votes, talks, `cycle` | `LegalActions`; `Apply` with `NightVote`, `Investigate`, `Say`, `DayVote` and the resolutions `Day`, `Night`, `Won` |
| `Marrakech` | `board`, `pos`, `dir`, `left`, `dirhams`, `carpets`, `eliminated` | `OrientAndRoll`, `ChooseBorder`, `Tribute` with the flood fill `Patch`, `Placements`, `Place`, `Advance`, `Scored` |

The card piles are sets: which card is on top of a shuffled pile is left open.  What is
said in a discussion is a single action.  Views of a state for players are left out.

### GameLoops

A behaviour is one match, whose type is chosen at the start.  `game` is the state of the
engine, together with what a loop or a controller keeps between two requests (the
card just drawn, the phase of a round).  `table` is the entry in `activeMatches`:
`status`, the counts `timeouts`, the counts `seen` the controller was given when the
turn began, `missed` (kept by no code), `ahead` (who led when the match manager last
took over the state of the game) and how the match ended.

| actions | code |
|---|---|
| `UnoTurn`, `UnoFollowUp` | `executeTurn` of UNO; the second request after a card that can be played was drawn |
| `Game2048Turn`, `WerewolfTurn` | `executeTurn` with what replaces a missing or wrong answer |
| `MkOrient`, `MkBorder`, `MkTribute`, `MkPlace` | the phases of a turn of Marrakech; only the first may be missed |
| `RpsRound`, `RpsRevealed` | both throws at once, the pause in which they are shown, the end of the round |
| `ChessTurn`, `ChessOver` | one move; the top of the loop finds a position without moves. A failing write of a move is caught as if the turn had been missed |
| `BoardTurn` | reversi |
| `ClockFires` | `handleMatchTimeout` while the loop waits |
| `Next` of `Poker` | a poker match |

After each turn `Concluded` is what the loop does: an end of the game, a side with
too many missed turns, or the next turn.  A count of missed turns starts from `seen`,
as `trackTimeout` starts from the entry it was given.

The rules of chess are those of a library: a move leads to a position that is over or
not.  Reversi has an engine in `game-engine/rules.ts` and `scoring.ts`, but nothing
creates it: `GameEngineService` answers every request for an engine without a name
with a stub that has no pieces and no moves.  A match of that type only passes until
its clock runs out, and so does the model.

### HumanMoves

`pending` and `timers` are `pendingMoves` with its timers, under the key of a match or
of a side of it; `asked` are the seats whose loops wait; `submit` is where a request with a
move stands between two awaits.  `answers` records who handed in the last move of a
seat.

| actions | code |
|---|---|
| `Asks`, `TimesOut`, `Cancels` | `waitForMove`, its timer, `cancelPending` as the cleanup job calls it |
| `Looks`, `LooksAt`, `Verifies`, `Hands` | `handleGameMove` of the socket and `submitMove` of `PlayService`: look up the pending agent, read it from the database (twice for the keys of the sides), check its owner, `submitMove` |
| `HandsOver` | `submitMove` of `AgentApiService`, without an await in between |
| `Due` | what the heartbeat tells an agent |

An agent sits in one place; moves are not told apart.

### Play

`status`, `auto` are the agent's document; `entry`, `recent` its entry and cooldown in the
queue; `wallet`, `gone`, `surplus` where its tokens are: with it, out of the platform's
reach, or taken by the platform without being the stake of an entry.  `call` is where each
request stands, `tick`, `loop` and `count` are `autoplayTick`, its interval and
`maybeStartAutoplayLoop`.

| actions | code |
|---|---|
| `ManagedJoins`, `HumanJoins`, `Transfer`, `Mark`, `Enter`, `Add`, `Saves`, `Revert` | `managedJoinQueue`, `joinQueue`, `escrowAndEnqueue` and `MatchmakingService.joinQueue` with its cooldown |
| `Leaves`, `LeaveQueue`, `Frees`, `Switch`, `Counts` | `cancelQueue`, `setManagedAutoplay` |
| `TakesOut`, `TakeOut`, `FundBrain`, `Deletes` | `withdraw`, `depositStakeToPod`, `deleteMine` |
| `TickReads`, `TickCounts`, `TickStops`, `TickChecks`, `TickTakes` | `autoplayTick` |
| `Pairs`, `Begins`, `Exhibits`, `Ends` | pairing and matches as a whole, exhibition matches |

A stake is one token, fees are left out.  Pairing, starting and ending a match are
single steps here; `Matchmaking` and `MatchLifecycle` have theirs.

### Betting

`slip` is where the placing of each bet stands, `claimed` and `tag` the fields of its
document, `claim` where a claim of a user stands; `purse` and `pot` are the tokens.
`Places`, `Stakes`, `Creates` are `placeBet` around its two awaits; `Payout`, `Offered`,
`PendingClaim` what `getMyBets` and `getMyPendingClaims` offer; `Claims`, `ClaimPays`
`claimBet`: the marking of the bets and the look-up of those just marked.
`MatchIsOver` is the match, which the service only reads.  An offer is a fraction with
the bets on the winner as its denominator; the model multiplies by it, so that all
numbers are whole.

### OpenClaw

All turns go to one gateway with one token, which is where they can meet.  `client` is
each `OpenClawWsClient` made so far: its socket `ws`, its `state`, whether its connect
request is pending, `reconnect`, and whether `reconnectTimer` runs.  `cached` is the client in
`OpenClawWsService.clients`, `ask` where each turn stands: it waits for a connection, for
the answer to its request, for the end of its run, or pauses between two attempts.

| actions | code |
|---|---|
| `AsksGateway`, `AsksAgain`, `Answered` | `callOpenClaw` with its retries, `sendAgentChat`, `getOrCreateClient` |
| `CleansUp` | `cleanupStaleClients` |
| `ConnectTimesOut`, `RequestTimesOut`, `RunTimesOut` | the timers of `waitForConnect`, `send`, `agentAndWait` |
| `Opens`, `Challenged`, `Connected`, `NotConnected` | `connect`, `sendConnect` and what follows its answer |
| `Closes`, `Lost`, `Reconnects` | the close of a socket, `rejectAllPending`, `scheduleReconnect` |
| `Accepted`, `AnsweredAtOnce`, `RunEnds` | `agentAndWait`, `handleEvent`, `handleResponse` |

The gateway may do anything at any time: close, refuse, or never answer.  A run is
registered only after its acceptance has been awaited, so its end may be missed when
both come in one piece of data: the action `Accepted` chooses.

`Services` runs one of the four per behaviour, as they share no state.

## Runs

Twelve runs, each with its question in `PROJECT.json`.

| run | instance | shows |
|---|---|---|
| `MatchLifecycle_shared` | two matches that share an agent, one failing transfer | `PlayersMarked`, `PaysCollectedStakes`, `ImplementsSettlement`, `AgentsFreed` |
| `MatchLifecycle_failures` | one match, two restarts, two failing database calls | `TypeOK`, `PaymentsBounded`, `OneEnding`, `MatchesClose` |
| `Matchmaking_tables` | three agents, payments that expire, one pass at a time | `TypeOK`, `PairingIsHeld` with tables of three and pairs |
| `Matchmaking_overlap` | two agents, one of which joins twice, two passes, one reset of the flag, one restart | `MatchedOnce` when passes overlap and an agent's later ticket may be found |
| `Matchmaking_restart` | one restart, one failing call | `PairingIsHeld`, `PairingEnds` |
| `Games_tables` | one match of each type on a small table | fourteen invariants and two action properties, listed below |
| `Services` | two managed agents or a managed and a human one; three matches with pending moves; three bets of two users; two turns at one gateway | nine invariants and two liveness properties, listed below |

`Games_tables`:

| game | properties |
|---|---|
| all | `LoopTypeOK`, `ResultIsPlayed`, `MissesAreCounted`, `TurnsRunOut`; and no deadlock: a match that is not over can go on |
| poker | `ChipsKept`, `AskedIsInHand`, `WinnerIsAhead`, `StreetsAreSettled`, `HandsRanked` |
| UNO | `CardsKept`, `EmptyHandWins` |
| 2048 | `ScoreIsEarned` (a score is what merging earned), `PairsMergeOnce`, `AskedCanAct` |
| werewolf | `TeamsDecide`, `AskedCanAct` |
| Marrakech | `DirhamsDecide` |

`Services`:

| service | properties |
|---|---|
| all | `ServicesTypeOK` |
| play | `EntriesPaid`, `OneEntry`, `StakesKept`, `AutoplayPlays` |
| pending moves | `MovesAreOwn`, `WaitingIsPending`, `DueIsAsked`, `TurnsSettle` |
| gateways | `AsksAreServed`, `TurnsSettle` |
| betting | `OffersFitThePool` |

Runs that refute a statement of the repository:

| run | statement | what the code does |
|---|---|---|
| `MatchLifecycle_refund` | `RefundedOnError`: stakes of failed matches go back | `refund` is called without targets and moves nothing |
| `Matchmaking_refunded` | `RefundedUnmatched`: a refund is for who was not matched | cleanup removes and refunds entries of a running attempt (it looks at the time of joining); a table keeps members it has refunded |
| `Matchmaking_twice` | `PlaysOnce`: nobody in a match joins | the check comes before an `await`, the entry after it |
| `Poker_forfeit` | `TimeoutsForfeit`: who misses two turns loses | three errors in a row end the match without a winner, and the stacks of the first two sides decide |
| `Bets_claims` | `ClaimsArePaid`: a claim pays what it was offered | the bets are tagged in a field the schema does not have, so that Mongoose drops the tag, and then looked up by it: none is found and nothing is paid, but they stay marked as claimed |

### Bounds

`MatchLifecycle`, `Matchmaking`.  One match suffices for endings, crashes and failing
calls, which never look at another match; two with a shared agent are the least in
which one match can disturb the other. Two restarts and two failing calls let a second
failure strike what the first one left. Three agents are the least for a table; two
passes and one reset the least for an overlap; two joinings of one agent the least for
a stale reference; the two are not combined with a failing call, which
`Matchmaking_restart` has.  Agents, requests and passes are symmetric in the safety runs
of `Matchmaking`; the liveness runs use no symmetry.

`Games_tables`.  Poker: three sides are the least with a dealer that is no blind, a
raise two others answer and a side eliminated while a match goes on; with four chips
each, and blinds of one and two, there are short blinds, raises, all-ins below a call and
odd pots; two hands let the first one's stacks and flags reach the second, and there
is one restart.  Hands are all sevens of two decks of twelve cards, chosen so that there
are straights at both ends of the ranks, flushes, and groups of all sizes beside each
other.  UNO: two players with two cards each of six, one of each kind, so that piles run
out and are recycled.  2048: boards of 2 x 2 up to a tile of 8 and three moves a side;
rows of up to four are slid for `PairsMergeOnce`.  Werewolf: six players, the fewest with
two wolves and a seer that reach a second day; one statement each.  Marrakech: a board of
3 x 3, two dirhams and two carpets a side, steps of two: corners, tributes that
eliminate and games that are played to the end occur; turns are missed or skipped only
when at most one carpet is left (`MkIdle`).  Rock-paper-scissors: best of three, at
most four rounds.  Missed turns are bounded by type (`MCMissed`), always at least to
where they end a match where they can, except in Marrakech (one) and poker, which
counts its own.  Chess: one failing write of a move.  Deadlock is checked here: a match that
is over stutters, any other must have a step.

`Services`.  Two managed agents are the least that can play each other by
themselves; a human and a managed one add the other way to join.  One user request at a
time runs beside autoplay, and two requests or failures happen in all; each agent has
one stake.  Two requests with a move may come, one at a time, during two turns of chess, one
round of throws and one turn of 2048: the least in which a move can arrive
after its turn ended and another seat is asked.  Three bets of two users on two
agents, amounts of one and two with three tokens each: two bets of one user against
one of the other, and a stake that cannot be paid.  Two turns that
ask at once, and one retry: both find no client, make one each, and one takes the
place of the other; three clients that are not yet closed let one that was given up
still be closing meanwhile (`OneLeft`: with none left nobody asks).  Deadlock is not
checked in this run nor in those of `MatchLifecycle` and `Matchmaking`: when everything
is over and the bounds are used up, the models rightly stop.

### Fairness

`FairSpec` of `MatchLifecycle` and `Matchmaking` assumes that awaited calls return,
that timers fire, that turns end (each has a timeout), that the intervals of the jobs
keep running and that a dead process is started again.  `ServicesSpec` assumes that the
interval of autoplay keeps running, that awaited calls return and that the timers
of a turn fire, also those of a turn that asks a gateway.  Of the network and the gateways
nothing is assumed.  All are weak fairness of steps of the platform.  Nobody is
assumed to pay, join, cancel, move, bet or crash.

`AutoplayPlays` asks for play only while the loop runs: a count that fails, or whose
answer is overtaken by a switch, stops it (a hazard in `PROJECT.json`).  `TurnsSettle`
leaves out matches whose pending move the cleanup job cancelled: `cancelPending` clears
the timer and never settles the promise.

## Proofs

Every theorem below is a theorem of the specification TLC runs (`Spec`, `LoopSpec`,
`ServicesSpec`), for all values of the constants.  The only assumptions are the named
`ASSUME`s of the modules, which TLC evaluates on every run, and where the theorem itself
says so a hypothesis about a bound.  Each has the same shape: an inductive invariant, a lemma per
action or group of actions that keeps it, and a last step that puts them together.

| module | theorems | for all |
|---|---|---|
| `MatchLifecycleProofs` | `TypeCorrect`, `PaymentsAreBounded`, `EndingsExclude` | matches, agents, bounds |
| `MatchLifecycleProofs`, without mishaps | `PaysCollectedStakesHolds`, `PlayersMarkedHolds`, `SettlementImplemented` | matches, agents, failing transfers; no restarts, no failing writes |
| `MatchmakingProofs` | `QueueIsTyped`, `PairingIsHeldHolds`, `MatchedOnceHolds` | agents, requests, bounds, finitely many passes |
| `GameProofs`, poker | `LoopsPlayPoker`, `ChipsKeptHolds`, `AskedIsInHandHolds`, `StreetsAreSettledHolds`, `WinnerIsAheadHolds` | two to nine players (the last: two or three), stacks, blinds, bounds |
| `GameProofs`, all | `GamesAreTyped`, `MissesAreCountedHolds`, `ResultIsPlayedHolds`, `TurnsRunOutHolds` | everything below |
| `GameProofs`, 2048 | `AskedCanActHolds` (and werewolf), `PairsMergeOnceHolds`, `ScoreIsEarnedHolds` | boards of two or more rows, moves |
| `HandProofs`, `GameProofs` | `BestOfSeven`, `HandsRankedHolds` | any seven cards of the deck, any decks |
| `GameProofs`, others | `CardsKeptHolds`, `EmptyHandWinsHolds`, `TeamsDecideHolds`, `DirhamsDecideHolds` | decks, deals of roles, boards and dice |
| `HumanMovesProofs` | `MovesAreOwnHolds`, `WaitingIsPendingHolds`, `DueIsAskedHolds` | matches, seats, requests |
| `PlayProofs` | `ServicesAreTyped`, `OneEntryHolds`, `EntriesPaidHolds`, `StakesKeptHolds`, `OffersFitThePoolHolds` | finitely many agents, requests, bettors; balances, amounts |
| `OpenClawProofs` | `AsksAreServedHolds` | turns, clients, retries |
| `SumProofs` | `SumCountsUnits` and lemmas on sums | finite sets |

### MatchLifecycleProofs

`PaymentsBounded` is not inductive: that a match was paid says nothing about what
may still pay it.  The inductive invariant `MatchInv(m)` adds four things.
`GuardInv`: whoever ends a match holds it in `endedMatches` with the guard timer
not yet armed, and is alone.  `BornInv`: what is in memory has a document, so
`Create` cannot bring it back.  `DormantInv`: before recovery has reached a match
nothing runs for it, and the last restart allows one more payment.  `PaymentInv`: a
match that has used up its payments is either out of memory, or its handler is past
the payment.  Each group of actions has a lemma that it keeps `MatchInv(m)`, with
the facts about other matches in `OthersKept`; `Invariance` puts them together.

### MatchLifecycleProofs: the settlement

That a payout pays collected stakes, that players are marked, and that the lifecycle
implements `Settlement`, holds only where nothing is lost between two writes, so the
theorems have `MaxRestarts = 0` and `MaxFaults = 0` as hypotheses.  Transfers may fail, any number
of them.  `CalmInv` is inductive under these: `CalmServer` (the process keeps
running), `LifeInv(m)`, which goes through the life of a match (`BeforeStart`,
`InStart`, `AfterStart`) and says of each stretch which program counters may be where, with
`StakesInv` relating what was collected to what was paid or refunded; `Marked`, that the
players of a match in memory are in_match; and `Alone`, that two such matches share no player.
The refinement maps each step to one of `Settlement` or a stutter
(`CalmStutters` is the lemma for the latter).

### MatchmakingProofs

`Inv` has `Types`, `Shapes` (what a request or a pass at work stands for),
`Adders` and `FreshUnused` (a ticket that is being added is new to the queue), `Held` (who is
pairing is held by a pass, unless there was a restart) and `Counted`.  The last is what
makes `MatchedOnce` inductive: there are as many passes at work as the flag and its forced
resets allow; the times a ticket was matched, and the passes that may still
match it, are together at most one, plus the resets, failed calls and restarts.  Passes must be finitely many,
so that they can be counted.

### GameProofs

A behaviour plays one game, so that each game has an invariant of its own, guarded by
the type of the match; `LoopsPlayPoker` makes a match of poker a behaviour of `Poker`.

Poker.  `PokerInv`: types, `ChipsKept`, where a pot may be (`PotIsPaid`), that an eliminated
seat is empty, the first hand and how many are left, that bets are in the pot, whose
turn it is, and that there is no result before the end.  `WinnerIsAhead` needs
`Players <= 3`: when no single side has the most chips after the last hand,
`determineWinner` compares the first two sides only, and with four players the third and the
fourth may tie ahead of both.

Missed turns and results.  `MissInv` relates the counts: `Fit` bounds what the match keeps by
what was missed and the reverse; between two turns the controller has seen all of it
(`AllSeen`), and within a turn of UNO all but what its own side may just have added
(`SeenBut`).  `ResultInv` adds that the wins of throws stay below what decides the match
while throws are asked for (`Thrown`), and that without an engine nobody misses a turn (`NobodyLate`).

UNO.  `UnoInv`: the cards are spread over hands and piles (`UnoCards`, `Spread`), a card just
drawn is in the hand of whose turn it is, only a winner is without cards (`UnoDecided`), and the
table says what the game says (`Scores`).  `UnoAssumption`: two to four players, and the black
cards of the deck are the wild ones.

Werewolf.  `WolfInv`: roles and who is alive (`People`); while the match goes on neither team has
won, and a night and a day have killed at most one each (`AtNight`, `ByDay`); when it is over the team that is
said to have won has (`WolfDone`).  `RolesAssumption`: there are wolves, and fewer than others.

Marrakech.  `MkInv`: purses and who is out (`Purses`), where a turn is (`MkGoes`,
`MkDone`), the scores.  The carpet a tribute is paid for is a flood fill, defined by
iteration; `IteratesExist` shows that it is a set of cells on a board of any size.

2048.  `CanActInv`: whoever is asked has moves left and a board it can change.  For a fresh board this is a
lemma: with two tiles on it, one of them can be slid.  `SlidInPairs` is about rows of
any length: the recursion of `Slid` is followed from the end of the row to its front.
`ScoreIsEarned` is inductive with the types of the boards (`EarnInv`).  A move keeps the sum of
the tiles, and adds its points to what the tiles have earned: `SlidKeeps` for a row,
`GridByLines` and `LineTiles` for a board, whose lines are numbered along the direction of the move.
It leaves an empty cell if it changed anything (`MoveLeavesRoom`), and a two or a
four that is put there adds four to twice the sum minus what was earned (`TileGiven`).

All games.  `TypeInv` adds who may have won and the types of the boards of 2048 and
chess.  `TurnsRunOut` is an action property: in each game every step of the loop
raises a tuple that counts rounds, moves, cycles and phases, or hands, and which is
bounded.

### HumanMovesProofs

Under `KeysAssumption` (a match that asks both sides at once has a key for each).
`MovesInv` is inductive.  A move is checked against what was pending before
an await, so `MovesAreOwn` needs `RequestsAreOwn`: a request that has passed the check
names its user's own seat, and `submitMove` refuses it when another is pending.
`PendingAtItsKey` (a seat is only kept under its own key) is what makes removing an entry
harmless to other seats; without it a timer could clear a key two seats use.  `DueIsAsked`
is no part of it and follows.  Without `KeysAssumption` the second throw would
displace the first.

### PlayProofs

`MatchmakingQueue.add` looks for an entry before it awaits the creation of the
document, so what excludes a second one is the cooldown: `AddingAlone` says that while a
document is being created its agent is in `recent`, has no entry, and no
other caller is there with it.  The proof rests on the cooldown being set before
the check, and on a document being created faster than the cooldown ends
(`CoolsDown`); both are named in `Play`.

`MoneyInv` adds the tokens.  A step that moves one changes two summands of `StakesKept`
by one; which requests are on their way with a token (`OnWay`) is a finite set, whose
cardinality stands for it.  Agents and requests must be finitely many for the sum
to mean anything.

`BetInv`: the pool holds the stakes of the bets that were made or are about to be, and only those.  An
offer is a user's share of it; the sum over the users is compared with the pool by
cutting the bets on the winner into one slice per user (`SumBySlices`).

### OpenClawProofs

Under `RetriesAssumption` (both bounds are natural numbers).  `AsksAreServed`
says that whoever waits has a socket, or a client that is still trying.  It is not
inductive: a turn that waits for a connection would lose its client if another turn gave it up,
and what is given up is what the cache holds.  `ClientsAreOwn` adds that such a client is
not in the cache, and that only clients that were not given up have a timer.  The proof
has a lemma for the steps that touch one socket only, one for those of one turn only,
and one for each of the four others.

### HandProofs

`BestOfSeven`: for any seven cards of the deck, `EvaluateHand`, the best of the twenty-one
fives under `Beats`, is `RuleHand`, what the rules read off the seven cards at once.  The
hands are numbered from 1, the high card, to 9, the straight flush.  `Fits(C, n)` says that
cards are good for hand n, `Tie(C, n)` what decides among those of the same number, and
`Best(C, n)` that n is the highest that fits.  Three facts make the theorem.

- `FiveRule`: of five cards the code's name and tiebreaker are what the rules say.
  Five cards have one of six shapes of groups (`FiveAreSized`), and each has its lemma.
- `NoneBeats`: what seven cards are worth, no five of them are worth more.  All the rules look at
  grows with the cards (`PartsGrow`, `FitsGrows`, `TieGrows`): the i-th highest of more
  ranks is no lower.  Beating is a strict order of numbers and then of rows of ranks.
- `Reached`: some five are worth as much.  For each of the nine hands there is a lemma that takes
  the groups, the straight or the cards of the suit, and fills up with the highest of the other ranks.

So the rule's hand is among the fives, none beats it, and it beats every other: what the code's
search ends with is no matter of the order in which it looks.  `HandsRankedHolds` says this of
the evaluator of `GameLoops`, under `DecksAssumption`: the decks are of the code's cards.

### SumProofs

`SumFunction` of the community modules is a fold, that is a choice among functions on
all subsets.  `SumCountsUnits`: over a finite set it is the number of units.  From this the lemmas that the
other modules cite: a sum changes by what one summand changes, sums of renamed
functions are equal, a sum may be taken row by row.

Here, and for the recursive functions of 2048, induction over data is done by least
counterexample: subsets of a finite set are well founded by their cardinality, numbers up to a bound
by their order.  The library's induction theorems, which take an operator as a
parameter, are not used.

### Only model-checked

- Liveness: `AgentsFreed`, `MatchesClose`, `PairingEnds`, `AutoplayPlays`,
  `TurnsSettle`.  Fairness is about `ENABLED`, which the prover does not know.
- `WinnerIsAhead` for more than three players, and `PaysCollectedStakes`, `PlayersMarked` and
  the refinement where the process or the database fails: they do not hold there.

## Not modelled

Each component's reason is in `PROJECT.json`.  In short:

- The rules of chess are a library's; those of reversi cannot be reached.
- Scheduled matches: their jobs are switched off in `worker.service.ts:54-74`.
- Chain clients, the relayer and the x402 verifier talk to networks; the models take
  the outcome of a call (it moved tokens or failed) and nothing else.
- The agent client is one HTTP request with a timeout: a turn is answered in time or not.
- Of the openclaw websocket the short-lived clients of the health tests, and the shutdown.
- Ratings, statistics, fees, referrals, SAID, cashback: computed after a match, with
  errors swallowed, and read by nothing modelled here.
- Auth, mail, leaderboard, agents, matches, registration of agents: single-document
  reads and writes.
- External wallets in `PlayService` (`buildWithdraw`, x402) and in betting: the
  user signs elsewhere.
- The poker table on the match timer, and the winner's address for a side beyond the
  first two.

## Met while modelling

Besides the hazards in `PROJECT.json`, which are those the properties are about and the
worst of the others, the following was met in the code.  No run is about it: the models
contain it as it is, or abstract it, and no comment or document promises
otherwise, except where one is named.

- `worker/jobs/match-cleanup.job.ts:41`: The job writes "error" to every document it
  found, whatever its status is when the write arrives.
- `orchestrator/match-manager.service.ts:943`: If freeing the players of a cancelled
  start fails, the entry stays in activeMatches and its players can join no queue
  until the next restart; the cleanup job looks at open documents only.
- `orchestrator/match-manager.service.ts:1858`: stopAll ends matches that are still
  being started: their pot is paid or refunded before all stakes are in.
- `settlement/x402-stake.controller.ts:171`: A transaction hash is looked up, the
  transaction verified over the network and only then marked as used.
- `matchmaking/matchmaking.controller.ts:101`: A second join that joinQueue rejects
  calls leaveQueue, which removes the entry of the first; the agent may stay queued
  without an entry, until the cleanup.
- `matchmaking/matchmaking.queue.ts:31`: Documents older than ten minutes are deleted
  at startup and their stakes are not refunded; the store of payments is gone as well.
- `matchmaking/matchmaking.service.ts:194`: The payment stays in the store when an
  agent leaves the queue with a refund: it can join again with it.
- `settlement/x402-payment-store.service.ts:25`: The ten minute timer of an old
  payment deletes a newer payment of the same agent.
- `matchmaking/matchmaking.service.ts:399`: The agents in the queue are listed before
  the stuck ones are read: one that joins in between is set idle while it waits.
- `matchmaking/matchmaking.service.ts:58`: A refund that fails is only logged.
- `orchestrator/poker-turn-controller.service.ts:91`: The only side that can still act
  is asked on every street, against the comment at line 90 that its streets advance
  automatically: it can bet chips nobody can answer, and lose them.
- `game-engine/poker/engine.ts:245`: After a fold of the dealer indexOf is -1 and the
  first seat acts first, not the one left of the dealer.
- `game-engine/poker/engine.ts:288`: There are no side pots: a side that went all in
  with less than the others can win the whole pot.
- `game-engine/poker/betting.ts:47`: The least raise subtracts what a call or all_in
  added from the total of a raise.
- `orchestrator/poker-turn-controller.service.ts:414`: The amount of a raise is
  clamped but not checked: a fraction or NaN would pass through to the stacks.
- `orchestrator/marrakech-turn-controller.service.ts:72`: A missed turn of Marrakech
  is counted in memory only, in the middle of a turn whose first phases are kept.
- `orchestrator/rps-turn-controller.service.ts:91`: Both sides are asked at once with
  one state of the match: if both time out one count overwrites the other; no side
  ever forfeits, which src/AGENT_API.md:440 says it does.
- `realtime/realtime.gateway.ts:168`: A throw for one round that arrives late is taken
  for the next one: a pending move has no number.
- `play/play.service.ts:444`: The play endpoint looks under the key of the match only:
  a human in rock-paper-scissors or 2048 cannot move over it.
- `agent-api/agent-api.service.ts:394`: The key of a side is tried for
  rock-paper-scissors only: a move of 2048 of an agent that polls is always refused,
  although the heartbeat tells it to move.
- `play/play.service.ts:251`: A stake is moved and the entry then refused (cooldown,
  an active match, an entry that is there already): the stake stays with the platform.
- `matchmaking/matchmaking.service.ts:194`: An ALPHA agent with a custodial wallet
  pays in startMatch only, and is refunded as if it had paid when it leaves the queue
  (matchmaking.controller.ts:81-89).
- `managed-agent/managed-agent.service.ts:494`: An agent in the queue may be deleted:
  its entry is paired, and the end of the match makes it idle again.
- `orchestrator/match-manager.service.ts:1461`: When time runs out at a poker table
  the stacks decide and what is in the pot is not counted: a side that is all in loses
  against a shorter stack.

## Plan

1. `Settlement`, `MatchLifecycle`, `Matchmaking`, `Poker`, the games, the services (done).
2. `StakePayments`: the payment store with its timers and used hashes, and the x402
   stake controller, in place of "a payment may expire at any moment".
3. The match timer of a poker table; `findPairs` and `findPokerGroup` against what
   they promise.
4. Statements that a comment makes and that wait for a run: the order of acting
   after a fold of the dealer, the lone side that is asked although its comment says it
   is not, and the rejected second join.
5. A proof that without crashes, but with failing writes, a payout pays only collected
   stakes, and the refinement of `Settlement` for them.
