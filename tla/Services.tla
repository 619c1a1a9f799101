------------------------------ MODULE Services ------------------------------
(***************************************************************************)
(* The services of the back end beside a match, each with the requests of  *)
(* its users: PlayService, HumanMoveService, BettingService and the client *)
(* of the OpenClaw gateways.  They share no state, so a behaviour is one   *)
(* of one of them.                                                         *)
(***************************************************************************)
EXTENDS Play, HumanMoves, Betting, OpenClaw

CONSTANTS Running,        \* the services whose behaviours there are
          Casts           \* the sets of agents one of which plays

VARIABLE service

serviceVars == <<service, playVars, moveVars, betVars, socketVars>>

ServicesInit ==
  /\ service \in Running
  /\ \E cast \in Casts \cup {{}} : (service = "play" <=> cast # {}) /\ PlayInit(cast)
  /\ MovesInit /\ BetInit /\ SocketInit

ServicesNext ==
  /\ UNCHANGED service
  /\ \/ service = "play"    /\ PlayNext  /\ UNCHANGED <<moveVars, betVars, socketVars>>
     \/ service = "moves"   /\ MovesNext /\ UNCHANGED <<playVars, betVars, socketVars>>
     \/ service = "betting" /\ BetNext   /\ UNCHANGED <<playVars, moveVars, socketVars>>
     \/ service = "openclaw" /\ SocketNext /\ UNCHANGED <<playVars, moveVars, betVars>>

\* In each service what runs without a request: the interval of autoplay goes on,
\* awaited calls return and timers fire.  Nobody has to ask for anything.
ServicesFairness ==
  /\ WF_playVars(service = "play" /\ TickStep)
  /\ \A c \in Callers : WF_playVars(service = "play" /\ CallStep(c))
  /\ \A key \in Keys : WF_moveVars(service = "moves" /\ TimesOut(key))
  /\ \A a \in Asking : WF_socketVars(service = "openclaw" /\ AskTimer(a))

ServicesSpec == ServicesInit /\ [][ServicesNext]_serviceVars /\ ServicesFairness

-----------------------------------------------------------------------------
(* Properties *)

\* What autoplay is for: no agent waits for ever, idle and funded, while there is an
\* opponent and the loop runs; no tick, failure or other request holds the ticks up.
AutoplayPlays == \A m \in Managed : []<> ~ (service = "play" /\ loop /\ Waits(m))

\* Every turn is answered or times out: no request can stop the clock of a turn it
\* does not answer, and no lost connection, lost event or retry keeps one that asks a
\* gateway.  The cleanup job leaves the turn it cancels waiting for ever.
TurnsSettle ==
  /\ \A s \in Seated : []<> (s \notin asked \/ s[1] \in dropped)
  /\ \A a \in Asking : []<> (ask[a].pc = "free")

\* The states of the services are of the types they rely on: no agent has less than
\* nothing, and no turn is tried more often than it may be.
ServicesTypeOK == PlayTypeOK /\ SocketTypeOK
=============================================================================
