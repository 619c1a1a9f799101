------------------------------ MODULE OpenClaw ------------------------------
(***************************************************************************)
(* How a turn asks an agent behind an OpenClaw gateway: callOpenClaw with  *)
(* its retries, OpenClawWsService with its cache of clients, and           *)
(* OpenClawWsClient, a socket that connects, authenticates, comes back     *)
(* when it is lost, and carries requests and runs of an agent.  All turns  *)
(* here go to one gateway with one token.                                  *)
(***************************************************************************)
EXTENDS Integers, FiniteSets

CONSTANTS Asking,        \* turns that may ask at the same time
          MaxClients,    \* bound: clients that are not given up, or not yet closed
          MaxRetries     \* MAX_RETRIES

ASSUME RetriesAssumption == MaxClients \in Nat /\ MaxRetries \in Nat

VARIABLES client,   \* OpenClawWsClient: its socket, _state, whether its connect request is
                    \* pending, options.reconnect, and whether reconnectTimer runs
          cached,   \* the client in OpenClawWsService.clients, or 0
          ask       \* where a turn stands, with which client, and its attempt; of a run,
                    \* whether its last event is already over

socketVars == <<client, cached, ask>>

Clients == 1 .. MaxClients

Closed == [ws |-> "closed", state |-> "disconnected", auth |-> FALSE, reconnect |-> FALSE,
           timer |-> FALSE]
Settled == [pc |-> "free", client |-> 0, attempt |-> 0, missed |-> FALSE]

SocketInit ==
  /\ client = [k \in Clients |-> Closed] /\ cached = 0 /\ ask = [a \in Asking |-> Settled]

Unused == {k \in Clients : client[k] = Closed /\ cached # k /\ \A a \in Asking : ask[a].client # k}

-----------------------------------------------------------------------------
(* The service and the retries *)

\* connect.
Connecting(c) == [c EXCEPT !.ws = "opening", !.state = "connecting", !.timer = FALSE]

\* disconnect: the socket begins to close.
GivenUp(c) == [c EXCEPT !.ws = IF @ \in {"opening", "open"} THEN "closing" ELSE @,
                        !.state = "disconnected", !.reconnect = FALSE, !.timer = FALSE]

\* agentAndWait up to the answer of its request: refused unless the socket is open.
Sent(r, k) ==
  IF client[k].ws = "open" THEN [r EXCEPT !.pc = "request", !.client = k] ELSE Settled

\* sendAgentChat up to its first wait.  A client that is not connected is given up and
\* another one made, also while another turn makes one.
Gets(a, r) ==
  IF cached # 0 /\ client[cached].state = "connected"
  THEN ask' = [ask EXCEPT ![a] = Sent(r, cached)] /\ UNCHANGED <<client, cached>>
  ELSE \E k \in Unused :
         /\ \A l \in Unused : k <= l
         /\ client' = [l \in Clients |->
              IF l = k THEN Connecting([Closed EXCEPT !.reconnect = TRUE])
              ELSE IF l = cached THEN GivenUp(client[l]) ELSE client[l]]
         /\ cached' = 0
         /\ ask' = [ask EXCEPT ![a] = [r EXCEPT !.pc = "connecting", !.client = k]]

\* Bound: there is a client left for one more turn, beside those that pause.
OneLeft == Cardinality(Unused) > Cardinality({a \in Asking : ask[a].pc = "pause"})

\* callOpenClaw.
AsksGateway(a) ==
  /\ ask[a].pc = "free" /\ OneLeft
  /\ Gets(a, Settled)

\* After a pause for the rate limit it asks again.
AsksAgain(a) == ask[a].pc = "pause" /\ Gets(a, [ask[a] EXCEPT !.attempt = @ + 1, !.missed = FALSE])

\* cleanupStaleClients: only clients of the cache that nobody has used for longer than any
\* request takes.
CleansUp ==
  /\ cached # 0 /\ \A a \in Asking : ask[a].client # cached
  /\ client' = [client EXCEPT ![cached] = GivenUp(@)] /\ cached' = 0
  /\ UNCHANGED ask

\* What a turn waits for takes too long: ten seconds for a connection, fifteen for an
\* answer, ninety for the run, and the end of a pause.  The client of a turn that
\* waited for a connection in vain goes on trying.
TimesOutOf(a, pc) == ask[a].pc = pc /\ ask' = [ask EXCEPT ![a] = Settled] /\ UNCHANGED <<client, cached>>

ConnectTimesOut(a) == TimesOutOf(a, "connecting")
RequestTimesOut(a) == TimesOutOf(a, "request")

RunTimesOut(a) == TimesOutOf(a, "run")

-----------------------------------------------------------------------------
(* The socket of a client *)

\* The turns that wait on a client in one of some places.
TurnsOn(k, places) == {a \in Asking : ask[a].client = k /\ ask[a].pc \in places}

Opens(k) ==
  /\ client[k].ws = "opening"
  /\ client' = [client EXCEPT ![k].ws = "open", ![k].state = "authenticating"]
  /\ UNCHANGED <<cached, ask>>

\* connect.challenge, and sendConnect.
Challenged(k) ==
  /\ client[k].ws = "open" /\ client[k].state = "authenticating" /\ ~ client[k].auth
  /\ client' = [client EXCEPT ![k].auth = TRUE]
  /\ UNCHANGED <<cached, ask>>

\* The connect request is answered, possibly while the socket closes.  Whoever made the
\* client puts it into the cache, in place of any other, and sends its request.
Connected(k) ==
  /\ client[k].auth /\ client[k].ws # "closed"
  /\ client' = [client EXCEPT ![k].auth = FALSE, ![k].state = "connected"]
  /\ cached' = IF TurnsOn(k, {"connecting"}) # {} THEN k ELSE cached
  /\ ask' = [a \in Asking |-> IF a \in TurnsOn(k, {"connecting"}) THEN Sent(ask[a], k) ELSE ask[a]]

\* It is refused, or not answered in time.
NotConnected(k) ==
  /\ client[k].auth
  /\ client' = [client EXCEPT ![k].auth = FALSE, ![k].ws = "closing"]
  /\ UNCHANGED <<cached, ask>>

\* The other side begins to close the socket.
Closes(k) ==
  /\ client[k].ws = "open"
  /\ client' = [client EXCEPT ![k].ws = "closing"]
  /\ UNCHANGED <<cached, ask>>

\* A mutant of Lost: rejectAllPending forgets the runs.
LostRequests(k) ==
  /\ client[k].ws # "closed"
  /\ client' = [client EXCEPT ![k] = [Closed EXCEPT !.reconnect = client[k].reconnect,
                                                    !.timer = client[k].reconnect]]
  /\ ask' = [a \in Asking |-> IF a \in TurnsOn(k, {"request"}) THEN Settled ELSE ask[a]]
  /\ UNCHANGED cached

\* The socket is closed, or never came about: rejectAllPending and scheduleReconnect.
Lost(k) ==
  /\ client[k].ws # "closed"
  /\ client' = [client EXCEPT ![k] = [Closed EXCEPT !.reconnect = client[k].reconnect,
                                                    !.timer = client[k].reconnect]]
  /\ ask' = [a \in Asking |-> IF a \in TurnsOn(k, {"request", "run"}) THEN Settled ELSE ask[a]]
  /\ UNCHANGED cached

Reconnects(k) ==
  /\ client[k].timer
  /\ client' = [client EXCEPT ![k] = Connecting(@)]
  /\ UNCHANGED <<cached, ask>>

-----------------------------------------------------------------------------
(* The agent *)

\* An answer, or an error; one about the rate limit is followed by a pause, unless it
\* was the last attempt.
Answered(a) ==
  /\ \/ ask' = [ask EXCEPT ![a] = Settled]
     \/ ask[a].attempt < MaxRetries /\ OneLeft /\ ask' = [ask EXCEPT ![a].pc = "pause", ![a].client = 0]
  /\ UNCHANGED <<client, cached>>

\* The request is answered with the id of a run.  Events that come with it in one piece
\* of data are handled before the run is registered: its end is then missed.
Accepted(a) ==
  /\ ask[a].pc = "request"
  /\ \E missed \in BOOLEAN : ask' = [ask EXCEPT ![a].pc = "run", ![a].missed = missed]
  /\ UNCHANGED <<client, cached>>

AnsweredAtOnce(a) == ask[a].pc = "request" /\ Answered(a)
RunEnds(a)        == ask[a].pc = "run" /\ ~ ask[a].missed /\ Answered(a)

-----------------------------------------------------------------------------
SocketStep(k) == \/ Opens(k) \/ Challenged(k) \/ Connected(k) \/ NotConnected(k) \/ Closes(k)
                 \/ Lost(k) \/ Reconnects(k)

\* The timers of a turn.
AskTimer(a) == ConnectTimesOut(a) \/ RequestTimesOut(a) \/ RunTimesOut(a) \/ AsksAgain(a)

SocketNext ==
  \/ \E a \in Asking : AsksGateway(a) \/ AskTimer(a) \/ Accepted(a) \/ AnsweredAtOnce(a) \/ RunEnds(a)
  \/ \E k \in Clients : SocketStep(k)
  \/ CleansUp

-----------------------------------------------------------------------------
(* Properties *)

SocketTypeOK ==
  /\ client \in [Clients -> [ws : {"opening", "open", "closing", "closed"}, auth : BOOLEAN,
                             state : {"connecting", "authenticating", "connected", "disconnected"},
                             reconnect : BOOLEAN, timer : BOOLEAN]]
  /\ cached \in 0 .. MaxClients
  /\ ask \in [Asking -> [pc : {"free", "connecting", "request", "run", "pause"},
                         client : 0 .. MaxClients, attempt : 0 .. MaxRetries, missed : BOOLEAN]]

\* No turn waits on a dead connection, whatever was closed, replaced or cleaned up
\* meanwhile: the socket its answer would come over is there, and a client that is to be
\* connected is still trying.  The client in the cache has not been given up, and what
\* has been given up never comes back.
AsksAreServed ==
  /\ \A a \in Asking :
       LET c == client[ask[a].client]
       IN  /\ ask[a].pc \in {"request", "run"} => c.ws # "closed"
           /\ ask[a].pc = "connecting" => c.reconnect /\ (c.ws # "closed" \/ c.timer)
  /\ cached # 0 => client[cached].reconnect
  /\ \A k \in Clients : ~ client[k].reconnect => client[k].ws \in {"closing", "closed"}
=============================================================================
