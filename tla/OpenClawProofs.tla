--------------------------- MODULE OpenClawProofs ---------------------------
(***************************************************************************)
(* Proofs about the sockets to the OpenClaw gateways, for any turns,       *)
(* number of clients and retries: no turn waits on a dead connection.      *)
(***************************************************************************)
EXTENDS Services, TLAPS

ClientStates ==
  [ws : {"opening", "open", "closing", "closed"}, auth : BOOLEAN,
   state : {"connecting", "authenticating", "connected", "disconnected"},
   reconnect : BOOLEAN, timer : BOOLEAN]

TurnStates ==
  [pc : {"free", "connecting", "request", "run", "pause"}, client : 0 .. MaxClients,
   attempt : 0 .. MaxRetries, missed : BOOLEAN]

\* Only a client that was not given up has a timer, and the client of a turn that waits
\* for a connection is its own: no other turn reaches it through the cache.  A turn that
\* pauses has an attempt left.
ClientsAreOwn ==
  /\ \A k \in Clients : client[k].timer => client[k].reconnect
  /\ \A a \in Asking : ask[a].pc = "connecting" => ask[a].client # cached
  /\ \A a \in Asking : ask[a].pc \in {"connecting", "request", "run"} => ask[a].client \in Clients
  /\ \A a \in Asking : ask[a].pc = "pause" => ask[a].attempt < MaxRetries

SocketInv == SocketTypeOK /\ AsksAreServed /\ ClientsAreOwn

-----------------------------------------------------------------------------
(* The inductive invariant *)

LEMMA SocketInvInit == SocketInit => SocketInv
<1> SUFFICES ASSUME SocketInit PROVE SocketInv
  OBVIOUS
<1> USE RetriesAssumption DEF SocketInit, Closed, Settled
<1>1. SocketTypeOK
  BY DEF SocketTypeOK
<1>2. AsksAreServed /\ ClientsAreOwn
  BY DEF AsksAreServed, ClientsAreOwn
<1> QED BY <1>1, <1>2 DEF SocketInv

LEMMA SocketTypes ==
  SocketTypeOK <=> /\ client \in [Clients -> ClientStates] /\ cached \in 0 .. MaxClients
                   /\ ask \in [Asking -> TurnStates]
BY DEF SocketTypeOK, ClientStates, TurnStates

\* A client that is given up: its socket closes, and nothing brings it back.
LEMMA GivingUp ==
  ASSUME NEW c \in ClientStates
  PROVE  /\ GivenUp(c) \in ClientStates
         /\ ~ GivenUp(c).timer
         /\ GivenUp(c).ws \in {"closing", "closed"}
         /\ GivenUp(c).ws = "closed" <=> c.ws = "closed"
<1> DEFINE up == IF c.ws \in {"opening", "open"} THEN "closing" ELSE c.ws
<1>1. GivenUp(c) = [c EXCEPT !.ws = up, !.state = "disconnected", !.reconnect = FALSE, !.timer = FALSE]
  BY DEF GivenUp
<1>2. up \in {"closing", "closed"} /\ (up = "closed" <=> c.ws = "closed")
  BY DEF ClientStates
<1>3. GivenUp(c) = [ws |-> up, auth |-> c.auth, state |-> "disconnected", reconnect |-> FALSE,
                    timer |-> FALSE]
  <2> HIDE DEF up
  <2> QED BY <1>1 DEF ClientStates
<1> HIDE DEF up
<1> QED BY <1>2, <1>3 DEF ClientStates

\* A step of one socket that leaves alone the turns, the cache, whether it was given up,
\* and neither closes it nor opens one that was given up.
LEMMA SocketStepKeepsInv ==
  ASSUME SocketInv, NEW k \in Clients, NEW c,
         c \in [ws : {"opening", "open", "closing"}, auth : BOOLEAN,
                state : {"connecting", "authenticating", "connected", "disconnected"},
                reconnect : BOOLEAN, timer : BOOLEAN],
         c.reconnect = client[k].reconnect, c.timer => client[k].timer,
         ~ c.reconnect => c.ws = "closing",
         client' = [client EXCEPT ![k] = c], UNCHANGED <<cached, ask>>
  PROVE  SocketInv'
<1> USE DEF SocketInv
<1>1. SocketTypeOK'
  BY DEF SocketTypeOK
<1>2. \A l \in Clients : client'[l] = IF l = k THEN c ELSE client[l]
  BY DEF SocketTypeOK
<1>3. AsksAreServed'
  BY <1>2, RetriesAssumption DEF AsksAreServed, ClientsAreOwn, SocketTypeOK, Clients
<1>4. ClientsAreOwn'
  BY <1>2 DEF ClientsAreOwn
<1> QED BY <1>1, <1>3, <1>4

\* A step of one turn that leaves the sockets alone: it waits for nothing new but a run
\* on the client it has, or pauses with an attempt left.
LEMMA TurnStepKeepsInv ==
  ASSUME SocketInv, NEW a \in Asking, NEW r,
         r \in [pc : {"free", "request", "run", "pause"}, client : 0 .. MaxClients,
                attempt : 0 .. MaxRetries, missed : BOOLEAN],
         r.pc \in {"request", "run"} => r.client \in Clients /\ client[r.client].ws # "closed",
         r.pc = "pause" => r.attempt < MaxRetries,
         ask' = [ask EXCEPT ![a] = r], UNCHANGED <<client, cached>>
  PROVE  SocketInv'
<1> USE DEF SocketInv
<1>1. SocketTypeOK'
  BY DEF SocketTypeOK
<1>2. \A b \in Asking : ask'[b] = IF b = a THEN r ELSE ask[b]
  BY DEF SocketTypeOK
<1>3. AsksAreServed'
  BY <1>2 DEF AsksAreServed
<1>4. ClientsAreOwn'
  BY <1>2 DEF ClientsAreOwn
<1> QED BY <1>1, <1>3, <1>4

\* What a turn gets when it sends its request: a wait on an open socket, or nothing.
LEMMA SendingIsServed ==
  ASSUME NEW k \in Clients,
         NEW r \in [pc : {"free", "connecting", "request", "run", "pause"}, client : 0 .. MaxClients,
                    attempt : 0 .. MaxRetries, missed : BOOLEAN]
  PROVE  /\ Sent(r, k) \in [pc : {"free", "request"}, client : 0 .. MaxClients,
                             attempt : 0 .. MaxRetries, missed : BOOLEAN]
         /\ Sent(r, k).pc = "request" => Sent(r, k).client = k /\ client[k].ws = "open"
<1>1. CASE client[k].ws = "open"
  <2>1. k \in 0 .. MaxClients
    BY RetriesAssumption DEF Clients
  <2>2. Sent(r, k) = [r EXCEPT !.pc = "request", !.client = k]
    BY <1>1 DEF Sent
  <2> QED BY <1>1, <2>1, <2>2
<1>2. CASE client[k].ws # "open"
  BY <1>2, RetriesAssumption DEF Sent, Settled
<1> QED BY <1>1, <1>2

\* A turn that asks for a client uses the one that is connected, or gives the one in the
\* cache up, which no turn waits to be connected, and takes one that nobody has.
LEMMA GetsKeepsInv ==
  ASSUME SocketInv, NEW a \in Asking,
         NEW r \in [pc : {"free", "pause"}, client : 0 .. MaxClients, attempt : 0 .. MaxRetries,
                    missed : BOOLEAN],
         Gets(a, r)
  PROVE  SocketInv'
<1>1. CASE cached # 0 /\ client[cached].state = "connected"
  <2>1. cached \in Clients
    BY <1>1, RetriesAssumption DEF SocketInv, SocketTypeOK, Clients
  <2>2. ask' = [ask EXCEPT ![a] = Sent(r, cached)] /\ UNCHANGED <<client, cached>>
    BY <1>1 DEF Gets
  <2>3. /\ Sent(r, cached) \in [pc : {"free", "request"}, client : 0 .. MaxClients,
                                 attempt : 0 .. MaxRetries, missed : BOOLEAN]
        /\ Sent(r, cached).pc = "request" => /\ Sent(r, cached).client = cached
                                             /\ client[cached].ws = "open"
    BY <2>1, SendingIsServed
  <2> DEFINE sent == Sent(r, cached)
  <2>4. /\ sent \in [pc : {"free", "request", "run", "pause"}, client : 0 .. MaxClients,
                     attempt : 0 .. MaxRetries, missed : BOOLEAN]
        /\ sent.pc \in {"request", "run"} => sent.client \in Clients /\ client[sent.client].ws # "closed"
        /\ sent.pc = "pause" => sent.attempt < MaxRetries
        /\ ask' = [ask EXCEPT ![a] = sent]
    BY <2>1, <2>2, <2>3
  <2> HIDE DEF sent
  <2> QED BY <2>2, <2>4, TurnStepKeepsInv
<1>2. CASE ~ (cached # 0 /\ client[cached].state = "connected")
  <2>1. PICK k \in Unused :
          /\ client' = [l \in Clients |->
               IF l = k THEN Connecting([Closed EXCEPT !.reconnect = TRUE])
               ELSE IF l = cached THEN GivenUp(client[l]) ELSE client[l]]
          /\ cached' = 0
          /\ ask' = [ask EXCEPT ![a] = [r EXCEPT !.pc = "connecting", !.client = k]]
    BY <1>2 DEF Gets
  <2>2. k \in Clients /\ \A b \in Asking : ask[b].client # k
    BY DEF Unused
  <2>3. /\ client'[k] = [ws |-> "opening", state |-> "connecting", auth |-> FALSE,
                         reconnect |-> TRUE, timer |-> FALSE]
        /\ \A l \in Clients \ {k} : client'[l] = IF l = cached THEN GivenUp(client[l]) ELSE client[l]
    BY <2>1, <2>2 DEF Connecting, Closed
  <2>4. \A b \in Asking : ask'[b] = IF b = a THEN [r EXCEPT !.pc = "connecting", !.client = k]
                                    ELSE ask[b]
    BY <2>1 DEF SocketInv, SocketTypeOK
  <2>5. k # 0 /\ k \in 0 .. MaxClients
    BY <2>2, RetriesAssumption DEF Clients
  <2>6. ASSUME NEW l \in Clients
        PROVE  /\ GivenUp(client[l]) \in ClientStates
               /\ ~ GivenUp(client[l]).timer
               /\ GivenUp(client[l]).ws \in {"closing", "closed"}
               /\ GivenUp(client[l]).ws = "closed" <=> client[l].ws = "closed"
    BY GivingUp, SocketTypes DEF SocketInv
  <2>7. SocketTypeOK'
    <3>1. client'[k] \in ClientStates
      BY <2>3 DEF ClientStates
    <3>2. client' \in [Clients -> ClientStates]
      BY <2>1, <2>3, <2>6, <3>1, SocketTypes DEF SocketInv
    <3>3. cached' \in 0 .. MaxClients
      BY <2>1, RetriesAssumption
    <3>4. [r EXCEPT !.pc = "connecting", !.client = k] \in TurnStates
      BY <2>5 DEF TurnStates
    <3>5. ask' \in [Asking -> TurnStates]
      BY <2>1, <3>4, SocketTypes DEF SocketInv
    <3> QED BY <3>2, <3>3, <3>5 DEF SocketTypeOK, ClientStates, TurnStates
  <2>8. ask'[a].pc = "connecting" /\ ask'[a].client = k
    BY <2>4, <2>5
  <2>9. ASSUME NEW l \in Clients, l # k
        PROVE  /\ client[l].ws # "closed" => client'[l].ws # "closed"
               /\ ~ client'[l].reconnect => client'[l].ws \in {"closing", "closed"}
               /\ client'[l].timer => client'[l].reconnect
               /\ l # cached => client'[l] = client[l]
    BY <2>3, <2>6, <2>9 DEF SocketInv, AsksAreServed, ClientsAreOwn
  <2>10. ASSUME NEW b \in Asking
         PROVE  /\ ask'[b].pc \in {"request", "run"} => client'[ask'[b].client].ws # "closed"
                /\ ask'[b].pc = "connecting" => /\ client'[ask'[b].client].reconnect
                                                /\ \/ client'[ask'[b].client].ws # "closed"
                                                   \/ client'[ask'[b].client].timer
                /\ ask'[b].pc \in {"connecting", "request", "run"} => ask'[b].client \in Clients
                /\ ask'[b].pc = "pause" => ask'[b].attempt < MaxRetries
                /\ ask'[b].pc = "connecting" => ask'[b].client # 0
    <3>1. CASE b = a
      BY <3>1, <2>2, <2>3, <2>5, <2>8
    <3>2. CASE b # a
      <4>1. ask'[b] = ask[b] /\ ask[b].client # k
        BY <3>2, <2>2, <2>4
      <4> QED BY <4>1, <2>9, RetriesAssumption DEF SocketInv, AsksAreServed, ClientsAreOwn, Clients
    <3> QED BY <3>1, <3>2
  <2>11. cached' = 0 /\ client'[k].ws = "opening" /\ client'[k].reconnect
    BY <2>1, <2>3
  <2>12. AsksAreServed'
    BY <2>9, <2>10, <2>11 DEF AsksAreServed
  <2>13. ClientsAreOwn'
    BY <2>9, <2>10, <2>11 DEF ClientsAreOwn
  <2> QED BY <2>7, <2>12, <2>13 DEF SocketInv
<1> QED BY <1>1, <1>2

\* A client is connected: only those that wait for it change, and the one of them whose
\* client comes into the cache waits for no connection any more.
LEMMA ConnectedKeepsInv ==
  ASSUME SocketInv, NEW k \in Clients, Connected(k) PROVE SocketInv'
<1>1. ASSUME NEW a \in Asking
      PROVE  ask'[a] = IF a \in TurnsOn(k, {"connecting"}) THEN Sent(ask[a], k) ELSE ask[a]
  BY DEF Connected
<1>2. ASSUME NEW l \in Clients
      PROVE  client'[l] = IF l = k THEN [client[l] EXCEPT !.auth = FALSE, !.state = "connected"]
                          ELSE client[l]
  BY DEF Connected, SocketInv, SocketTypeOK
<1>3. ASSUME NEW a \in Asking
      PROVE  /\ Sent(ask[a], k) \in [pc : {"free", "request"}, client : 0 .. MaxClients,
                             attempt : 0 .. MaxRetries, missed : BOOLEAN]
             /\ Sent(ask[a], k).pc = "request" => Sent(ask[a], k).client = k /\ client[k].ws = "open"
  <2>1. ask[a] \in [pc : {"free", "connecting", "request", "run", "pause"}, client : 0 .. MaxClients,
                    attempt : 0 .. MaxRetries, missed : BOOLEAN]
    BY DEF SocketInv, SocketTypeOK
  <2> QED BY <2>1, SendingIsServed
<1>4. SocketTypeOK'
  <2>1. client' \in [Clients -> ClientStates]
    <3>1. client[k] \in ClientStates
      BY SocketTypes DEF SocketInv
    <3>2. [client[k] EXCEPT !.auth = FALSE, !.state = "connected"] \in ClientStates
      BY <3>1 DEF ClientStates
    <3>3. \A l \in Clients : client'[l] \in ClientStates
      BY <1>2, <3>2, SocketTypes DEF SocketInv
    <3>4. client' = [l \in Clients |-> client'[l]]
      BY SocketTypes DEF Connected, SocketInv
    <3> QED BY ONLY <3>3, <3>4, Zenon
  <2>2. cached' \in 0 .. MaxClients
    BY RetriesAssumption DEF Connected, SocketInv, SocketTypeOK, Clients
  <2>3. ask' \in [Asking -> TurnStates]
    <3>1. \A a \in Asking : Sent(ask[a], k) \in TurnStates
      BY <1>3 DEF TurnStates
    <3> QED BY <3>1, SocketTypes DEF Connected, SocketInv
  <2> QED BY <2>1, <2>2, <2>3 DEF SocketTypeOK, ClientStates, TurnStates
<1>5. AsksAreServed'
  <2>1. /\ \A l \in Clients : /\ client'[l].ws = client[l].ws
                              /\ client'[l].reconnect = client[l].reconnect
                              /\ client'[l].timer = client[l].timer
    BY <1>2 DEF SocketInv, SocketTypeOK
  <2>2. cached' # 0 => client'[cached'].reconnect
    <3>1. CASE TurnsOn(k, {"connecting"}) = {}
      BY <3>1, <2>1, RetriesAssumption DEF Connected, SocketInv, AsksAreServed, SocketTypeOK, Clients
    <3>2. CASE TurnsOn(k, {"connecting"}) # {}
      BY <3>2, <2>1 DEF Connected, TurnsOn, SocketInv, AsksAreServed
    <3> QED BY <3>1, <3>2
  <2>3. ASSUME NEW a \in Asking
        PROVE  /\ ask'[a].pc \in {"request", "run"} => client'[ask'[a].client].ws # "closed"
               /\ ask'[a].pc = "connecting" => /\ client'[ask'[a].client].reconnect
                                               /\ \/ client'[ask'[a].client].ws # "closed"
                                                  \/ client'[ask'[a].client].timer
    <3>1. CASE a \in TurnsOn(k, {"connecting"})
      BY <3>1, <1>1, <1>3, <2>1
    <3>2. CASE a \notin TurnsOn(k, {"connecting"})
      BY <3>2, <1>1, <2>1 DEF SocketInv, AsksAreServed, ClientsAreOwn
    <3> QED BY <3>1, <3>2
  <2> QED BY <2>1, <2>2, <2>3 DEF SocketInv, AsksAreServed
<1>6. ClientsAreOwn'
  <2>1. \A l \in Clients : client'[l].timer => client'[l].reconnect
    <3>1. client[k] \in ClientStates
      BY SocketTypes DEF SocketInv
    <3>2. LET c == [client[k] EXCEPT !.auth = FALSE, !.state = "connected"]
          IN  c.timer = client[k].timer /\ c.reconnect = client[k].reconnect
      BY <3>1 DEF ClientStates
    <3> QED BY <1>2, <3>2 DEF SocketInv, ClientsAreOwn
  <2>2. ASSUME NEW a \in Asking, ask'[a].pc = "connecting" PROVE ask'[a].client # cached'
    BY <2>2, <1>1, <1>3 DEF Connected, TurnsOn, SocketInv, ClientsAreOwn
  <2>3. ASSUME NEW a \in Asking
        PROVE  /\ ask'[a].pc \in {"connecting", "request", "run"} => ask'[a].client \in Clients
               /\ ask'[a].pc = "pause" => ask'[a].attempt < MaxRetries
    BY <1>1, <1>3 DEF SocketInv, ClientsAreOwn
  <2> QED BY <2>1, <2>2, <2>3 DEF ClientsAreOwn
<1> QED BY <1>4, <1>5, <1>6 DEF SocketInv

\* A socket is lost: whoever waits for an answer over it is told, and whoever waits for
\* its client to be connected has one that tries again.
LEMMA LostKeepsInv ==
  ASSUME SocketInv, NEW k \in Clients, Lost(k) PROVE SocketInv'
<1>1. ASSUME NEW a \in Asking
      PROVE  ask'[a] = IF a \in TurnsOn(k, {"request", "run"}) THEN Settled ELSE ask[a]
  BY DEF Lost
<1> DEFINE lost == [Closed EXCEPT !.reconnect = client[k].reconnect, !.timer = client[k].reconnect]
<1>a. client[k] \in ClientStates
  BY SocketTypes DEF SocketInv
<1>b. lost = [ws |-> "closed", state |-> "disconnected", auth |-> FALSE,
              reconnect |-> client[k].reconnect, timer |-> client[k].reconnect]
  <2>1. /\ Closed \in ClientStates /\ Closed.ws = "closed" /\ Closed.state = "disconnected"
        /\ Closed.auth = FALSE
    BY DEF Closed, ClientStates
  <2>2. ASSUME NEW c \in ClientStates, c.ws = "closed", c.state = "disconnected", c.auth = FALSE, NEW up,
              NEW d, d = [c EXCEPT !.reconnect = up, !.timer = up]
        PROVE  d = [ws |-> "closed", state |-> "disconnected", auth |-> FALSE, reconnect |-> up,
                    timer |-> up]
    BY <2>2 DEF ClientStates
  <2> QED BY ONLY <2>1, <2>2, Zenon
<1>c. lost \in ClientStates
  BY <1>a, <1>b DEF ClientStates
<1>d. client' = [client EXCEPT ![k] = lost]
  BY DEF Lost
<1> HIDE DEF lost
<1>2. ASSUME NEW l \in Clients
      PROVE  client'[l] = IF l = k THEN [ws |-> "closed", state |-> "disconnected", auth |-> FALSE,
                                         reconnect |-> client[k].reconnect,
                                         timer |-> client[k].reconnect]
                          ELSE client[l]
  BY <1>b, <1>d, SocketTypes DEF SocketInv
<1>3. SocketTypeOK'
  <2>1. client' \in [Clients -> ClientStates]
    BY <1>c, <1>d, SocketTypes DEF SocketInv
  <2>2. Settled \in TurnStates
    BY RetriesAssumption DEF Settled, TurnStates
  <2>3. ask' \in [Asking -> TurnStates]
    BY <2>2, SocketTypes DEF Lost, SocketInv
  <2>4. cached' \in 0 .. MaxClients
    BY DEF Lost, SocketInv, SocketTypeOK
  <2> QED BY <2>1, <2>3, <2>4 DEF SocketTypeOK, ClientStates, TurnStates
<1>4. AsksAreServed'
  <2>1. cached' # 0 => client'[cached'].reconnect
    BY <1>2, RetriesAssumption DEF Lost, SocketInv, AsksAreServed, SocketTypeOK, Clients
  <2>2. \A l \in Clients : ~ client'[l].reconnect => client'[l].ws \in {"closing", "closed"}
    BY <1>2 DEF SocketInv, AsksAreServed
  <2>3. ASSUME NEW a \in Asking
        PROVE  /\ ask'[a].pc \in {"request", "run"} => client'[ask'[a].client].ws # "closed"
               /\ ask'[a].pc = "connecting" => /\ client'[ask'[a].client].reconnect
                                               /\ \/ client'[ask'[a].client].ws # "closed"
                                                  \/ client'[ask'[a].client].timer
    BY <1>1, <1>2 DEF TurnsOn, Settled, SocketInv, AsksAreServed, ClientsAreOwn
  <2> QED BY <2>1, <2>2, <2>3 DEF AsksAreServed
<1>5. ClientsAreOwn'
  BY <1>1, <1>2 DEF Lost, Settled, SocketInv, ClientsAreOwn
<1> QED BY <1>3, <1>4, <1>5 DEF SocketInv

\* A client nobody uses is given up.
LEMMA CleansUpKeepsInv ==
  ASSUME SocketInv, CleansUp PROVE SocketInv'
<1>1. cached \in Clients
  BY RetriesAssumption DEF CleansUp, SocketInv, SocketTypeOK, Clients
<1>2. ASSUME NEW l \in Clients
      PROVE  client'[l] = IF l = cached THEN GivenUp(client[l]) ELSE client[l]
  BY <1>1 DEF CleansUp, SocketInv, SocketTypeOK
<1>3. /\ GivenUp(client[cached]) \in ClientStates
      /\ ~ GivenUp(client[cached]).timer
      /\ GivenUp(client[cached]).ws \in {"closing", "closed"}
  BY <1>1, GivingUp, SocketTypes DEF SocketInv
<1>4. SocketTypeOK'
  <2>1. client' \in [Clients -> ClientStates]
    BY <1>1, <1>3, SocketTypes DEF CleansUp, SocketInv
  <2>2. cached' \in 0 .. MaxClients /\ ask' \in [Asking -> TurnStates]
    BY RetriesAssumption, SocketTypes DEF CleansUp, SocketInv
  <2> QED BY <2>1, <2>2 DEF SocketTypeOK, ClientStates, TurnStates
<1>5. AsksAreServed'
  BY <1>2, <1>3 DEF CleansUp, SocketInv, AsksAreServed, ClientsAreOwn
<1>6. ClientsAreOwn'
  BY <1>1, <1>2, <1>3 DEF CleansUp, SocketInv, ClientsAreOwn, Clients
<1> QED BY <1>4, <1>5, <1>6 DEF SocketInv

-----------------------------------------------------------------------------
(* Every step *)

\* The steps of a socket.
LEMMA SocketKeepsInv ==
  ASSUME SocketInv, NEW k \in Clients, SocketStep(k) PROVE SocketInv'
<1> DEFINE c == client[k]
<1>1. c \in ClientStates
  BY SocketTypes DEF SocketInv
<1>2. c.timer => c.reconnect
  BY DEF SocketInv, ClientsAreOwn
<1>3. ~ c.reconnect => c.ws \in {"closing", "closed"}
  BY DEF SocketInv, AsksAreServed
<1>4. CASE Opens(k)
  <2> DEFINE d == [c EXCEPT !.ws = "open", !.state = "authenticating"]
  <2>1. d = [ws |-> "open", state |-> "authenticating", auth |-> c.auth, reconnect |-> c.reconnect,
             timer |-> c.timer]
    <3>1. d = [c EXCEPT !.ws = "open", !.state = "authenticating"]
      OBVIOUS
    <3> HIDE DEF c, d
    <3> QED BY <1>1, <3>1 DEF ClientStates
  <2>2. client' = [client EXCEPT ![k] = d] /\ UNCHANGED <<cached, ask>> /\ c.reconnect
    BY <1>1, <1>3, <1>4 DEF Opens, ClientStates
  <2> HIDE DEF d
  <2> QED BY <1>1, <2>1, <2>2, SocketStepKeepsInv DEF ClientStates
<1>5. CASE Challenged(k)
  <2> DEFINE d == [c EXCEPT !.auth = TRUE]
  <2>1. d = [ws |-> "open", state |-> c.state, auth |-> TRUE, reconnect |-> c.reconnect,
             timer |-> c.timer]
    <3>1. c.ws = "open"
      BY <1>5 DEF Challenged
    <3>2. d = [c EXCEPT !.auth = TRUE]
      OBVIOUS
    <3> HIDE DEF c, d
    <3> QED BY <1>1, <3>1, <3>2 DEF ClientStates
  <2>2. client' = [client EXCEPT ![k] = d] /\ UNCHANGED <<cached, ask>>
    BY <1>5 DEF Challenged
  <2>3. c.reconnect
    BY <1>1, <1>3, <1>5 DEF Challenged, ClientStates
  <2> HIDE DEF d
  <2> QED BY <1>1, <2>1, <2>2, <2>3, SocketStepKeepsInv DEF ClientStates
<1>6. CASE NotConnected(k)
  <2> DEFINE d == [c EXCEPT !.auth = FALSE, !.ws = "closing"]
  <2>1. d = [ws |-> "closing", state |-> c.state, auth |-> FALSE, reconnect |-> c.reconnect,
             timer |-> c.timer]
    <3>1. d = [c EXCEPT !.auth = FALSE, !.ws = "closing"]
      OBVIOUS
    <3> HIDE DEF c, d
    <3> QED BY <1>1, <3>1 DEF ClientStates
  <2>2. client' = [client EXCEPT ![k] = d] /\ UNCHANGED <<cached, ask>>
    BY <1>6 DEF NotConnected
  <2> HIDE DEF d
  <2> QED BY <1>1, <2>1, <2>2, SocketStepKeepsInv DEF ClientStates
<1>7. CASE Closes(k)
  <2> DEFINE d == [c EXCEPT !.ws = "closing"]
  <2>1. d = [ws |-> "closing", state |-> c.state, auth |-> c.auth, reconnect |-> c.reconnect,
             timer |-> c.timer]
    <3>1. d = [c EXCEPT !.ws = "closing"]
      OBVIOUS
    <3> HIDE DEF c, d
    <3> QED BY <1>1, <3>1 DEF ClientStates
  <2>2. client' = [client EXCEPT ![k] = d] /\ UNCHANGED <<cached, ask>>
    BY <1>7 DEF Closes
  <2> HIDE DEF d
  <2> QED BY <1>1, <2>1, <2>2, SocketStepKeepsInv DEF ClientStates
<1>8. CASE Reconnects(k)
  <2> DEFINE d == Connecting(c)
  <2>1. d = [ws |-> "opening", state |-> "connecting", auth |-> c.auth, reconnect |-> c.reconnect,
             timer |-> FALSE]
    <3>1. d = Connecting(c)
      OBVIOUS
    <3> HIDE DEF c, d
    <3> QED BY <1>1, <3>1 DEF Connecting, ClientStates
  <2>2. client' = [client EXCEPT ![k] = d] /\ UNCHANGED <<cached, ask>> /\ c.reconnect
    BY <1>2, <1>8 DEF Reconnects
  <2> HIDE DEF d
  <2> QED BY <1>1, <2>1, <2>2, SocketStepKeepsInv DEF ClientStates
<1> QED BY <1>4, <1>5, <1>6, <1>7, <1>8, ConnectedKeepsInv, LostKeepsInv DEF SocketStep

\* The steps of a turn.
LEMMA TurnKeepsInv ==
  ASSUME SocketInv, NEW a \in Asking,
         AsksGateway(a) \/ AskTimer(a) \/ Accepted(a) \/ AnsweredAtOnce(a) \/ RunEnds(a)
  PROVE  SocketInv'
<1> DEFINE r == ask[a]
<1>1. r \in TurnStates
  BY SocketTypes DEF SocketInv
<1>2. /\ r.pc \in {"request", "run"} => r.client \in Clients /\ client[r.client].ws # "closed"
      /\ r.pc = "pause" => r.attempt < MaxRetries
  BY DEF SocketInv, AsksAreServed, ClientsAreOwn
<1>3. Settled \in [pc : {"free"}, client : 0 .. MaxClients, attempt : 0 .. MaxRetries, missed : BOOLEAN]
  BY RetriesAssumption DEF Settled
<1>4. CASE AsksGateway(a)
  BY <1>3, <1>4, GetsKeepsInv DEF AsksGateway
<1>5. CASE AsksAgain(a)
  <2> DEFINE s == [r EXCEPT !.attempt = @ + 1, !.missed = FALSE]
  <2>1. r.pc = "pause" /\ Gets(a, s)
    BY <1>5 DEF AsksAgain
  <2>2. r.attempt + 1 \in 0 .. MaxRetries
    BY <1>1, <1>2, <2>1, RetriesAssumption DEF TurnStates
  <2>3. s \in [pc : {"free", "pause"}, client : 0 .. MaxClients, attempt : 0 .. MaxRetries,
               missed : BOOLEAN]
    <3>1. r.pc = "pause"
      BY <2>1
    <3> HIDE DEF r
    <3> QED BY <1>1, <2>2, <3>1 DEF TurnStates
  <2> HIDE DEF s
  <2> QED BY <2>1, <2>3, GetsKeepsInv
<1>6. ASSUME ask' = [ask EXCEPT ![a] = Settled], UNCHANGED <<client, cached>> PROVE SocketInv'
  <2>1. Settled.pc = "free"
    BY DEF Settled
  <2> QED BY <1>3, <1>6, <2>1, TurnStepKeepsInv
<1>7. CASE \E pc \in {"connecting", "request", "run"} : TimesOutOf(a, pc)
  BY <1>6, <1>7 DEF TimesOutOf
<1>8. CASE Accepted(a)
  <2>1. PICK missed \in BOOLEAN : ask' = [ask EXCEPT ![a].pc = "run", ![a].missed = missed]
    BY <1>8 DEF Accepted
  <2> DEFINE s == [r EXCEPT !.pc = "run", !.missed = missed]
  <2>2. s = [pc |-> "run", client |-> r.client, attempt |-> r.attempt, missed |-> missed]
    <3>1. s = [r EXCEPT !.pc = "run", !.missed = missed]
      OBVIOUS
    <3> HIDE DEF r, s
    <3> QED BY <1>1, <3>1 DEF TurnStates
  <2>3. ask' = [ask EXCEPT ![a] = s] /\ UNCHANGED <<client, cached>> /\ r.pc = "request"
    BY <1>8, <2>1 DEF Accepted
  <2> HIDE DEF s
  <2> QED BY <1>1, <1>2, <2>2, <2>3, TurnStepKeepsInv DEF TurnStates
<1>9. CASE Answered(a)
  <2>1. CASE ask' = [ask EXCEPT ![a] = Settled]
    BY <1>6, <1>9, <2>1 DEF Answered
  <2>2. CASE r.attempt < MaxRetries /\ ask' = [ask EXCEPT ![a].pc = "pause", ![a].client = 0]
    <3> DEFINE s == [r EXCEPT !.pc = "pause", !.client = 0]
    <3>1. s = [pc |-> "pause", client |-> 0, attempt |-> r.attempt, missed |-> r.missed]
      <4>1. s = [r EXCEPT !.pc = "pause", !.client = 0]
        OBVIOUS
      <4> HIDE DEF r, s
      <4> QED BY <1>1, <4>1 DEF TurnStates
    <3>2. ask' = [ask EXCEPT ![a] = s]
      BY <2>2
    <3>3. UNCHANGED <<client, cached>>
      BY <1>9 DEF Answered
    <3>4. 0 \in 0 .. MaxClients
      BY RetriesAssumption
    <3> HIDE DEF s
    <3> QED BY <1>1, <2>2, <3>1, <3>2, <3>3, <3>4, TurnStepKeepsInv DEF TurnStates
  <2> QED BY <1>9, <2>1, <2>2 DEF Answered
<1> QED BY <1>4, <1>5, <1>7, <1>8, <1>9
        DEF AskTimer, ConnectTimesOut, RequestTimesOut, RunTimesOut, AnsweredAtOnce, RunEnds

LEMMA SocketInvNext == ASSUME SocketInv, [ServicesNext]_serviceVars PROVE SocketInv'
<1>1. CASE UNCHANGED socketVars
  BY <1>1 DEF socketVars, SocketInv, SocketTypeOK, AsksAreServed, ClientsAreOwn
<1>2. CASE SocketNext
  BY <1>2, TurnKeepsInv, SocketKeepsInv, CleansUpKeepsInv DEF SocketNext
<1> QED BY <1>1, <1>2 DEF ServicesNext, serviceVars

LEMMA SocketInvHolds == ServicesSpec => []SocketInv
<1>1. ServicesInit => SocketInv
  BY SocketInvInit DEF ServicesInit
<1>2. SocketInv /\ [ServicesNext]_serviceVars => SocketInv'
  BY SocketInvNext
<1> QED BY <1>1, <1>2, PTL DEF ServicesSpec

\* No turn waits on a dead connection: sendAgentChat and agentAndWait always have a socket
\* that can answer, or a client that tries again.
THEOREM AsksAreServedHolds == ServicesSpec => []AsksAreServed
<1>1. SocketInv => AsksAreServed
  BY DEF SocketInv
<1> QED BY <1>1, SocketInvHolds, PTL

\* No client or turn has a number it may not have.
LEMMA SocketIsTyped == ServicesSpec => []SocketTypeOK
<1>1. SocketInv => SocketTypeOK
  BY DEF SocketInv
<1> QED BY <1>1, SocketInvHolds, PTL
=============================================================================
