-------------------------- MODULE HumanMovesProofs --------------------------
(***************************************************************************)
(* Proofs about the pending moves, for any matches, seats and bounds: a    *)
(* turn is answered by its own seat, and the service, its timers and the   *)
(* loops agree on who is waited for.                                       *)
(***************************************************************************)
EXTENDS Services, TLAPS

MovesTypes ==
  /\ asked \subseteq Seated /\ timers \subseteq Keys
  /\ pending \in [Keys -> Seated \cup {Nobody}]
  /\ answers \in [Seated -> Seated \cup {Nobody}]
  /\ submit \in [Submits -> [pc : {"free", "a", "b", "verify", "submit"},
                             by : Seated \cup {Nobody}, match : Boards \cup {"none"},
                             key : Keys \cup {Nobody}, seat : Seated \cup {Nobody}]]

\* A request under way names its user's seat and match, later a key, and hands in a
\* move of its own agent only.
RequestsAreOwn ==
  \A r \in Submits :
    /\ submit[r].pc # "free" => submit[r].by \in Seated /\ submit[r].match \in Boards
    /\ submit[r].pc \in {"verify", "submit"} => submit[r].key \in Keys
    /\ submit[r].pc = "submit" => submit[r].seat = submit[r].by

\* A seat is waited for under its own key only.
PendingAtItsKey == \A k \in Keys : pending[k] # Nobody => KeyOf(pending[k]) = k

MovesInv == MovesTypes /\ RequestsAreOwn /\ MovesAreOwn /\ PendingAtItsKey /\ WaitingIsPending

-----------------------------------------------------------------------------
(* The keys *)

\* Nobody sits nowhere, and no seat is the key of a match.
LEMMA SeatsAreProper ==
  /\ Nobody \notin Seated
  /\ \A s \in Seated : s[1] \in Boards /\ s[2] \in TwoSides /\ s = <<s[1], s[2]>>
  /\ \A m \in Boards : MainKey(m) \in Keys /\ MainKey(m) \notin Seated /\ MainKey(m)[1] = m
BY DEF Nobody, Seated, TwoSides, MainKey, Keys

\* The key of a seat is one of its match.
LEMMA KeysAreProper ==
  \A s \in Seated : KeyOf(s) \in Keys /\ KeyOf(s)[1] = s[1]
BY SeatsAreProper DEF KeyOf, Keys

\* An entry that is kept for a seat goes when its key is cleared, and no other entry does.
LEMMA ClearingKeepsWaiting ==
  ASSUME MovesInv, NEW key \in Keys, pending[key] # Nobody,
         timers' = timers \ {key}, pending' = [pending EXCEPT ![key] = Nobody],
         asked' = asked \ {pending[key]}, dropped' = dropped
  PROVE  /\ PendingAtItsKey' /\ WaitingIsPending'
         /\ asked' \subseteq Seated /\ timers' \subseteq Keys
         /\ pending' \in [Keys -> Seated \cup {Nobody}]
<1>1. \A k \in Keys : pending'[k] = IF k = key THEN Nobody ELSE pending[k]
  BY DEF MovesInv, MovesTypes
<1>2. asked' \subseteq Seated /\ timers' \subseteq Keys /\ pending' \in [Keys -> Seated \cup {Nobody}]
  BY DEF MovesInv, MovesTypes
<1>3. PendingAtItsKey'
  BY <1>1 DEF MovesInv, PendingAtItsKey, KeyOf, MainKey
<1>4. ASSUME NEW s \in asked', s[1] \notin dropped
      PROVE  pending'[KeyOf(s)] = s /\ KeyOf(s) \in timers'
  <2>1. s \in asked /\ s # pending[key] /\ s \in Seated
    BY <1>4 DEF MovesInv, MovesTypes
  <2>2. pending[KeyOf(s)] = s /\ KeyOf(s) \in timers
    BY <1>4, <2>1 DEF MovesInv, WaitingIsPending
  <2>3. KeyOf(s) # key
    BY <2>1, <2>2
  <2> QED BY <1>1, <2>1, <2>2, <2>3, KeysAreProper
<1>5. ASSUME NEW k \in Keys
      PROVE  /\ pending'[k] # Nobody <=> k \in timers'
             /\ pending'[k] # Nobody => pending'[k] \in asked'
  <2>1. /\ pending[k] # Nobody <=> k \in timers
        /\ pending[k] # Nobody => pending[k] \in asked
    BY DEF MovesInv, WaitingIsPending
  <2>2. pending[k] # Nobody /\ k # key => pending[k] # pending[key]
    BY DEF MovesInv, PendingAtItsKey
  <2> QED BY <1>1, <2>1, <2>2
<1> QED BY <1>2, <1>3, <1>4, <1>5 DEF WaitingIsPending, KeyOf, MainKey

-----------------------------------------------------------------------------
(* The inductive invariant *)

LEMMA MovesInvInit == MovesInit => MovesInv
<1> SUFFICES ASSUME MovesInit PROVE MovesInv
  OBVIOUS
<1> USE DEF MovesInit
<1>1. MovesTypes
  BY DEF MovesTypes, NoSubmit
<1>2. RequestsAreOwn
  BY DEF RequestsAreOwn, NoSubmit
<1>3. MovesAreOwn /\ PendingAtItsKey /\ WaitingIsPending
  BY DEF MovesAreOwn, PendingAtItsKey, WaitingIsPending
<1> QED BY <1>1, <1>2, <1>3 DEF MovesInv

\* A turn controller asks seats of a match that waits for nobody; each has a key of its own.
LEMMA AsksKeepsInv ==
  ASSUME MovesInv, NEW m \in Boards, NEW seats \in SUBSET Seated,
         \A s \in seats : s[1] = m, \A s, t \in seats : KeyOf(s) = KeyOf(t) => s = t,
         Asks(m, seats)
  PROVE  MovesInv'
<1> USE DEF Asks
<1>1. ASSUME NEW k \in Keys PROVE pending'[k] \in Seated \cup {Nobody}
  <2>1. CASE \E s \in seats : k = KeyOf(s)
    BY <2>1
  <2>2. CASE ~ \E s \in seats : k = KeyOf(s)
    BY <2>2 DEF MovesInv, MovesTypes
  <2> QED BY <2>1, <2>2
<1>2. ASSUME NEW s \in seats PROVE pending'[KeyOf(s)] = s
  BY KeysAreProper
<1>3. ASSUME NEW k \in Keys, \A s \in seats : k # KeyOf(s) PROVE pending'[k] = pending[k]
  BY <1>3
<1>4. MovesTypes'
  <2>1. pending' \in [Keys -> Seated \cup {Nobody}]
    <3>1. pending' = [k \in Keys |-> pending'[k]]
      OBVIOUS
    <3> HIDE DEF Asks
    <3> QED BY ONLY <1>1, <3>1, Zenon
  <2>2. timers' \subseteq Keys
    BY KeysAreProper DEF MovesInv, MovesTypes
  <2>3. asked' \subseteq Seated /\ UNCHANGED <<answers, submit>>
    BY DEF MovesInv, MovesTypes
  <2> QED BY <2>1, <2>2, <2>3 DEF MovesInv, MovesTypes
<1>5. RequestsAreOwn' /\ MovesAreOwn'
  BY DEF MovesInv, RequestsAreOwn, MovesAreOwn
<1>6. ASSUME NEW k \in Keys, pending'[k] # Nobody PROVE KeyOf(pending'[k]) = k
  <2>1. CASE \E s \in seats : k = KeyOf(s)
    BY <2>1, <1>2
  <2>2. CASE \A s \in seats : k # KeyOf(s)
    BY <1>3, <1>6, <2>2 DEF MovesInv, PendingAtItsKey
  <2> QED BY <2>1, <2>2
<1>7. ASSUME NEW s \in asked', s[1] \notin dropped
      PROVE  pending'[KeyOf(s)] = s /\ KeyOf(s) \in timers'
  <2>1. CASE s \in seats
    BY <1>2, <2>1
  <2>2. CASE s \notin seats
    <3>1. s \in asked /\ s \in Seated /\ s[1] # m
      BY <2>2 DEF MovesInv, MovesTypes
    <3>2. \A t \in seats : KeyOf(s) # KeyOf(t)
      BY <3>1, KeysAreProper
    <3>3. pending[KeyOf(s)] = s /\ KeyOf(s) \in timers
      BY <1>7, <3>1 DEF MovesInv, WaitingIsPending
    <3> QED BY <1>3, <3>1, <3>2, <3>3, KeysAreProper
  <2> QED BY <2>1, <2>2
<1>8. ASSUME NEW k \in Keys
      PROVE  /\ pending'[k] # Nobody <=> k \in timers'
             /\ pending'[k] # Nobody => pending'[k] \in asked'
  <2>1. CASE \E s \in seats : k = KeyOf(s)
    BY <2>1, <1>2, SeatsAreProper
  <2>2. CASE \A s \in seats : k # KeyOf(s)
    BY <1>3, <2>2 DEF MovesInv, WaitingIsPending
  <2> QED BY <2>1, <2>2
<1>9. PendingAtItsKey' /\ WaitingIsPending'
  BY <1>6, <1>7, <1>8 DEF PendingAtItsKey, WaitingIsPending, KeyOf, MainKey
<1> QED BY <1>4, <1>5, <1>9 DEF MovesInv

LEMMA TimesOutKeepsInv == ASSUME MovesInv, NEW key \in Keys, TimesOut(key) PROVE MovesInv'
<1> USE DEF TimesOut
<1>1. pending[key] # Nobody
  BY DEF MovesInv, WaitingIsPending
<1>2. /\ PendingAtItsKey' /\ WaitingIsPending' /\ asked' \subseteq Seated
      /\ timers' \subseteq Keys /\ pending' \in [Keys -> Seated \cup {Nobody}]
  BY <1>1, ClearingKeepsWaiting
<1>3. answers' \in [Seated -> Seated \cup {Nobody}] /\ MovesAreOwn'
  BY DEF MovesInv, MovesTypes, MovesAreOwn
<1>4. RequestsAreOwn'
  BY DEF MovesInv, RequestsAreOwn
<1> QED BY <1>2, <1>3, <1>4 DEF MovesInv, MovesTypes

LEMMA CancelsKeepsInv == ASSUME MovesInv, NEW m \in Boards, Cancels(m) PROVE MovesInv'
<1> USE DEF Cancels
<1>1. MainKey(m) \in Keys /\ MainKey(m)[1] = m
  BY SeatsAreProper
<1>2. \A k \in Keys : pending'[k] = IF k = MainKey(m) THEN Nobody ELSE pending[k]
  BY DEF MovesInv, MovesTypes
<1>3. MovesTypes' /\ RequestsAreOwn' /\ MovesAreOwn'
  BY <1>1 DEF MovesInv, MovesTypes, RequestsAreOwn, MovesAreOwn
<1>4. PendingAtItsKey'
  BY <1>2 DEF MovesInv, PendingAtItsKey, KeyOf, MainKey
<1>5. ASSUME NEW s \in asked', s[1] \notin dropped'
      PROVE  pending'[KeyOf(s)] = s /\ KeyOf(s) \in timers'
  <2>1. s \in Seated /\ s \in asked /\ s[1] # m
    BY <1>5 DEF MovesInv, MovesTypes
  <2>2. KeyOf(s) \in Keys /\ KeyOf(s) # MainKey(m)
    BY <1>1, <2>1, KeysAreProper
  <2>3. pending[KeyOf(s)] = s /\ KeyOf(s) \in timers
    BY <1>5, <2>1 DEF MovesInv, WaitingIsPending
  <2> QED BY <1>2, <2>2, <2>3
<1>6. ASSUME NEW k \in Keys
      PROVE  /\ pending'[k] # Nobody <=> k \in timers'
             /\ pending'[k] # Nobody => pending'[k] \in asked'
  <2>1. /\ pending[k] # Nobody <=> k \in timers
        /\ pending[k] # Nobody => pending[k] \in asked
    BY DEF MovesInv, WaitingIsPending
  <2>2. k \in timers' <=> k \in timers /\ k # MainKey(m)
    OBVIOUS
  <2> QED BY <1>2, <2>1, <2>2
<1>7. WaitingIsPending'
  BY <1>5, <1>6 DEF WaitingIsPending, KeyOf, MainKey
<1> QED BY <1>3, <1>4, <1>7 DEF MovesInv

\* A move that is handed in for a seat by its user settles that seat's turn, or nothing.
LEMMA SubmitMoveKeepsInv ==
  ASSUME MovesInv, NEW key \in Keys, NEW seat \in Seated, SubmitMove(key, seat, seat),
         dropped' = dropped
  PROVE  /\ PendingAtItsKey' /\ WaitingIsPending' /\ MovesAreOwn'
         /\ asked' \subseteq Seated /\ timers' \subseteq Keys
         /\ pending' \in [Keys -> Seated \cup {Nobody}]
         /\ answers' \in [Seated -> Seated \cup {Nobody}]
<1>1. CASE pending[key] = seat
  <2>1. /\ timers' = timers \ {key} /\ pending' = [pending EXCEPT ![key] = Nobody]
        /\ asked' = asked \ {pending[key]} /\ answers' = [answers EXCEPT ![seat] = seat]
    BY <1>1 DEF SubmitMove
  <2>2. pending[key] # Nobody
    BY <1>1, SeatsAreProper
  <2>3. answers' \in [Seated -> Seated \cup {Nobody}] /\ MovesAreOwn'
    BY <2>1 DEF MovesInv, MovesTypes, MovesAreOwn
  <2> QED BY <2>1, <2>2, <2>3, ClearingKeepsWaiting
<1>2. CASE pending[key] # seat
  <2>1. UNCHANGED <<asked, pending, timers, answers>>
    BY <1>2 DEF SubmitMove
  <2> QED BY <2>1 DEF MovesInv, MovesTypes, MovesAreOwn, PendingAtItsKey, WaitingIsPending,
                      KeyOf, MainKey
<1> QED BY <1>1, <1>2

LEMMA HandsOverKeepsInv == ASSUME MovesInv, NEW seat \in Seated, HandsOver(seat) PROVE MovesInv'
<1> DEFINE key == IF seat[1] \in ThrowMatches /\ pending[seat] = seat THEN seat
                  ELSE MainKey(seat[1])
<1>1. key \in Keys
  BY SeatsAreProper DEF Keys
<1>2. SubmitMove(key, seat, seat) /\ UNCHANGED <<submit, dropped>>
  BY DEF HandsOver
<1>3. RequestsAreOwn'
  BY <1>2 DEF MovesInv, RequestsAreOwn
<1> HIDE DEF key
<1>4. /\ PendingAtItsKey' /\ WaitingIsPending' /\ MovesAreOwn'
      /\ asked' \subseteq Seated /\ timers' \subseteq Keys
      /\ pending' \in [Keys -> Seated \cup {Nobody}]
      /\ answers' \in [Seated -> Seated \cup {Nobody}]
  BY <1>1, <1>2, SubmitMoveKeepsInv
<1> QED BY <1>2, <1>3, <1>4 DEF MovesInv, MovesTypes

LEMMA HandsKeepsInv == ASSUME MovesInv, NEW r \in Submits, Hands(r) PROVE MovesInv'
<1>1. submit[r].key \in Keys /\ submit[r].by \in Seated /\ submit[r].seat = submit[r].by
  BY DEF Hands, MovesInv, RequestsAreOwn
<1>2. SubmitMove(submit[r].key, submit[r].by, submit[r].by) /\ dropped' = dropped
  BY <1>1 DEF Hands
<1>3. /\ PendingAtItsKey' /\ WaitingIsPending' /\ MovesAreOwn'
      /\ asked' \subseteq Seated /\ timers' \subseteq Keys
      /\ pending' \in [Keys -> Seated \cup {Nobody}]
      /\ answers' \in [Seated -> Seated \cup {Nobody}]
  BY <1>1, <1>2, SubmitMoveKeepsInv
<1>4. RequestsAreOwn' /\ submit' \in [Submits -> [pc : {"free", "a", "b", "verify", "submit"},
         by : Seated \cup {Nobody}, match : Boards \cup {"none"},
         key : Keys \cup {Nobody}, seat : Seated \cup {Nobody}]]
  BY DEF Hands, MovesInv, MovesTypes, RequestsAreOwn, NoSubmit
<1> QED BY <1>3, <1>4 DEF MovesInv, MovesTypes

\* The steps of a request before it hands in change the request only.
LEMMA RequestKeepsInv ==
  ASSUME MovesInv, UNCHANGED <<asked, pending, timers, answers, dropped>>,
         NEW r \in Submits, NEW q, submit' = [submit EXCEPT ![r] = q],
         q \in [pc : {"free", "a", "b", "verify", "submit"},
                by : Seated \cup {Nobody}, match : Boards \cup {"none"},
                key : Keys \cup {Nobody}, seat : Seated \cup {Nobody}],
         q.pc # "free" => q.by \in Seated /\ q.match \in Boards,
         q.pc \in {"verify", "submit"} => q.key \in Keys,
         q.pc = "submit" => q.seat = q.by
  PROVE  MovesInv'
<1>1. MovesTypes' /\ RequestsAreOwn'
  BY DEF MovesInv, MovesTypes, RequestsAreOwn
<1>2. MovesAreOwn' /\ PendingAtItsKey' /\ WaitingIsPending'
  BY DEF MovesInv, MovesAreOwn, PendingAtItsKey, WaitingIsPending, KeyOf, MainKey
<1> QED BY <1>1, <1>2 DEF MovesInv

LEMMA LooksKeepsInv ==
  ASSUME MovesInv, NEW r \in Submits, NEW by \in Seated, NEW socket \in BOOLEAN,
         Looks(r, by, by[1], socket)
  PROVE  MovesInv'
<1>1. by[1] \in Boards /\ MainKey(by[1]) \in Keys
  BY SeatsAreProper
<1>2. pending[MainKey(by[1])] \in Seated \cup {Nobody}
  BY <1>1 DEF MovesInv, MovesTypes
<1> DEFINE q == IF pending[MainKey(by[1])] # Nobody
                THEN [pc |-> "verify", by |-> by, match |-> by[1], key |-> MainKey(by[1]),
                      seat |-> pending[MainKey(by[1])]]
                ELSE IF socket THEN [NoSubmit EXCEPT !.pc = "a", !.by = by, !.match = by[1]]
                ELSE NoSubmit
<1>3. submit' = [submit EXCEPT ![r] = q] /\ UNCHANGED <<asked, pending, timers, answers, dropped>>
  BY DEF Looks
<1>4. /\ q \in [pc : {"free", "a", "b", "verify", "submit"},
                by : Seated \cup {Nobody}, match : Boards \cup {"none"},
                key : Keys \cup {Nobody}, seat : Seated \cup {Nobody}]
      /\ q.pc # "free" => q.by \in Seated /\ q.match \in Boards
      /\ q.pc \in {"verify", "submit"} => q.key \in Keys
      /\ q.pc = "submit" => q.seat = q.by
  BY <1>1, <1>2 DEF NoSubmit
<1> HIDE DEF q
<1> QED BY <1>3, <1>4, RequestKeepsInv

LEMMA LooksAtKeepsInv ==
  ASSUME MovesInv, NEW r \in Submits, NEW side \in TwoSides, LooksAt(r, side)
  PROVE  MovesInv'
<1> DEFINE key == <<submit[r].match, side>>
           q   == IF pending[key] # Nobody /\ pending[key] = submit[r].by
                  THEN [submit[r] EXCEPT !.pc = "verify", !.key = key, !.seat = pending[key]]
                  ELSE IF side = "a" THEN [submit[r] EXCEPT !.pc = "b"] ELSE NoSubmit
<1>1. /\ submit[r] \in [pc : {"free", "a", "b", "verify", "submit"},
                by : Seated \cup {Nobody}, match : Boards \cup {"none"},
                key : Keys \cup {Nobody}, seat : Seated \cup {Nobody}]
      /\ submit[r].by \in Seated /\ submit[r].match \in Boards
  BY DEF LooksAt, TwoSides, MovesInv, MovesTypes, RequestsAreOwn
<1>2. key \in Keys
  BY <1>1 DEF Keys, Seated
<1>3. pending[key] \in Seated \cup {Nobody}
  BY <1>2 DEF MovesInv, MovesTypes
<1>4. submit' = [submit EXCEPT ![r] = q] /\ UNCHANGED <<asked, pending, timers, answers, dropped>>
  BY DEF LooksAt, Step, MovesInv, MovesTypes
<1> HIDE DEF key
<1>5. /\ q \in [pc : {"free", "a", "b", "verify", "submit"},
                by : Seated \cup {Nobody}, match : Boards \cup {"none"},
                key : Keys \cup {Nobody}, seat : Seated \cup {Nobody}]
      /\ q.pc # "free" => q.by \in Seated /\ q.match \in Boards
      /\ q.pc \in {"verify", "submit"} => q.key \in Keys
      /\ q.pc = "submit" => q.seat = q.by
  BY <1>1, <1>2, <1>3 DEF NoSubmit
<1> HIDE DEF q
<1> QED BY <1>4, <1>5, RequestKeepsInv

LEMMA VerifiesKeepsInv == ASSUME MovesInv, NEW r \in Submits, Verifies(r) PROVE MovesInv'
<1> DEFINE q == IF submit[r].seat = submit[r].by THEN [submit[r] EXCEPT !.pc = "submit"]
                ELSE NoSubmit
<1>1. /\ submit[r] \in [pc : {"free", "a", "b", "verify", "submit"},
                by : Seated \cup {Nobody}, match : Boards \cup {"none"},
                key : Keys \cup {Nobody}, seat : Seated \cup {Nobody}]
      /\ submit[r].by \in Seated /\ submit[r].match \in Boards /\ submit[r].key \in Keys
  BY DEF Verifies, MovesInv, MovesTypes, RequestsAreOwn
<1>2. submit' = [submit EXCEPT ![r] = q] /\ UNCHANGED <<asked, pending, timers, answers, dropped>>
  BY DEF Verifies
<1>3. /\ q \in [pc : {"free", "a", "b", "verify", "submit"},
                by : Seated \cup {Nobody}, match : Boards \cup {"none"},
                key : Keys \cup {Nobody}, seat : Seated \cup {Nobody}]
      /\ q.pc # "free" => q.by \in Seated /\ q.match \in Boards
      /\ q.pc \in {"verify", "submit"} => q.key \in Keys
      /\ q.pc = "submit" => q.seat = q.by
  BY <1>1 DEF NoSubmit
<1> HIDE DEF q
<1> QED BY <1>2, <1>3, RequestKeepsInv

-----------------------------------------------------------------------------
(* The theorems *)

LEMMA MovesInvNext == ASSUME MovesInv, [ServicesNext]_serviceVars PROVE MovesInv'
<1>1. CASE UNCHANGED moveVars
  BY <1>1 DEF moveVars, MovesInv, MovesTypes, RequestsAreOwn, MovesAreOwn, PendingAtItsKey,
              WaitingIsPending, KeyOf, MainKey
<1>2. CASE MovesNext
  <2>1. ASSUME NEW seat \in Seated, HandsOver(seat) PROVE MovesInv'
    BY <2>1, HandsOverKeepsInv
  <2>2. ASSUME NEW seat \in Seated, Asks(seat[1], {seat}) PROVE MovesInv'
    BY <2>2, AsksKeepsInv, SeatsAreProper
  <2>3. ASSUME NEW m \in ThrowMatches, Asks(m, {m} \X TwoSides) PROVE MovesInv'
    <3>1. m \in Boards /\ {m} \X TwoSides \in SUBSET Seated
      BY DEF Boards, Seated
    <3>2. \A s \in {m} \X TwoSides : s[1] = m /\ KeyOf(s) = s
      BY KeysAssumption DEF KeyOf
    <3> QED BY <2>3, <3>1, <3>2, AsksKeepsInv
  <2>4. ASSUME NEW key \in Keys, TimesOut(key) PROVE MovesInv'
    BY <2>4, TimesOutKeepsInv
  <2>5. ASSUME NEW m \in Boards, Cancels(m) PROVE MovesInv'
    BY <2>5, CancelsKeepsInv
  <2>6. ASSUME NEW r \in Submits, SubmitStep(r) PROVE MovesInv'
    BY <2>6, LooksAtKeepsInv, VerifiesKeepsInv, HandsKeepsInv DEF SubmitStep, TwoSides
  <2>7. ASSUME NEW r \in Submits, NEW by \in Seated, NEW socket \in BOOLEAN,
               Looks(r, by, by[1], socket)
        PROVE  MovesInv'
    BY <2>7, LooksKeepsInv
  <2> QED BY <1>2, <2>1, <2>2, <2>3, <2>4, <2>5, <2>6, <2>7 DEF MovesNext
<1> QED BY <1>1, <1>2 DEF ServicesNext, serviceVars

\* The pending moves keep the invariant, in any service.
THEOREM MovesInvHolds == ServicesSpec => []MovesInv
<1>1. ServicesInit => MovesInv
  BY MovesInvInit DEF ServicesInit
<1>2. MovesInv /\ [ServicesNext]_serviceVars => MovesInv'
  BY MovesInvNext
<1> QED BY <1>1, <1>2, PTL DEF ServicesSpec

\* A turn is only ever answered by the seat that was asked.
THEOREM MovesAreOwnHolds == ServicesSpec => []MovesAreOwn
<1>1. MovesInv => MovesAreOwn
  BY DEF MovesInv
<1> QED BY <1>1, MovesInvHolds, PTL

\* The pending moves, their timers and the waiting loops agree.
THEOREM WaitingIsPendingHolds == ServicesSpec => []WaitingIsPending
<1>1. MovesInv => WaitingIsPending
  BY DEF MovesInv
<1> QED BY <1>1, MovesInvHolds, PTL

\* The heartbeat names a turn to the agent whose turn it is, and to no other.
THEOREM DueIsAskedHolds == ServicesSpec => []DueIsAsked
<1>1. ASSUME MovesInv PROVE DueIsAsked
  <2> SUFFICES ASSUME NEW s \in Seated, s[1] \notin dropped PROVE Due(s) <=> s \in asked
    BY DEF DueIsAsked
  <2>1. MainKey(s[1]) \in Keys /\ s \in Keys /\ KeyOf(s) \in {s, MainKey(s[1])}
    BY SeatsAreProper DEF Keys, KeyOf
  <2>2. ASSUME Due(s) PROVE s \in asked
    BY <1>1, <2>1, <2>2, SeatsAreProper DEF Due, MovesInv, WaitingIsPending
  <2>3. ASSUME s \in asked PROVE Due(s)
    <3>1. pending[KeyOf(s)] = s
      BY <1>1, <2>3 DEF MovesInv, WaitingIsPending
    <3>2. CASE KeyOf(s) = MainKey(s[1])
      BY <3>1, <3>2, SeatsAreProper DEF Due
    <3>3. CASE KeyOf(s) = s /\ s # MainKey(s[1])
      <4>1. s[1] \in SideKeyed
        BY <3>3 DEF KeyOf
      <4>2. ASSUME pending[MainKey(s[1])] # Nobody PROVE FALSE
        <5> DEFINE t == pending[MainKey(s[1])]
        <5>1. t \in Seated /\ KeyOf(t) = MainKey(s[1])
          BY <1>1, <2>1, <4>2 DEF MovesInv, MovesTypes, PendingAtItsKey
        <5>2. t[1] = s[1]
          BY <5>1, KeysAreProper, SeatsAreProper
        <5>3. KeyOf(t) = t
          BY <4>1, <5>2 DEF KeyOf
        <5> QED BY <5>1, <5>3, SeatsAreProper
      <4> QED BY <3>1, <3>3, <4>2 DEF Due
    <3> QED BY <2>1, <3>2, <3>3
  <2> QED BY <2>2, <2>3
<1> QED BY <1>1, MovesInvHolds, PTL
=============================================================================
