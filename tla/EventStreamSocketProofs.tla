----------------------- MODULE EventStreamSocketProofs -----------------------
(***************************************************************************)
(* Proofs about EventStreamSocket, for any times and any number of         *)
(* connections: every connection is watched, a dead one is terminated in   *)
(* time, and the socket lives the life its owner assumes of it.            *)
(***************************************************************************)
EXTENDS EventStreamSocket, FunctionTheorems, FiniteSetTheorems, TLAPS

\* Only a websocket that is closed is waiting to reconnect, and a flag set by
\* close() is seen by no later websocket.
LifeAgrees == ws # "closed" => reconnectIn = None /\ ~closeRequested

\* A dead peer of an open connection has a timer that ends the connection in
\* time: a ping timeout, or the next ping, which arms one.
DeadlineRuns ==
  /\ ws = "open" /\ peer = "dead" =>
       \/ \E t \in timeouts : deadFor + t.left <= PING_INTERVAL + PING_TIMEOUT
       \/ \E k \in 0..PING_INTERVAL : intervals[k] > 0 /\ deadFor + k <= PING_INTERVAL
  /\ ~(ws = "open" /\ peer = "dead") => deadFor = 0

NoInterval == \A k \in 0..PING_INTERVAL : intervals[k] = 0

\* One ping is unanswered, and the kept handle is that of its timeout.
OnePing ==
  /\ NoInterval
  /\ Len(pings) = 1
  /\ \E t \in timeouts : /\ timeouts = {t}
                         /\ t.id = pingTimeout
                         /\ t.left + pings[1] = PING_TIMEOUT

\* All pings were answered, and the next one is scheduled.
OneInterval ==
  /\ timeouts = {} /\ pings = << >>
  /\ \E k \in 0..PING_INTERVAL :
       /\ intervals[k] = 1
       /\ \A j \in 0..PING_INTERVAL : j # k => intervals[j] = 0

\* The first connection has no timer but its own.
FirstConnection ==
  /\ connections = 0 => timeouts = {} /\ NoInterval
  /\ connections = 1 /\ ws = "open" => OnePing \/ OneInterval

SInv == /\ TypeOK
        /\ IsFiniteSet(timeouts)
        /\ LifeAgrees
        /\ Watched
        /\ DeadlineRuns
        /\ FirstConnection

-----------------------------------------------------------------------------
(* Timer handles                                                           *)

\* FreshId is a number, and the handle of no running timer: n timers leave
\* one of n + 1 numbers free.
LEMMA Fresh ==
  ASSUME IsFiniteSet(timeouts), timeouts \subseteq [id : Nat, left : 0..PING_TIMEOUT]
  PROVE  FreshId \in Nat /\ \A t \in timeouts : t.id # FreshId
<1> DEFINE n == Cardinality(timeouts)
           ids == {t.id : t \in timeouts}
           idOf == [t \in timeouts |-> t.id]
<1>1. n \in Nat
  BY FS_CardinalityType
<1>2. IsFiniteSet(ids) /\ Cardinality(ids) <= n
  <2>1. idOf \in Surjection(timeouts, ids)
    <3>1. idOf \in [timeouts -> ids]
      OBVIOUS
    <3>2. \A i \in ids : \E t \in timeouts : idOf[t] = i
      OBVIOUS
    <3> HIDE DEF idOf, ids
    <3>3. QED
      BY <3>1, <3>2, Fun_IsSurj
  <2> HIDE DEF idOf, ids
  <2>2. QED
    BY <2>1, FS_Surjection
<1>3. \E k \in 0..n : k \notin ids
  <2> SUFFICES ASSUME 0..n \subseteq ids
               PROVE  FALSE
    OBVIOUS
  <2> HIDE DEF ids
  <2>1. Cardinality(0..n) <= Cardinality(ids)
    BY <1>2, FS_Subset
  <2>2. Cardinality(0..n) = n + 1
    BY <1>1, FS_Interval
  <2>3. Cardinality(ids) \in Nat
    BY <1>2, FS_CardinalityType
  <2> HIDE DEF n
  <2>4. QED
    BY <1>1, <1>2, <2>1, <2>2, <2>3
<1>4. \E k \in 0..n : \A t \in timeouts : t.id # k
  BY <1>3
<1>5. FreshId \in 0..n /\ \A t \in timeouts : t.id # FreshId
  BY <1>4 DEF FreshId
<1> HIDE DEF n
<1>6. QED
  BY <1>1, <1>5

\* A tick keeps the set of timers finite.
LEMMA TickFinite ==
  ASSUME IsFiniteSet(timeouts), Tick
  PROVE  IsFiniteSet(timeouts')
<1> DEFINE older == [t \in timeouts |-> [t EXCEPT !.left = @ - 1]]
<1>1. older \in Surjection(timeouts, timeouts')
  <2>1. timeouts' = {[t EXCEPT !.left = @ - 1] : t \in timeouts}
    BY DEF Tick
  <2>2. older \in [timeouts -> timeouts']
    BY <2>1
  <2>3. \A u \in timeouts' : \E t \in timeouts : older[t] = u
    BY <2>1
  <2> HIDE DEF older
  <2>4. QED
    BY <2>2, <2>3, Fun_IsSurj
<1> HIDE DEF older
<1>2. QED
  BY <1>1, FS_Surjection

-----------------------------------------------------------------------------
(* The invariant                                                           *)

LEMMA InitS == Init => SInv
<1> SUFFICES ASSUME Init PROVE SInv
  OBVIOUS
<1> USE TimesAssumption DEF Init
<1>1. TypeOK
  BY DEF TypeOK
<1>2. IsFiniteSet(timeouts)
  BY FS_EmptySet
<1>3. LifeAgrees /\ Watched /\ DeadlineRuns
  BY DEF LifeAgrees, Watched, DeadlineRuns
<1>4. FirstConnection
  BY DEF FirstConnection, NoInterval
<1>5. QED
  BY <1>1, <1>2, <1>3, <1>4 DEF SInv

LEMMA TypeStep ==
  ASSUME SInv, Next
  PROVE  TypeOK' /\ IsFiniteSet(timeouts')
<1> USE TimesAssumption
<1>1. TypeOK /\ IsFiniteSet(timeouts)
  BY DEF SInv
<1>2. FreshId \in Nat
  BY <1>1, Fresh DEF TypeOK
<1>0. << >> \in Seq(Nat) /\ pings \in Seq(Nat) /\ Append(pings, 0) \in Seq(Nat)
  <2>1. pings \in Seq(Nat)
    BY <1>1 DEF TypeOK
  <2>2. QED
    BY <2>1
<1>3. CASE Construct
  BY <1>1, <1>3 DEF TypeOK, Construct, NewWebSocket, timerVars, linkVars
<1>4. CASE Open
  <2>1. IsFiniteSet(timeouts')
    BY <1>1, <1>4, FS_AddElement DEF Open, StartTimeout
  <2>2. timeouts' \subseteq [id : Nat, left : 0..PING_TIMEOUT]
    BY <1>1, <1>2, <1>4 DEF TypeOK, Open, StartTimeout
  <2>3. TypeOK'
    BY <1>1, <1>2, <1>4, <2>2 DEF TypeOK, Open, StartTimeout
  <2>4. QED
    BY <2>1, <2>3
<1>5. CASE Drop
  BY <1>1, <1>5 DEF TypeOK, Drop, WebSocketCloses, OnClose, timerVars
<1>6. CASE ReconnectDue
  BY <1>1, <1>6 DEF TypeOK, ReconnectDue, NewWebSocket, timerVars, linkVars
<1>7. CASE Close
  <2>1. /\ ws' = "closed" \/ ws' = ws
        /\ reconnectIn' = None \/ reconnectIn' = reconnectIn
        /\ pings' = << >> \/ pings' = pings
        /\ deadFor' = 0 \/ deadFor' = deadFor
        /\ closeRequested' = TRUE /\ released' = TRUE
        /\ UNCHANGED <<intervals, timeouts, pingTimeout, peer, connections>>
    BY <1>7 DEF Close, WebSocketCloses, OnClose, timerVars, linkVars
  <2>2. pings' \in Seq(Nat)
    BY <1>0, <2>1, Zenon
  <2>3. reconnectIn' \in 0..RECONNECT_TIME \cup {None} /\ deadFor' \in Nat
    BY <1>1, <2>1 DEF TypeOK
  <2>4. ws' \in {"none", "connecting", "open", "closed"}
    BY <1>1, <2>1 DEF TypeOK
  <2>5. QED
    BY <1>1, <2>1, <2>2, <2>3, <2>4 DEF TypeOK
<1>8. CASE PeerDies
  BY <1>1, <1>8 DEF TypeOK, PeerDies, timerVars
<1>9. CASE Pong
  <2>1. timeouts' \subseteq timeouts
    BY <1>9 DEF Pong, ClearTimeout
  <2>2. IsFiniteSet(timeouts')
    BY <1>1, <2>1, FS_Subset
  <2>3. intervals' \in [0..PING_INTERVAL -> Nat]
    BY <1>1, <1>9 DEF TypeOK, Pong
  <2>4. pings' \in Seq(Nat)
    BY <1>1, <1>9 DEF TypeOK, Pong
  <2>5. TypeOK'
    BY <1>1, <1>9, <2>1, <2>3, <2>4 DEF TypeOK, Pong
  <2>6. QED
    BY <2>2, <2>5
<1>10. CASE PingDue
  <2>1. IsFiniteSet(timeouts')
    BY <1>1, <1>10, FS_AddElement DEF PingDue, StartTimeout
  <2>2. timeouts' \subseteq [id : Nat, left : 0..PING_TIMEOUT]
    BY <1>1, <1>2, <1>10 DEF TypeOK, PingDue, StartTimeout
  <2>3. intervals' \in [0..PING_INTERVAL -> Nat]
    <3>1. intervals[0] > 0 /\ intervals[0] \in Nat /\ 0 \in 0..PING_INTERVAL
      BY <1>1, <1>10 DEF TypeOK, PingDue
    <3>2. intervals[0] - 1 \in Nat
      BY <3>1
    <3>3. QED
      BY <1>1, <1>10, <3>1, <3>2 DEF TypeOK, PingDue
  <2>4. pings' \in Seq(Nat)
    <3>1. pings' = Append(pings, 0) \/ pings' = pings
      BY <1>10 DEF PingDue
    <3>2. QED
      BY <1>0, <3>1, Zenon
  <2>5. TypeOK'
    BY <1>1, <1>2, <1>10, <2>2, <2>3, <2>4 DEF TypeOK, PingDue, StartTimeout
  <2>6. QED
    BY <2>1, <2>5
<1>11. CASE TimeoutDue
  <2>1. timeouts' \subseteq timeouts
    BY <1>11 DEF TimeoutDue
  <2>2. IsFiniteSet(timeouts')
    BY <1>1, <2>1, FS_Subset
  <2>3. TypeOK'
    <3>1. /\ ws' = "closed" \/ ws' = ws
          /\ pings' = << >> \/ pings' = pings
          /\ deadFor' = 0 \/ deadFor' = deadFor
          /\ \/ reconnectIn' = None
             \/ reconnectIn' = RECONNECT_TIME
             \/ reconnectIn' = reconnectIn
          /\ UNCHANGED <<closeRequested, released, intervals, pingTimeout, peer, connections>>
      BY <1>11 DEF TimeoutDue, WebSocketCloses, OnClose, linkVars
    <3>2. pings' \in Seq(Nat)
      BY <1>0, <3>1, Zenon
    <3>3. reconnectIn' \in 0..RECONNECT_TIME \cup {None} /\ deadFor' \in Nat
      BY <1>1, <3>1 DEF TypeOK
    <3>4. ws' \in {"none", "connecting", "open", "closed"}
      BY <1>1, <3>1 DEF TypeOK
    <3>5. QED
      BY <1>1, <2>1, <3>1, <3>2, <3>3, <3>4 DEF TypeOK
  <2>4. QED
    BY <2>2, <2>3
<1>12. CASE Tick
  <2>1. IsFiniteSet(timeouts')
    BY <1>1, <1>12, TickFinite
  <2>2. timeouts' \subseteq [id : Nat, left : 0..PING_TIMEOUT]
    <3> SUFFICES ASSUME NEW t \in timeouts
                 PROVE  [t EXCEPT !.left = @ - 1] \in [id : Nat, left : 0..PING_TIMEOUT]
      BY <1>12 DEF Tick
    <3>1. t \in [id : Nat, left : 0..PING_TIMEOUT] /\ t.left # 0
      BY <1>1, <1>12 DEF TypeOK, Tick, Due
    <3>2. t.left - 1 \in 0..PING_TIMEOUT
      BY <3>1
    <3>3. QED
      BY <3>1, <3>2
  <2>3. intervals' \in [0..PING_INTERVAL -> Nat]
    BY <1>1, <1>12 DEF TypeOK, Tick
  <2>4. pings' \in Seq(Nat)
    <3>1. pings \in [1..Len(pings) -> Nat] /\ Len(pings) \in Nat
      BY <1>1 DEF TypeOK
    <3>2. pings' = [i \in 1..Len(pings) |-> pings[i] + 1]
      BY <1>12, <3>1 DEF Tick
    <3>3. QED
      BY <3>1, <3>2
  <2>5. reconnectIn' \in 0..RECONNECT_TIME \cup {None}
    BY <1>1, <1>12 DEF TypeOK, Tick, Due
  <2>6. deadFor' \in Nat
    BY <1>1, <1>12 DEF TypeOK, Tick
  <2>7. TypeOK'
    BY <1>1, <1>12, <2>2, <2>3, <2>4, <2>5, <2>6 DEF TypeOK, Tick
  <2>8. QED
    BY <2>1, <2>7
<1>13. QED
  BY <1>3, <1>4, <1>5, <1>6, <1>7, <1>8, <1>9, <1>10, <1>11, <1>12 DEF Next

LEMMA LifeStep ==
  ASSUME SInv, Next
  PROVE  LifeAgrees'
<1> USE TimesAssumption DEF SInv, TypeOK, LifeAgrees, NewWebSocket, WebSocketCloses,
                            OnClose, StartTimeout
<1>1. CASE Construct
  BY <1>1 DEF Construct
<1>2. CASE Open
  BY <1>2 DEF Open
<1>3. CASE Drop
  BY <1>3 DEF Drop
<1>4. CASE ReconnectDue
  BY <1>4 DEF ReconnectDue
<1>5. CASE Close
  BY <1>5 DEF Close
<1>6. CASE PeerDies
  BY <1>6 DEF PeerDies
<1>7. CASE Pong
  BY <1>7 DEF Pong
<1>8. CASE PingDue
  BY <1>8 DEF PingDue
<1>9. CASE TimeoutDue
  BY <1>9 DEF TimeoutDue
<1>10. CASE Tick
  BY <1>10 DEF Tick
<1>11. QED
  BY <1>1, <1>2, <1>3, <1>4, <1>5, <1>6, <1>7, <1>8, <1>9, <1>10 DEF Next

LEMMA WatchedStep ==
  ASSUME SInv, Next
  PROVE  Watched'
<1> USE TimesAssumption
<1>1. /\ TypeOK /\ DOMAIN intervals = 0..PING_INTERVAL
      /\ ws = "open" => timeouts # {} \/ \E k \in 0..PING_INTERVAL : intervals[k] > 0
  BY DEF SInv, TypeOK, Watched
<1>2. TypeOK' /\ DOMAIN intervals' = 0..PING_INTERVAL
  BY TypeStep DEF TypeOK
<1> SUFFICES ASSUME ws' = "open"
             PROVE  timeouts' # {} \/ \E k \in 0..PING_INTERVAL : intervals'[k] > 0
  BY <1>2 DEF Watched
<1>3. CASE Construct \/ Drop \/ ReconnectDue
  BY <1>3 DEF Construct, Drop, ReconnectDue, NewWebSocket, WebSocketCloses
<1>4. CASE Open
  BY <1>4 DEF Open, StartTimeout
<1>5. CASE Close
  BY <1>5 DEF Close, WebSocketCloses
<1>6. CASE PeerDies
  BY <1>1, <1>6 DEF PeerDies, timerVars
<1>7. CASE Pong
  <2>1. intervals' = [intervals EXCEPT ![PING_INTERVAL] = @ + 1]
    BY <1>7 DEF Pong
  <2>2. intervals'[PING_INTERVAL] > 0 /\ PING_INTERVAL \in 0..PING_INTERVAL
    BY <1>1, <2>1 DEF TypeOK
  <2>3. QED
    BY <2>2
<1>8. CASE PingDue
  <2>1. timeouts' = timeouts \cup {[id |-> FreshId, left |-> PING_TIMEOUT]}
    BY <1>8 DEF PingDue, StartTimeout
  <2>2. QED
    BY <2>1
<1>9. CASE TimeoutDue
  BY <1>9 DEF TimeoutDue, WebSocketCloses
<1>10. CASE Tick
  <2>1. CASE timeouts # {}
    BY <1>10, <2>1 DEF Tick
  <2>2. CASE timeouts = {}
    <3>1. PICK k \in 0..PING_INTERVAL : intervals[k] > 0
      BY <1>1, <1>10, <2>2 DEF Tick
    <3>2. k # 0
      BY <1>10, <3>1 DEF Tick, Due
    <3>3. k - 1 \in 0..PING_INTERVAL /\ k - 1 # PING_INTERVAL /\ k - 1 + 1 = k
      BY <3>1, <3>2
    <3>4. intervals'[k - 1] = intervals[k]
      BY <1>10, <3>3 DEF Tick
    <3>5. QED
      BY <3>1, <3>3, <3>4
  <2>3. QED
    BY <2>1, <2>2
<1>11. QED
  BY <1>3, <1>4, <1>5, <1>6, <1>7, <1>8, <1>9, <1>10 DEF Next

\* The timer that watches a connection when its peer dies is the one that
\* ends it in time; from then on only its own expiry removes it.
LEMMA DeadlineStep ==
  ASSUME SInv, Next
  PROVE  DeadlineRuns'
<1> USE TimesAssumption
<1>1. TypeOK /\ Watched /\ DeadlineRuns /\ DOMAIN intervals = 0..PING_INTERVAL
  BY DEF SInv, TypeOK
<1>2. ASSUME ~(ws' = "open" /\ peer' = "dead"), deadFor' = 0
      PROVE  DeadlineRuns'
  BY <1>2 DEF DeadlineRuns
<1>3. CASE Construct \/ Open \/ ReconnectDue
  <2>1. ws # "open" \/ peer # "dead"
    BY <1>3, <1>1 DEF SInv, LifeAgrees, TypeOK, Construct, Open, ReconnectDue
  <2>2. QED
    BY <1>1, <1>2, <1>3, <2>1
       DEF DeadlineRuns, Construct, Open, ReconnectDue, NewWebSocket, linkVars
<1>4. CASE Drop
  BY <1>2, <1>4 DEF Drop, WebSocketCloses
<1>5. CASE Close
  BY <1>1, <1>2, <1>5 DEF DeadlineRuns, Close, WebSocketCloses, linkVars
<1>6. CASE PeerDies
  <2>1. deadFor' = 0 /\ timeouts' = timeouts /\ intervals' = intervals
    BY <1>1, <1>6 DEF DeadlineRuns, PeerDies, timerVars
  <2>2. CASE timeouts # {}
    <3>1. PICK t \in timeouts : TRUE
      BY <2>2
    <3>2. t.left \in 0..PING_TIMEOUT
      BY <1>1 DEF TypeOK
    <3>3. 0 + t.left <= PING_INTERVAL + PING_TIMEOUT
      BY <3>2
    <3>4. ws' = "open"
      BY <1>6 DEF PeerDies
    <3>5. QED
      BY <2>1, <3>3, <3>4 DEF DeadlineRuns
  <2>3. CASE timeouts = {}
    <3>1. PICK k \in 0..PING_INTERVAL : intervals[k] > 0
      BY <1>1, <1>6, <2>3 DEF Watched, PeerDies
    <3>2. 0 + k <= PING_INTERVAL
      OBVIOUS
    <3>3. ws' = "open"
      BY <1>6 DEF PeerDies
    <3>4. QED
      BY <2>1, <3>1, <3>2, <3>3 DEF DeadlineRuns
  <2>4. QED
    BY <2>2, <2>3
<1>7. CASE Pong
  <2>1. ~(ws' = "open" /\ peer' = "dead") /\ deadFor' = 0
    BY <1>1, <1>7 DEF DeadlineRuns, Pong
  <2>2. QED
    BY <1>2, <2>1
<1>8. CASE PingDue
  <2>1. ws' = ws /\ peer' = peer /\ deadFor' = deadFor
    BY <1>8 DEF PingDue
  <2>2. CASE ~(ws = "open" /\ peer = "dead")
    BY <1>1, <1>2, <2>1, <2>2 DEF DeadlineRuns
  <2>3. CASE ws = "open" /\ peer = "dead"
    <3> DEFINE new == [id |-> FreshId, left |-> PING_TIMEOUT]
    <3>1. timeouts' = timeouts \cup {new}
      BY <1>8, <2>3 DEF PingDue, StartTimeout
    <3>2. intervals' = [intervals EXCEPT ![0] = @ - 1]
      BY <1>8 DEF PingDue
    <3>3. CASE \E t \in timeouts : deadFor + t.left <= PING_INTERVAL + PING_TIMEOUT
      BY <2>1, <2>3, <3>1, <3>3 DEF DeadlineRuns
    <3>4. CASE \E k \in 0..PING_INTERVAL : intervals[k] > 0 /\ deadFor + k <= PING_INTERVAL
      <4>1. PICK k \in 0..PING_INTERVAL : intervals[k] > 0 /\ deadFor + k <= PING_INTERVAL
        BY <3>4
      <4>2. deadFor \in Nat
        BY <1>1 DEF TypeOK
      <4>3. new \in timeouts' /\ new.left = PING_TIMEOUT
        BY <3>1
      <4>4. deadFor + PING_TIMEOUT <= PING_INTERVAL + PING_TIMEOUT
        BY <4>1, <4>2
      <4> HIDE DEF new
      <4>5. QED
        BY <2>1, <2>3, <4>3, <4>4 DEF DeadlineRuns
    <3>5. QED
      BY <1>1, <2>3, <3>3, <3>4 DEF DeadlineRuns
  <2>4. QED
    BY <2>2, <2>3
<1>9. CASE TimeoutDue
  <2>1. CASE ws \in {"connecting", "open"}
    BY <1>2, <1>9, <2>1 DEF TimeoutDue, WebSocketCloses
  <2>2. CASE ~(ws \in {"connecting", "open"})
    BY <1>1, <1>2, <1>9, <2>2 DEF DeadlineRuns, TimeoutDue, linkVars
  <2>3. QED
    BY <2>1, <2>2
<1>10. CASE Tick
  <2>1. /\ ws' = ws /\ peer' = peer
        /\ deadFor' = IF ws = "open" /\ peer = "dead" THEN deadFor + 1 ELSE 0
    BY <1>10 DEF Tick
  <2>2. CASE ~(ws = "open" /\ peer = "dead")
    BY <1>2, <2>1, <2>2
  <2>3. CASE ws = "open" /\ peer = "dead"
    <3>1. deadFor' = deadFor + 1 /\ deadFor \in Nat
      BY <1>1, <2>1, <2>3 DEF TypeOK
    <3>2. CASE \E t \in timeouts : deadFor + t.left <= PING_INTERVAL + PING_TIMEOUT
      <4>1. PICK t \in timeouts : deadFor + t.left <= PING_INTERVAL + PING_TIMEOUT
        BY <3>2
      <4>2. PICK u \in timeouts' : u = [t EXCEPT !.left = @ - 1]
        BY <1>10 DEF Tick
      <4>3. t \in [id : Nat, left : 0..PING_TIMEOUT]
        BY <1>1 DEF TypeOK
      <4>4. u.left = t.left - 1
        BY <4>2, <4>3
      <4>5. deadFor' + u.left <= PING_INTERVAL + PING_TIMEOUT
        BY <3>1, <4>1, <4>3, <4>4
      <4>6. QED
        BY <2>1, <2>3, <4>5 DEF DeadlineRuns
    <3>3. CASE \E k \in 0..PING_INTERVAL : intervals[k] > 0 /\ deadFor + k <= PING_INTERVAL
      <4>1. PICK k \in 0..PING_INTERVAL : intervals[k] > 0 /\ deadFor + k <= PING_INTERVAL
        BY <3>3
      <4>2. k # 0
        BY <1>10, <4>1 DEF Tick, Due
      <4>3. PICK j \in 0..PING_INTERVAL : j # PING_INTERVAL /\ j + 1 = k
        <5>1. k - 1 \in 0..PING_INTERVAL /\ k - 1 # PING_INTERVAL /\ (k - 1) + 1 = k
          BY <4>2
        <5>2. QED
          BY <5>1
      <4>4. intervals'[j] = intervals[k]
        BY <1>10, <4>3 DEF Tick
      <4>5. deadFor' + j <= PING_INTERVAL
        BY <3>1, <4>1, <4>3
      <4>6. QED
        BY <2>1, <2>3, <4>1, <4>4, <4>5 DEF DeadlineRuns
    <3>4. QED
      BY <1>1, <2>3, <3>2, <3>3 DEF DeadlineRuns
  <2>4. QED
    BY <2>2, <2>3
<1>11. QED
  BY <1>3, <1>4, <1>5, <1>6, <1>7, <1>8, <1>9, <1>10 DEF Next

LEMMA FirstStep ==
  ASSUME SInv, Next
  PROVE  FirstConnection'
<1> USE TimesAssumption
<1>1. TypeOK /\ FirstConnection
  BY DEF SInv
<1>2. ASSUME ws' # "open", connections' = connections, timeouts' = timeouts,
             intervals' = intervals
      PROVE  FirstConnection'
  BY <1>1, <1>2 DEF FirstConnection, NoInterval
<1>3. CASE Construct \/ Drop \/ ReconnectDue
  BY <1>2, <1>3 DEF Construct, Drop, ReconnectDue, NewWebSocket, WebSocketCloses,
                    timerVars, linkVars
<1>4. CASE Open
  <2>1. connections' = connections + 1 /\ connections \in Nat
    BY <1>1, <1>4 DEF TypeOK, Open
  <2> SUFFICES ASSUME connections = 0
               PROVE  OnePing'
    BY <2>1 DEF FirstConnection
  <2>2. timeouts = {} /\ NoInterval
    BY <1>1 DEF FirstConnection
  <2> DEFINE new == [id |-> FreshId, left |-> PING_TIMEOUT]
  <2>3. /\ timeouts' = {new} /\ pingTimeout' = FreshId
        /\ intervals' = intervals /\ pings' = <<0>>
    BY <1>4, <2>2 DEF Open, StartTimeout
  <2>4. new \in timeouts' /\ new.id = FreshId /\ new.left = PING_TIMEOUT
    BY <2>3
  <2>5. NoInterval'
    BY <2>2, <2>3 DEF NoInterval
  <2>6. Len(pings') = 1 /\ pings'[1] = 0
    BY <2>3
  <2> HIDE DEF new
  <2>7. QED
    BY <2>3, <2>4, <2>5, <2>6 DEF OnePing
<1>5. CASE Close
  BY <1>2, <1>5 DEF Close, WebSocketCloses, timerVars, linkVars
<1>6. CASE PeerDies
  BY <1>1, <1>6 DEF PeerDies, timerVars, FirstConnection, NoInterval, OnePing, OneInterval
<1>7. CASE Pong
  <2>1. /\ ws = "open" /\ pings # << >> /\ pings' = Tail(pings)
        /\ timeouts' = {t \in timeouts : t.id # pingTimeout}
        /\ intervals' = [intervals EXCEPT ![PING_INTERVAL] = @ + 1]
        /\ ws' = ws /\ connections' = connections
    BY <1>7 DEF Pong, ClearTimeout
  <2>2. connections # 0
    BY <1>7 DEF Pong, SInv, FirstConnection, Watched, TypeOK, NoInterval
  <2> SUFFICES ASSUME connections = 1
               PROVE  OneInterval'
    BY <2>1, <2>2 DEF FirstConnection
  <2>3. OnePing
    BY <1>1, <2>1 DEF FirstConnection, OneInterval
  <2>4. timeouts' = {}
    BY <2>1, <2>3 DEF OnePing
  <2>5. pings' = << >>
    <3>1. pings \in Seq(Nat) /\ Len(pings) = 1
      BY <1>1, <2>3 DEF OnePing, TypeOK
    <3>2. Tail(pings) \in Seq(Nat) /\ Len(Tail(pings)) = 0
      BY <3>1
    <3>3. QED
      BY <2>1, <3>2
  <2>6. PING_INTERVAL \in 0..PING_INTERVAL /\ intervals[PING_INTERVAL] = 0
    BY <2>3 DEF OnePing, NoInterval
  <2>7. /\ intervals'[PING_INTERVAL] = 1
        /\ \A j \in 0..PING_INTERVAL : j # PING_INTERVAL => intervals'[j] = 0
    BY <1>1, <2>1, <2>3, <2>6 DEF OnePing, NoInterval, TypeOK
  <2>8. QED
    BY <2>4, <2>5, <2>6, <2>7 DEF OneInterval
<1>8. CASE PingDue
  <2>1. /\ intervals[0] > 0 /\ intervals' = [intervals EXCEPT ![0] = @ - 1]
        /\ ws' = ws /\ connections' = connections /\ 0 \in 0..PING_INTERVAL
    BY <1>8 DEF PingDue
  <2>2. ~NoInterval
    BY <2>1 DEF NoInterval
  <2>3. connections # 0
    BY <1>1, <2>2 DEF FirstConnection
  <2> SUFFICES ASSUME connections = 1, ws = "open"
               PROVE  OnePing'
    BY <2>1, <2>3 DEF FirstConnection
  <2>4. OneInterval
    BY <1>1, <2>2 DEF FirstConnection, OnePing
  <2>5. intervals[0] = 1 /\ \A j \in 0..PING_INTERVAL : j # 0 => intervals[j] = 0
    <3>1. PICK k \in 0..PING_INTERVAL :
            intervals[k] = 1 /\ \A j \in 0..PING_INTERVAL : j # k => intervals[j] = 0
      BY <2>4 DEF OneInterval
    <3>2. k = 0
      BY <2>1, <3>1
    <3>3. QED
      BY <3>1, <3>2
  <2>6. NoInterval'
    BY <1>1, <2>1, <2>5 DEF NoInterval, TypeOK
  <2> DEFINE new == [id |-> FreshId, left |-> PING_TIMEOUT]
  <2>7. /\ timeouts' = {new} /\ pingTimeout' = FreshId
        /\ pings' = <<0>>
    BY <1>8, <2>4 DEF PingDue, StartTimeout, OneInterval
  <2>8. new \in timeouts' /\ new.id = FreshId /\ new.left = PING_TIMEOUT
    BY <2>7
  <2>9. Len(pings') = 1 /\ pings'[1] = 0
    BY <2>7
  <2> HIDE DEF new
  <2>10. QED
    BY <2>6, <2>7, <2>8, <2>9 DEF OnePing
<1>9. CASE TimeoutDue
  <2>1. ws' # "open" /\ connections' = connections /\ intervals' = intervals
    BY <1>9 DEF TimeoutDue, WebSocketCloses, linkVars
  <2>2. timeouts' \subseteq timeouts
    BY <1>9 DEF TimeoutDue
  <2>3. QED
    BY <1>1, <2>1, <2>2 DEF FirstConnection, NoInterval
<1>10. CASE Tick
  <2>1. /\ ws' = ws /\ connections' = connections /\ pingTimeout' = pingTimeout
        /\ intervals' = [k \in 0..PING_INTERVAL |->
                           IF k = PING_INTERVAL THEN 0 ELSE intervals[k + 1]]
        /\ timeouts' = {[t EXCEPT !.left = @ - 1] : t \in timeouts}
        /\ pings' = [i \in DOMAIN pings |-> pings[i] + 1]
        /\ ~(intervals[0] > 0) /\ \A t \in timeouts : t.left # 0
    BY <1>10 DEF Tick, Due
  <2>2. NoInterval => NoInterval'
    BY <2>1 DEF NoInterval
  <2>3. ASSUME OnePing
        PROVE  OnePing'
    <3>1. PICK t \in timeouts : /\ timeouts = {t}
                                /\ t.id = pingTimeout
                                /\ t.left + pings[1] = PING_TIMEOUT
      BY <2>3 DEF OnePing
    <3>2. PICK u \in timeouts' : u = [t EXCEPT !.left = @ - 1]
      BY <2>1, <3>1
    <3>3. t \in [id : Nat, left : 0..PING_TIMEOUT]
      BY <1>1, <3>1 DEF TypeOK
    <3>4. timeouts' = {u}
      BY <2>1, <3>1, <3>2
    <3>5. u.id = t.id /\ u.left = t.left - 1
      BY <3>2, <3>3
    <3>6. Len(pings) = 1 /\ pings \in Seq(Nat)
      BY <1>1, <2>3 DEF OnePing, TypeOK
    <3>7. Len(pings') = 1 /\ pings'[1] = pings[1] + 1 /\ pings[1] \in Nat
      <4>1. pings \in [1..Len(pings) -> Nat] /\ Len(pings) \in Nat /\ pings[1] \in Nat
        BY <3>6
      <4>2. pings' = [i \in 1..Len(pings) |-> pings[i] + 1]
        BY <2>1, <4>1
      <4>3. Len(pings') = Len(pings) /\ pings'[1] = pings[1] + 1
        BY <3>6, <4>1, <4>2
      <4>4. QED
        BY <3>6, <4>1, <4>3
    <3>8. u.left + pings'[1] = PING_TIMEOUT
      BY <3>1, <3>3, <3>5, <3>7
    <3>9. NoInterval'
      BY <2>2, <2>3 DEF OnePing
    <3>10. QED
      BY <2>1, <3>1, <3>4, <3>5, <3>7, <3>8, <3>9 DEF OnePing
  <2>4. ASSUME OneInterval
        PROVE  OneInterval'
    <3>1. PICK k \in 0..PING_INTERVAL :
            intervals[k] = 1 /\ \A j \in 0..PING_INTERVAL : j # k => intervals[j] = 0
      BY <2>4 DEF OneInterval
    <3>2. k # 0
      BY <2>1, <3>1
    <3>3. PICK i \in 0..PING_INTERVAL : i # PING_INTERVAL /\ i + 1 = k
      <4>1. k - 1 \in 0..PING_INTERVAL /\ k - 1 # PING_INTERVAL /\ (k - 1) + 1 = k
        BY <3>2
      <4>2. QED
        BY <4>1
    <3>4. intervals'[i] = 1
      BY <2>1, <3>1, <3>3
    <3>5. ASSUME NEW j \in 0..PING_INTERVAL, j # i
          PROVE  intervals'[j] = 0
      <4>1. CASE j = PING_INTERVAL
        BY <2>1, <4>1
      <4>2. CASE j # PING_INTERVAL
        <5>1. j + 1 \in 0..PING_INTERVAL /\ j + 1 # k
          BY <3>3, <3>5, <4>2
        <5>2. QED
          BY <2>1, <3>1, <4>2, <5>1
      <4>3. QED
        BY <4>1, <4>2
    <3>6. timeouts' = {} /\ pings' = << >>
      BY <2>1, <2>4 DEF OneInterval
    <3>7. QED
      BY <3>4, <3>5, <3>6 DEF OneInterval
  <2>5. connections = 0 => timeouts' = {} /\ NoInterval'
    BY <1>1, <2>1, <2>2 DEF FirstConnection
  <2>6. QED
    BY <1>1, <2>1, <2>3, <2>4, <2>5 DEF FirstConnection
<1>11. QED
  BY <1>3, <1>4, <1>5, <1>6, <1>7, <1>8, <1>9, <1>10 DEF Next

LEMMA StepS ==
  ASSUME SInv, [Next]_vars
  PROVE  SInv'
<1>1. CASE Next
  BY <1>1, TypeStep, LifeStep, WatchedStep, DeadlineStep, FirstStep DEF SInv
<1>2. CASE UNCHANGED vars
  BY <1>2 DEF vars, timerVars, linkVars, SInv, TypeOK, LifeAgrees, Watched, DeadlineRuns,
              FirstConnection, NoInterval, OnePing, OneInterval
<1>3. QED
  BY <1>1, <1>2

LEMMA InvariantS == Spec => []SInv
<1>1. Init => SInv
  BY InitS
<1>2. SInv /\ [Next]_vars => SInv'
  BY StepS
<1>3. QED
  BY <1>1, <1>2, PTL DEF Spec

-----------------------------------------------------------------------------
(* The theorems                                                            *)

\* The variables of a socket always have the values the code can give them.
THEOREM SocketTypes == Spec => []TypeOK
<1>1. SInv => TypeOK
  BY DEF SInv
<1>2. QED
  BY <1>1, InvariantS, PTL

\* An open connection always has a ping timeout running or a next ping
\* scheduled, however pongs, pings and the timers of earlier connections
\* interleave: clearTimeout never leaves a connection unwatched.
THEOREM AlwaysWatched == Spec => []Watched
<1>1. SInv => Watched
  BY DEF SInv
<1>2. QED
  BY <1>1, InvariantS, PTL

\* A connection whose peer has disappeared is terminated within
\* PING_INTERVAL + PING_TIMEOUT of that, whatever the three times are.
THEOREM DeathIsDetected == Spec => []DeadDetected
<1>1. SInv => DeadDetected
  <2> SUFFICES ASSUME SInv
               PROVE  DeadDetected
    OBVIOUS
  <2>1. /\ DeadlineRuns /\ deadFor \in Nat
        /\ PING_INTERVAL \in Nat /\ PING_TIMEOUT \in Nat
        /\ timeouts \subseteq [id : Nat, left : 0..PING_TIMEOUT]
    BY TimesAssumption DEF SInv, TypeOK
  <2>2. CASE ~(ws = "open" /\ peer = "dead")
    BY <2>1, <2>2 DEF DeadlineRuns, DeadDetected
  <2>3. CASE \E t \in timeouts : deadFor + t.left <= PING_INTERVAL + PING_TIMEOUT
    <3>1. PICK t \in timeouts : deadFor + t.left <= PING_INTERVAL + PING_TIMEOUT
      BY <2>3
    <3>2. t.left \in Nat
      BY <2>1
    <3>3. QED
      BY <2>1, <3>1, <3>2 DEF DeadDetected
  <2>4. CASE \E k \in 0..PING_INTERVAL : intervals[k] > 0 /\ deadFor + k <= PING_INTERVAL
    BY <2>1, <2>4 DEF DeadDetected
  <2>5. QED
    BY <2>1, <2>2, <2>3, <2>4 DEF DeadlineRuns
<1>2. QED
  BY <1>1, InvariantS, PTL

\* Nothing but an unanswered ping makes a timeout terminate the first
\* connection: on it every pong clears the timeout of the ping it answers.
THEOREM NoEarlyTimeout == Spec => FirstConnectionTimeout
<1>1. ASSUME SInv, Next
      PROVE  ws = "open" /\ ws' = "closed" /\ timeouts' # timeouts /\ connections = 1
               => \E i \in DOMAIN pings : pings[i] >= PING_TIMEOUT
  <2> SUFFICES ASSUME ws = "open", ws' = "closed", timeouts' # timeouts, connections = 1
               PROVE  \E i \in DOMAIN pings : pings[i] >= PING_TIMEOUT
    OBVIOUS
  <2>1. TimeoutDue
    <3> USE DEF NewWebSocket, WebSocketCloses, timerVars, linkVars
    <3>1. ~Construct /\ ~Open /\ ~ReconnectDue
      BY DEF Construct, Open, ReconnectDue
    <3>2. ~Drop /\ ~Close
      BY DEF Drop, Close
    <3>3. ~PeerDies /\ ~Pong /\ ~PingDue /\ ~Tick
      BY DEF PeerDies, Pong, PingDue, Tick
    <3>4. QED
      BY <1>1, <3>1, <3>2, <3>3 DEF Next
  <2>2. PICK t \in timeouts : t.left = 0
    BY <2>1 DEF TimeoutDue
  <2>3. OnePing
    BY <1>1, <2>2 DEF SInv, FirstConnection, OneInterval
  <2>4. Len(pings) = 1 /\ t.left + pings[1] = PING_TIMEOUT
    BY <2>2, <2>3 DEF OnePing
  <2>5. pings \in Seq(Nat) /\ PING_TIMEOUT \in Nat
    BY <1>1, TimesAssumption DEF SInv, TypeOK
  <2>6. 1 \in DOMAIN pings /\ pings[1] \in Nat
    BY <2>4, <2>5
  <2>7. pings[1] >= PING_TIMEOUT
    BY <2>2, <2>4, <2>5, <2>6
  <2>8. QED
    BY <2>6, <2>7
<1>2. QED
  BY <1>1, InvariantS, PTL DEF Spec, FirstConnectionTimeout

\* The websocket, the reconnect timer and the closeRequested flag together
\* live the life of UpstreamSocket: close() ends it during a connection; in
\* the backoff between two connections it ends nothing.
THEOREM SocketImplementsLifecycle == Spec => LivesAsUpstreamSocket
<1>1. Init => Lifecycle!Init
  BY DEF Init, Lifecycle!Init, OwnerView
<1>2. ASSUME SInv, [Next]_vars
      PROVE  [Lifecycle!Next]_Lifecycle!vars
  <2> USE TimesAssumption DEF OwnerView, Lifecycle!Next, Lifecycle!vars
  <2>0. /\ TypeOK /\ LifeAgrees
        /\ reconnectIn # None => reconnectIn \in Nat
        /\ RECONNECT_TIME # None
    BY <1>2 DEF SInv, TypeOK
  <2>1. CASE Construct
    BY <2>0, <2>1 DEF Construct, NewWebSocket, Lifecycle!Create
  <2>2. CASE Open
    BY <2>0, <2>2 DEF Open, Lifecycle!Open
  <2>3. CASE Drop
    BY <2>0, <2>3 DEF Drop, WebSocketCloses, OnClose, LifeAgrees, Lifecycle!Drop
  <2>4. CASE ReconnectDue
    BY <2>0, <2>4 DEF ReconnectDue, NewWebSocket, LifeAgrees, Lifecycle!Reconnect
  <2>5. CASE Close
    <3>1. CASE ws \in {"connecting", "open"}
      BY <2>0, <2>5, <3>1 DEF Close, WebSocketCloses, OnClose, Lifecycle!Close
    <3>2. CASE ws = "closed"
      BY <2>0, <2>5, <3>2 DEF Close, linkVars, Lifecycle!Close
    <3>3. QED
      BY <2>5, <3>1, <3>2 DEF Close
  <2>6. CASE PeerDies
    BY <2>6 DEF PeerDies
  <2>7. CASE Pong
    BY <2>7 DEF Pong
  <2>8. CASE PingDue
    BY <2>8 DEF PingDue
  <2>9. CASE TimeoutDue
    <3>1. CASE ws \in {"connecting", "open"}
      BY <2>0, <2>9, <3>1 DEF TimeoutDue, WebSocketCloses, OnClose, LifeAgrees, Lifecycle!Drop
    <3>2. CASE ~(ws \in {"connecting", "open"})
      BY <2>9, <3>2 DEF TimeoutDue
    <3>3. QED
      BY <3>1, <3>2
  <2>10. CASE Tick
    <3>1. UNCHANGED <<ws, released>> /\ (reconnectIn = None <=> reconnectIn' = None)
      BY <2>0, <2>10 DEF Tick, Due
    <3>2. QED
      BY <3>1
  <2>11. CASE UNCHANGED vars
    BY <2>11 DEF vars
  <2>12. QED
    BY <1>2, <2>1, <2>2, <2>3, <2>4, <2>5, <2>6, <2>7, <2>8, <2>9, <2>10, <2>11 DEF Next
<1>3. QED
  BY <1>1, <1>2, InvariantS, PTL DEF Spec, LivesAsUpstreamSocket, Lifecycle!Spec

=============================================================================
