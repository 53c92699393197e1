--------------------- MODULE EventStreamProxyDrainProofs ---------------------
(***************************************************************************)
(* More proofs about EventStreamProxy, for every set of clients and every  *)
(* bound: what the gateway does with its sockets and with batches in       *)
(* flight when it is spared the hazards that are known to break it.        *)
(***************************************************************************)
EXTENDS EventStreamProxyProofs

\* No two starts of a namespace overlap, and no namespace is left while its
\* socket waits to reconnect.
OrderlySockets == "startOverlap" \notin Hazards /\ "leaveBackoff" \notin Hazards

\* Besides, nobody leaves while starting, subscriptions resolve, and clients
\* acknowledge in order.
Orderly ==
  /\ OrderlySockets
  /\ "leaveStarting" \notin Hazards
  /\ "lookup" \notin Hazards
  /\ "ackReorder" \notin Hazards

\* There is one namespace at most.
OneNamespace == \A a, b \in Namespaces : a = b

-----------------------------------------------------------------------------
(* Sockets                                                                 *)

Alive == {"connecting", "open", "backoff"}

\* A socket that lives is the one its namespace knows of.
LiveIsKnown ==
  \A s \in Sockets : wsState[s] \in Alive => namespaceEventStreamSocket[s[2]] = s

\* A start that connects is the only one of its namespace, which has no
\* socket meanwhile.
OneStart ==
  \A c \in Clients, ns \in Namespaces : <<c, ns>> \in starting =>
    /\ namespaceEventStreamSocket[ns] = None
    /\ \A d \in Clients : <<d, ns>> \in starting => d = c

\* An unanswered batch was sent on an open connection of its namespace.
SentOnOpen ==
  \A ns \in Namespaces : outstanding[ns] # None =>
    wsState[outstanding[ns]] = "open" /\ outstanding[ns][2] = ns

Linked == LiveIsKnown /\ OneStart /\ SentOnOpen

LEMMA LinkedFrame ==
  ASSUME Linked, UNCHANGED <<starting, namespaceEventStreamSocket, wsState>>,
         \A ns \in Namespaces : outstanding'[ns] \in {None, outstanding[ns]}
  PROVE  Linked'
<1>1. LiveIsKnown'
  BY DEF Linked, LiveIsKnown
<1>2. OneStart'
  BY DEF Linked, OneStart
<1>3. SentOnOpen'
  BY DEF Linked, SentOnOpen
<1>4. QED
  BY <1>1, <1>2, <1>3 DEF Linked

\* The end of the process leaves no socket and no batch in flight.
LEMMA LinkedExit ==
  ASSUME TypeOK, ProcessExit
  PROVE  Linked' /\ \A ns \in Namespaces : outstanding'[ns] = None
<1>1. \A ns \in Namespaces : outstanding'[ns] = None
  BY DEF TypeOK, ProcessExit, Release
<1>2. \A s \in Sockets : wsState'[s] \in {"none", "closed"}
  BY DEF ProcessExit
<1>3. LiveIsKnown'
  BY <1>2 DEF LiveIsKnown, Alive
<1>4. OneStart'
  BY DEF ProcessExit, OneStart
<1>5. SentOnOpen'
  BY <1>1 DEF SentOnOpen
<1>6. QED
  BY <1>1, <1>3, <1>4, <1>5 DEF Linked

LEMMA LinkedConnect ==
  ASSUME TypeOK, Linked, NEW c \in Clients, NEW ns \in Namespaces, ConnectDone(c, ns)
  PROVE  Linked'
<1> DEFINE new == <<c, ns>>
<1>1. /\ new \in starting /\ new \in Sockets /\ new # None /\ new[2] = ns
      /\ starting' = starting \ {new}
      /\ wsState' = [wsState EXCEPT ![new] = "connecting"]
      /\ namespaceEventStreamSocket' = [namespaceEventStreamSocket EXCEPT ![ns] = new]
      /\ outstanding' = outstanding
  BY NoneAssumption DEF ConnectDone, streamVars, Sockets
<1>2. /\ namespaceEventStreamSocket[ns] = None
      /\ \A d \in Clients : <<d, ns>> \in starting => d = c
  BY <1>1 DEF Linked, OneStart
<1> HIDE DEF new
<1>3. ASSUME NEW s \in Sockets, wsState'[s] \in Alive
      PROVE  namespaceEventStreamSocket'[s[2]] = s
  <2>1. CASE s = new
    BY <1>1, <2>1 DEF TypeOK
  <2>2. CASE s # new
    <3>1. wsState'[s] = wsState[s]
      BY <1>1, <2>2 DEF TypeOK
    <3>2. namespaceEventStreamSocket[s[2]] = s /\ s # None /\ s[2] \in Namespaces
      BY <1>3, <3>1, NoneAssumption DEF Linked, LiveIsKnown, Sockets
    <3>3. s[2] # ns
      BY <1>2, <3>2
    <3>4. QED
      BY <1>1, <3>2, <3>3 DEF TypeOK
  <2>3. QED
    BY <2>1, <2>2
<1>4. OneStart'
  <2> SUFFICES ASSUME NEW d \in Clients, NEW n \in Namespaces, <<d, n>> \in starting'
               PROVE  /\ namespaceEventStreamSocket'[n] = None
                      /\ \A e \in Clients : <<e, n>> \in starting' => e = d
    BY DEF OneStart
  <2>1. <<d, n>> \in starting /\ <<d, n>> # <<c, ns>>
    BY <1>1 DEF new
  <2>2. n # ns
    BY <1>2, <2>1
  <2>3. /\ namespaceEventStreamSocket[n] = None
        /\ \A e \in Clients : <<e, n>> \in starting => e = d
    BY <2>1 DEF Linked, OneStart
  <2>4. QED
    BY <1>1, <2>2, <2>3 DEF TypeOK
<1>5. SentOnOpen'
  <2> SUFFICES ASSUME NEW n \in Namespaces, outstanding'[n] # None
               PROVE  wsState'[outstanding[n]] = "open" /\ outstanding[n][2] = n
    BY <1>1 DEF SentOnOpen
  <2>1. /\ outstanding[n] \in Sockets
        /\ wsState[outstanding[n]] = "open" /\ outstanding[n][2] = n
    BY <1>1 DEF TypeOK, Linked, SentOnOpen
  <2>2. namespaceEventStreamSocket[n] = outstanding[n]
    BY <2>1 DEF Linked, LiveIsKnown, Alive
  <2>3. outstanding[n] # new
    BY <1>1, <1>2, <2>1, <2>2
  <2>4. QED
    BY <1>1, <2>1, <2>3 DEF TypeOK
<1>6. QED
  BY <1>3, <1>4, <1>5 DEF Linked, LiveIsKnown

\* handleDisconnect closes the socket of each namespace it empties, unless
\* that socket waits to reconnect: close() would not stop it.
LEMMA LinkedDisconnect ==
  ASSUME OrderlySockets, TypeOK, SocketPerNamespace, Linked,
         NEW c \in Clients, NEW first \in Namespaces, Disconnect(c, first)
  PROVE  Linked' /\ \A ns \in Emptied(c) : outstanding'[ns] = None
<1> DEFINE ended == {namespaceEventStreamSocket[ns] : ns \in Emptied(c)}
<1>1. /\ wsState' = [s \in Sockets |->
            IF s \in ended /\ wsState[s] # "backoff" THEN "closed" ELSE wsState[s]]
      /\ outstanding' = [ns \in Namespaces |->
            IF outstanding[ns] \in ended THEN None ELSE outstanding[ns]]
      /\ namespaceEventStreamSocket' = [ns \in Namespaces |->
            IF ns \in Emptied(c) THEN None ELSE namespaceEventStreamSocket[ns]]
      /\ starting' = starting
  BY DEF Disconnect, CloseSockets, Release
<1>2. \A ns \in Emptied(c) : wsState[namespaceEventStreamSocket[ns]] # "backoff"
  BY DEF Disconnect, MayLeave, OrderlySockets
<1>3. \A s \in ended : wsState[s] # "backoff"
  BY <1>2
<1>4. \A ns \in Emptied(c) : ns \in Namespaces /\ namespaceEventStreamSocket[ns] \in ended
  BY DEF Emptied
<1> HIDE DEF ended
<1>5. LiveIsKnown'
  <2> SUFFICES ASSUME NEW s \in Sockets, wsState'[s] \in Alive
               PROVE  namespaceEventStreamSocket'[s[2]] = s
    BY DEF LiveIsKnown
  <2>1. s \notin ended /\ wsState[s] \in Alive
    BY <1>1, <1>3 DEF Alive
  <2>2. namespaceEventStreamSocket[s[2]] = s /\ s[2] \in Namespaces
    BY <2>1 DEF Linked, LiveIsKnown, Sockets
  <2>3. s[2] \notin Emptied(c)
    BY <1>4, <2>1, <2>2
  <2>4. QED
    BY <1>1, <2>2, <2>3
<1>6. OneStart'
  BY <1>1 DEF Linked, OneStart
<1>7. SentOnOpen'
  BY <1>1 DEF TypeOK, Linked, SentOnOpen
<1>8. ASSUME NEW ns \in Emptied(c)
      PROVE  outstanding'[ns] = None
  <2>1. ns \in Namespaces /\ namespaceEventStreamSocket[ns] \in ended
    BY <1>4
  <2>2. CASE outstanding[ns] = None
    BY <1>1, <2>1, <2>2
  <2>3. CASE outstanding[ns] # None
    <3>1. /\ outstanding[ns] \in Sockets
          /\ wsState[outstanding[ns]] = "open" /\ outstanding[ns][2] = ns
      BY <2>1, <2>3 DEF TypeOK, Linked, SentOnOpen
    <3>2. namespaceEventStreamSocket[ns] = outstanding[ns]
      BY <3>1 DEF Linked, LiveIsKnown, Alive
    <3>3. QED
      BY <1>1, <2>1, <3>2
  <2>4. QED
    BY <2>2, <2>3
<1>9. QED
  BY <1>5, <1>6, <1>7, <1>8 DEF Linked

LEMMA LinkedUpstream ==
  ASSUME TypeOK, Linked, NEW s \in Sockets,
         UpstreamDrop(s) \/ Reconnect(s) \/ WsOpen(s) \/ StreamDispatch(s)
  PROVE  Linked'
<1>1. /\ starting' = starting /\ namespaceEventStreamSocket' = namespaceEventStreamSocket
      /\ s[2] \in Namespaces
  BY DEF UpstreamDrop, Reconnect, WsOpen, StreamDispatch, proxyVars, Sockets
<1>2. /\ wsState[s] \in Alive
      /\ \E v \in Alive : wsState' = [wsState EXCEPT ![s] = v]
  BY DEF UpstreamDrop, Reconnect, WsOpen, StreamDispatch, Alive, TypeOK
<1>3. LiveIsKnown'
  BY <1>1, <1>2 DEF Linked, LiveIsKnown, TypeOK
<1>4. OneStart'
  BY <1>1 DEF Linked, OneStart
<1>5. SentOnOpen'
  <2>1. CASE UpstreamDrop(s)
    <3>1. /\ wsState' = [wsState EXCEPT ![s] = "backoff"]
          /\ outstanding' = [ns \in Namespaces |->
                IF outstanding[ns] \in {s} THEN None ELSE outstanding[ns]]
      BY <2>1 DEF UpstreamDrop, Release
    <3>2. QED
      BY <3>1 DEF Linked, SentOnOpen, TypeOK
  <2>2. CASE Reconnect(s) \/ WsOpen(s)
    <3>1. /\ wsState[s] # "open" /\ outstanding' = outstanding
          /\ \E v \in Alive : wsState' = [wsState EXCEPT ![s] = v]
      BY <2>2 DEF Reconnect, WsOpen, streamVars, Alive
    <3>2. QED
      BY <3>1 DEF Linked, SentOnOpen, TypeOK
  <2>3. CASE StreamDispatch(s)
    <3>1. /\ wsState[s] = "open" /\ wsState' = wsState
          /\ outstanding' = [outstanding EXCEPT ![s[2]] = s]
      BY <2>3 DEF StreamDispatch
    <3>2. QED
      BY <1>1, <3>1 DEF Linked, SentOnOpen, TypeOK
  <2>4. QED
    BY <2>1, <2>2, <2>3
<1>6. QED
  BY <1>3, <1>4, <1>5 DEF Linked

LEMMA LinkedStep ==
  ASSUME OrderlySockets, TypeOK, SocketPerNamespace, Linked, [Next]_vars
  PROVE  Linked'
<1>1. ASSUME NEW c \in Clients, Connect(c) \/ GoesMute(c) \/ ProcessEvents(c)
      PROVE  Linked'
  BY <1>1, LinkedFrame DEF Connect, GoesMute, ProcessEvents, Resolve, proxyVars, streamVars
<1>2. ASSUME NEW c \in Clients, NEW ns \in Namespaces, StartJoins(c, ns)
      PROVE  Linked'
  BY <1>2, LinkedFrame DEF StartJoins, streamVars
<1>3. ASSUME NEW c \in Clients, NEW ns \in Namespaces, StartConnects(c, ns)
      PROVE  Linked'
  <2>1. /\ namespaceEventStreamSocket[ns] = None
        /\ \A d \in Clients : <<d, ns>> \notin starting
        /\ starting' = starting \cup {<<c, ns>>}
        /\ UNCHANGED <<namespaceEventStreamSocket, wsState, outstanding>>
    BY <1>3 DEF StartConnects, OrderlySockets, streamVars
  <2>2. OneStart'
    BY <2>1 DEF Linked, OneStart
  <2>3. LiveIsKnown' /\ SentOnOpen'
    BY <2>1 DEF Linked, LiveIsKnown, SentOnOpen
  <2>4. QED
    BY <2>2, <2>3 DEF Linked
<1>4. ASSUME NEW c \in Clients, NEW ns \in Namespaces, ConnectDone(c, ns)
      PROVE  Linked'
  BY <1>4, LinkedConnect
<1>5. ASSUME NEW c \in Clients, NEW ns \in Namespaces, ConnectFails(c, ns)
      PROVE  Linked'
  <2>1. /\ starting' \subseteq starting
        /\ UNCHANGED <<namespaceEventStreamSocket, wsState, outstanding>>
    BY <1>5 DEF ConnectFails, streamVars
  <2>2. QED
    BY <2>1 DEF Linked, OneStart, LiveIsKnown, SentOnOpen
<1>6. ASSUME NEW c \in Clients, NEW ns \in Namespaces, Disconnect(c, ns)
      PROVE  Linked'
  BY <1>6, LinkedDisconnect
<1>7. ASSUME NEW c \in Clients, NEW ns \in Namespaces, DisconnectThrows(c, ns)
      PROVE  Linked'
  BY <1>7, LinkedExit DEF DisconnectThrows
<1>8. ASSUME NEW c \in Clients, NEW m \in awaitingAck[c], ClientAck(c, m)
      PROVE  Linked'
  BY <1>8, LinkedFrame DEF ClientAck
<1>9. ASSUME NEW c \in Clients, NEW m \in awaitingAck[c], ClientAckThrows(c, m)
      PROVE  Linked'
  BY <1>9, LinkedExit DEF ClientAckThrows
<1>10. ASSUME NEW s \in Sockets,
              UpstreamDrop(s) \/ Reconnect(s) \/ WsOpen(s) \/ StreamDispatch(s)
       PROVE  Linked'
  BY <1>10, LinkedUpstream
<1>11. ASSUME NEW r \in replies, StreamReply(r)
       PROVE  Linked'
  <2>1. \A ns \in Namespaces : outstanding'[ns] \in {None, outstanding[ns]}
    BY <1>11 DEF StreamReply, TypeOK
  <2>2. QED
    BY <1>11, <2>1, LinkedFrame DEF StreamReply, proxyVars
<1>12. CASE ProcessLost \/ ProcessUnknown
  BY <1>12, LinkedFrame DEF ProcessLost, ProcessUnknown, Resolve, streamVars
<1>13. CASE Crash
  BY <1>13, LinkedExit DEF Crash
<1>14. CASE UNCHANGED vars
  BY <1>14, LinkedFrame DEF vars, proxyVars, streamVars
<1>15. QED
  BY <1>1, <1>2, <1>3, <1>4, <1>5, <1>6, <1>7, <1>8, <1>9, <1>10, <1>11, <1>12,
     <1>13, <1>14 DEF Next

LEMMA SocketsLinked == OrderlySockets /\ Spec => []Linked
<1>1. Init => Linked
  BY DEF Init, Linked, LiveIsKnown, OneStart, SentOnOpen, Alive
<1>2. OrderlySockets /\ TypeOK /\ SocketPerNamespace /\ Linked /\ [Next]_vars => Linked'
  BY LinkedStep
<1>3. OrderlySockets' <=> OrderlySockets
  BY DEF OrderlySockets
<1>4. QED
  BY <1>1, <1>2, <1>3, TypeCorrect, SocketForClients, PTL DEF Spec

-----------------------------------------------------------------------------
(* Nacks                                                                   *)

\* With one namespace, handleDisconnect deletes the messages a client awaits
\* only after it has nacked them all.
LEMMA NacksSent ==
  ASSUME OneNamespace, TypeOK, NEW c \in Clients, NEW first \in Namespaces,
         Disconnect(c, first), SendArrives(first), first \notin Emptied(c)
  PROVE  /\ replies' = replies \cup NackReplies(c, first)
         /\ \A m \in awaitingAck[c] : ReplyTo("nack", m) \in replies'
<1>1. Emptied(c) = {}
  BY DEF OneNamespace, Emptied
<1>2. replies' = replies \cup NackReplies(c, first)
  <2>1. PICK lost \in SUBSET {r \in replies \cup NackReplies(c, first) : r.ns \in Emptied(c)} :
          replies' = (replies \cup NackReplies(c, first)) \ lost
    BY DEF Disconnect, ArriveInPart
  <2>2. lost = {}
    BY <1>1
  <2>3. QED
    BY <2>1, <2>2
<1>3. \A m \in awaitingAck[c] : m.ns = first
  BY DEF OneNamespace, TypeOK, Message
<1>4. QED
  BY <1>2, <1>3 DEF NackReplies, Inflight

\* In a deployment with one namespace, a client that leaves while others
\* stay has every message it held nacked (handleDisconnect), whatever else
\* goes wrong.  With several namespaces the code does not do it.
THEOREM DepartureNacks == OneNamespace /\ Spec => DisconnectNacks
<1>1. ASSUME OneNamespace, TypeOK, AwaitedByMember, [Next]_vars
      PROVE  \A c \in Clients : \A m \in awaitingAck[c] :
               /\ clientState[c] = "connected" /\ clientState'[c] = "gone"
               /\ namespaceClients'[m.ns] # {} /\ SendArrives(m.ns)
               => ReplyTo("nack", m) \in replies'
  <2> SUFFICES ASSUME NEW c \in Clients, NEW m \in awaitingAck[c],
                      clientState[c] = "connected", clientState'[c] = "gone",
                      namespaceClients'[m.ns] # {}, SendArrives(m.ns)
               PROVE  ReplyTo("nack", m) \in replies'
    OBVIOUS
  <2>1. clientState[c] = "connected" /\ m.ns \in Namespaces
    BY <1>1 DEF TypeOK, Message
  <2>2. ~ProcessExit
    BY <2>1 DEF ProcessExit
  <2>3. ASSUME NEW d \in Clients, Connect(d)
        PROVE  FALSE
    BY <1>1, <2>1, <2>3 DEF Connect, TypeOK
  <2>4. PICK first \in Namespaces : Disconnect(c, first)
    <3>1. clientState' # clientState
      BY <2>1
    <3>2. ASSUME NEW d \in Clients, NEW n \in Namespaces, Disconnect(d, n)
          PROVE  d = c
      BY <1>1, <2>1, <3>2 DEF Disconnect, TypeOK
    <3>3. ASSUME NEW d \in Clients, NEW n \in Namespaces
          PROVE  ~StartJoins(d, n) /\ ~StartConnects(d, n) /\ ~ConnectDone(d, n)
                   /\ ~ConnectFails(d, n) /\ ~DisconnectThrows(d, n)
      BY <2>2, <3>1 DEF StartJoins, StartConnects, ConnectDone, ConnectFails, DisconnectThrows
    <3>4. ASSUME NEW d \in Clients, NEW o \in awaitingAck[d]
          PROVE  ~ClientAck(d, o) /\ ~ClientAckThrows(d, o)
      BY <2>2, <3>1 DEF ClientAck, ClientAckThrows
    <3>5. ASSUME NEW d \in Clients
          PROVE  ~GoesMute(d) /\ ~ProcessEvents(d)
      BY <3>1 DEF GoesMute, ProcessEvents
    <3>6. ASSUME NEW s \in Sockets
          PROVE  ~UpstreamDrop(s) /\ ~Reconnect(s) /\ ~WsOpen(s) /\ ~StreamDispatch(s)
      BY <3>1 DEF UpstreamDrop, Reconnect, WsOpen, StreamDispatch
    <3>7. ASSUME NEW r \in replies
          PROVE  ~StreamReply(r)
      BY <3>1 DEF StreamReply
    <3>8. ~ProcessLost /\ ~ProcessUnknown /\ ~Crash
      BY <2>2, <3>1 DEF ProcessLost, ProcessUnknown, Crash
    <3>9. ~UNCHANGED vars
      BY <3>1 DEF vars
    <3>10. QED
      BY <1>1, <2>3, <3>2, <3>3, <3>4, <3>5, <3>6, <3>7, <3>8, <3>9 DEF Next
  <2>5. first = m.ns
    BY <1>1, <2>1 DEF OneNamespace
  <2>6. first \notin Emptied(c)
    BY <2>1, <2>4, <2>5 DEF Disconnect, Emptied
  <2>7. QED
    BY <1>1, <2>4, <2>5, <2>6, NacksSent
<1>2. OneNamespace' <=> OneNamespace
  BY DEF OneNamespace
<1>3. QED
  BY <1>1, <1>2, TypeCorrect, AwaitedFromMembers, PTL DEF Spec, DisconnectNacks

-----------------------------------------------------------------------------
(* Members and the order of batches                                        *)

\* Who is in a namespace, or is starting it, is connected.
MembersConnected ==
  \A c \in Clients, ns \in Namespaces :
    c \in namespaceClients[ns] \/ <<c, ns>> \in starting => clientState[c] = "connected"

LEMMA MembersStep ==
  ASSUME "leaveStarting" \notin Hazards, TypeOK, MembersConnected, [Next]_vars
  PROVE  MembersConnected'
<1> USE DEF MembersConnected
<1>a. UNCHANGED <<clientState, namespaceClients, starting>> => MembersConnected'
  OBVIOUS
<1>b. ProcessExit => MembersConnected'
  BY DEF ProcessExit
<1>1. ASSUME NEW c \in Clients, Connect(c)
      PROVE  MembersConnected'
  BY <1>1 DEF Connect, TypeOK
<1>2. ASSUME NEW c \in Clients, GoesMute(c) \/ ProcessEvents(c)
      PROVE  MembersConnected'
  BY <1>2, <1>a DEF GoesMute, ProcessEvents, proxyVars
<1>3. ASSUME NEW c \in Clients, NEW ns \in Namespaces,
             StartJoins(c, ns) \/ StartConnects(c, ns)
      PROVE  MembersConnected'
  <2>1. /\ clientState[c] = "connected" /\ clientState' = clientState
        /\ \A d \in Clients, n \in Namespaces :
             /\ d \in namespaceClients'[n] => d \in namespaceClients[n] \/ d = c
             /\ <<d, n>> \in starting' => <<d, n>> \in starting \/ d = c
    <3>1. \/ namespaceClients' = namespaceClients
          \/ namespaceClients' = [namespaceClients EXCEPT ![ns] = @ \cup {c}]
      BY <1>3 DEF StartJoins, StartConnects, Join
    <3>2. starting' = starting \/ starting' = starting \cup {<<c, ns>>}
      BY <1>3 DEF StartJoins, StartConnects
    <3>3. DOMAIN namespaceClients = Namespaces
      BY DEF TypeOK
    <3>4. clientState[c] = "connected" /\ clientState' = clientState
      BY <1>3 DEF StartJoins, StartConnects, MayStart
    <3>5. QED
      BY <3>1, <3>2, <3>3, <3>4
  <2>2. QED
    BY <2>1
<1>4. ASSUME NEW c \in Clients, NEW ns \in Namespaces,
             ConnectDone(c, ns) \/ ConnectFails(c, ns)
      PROVE  MembersConnected'
  <2>1. /\ clientState[c] = "connected" /\ clientState' = clientState
        /\ starting' \subseteq starting
    BY <1>4 DEF ConnectDone, ConnectFails
  <2>2. \A d \in Clients, n \in Namespaces :
          d \in namespaceClients'[n] => d \in namespaceClients[n] \/ d = c
    <3>1. \/ namespaceClients' = namespaceClients
          \/ namespaceClients' = [namespaceClients EXCEPT ![ns] = @ \cup {c}]
      BY <1>4 DEF ConnectDone, ConnectFails, Join
    <3>2. DOMAIN namespaceClients = Namespaces
      BY DEF TypeOK
    <3>3. QED
      BY <3>1, <3>2
  <2>3. QED
    BY <2>1, <2>2
<1>5. ASSUME NEW c \in Clients, NEW ns \in Namespaces, Disconnect(c, ns)
      PROVE  MembersConnected'
  <2>1. \A n \in Namespaces : <<c, n>> \notin starting
    BY <1>5 DEF Disconnect, MayLeave
  <2>2. /\ clientState' = [clientState EXCEPT ![c] = "gone"]
        /\ namespaceClients' = [n \in Namespaces |-> namespaceClients[n] \ {c}]
        /\ starting' = starting
    BY <1>5 DEF Disconnect
  <2>3. QED
    BY <2>1, <2>2 DEF TypeOK
<1>6. ASSUME NEW c \in Clients, NEW ns \in Namespaces, DisconnectThrows(c, ns)
      PROVE  MembersConnected'
  BY <1>6, <1>b DEF DisconnectThrows
<1>7. ASSUME NEW c \in Clients, NEW m \in awaitingAck[c],
             ClientAck(c, m) \/ ClientAckThrows(c, m)
      PROVE  MembersConnected'
  BY <1>7, <1>a, <1>b DEF ClientAck, ClientAckThrows
<1>8. ASSUME NEW s \in Sockets,
             UpstreamDrop(s) \/ Reconnect(s) \/ WsOpen(s) \/ StreamDispatch(s)
      PROVE  MembersConnected'
  BY <1>8, <1>a DEF UpstreamDrop, Reconnect, WsOpen, StreamDispatch, proxyVars
<1>9. ASSUME NEW r \in replies, StreamReply(r)
      PROVE  MembersConnected'
  BY <1>9, <1>a DEF StreamReply, proxyVars
<1>10. CASE ProcessLost \/ ProcessUnknown
  BY <1>10, <1>a DEF ProcessLost, ProcessUnknown
<1>11. CASE Crash \/ UNCHANGED vars
  BY <1>11, <1>a, <1>b DEF Crash, vars, proxyVars
<1>12. QED
  BY <1>1, <1>2, <1>3, <1>4, <1>5, <1>6, <1>7, <1>8, <1>9, <1>10, <1>11 DEF Next

LEMMA MembersAreConnected ==
  "leaveStarting" \notin Hazards /\ Spec => []MembersConnected
<1>1. Init => MembersConnected
  BY DEF Init, MembersConnected
<1>2. "leaveStarting" \notin Hazards /\ TypeOK /\ MembersConnected /\ [Next]_vars
        => MembersConnected'
  BY MembersStep
<1>3. ("leaveStarting" \notin Hazards)' <=> "leaveStarting" \notin Hazards
  OBVIOUS
<1>4. QED
  BY <1>1, <1>2, <1>3, TypeCorrect, PTL DEF Spec

\* If no two starts of a namespace overlap, nobody leaves while starting and
\* no namespace is left during a reconnect, handleDisconnect closes every
\* socket that nobody needs: one that is connected or connecting always has a
\* client that is there.
THEOREM UnneededSocketsClose ==
  OrderlySockets /\ "leaveStarting" \notin Hazards /\ Spec => []LastClientCloses
<1>1. TypeOK /\ SocketPerNamespace /\ Linked /\ MembersConnected => LastClientCloses
  <2> SUFFICES ASSUME TypeOK, SocketPerNamespace, Linked, MembersConnected,
                      NEW s \in Sockets, wsState[s] \in {"connecting", "open"}
               PROVE  \E c \in namespaceClients[s[2]] : clientState[c] = "connected"
    BY DEF LastClientCloses
  <2>1. s[2] \in Namespaces /\ s # None
    BY NoneAssumption DEF Sockets
  <2>2. namespaceEventStreamSocket[s[2]] = s
    BY DEF Linked, LiveIsKnown, Alive
  <2>3. namespaceClients[s[2]] # {} /\ namespaceClients[s[2]] \subseteq Clients
    BY <2>1, <2>2 DEF SocketPerNamespace, TypeOK
  <2>4. QED
    BY <2>1, <2>3 DEF MembersConnected
<1>2. QED
  BY <1>1, SocketsLinked, SocketForClients, TypeCorrect, MembersAreConnected, PTL

\* Tasks are queued in the order of their batches, a client holds no batch
\* later than a queued one, and received its messages in order too.
QueueSorted ==
  \A i, j \in DOMAIN queue : i <= j => queue[i].batch <= queue[j].batch

HeldBeforeQueued ==
  \A c \in Clients : \A m \in awaitingAck[c] :
    \A i \in DOMAIN queue : m.batch <= queue[i].batch

HeldSorted ==
  \A c \in Clients : \A m, o \in awaitingAck[c] : m.id <= o.id => m.batch <= o.batch

Sorted == QueueSorted /\ HeldBeforeQueued /\ HeldSorted

\* Fewer messages and the same queue, or no queue.
LEMMA SortedFrame ==
  ASSUME Sorted, queue' \in {queue, << >>},
         \A c \in Clients : awaitingAck'[c] \subseteq awaitingAck[c]
  PROVE  Sorted'
<1>1. QueueSorted'
  BY DEF Sorted, QueueSorted
<1>2. HeldBeforeQueued'
  BY DEF Sorted, HeldBeforeQueued
<1>3. HeldSorted'
  BY DEF Sorted, HeldSorted
<1>4. QED
  BY <1>1, <1>2, <1>3 DEF Sorted

\* The next tasks of the queue are the first one and those of its tail.
LEMMA Tasks ==
  ASSUME queue \in Seq(Task), queue # << >>
  PROVE  /\ 1 \in DOMAIN queue /\ Head(queue) = queue[1]
         /\ \A i \in DOMAIN Tail(queue) :
              i \in Nat /\ i + 1 \in DOMAIN queue /\ Tail(queue)[i] = queue[i + 1]
         /\ \A i \in DOMAIN queue :
              i = 1 \/ (i - 1 \in DOMAIN Tail(queue) /\ Tail(queue)[i - 1] = queue[i])
<1>1. /\ Tail(queue) \in Seq(Task)
      /\ Len(Tail(queue)) = Len(queue) - 1
      /\ \A i \in 1..Len(Tail(queue)) : Tail(queue)[i] = queue[i + 1]
  BY HeadTailProperties
<1>2. Len(queue) \in Nat /\ DOMAIN queue = 1..Len(queue)
  BY LenProperties
<1>3. Len(queue) # 0 /\ Head(queue) = queue[1]
  BY EmptySeq
<1>4. DOMAIN Tail(queue) = 1..Len(Tail(queue))
  BY <1>1, LenProperties
<1>5. ASSUME NEW i \in DOMAIN queue, i # 1
      PROVE  i - 1 \in DOMAIN Tail(queue) /\ Tail(queue)[i - 1] = queue[i]
  <2>1. i \in 1..Len(queue)
    BY <1>2
  <2>2. i - 1 \in 1..Len(Tail(queue)) /\ (i - 1) + 1 = i
    BY <1>1, <1>2, <1>5, <2>1
  <2>3. QED
    BY <1>1, <1>4, <2>2
<1>6. QED
  BY <1>1, <1>2, <1>3, <1>4, <1>5

LEMMA SortedTail ==
  ASSUME TypeOK, Sorted, queue # << >>, queue' = Tail(queue)
  PROVE  QueueSorted' /\ \A i \in DOMAIN queue' : Head(queue).batch <= queue'[i].batch
<1>1. queue \in Seq(Task) /\ 1 \in DOMAIN queue /\ Head(queue) = queue[1]
  BY Tasks DEF TypeOK
<1>2. \A i \in DOMAIN queue' :
        i \in Nat /\ i + 1 \in DOMAIN queue /\ queue'[i] = queue[i + 1]
  BY <1>1, Tasks
<1>3. QueueSorted'
  <2> SUFFICES ASSUME NEW i \in DOMAIN queue', NEW j \in DOMAIN queue', i <= j
               PROVE  queue'[i].batch <= queue'[j].batch
    BY DEF QueueSorted
  <2>1. i + 1 <= j + 1
    BY <1>2
  <2>2. QED
    BY <1>2, <2>1 DEF Sorted, QueueSorted
<1>4. ASSUME NEW i \in DOMAIN queue'
      PROVE  Head(queue).batch <= queue'[i].batch
  <2>1. 1 <= i + 1
    BY <1>2
  <2>2. QED
    BY <1>1, <1>2, <2>1 DEF Sorted, QueueSorted
<1>5. QED
  BY <1>3, <1>4

\* A message has an id above those of all others, and the batch of the task
\* that was first.
LEMMA SortedProcess ==
  ASSUME TypeOK, IdsFresh, Sorted, NEW c \in Clients, ProcessEvents(c)
  PROVE  Sorted'
<1> DEFINE new == [id |-> nextId, ns |-> Head(queue).ns, batch |-> Head(queue).batch]
<1>1. /\ queue # << >> /\ queue' = Tail(queue)
      /\ awaitingAck' \in {awaitingAck, [awaitingAck EXCEPT ![c] = @ \cup {new}]}
  BY DEF ProcessEvents, Resolve
<1>2. QueueSorted' /\ \A i \in DOMAIN queue' : Head(queue).batch <= queue'[i].batch
  BY <1>1, SortedTail
<1>3. /\ 1 \in DOMAIN queue /\ Head(queue) = queue[1]
      /\ \A i \in DOMAIN queue' : i + 1 \in DOMAIN queue /\ queue'[i] = queue[i + 1]
  BY <1>1, Tasks DEF TypeOK
<1>4. \A d \in Clients : \A m \in awaitingAck'[d] :
        m \in awaitingAck[d] \/ (m.id = nextId /\ m.batch = Head(queue).batch)
  <2>1. CASE awaitingAck' = awaitingAck
    BY <2>1
  <2>2. CASE awaitingAck' = [awaitingAck EXCEPT ![c] = @ \cup {new}]
    BY <2>2 DEF TypeOK
  <2>3. QED
    BY <1>1, <2>1, <2>2
<1>5. \A d \in Clients : \A m \in awaitingAck[d] :
        m.id \in Nat /\ m.id < nextId /\ m.batch <= Head(queue).batch
  BY <1>3 DEF TypeOK, Message, IdsFresh, Sorted, HeldBeforeQueued
<1> HIDE DEF new
<1>6. HeldBeforeQueued'
  <2> SUFFICES ASSUME NEW d \in Clients, NEW m \in awaitingAck'[d], NEW i \in DOMAIN queue'
               PROVE  m.batch <= queue'[i].batch
    BY DEF HeldBeforeQueued
  <2>1. CASE m \in awaitingAck[d]
    BY <1>3, <2>1 DEF Sorted, HeldBeforeQueued
  <2>2. CASE m \notin awaitingAck[d]
    BY <1>2, <1>4, <2>2
  <2>3. QED
    BY <2>1, <2>2
<1>7. HeldSorted'
  <2> SUFFICES ASSUME NEW d \in Clients, NEW m \in awaitingAck'[d], NEW o \in awaitingAck'[d],
                      m.id <= o.id
               PROVE  m.batch <= o.batch
    BY DEF HeldSorted
  <2>0. nextId \in Nat
    BY DEF TypeOK
  <2>1. CASE o \in awaitingAck[d]
    <3>1. m.id # nextId
      BY <1>5, <2>0, <2>1
    <3>2. m \in awaitingAck[d]
      BY <1>4, <3>1
    <3>3. QED
      BY <2>1, <3>2 DEF Sorted, HeldSorted
  <2>2. CASE o \notin awaitingAck[d]
    <3>1. o.batch = Head(queue).batch
      BY <1>4, <2>2
    <3>2. CASE m \in awaitingAck[d]
      BY <1>5, <3>1, <3>2
    <3>3. CASE m \notin awaitingAck[d]
      <4>1. m.batch = Head(queue).batch /\ Head(queue).batch \in Nat
        BY <1>1, <1>4, <3>3, TakeTask DEF TypeOK, Task, Batches
      <4>2. QED
        BY <3>1, <4>1
    <3>4. QED
      BY <3>2, <3>3
  <2>3. QED
    BY <2>1, <2>2
<1>8. QED
  BY <1>2, <1>6, <1>7 DEF Sorted

\* What is in the queue or held is not beyond the batch after the
\* checkpoint, which the stream sends next.
LEMMA SortedDispatch ==
  ASSUME OneNamespace, TypeOK, BatchFlow, Sorted, NEW s \in Sockets, StreamDispatch(s)
  PROVE  Sorted'
<1> DEFINE ns == s[2]
           task == [ns |-> ns, batch |-> checkpoint[ns] + 1]
<1>1. /\ ns \in Namespaces /\ task \in Task
      /\ queue' = Append(queue, task) /\ awaitingAck' = awaitingAck
  BY BoundsAssumption DEF StreamDispatch, Sockets, TypeOK, Task, Batches
<1>2. /\ \A i \in DOMAIN queue : queue[i].batch <= task.batch
      /\ \A c \in Clients : \A m \in awaitingAck[c] : m.batch <= task.batch
  <2>1. checkpoint[ns] \in Nat
    BY <1>1 DEF TypeOK
  <2>2. ASSUME NEW i \in DOMAIN queue
        PROVE  queue[i].batch <= task.batch
    <3>1. queue[i] \in Task
      BY DEF TypeOK
    <3>2. queue[i].ns = ns
      BY <1>1, <3>1 DEF Task, OneNamespace
    <3>3. QED
      BY <3>2 DEF BatchFlow
  <2>3. ASSUME NEW c \in Clients, NEW m \in awaitingAck[c]
        PROVE  m.batch <= task.batch
    <3>1. m \in Message
      BY DEF TypeOK
    <3>2. m.ns = ns
      BY <1>1, <3>1 DEF Message, OneNamespace
    <3>3. QED
      BY <1>1, <3>2 DEF BatchFlow
  <2>4. QED
    BY <2>2, <2>3
<1>3. task.batch \in Nat
  BY <1>1 DEF Task, Batches
<1> HIDE DEF task
<1>4. \A i \in DOMAIN queue' :
        \/ i \in DOMAIN queue /\ queue'[i] = queue[i]
        \/ i = Len(queue) + 1 /\ queue'[i] = task
  BY <1>1 DEF TypeOK
<1>5. \A i \in DOMAIN queue : i \in Nat /\ i <= Len(queue) /\ Len(queue) \in Nat
  BY DEF TypeOK
<1>6. QueueSorted'
  <2> SUFFICES ASSUME NEW i \in DOMAIN queue', NEW j \in DOMAIN queue', i <= j
               PROVE  queue'[i].batch <= queue'[j].batch
    BY DEF QueueSorted
  <2>1. CASE i \in DOMAIN queue /\ queue'[i] = queue[i]
              /\ j \in DOMAIN queue /\ queue'[j] = queue[j]
    BY <2>1 DEF Sorted, QueueSorted
  <2>2. CASE i \in DOMAIN queue /\ queue'[i] = queue[i] /\ queue'[j] = task
    BY <1>2, <2>2
  <2>3. CASE i = Len(queue) + 1 /\ queue'[i] = task
    <3>1. ~(j \in DOMAIN queue)
      BY <1>5, <2>3
    <3>2. queue'[j] = task
      BY <1>4, <3>1
    <3>3. QED
      BY <1>3, <2>3, <3>2
  <2>4. QED
    BY <1>4, <2>1, <2>2, <2>3
<1>7. HeldBeforeQueued'
  BY <1>1, <1>2, <1>4 DEF Sorted, HeldBeforeQueued
<1>8. HeldSorted'
  BY <1>1 DEF Sorted, HeldSorted
<1>9. QED
  BY <1>6, <1>7, <1>8 DEF Sorted

LEMMA SortedStep ==
  ASSUME OneNamespace, TypeOK, IdsFresh, BatchFlow, AwaitedByMember, Sorted, [Next]_vars
  PROVE  Sorted'
<1>a. UNCHANGED <<queue, awaitingAck>> => Sorted'
  BY SortedFrame
<1>b. ProcessExit => Sorted'
  BY SortedFrame DEF ProcessExit
<1>1. ASSUME NEW c \in Clients, Connect(c) \/ GoesMute(c)
      PROVE  Sorted'
  <2>1. queue' = queue /\ \A d \in Clients : awaitingAck'[d] \subseteq awaitingAck[d]
    BY <1>1 DEF Connect, GoesMute, proxyVars, TypeOK
  <2>2. QED
    BY <2>1, SortedFrame
<1>2. ASSUME NEW c \in Clients, ProcessEvents(c)
      PROVE  Sorted'
  BY <1>2, SortedProcess
<1>3. ASSUME NEW c \in Clients, NEW ns \in Namespaces,
             \/ StartJoins(c, ns) \/ StartConnects(c, ns)
             \/ ConnectDone(c, ns) \/ ConnectFails(c, ns)
      PROVE  Sorted'
  BY <1>3, <1>a DEF StartJoins, StartConnects, ConnectDone, ConnectFails
<1>4. ASSUME NEW c \in Clients, NEW ns \in Namespaces, Disconnect(c, ns)
      PROVE  Sorted'
  <2>1. queue' = queue /\ \A d \in Clients : awaitingAck'[d] \subseteq awaitingAck[d]
    BY <1>4 DEF Disconnect, TypeOK
  <2>2. QED
    BY <2>1, SortedFrame
<1>5. ASSUME NEW c \in Clients, NEW ns \in Namespaces, DisconnectThrows(c, ns)
      PROVE  Sorted'
  BY <1>5, <1>b DEF DisconnectThrows
<1>6. ASSUME NEW c \in Clients, NEW m \in awaitingAck[c], ClientAck(c, m)
      PROVE  Sorted'
  <2>1. queue' = queue /\ \A d \in Clients : awaitingAck'[d] \subseteq awaitingAck[d]
    BY <1>6 DEF ClientAck, Rest, TypeOK
  <2>2. QED
    BY <2>1, SortedFrame
<1>7. ASSUME NEW c \in Clients, NEW m \in awaitingAck[c], ClientAckThrows(c, m)
      PROVE  Sorted'
  BY <1>7, <1>b DEF ClientAckThrows
<1>8. ASSUME NEW s \in Sockets, UpstreamDrop(s) \/ Reconnect(s) \/ WsOpen(s)
      PROVE  Sorted'
  BY <1>8, <1>a DEF UpstreamDrop, Reconnect, WsOpen, proxyVars
<1>9. ASSUME NEW s \in Sockets, StreamDispatch(s)
      PROVE  Sorted'
  BY <1>9, SortedDispatch
<1>10. ASSUME NEW r \in replies, StreamReply(r)
       PROVE  Sorted'
  BY <1>10, <1>a DEF StreamReply, proxyVars
<1>11. CASE ProcessLost \/ ProcessUnknown
  <2>1. queue # << >> /\ queue' = Tail(queue) /\ awaitingAck' = awaitingAck
    BY <1>11 DEF ProcessLost, ProcessUnknown, Resolve
  <2>2. QueueSorted'
    BY <2>1, SortedTail
  <2>3. \A i \in DOMAIN queue' : i + 1 \in DOMAIN queue /\ queue'[i] = queue[i + 1]
    BY <2>1, Tasks DEF TypeOK
  <2>4. HeldBeforeQueued'
    BY <2>1, <2>3 DEF Sorted, HeldBeforeQueued
  <2>5. HeldSorted'
    BY <2>1 DEF Sorted, HeldSorted
  <2>6. QED
    BY <2>2, <2>4, <2>5 DEF Sorted
<1>12. CASE Crash \/ UNCHANGED vars
  BY <1>12, <1>a, <1>b DEF Crash, vars, proxyVars
<1>13. QED
  BY <1>1, <1>2, <1>3, <1>4, <1>5, <1>6, <1>7, <1>8, <1>9, <1>10, <1>11, <1>12 DEF Next

-----------------------------------------------------------------------------
(* No batch is stranded                                                    *)

\* Where the batch an event stream waits for can be.
Queued(ns, b) == \E i \in DOMAIN queue : queue[i] = [ns |-> ns, batch |-> b]
Held(ns, b) == \E c \in Clients : \E m \in awaitingAck[c] : m.ns = ns /\ m.batch = b
Answered(ns, b) == \E r \in replies : r.ns = ns /\ r.batch = b

Waited(ns) == checkpoint[ns] + 1

\* The invariant of the proof.  That who holds a message is connected comes
\* from AwaitedByMember and MembersConnected.
Located ==
  \A ns \in Namespaces : outstanding[ns] # None =>
    \/ Queued(ns, Waited(ns)) \/ Held(ns, Waited(ns)) \/ Answered(ns, Waited(ns))

\* What the proof of one step may assume.
DInv == IInv /\ Linked /\ MembersConnected /\ Sorted /\ Located

\* A batch that is sent, queued, held or answered stays so.
LEMMA StrandedFrame ==
  ASSUME DInv, UNCHANGED <<queue, awaitingAck, checkpoint, outstanding, replies>>
  PROVE  Located'
BY DEF DInv, Located, Queued, Held, Answered, Waited

\* With no batch in flight there is nothing to strand.
LEMMA NothingOut ==
  ASSUME \A ns \in Namespaces : outstanding'[ns] = None
  PROVE  Located'
BY DEF Located

\* A batch in flight has an open socket to answer on, and a client to take it.
LEMMA InFlight ==
  ASSUME DInv, NEW ns \in Namespaces, outstanding[ns] # None
  PROVE  /\ outstanding[ns] = namespaceEventStreamSocket[ns]
         /\ SendArrives(ns)
         /\ namespaceClients[ns] # {}
<1>1. /\ outstanding[ns] \in Sockets
      /\ wsState[outstanding[ns]] = "open" /\ outstanding[ns][2] = ns
  BY DEF DInv, IInv, TypeOK, Linked, SentOnOpen
<1>2. outstanding[ns] = namespaceEventStreamSocket[ns]
  BY <1>1 DEF DInv, Linked, LiveIsKnown, Alive
<1>3. QED
  BY <1>1, <1>2 DEF SendArrives, DInv, IInv, SocketPerNamespace

LEMMA StrandedProcess ==
  ASSUME Orderly, DInv, NEW c \in Clients, ProcessEvents(c)
  PROVE  Located'
<1> DEFINE t == Head(queue)
           new == [id |-> nextId, ns |-> t.ns, batch |-> t.batch]
<1>1. /\ queue # << >> /\ queue' = Tail(queue)
      /\ awaitingAck' = [awaitingAck EXCEPT ![c] = @ \cup {new}]
      /\ UNCHANGED <<checkpoint, outstanding, replies>>
  <2>1. queue # << >> /\ queue' = Tail(queue)
    BY DEF ProcessEvents, Resolve
  <2>2. t.ns \in Namespaces
    BY <2>1, TakeTask DEF DInv, IInv, TypeOK, Task
  <2>3. clientState[c] = "connected"
    BY <2>2 DEF ProcessEvents, Selectable, DInv, MembersConnected
  <2>4. c \in tracked
    BY <2>3 DEF DInv, IInv, TypeOK
  <2>5. QED
    BY <2>1, <2>4 DEF ProcessEvents, streamVars
<1>2. TypeOK
  BY DEF DInv, IInv
<1> SUFFICES ASSUME NEW ns \in Namespaces, outstanding[ns] # None
             PROVE  \/ Queued(ns, Waited(ns))' \/ Held(ns, Waited(ns))'
                    \/ Answered(ns, Waited(ns))'
  BY <1>1 DEF Located, Queued, Held, Answered, Waited
<1>3. Queued(ns, Waited(ns)) \/ Held(ns, Waited(ns)) \/ Answered(ns, Waited(ns))
  BY DEF DInv, Located
<1>4. Waited(ns)' = Waited(ns)
  BY <1>1 DEF Waited
<1>5. CASE Queued(ns, Waited(ns))
  <2>1. PICK i \in DOMAIN queue : queue[i] = [ns |-> ns, batch |-> Waited(ns)]
    BY <1>5 DEF Queued
  <2>2. CASE i = 1
    <3>1. t = [ns |-> ns, batch |-> Waited(ns)]
      BY <1>1, <1>2, <2>1, <2>2, Tasks DEF TypeOK
    <3>2. new.ns = ns /\ new.batch = Waited(ns)
      BY <3>1
    <3>3. new \in awaitingAck'[c]
      BY <1>1, <1>2 DEF TypeOK
    <3> HIDE DEF new
    <3>4. QED
      BY <1>4, <3>2, <3>3 DEF Held
  <2>3. CASE i # 1
    <3>1. i - 1 \in DOMAIN queue' /\ queue'[i - 1] = queue[i]
      BY <1>1, <1>2, <2>3, Tasks DEF TypeOK
    <3>2. QED
      BY <1>4, <2>1, <3>1 DEF Queued
  <2>4. QED
    BY <2>2, <2>3
<1>6. CASE Held(ns, Waited(ns))
  <2>1. \A d \in Clients : awaitingAck[d] \subseteq awaitingAck'[d]
    BY <1>1, <1>2 DEF TypeOK
  <2>2. QED
    BY <1>4, <1>6, <2>1 DEF Held
<1>7. CASE Answered(ns, Waited(ns))
  BY <1>1, <1>4, <1>7 DEF Answered
<1>8. QED
  BY <1>3, <1>5, <1>6, <1>7

\* A batch is lost for want of a client only when nobody waits for it.
LEMMA StrandedLost ==
  ASSUME Orderly, OneNamespace, DInv, ProcessLost \/ ProcessUnknown
  PROVE  Located'
<1>1. ProcessLost
  BY DEF ProcessUnknown, Orderly
<1>2. Head(queue) \in Task
  BY <1>1, TakeTask DEF DInv, IInv, TypeOK, ProcessLost, Resolve
<1> DEFINE ns == Head(queue).ns
<1>3. ns \in Namespaces
  BY <1>2 DEF Task
<1>4. \/ namespaceClients[ns] = {}
      \/ \E c \in namespaceClients[ns] : clientState[c] # "connected"
  BY <1>1 DEF ProcessLost, Selectable
<1>5. namespaceClients[ns] \subseteq Clients
  BY <1>3 DEF DInv, IInv, TypeOK
<1>6. namespaceClients[ns] = {}
  BY <1>3, <1>4, <1>5 DEF DInv, MembersConnected
<1>7. outstanding[ns] = None
  BY <1>3, <1>6, InFlight
<1>8. \A n \in Namespaces : n = ns
  BY <1>3 DEF OneNamespace
<1>9. outstanding' = outstanding
  BY <1>1 DEF ProcessLost, streamVars
<1> HIDE DEF ns
<1>10. QED
  BY <1>7, <1>8, <1>9, NothingOut

\* A client that leaves nacks what it holds, or takes its socket with it.
LEMMA StrandedLeave ==
  ASSUME Orderly, OneNamespace, DInv, NEW c \in Clients, NEW first \in Namespaces,
         Disconnect(c, first)
  PROVE  Located'
<1>1. TypeOK
  BY DEF DInv, IInv
<1>2. \A ns \in Namespaces : ns = first
  BY DEF OneNamespace
<1>3. CASE first \in Emptied(c)
  <2>1. \A ns \in Emptied(c) : outstanding'[ns] = None
    BY LinkedDisconnect DEF DInv, IInv, Orderly
  <2>2. QED
    BY <1>2, <1>3, <2>1, NothingOut
<1>4. CASE outstanding[first] = None
  <2>1. \A ns \in Namespaces : outstanding'[ns] = None
    BY <1>2, <1>4 DEF Disconnect, Release
  <2>2. QED
    BY <2>1, NothingOut
<1>5. CASE first \notin Emptied(c) /\ outstanding[first] # None
  <2>1. SendArrives(first)
    BY <1>5, InFlight
  <2>2. /\ replies \subseteq replies'
        /\ \A m \in awaitingAck[c] : ReplyTo("nack", m) \in replies'
    BY <1>1, <1>5, <2>1, NacksSent
  <2>3. /\ queue' = queue /\ checkpoint' = checkpoint
        /\ awaitingAck' = [awaitingAck EXCEPT ![c] = {}]
    <3>1. first \in Running
      BY <1>5, InFlight DEF Running
    <3>2. QED
      BY <3>1 DEF Disconnect
  <2>4. SUFFICES \/ Queued(first, Waited(first))' \/ Held(first, Waited(first))'
                 \/ Answered(first, Waited(first))'
    BY <1>2 DEF Located, Queued, Held, Answered, Waited
  <2>5. \/ Queued(first, Waited(first)) \/ Held(first, Waited(first))
        \/ Answered(first, Waited(first))
    BY <1>5 DEF DInv, Located
  <2>6. Waited(first)' = Waited(first)
    BY <2>3 DEF Waited
  <2>7. CASE Queued(first, Waited(first))
    BY <2>3, <2>6, <2>7 DEF Queued
  <2>8. CASE Held(first, Waited(first))
    <3>1. PICK d \in Clients : \E m \in awaitingAck[d] :
            m.ns = first /\ m.batch = Waited(first)
      BY <2>8 DEF Held
    <3>2. PICK m \in awaitingAck[d] : m.ns = first /\ m.batch = Waited(first)
      BY <3>1
    <3>3. CASE d = c
      <4>1. ReplyTo("nack", m) \in replies'
        BY <2>2, <3>3
      <4>2. ReplyTo("nack", m).ns = first /\ ReplyTo("nack", m).batch = Waited(first)
        BY <3>2 DEF ReplyTo
      <4>3. QED
        BY <2>6, <4>1, <4>2 DEF Answered
    <3>4. CASE d # c
      <4>1. m \in awaitingAck'[d]
        BY <1>1, <2>3, <3>4 DEF TypeOK
      <4>2. QED
        BY <2>6, <3>2, <4>1 DEF Held
    <3>5. QED
      BY <3>3, <3>4
  <2>9. CASE Answered(first, Waited(first))
    BY <2>2, <2>6, <2>9 DEF Answered
  <2>10. QED
    BY <2>5, <2>7, <2>8, <2>9
<1>6. QED
  BY <1>3, <1>4, <1>5

\* The message a client acknowledges is acked upstream, or it awaits a later
\* one of the same batch: handleAck drops an ack only while others are due.
LEMMA StrandedAck ==
  ASSUME Orderly, OneNamespace, DInv, NEW c \in Clients, NEW m \in awaitingAck[c],
         ClientAck(c, m)
  PROVE  Located'
<1>1. TypeOK
  BY DEF DInv, IInv
<1>2. /\ queue' = queue /\ checkpoint' = checkpoint /\ outstanding' = outstanding
      /\ awaitingAck' = [awaitingAck EXCEPT ![c] = Rest(c, m)]
      /\ replies' = IF Completes(c, m) /\ SendArrives(m.ns)
                    THEN replies \cup {ReplyTo("ack", m)} ELSE replies
      /\ \A o \in awaitingAck[c] : m.id <= o.id
  BY DEF ClientAck, Acknowledge, Orderly
<1> SUFFICES ASSUME NEW ns \in Namespaces, outstanding[ns] # None
             PROVE  \/ Queued(ns, Waited(ns))' \/ Held(ns, Waited(ns))'
                    \/ Answered(ns, Waited(ns))'
  BY <1>2 DEF Located, Queued, Held, Answered, Waited
<1>3. Queued(ns, Waited(ns)) \/ Held(ns, Waited(ns)) \/ Answered(ns, Waited(ns))
  BY DEF DInv, Located
<1>4. Waited(ns)' = Waited(ns) /\ replies \subseteq replies'
  BY <1>2 DEF Waited
<1>5. CASE Queued(ns, Waited(ns))
  BY <1>2, <1>4, <1>5 DEF Queued
<1>6. CASE Answered(ns, Waited(ns))
  BY <1>4, <1>6 DEF Answered
<1>7. CASE Held(ns, Waited(ns))
  <2>1. PICK d \in Clients : \E k \in awaitingAck[d] : k.ns = ns /\ k.batch = Waited(ns)
    BY <1>7 DEF Held
  <2>2. PICK k \in awaitingAck[d] : k.ns = ns /\ k.batch = Waited(ns)
    BY <2>1
  <2>3. CASE k \in awaitingAck'[d]
    BY <1>4, <2>2, <2>3 DEF Held
  <2>4. CASE k \notin awaitingAck'[d]
    <3>1. d = c /\ k.id = m.id
      BY <1>1, <1>2, <2>4 DEF TypeOK, Rest
    <3>2. k = m
      BY <3>1 DEF DInv, IInv, OneHolder
    <3>3. CASE Completes(c, m)
      <4>1. ReplyTo("ack", m) \in replies'
        BY <1>2, <2>2, <3>2, <3>3, InFlight
      <4>2. ReplyTo("ack", m).ns = ns /\ ReplyTo("ack", m).batch = Waited(ns)
        BY <2>2, <3>2 DEF ReplyTo
      <4>3. QED
        BY <1>4, <4>1, <4>2 DEF Answered
    <3>4. CASE ~Completes(c, m)
      <4>1. PICK o \in awaitingAck[c] : o.id # m.id
        BY <3>4 DEF Completes, Rest
      <4>2. o \in awaitingAck'[c]
        BY <1>1, <1>2, <4>1 DEF TypeOK, Rest
      <4>3. o \in Message /\ o.ns = ns
        BY <1>1 DEF TypeOK, Message, OneNamespace
      <4>4. Waited(ns) <= o.batch
        BY <1>2, <2>2, <3>2 DEF DInv, Sorted, HeldSorted
      <4>5. o.batch <= Waited(ns) /\ o.batch \in Nat /\ Waited(ns) \in Nat
        BY <1>1, <4>3 DEF DInv, IInv, BatchFlow, Waited, TypeOK, Message, Batches
      <4>6. o.batch = Waited(ns)
        BY <4>4, <4>5
      <4>7. QED
        BY <1>4, <4>2, <4>3, <4>6 DEF Held
    <3>5. QED
      BY <3>3, <3>4
  <2>5. QED
    BY <2>3, <2>4
<1>8. QED
  BY <1>3, <1>5, <1>6, <1>7

LEMMA StrandedStream ==
  ASSUME OneNamespace, DInv,
         \/ \E s \in Sockets : UpstreamDrop(s) \/ StreamDispatch(s)
         \/ \E r \in replies : StreamReply(r)
  PROVE  Located'
<1>1. TypeOK
  BY DEF DInv, IInv
<1>2. ASSUME NEW s \in Sockets, UpstreamDrop(s)
      PROVE  Located'
  <2>1. wsState[s] \in Alive /\ s[2] \in Namespaces
    BY <1>2 DEF UpstreamDrop, Alive, Sockets
  <2>2. namespaceEventStreamSocket[s[2]] = s
    BY <2>1 DEF DInv, Linked, LiveIsKnown
  <2>3. outstanding[s[2]] \in {None, s}
    BY <2>1, <2>2, InFlight
  <2>4. \A ns \in Namespaces : outstanding[ns] \in {None, s}
    BY <2>1, <2>3 DEF OneNamespace
  <2>5. \A ns \in Namespaces : outstanding'[ns] = None
    BY <1>2, <2>4 DEF UpstreamDrop, Release
  <2>6. QED
    BY <2>5, NothingOut
<1>3. ASSUME NEW s \in Sockets, StreamDispatch(s)
      PROVE  Located'
  <2> DEFINE ns == s[2]
             task == [ns |-> ns, batch |-> Waited(ns)]
  <2>1. /\ queue' = Append(queue, task) /\ checkpoint' = checkpoint
        /\ ns \in Namespaces
    BY <1>3 DEF StreamDispatch, Waited, Sockets
  <2>2. Len(queue) + 1 \in DOMAIN queue' /\ queue'[Len(queue) + 1] = task
    BY <1>1, <2>1 DEF TypeOK
  <2>3. Waited(ns)' = Waited(ns)
    BY <2>1 DEF Waited
  <2>4. \E i \in DOMAIN queue' : queue'[i] = [ns |-> ns, batch |-> checkpoint'[ns] + 1]
    BY <2>1, <2>2 DEF Waited
  <2>5. \A n \in Namespaces : n = ns
    BY <2>1 DEF OneNamespace
  <2> HIDE DEF ns, task
  <2>6. QED
    BY <2>4, <2>5 DEF Located, Queued, Waited
<1>4. ASSUME NEW r \in replies, StreamReply(r)
      PROVE  Located'
  <2>1. r.ns \in Namespaces /\ \A ns \in Namespaces : ns = r.ns
    BY <1>1 DEF TypeOK, Reply, OneNamespace
  <2>2. CASE Answers(r)
    <3>1. outstanding' = [outstanding EXCEPT ![r.ns] = None]
      BY <1>4, <2>2 DEF StreamReply
    <3>2. \A ns \in Namespaces : outstanding'[ns] = None
      BY <1>1, <2>1, <3>1 DEF TypeOK
    <3>3. QED
      BY <3>2, NothingOut
  <2>3. CASE outstanding[r.ns] = None
    <3>1. outstanding' = outstanding
      BY <1>4, <2>3 DEF StreamReply, Answers
    <3>2. QED
      BY <2>1, <2>3, <3>1, NothingOut
  <2>4. CASE ~Answers(r) /\ outstanding[r.ns] # None
    <3>1. r.batch # Waited(r.ns)
      BY <2>4 DEF Answers, Waited
    <3>2. /\ queue' = queue /\ awaitingAck' = awaitingAck /\ replies' = replies \ {r}
          /\ outstanding' = outstanding /\ checkpoint' = checkpoint
      BY <1>4, <2>4 DEF StreamReply, proxyVars
    <3>3. Answered(r.ns, Waited(r.ns)) => \E q \in replies' : q.ns = r.ns /\ q.batch = Waited(r.ns)
      BY <3>1, <3>2 DEF Answered
    <3>4. \/ Queued(r.ns, Waited(r.ns)) \/ Held(r.ns, Waited(r.ns))
          \/ Answered(r.ns, Waited(r.ns))
      BY <2>1, <2>4 DEF DInv, Located
    <3>5. QED
      BY <2>1, <3>2, <3>3, <3>4 DEF Located, Queued, Held, Answered, Waited
  <2>5. QED
    BY <2>2, <2>3, <2>4
<1>5. QED
  BY <1>2, <1>3, <1>4

LEMMA StrandedStep ==
  ASSUME Orderly, OneNamespace, DInv, [Next]_vars
  PROVE  Located'
<1>a. UNCHANGED <<queue, awaitingAck, checkpoint, outstanding, replies>> => Located'
  BY StrandedFrame
<1>b. ProcessExit => Located'
  BY LinkedExit, NothingOut DEF DInv, IInv
<1>1. ASSUME NEW c \in Clients, Connect(c)
      PROVE  Located'
  <2>1. awaitingAck[c] = {}
    <3>1. \A m \in awaitingAck[c] : m.ns \in Namespaces /\ c \in namespaceClients[m.ns]
      BY DEF DInv, IInv, AwaitedByMember, TypeOK, Message
    <3>2. clientState[c] # "connected"
      BY <1>1 DEF Connect
    <3>3. QED
      BY <3>1, <3>2 DEF DInv, MembersConnected
  <2>2. awaitingAck' = awaitingAck
    BY <1>1, <2>1 DEF Connect, DInv, IInv, TypeOK
  <2>3. QED
    BY <1>1, <1>a, <2>2 DEF Connect, streamVars
<1>2. ASSUME NEW c \in Clients, GoesMute(c)
      PROVE  Located'
  BY <1>2, <1>a DEF GoesMute, proxyVars, streamVars
<1>3. ASSUME NEW c \in Clients, ProcessEvents(c)
      PROVE  Located'
  BY <1>3, StrandedProcess
<1>4. ASSUME NEW c \in Clients, NEW ns \in Namespaces,
             \/ StartJoins(c, ns) \/ StartConnects(c, ns)
             \/ ConnectDone(c, ns) \/ ConnectFails(c, ns)
      PROVE  Located'
  BY <1>4, <1>a DEF StartJoins, StartConnects, ConnectDone, ConnectFails, streamVars
<1>5. ASSUME NEW c \in Clients, NEW ns \in Namespaces, Disconnect(c, ns)
      PROVE  Located'
  BY <1>5, StrandedLeave
<1>6. ASSUME NEW c \in Clients, NEW ns \in Namespaces, DisconnectThrows(c, ns)
      PROVE  Located'
  BY <1>6, <1>b DEF DisconnectThrows
<1>7. ASSUME NEW c \in Clients, NEW m \in awaitingAck[c], ClientAck(c, m)
      PROVE  Located'
  BY <1>7, StrandedAck
<1>8. ASSUME NEW c \in Clients, NEW m \in awaitingAck[c], ClientAckThrows(c, m)
      PROVE  Located'
  BY <1>8, <1>b DEF ClientAckThrows
<1>9. ASSUME NEW s \in Sockets, Reconnect(s) \/ WsOpen(s)
      PROVE  Located'
  BY <1>9, <1>a DEF Reconnect, WsOpen, proxyVars, streamVars
<1>10. CASE \/ \E s \in Sockets : UpstreamDrop(s) \/ StreamDispatch(s)
            \/ \E r \in replies : StreamReply(r)
  BY <1>10, StrandedStream
<1>11. CASE ProcessLost \/ ProcessUnknown
  BY <1>11, StrandedLost
<1>12. CASE Crash \/ UNCHANGED vars
  BY <1>12, <1>a, <1>b DEF Crash, vars, proxyVars, streamVars
<1>13. QED
  BY <1>1, <1>2, <1>3, <1>4, <1>5, <1>6, <1>7, <1>8, <1>9, <1>10, <1>11, <1>12 DEF Next

\* With one namespace and none of the races and failures that Orderly
\* excludes, a batch the event stream waits for is always queued, held by a
\* connected client or answered, through crashes, lost upstream connections,
\* resends, clients that come, leave, or go mute.
THEOREM BatchesAreNotStranded == Orderly /\ OneNamespace /\ Spec => []NoStrandedBatch
<1> DEFINE Extra == MembersConnected /\ Sorted /\ Located
<1>1. Init => Extra
  BY DEF Init, MembersConnected, Sorted, QueueSorted, HeldBeforeQueued, HeldSorted,
         Located
<1>2. Orderly /\ OneNamespace /\ IInv /\ Linked /\ Extra /\ [Next]_vars => Extra'
  <2> SUFFICES ASSUME Orderly, OneNamespace, IInv, Linked, Extra, [Next]_vars
               PROVE  Extra'
    OBVIOUS
  <2>1. MembersConnected'
    BY MembersStep DEF IInv, Orderly
  <2>2. Sorted'
    BY SortedStep DEF IInv
  <2>3. Located'
    BY StrandedStep DEF DInv
  <2>4. QED
    BY <2>1, <2>2, <2>3
<1>3. (Orderly /\ OneNamespace)' <=> Orderly /\ OneNamespace
  BY DEF Orderly, OrderlySockets, OneNamespace
<1>4. Orderly => OrderlySockets
  BY DEF Orderly
<1>5. IInv /\ Extra => NoStrandedBatch
  <2> SUFFICES ASSUME IInv, Extra PROVE NoStrandedBatch
    OBVIOUS
  <2>1. \A c \in Clients : \A m \in awaitingAck[c] : clientState[c] = "connected"
    <3>1. \A c \in Clients : \A m \in awaitingAck[c] :
            m.ns \in Namespaces /\ c \in namespaceClients[m.ns]
      BY DEF IInv, AwaitedByMember, TypeOK, Message
    <3>2. QED
      BY <3>1 DEF MembersConnected
  <2>2. QED
    BY <2>1 DEF Located, Queued, Held, Answered, Waited, NoStrandedBatch
<1> HIDE DEF Extra
<1>6. QED
  BY <1>1, <1>2, <1>3, <1>4, <1>5, SocketsLinked, Invariance, PTL DEF Spec

=============================================================================
