------------------------ MODULE EventStreamProxyProofs ------------------------
(***************************************************************************)
(* Proofs about EventStreamProxy for every set of clients and namespaces   *)
(* and every bound.                                                        *)
(***************************************************************************)
EXTENDS EventStreamProxy, SequenceTheorems, TLAPS

-----------------------------------------------------------------------------
(* The helpers keep the types                                              *)

\* Taking the first task of the queue.
LEMMA TakeTask ==
  ASSUME queue \in Seq(Task), queue # << >>
  PROVE  /\ Head(queue) \in Task
         /\ Tail(queue) \in Seq(Task)
         /\ \E j \in DOMAIN queue : Head(queue) = queue[j]
         /\ \A i \in DOMAIN Tail(queue) :
              \E j \in DOMAIN queue : Tail(queue)[i] = queue[j]
  <1>1. /\ Head(queue) \in Task
        /\ Tail(queue) \in Seq(Task)
        /\ Len(Tail(queue)) = Len(queue) - 1
        /\ \A i \in 1..Len(Tail(queue)) : Tail(queue)[i] = queue[i + 1]
    BY HeadTailProperties
  <1>2. Len(queue) \in Nat /\ DOMAIN queue = 1..Len(queue)
    BY LenProperties
  <1>3. Len(queue) # 0 /\ Head(queue) = queue[1]
    BY EmptySeq
  <1>4. DOMAIN Tail(queue) = 1..Len(Tail(queue))
    BY <1>1, LenProperties
  <1> QED
    BY <1>1, <1>2, <1>3, <1>4

LEMMA ProcessExitTypes ==
  ASSUME TypeOK, ProcessExit
  PROVE  /\ clientState' \in [Clients -> {"absent", "connected", "gone"}]
         /\ mute' = {}
         /\ awaitingAck' \in [Clients -> SUBSET Message]
         /\ tracked' = {} /\ {c \in Clients : clientState'[c] = "connected"} = {}
         /\ starting' \subseteq Sockets
         /\ namespaceClients' \in [Namespaces -> SUBSET Clients]
         /\ namespaceEventStreamSocket' \in [Namespaces -> Sockets \cup {None}]
         /\ wsState' \in [Sockets -> {"none", "connecting", "open", "backoff", "closed"}]
         /\ queue' \in Seq(Task)
         /\ subscriptionNames' \subseteq Subs
         /\ nextId' \in Nat
         /\ replies' \subseteq Reply
         /\ outstanding' \in [Namespaces -> Sockets \cup {None}]
         /\ checkpoint' \in [Namespaces -> 0..MaxBatch]
         /\ drops' \in Nat
  BY DEF TypeOK, ProcessExit, Release, ArriveInPart

LEMMA TypesInductive ==
  ASSUME TypeOK, [Next]_vars
  PROVE  TypeOK'
  <1> USE DEF TypeOK
  <1>1. ASSUME NEW c \in Clients, Connect(c) \/ GoesMute(c)
        PROVE  TypeOK'
    BY <1>1 DEF Connect, GoesMute, proxyVars, streamVars, historyVars
  <1>2. ASSUME NEW c \in Clients, ProcessEvents(c)
        PROVE  TypeOK'
    <2>1. /\ Head(queue) \in Task
          /\ queue' \in Seq(Task)
      BY <1>2, TakeTask DEF ProcessEvents, Resolve
    <2>2. awaitingAck' \in [Clients -> SUBSET Message]
      BY <1>2, <2>1 DEF ProcessEvents, Task, Message
    <2>3. delivered' \in [Namespaces -> SUBSET Batches]
      BY <1>2, <2>1 DEF ProcessEvents, Task
    <2>4. SubsOf[Head(queue).ns] \subseteq Subs
      BY <2>1, SubsAssumption DEF Task
    <2>5. subscriptionNames' \subseteq Subs /\ nextId' \in Nat
      BY <1>2, <2>4 DEF ProcessEvents, Resolve
    <2> QED
      BY <1>2, <2>1, <2>2, <2>3, <2>5 DEF ProcessEvents, streamVars
  <1>3. ASSUME NEW c \in Clients, NEW ns \in Namespaces, StartJoins(c, ns)
        PROVE  TypeOK'
    BY <1>3 DEF StartJoins, Join, streamVars, historyVars
  <1>4. ASSUME NEW c \in Clients, NEW ns \in Namespaces, StartConnects(c, ns)
        PROVE  TypeOK'
    BY <1>4 DEF StartConnects, Sockets, streamVars, historyVars
  <1>5. ASSUME NEW c \in Clients, NEW ns \in Namespaces, ConnectDone(c, ns)
        PROVE  TypeOK'
    BY <1>5 DEF ConnectDone, Join, streamVars, historyVars
  <1>6. ASSUME NEW c \in Clients, NEW ns \in Namespaces, ConnectFails(c, ns)
        PROVE  TypeOK'
    BY <1>6 DEF ConnectFails, streamVars, historyVars
  <1>7. ASSUME NEW c \in Clients, NEW ns \in Namespaces, Disconnect(c, ns)
        PROVE  TypeOK'
    <2>1. replies \cup NackReplies(c, ns) \subseteq Reply
      BY DEF NackReplies, Inflight, ReplyTo, Message, Reply
    <2>2. replies' \subseteq Reply
      BY <1>7, <2>1 DEF Disconnect, ArriveInPart
    <2>3. wsState' \in [Sockets -> {"none", "connecting", "open", "backoff", "closed"}]
      BY <1>7 DEF Disconnect, CloseSockets
    <2>4. outstanding' \in [Namespaces -> Sockets \cup {None}]
      BY <1>7 DEF Disconnect, Release
    <2> QED
      BY <1>7, <2>2, <2>3, <2>4 DEF Disconnect, historyVars
  <1>8. ASSUME NEW c \in Clients, NEW ns \in Namespaces, DisconnectThrows(c, ns)
        PROVE  TypeOK'
    BY <1>8, ProcessExitTypes DEF DisconnectThrows, historyVars
  <1>9. ASSUME NEW c \in Clients, NEW m \in awaitingAck[c], ClientAck(c, m)
        PROVE  TypeOK'
    <2>1. m \in Message
      OBVIOUS
    <2>2. replies' \subseteq Reply
      BY <1>9, <2>1 DEF ClientAck, ReplyTo, Message, Reply
    <2>3. clientAcked' \in [Namespaces -> SUBSET Batches]
      BY <1>9, <2>1 DEF ClientAck, Acknowledge, Message
    <2>4. awaitingAck' \in [Clients -> SUBSET Message]
      BY <1>9 DEF ClientAck, Rest
    <2> QED
      BY <1>9, <2>2, <2>3, <2>4 DEF ClientAck
  <1>10. ASSUME NEW c \in Clients, NEW m \in awaitingAck[c], ClientAckThrows(c, m)
         PROVE  TypeOK'
    <2>1. clientAcked' \in [Namespaces -> SUBSET Batches]
      BY <1>10 DEF ClientAckThrows, Acknowledge, Message
    <2> QED
      BY <1>10, <2>1, ProcessExitTypes DEF ClientAckThrows
  <1>11. ASSUME NEW s \in Sockets, UpstreamDrop(s)
         PROVE  TypeOK'
    BY <1>11 DEF UpstreamDrop, Release, ArriveInPart, proxyVars, historyVars
  <1>12. ASSUME NEW s \in Sockets, Reconnect(s) \/ WsOpen(s)
         PROVE  TypeOK'
    BY <1>12 DEF Reconnect, WsOpen, proxyVars, streamVars, historyVars
  <1>13. ASSUME NEW s \in Sockets, StreamDispatch(s)
         PROVE  TypeOK'
    <2>1. s[2] \in Namespaces
      BY DEF Sockets
    <2>2. checkpoint[s[2]] + 1 \in Batches
      BY <1>13, <2>1, BoundsAssumption DEF StreamDispatch, Batches
    <2>3. queue' \in Seq(Task)
      BY <1>13, <2>1, <2>2, AppendProperties DEF StreamDispatch, Task
    <2> QED
      BY <1>13, <2>1, <2>3 DEF StreamDispatch, historyVars
  <1>14. ASSUME NEW r \in replies, StreamReply(r)
         PROVE  TypeOK'
    <2>1. checkpoint' \in [Namespaces -> 0..MaxBatch]
      <3> r.ns \in Namespaces /\ r.batch \in 1..MaxBatch
        BY DEF Reply, Batches
      <3> QED
        BY <1>14 DEF StreamReply, Answers
    <2>2. outstanding' \in [Namespaces -> Sockets \cup {None}]
      BY <1>14 DEF StreamReply
    <2> QED
      BY <1>14, <2>1, <2>2 DEF StreamReply, proxyVars, historyVars
  <1>15. CASE ProcessLost \/ ProcessUnknown
    <2>0. queue # << >> /\ queue' = Tail(queue)
      BY <1>15 DEF ProcessLost, ProcessUnknown, Resolve
    <2>1. Head(queue) \in Task /\ queue' \in Seq(Task)
      BY <2>0, TakeTask
    <2>2. SubsOf[Head(queue).ns] \subseteq Subs
      BY <2>1, SubsAssumption DEF Task
    <2>3. subscriptionNames' \subseteq Subs /\ nextId' \in Nat
      BY <1>15, <2>2 DEF ProcessLost, ProcessUnknown, Resolve
    <2> QED
      BY <1>15, <2>1, <2>3
         DEF ProcessLost, ProcessUnknown, streamVars, historyVars
  <1>16. CASE Crash
    BY <1>16, ProcessExitTypes DEF Crash, historyVars
  <1>17. CASE UNCHANGED vars
    BY <1>17 DEF vars, proxyVars, streamVars, historyVars
  <1> QED
    BY <1>1, <1>2, <1>3, <1>4, <1>5, <1>6, <1>7, <1>8, <1>9, <1>10, <1>11,
       <1>12, <1>13, <1>14, <1>15, <1>16, <1>17 DEF Next

LEMMA InitTypes == Init => TypeOK
  BY BoundsAssumption DEF Init, TypeOK

\* Every variable keeps its type, whatever the clients, the event stream and
\* the upstream connections do.
THEOREM TypeCorrect == Spec => []TypeOK
  BY InitTypes, TypesInductive, PTL DEF Spec

-----------------------------------------------------------------------------
(* Batches are delivered in order and at least once                        *)

\* A step that keeps the checkpoint and what was delivered, at most removes
\* tasks and messages, and puts no ack on its way that a client did not give.
LEMMA FlowFrame ==
  ASSUME TypeOK, AtLeastOnce, BatchFlow,
         UNCHANGED <<checkpoint, delivered>>,
         \A ns \in Namespaces : /\ clientAcked[ns] \subseteq clientAcked'[ns]
                                /\ clientAcked'[ns] \subseteq delivered[ns],
         queue' \in {queue, << >>} \/ (queue # << >> /\ queue' = Tail(queue)),
         \A c \in Clients :
            /\ awaitingAck'[c] \subseteq awaitingAck[c]
            /\ awaitingAck'[c] = {} \/ (clientState'[c] = "connected" => clientState[c] = "connected"),
         \A r \in replies' : r.type = "ack" =>
            (r \in replies \/ r.batch \in clientAcked'[r.ns]),
         replies' \subseteq Reply
  PROVE  AtLeastOnce' /\ BatchFlow'
  <1>1. AtLeastOnce'
    BY DEF AtLeastOnce, TypeOK
  <1>2. \A i \in DOMAIN queue' : \E j \in DOMAIN queue : queue'[i] = queue[j]
    <2>1. CASE queue' = queue
      BY <2>1
    <2>2. CASE queue' = << >>
      BY <2>2
    <2>3. CASE queue # << >> /\ queue' = Tail(queue)
      BY <2>3, TakeTask DEF TypeOK
    <2> QED
      BY <2>1, <2>2, <2>3
  <1>3. \A i \in DOMAIN queue' : queue'[i].batch <= checkpoint'[queue'[i].ns] + 1
    BY <1>2 DEF BatchFlow
  <1>4. \A r \in replies' : r.type = "ack" => r.batch \in clientAcked'[r.ns]
    BY DEF BatchFlow, TypeOK, Reply
  <1>5. \A c \in Clients : \A m \in awaitingAck'[c] :
          /\ m.batch <= checkpoint'[m.ns] + 1
          /\ clientState'[c] = "connected" => m.batch \in delivered'[m.ns]
    BY DEF BatchFlow
  <1> QED
    BY <1>1, <1>3, <1>4, <1>5 DEF BatchFlow

LEMMA FlowInductive ==
  ASSUME TypeOK, AtLeastOnce, BatchFlow, [Next]_vars
  PROVE  AtLeastOnce' /\ BatchFlow'
  <1>0. TypeOK'
    BY TypesInductive
  <1> DEFINE Keeps ==
        /\ UNCHANGED <<checkpoint, delivered>>
        /\ \A ns \in Namespaces : /\ clientAcked[ns] \subseteq clientAcked'[ns]
                                  /\ clientAcked'[ns] \subseteq delivered[ns]
        /\ queue' \in {queue, << >>} \/ (queue # << >> /\ queue' = Tail(queue))
        /\ \A c \in Clients :
             /\ awaitingAck'[c] \subseteq awaitingAck[c]
             /\ awaitingAck'[c] = {} \/ (clientState'[c] = "connected" => clientState[c] = "connected")
        /\ \A r \in replies' : r.type = "ack" =>
             (r \in replies \/ r.batch \in clientAcked'[r.ns])
  <1>a. Keeps => AtLeastOnce' /\ BatchFlow'
    BY <1>0, FlowFrame DEF TypeOK
  <1>b. UNCHANGED <<checkpoint, delivered, clientAcked>> =>
          /\ UNCHANGED <<checkpoint, delivered>>
          /\ \A ns \in Namespaces : /\ clientAcked[ns] \subseteq clientAcked'[ns]
                                    /\ clientAcked'[ns] \subseteq delivered[ns]
    BY DEF BatchFlow
  <1>c. ProcessExit => /\ UNCHANGED checkpoint
                       /\ queue' = << >>
                       /\ \A c \in Clients : awaitingAck'[c] = {}
                       /\ replies' \subseteq replies
    BY DEF ProcessExit, ArriveInPart
  <1>d. ASSUME NEW c \in Clients, NEW m \in awaitingAck[c], Acknowledge(c, m)
        PROVE  /\ \A ns \in Namespaces :
                    /\ clientAcked[ns] \subseteq clientAcked'[ns]
                    /\ clientAcked'[ns] \subseteq delivered[ns]
               /\ m.batch \in clientAcked'[m.ns]
    <2>1. m.ns \in Namespaces /\ m.batch \in delivered[m.ns]
      BY <1>d DEF Acknowledge, BatchFlow, TypeOK, Message
    <2> QED
      BY <1>d, <2>1 DEF Acknowledge, BatchFlow, TypeOK
  <1>1. ASSUME NEW c \in Clients, Connect(c) \/ GoesMute(c)
        PROVE  Keeps
    BY <1>1, <1>b DEF Connect, GoesMute, proxyVars, streamVars, historyVars, TypeOK
  <1>2. ASSUME NEW c \in Clients, ProcessEvents(c)
        PROVE  AtLeastOnce' /\ BatchFlow'
    <2> DEFINE t == Head(queue)
    <2>1. queue # << >> /\ queue' = Tail(queue)
      BY <1>2 DEF ProcessEvents, Resolve
    <2>2. /\ t \in Task
          /\ \E j \in DOMAIN queue : t = queue[j]
          /\ \A i \in DOMAIN queue' : \E j \in DOMAIN queue : queue'[i] = queue[j]
      BY <2>1, TakeTask DEF TypeOK
    <2>3. t.ns \in Namespaces /\ t.batch \in 1..MaxBatch /\ t.batch <= checkpoint[t.ns] + 1
      BY <2>2 DEF BatchFlow, Task, Batches
    <2>4. UNCHANGED <<checkpoint, clientAcked, replies>>
      BY <1>2 DEF ProcessEvents, streamVars
    <2>5. \/ delivered' = [delivered EXCEPT ![t.ns] = @ \cup {t.batch}]
          \/ delivered' = delivered
      BY <1>2 DEF ProcessEvents
    <2>6. \A ns \in Namespaces : /\ delivered[ns] \subseteq delivered'[ns]
                                 /\ delivered'[ns] \subseteq 1..(checkpoint[ns] + 1)
      <3>1. CASE delivered' = delivered
        BY <3>1 DEF BatchFlow
      <3>2. CASE delivered' = [delivered EXCEPT ![t.ns] = @ \cup {t.batch}]
        BY <2>3, <3>2 DEF BatchFlow, TypeOK
      <3> QED
        BY <2>5, <3>1, <3>2
    <2>7. \A d \in Clients : \A m \in awaitingAck'[d] :
            /\ m.batch <= checkpoint'[m.ns] + 1
            /\ clientState'[d] = "connected" => m.batch \in delivered'[m.ns]
      <3> DEFINE new == [id |-> nextId, ns |-> t.ns, batch |-> t.batch]
      <3>1. \A d \in Clients : \A m \in awaitingAck'[d] :
              m \in awaitingAck[d] \/ (d = c /\ m = new)
        BY <1>2 DEF ProcessEvents, TypeOK
      <3>2. clientState[c] = "connected" => t.batch \in delivered'[t.ns]
        BY <1>2, <2>3 DEF ProcessEvents, TypeOK
      <3>3. \A d \in Clients : \A m \in awaitingAck[d] : m.ns \in Namespaces
        BY DEF TypeOK, Message
      <3>4. \A d \in Clients : \A m \in awaitingAck[d] :
              /\ m.batch <= checkpoint[m.ns] + 1
              /\ clientState[d] = "connected" => m.batch \in delivered'[m.ns]
        BY <2>6, <3>3 DEF BatchFlow
      <3>5. new.batch <= checkpoint[new.ns] + 1
              /\ (clientState[c] = "connected" => new.batch \in delivered'[new.ns])
        BY <2>3, <3>2
      <3>6. clientState' = clientState
        BY <1>2 DEF ProcessEvents
      <3> HIDE DEF new, t
      <3> QED
        BY <2>4, <3>1, <3>4, <3>5, <3>6
    <2>8. \A i \in DOMAIN queue' : queue'[i].batch <= checkpoint'[queue'[i].ns] + 1
      BY <2>2, <2>4 DEF BatchFlow
    <2> QED
      BY <2>4, <2>6, <2>7, <2>8 DEF BatchFlow, AtLeastOnce
  <1>3. ASSUME NEW c \in Clients, NEW ns \in Namespaces,
               StartJoins(c, ns) \/ StartConnects(c, ns)
                 \/ ConnectDone(c, ns) \/ ConnectFails(c, ns)
        PROVE  Keeps
    BY <1>3, <1>b DEF StartJoins, StartConnects, ConnectDone, ConnectFails,
                      streamVars, historyVars
  <1>4. ASSUME NEW c \in Clients, NEW ns \in Namespaces, Disconnect(c, ns)
        PROVE  Keeps
    <2>1. \A r \in replies' : r \in replies \/ r.type = "nack"
      BY <1>4 DEF Disconnect, ArriveInPart, NackReplies, ReplyTo
    <2>2. \A d \in Clients : awaitingAck'[d] \subseteq awaitingAck[d]
      BY <1>4 DEF Disconnect, TypeOK
    <2>3. \A d \in Clients : clientState'[d] = "connected" => clientState[d] = "connected"
      BY <1>4 DEF Disconnect, TypeOK
    <2> QED
      BY <1>4, <1>b, <2>1, <2>2, <2>3 DEF Disconnect, historyVars
  <1>5. ASSUME NEW c \in Clients, NEW ns \in Namespaces, DisconnectThrows(c, ns)
        PROVE  Keeps
    BY <1>5, <1>b, <1>c DEF DisconnectThrows, historyVars
  <1>6. ASSUME NEW c \in Clients, NEW m \in awaitingAck[c], ClientAck(c, m)
        PROVE  Keeps
    <2>1. \A r \in replies' : r \in replies \/ (r.batch = m.batch /\ r.ns = m.ns)
      BY <1>6 DEF ClientAck, ReplyTo
    <2> QED
      BY <1>6, <1>d, <2>1 DEF ClientAck, Rest, TypeOK
  <1>7. ASSUME NEW c \in Clients, NEW m \in awaitingAck[c], ClientAckThrows(c, m)
        PROVE  Keeps
    BY <1>7, <1>c, <1>d DEF ClientAckThrows
  <1>8. ASSUME NEW s \in Sockets, UpstreamDrop(s)
        PROVE  Keeps
    BY <1>8, <1>b DEF UpstreamDrop, ArriveInPart, proxyVars, historyVars
  <1>9. ASSUME NEW s \in Sockets, Reconnect(s) \/ WsOpen(s)
        PROVE  Keeps
    BY <1>9, <1>b DEF Reconnect, WsOpen, proxyVars, streamVars, historyVars
  <1>10. ASSUME NEW s \in Sockets, StreamDispatch(s)
         PROVE  AtLeastOnce' /\ BatchFlow'
    <2> DEFINE t == [ns |-> s[2], batch |-> checkpoint[s[2]] + 1]
    <2>1. UNCHANGED <<clientState, checkpoint, delivered, clientAcked, awaitingAck, replies>>
      BY <1>10 DEF StreamDispatch, historyVars
    <2>2. queue' = Append(queue, t)
      BY <1>10 DEF StreamDispatch
    <2>3. /\ DOMAIN queue' = 1..(Len(queue) + 1)
          /\ \A i \in 1..Len(queue) : queue'[i] = queue[i]
          /\ queue'[Len(queue) + 1] = t
          /\ DOMAIN queue = 1..Len(queue) /\ Len(queue) \in Nat
      BY <2>2 DEF TypeOK
    <2>4. t.batch = checkpoint[t.ns] + 1 /\ checkpoint[t.ns] \in Nat
      BY DEF TypeOK, Sockets
    <2>5. \A i \in DOMAIN queue' : queue'[i].batch <= checkpoint'[queue'[i].ns] + 1
      BY <2>1, <2>3, <2>4 DEF BatchFlow
    <2> QED
      BY <2>1, <2>5 DEF BatchFlow, AtLeastOnce
  <1>11. ASSUME NEW r \in replies, StreamReply(r)
         PROVE  AtLeastOnce' /\ BatchFlow'
    <2>1. UNCHANGED <<clientState, queue, awaitingAck, delivered, clientAcked>>
      BY <1>11 DEF StreamReply, proxyVars, historyVars
    <2>2. replies' \subseteq replies
      BY <1>11 DEF StreamReply
    <2>3. CASE UNCHANGED checkpoint
      BY <2>1, <2>2, <2>3 DEF BatchFlow, AtLeastOnce
    <2>4. CASE Answers(r) /\ r.type = "ack"
      <3>1. /\ r.ns \in Namespaces
            /\ checkpoint' = [checkpoint EXCEPT ![r.ns] = @ + 1]
            /\ checkpoint[r.ns] + 1 \in clientAcked[r.ns]
        BY <1>11, <2>4 DEF StreamReply, Answers, BatchFlow, TypeOK, Reply
      <3>2. \A ns \in Namespaces :
              /\ checkpoint[ns] \in Nat
              /\ checkpoint'[ns] \in Nat
              /\ checkpoint[ns] <= checkpoint'[ns]
              /\ 1..checkpoint'[ns] \subseteq clientAcked[ns]
        BY <3>1 DEF AtLeastOnce, TypeOK
      <3>3. \A ns \in Namespaces : delivered[ns] \subseteq 1..(checkpoint'[ns] + 1)
        BY <3>2 DEF BatchFlow
      <3>4. \A i \in DOMAIN queue : queue[i] \in Task
        BY DEF TypeOK
      <3>5. \A i \in DOMAIN queue : queue[i].batch <= checkpoint'[queue[i].ns] + 1
        BY <3>2, <3>4 DEF BatchFlow, Task, Batches
      <3>6. \A c \in Clients : \A m \in awaitingAck[c] : m \in Message
        BY DEF TypeOK
      <3>7. \A c \in Clients : \A m \in awaitingAck[c] : m.batch <= checkpoint'[m.ns] + 1
        BY <3>2, <3>6 DEF BatchFlow, Message, Batches
      <3> QED
        BY <2>1, <2>2, <3>2, <3>3, <3>5, <3>7 DEF BatchFlow, AtLeastOnce
    <2> QED
      BY <1>11, <2>3, <2>4 DEF StreamReply
  <1>12. CASE ProcessLost \/ ProcessUnknown
    BY <1>12, <1>a, <1>b DEF ProcessLost, ProcessUnknown, Resolve, streamVars, historyVars
  <1>13. CASE Crash
    BY <1>13, <1>a, <1>b, <1>c DEF Crash, historyVars
  <1>14. CASE UNCHANGED vars
    BY <1>14, <1>a, <1>b DEF vars, proxyVars, streamVars, historyVars
  <1> HIDE DEF Keeps
  <1> QED
    BY <1>a, <1>1, <1>2, <1>3, <1>4, <1>5, <1>6, <1>7, <1>8, <1>9, <1>10, <1>11,
       <1>12, <1>13, <1>14 DEF Next

\* Nothing the event stream considers done was left unacknowledged by the
\* clients, and no task, message or ack runs ahead of the checkpoint.
THEOREM BatchesFlow == Spec => [](AtLeastOnce /\ BatchFlow)
  <1>1. Init => AtLeastOnce /\ BatchFlow
    BY DEF Init, AtLeastOnce, BatchFlow
  <1> QED
    BY <1>1, TypeCorrect, FlowInductive, PTL DEF Spec

\* The event stream never skips a batch: everything up to the checkpoint was
\* acknowledged by a client (handleAck, handleDisconnect, restarts).
THEOREM NothingSkipped == Spec => []AtLeastOnce
  BY BatchesFlow, PTL

\* No client is sent a batch before all earlier ones were acknowledged.
THEOREM DeliveredInOrder == Spec => []InOrder
  <1>1. TypeOK /\ AtLeastOnce /\ BatchFlow => InOrder
    <2> SUFFICES ASSUME TypeOK, AtLeastOnce, BatchFlow,
                        NEW ns \in Namespaces, NEW b \in delivered[ns],
                        NEW a \in 1..(b - 1)
                 PROVE  a \in clientAcked[ns]
      BY DEF InOrder
    <2>1. checkpoint[ns] \in Nat /\ b \in 1..(checkpoint[ns] + 1)
      BY DEF TypeOK, BatchFlow
    <2>2. a \in 1..checkpoint[ns]
      BY <2>1
    <2> QED
      BY <2>2 DEF AtLeastOnce
  <1> QED
    BY <1>1, TypeCorrect, BatchesFlow, PTL

-----------------------------------------------------------------------------
(* Sockets, namespaces and the clients messages are awaited from           *)

LEMMA RoutingInductive ==
  ASSUME TypeOK, SocketPerNamespace, AwaitedByMember, [Next]_vars
  PROVE  SocketPerNamespace' /\ AwaitedByMember'
  <1>0. TypeOK'
    BY TypesInductive
  <1> USE DEF TypeOK
  <1>a. UNCHANGED <<clientState, namespaceClients, namespaceEventStreamSocket, wsState>>
        /\ (\A c \in Clients : awaitingAck'[c] \subseteq awaitingAck[c])
        => SocketPerNamespace' /\ AwaitedByMember'
    BY DEF SocketPerNamespace, AwaitedByMember
  <1>b. ProcessExit => SocketPerNamespace' /\ AwaitedByMember'
    BY NoneAssumption DEF ProcessExit, SocketPerNamespace, AwaitedByMember
  <1>1. ASSUME NEW c \in Clients, Connect(c) \/ GoesMute(c)
        PROVE  SocketPerNamespace' /\ AwaitedByMember'
    BY <1>1 DEF Connect, GoesMute, proxyVars, SocketPerNamespace, AwaitedByMember
  <1>2. ASSUME NEW c \in Clients, ProcessEvents(c)
        PROVE  SocketPerNamespace' /\ AwaitedByMember'
    <2>1. SocketPerNamespace'
      BY <1>2 DEF ProcessEvents, SocketPerNamespace
    <2>2. AwaitedByMember'
      BY <1>2 DEF ProcessEvents, Selectable, AwaitedByMember
    <2> QED
      BY <2>1, <2>2
  <1>3. ASSUME NEW c \in Clients, NEW ns \in Namespaces, StartJoins(c, ns)
        PROVE  SocketPerNamespace' /\ AwaitedByMember'
    <2>1. SocketPerNamespace'
      BY <1>3 DEF StartJoins, Join, SocketPerNamespace
    <2>2. AwaitedByMember'
      <3>1. /\ UNCHANGED <<clientState, awaitingAck, wsState>>
            /\ clientState[c] = "connected"
            /\ \A d \in Clients, n \in Namespaces :
                 d \in namespaceClients'[n] <=> d \in namespaceClients[n] \/ (d = c /\ n = ns)
        BY <1>3 DEF StartJoins, MayStart, Join
      <3>2. \A d \in Clients : \A m \in awaitingAck[d] : m.ns \in Namespaces
        BY DEF Message
      <3> QED
        BY <3>1, <3>2 DEF AwaitedByMember
    <2> QED
      BY <2>1, <2>2
  <1>4. ASSUME NEW c \in Clients, NEW ns \in Namespaces, ConnectDone(c, ns)
        PROVE  SocketPerNamespace' /\ AwaitedByMember'
    <2>1. <<c, ns>> \in Sockets /\ <<c, ns>> # None
      BY NoneAssumption DEF Sockets
    <2>2. SocketPerNamespace'
      <3> SUFFICES ASSUME NEW n \in Namespaces
                   PROVE  LET s == namespaceEventStreamSocket'[n] IN
                          /\ namespaceClients'[n] # {} <=> s # None
                          /\ s # None => s[2] = n /\ wsState'[s] \notin {"none", "closed"}
        BY DEF SocketPerNamespace
      <3>1. CASE n = ns
        BY <1>4, <2>1, <3>1 DEF ConnectDone, Join
      <3>2. CASE n # ns
        BY <1>4, <2>1, <3>2 DEF ConnectDone, Join, SocketPerNamespace
      <3> QED
        BY <3>1, <3>2
    <2>3. AwaitedByMember'
      <3>1. /\ UNCHANGED <<clientState, awaitingAck>>
            /\ wsState'[<<c, ns>>] # "none"
            /\ \A s \in Sockets : wsState[s] # "none" => wsState'[s] # "none"
            /\ \A d \in Clients, n \in Namespaces :
                 d \in namespaceClients'[n] <=> d \in namespaceClients[n] \/ (d = c /\ n = ns)
        BY <1>4, <2>1 DEF ConnectDone, Join
      <3>2. \A d \in Clients : \A m \in awaitingAck[d] : m.ns \in Namespaces
        BY DEF Message
      <3>3. \A d \in Clients, n \in Namespaces : <<d, n>> \in Sockets
        BY DEF Sockets
      <3> QED
        BY <3>1, <3>2, <3>3 DEF AwaitedByMember
    <2> QED
      BY <2>2, <2>3
  <1>5. ASSUME NEW c \in Clients, NEW ns \in Namespaces,
               StartConnects(c, ns) \/ ConnectFails(c, ns)
        PROVE  SocketPerNamespace' /\ AwaitedByMember'
    BY <1>5, <1>a DEF StartConnects, ConnectFails
  <1>6. ASSUME NEW c \in Clients, NEW ns \in Namespaces, Disconnect(c, ns)
        PROVE  SocketPerNamespace' /\ AwaitedByMember'
    <2> DEFINE ended == {namespaceEventStreamSocket[n] : n \in Emptied(c)}
    <2>1. wsState' = [s \in Sockets |->
             IF s \in ended /\ wsState[s] # "backoff" THEN "closed" ELSE wsState[s]]
      BY <1>6 DEF Disconnect, CloseSockets
    <2>2. SocketPerNamespace'
      <3> SUFFICES ASSUME NEW n \in Namespaces
                   PROVE  LET s == namespaceEventStreamSocket'[n] IN
                          /\ namespaceClients'[n] # {} <=> s # None
                          /\ s # None => s[2] = n /\ wsState'[s] \notin {"none", "closed"}
        BY DEF SocketPerNamespace
      <3>1. namespaceClients'[n] = namespaceClients[n] \ {c}
        BY <1>6 DEF Disconnect
      <3>2. namespaceEventStreamSocket'[n] =
              IF n \in Emptied(c) THEN None ELSE namespaceEventStreamSocket[n]
        BY <1>6 DEF Disconnect
      <3>3. CASE n \in Emptied(c)
        BY <3>1, <3>2, <3>3 DEF Emptied
      <3>4. CASE n \notin Emptied(c)
        <4>1. namespaceClients'[n] # {} <=> namespaceClients[n] # {}
          BY <3>1, <3>4 DEF Emptied
        <4>2. ASSUME namespaceEventStreamSocket[n] # None
              PROVE  namespaceEventStreamSocket[n] \notin ended
          <5>1. namespaceEventStreamSocket[n][2] = n
            BY <4>2 DEF SocketPerNamespace
          <5>2. \A k \in Emptied(c) : namespaceEventStreamSocket[k] # None
            BY DEF Emptied, SocketPerNamespace
          <5>3. \A k \in Emptied(c) : namespaceEventStreamSocket[k][2] = k
            BY <5>2 DEF Emptied, SocketPerNamespace
          <5> QED
            BY <5>1, <5>3, <3>4
        <4>3. ASSUME namespaceEventStreamSocket[n] # None
              PROVE  wsState'[namespaceEventStreamSocket[n]]
                       = wsState[namespaceEventStreamSocket[n]]
          BY <2>1, <4>2, <4>3
        <4> QED
          BY <3>2, <3>4, <4>1, <4>3 DEF SocketPerNamespace
      <3> QED
        BY <3>3, <3>4
    <2>3. AwaitedByMember'
      <3>1. /\ \A d \in Clients, n \in Namespaces :
                 d \in namespaceClients'[n] <=> d \in namespaceClients[n] /\ d # c
            /\ \A d \in Clients : d # c => clientState'[d] = clientState[d]
            /\ \A d \in Clients : d # c => awaitingAck'[d] = awaitingAck[d]
        BY <1>6 DEF Disconnect
      <3>2. \A d \in Clients : \A m \in awaitingAck[d] : m.ns \in Namespaces
        BY DEF Message
      <3>3. \A s \in Sockets : wsState[s] # "none" => wsState'[s] # "none"
        BY <2>1
      <3>4. \A d \in Clients, n \in Namespaces : <<d, n>> \in Sockets
        BY DEF Sockets
      <3>5. awaitingAck'[c] = {}
        <4>1. CASE Running = {}
          <5>1. awaitingAck[c] = {}
            BY <3>2, <4>1 DEF Running, AwaitedByMember
          <5> QED
            BY <1>6, <4>1, <5>1 DEF Disconnect
        <4>2. CASE Running # {}
          BY <1>6, <4>2 DEF Disconnect
        <4> QED
          BY <4>1, <4>2
      <3> QED
        BY <3>1, <3>2, <3>3, <3>4, <3>5 DEF AwaitedByMember
    <2> QED
      BY <2>2, <2>3
  <1>7. ASSUME NEW c \in Clients, NEW ns \in Namespaces, DisconnectThrows(c, ns)
        PROVE  SocketPerNamespace' /\ AwaitedByMember'
    BY <1>7, <1>b DEF DisconnectThrows
  <1>8. ASSUME NEW c \in Clients, NEW m \in awaitingAck[c],
               ClientAck(c, m) \/ ClientAckThrows(c, m)
        PROVE  SocketPerNamespace' /\ AwaitedByMember'
    <2>1. CASE ClientAck(c, m)
      <3>1. \A d \in Clients : awaitingAck'[d] \subseteq awaitingAck[d]
        BY <2>1 DEF ClientAck, Rest
      <3> QED
        BY <2>1, <3>1, <1>a DEF ClientAck
    <2>2. CASE ClientAckThrows(c, m)
      BY <2>2, <1>b DEF ClientAckThrows
    <2> QED
      BY <1>8, <2>1, <2>2
  <1>9. ASSUME NEW s \in Sockets, UpstreamDrop(s) \/ Reconnect(s) \/ WsOpen(s)
        PROVE  SocketPerNamespace' /\ AwaitedByMember'
    <2>1. UNCHANGED <<clientState, awaitingAck, namespaceClients,
                      namespaceEventStreamSocket>>
      BY <1>9 DEF UpstreamDrop, Reconnect, WsOpen, proxyVars
    <2>2. \A z \in Sockets : wsState'[z] = wsState[z]
                             \/ wsState'[z] \in {"backoff", "connecting", "open"}
      BY <1>9 DEF UpstreamDrop, Reconnect, WsOpen
    <2>3. SocketPerNamespace'
      <3> SUFFICES ASSUME NEW n \in Namespaces
                   PROVE  LET z == namespaceEventStreamSocket'[n] IN
                          /\ namespaceClients'[n] # {} <=> z # None
                          /\ z # None => z[2] = n /\ wsState'[z] \notin {"none", "closed"}
        BY DEF SocketPerNamespace
      <3> DEFINE z == namespaceEventStreamSocket[n]
      <3>0. z # None => z \in Sockets /\ wsState[z] \notin {"none", "closed"}
        BY DEF SocketPerNamespace
      <3> HIDE DEF z
      <3>1. z # None => wsState'[z] \notin {"none", "closed"}
        BY <2>2, <3>0
      <3> USE DEF z
      <3> QED
        BY <2>1, <3>1 DEF SocketPerNamespace
    <2>4. AwaitedByMember'
      <3>1. \A d \in Clients, n \in Namespaces : <<d, n>> \in Sockets
        BY DEF Sockets
      <3> QED
        BY <2>1, <2>2, <3>1 DEF AwaitedByMember
    <2> QED
      BY <2>3, <2>4
  <1>10. ASSUME NEW s \in Sockets, StreamDispatch(s)
         PROVE  SocketPerNamespace' /\ AwaitedByMember'
    BY <1>10, <1>a DEF StreamDispatch
  <1>11. ASSUME NEW r \in replies, StreamReply(r)
         PROVE  SocketPerNamespace' /\ AwaitedByMember'
    BY <1>11, <1>a DEF StreamReply, proxyVars
  <1>12. CASE ProcessLost \/ ProcessUnknown
    BY <1>12, <1>a DEF ProcessLost, ProcessUnknown
  <1>13. CASE Crash
    BY <1>13, <1>b DEF Crash
  <1>14. CASE UNCHANGED vars
    BY <1>14, <1>a DEF vars, proxyVars
  <1> QED
    BY <1>1, <1>2, <1>3, <1>4, <1>5, <1>6, <1>7, <1>8, <1>9, <1>10, <1>11,
       <1>12, <1>13, <1>14 DEF Next

THEOREM Routing == Spec => [](SocketPerNamespace /\ AwaitedByMember)
  <1>1. Init => SocketPerNamespace /\ AwaitedByMember
    BY DEF Init, SocketPerNamespace, AwaitedByMember
  <1> QED
    BY <1>1, TypeCorrect, RoutingInductive, PTL DEF Spec

\* A namespace with clients always has its own, live socket to ack and nack
\* on (startListening, handleDisconnect keep the two Maps together).
THEOREM SocketForClients == Spec => []SocketPerNamespace
  BY Routing, PTL

\* A message is awaited only from a client that is in its namespace, and a
\* client that left is in a namespace only if it opened its connection: the
\* start that connect() suspended outlived it.
THEOREM AwaitedFromMembers == Spec => []AwaitedByMember
  BY Routing, PTL

-----------------------------------------------------------------------------
(* One client per message                                                  *)

LEMMA HolderInductive ==
  ASSUME TypeOK, IdsFresh, OneHolder, [Next]_vars
  PROVE  IdsFresh' /\ OneHolder'
  <1> USE DEF TypeOK
  <1>a. UNCHANGED nextId /\ (\A c \in Clients : awaitingAck'[c] \subseteq awaitingAck[c])
        => IdsFresh' /\ OneHolder'
    BY DEF IdsFresh, OneHolder
  <1>b. ProcessExit => UNCHANGED nextId /\ \A c \in Clients : awaitingAck'[c] = {}
    BY DEF ProcessExit
  <1>1. ASSUME NEW c \in Clients, ProcessEvents(c)
        PROVE  IdsFresh' /\ OneHolder'
    <2> DEFINE new == [id |-> nextId, ns |-> Head(queue).ns, batch |-> Head(queue).batch]
    <2>1. /\ nextId' = nextId + 1
          /\ \/ awaitingAck' = [awaitingAck EXCEPT ![c] = @ \cup {new}]
             \/ awaitingAck' = awaitingAck
      BY <1>1 DEF ProcessEvents, Resolve
    <2>2. \A d \in Clients : \A m \in awaitingAck'[d] :
            (m \in awaitingAck[d] /\ m.id \in Nat /\ m.id < nextId)
              \/ (d = c /\ m = new /\ m.id = nextId)
      BY <2>1 DEF IdsFresh, Message
    <2>3. IdsFresh'
      BY <2>1, <2>2 DEF IdsFresh
    <2>4. OneHolder'
      <3> SUFFICES ASSUME NEW d \in Clients, NEW e \in Clients,
                          NEW m \in awaitingAck'[d], NEW o \in awaitingAck'[e],
                          m.id = o.id
                   PROVE  d = e /\ m = o
        BY DEF OneHolder
      <3>1. CASE m \in awaitingAck[d] /\ o \in awaitingAck[e]
        BY <3>1 DEF OneHolder
      <3>2. CASE ~(m \in awaitingAck[d] /\ o \in awaitingAck[e])
        <4>1. m.id = nextId \/ o.id = nextId
          BY <2>2, <3>2
        <4>2. ~(m.id < nextId) /\ ~(o.id < nextId)
          BY <4>1
        <4> QED
          BY <2>2, <4>2
      <3> QED
        BY <3>1, <3>2
    <2> QED
      BY <2>3, <2>4
  <1>2. ASSUME NEW c \in Clients,
               \/ Connect(c) \/ GoesMute(c)
               \/ \E ns \in Namespaces :
                    \/ StartJoins(c, ns) \/ StartConnects(c, ns)
                    \/ ConnectDone(c, ns) \/ ConnectFails(c, ns)
                    \/ Disconnect(c, ns) \/ DisconnectThrows(c, ns)
        PROVE  IdsFresh' /\ OneHolder'
    BY <1>2, <1>a, <1>b DEF Connect, GoesMute, proxyVars, StartJoins,
         StartConnects, ConnectDone, ConnectFails, Disconnect, DisconnectThrows
  <1>3. ASSUME NEW c \in Clients, NEW m \in awaitingAck[c],
               ClientAck(c, m) \/ ClientAckThrows(c, m)
        PROVE  IdsFresh' /\ OneHolder'
    <2>1. CASE ClientAck(c, m)
      BY <2>1, <1>a DEF ClientAck, Rest
    <2>2. CASE ClientAckThrows(c, m)
      BY <2>2, <1>a, <1>b DEF ClientAckThrows
    <2> QED
      BY <1>3, <2>1, <2>2
  <1>4. ASSUME NEW s \in Sockets,
               UpstreamDrop(s) \/ Reconnect(s) \/ WsOpen(s) \/ StreamDispatch(s)
        PROVE  IdsFresh' /\ OneHolder'
    BY <1>4, <1>a DEF UpstreamDrop, Reconnect, WsOpen, StreamDispatch, proxyVars
  <1>5. ASSUME NEW r \in replies, StreamReply(r)
        PROVE  IdsFresh' /\ OneHolder'
    BY <1>5, <1>a DEF StreamReply, proxyVars
  <1>6. CASE ProcessLost \/ ProcessUnknown
    <2>1. UNCHANGED awaitingAck /\ nextId' \in {nextId, nextId + 1}
      BY <1>6 DEF ProcessLost, ProcessUnknown, Resolve
    <2>2. \A c \in Clients : \A m \in awaitingAck[c] : m.id \in Nat
      BY DEF Message
    <2> QED
      BY <2>1, <2>2 DEF IdsFresh, OneHolder
  <1>7. CASE Crash \/ UNCHANGED vars
    BY <1>7, <1>a, <1>b DEF Crash, vars, proxyVars
  <1> QED
    BY <1>1, <1>2, <1>3, <1>4, <1>5, <1>6, <1>7 DEF Next

THEOREM Holders == Spec => [](IdsFresh /\ OneHolder)
  <1>1. Init => IdsFresh /\ OneHolder
    BY DEF Init, IdsFresh, OneHolder
  <1> QED
    BY <1>1, TypeCorrect, HolderInductive, PTL DEF Spec

\* The inductive invariant of the gateway and the event stream, whole.
THEOREM Invariance == Spec => []IInv
  <1>1. TypeOK /\ AtLeastOnce /\ BatchFlow /\ SocketPerNamespace /\ AwaitedByMember
          /\ IdsFresh /\ OneHolder => IInv
    BY DEF IInv
  <1> QED
    BY <1>1, TypeCorrect, BatchesFlow, Routing, Holders, PTL

-----------------------------------------------------------------------------
(* The proxy implements BatchDelivery                                      *)

LEMMA StepsRefine ==
  ASSUME TypeOK, BatchFlow, [Next]_vars
  PROVE  [Delivery!Next]_(Delivery!vars)
  <1> USE DEF TypeOK
  <1>a. UNCHANGED <<checkpoint, delivered, clientAcked>> => UNCHANGED Delivery!vars
    BY DEF Delivery!vars
  <1>b. ProcessExit => UNCHANGED checkpoint
    BY DEF ProcessExit
  <1>1. ASSUME NEW c \in Clients, ProcessEvents(c)
        PROVE  Delivery!Next \/ UNCHANGED Delivery!vars
    <2> DEFINE t == Head(queue)
    <2>1. queue # << >>
      BY <1>1 DEF ProcessEvents, Resolve
    <2>2. t \in Task /\ t.batch <= checkpoint[t.ns] + 1
      BY <2>1, TakeTask DEF BatchFlow
    <2>3. Delivery!Deliver(t.ns, t.batch) \/ UNCHANGED Delivery!vars
      BY <1>1, <1>a, <2>2 DEF ProcessEvents, streamVars, Delivery!Deliver
    <2>4. t.ns \in Namespaces /\ t.batch \in Delivery!Batches
      BY <2>2 DEF Task, Batches, Delivery!Batches
    <2> HIDE DEF t
    <2> QED
      BY <2>3, <2>4 DEF Delivery!Next
  <1>2. ASSUME NEW c \in Clients, NEW m \in awaitingAck[c],
               ClientAck(c, m) \/ ClientAckThrows(c, m)
        PROVE  Delivery!Next
    <2>1. m.ns \in Namespaces /\ m.batch \in Delivery!Batches
      BY DEF Message, Batches, Delivery!Batches
    <2>2. m.batch \in delivered[m.ns]
      BY <1>2 DEF BatchFlow, ClientAck, ClientAckThrows, Acknowledge
    <2>3. /\ clientAcked' = [clientAcked EXCEPT ![m.ns] = @ \cup {m.batch}]
          /\ UNCHANGED <<checkpoint, delivered>>
      BY <1>2, <1>b DEF ClientAck, ClientAckThrows, Acknowledge
    <2>4. Delivery!Confirm(m.ns, m.batch)
      BY <2>2, <2>3 DEF Delivery!Confirm
    <2> QED
      BY <2>1, <2>4 DEF Delivery!Next
  <1>3. ASSUME NEW r \in replies, StreamReply(r)
        PROVE  Delivery!Next \/ UNCHANGED Delivery!vars
    <2>1. UNCHANGED <<delivered, clientAcked>>
      BY <1>3 DEF StreamReply, historyVars
    <2>2. CASE Answers(r) /\ r.type = "ack"
      <3>1. r.ns \in Namespaces
        BY DEF Reply
      <3>2. checkpoint[r.ns] + 1 \in clientAcked[r.ns]
        BY <2>2 DEF Answers, BatchFlow
      <3>3. checkpoint' = [checkpoint EXCEPT ![r.ns] = @ + 1]
        BY <1>3, <2>2 DEF StreamReply
      <3> QED
        BY <2>1, <3>1, <3>2, <3>3 DEF Delivery!Next, Delivery!Advance
    <2>3. CASE ~(Answers(r) /\ r.type = "ack")
      BY <1>3, <1>a, <2>1, <2>3 DEF StreamReply
    <2> QED
      BY <2>2, <2>3
  <1>4. ASSUME NEW c \in Clients,
               \/ Connect(c) \/ GoesMute(c)
               \/ \E ns \in Namespaces :
                    \/ StartJoins(c, ns) \/ StartConnects(c, ns)
                    \/ ConnectDone(c, ns) \/ ConnectFails(c, ns)
                    \/ Disconnect(c, ns) \/ DisconnectThrows(c, ns)
        PROVE  UNCHANGED Delivery!vars
    BY <1>4, <1>a, <1>b DEF Connect, GoesMute, StartJoins, StartConnects, ConnectDone,
         ConnectFails, Disconnect, DisconnectThrows, streamVars, historyVars
  <1>5. ASSUME NEW s \in Sockets,
               UpstreamDrop(s) \/ Reconnect(s) \/ WsOpen(s) \/ StreamDispatch(s)
        PROVE  UNCHANGED Delivery!vars
    BY <1>5, <1>a DEF UpstreamDrop, Reconnect, WsOpen, StreamDispatch,
                      streamVars, historyVars
  <1>6. CASE ProcessLost \/ ProcessUnknown \/ Crash \/ UNCHANGED vars
    BY <1>6, <1>a, <1>b DEF ProcessLost, ProcessUnknown, Crash, vars,
                            streamVars, historyVars
  <1> QED
    BY <1>1, <1>2, <1>3, <1>4, <1>5, <1>6 DEF Next

\* The gateway and the event stream together deliver batches as BatchDelivery
\* promises: in order, at least once, completed only by a client's ack.
THEOREM Refinement == Spec => DeliversBatches
  <1>1. Init => Delivery!Init
    BY DEF Init, Delivery!Init
  <1> QED
    BY <1>1, StepsRefine, TypeCorrect, BatchesFlow, PTL
       DEF Spec, DeliversBatches, Delivery!Spec

=============================================================================
