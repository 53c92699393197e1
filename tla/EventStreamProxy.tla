--------------------------- MODULE EventStreamProxy ---------------------------
(***************************************************************************)
(* The websocket gateway that proxies event streams of the blockchain      *)
(* connector (EVMConnect) to FireFly clients: EventStreamProxyBase in      *)
(* src/eventstream-proxy/eventstream-proxy.base.ts, with the upstream      *)
(* socket it drives (EventStreamSocket) reduced to its connection state.   *)
(*                                                                         *)
(* One Node.js process runs one handler at a time, so each action is a     *)
(* handler up to its next await.  An upstream socket is named by the pair  *)
(* <<client, namespace>> of the 'start' command that opened it.  A client  *)
(* stands for one websocket connection: the process gives every connection *)
(* a new id, so a client that reconnects is another member of Clients.     *)
(***************************************************************************)
EXTENDS Naturals, Sequences, FiniteSets

CONSTANTS Clients,     \* websocket connections of FireFly clients
          Namespaces,  \* FireFly namespaces
          Subs,        \* subscription ids that events carry
          SubsOf,      \* SubsOf[ns]: the subscriptions of a namespace's stream
          MaxBatch,    \* bound: batches per stream
          MaxDrops,    \* bound: upstream connections lost in a behaviour
          Hazards,      \* which of HazardKinds a behaviour may contain
          None         \* no socket

HazardKinds ==
  { "manyNamespaces", \* one client starts several namespaces
    "crash",         \* the process is killed and restarted
    "lookup",        \* GET /subscriptions/:id fails or answers 404
    "startOverlap",  \* 'start' while another start of the namespace connects
    "leaveStarting", \* a client disconnects while its start connects
    "leaveBackoff",  \* the last client of a namespace disconnects while the
                     \* namespace's socket waits for its reconnect timer
    "ackReorder",    \* a client acknowledges messages out of order
    "mute" }         \* a client's connection dies without being closed

Sockets == Clients \X Namespaces

ASSUME BoundsAssumption == MaxBatch \in Nat /\ MaxDrops \in Nat
ASSUME HazardsAssumption == Hazards \subseteq HazardKinds
ASSUME NoneAssumption == None \notin Sockets
ASSUME SubsAssumption == SubsOf \in [Namespaces -> SUBSET Subs]

VARIABLES
  clientState,        \* has the client connected, has it left
  mute,               \* connected clients nothing arrives from any more
  awaitingAck,        \* messages sent to a client, not yet acknowledged
  tracked,            \* clients with an entry in the Map awaitingAck
  starting,           \* starts suspended in 'await connect(...)'
  namespaceClients,   \* clients of a namespace; {} is an absent Map key
  namespaceEventStreamSocket, \* socket of a namespace; None is an absent key
  wsState,            \* state of each upstream socket ever created
  queue,              \* tasks chained on this.queue, the running one first
  subscriptionNames,  \* cache of resolved subscription ids
  nextId,             \* source of message ids (uuidv4)
  replies,            \* ack / nack on their way to the event stream
  outstanding,        \* the socket an unanswered batch was sent on, or None
  checkpoint,         \* batches the event stream has completed
  drops,              \* counts lost upstream connections, for MaxDrops
  delivered,          \* history: batches a connected client was sent
  clientAcked         \* history: batches a client acknowledged

proxyVars == <<awaitingAck, tracked, starting, namespaceClients,
               namespaceEventStreamSocket, queue, subscriptionNames, nextId>>
streamVars == <<replies, outstanding, checkpoint>>
historyVars == <<delivered, clientAcked>>
vars == <<clientState, mute, proxyVars, wsState, streamVars, drops, historyVars>>

Batches == 1..MaxBatch
Task == [ns : Namespaces, batch : Batches]
Message == [id : Nat, ns : Namespaces, batch : Batches]
Reply == [type : {"ack", "nack"}, ns : Namespaces, batch : Batches]

TypeOK ==
  /\ clientState \in [Clients -> {"absent", "connected", "gone"}]
  /\ mute \subseteq {c \in Clients : clientState[c] = "connected"}
  /\ awaitingAck \in [Clients -> SUBSET Message]
  /\ {c \in Clients : clientState[c] = "connected"} \subseteq tracked
  /\ tracked \subseteq Clients
  /\ starting \subseteq Sockets
  /\ namespaceClients \in [Namespaces -> SUBSET Clients]
  /\ namespaceEventStreamSocket \in [Namespaces -> Sockets \cup {None}]
  /\ wsState \in [Sockets -> {"none", "connecting", "open", "backoff", "closed"}]
  /\ queue \in Seq(Task)
  /\ subscriptionNames \subseteq Subs
  /\ nextId \in Nat
  /\ replies \subseteq Reply
  /\ outstanding \in [Namespaces -> Sockets \cup {None}]
  /\ checkpoint \in [Namespaces -> 0..MaxBatch]
  /\ drops \in Nat
  /\ delivered \in [Namespaces -> SUBSET Batches]
  /\ clientAcked \in [Namespaces -> SUBSET Batches]

Init ==
  /\ clientState = [c \in Clients |-> "absent"]
  /\ mute = {}
  /\ awaitingAck = [c \in Clients |-> {}]
  /\ tracked = {}
  /\ starting = {}
  /\ namespaceClients = [ns \in Namespaces |-> {}]
  /\ namespaceEventStreamSocket = [ns \in Namespaces |-> None]
  /\ wsState = [s \in Sockets |-> "none"]
  /\ queue = << >>
  /\ subscriptionNames = {}
  /\ nextId = 0
  /\ replies = {}
  /\ outstanding = [ns \in Namespaces |-> None]
  /\ checkpoint = [ns \in Namespaces |-> 0]
  /\ drops = 0
  /\ delivered = [ns \in Namespaces |-> {}]
  /\ clientAcked = [ns \in Namespaces |-> {}]

-----------------------------------------------------------------------------
(* Helpers                                                                 *)

ReplyTo(type, m) == [type |-> type, ns |-> m.ns, batch |-> m.batch]

\* Replies written just before a connection of a namespace in ending goes
\* away may or may not reach the event stream.
ArriveInPart(sent, ending) ==
  \E lost \in SUBSET {r \in sent : r.ns \in ending} : replies' = sent \ lost

\* The event stream takes back the batch sent on a connection that ended.
Release(ended) ==
  outstanding' = [ns \in Namespaces |->
                    IF outstanding[ns] \in ended THEN None ELSE outstanding[ns]]

\* Mutant of CloseSockets: the Map entry is deleted, close() is not called.
CloseForgotten(S) == UNCHANGED wsState

\* EventStreamSocket.close(): terminates the websocket.  A socket waiting for
\* its reconnect timer is not stopped: the timer calls init(), which clears
\* closeRequested.
CloseSockets(S) ==
  wsState' = [s \in Sockets |->
                IF s \in S /\ wsState[s] # "backoff" THEN "closed" ELSE wsState[s]]

\* ws.send() on a socket that is still connecting throws.
SendThrows(ns) ==
  /\ namespaceEventStreamSocket[ns] # None
  /\ wsState[namespaceEventStreamSocket[ns]] = "connecting"

\* ws.send() on a socket that is closing or closed drops the data silently.
SendArrives(ns) ==
  /\ namespaceEventStreamSocket[ns] # None
  /\ wsState[namespaceEventStreamSocket[ns]] = "open"

\* The process ends: killed, or on an error no handler catches.  All it kept
\* in memory is lost, its connections end on both sides.
ProcessExit ==
  /\ clientState' = [c \in Clients |->
       IF clientState[c] = "connected" THEN "gone" ELSE clientState[c]]
  /\ mute' = {}
  /\ awaitingAck' = [c \in Clients |-> {}]
  /\ tracked' = {}
  /\ starting' = {}
  /\ namespaceClients' = [ns \in Namespaces |-> {}]
  /\ namespaceEventStreamSocket' = [ns \in Namespaces |-> None]
  /\ wsState' = [s \in Sockets |->
       IF wsState[s] = "none" THEN "none" ELSE "closed"]
  /\ queue' = << >>
  /\ subscriptionNames' = {}
  /\ Release(Sockets)
  /\ ArriveInPart(replies, Namespaces)
  /\ UNCHANGED <<nextId, checkpoint, drops>>

-----------------------------------------------------------------------------
(* Clients come and start namespaces                                       *)

\* handleConnection
Connect(c) ==
  /\ clientState[c] = "absent"
  /\ clientState' = [clientState EXCEPT ![c] = "connected"]
  /\ awaitingAck' = [awaitingAck EXCEPT ![c] = {}]
  /\ tracked' = tracked \cup {c}
  /\ UNCHANGED <<mute, starting, namespaceClients, namespaceEventStreamSocket,
                 queue, subscriptionNames, nextId, wsState, streamVars, drops,
                 historyVars>>

\* The client's machine or network is gone.  Messages sent to it are lost;
\* only the heartbeat (ClientHeartbeat) will notice.
GoesMute(c) ==
  /\ "mute" \in Hazards
  /\ clientState[c] = "connected"
  /\ mute' = mute \cup {c}
  /\ UNCHANGED <<clientState, proxyVars, wsState, streamVars, drops, historyVars>>

\* Mutant of Join: the start is stored in place of the client.
JoinStart(c, ns) ==
  namespaceClients' = [namespaceClients EXCEPT ![ns] = @ \cup {<<c, ns>>}]

\* The end of startListening: the client joins the namespace.
Join(c, ns) == namespaceClients' = [namespaceClients EXCEPT ![ns] = @ \cup {c}]

MayStart(c, ns) ==
  /\ clientState[c] = "connected" /\ c \notin mute
  /\ \/ "manyNamespaces" \in Hazards
     \/ \A other \in Namespaces \ {ns} :
          c \notin namespaceClients[other] /\ <<c, other>> \notin starting

\* startListening when the namespace has a socket: no await, the client joins.
StartJoins(c, ns) ==
  /\ MayStart(c, ns)
  /\ namespaceEventStreamSocket[ns] # None
  /\ Join(c, ns)
  /\ UNCHANGED <<clientState, mute, awaitingAck, tracked, starting,
                 namespaceEventStreamSocket, queue, subscriptionNames, nextId,
                 wsState, streamVars, drops, historyVars>>

\* startListening when it has none: 'await eventStreamService.connect(...)'.
StartConnects(c, ns) ==
  /\ MayStart(c, ns)
  /\ namespaceEventStreamSocket[ns] = None
  /\ <<c, ns>> \notin starting
  /\ wsState[<<c, ns>>] = "none"
  /\ \/ "startOverlap" \in Hazards
     \/ \A d \in Clients : <<d, ns>> \notin starting
  /\ starting' = starting \cup {<<c, ns>>}
  /\ UNCHANGED <<clientState, mute, awaitingAck, tracked, namespaceClients,
                 namespaceEventStreamSocket, queue, subscriptionNames, nextId,
                 wsState, streamVars, drops, historyVars>>

\* startListening resumes with the new socket, whose websocket is connecting.
\* Neither the Map nor the client is looked at again.
ConnectDone(c, ns) ==
  /\ <<c, ns>> \in starting
  /\ starting' = starting \ {<<c, ns>>}
  /\ wsState' = [wsState EXCEPT ![<<c, ns>>] = "connecting"]
  /\ namespaceEventStreamSocket' =
       [namespaceEventStreamSocket EXCEPT ![ns] = <<c, ns>>]
  /\ Join(c, ns)
  /\ UNCHANGED <<clientState, mute, awaitingAck, tracked, queue, subscriptionNames,
                 nextId, streamVars, drops, historyVars>>

\* createOrUpdateStream failed: the start is logged and forgotten.
ConnectFails(c, ns) ==
  /\ <<c, ns>> \in starting
  /\ starting' = starting \ {<<c, ns>>}
  /\ UNCHANGED <<clientState, mute, awaitingAck, tracked, namespaceClients,
                 namespaceEventStreamSocket, queue, subscriptionNames, nextId,
                 wsState, streamVars, drops, historyVars>>

-----------------------------------------------------------------------------
(* Clients leave                                                           *)

Running == {ns \in Namespaces : namespaceClients[ns] # {}}

\* handleDisconnect deletes the client's awaitingAck entry while it visits the
\* first namespace of the Map, so only messages of that one are nacked.  The
\* Map's order is the order in which its namespaces were started: any.
\* With an empty Map no namespace is visited: nothing is nacked (there is no
\* socket, whatever the choice) and the entry stays.
VisitedFirst(ns) == Running # {} => ns \in Running

Inflight(c, ns) == {m \in awaitingAck[c] : m.ns = ns}

\* Mutants of NackReplies: the batch is acked, or nothing is sent.
AckOnLeave(c, ns) ==
  IF SendArrives(ns) THEN {ReplyTo("ack", m) : m \in Inflight(c, ns)} ELSE {}
LeaveSilently(c, ns) == {}

NackReplies(c, ns) ==
  IF SendArrives(ns) THEN {ReplyTo("nack", m) : m \in Inflight(c, ns)} ELSE {}

\* Mutant of Emptied: every namespace of c counts as emptied.
JoinedBy(c) == {ns \in Namespaces : c \in namespaceClients[ns]}

\* Namespaces that are left without a client when c goes.
Emptied(c) == {ns \in Namespaces : namespaceClients[ns] = {c}}

MayLeave(c) ==
  /\ clientState[c] = "connected"
  /\ \/ "leaveStarting" \in Hazards
     \/ \A ns \in Namespaces : <<c, ns>> \notin starting
  /\ \/ "leaveBackoff" \in Hazards
     \/ \A ns \in Emptied(c) : wsState[namespaceEventStreamSocket[ns]] # "backoff"

\* handleDisconnect
Disconnect(c, first) ==
  /\ MayLeave(c)
  /\ VisitedFirst(first)
  /\ ~(Inflight(c, first) # {} /\ SendThrows(first))
  /\ clientState' = [clientState EXCEPT ![c] = "gone"]
  /\ mute' = mute \ {c}
  /\ IF Running = {} THEN UNCHANGED <<awaitingAck, tracked>>
     ELSE /\ awaitingAck' = [awaitingAck EXCEPT ![c] = {}]
          /\ tracked' = tracked \ {c}
  /\ namespaceClients' =
       [ns \in Namespaces |-> namespaceClients[ns] \ {c}]
  /\ namespaceEventStreamSocket' = [ns \in Namespaces |->
       IF ns \in Emptied(c) THEN None ELSE namespaceEventStreamSocket[ns]]
  /\ LET ended == {namespaceEventStreamSocket[ns] : ns \in Emptied(c)}
     IN  CloseSockets(ended) /\ Release(ended)
  /\ ArriveInPart(replies \cup NackReplies(c, first), Emptied(c))
  /\ UNCHANGED <<starting, queue, subscriptionNames, nextId, checkpoint, drops,
                 historyVars>>

\* nack() on a connecting socket throws out of handleDisconnect.
DisconnectThrows(c, first) ==
  /\ MayLeave(c)
  /\ VisitedFirst(first)
  /\ Inflight(c, first) # {} /\ SendThrows(first)
  /\ ProcessExit
  /\ UNCHANGED historyVars

-----------------------------------------------------------------------------
(* The upstream websocket                                                  *)

\* The connection ends, is refused, or is terminated by the ping timeout.
UpstreamDrop(s) ==
  /\ wsState[s] \in {"connecting", "open"}
  /\ drops < MaxDrops
  /\ drops' = drops + 1
  /\ wsState' = [wsState EXCEPT ![s] = "backoff"]
  /\ Release({s})
  /\ ArriveInPart(replies, {s[2]})
  /\ UNCHANGED <<clientState, mute, proxyVars, checkpoint, historyVars>>

\* The reconnect timer calls init(), whoever still needs the socket.
Reconnect(s) ==
  /\ wsState[s] = "backoff"
  /\ wsState' = [wsState EXCEPT ![s] = "connecting"]
  /\ UNCHANGED <<clientState, mute, proxyVars, streamVars, drops, historyVars>>

WsOpen(s) ==
  /\ wsState[s] = "connecting"
  /\ wsState' = [wsState EXCEPT ![s] = "open"]
  /\ UNCHANGED <<clientState, mute, proxyVars, streamVars, drops, historyVars>>

-----------------------------------------------------------------------------
(* Batches                                                                 *)

\* The event stream sends the next batch on a listening connection, and the
\* socket's handler queues the task that proxies it.
StreamDispatch(s) ==
  LET ns == s[2] IN
  /\ wsState[s] = "open"
  /\ outstanding[ns] = None
  /\ checkpoint[ns] < MaxBatch
  /\ outstanding' = [outstanding EXCEPT ![ns] = s]
  /\ queue' = Append(queue, [ns |-> ns, batch |-> checkpoint[ns] + 1])
  /\ UNCHANGED <<clientState, mute, awaitingAck, tracked, starting, namespaceClients,
                 namespaceEventStreamSocket, subscriptionNames, nextId, wsState,
                 replies, checkpoint, drops, historyVars>>

\* The part of processEvents up to send(): every subscription is resolved.
\* Only this task reads or writes the cache, and tasks run one at a time, so
\* its awaits are not visible to any other handler.
Resolve ==
  /\ queue # << >>
  /\ queue' = Tail(queue)
  /\ subscriptionNames' = subscriptionNames \cup SubsOf[Head(queue).ns]
  /\ nextId' = nextId + 1

\* Mutant of Selectable: any connected client, whatever it started.
AnyConnected(ns) == {c \in Clients : clientState[c] = "connected"}

\* The clients send chooses from, at random.
Selectable(ns) == namespaceClients[ns]

\* processEvents, send: a random client of the namespace gets the batch.  One
\* that left before its start was done is still in the Set: what is sent to
\* it goes nowhere, but is awaited if its awaitingAck entry survived.
ProcessEvents(c) ==
  LET t == Head(queue)
      message == [id |-> nextId, ns |-> t.ns, batch |-> t.batch] IN
  /\ Resolve
  /\ c \in Selectable(t.ns)
  /\ awaitingAck' = IF c \in tracked
                    THEN [awaitingAck EXCEPT ![c] = @ \cup {message}]
                    ELSE awaitingAck
  /\ delivered' = IF clientState[c] = "connected"
                  THEN [delivered EXCEPT ![t.ns] = @ \cup {t.batch}]
                  ELSE delivered
  /\ UNCHANGED <<clientState, mute, tracked, starting, namespaceClients,
                 namespaceEventStreamSocket, wsState, streamVars, drops,
                 clientAcked>>

\* Mutant of ProcessLost: a batch nobody took is acked.
LostIsAcked ==
  /\ Resolve
  /\ Selectable(Head(queue).ns) = {}
  /\ replies' = replies \cup {ReplyTo("ack", Head(queue))}
  /\ UNCHANGED <<clientState, mute, awaitingAck, tracked, starting, namespaceClients,
                 namespaceEventStreamSocket, wsState, outstanding, checkpoint,
                 drops, historyVars>>

\* send when no client is there: the batch is dropped.
ProcessLost ==
  /\ Resolve
  /\ Selectable(Head(queue).ns) = {}
  /\ UNCHANGED <<clientState, mute, awaitingAck, tracked, starting, namespaceClients,
                 namespaceEventStreamSocket, wsState, streamVars, drops,
                 historyVars>>

\* Mutant of ProcessUnknown: a batch that cannot be resolved is acked.
UnknownIsAcked ==
  /\ "lookup" \in Hazards
  /\ queue # << >>
  /\ queue' = Tail(queue)
  /\ ~ SubsOf[Head(queue).ns] \subseteq subscriptionNames
  /\ replies' = replies \cup {ReplyTo("ack", Head(queue))}
  /\ UNCHANGED <<clientState, mute, awaitingAck, tracked, starting, namespaceClients,
                 namespaceEventStreamSocket, subscriptionNames, nextId, wsState,
                 outstanding, checkpoint, drops, historyVars>>

\* processEvents returns at the first subscription it cannot resolve; those
\* resolved before stay cached, the batch is neither acked nor nacked.
ProcessUnknown ==
  /\ "lookup" \in Hazards
  /\ queue # << >>
  /\ queue' = Tail(queue)
  /\ LET needed == SubsOf[Head(queue).ns] IN
     \E known \in SUBSET needed :
       /\ ~ needed \subseteq known \cup subscriptionNames
       /\ subscriptionNames' = subscriptionNames \cup known
  /\ UNCHANGED <<clientState, mute, awaitingAck, tracked, starting, namespaceClients,
                 namespaceEventStreamSocket, nextId, wsState, streamVars,
                 drops, historyVars>>

\* What a client does before handleAck sees it: it confirms one message.
Acknowledge(c, m) ==
  /\ clientState[c] = "connected" /\ c \notin mute
  /\ m \in awaitingAck[c]
  /\ \/ "ackReorder" \in Hazards
     \/ \A o \in awaitingAck[c] : m.id <= o.id
  /\ clientAcked' = [clientAcked EXCEPT ![m.ns] = @ \cup {m.batch}]

Rest(c, m) == {o \in awaitingAck[c] : o.id # m.id}

\* Mutant of Completes: the inverted test.
CompletesInverted(c, m) == Rest(c, m) # {}

\* handleAck forwards the ack only when the client awaits nothing else: an
\* array is never falsy, so '!awaitingAck.filter(...)' never holds.
Completes(c, m) == Rest(c, m) = {}

\* handleAck
ClientAck(c, m) ==
  /\ Acknowledge(c, m)
  /\ ~(Completes(c, m) /\ SendThrows(m.ns))
  /\ awaitingAck' = [awaitingAck EXCEPT ![c] = Rest(c, m)]
  /\ replies' = IF Completes(c, m) /\ SendArrives(m.ns)
                THEN replies \cup {ReplyTo("ack", m)} ELSE replies
  /\ UNCHANGED <<clientState, mute, tracked, starting, namespaceClients,
                 namespaceEventStreamSocket, queue, subscriptionNames, nextId,
                 wsState, outstanding, checkpoint, drops, delivered>>

\* ack() on a connecting socket throws out of the async message handler.
ClientAckThrows(c, m) ==
  /\ Acknowledge(c, m)
  /\ Completes(c, m) /\ SendThrows(m.ns)
  /\ ProcessExit
  /\ UNCHANGED delivered

\* The event stream matches a reply with its topic's batch in flight.
Answers(r) == /\ outstanding[r.ns] # None
              /\ r.batch = checkpoint[r.ns] + 1

StreamReply(r) ==
  /\ r \in replies
  /\ replies' = replies \ {r}
  /\ outstanding' = IF Answers(r) THEN [outstanding EXCEPT ![r.ns] = None]
                    ELSE outstanding
  /\ checkpoint' = IF Answers(r) /\ r.type = "ack"
                   THEN [checkpoint EXCEPT ![r.ns] = @ + 1] ELSE checkpoint
  /\ UNCHANGED <<clientState, mute, proxyVars, wsState, drops, historyVars>>

Crash ==
  /\ "crash" \in Hazards
  /\ ProcessExit
  /\ UNCHANGED historyVars

-----------------------------------------------------------------------------
Next ==
  \/ \E c \in Clients :
       \/ Connect(c)
       \/ GoesMute(c)
       \/ ProcessEvents(c)
       \/ \E ns \in Namespaces : \/ StartJoins(c, ns)
                                 \/ StartConnects(c, ns)
                                 \/ ConnectDone(c, ns)
                                 \/ ConnectFails(c, ns)
                                 \/ Disconnect(c, ns)
                                 \/ DisconnectThrows(c, ns)
       \/ \E m \in awaitingAck[c] : ClientAck(c, m) \/ ClientAckThrows(c, m)
  \/ \E s \in Sockets : \/ UpstreamDrop(s) \/ Reconnect(s) \/ WsOpen(s)
                        \/ StreamDispatch(s)
  \/ \E r \in replies : StreamReply(r)
  \/ ProcessLost
  \/ ProcessUnknown
  \/ Crash

Spec == Init /\ [][Next]_vars

\* The event loop runs what is ready, timers fire, connections get through,
\* the event stream resends and reads replies, clients acknowledge what they
\* received, and the heartbeat ends mute connections (ClientHeartbeat).
\* Nothing obliges a client to come, start or leave.
Fairness ==
  /\ \A s \in Sockets : /\ WF_vars(ConnectDone(s[1], s[2]) \/ ConnectFails(s[1], s[2]))
                        /\ WF_vars(Reconnect(s))
                        /\ WF_vars(WsOpen(s))
                        /\ WF_vars(StreamDispatch(s))
  /\ WF_vars((\E c \in Clients : ProcessEvents(c)) \/ ProcessLost \/ ProcessUnknown)
  /\ \A c \in Clients : WF_vars(\E m \in awaitingAck[c] :
                                   ClientAck(c, m) \/ ClientAckThrows(c, m))
  /\ \A c \in Clients : WF_vars(c \in mute /\ \E ns \in Namespaces :
                                   Disconnect(c, ns) \/ DisconnectThrows(c, ns))
  /\ \A r \in Reply : WF_vars(StreamReply(r))

FairSpec == Spec /\ Fairness

-----------------------------------------------------------------------------
(* Properties                                                              *)

\* A batch behind the event stream's checkpoint was acknowledged by a client:
\* no ack, nack, departure or restart makes the stream skip a batch.
AtLeastOnce ==
  \A ns \in Namespaces : 1..checkpoint[ns] \subseteq clientAcked[ns]

\* A client never receives a batch, not even from a task queued before the
\* connection was lost, unless every earlier batch of the namespace was
\* acknowledged by some client.
InOrder ==
  \A ns \in Namespaces : \A b \in delivered[ns] : 1..(b - 1) \subseteq clientAcked[ns]

\* A namespace has clients exactly when it has a socket, and that socket is
\* its own and was not closed: acks and nacks go to the right stream.
SocketPerNamespace ==
  \A ns \in Namespaces :
    LET s == namespaceEventStreamSocket[ns] IN
    /\ namespaceClients[ns] # {} <=> s # None
    /\ s # None => s[2] = ns /\ wsState[s] \notin {"none", "closed"}

\* What a client that left can still be involved in: it is in a namespace only
\* if it opened that namespace's connection itself (its start outlived it, see
\* startListening), and a message is awaited only from a client that is in the
\* message's namespace, which therefore still has a socket to answer on.
AwaitedByMember ==
  \A c \in Clients :
    /\ \A ns \in Namespaces : c \in namespaceClients[ns] =>
         clientState[c] = "connected" \/ wsState[<<c, ns>>] # "none"
    /\ \A m \in awaitingAck[c] : c \in namespaceClients[m.ns]

\* An upstream socket that is connected or connecting serves a client that is
\* there (the comment in handleDisconnect: "If all clients for this namespace
\* have disconnected, also close the connection").
LastClientCloses ==
  \A s \in Sockets : wsState[s] \in {"connecting", "open"} =>
    \E c \in namespaceClients[s[2]] : clientState[c] = "connected"

\* When a client leaves a namespace that others still use, every message it
\* held is nacked (the comment in handleDisconnect: "Nack any messages that
\* are inflight for that namespace").
DisconnectNacks ==
  [][\A c \in Clients : \A m \in awaitingAck[c] :
       /\ clientState[c] = "connected" /\ clientState'[c] = "gone"
       /\ namespaceClients'[m.ns] # {} /\ SendArrives(m.ns)
       => ReplyTo("nack", m) \in replies']_vars

\* An acknowledged message with a batch number is acked upstream when the
\* client has no other message of that batch in flight (the comment in
\* handleAck).
AcksCompletedBatch ==
  [][\A c \in Clients : \A m \in awaitingAck[c] \ awaitingAck'[c] :
       /\ clientState'[c] = "connected"
       /\ \A o \in awaitingAck'[c] : o.batch # m.batch
       /\ SendArrives(m.ns)
       => ReplyTo("ack", m) \in replies']_vars

\* Without start races, failed lookups or reordered acks, and with one
\* namespace, a batch the stream waits for is always on its way: queued, held
\* by a connected client, or answered.
NoStrandedBatch ==
  \A ns \in Namespaces : outstanding[ns] # None =>
    LET b == checkpoint[ns] + 1 IN
    \/ \E i \in DOMAIN queue : queue[i] = [ns |-> ns, batch |-> b]
    \/ \E c \in Clients : /\ clientState[c] = "connected"
                          /\ \E m \in awaitingAck[c] : m.ns = ns /\ m.batch = b
    \/ \E r \in replies : r.ns = ns /\ r.batch = b

\* Under the same conditions, a namespace that keeps a client drains.
StreamDrains ==
  \A ns \in Namespaces :
    <>[](namespaceClients[ns] # {}) => <>(checkpoint[ns] = MaxBatch)

\* Message ids are not reused (the counter stands for uuidv4): an id names one
\* message of one client.  Facts the proofs need.
IdsFresh == \A c \in Clients : \A m \in awaitingAck[c] : m.id < nextId

OneHolder ==
  \A c, d \in Clients : \A m \in awaitingAck[c], o \in awaitingAck[d] :
    m.id = o.id => c = d /\ m = o

\* How far batches have come.  Nothing was delivered beyond the batch after
\* the checkpoint, a task or a message never runs ahead of it, a connected
\* client holds only what was delivered, and acks on their way upstream were
\* given by clients: this is what makes AtLeastOnce and InOrder inductive.
BatchFlow ==
  /\ \A ns \in Namespaces :
       /\ delivered[ns] \subseteq 1..(checkpoint[ns] + 1)
       /\ clientAcked[ns] \subseteq delivered[ns]
  /\ \A i \in DOMAIN queue : queue[i].batch <= checkpoint[queue[i].ns] + 1
  /\ \A c \in Clients : \A m \in awaitingAck[c] :
       /\ m.batch <= checkpoint[m.ns] + 1
       /\ clientState[c] = "connected" => m.batch \in delivered[m.ns]
  /\ \A r \in replies : r.type = "ack" => r.batch \in clientAcked[r.ns]

\* The inductive invariant of the proofs: at every step of the gateway each
\* part above holds together with the types.
IInv ==
  /\ TypeOK
  /\ AtLeastOnce
  /\ BatchFlow
  /\ SocketPerNamespace
  /\ AwaitedByMember
  /\ IdsFresh
  /\ OneHolder

Delivery == INSTANCE BatchDelivery WITH confirmed <- clientAcked

\* The proxy with the event stream implements BatchDelivery: delivery in
\* order, at least once, checkpoint moved by confirmed batches only.
DeliversBatches == Delivery!Spec

=============================================================================
