-------------------------- MODULE EventStreamSocket --------------------------
(***************************************************************************)
(* One EventStreamSocket of src/event-stream/event-stream.service.ts: the  *)
(* websocket it holds, the reconnect timer, and the ping / pong machinery  *)
(* that is meant to notice a connection whose peer is gone.                *)
(*                                                                         *)
(* Time passes in ticks; a timer that is due fires before the next tick.   *)
(* Timers are never cancelled except the one whose handle is in            *)
(* pingTimeout, so timers of an earlier connection keep running.           *)
(***************************************************************************)
EXTENDS Naturals, Sequences, FiniteSets

CONSTANTS RECONNECT_TIME, PING_INTERVAL, PING_TIMEOUT, \* in ticks
          MaxConnections, \* bound: connections the server accepts
          None            \* no timer

ASSUME TimesAssumption ==
  /\ RECONNECT_TIME \in Nat /\ PING_INTERVAL \in Nat /\ PING_TIMEOUT \in Nat
  /\ MaxConnections \in Nat
  /\ None \notin Nat

VARIABLES
  ws,             \* readyState of the current websocket, or "none"
  closeRequested, \* set by close(), cleared by init()
  released,       \* close() was called: the owner has forgotten the socket
  reconnectIn,    \* ticks until init() is called, or None
  intervals,      \* intervals[t]: 'next ping' timers with t ticks left
  timeouts,       \* ping timeout timers [id, left] that were not cleared
  pingTimeout,    \* id of the timer whose handle is kept, or None
  peer,           \* "alive", or "dead": the connection is half-open
  deadFor,        \* ticks since the peer of an open connection died
  pings,          \* ages of the unanswered pings on the connection
  connections     \* connections opened so far, for MaxConnections

timerVars == <<intervals, timeouts, pingTimeout>>
linkVars == <<peer, deadFor, pings, connections>>
vars == <<ws, closeRequested, released, reconnectIn, timerVars, linkVars>>

TypeOK ==
  /\ ws \in {"none", "connecting", "open", "closed"}
  /\ closeRequested \in BOOLEAN
  /\ released \in BOOLEAN
  /\ reconnectIn \in 0..RECONNECT_TIME \cup {None}
  /\ intervals \in [0..PING_INTERVAL -> Nat]
  /\ timeouts \subseteq [id : Nat, left : 0..PING_TIMEOUT]
  /\ pingTimeout \in Nat \cup {None}
  /\ peer \in {"alive", "dead"}
  /\ deadFor \in Nat
  /\ pings \in Seq(Nat)
  /\ connections \in 0..MaxConnections

Init ==
  /\ ws = "none"
  /\ closeRequested = FALSE
  /\ released = FALSE
  /\ reconnectIn = None
  /\ intervals = [t \in 0..PING_INTERVAL |-> 0]
  /\ timeouts = {}
  /\ pingTimeout = None
  /\ peer = "alive"
  /\ deadFor = 0
  /\ pings = << >>
  /\ connections = 0

-----------------------------------------------------------------------------
(* Helpers                                                                 *)

\* init(): a new websocket, both flags cleared.
NewWebSocket == ws' = "connecting" /\ closeRequested' = FALSE

\* Mutant of OnClose: reconnect even after close().
OnCloseAlways(requested) == reconnectIn' = RECONNECT_TIME

\* Mutant of OnClose: the timer is forgotten.
OnCloseForgotten(requested) == reconnectIn' = None

\* The handler of the websocket's 'close' event.
OnClose(requested) ==
  reconnectIn' = IF requested THEN None ELSE RECONNECT_TIME

\* The websocket is gone, with the pings that were on their way.
WebSocketCloses(requested) ==
  /\ ws' = "closed"
  /\ OnClose(requested)
  /\ pings' = << >>
  /\ deadFor' = 0
  /\ UNCHANGED <<peer, connections>>

FreshId == CHOOSE k \in 0..Cardinality(timeouts) : \A t \in timeouts : t.id # k

\* Mutant of StartTimeout: no timeout is armed.
StartNoTimeout == UNCHANGED <<timeouts, pingTimeout>>

\* ping(): the new timer's handle replaces the one in pingTimeout.
StartTimeout ==
  /\ timeouts' = timeouts \cup {[id |-> FreshId, left |-> PING_TIMEOUT]}
  /\ pingTimeout' = FreshId

\* Mutant of ClearTimeout: a pong clears nothing.
ClearNothing == UNCHANGED timeouts

\* clearTimeout(this.pingTimeout): only the latest timer can be cleared.
ClearTimeout == timeouts' = {t \in timeouts : t.id # pingTimeout}

-----------------------------------------------------------------------------
(* The socket's life                                                       *)

\* new EventStreamSocket(...)
Construct ==
  /\ ws = "none"
  /\ NewWebSocket
  /\ UNCHANGED <<released, reconnectIn, timerVars, linkVars>>

\* 'open': listen on the topic and on replies, then ping.
Open ==
  /\ ws = "connecting"
  /\ connections < MaxConnections
  /\ ws' = "open"
  /\ peer' = "alive"
  /\ connections' = connections + 1
  /\ pings' = <<0>>
  /\ StartTimeout
  /\ UNCHANGED <<closeRequested, released, reconnectIn, intervals, deadFor>>

\* 'close' that the owner did not ask for: refused, reset or closed remotely.
Drop ==
  /\ ws \in {"connecting", "open"}
  /\ WebSocketCloses(closeRequested)
  /\ UNCHANGED <<closeRequested, released, timerVars>>

\* The reconnect timer fires, whether or not close() was called meanwhile.
ReconnectDue ==
  /\ reconnectIn = 0
  /\ reconnectIn' = None
  /\ NewWebSocket
  /\ UNCHANGED <<released, timerVars, linkVars>>

\* close(): flag and terminate; a websocket already closed fires no event.
Close ==
  /\ ws # "none" /\ ~released
  /\ released' = TRUE
  /\ closeRequested' = TRUE
  /\ \/ /\ ws \in {"connecting", "open"}
        /\ WebSocketCloses(TRUE)
     \/ /\ ws = "closed"
        /\ UNCHANGED <<ws, reconnectIn, linkVars>>
  /\ UNCHANGED timerVars

-----------------------------------------------------------------------------
(* Pings                                                                   *)

\* The peer disappears without closing the connection.
PeerDies ==
  /\ ws = "open" /\ peer = "alive"
  /\ peer' = "dead"
  /\ UNCHANGED <<ws, closeRequested, released, reconnectIn, timerVars, deadFor,
                 pings, connections>>

\* 'pong': clear the timeout, ping again after the interval.
Pong ==
  /\ ws = "open" /\ peer = "alive" /\ pings # << >>
  /\ pings' = Tail(pings)
  /\ ClearTimeout
  /\ intervals' = [intervals EXCEPT ![PING_INTERVAL] = @ + 1]
  /\ UNCHANGED <<ws, closeRequested, released, reconnectIn, pingTimeout, peer,
                 deadFor, connections>>

\* The interval timer calls ping(), which acts on an open websocket only.
PingDue ==
  /\ intervals[0] > 0
  /\ intervals' = [intervals EXCEPT ![0] = @ - 1]
  /\ IF ws = "open"
     THEN StartTimeout /\ pings' = Append(pings, 0)
     ELSE UNCHANGED <<timeouts, pingTimeout, pings>>
  /\ UNCHANGED <<ws, closeRequested, released, reconnectIn, peer, deadFor,
                 connections>>

\* A ping timeout fires and terminates the websocket of the moment, which
\* need not be the one that was pinged.
TimeoutDue ==
  /\ \E t \in timeouts : t.left = 0 /\ timeouts' = timeouts \ {t}
  /\ IF ws \in {"connecting", "open"}
     THEN WebSocketCloses(closeRequested)
     ELSE UNCHANGED <<ws, reconnectIn, linkVars>>
  /\ UNCHANGED <<closeRequested, released, intervals, pingTimeout>>

\* Mutant of Due: a reconnect may be overdue.
DueLate == intervals[0] > 0 \/ \E t \in timeouts : t.left = 0

Due == \/ reconnectIn = 0
       \/ intervals[0] > 0
       \/ \E t \in timeouts : t.left = 0

Tick ==
  /\ ~Due
  /\ reconnectIn' = IF reconnectIn = None THEN None ELSE reconnectIn - 1
  /\ intervals' = [t \in 0..PING_INTERVAL |->
                     IF t = PING_INTERVAL THEN 0 ELSE intervals[t + 1]]
  /\ timeouts' = {[t EXCEPT !.left = @ - 1] : t \in timeouts}
  /\ pings' = [i \in DOMAIN pings |-> pings[i] + 1]
  /\ deadFor' = IF ws = "open" /\ peer = "dead" THEN deadFor + 1 ELSE 0
  /\ UNCHANGED <<ws, closeRequested, released, pingTimeout, peer, connections>>

-----------------------------------------------------------------------------
Next == \/ Construct \/ Open \/ Drop \/ ReconnectDue \/ Close
        \/ PeerDies \/ Pong \/ PingDue \/ TimeoutDue \/ Tick

Spec == Init /\ [][Next]_vars

\* Time passes and the event loop runs the timers that are due.  Nothing
\* obliges the network to connect, to answer a ping or to fail.
FairSpec ==
  Spec /\ WF_vars(Tick) /\ WF_vars(ReconnectDue)
       /\ WF_vars(PingDue) /\ WF_vars(TimeoutDue)

-----------------------------------------------------------------------------
(* Properties                                                              *)

\* An open connection is always being watched: a ping timeout is running or
\* the next ping is scheduled, although a pong clears whichever timeout was
\* started last, also that of another ping.
Watched ==
  ws = "open" => timeouts # {} \/ \E t \in DOMAIN intervals : intervals[t] > 0

\* A half-open connection is terminated within one interval and one timeout
\* of its peer's death.
DeadDetected == deadFor <= PING_INTERVAL + PING_TIMEOUT

\* A socket without a websocket connects again, unless its owner closed it.
Returns == ws = "closed" /\ ~released ~> ws = "connecting" \/ released

\* The first connection is terminated by a timeout only if one of its pings
\* went unanswered for PING_TIMEOUT.  (Later ones can be terminated by a
\* timer left over from an earlier connection.)
FirstConnectionTimeout ==
  [][ws = "open" /\ ws' = "closed" /\ timeouts' # timeouts /\ connections = 1
     => \E i \in DOMAIN pings : pings[i] >= PING_TIMEOUT]_vars

\* What the owner sees of this socket.
OwnerView == IF ws # "closed" THEN ws
             ELSE IF reconnectIn = None THEN "closed" ELSE "backoff"

Lifecycle == INSTANCE UpstreamSocket WITH state <- OwnerView

\* The socket lives the life that EventStreamProxy assumes of it: close()
\* ends it during a connection, and only then.
LivesAsUpstreamSocket == Lifecycle!Spec

=============================================================================
