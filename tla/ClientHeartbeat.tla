--------------------------- MODULE ClientHeartbeat ---------------------------
(***************************************************************************)
(* The heartbeat of the websocket gateway, WebSocketEventsBase in          *)
(* src/websocket-events/websocket-events.base.ts: every PING_INTERVAL it   *)
(* terminates the clients that have not answered its last ping and pings   *)
(* the others.                                                             *)
(*                                                                         *)
(* Time passes in ticks, and the interval timer runs before the tick that  *)
(* follows it.  A client is one connection.  Its library answers a ping    *)
(* with a pong that arrives within Latency[c] ticks, unless the connection *)
(* is dead: then nothing arrives any more and nothing tells the gateway.   *)
(***************************************************************************)
EXTENDS Naturals

CONSTANTS Clients,       \* websocket connections of FireFly clients
          PING_INTERVAL, \* in ticks
          Latency        \* Latency[c]: when c's pong has arrived at the latest

ASSUME TimesAssumption == /\ PING_INTERVAL \in Nat \ {0}
                          /\ Latency \in [Clients -> Nat]

VARIABLES
  link,    \* each connection: "terminated" by the gateway, "closed" by the client
  isAlive, \* the flag of each connected client
  timer,   \* ticks until ping() runs
  owes,    \* clients with a ping they have not answered
  waited,  \* ticks since the ping a client owes an answer to
  deadFor  \* ticks since a dead connection died, counted up to TooLong

vars == <<link, isAlive, timer, owes, waited, deadFor>>

\* More than two intervals.
TooLong == 2 * PING_INTERVAL + 1

\* The clients of the websocket server: server.clients.
Connected == {c \in Clients : link[c] \in {"up", "dead"}}

TypeOK ==
  /\ link \in [Clients -> {"absent", "up", "dead", "closed", "terminated"}]
  /\ isAlive \in [Clients -> BOOLEAN]
  /\ timer \in 0..PING_INTERVAL
  /\ owes \subseteq Connected
  /\ waited \in [Clients -> 0..PING_INTERVAL]
  /\ deadFor \in [Clients -> 0..TooLong]

\* afterInit starts the interval.
Init ==
  /\ link = [c \in Clients |-> "absent"]
  /\ isAlive = [c \in Clients |-> TRUE]
  /\ timer = PING_INTERVAL
  /\ owes = {}
  /\ waited = [c \in Clients |-> 0]
  /\ deadFor = [c \in Clients |-> 0]

-----------------------------------------------------------------------------
\* Mutant of Connect: the flag is left to the first pong.
ConnectNotAlive(c) ==
  /\ link[c] = "absent"
  /\ link' = [link EXCEPT ![c] = "up"]
  /\ isAlive' = [isAlive EXCEPT ![c] = FALSE]
  /\ UNCHANGED <<timer, owes, waited, deadFor>>

\* The server's 'connection' event, and handleConnection.
Connect(c) ==
  /\ link[c] = "absent"
  /\ link' = [link EXCEPT ![c] = "up"]
  /\ isAlive' = [isAlive EXCEPT ![c] = TRUE]
  /\ UNCHANGED <<timer, owes, waited, deadFor>>

\* The client closes its connection: handleDisconnect.
Close(c) ==
  /\ link[c] = "up"
  /\ link' = [link EXCEPT ![c] = "closed"]
  /\ owes' = owes \ {c}
  /\ UNCHANGED <<isAlive, timer, waited, deadFor>>

\* Nothing of the client arrives from now on.
Die(c) ==
  /\ link[c] = "up"
  /\ link' = [link EXCEPT ![c] = "dead"]
  /\ UNCHANGED <<isAlive, timer, owes, waited, deadFor>>

\* The 'pong' handler.
Pong(c) ==
  /\ c \in owes /\ link[c] = "up"
  /\ isAlive' = [isAlive EXCEPT ![c] = TRUE]
  /\ owes' = owes \ {c}
  /\ UNCHANGED <<link, timer, waited, deadFor>>

\* Mutant of Unanswered: terminate() is not reached.
NoneUnanswered == {}

\* The clients that ping() terminates.
Unanswered == {c \in Connected : ~isAlive[c]}

\* Mutant of Pinged: no return after terminate().
PingedAll == Connected

\* The clients that ping() pings.
Pinged == Connected \ Unanswered

\* Mutant of Reset: the flag is left alone.
ResetNever(c) == isAlive[c]

\* The flag of a client after ping().
Reset(c) == isAlive[c] /\ c \notin Connected

\* ping(): one handler for all clients.  terminate() ends a connection at
\* once and handleDisconnect follows; the others are pinged.
Ping ==
  /\ timer = 0
  /\ timer' = PING_INTERVAL
  /\ link' = [c \in Clients |-> IF c \in Unanswered THEN "terminated" ELSE link[c]]
  /\ isAlive' = [c \in Clients |-> Reset(c)]
  /\ owes' = Pinged
  /\ waited' = [c \in Clients |-> IF c \in owes' THEN 0 ELSE waited[c]]
  /\ UNCHANGED deadFor

\* A tick passes when nothing is due.
Tick ==
  /\ timer > 0
  /\ \A c \in owes : link[c] = "up" => waited[c] < Latency[c]
  /\ timer' = timer - 1
  /\ waited' = [c \in Clients |-> waited[c] + (IF c \in owes THEN 1 ELSE 0)]
  /\ deadFor' = [c \in Clients |-> deadFor[c] +
       (IF link[c] = "dead" /\ deadFor[c] < TooLong THEN 1 ELSE 0)]
  /\ UNCHANGED <<link, isAlive, owes>>

Next ==
  \/ \E c \in Clients : Connect(c) \/ Close(c) \/ Die(c) \/ Pong(c)
  \/ Ping
  \/ Tick

Spec == Init /\ [][Next]_vars

\* Time passes, the timer runs, and pongs arrive.  Nothing obliges a client
\* to come, to close or to die.
Fairness == WF_vars(Ping) /\ WF_vars(Tick) /\ \A c \in Clients : WF_vars(Pong(c))

FairSpec == Spec /\ Fairness

-----------------------------------------------------------------------------
(* Properties                                                              *)

\* A client whose pongs take less than an interval is never terminated,
\* whenever in the interval it came (ping).
PromptStay ==
  [][\A c \in Clients :
       Latency[c] < PING_INTERVAL /\ link[c] = "up" => link'[c] # "terminated"]_vars

\* A dead connection is ended within two intervals: one to the next ping,
\* one for the answer that does not come (ping).
DeadWithinTwo ==
  \A c \in Clients : link[c] = "dead" => deadFor[c] < TooLong

Links == INSTANCE ClientLinks WITH
  link <- [c \in Clients |->
             CASE link[c] = "absent" -> "absent"
               [] link[c] = "up" -> "connected"
               [] link[c] = "dead" -> "silent"
               [] OTHER -> "gone"]

\* The heartbeat gives the gateway the connections it relies on, also that
\* no client stays silent for ever.
LinksAsPromised == Links!Promise
=============================================================================
