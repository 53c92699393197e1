------------------------ MODULE ClientHeartbeatProofs ------------------------
(***************************************************************************)
(* Proofs about ClientHeartbeat, for any clients, latencies and interval.  *)
(***************************************************************************)
EXTENDS ClientHeartbeat, TLAPS

\* The flag of a connected client says whether it owes an answer.
FlagsAgree == \A c \in Connected : isAlive[c] <=> c \notin owes

\* An answer is owed since the last ping, and is not late yet if the client
\* lives.
OwedSincePing ==
  \A c \in owes : /\ waited[c] = PING_INTERVAL - timer
                  /\ link[c] = "up" => waited[c] <= Latency[c]

\* Until the first ping after its death a client may be taken to be alive,
\* and it has one interval from there.
Deaths ==
  \A c \in Clients :
    /\ link[c] \in {"absent", "up"} => deadFor[c] = 0
    /\ link[c] = "dead" =>
         deadFor[c] + timer <= IF isAlive[c] THEN PING_INTERVAL ELSE 2 * PING_INTERVAL

HInv == TypeOK /\ FlagsAgree /\ OwedSincePing /\ Deaths

-----------------------------------------------------------------------------
(* The invariant                                                           *)

LEMMA InitH == Init => HInv
  BY TimesAssumption
     DEF Init, HInv, TypeOK, FlagsAgree, OwedSincePing, Deaths, Connected, TooLong

\* What the interval's end does to a client.
LEMMA PingStep ==
  ASSUME HInv, Ping
  PROVE  HInv'
<1> USE TimesAssumption
<1>1. /\ timer = 0 /\ timer' = PING_INTERVAL
      /\ link' = [c \in Clients |-> IF c \in Unanswered THEN "terminated" ELSE link[c]]
      /\ isAlive' = [c \in Clients |-> isAlive[c] /\ c \notin Connected]
      /\ owes' = Connected \ Unanswered
      /\ waited' = [c \in Clients |-> IF c \in owes' THEN 0 ELSE waited[c]]
      /\ deadFor' = deadFor
  BY DEF Ping, Reset, Pinged
<1>2. Unanswered = {c \in Connected : ~isAlive[c]} /\ Connected \subseteq Clients
  BY DEF Unanswered, Connected
<1>3. Connected' = Connected \ Unanswered
  BY <1>1, <1>2 DEF Connected
<1>4. TypeOK'
  <2>1. link' \in [Clients -> {"absent", "up", "dead", "closed", "terminated"}]
    BY <1>1 DEF HInv, TypeOK
  <2>2. isAlive' \in [Clients -> BOOLEAN]
    BY <1>1
  <2>3. waited' \in [Clients -> 0..PING_INTERVAL]
    BY <1>1 DEF HInv, TypeOK
  <2>4. QED
    BY <1>1, <1>3, <2>1, <2>2, <2>3 DEF HInv, TypeOK
<1>5. FlagsAgree'
  BY <1>1, <1>2, <1>3 DEF FlagsAgree
<1>6. OwedSincePing'
  <2> SUFFICES ASSUME NEW c \in owes'
               PROVE  /\ waited'[c] = PING_INTERVAL - timer'
                      /\ link'[c] = "up" => waited'[c] <= Latency[c]
    BY DEF OwedSincePing
  <2>1. c \in Clients /\ Latency[c] \in Nat
    BY <1>1, <1>2
  <2>2. waited'[c] = 0
    BY <1>1, <2>1
  <2>3. timer' = PING_INTERVAL /\ PING_INTERVAL \in Nat
    BY <1>1
  <2>4. QED
    BY <2>1, <2>2, <2>3
<1>7. Deaths'
  <2> SUFFICES ASSUME NEW c \in Clients
               PROVE  /\ link'[c] \in {"absent", "up"} => deadFor'[c] = 0
                      /\ link'[c] = "dead" =>
                           deadFor'[c] + timer' <=
                             IF isAlive'[c] THEN PING_INTERVAL ELSE 2 * PING_INTERVAL
    BY DEF Deaths
  <2>1. link'[c] \in {"absent", "up"} => deadFor'[c] = 0
    BY <1>1 DEF HInv, Deaths
  <2>2. ASSUME link'[c] = "dead"
        PROVE  ~isAlive'[c] /\ deadFor'[c] + timer' <= 2 * PING_INTERVAL
    <3>1. link[c] = "dead" /\ c \in Connected /\ isAlive[c]
      BY <1>1, <1>2, <2>2 DEF Connected
    <3>2. deadFor[c] <= PING_INTERVAL /\ deadFor[c] \in Nat
      BY <1>1, <3>1 DEF HInv, Deaths, TypeOK, TooLong
    <3>3. ~isAlive'[c]
      BY <1>1, <3>1
    <3>4. deadFor'[c] + timer' <= 2 * PING_INTERVAL
      <4>1. deadFor'[c] = deadFor[c] /\ timer' = PING_INTERVAL /\ PING_INTERVAL \in Nat
        BY <1>1
      <4>2. QED
        BY <3>2, <4>1
    <3>5. QED
      BY <3>3, <3>4
  <2>3. QED
    BY <2>1, <2>2
<1>8. QED
  BY <1>4, <1>5, <1>6, <1>7 DEF HInv

LEMMA TickStep ==
  ASSUME HInv, Tick
  PROVE  HInv'
<1> USE TimesAssumption
<1>1. /\ timer > 0 /\ timer' = timer - 1
      /\ \A c \in owes : link[c] = "up" => waited[c] < Latency[c]
      /\ waited' = [c \in Clients |-> waited[c] + (IF c \in owes THEN 1 ELSE 0)]
      /\ deadFor' = [c \in Clients |-> deadFor[c] +
           (IF link[c] = "dead" /\ deadFor[c] < TooLong THEN 1 ELSE 0)]
      /\ UNCHANGED <<link, isAlive, owes>>
  BY DEF Tick
<1>2. /\ TypeOK /\ owes \subseteq Clients /\ Connected' = Connected
      /\ timer \in Nat /\ PING_INTERVAL \in Nat
  BY <1>1 DEF HInv, TypeOK, Connected
<1>3. OwedSincePing'
  <2> SUFFICES ASSUME NEW c \in owes
               PROVE  /\ waited'[c] = PING_INTERVAL - timer'
                      /\ link[c] = "up" => waited'[c] <= Latency[c]
    BY <1>1 DEF OwedSincePing
  <2>1. waited[c] \in Nat /\ waited'[c] = waited[c] + 1 /\ Latency[c] \in Nat
    BY <1>1, <1>2 DEF TypeOK
  <2>2. waited[c] = PING_INTERVAL - timer
    BY DEF HInv, OwedSincePing
  <2>3. QED
    BY <1>1, <1>2, <2>1, <2>2
<1>4. Deaths'
  <2> SUFFICES ASSUME NEW c \in Clients
               PROVE  /\ link[c] \in {"absent", "up"} => deadFor'[c] = 0
                      /\ link[c] = "dead" =>
                           deadFor'[c] + timer' <=
                             IF isAlive[c] THEN PING_INTERVAL ELSE 2 * PING_INTERVAL
    BY <1>1 DEF Deaths
  <2>1. /\ link[c] \in {"absent", "up"} => deadFor[c] = 0
        /\ link[c] = "dead" => deadFor[c] + timer <=
                                 IF isAlive[c] THEN PING_INTERVAL ELSE 2 * PING_INTERVAL
    BY DEF HInv, Deaths
  <2>2. deadFor[c] \in Nat /\ (deadFor'[c] = deadFor[c] \/ deadFor'[c] = deadFor[c] + 1)
    BY <1>1, <1>2 DEF TypeOK
  <2>3. link[c] # "dead" => deadFor'[c] = deadFor[c]
    BY <1>1, <2>2
  <2>4. QED
    BY <1>1, <1>2, <2>1, <2>2, <2>3
<1>5. TypeOK'
  <2>1. timer' \in 0..PING_INTERVAL
    BY <1>1, <1>2 DEF TypeOK
  <2>2. waited' \in [Clients -> 0..PING_INTERVAL]
    <3> SUFFICES ASSUME NEW c \in Clients PROVE waited'[c] \in 0..PING_INTERVAL
      BY <1>1
    <3>1. CASE c \in owes
      BY <1>1, <1>3, <2>1, <3>1 DEF OwedSincePing
    <3>2. CASE c \notin owes
      <4>1. waited'[c] = waited[c] + 0 /\ waited[c] \in 0..PING_INTERVAL
        BY <1>1, <1>2, <3>2 DEF TypeOK
      <4>2. QED
        BY <4>1
    <3>3. QED
      BY <3>1, <3>2
  <2>3. deadFor' \in [Clients -> 0..TooLong]
    <3> SUFFICES ASSUME NEW c \in Clients PROVE deadFor'[c] \in 0..TooLong
      BY <1>1
    <3>1. deadFor[c] \in 0..TooLong /\ TooLong \in Nat
      BY <1>2 DEF TypeOK, TooLong
    <3>2. QED
      BY <1>1, <3>1
  <2>4. QED
    BY <1>1, <1>2, <2>1, <2>2, <2>3 DEF TypeOK
<1>6. FlagsAgree'
  BY <1>1, <1>2 DEF HInv, FlagsAgree
<1>7. QED
  BY <1>3, <1>4, <1>5, <1>6 DEF HInv

LEMMA HInductive == HInv /\ [Next]_vars => HInv'
<1> SUFFICES ASSUME HInv, [Next]_vars PROVE HInv'
  OBVIOUS
<1> USE TimesAssumption
<1>1. ASSUME NEW c \in Clients, Connect(c) PROVE HInv'
  BY <1>1 DEF Connect, HInv, TypeOK, FlagsAgree, OwedSincePing, Deaths, Connected
<1>2. ASSUME NEW c \in Clients, Close(c) PROVE HInv'
  BY <1>2 DEF Close, HInv, TypeOK, FlagsAgree, OwedSincePing, Deaths, Connected
<1>3. ASSUME NEW c \in Clients, Die(c) PROVE HInv'
  <2>1. TypeOK' /\ FlagsAgree' /\ OwedSincePing'
    BY <1>3 DEF Die, HInv, TypeOK, FlagsAgree, OwedSincePing, Connected
  <2>2. deadFor[c] = 0 /\ timer \in 0..PING_INTERVAL
    BY <1>3 DEF Die, HInv, TypeOK, Deaths
  <2>3. Deaths'
    BY <1>3, <2>2 DEF Die, HInv, TypeOK, Deaths
  <2>4. QED
    BY <2>1, <2>3 DEF HInv
<1>4. ASSUME NEW c \in Clients, Pong(c) PROVE HInv'
  BY <1>4 DEF Pong, HInv, TypeOK, FlagsAgree, OwedSincePing, Deaths, Connected
<1>5. CASE Ping
  BY <1>5, PingStep
<1>6. CASE Tick
  BY <1>6, TickStep
<1>7. CASE UNCHANGED vars
  BY <1>7 DEF vars, HInv, TypeOK, FlagsAgree, OwedSincePing, Deaths, Connected
<1>8. QED
  BY <1>1, <1>2, <1>3, <1>4, <1>5, <1>6, <1>7 DEF Next

THEOREM Heartbeat == Spec => []HInv
  BY InitH, HInductive, PTL DEF Spec

\* Every variable keeps its type.
THEOREM TypeCorrect == Spec => []TypeOK
<1>1. HInv => TypeOK
  BY DEF HInv
<1>2. QED
  BY <1>1, Heartbeat, PTL

\* A dead connection is terminated within two intervals.
THEOREM DeadEnd == Spec => []DeadWithinTwo
<1>1. HInv => DeadWithinTwo
  <2> SUFFICES ASSUME HInv, NEW c \in Clients, link[c] = "dead"
               PROVE  deadFor[c] < TooLong
    BY DEF DeadWithinTwo
  <2>1. deadFor[c] + timer <= 2 * PING_INTERVAL
    BY TimesAssumption DEF HInv, Deaths, TypeOK
  <2>2. QED
    BY <2>1, TimesAssumption DEF HInv, TypeOK, TooLong
<1>2. QED
  BY <1>1, Heartbeat, PTL

\* No client that answers within the interval is terminated: when ping()
\* runs, a whole interval has passed since the ping it would owe.
THEOREM PromptClientsStay == Spec => PromptStay
<1>1. ASSUME HInv, [Next]_vars, NEW c \in Clients,
             Latency[c] < PING_INTERVAL, link[c] = "up"
      PROVE  link'[c] # "terminated"
  <2>1. CASE Ping
    <3>1. c \notin owes
      BY <1>1, <2>1, TimesAssumption DEF Ping, HInv, OwedSincePing
    <3>2. c \notin Unanswered
      BY <1>1, <3>1 DEF Unanswered, Connected, HInv, FlagsAgree
    <3>3. QED
      BY <1>1, <2>1, <3>2 DEF Ping
  <2>2. CASE ~Ping
    BY <1>1, <2>2 DEF Next, vars, Connect, Close, Die, Pong, Tick, HInv, TypeOK
  <2>3. QED
    BY <2>1, <2>2
<1>2. HInv /\ [Next]_vars =>
        [\A c \in Clients :
           Latency[c] < PING_INTERVAL /\ link[c] = "up" => link'[c] # "terminated"]_vars
  BY <1>1
<1>3. QED
  BY <1>2, Heartbeat, PTL DEF Spec, PromptStay

-----------------------------------------------------------------------------
(* The heartbeat implements ClientLinks                                    *)

\* The life of a connection as the gateway is promised it.
LifeOf == [c \in Clients |->
             CASE link[c] = "absent" -> "absent"
               [] link[c] = "up" -> "connected"
               [] link[c] = "dead" -> "silent"
               [] OTHER -> "gone"]

\* Connections come, fall silent and go as ClientLinks says, one of them or,
\* in ping(), many at a time.
THEOREM LinksFollow == Spec => Links!Spec
<1>1. Init => Links!Init
  BY DEF Init, Links!Init
<1>2. TypeOK /\ [Next]_vars => Links!Next \/ UNCHANGED LifeOf
  <2> SUFFICES ASSUME TypeOK, [Next]_vars, LifeOf' # LifeOf PROVE Links!Next
    OBVIOUS
  <2>1. ASSUME NEW c \in Clients, link'[c] # link[c]
        PROVE  <<link[c], link'[c]>> \in
                 {<<"absent", "up">>, <<"up", "dead">>, <<"up", "closed">>,
                  <<"up", "terminated">>, <<"dead", "terminated">>}
    <3>1. CASE Ping
      <4>1. c \in Connected /\ link'[c] = "terminated"
        BY <2>1, <3>1 DEF Ping, Unanswered, TypeOK
      <4>2. QED
        BY <4>1 DEF Connected
    <3>2. CASE ~Ping
      BY <2>1, <3>2 DEF Next, vars, Connect, Close, Die, Pong, Tick, TypeOK
    <3>3. QED
      BY <3>1, <3>2
  <2>2. ASSUME NEW c \in Clients, LifeOf'[c] # LifeOf[c]
        PROVE  <<LifeOf[c], LifeOf'[c]>> \in Links!Life
    <3>1. link'[c] # link[c]
      BY <2>2 DEF LifeOf
    <3>2. QED
      BY <2>1, <3>1 DEF LifeOf, Links!Life
  <2>3. QED
    BY <2>2 DEF Links!Next, LifeOf
<1>3. QED
  BY <1>1, <1>2, TypeCorrect, PTL DEF Spec, Links!Spec, LifeOf
=============================================================================
