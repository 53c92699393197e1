-------------------------- MODULE PoolSubscriptions --------------------------
(***************************************************************************)
(* How pools come to have listeners: createPool, activatePool and          *)
(* deactivatePool of src/tokens/tokens.service.ts over the list / create / *)
(* delete calls of src/event-stream/event-stream.service.ts, and the       *)
(* event stream proxy's connect(), which creates streams as well.          *)
(*                                                                         *)
(* Streams and subscriptions live in the blockchain connector (EVMConnect) *)
(* and survive the process.  Every HTTP call is a step; between two of     *)
(* them other requests, and other tasks of the same request, make theirs.  *)
(*                                                                         *)
(* An event stands for itself and its block number, ABI and methods.  The  *)
(* names of the older format, which deactivatePool looks for too, are left *)
(* out: nothing in this release creates them.                              *)
(***************************************************************************)
EXTENDS Naturals, FiniteSets

CONSTANTS Namespaces, Pools, \* FireFly namespaces; pool locators
          LegacyPools,       \* locators that contain no contract address
          Base,              \* the locator of createPool's listeners
          CreateEvents,      \* TokenPoolCreation and its V2
          TransferEvents,    \* TransferSingle, TransferBatch, ApprovalForAll
          Requests,          \* requests from FireFly, each used once
          MaxFailures,       \* bound: HTTP calls that fail
          MaxCrashes,        \* bound: restarts of the process
          MaxLosses,         \* bound: streams deleted by others
          Hazards,           \* which of HazardKinds may happen
          None, Deprecated   \* no id; a stream name of an older release

HazardKinds ==
  { "coldOverlap", \* requests of one namespace look for its stream together
                   \* while there is none
    "samePool" }   \* a request for a pool while tasks of another one run

ASSUME BoundsAssumption ==
  MaxFailures \in Nat /\ MaxCrashes \in Nat /\ MaxLosses \in Nat
ASSUME HazardsAssumption == Hazards \subseteq HazardKinds
ASSUME PoolsAssumption == LegacyPools \subseteq Pools /\ Base \notin Pools
ASSUME EventsAssumption == CreateEvents # {}
ASSUME NamesAssumption == None \notin Nat /\ Deprecated \notin Namespaces

VARIABLES
  streams, subs, \* event streams and subscriptions in EVMConnect
  nextId,        \* EVMConnect's source of ids
  streamCache,   \* stream id of a namespace, or None
  input,         \* what each request asks for; never changes
  pc,            \* where each request is
  stream,        \* the request's stream: what its listing found, then its id
  purge,         \* streams of older releases the request still has to delete
  tasks,         \* promises under the request's Promise.all, not yet settled
  found,         \* requests of which a task deleted a subscription
  answer,        \* what FireFly was answered
  settled,       \* history: what the last request for a pool achieved
  failures, crashes, losses \* counts, for MaxFailures, MaxCrashes, MaxLosses

connectorVars == <<streams, subs, nextId>>
requestVars == <<pc, stream, purge>>
taskVars == <<tasks, found, settled>>
counts == <<failures, crashes, losses>>
vars == <<connectorVars, streamCache, input, requestVars, taskVars, answer, counts>>

Events == CreateEvents \cup TransferEvents
OptId == Nat \cup {None}
Stream == [id : Nat, name : Namespaces \cup {Deprecated}]
SubName == [prefix : {"address", "none"}, pool : Pools \cup {Base}, event : Events]
Subscription == [id : Nat, stream : Nat, name : SubName]
Task == [req : Requests, name : SubName, stream : Nat,
         pc : {"list", "create", "delete"}, sub : OptId]

\* The requests of the REST API, and 'start' on the websocket.
Input == [op : {"create", "connect"}, ns : Namespaces, pool : {Base}]
         \cup [op : {"activate", "deactivate"}, ns : Namespaces, pool : Pools]

\* Looking for the stream: migrationCheck and createOrUpdateStream.
Finding == {"purgeList", "purge", "streamList", "streamSave"}

TypeOK ==
  /\ streams \subseteq Stream
  /\ subs \subseteq Subscription
  /\ nextId \in Nat
  /\ streamCache \in [Namespaces -> OptId]
  /\ input \in [Requests -> Input]
  /\ pc \in [Requests -> Finding \cup {"idle", "query", "tasks", "submit", "done"}]
  /\ stream \in [Requests -> OptId]
  /\ purge \in [Requests -> SUBSET Nat]
  /\ tasks \subseteq Task
  /\ found \subseteq Requests
  /\ answer \in [Requests -> {"none", "ok", "notfound", "error"}]
  /\ settled \in [Namespaces \X Pools -> {"unknown", "active", "inactive"}]
  /\ failures \in 0..MaxFailures
  /\ crashes \in 0..MaxCrashes
  /\ losses \in 0..MaxLosses

\* An older release may have left its stream, with a listener for each event
\* of each pool.  The ids of those listeners are never used.
OldSubs == {[id |-> 0, stream |-> 0,
             name |-> [prefix |-> "address", pool |-> p, event |-> e]] :
            p \in Pools, e \in Events}

Init ==
  /\ \/ streams = {} /\ subs = {}
     \/ streams = {[id |-> 0, name |-> Deprecated]} /\ subs = OldSubs
  /\ nextId = 1
  /\ streamCache = [ns \in Namespaces |-> None]
  /\ input \in [Requests -> Input]
  /\ pc = [r \in Requests |-> "idle"]
  /\ stream = [r \in Requests |-> None]
  /\ purge = [r \in Requests |-> {}]
  /\ tasks = {}
  /\ found = {}
  /\ answer = [r \in Requests |-> "none"]
  /\ settled = [np \in Namespaces \X Pools |-> "unknown"]
  /\ failures = 0 /\ crashes = 0 /\ losses = 0

-----------------------------------------------------------------------------
(* Helpers                                                                 *)

GoTo(r, label) == pc' = [pc EXCEPT ![r] = label]

Answers(r, a) == answer' = [answer EXCEPT ![r] = a]

\* An HTTP call is heard, or its answer (or the call itself) is lost.
Fails == failures < MaxFailures /\ failures' = failures + 1

\* The request is rejected with the error of one of its calls.
Rejects(r) == GoTo(r, "done") /\ Answers(r, "error")

\* Mutant of Existing: the listing is ignored.
ExistingNone(t) == {}

\* Existing subscription of a name on a stream, as getOrCreateSubscription and
\* deleteSubscriptionByName find it.
Existing(t) == {s \in subs : s.name = t.name /\ s.stream = t.stream}

\* Mutant of PrefixFor: no locator has an address.
PrefixNone(op, pool) == IF op = "deactivate" THEN "none" ELSE "address"

\* packSubscriptionName's address: activatePool falls back to the contract's
\* address when the locator has none, deactivatePool to ''.
PrefixFor(op, pool) ==
  IF op = "deactivate" /\ pool \in LegacyPools THEN "none" ELSE "address"

NewTask(r, e, id) ==
  [req |-> r, stream |-> id, pc |-> "list", sub |-> None,
   name |-> [prefix |-> PrefixFor(input[r].op, input[r].pool),
             pool |-> input[r].pool, event |-> e]]

\* Mutant of TasksFor: the cache is read before it is filled.
TasksUncached(r, id, cached) ==
  {NewTask(r, e, streamCache[input[r].ns]) : e \in CreateEvents}

\* The promises each request waits for.  createPoolSubscription calls
\* getStream again, and finds the stream that is cached by then.
TasksFor(r, id, cached) ==
  LET creation == {NewTask(r, e, cached) : e \in CreateEvents}
      transfer == {NewTask(r, e, id) : e \in TransferEvents}
  IN  IF input[r].op = "create" THEN creation ELSE creation \cup transfer

\* The request has its stream: await its tasks, or query the contract first.
\* connect() returns.
HasStream(r, id) ==
  /\ stream' = [stream EXCEPT ![r] = id]
  /\ CASE input[r].op = "connect" ->
            GoTo(r, "done") /\ Answers(r, "ok") /\ UNCHANGED tasks
       [] input[r].op = "activate" ->
            GoTo(r, "query") /\ UNCHANGED <<tasks, answer>>
       [] OTHER ->
            /\ GoTo(r, "tasks")
            /\ tasks' = tasks \cup TasksFor(r, id, id)
            /\ UNCHANGED answer

-----------------------------------------------------------------------------
(* getStream, migrationCheck, createOrUpdateStream                         *)

\* The event streams of a name.
StreamsOf(ns) == {s.id : s \in {t \in streams : t.name = ns}}

\* Requests that look for the stream of a namespace.
Looking(ns) == {r \in Requests : input[r].ns = ns /\ pc[r] \in Finding}

\* What FireFly and the hazards allow to overlap.
MayBegin(r) ==
  LET ns == input[r].ns  pool == input[r].pool IN
  /\ pc[r] = "idle"
  /\ "coldOverlap" \in Hazards \/ StreamsOf(ns) # {} \/ Looking(ns) = {}
  /\ \/ "samePool" \in Hazards \/ input[r].op = "connect"
     \/ \A o \in Requests :
          input[o].ns = ns /\ input[o].pool = pool /\ input[o].op # "connect"
          => pc[o] \in {"idle", "done"} /\ \A t \in tasks : t.req # o

\* A request arrives.  getStream looks into the cache, connect() does not.
Begin(r) ==
  LET ns == input[r].ns IN
  /\ MayBegin(r)
  /\ settled' = [np \in DOMAIN settled |->
                   IF np = <<ns, input[r].pool>> THEN "unknown" ELSE settled[np]]
  /\ IF input[r].op # "connect" /\ streamCache[ns] # None
     THEN HasStream(r, streamCache[ns])
     ELSE /\ GoTo(r, IF input[r].op = "connect" THEN "streamList" ELSE "purgeList")
          /\ UNCHANGED <<stream, tasks, answer>>
  /\ UNCHANGED <<connectorVars, streamCache, input, purge, found, counts>>

\* migrationCheck lists the streams with names of older releases ...
PurgeList(r) ==
  /\ pc[r] = "purgeList"
  /\ purge' = [purge EXCEPT ![r] = {s.id : s \in {t \in streams : t.name = Deprecated}}]
  /\ GoTo(r, IF purge'[r] = {} THEN "streamList" ELSE "purge")
  /\ UNCHANGED <<connectorVars, streamCache, input, stream, taskVars, answer,
                 counts>>

\* ... and deletes them with their subscriptions, one after the other.  A
\* stream that another request deleted meanwhile is an error (404).
Purge(r) ==
  /\ pc[r] = "purge"
  /\ \E id \in purge[r], lost \in BOOLEAN :
       /\ streams' = {s \in streams : s.id # id}
       /\ subs' = {s \in subs : s.stream # id}
       /\ purge' = [purge EXCEPT ![r] = @ \ {id}]
       /\ IF lost THEN Fails ELSE UNCHANGED failures
       /\ IF lost \/ streams' = streams
          THEN Rejects(r)
          ELSE /\ GoTo(r, IF purge'[r] = {} THEN "streamList" ELSE "purge")
               /\ UNCHANGED answer
  /\ UNCHANGED <<nextId, streamCache, input, stream, taskVars, crashes, losses>>

\* createOrUpdateStream lists the streams ...
StreamList(r) ==
  LET ids == StreamsOf(input[r].ns) IN
  /\ pc[r] = "streamList"
  /\ \/ ids = {} /\ UNCHANGED stream
     \/ \E id \in ids : stream' = [stream EXCEPT ![r] = id]
  /\ GoTo(r, "streamSave")
  /\ UNCHANGED <<connectorVars, streamCache, input, purge, taskVars, answer,
                 counts>>

\* EVMConnect answers 404 to an update of, or a subscription on, a stream it
\* does not have.
Unknown(id) == \A s \in streams : s.id # id

\* ... and updates the one it found, or creates one.
StreamSave(r) ==
  LET ns == input[r].ns
      id == IF stream[r] = None THEN nextId ELSE stream[r] IN
  /\ pc[r] = "streamSave"
  /\ stream[r] # None => ~Unknown(id)
  /\ IF stream[r] = None
     THEN streams' = streams \cup {[id |-> nextId, name |-> ns]} /\ nextId' = nextId + 1
     ELSE UNCHANGED <<streams, nextId>>
  /\ \/ /\ Fails
        /\ Rejects(r)
        /\ UNCHANGED <<streamCache, stream, tasks>>
     \/ /\ HasStream(r, id)
        /\ streamCache' = IF input[r].op = "connect" THEN streamCache
                          ELSE [streamCache EXCEPT ![ns] = id]
        /\ UNCHANGED failures
  /\ UNCHANGED <<subs, input, purge, found, settled, crashes, losses>>

\* The stream was deleted after it was listed.
StreamRefused(r) ==
  /\ pc[r] = "streamSave"
  /\ stream[r] # None /\ Unknown(stream[r])
  /\ Rejects(r)
  /\ UNCHANGED <<connectorVars, streamCache, input, stream, purge, taskVars,
                 counts>>

\* activatePool has the contract's address and ABI.
Query(r) ==
  /\ pc[r] = "query"
  /\ GoTo(r, "tasks")
  /\ tasks' = tasks \cup TasksFor(r, stream[r], streamCache[input[r].ns])
  /\ UNCHANGED <<connectorVars, streamCache, input, stream, purge, found,
                 answer, settled, counts>>

\* A call that changes nothing fails, or never reaches the connector.
RequestFails(r) ==
  /\ pc[r] \in Finding \cup {"query", "submit"}
  /\ Fails
  /\ Rejects(r)
  /\ UNCHANGED <<connectorVars, streamCache, input, stream, purge, taskVars,
                 crashes, losses>>

-----------------------------------------------------------------------------
(* Tasks: getOrCreateSubscription, deleteSubscriptionByName                *)

\* Mutant of Completed: deactivatePool answers only if it found something.
CompletedIfFound(r, deleted) ==
  /\ GoTo(r, IF input[r].op = "create" THEN "submit" ELSE "done")
  /\ answer' = [answer EXCEPT ![r] =
       IF input[r].op = "activate" \/ deleted THEN "ok" ELSE @]

\* Promise.all is fulfilled: createPool submits its transaction, activatePool
\* answers, deactivatePool answers 404 if no listener was found.
Completed(r, deleted) ==
  /\ GoTo(r, IF input[r].op = "create" THEN "submit" ELSE "done")
  /\ answer' = [answer EXCEPT ![r] =
       IF input[r].op = "create" THEN @
       ELSE IF input[r].op = "activate" \/ deleted THEN "ok" ELSE "notfound"]

\* No other request for the pool of r is under way.
Alone(r) ==
  \A o \in Requests \ {r} :
    input[o].ns = input[r].ns /\ input[o].pool = input[r].pool
    => pc[o] \in {"idle", "done"}

\* A task is fulfilled.  The last one completes the request, unless another
\* one has rejected it before.
Fulfilled(t, deleted) ==
  LET r == t.req IN
  /\ tasks' = tasks \ {t}
  /\ found' = IF deleted THEN found \cup {r} ELSE found
  /\ IF pc[r] = "tasks" /\ \A u \in tasks \ {t} : u.req # r
     THEN /\ Completed(r, r \in found')
          /\ settled' = [np \in DOMAIN settled |->
               IF np # <<input[r].ns, input[r].pool>> \/ ~Alone(r) THEN settled[np]
               ELSE IF input[r].op = "activate" THEN "active" ELSE "inactive"]
     ELSE UNCHANGED <<pc, answer, settled>>
  /\ UNCHANGED <<stream, purge>>

\* Mutant of Rejected: errors are swallowed.
RejectedSwallowed(t) == Fulfilled(t, FALSE)

\* A task is rejected, and with it the request if that is still waiting.  The
\* other tasks go on.
Rejected(t) ==
  /\ tasks' = tasks \ {t}
  /\ IF pc[t.req] = "tasks" THEN Rejects(t.req) ELSE UNCHANGED <<pc, answer>>
  /\ UNCHANGED <<stream, purge, found, settled>>

\* The subscriptions are listed; the task decides by what it saw.
TaskList(t) ==
  LET deactivates == input[t.req].op = "deactivate" IN
  /\ t.pc = "list"
  /\ \/ /\ deactivates <=> Existing(t) = {}
        /\ Fulfilled(t, FALSE)
     \/ /\ Existing(t) = {} /\ ~deactivates
        /\ tasks' = (tasks \ {t}) \cup {[t EXCEPT !.pc = "create"]}
        /\ UNCHANGED <<found, settled, requestVars, answer>>
     \/ /\ deactivates
        /\ \E s \in Existing(t) :
             tasks' = (tasks \ {t}) \cup {[t EXCEPT !.pc = "delete", !.sub = s.id]}
        /\ UNCHANGED <<found, settled, requestVars, answer>>
  /\ UNCHANGED <<connectorVars, streamCache, input, counts>>

\* createSubscription
TaskCreate(t) ==
  /\ t.pc = "create" /\ ~Unknown(t.stream)
  /\ subs' = subs \cup {[id |-> nextId, stream |-> t.stream, name |-> t.name]}
  /\ nextId' = nextId + 1
  /\ \/ Fulfilled(t, FALSE) /\ UNCHANGED failures
     \/ Rejected(t) /\ Fails
  /\ UNCHANGED <<streams, streamCache, input, crashes, losses>>

\* Mutant of TaskRefused: a 404 counts as an existing subscription.
RefusedIsFine(t) ==
  /\ t.pc = "create" /\ Unknown(t.stream)
  /\ Fulfilled(t, FALSE)
  /\ UNCHANGED <<connectorVars, streamCache, input, counts>>

\* createSubscription on a stream that is gone: streamCache is stale.
TaskRefused(t) ==
  /\ t.pc = "create" /\ Unknown(t.stream)
  /\ Rejected(t)
  /\ UNCHANGED <<connectorVars, streamCache, input, counts>>

\* DELETE /subscriptions/:id; 404 if it is gone.
TaskDelete(t) ==
  /\ t.pc = "delete"
  /\ subs' = {s \in subs : s.id # t.sub}
  /\ \/ subs' # subs /\ Fulfilled(t, TRUE) /\ UNCHANGED failures
     \/ subs' = subs /\ Rejected(t) /\ UNCHANGED failures
     \/ subs' # subs /\ Rejected(t) /\ Fails
  /\ UNCHANGED <<streams, nextId, streamCache, input, crashes, losses>>

\* The task's call never reaches the connector.
TaskFails(t) ==
  /\ Fails
  /\ Rejected(t)
  /\ UNCHANGED <<connectorVars, streamCache, input, crashes, losses>>

-----------------------------------------------------------------------------
\* createPool's transaction is submitted.
Submit(r) ==
  /\ pc[r] = "submit"
  /\ GoTo(r, "done")
  /\ Answers(r, "ok")
  /\ UNCHANGED <<connectorVars, streamCache, input, stream, purge, taskVars,
                 counts>>

\* An administrator of EVMConnect deletes a stream, and with it its listeners.
StreamLost(s) ==
  /\ losses < MaxLosses
  /\ "coldOverlap" \in Hazards \/ \A q, r \in Looking(s.name) : q = r
  /\ losses' = losses + 1
  /\ streams' = streams \ {s}
  /\ subs' = {b \in subs : b.stream # s.id}
  /\ settled' = [np \in DOMAIN settled |->
                   IF np[1] = s.name THEN "unknown" ELSE settled[np]]
  /\ UNCHANGED <<nextId, streamCache, input, requestVars, tasks, found, answer,
                 failures, crashes>>

\* The process is restarted: requests under way are never answered, FireFly
\* sees its connection fail.
Crash ==
  /\ crashes < MaxCrashes
  /\ crashes' = crashes + 1
  /\ streamCache' = [ns \in Namespaces |-> None]
  /\ tasks' = {}
  /\ pc' = [r \in Requests |-> IF pc[r] = "idle" THEN "idle" ELSE "done"]
  /\ answer' = [r \in Requests |->
       IF pc[r] \notin {"idle", "done"} THEN "error" ELSE answer[r]]
  /\ UNCHANGED <<connectorVars, input, stream, purge, found, settled, failures,
                 losses>>

Next ==
  \/ \E r \in Requests : \/ Begin(r) \/ PurgeList(r) \/ Purge(r)
                          \/ StreamList(r) \/ StreamSave(r) \/ StreamRefused(r)
                          \/ Query(r) \/ Submit(r) \/ RequestFails(r)
  \/ \E t \in tasks : \/ TaskList(t) \/ TaskCreate(t) \/ TaskRefused(t)
                       \/ TaskDelete(t) \/ TaskFails(t)
  \/ \E s \in streams : StreamLost(s)
  \/ Crash

Spec == Init /\ [][Next]_vars

-----------------------------------------------------------------------------
(* Properties                                                              *)

\* A pool whose activation succeeded has a listener for each of its events
\* on its namespace's stream, until the next request for it or until somebody
\* else deletes the stream: a stale streamCache never makes an activation
\* succeed that listens to nothing.
Listening ==
  \A np \in DOMAIN settled : settled[np] = "active" =>
    \A e \in Events : \E s \in subs :
      /\ s.name = [prefix |-> "address", pool |-> np[2], event |-> e]
      /\ s.stream \in StreamsOf(np[1])

\* Streams that events of a namespace may come from.
Sources(ns) == StreamsOf(ns) \cup StreamsOf(Deprecated)

\* A pool whose deactivation succeeded, or answered that there are no
\* listeners, has none on its namespace's stream or on that of an older
\* release (tokens.controller.ts: "Deactivate a token pool to delete all
\* listeners and stop receiving events").
Silent ==
  \A np \in DOMAIN settled : settled[np] = "inactive" =>
    \A s \in subs : s.name.pool = np[2] => s.stream \notin Sources(np[1])

\* No event is received twice: a namespace has one stream and one
\* subscription of each name, although every one is created after a look
\* that others may have taken too, and the stream of an older release is gone
\* before anything replaces it.
NoDuplicates ==
  \A ns \in Namespaces :
    /\ Cardinality(StreamsOf(ns)) <= 1
    /\ \A s, t \in subs :
         {s.stream, t.stream} \subseteq Sources(ns) /\ s.name = t.name => s = t

\* createPool goes on to submit its transaction only when both creation
\* events have a listener on the stream of the pool's namespace.
ListensBeforeCreate ==
  [][\A r \in Requests : pc[r] # "submit" /\ pc'[r] = "submit" =>
       \A e \in CreateEvents : \E s \in subs' :
         /\ s.name = [prefix |-> "address", pool |-> Base, event |-> e]
         /\ s.stream \in StreamsOf(input[r].ns)']_vars

\* A request that awaits the contract's address or ABI has its stream, and
\* its namespace has one cached.
CacheFilled ==
  \A r \in Requests : pc[r] = "query" =>
    stream[r] \in Nat /\ streamCache[input[r].ns] \in Nat

\* FireFly is left without an answer only while a call is under way: no task
\* that outlives its request, no failure and no restart makes a request wait
\* for a promise that is settled already.
Answered ==
  \A r \in Requests :
    /\ pc[r] = "done" <=> answer[r] # "none"
    /\ pc[r] = "tasks" => \E t \in tasks : t.req = r

=============================================================================
