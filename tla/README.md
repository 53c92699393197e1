# Verification of firefly-tokens-erc1155

TLA+ models, TLC runs and TLAPS proofs for the FireFly token connector for
ERC-1155 contracts. Paths are relative to the repository; `base.ts` is
`src/eventstream-proxy/eventstream-proxy.base.ts`, `service.ts` is
`src/event-stream/event-stream.service.ts`.

## 1. The system

The connector is one Node.js process (NestJS) between FireFly and a blockchain
connector (EVMConnect). FireFly calls a REST API to create, activate and
deactivate token pools and to mint, transfer, burn and approve; it receives
events over websockets. The connector calls EVMConnect over HTTP (contract
queries and transactions, event streams, subscriptions) and receives batches of
blockchain events over one upstream websocket per FireFly namespace.

| component | state | operations | interacts with | modelled |
| --- | --- | --- | --- | --- |
| event stream proxy (`base.ts`) | Maps `namespaceClients`, `namespaceEventStreamSocket`, `awaitingAck`, the promise chain `queue`, the cache `subscriptionNames` | connect, start, disconnect, batch arrives, task runs, ack | clients by websocket; event stream sockets by call and callback | `EventStreamProxy` |
| event stream socket (`service.ts` 38-159) | the websocket, `closeRequested`, the handle `pingTimeout`, the timers | init, open, close event, pong, ping, timeout, `close()`, ack, nack | EVMConnect's websocket | `EventStreamSocket`, `UpstreamSocket` |
| event stream service (`service.ts` 161-369) | none; the streams and subscriptions live in EVMConnect | list, create, update, delete | EVMConnect's REST API | `PoolSubscriptions` (as the tokens service uses it) |
| tokens service (`src/tokens/tokens.service.ts`) | `streamCache` | create, activate, deactivate pool; mint, transfer, burn, approve, balance | event stream service, blockchain connector, ABI mapper | `PoolSubscriptions` (pools), `TokenLedger` (token operations) |
| blockchain connector (`src/tokens/blockchain.service.ts`) | none beyond one call | retry loop around every HTTP call | EVMConnect | `BlockchainRetry` |
| pool listener (`src/tokens/tokens.listener.ts`) | none | turns one blockchain event into one websocket message | called by the proxy for each event | `TokenListener` |
| token ids, pool locators (`src/tokens/tokens.util.ts`) | none | pack and unpack ids, locators, signatures | used everywhere | `TokenIds` |
| ABI mapper (`src/tokens/abimapper.service.ts`) | cache of `supportsInterface` | choose a method for an operation | blockchain connector | `TokenLedger` |
| websocket base (`src/websocket-events/`) | `isAlive` per client, the interval timer | connection, pong, heartbeat, broadcast | FireFly clients; the proxy, by `handleDisconnect` | `ClientHeartbeat`, `ClientLinks` |
| REST controller (`src/tokens/tokens.controller.ts`) | none | one route for each request | tokens service | the requests of `PoolSubscriptions` and `TokenLedger` |
| health, logging, bootstrap | none | wiring | | not modelled: no state |
| sample Solidity contract | pools, `maxIndex`, balances | create, mint, burn, transfer, approve | deployed separately | environment of `TokenLedger` |

What is hard here:

* handlers interleave at every `await`, and several check a Map before one and
  write it after;
* the process keeps everything in memory and may be killed at any point, while
  the event stream keeps its checkpoint and resends;
* replies (ack, nack) name a batch by number, on connections that come and go;
* timers are rarely cancelled: a socket's reconnect timer and ping timeouts
  outlive the connection they were armed for;
* a client's connection may die without a word while messages are awaited from it;
* subscriptions are created by several HTTP calls of which some may fail, on a
  stream whose id is cached although others may delete it.

`PROJECT.json` lists every hazard with its line and the properties that catch it,
or why none does.

What makes each part correct:

* proxy: no batch is skipped and none arrives early, whatever fails; a batch is
  acked upstream only after a client acked it; a batch never gets stuck while a
  client is there; sockets exist exactly for the namespaces that have clients;
* socket: comes back after a loss, notices a dead peer in bounded time, ends
  when its owner closes it, ends a first connection only for its own unanswered ping;
* heartbeat: a client that answers stays, one that is dead is gone within two
  intervals, whenever in an interval it came or died;
* pools: after an activation that succeeded each event has exactly one
  listener, after a deactivation none;
* token operations: an operation reaches the token that was named, and what
  FireFly is told adds up to what the contract holds, pool by pool;
* retry: attempts and delays stay in the configured bounds and every call ends.

## 2. Modules

### EventStreamProxy

One action per handler, up to the handler's next `await`: a Node.js process
runs one handler at a time and switches at awaits only.

| action | code | |
| --- | --- | --- |
| `Connect` | `handleConnection`, base.ts 70-91 | |
| `StartJoins`, `StartConnects`, `ConnectDone`, `ConnectFails` | `startListening` 97-136 | split at `await connect`, where other handlers run; nothing is checked again after it |
| `Disconnect`, `DisconnectThrows` | `handleDisconnect` 138-163 | with the nacks, the Map updates and `close()` in one step |
| `StreamDispatch` | `handleMessage` (service.ts 134-148) and the queueing callback 105-110 | |
| `ProcessEvents`, `ProcessLost`, `ProcessUnknown` | `processEvents` 173-223, `send` 257-272 | sent to a client of the namespace, which may have left; the namespace has none; subscription unknown |
| `ClientAck`, `ClientAckThrows` | `handleAck` 225-255 | the second when `ws.send` on a connecting socket throws, which ends the process |
| `UpstreamDrop`, `Reconnect`, `WsOpen` | service.ts 58-97 | |
| `StreamReply`, `Crash`, `GoesMute` | external: EVMConnect, the operating system, a client's connection | a mute client acknowledges nothing and leaves when the heartbeat ends it |

Reductions:

* a client is one connection (`nanoid` gives each a new id), an upstream socket
  is named by the start that opened it, so one client does not have two starts
  of one namespace suspended at a time;
* a batch is its number; its events are modelled by the set of subscriptions
  they carry (`SubsOf`), which decides whether the batch can be resolved;
* `processEvents` is one step although it awaits: tasks are chained one after
  the other and only they touch `subscriptionNames`;
* an absent Map key is `{}` or `None`; the iteration order of
  `namespaceClients` is left open (any namespace may come first);
* an entry of the Map `awaitingAck` is `c \in tracked` with `awaitingAck[c]`. It
  outlives its client if that leaves while no namespace runs, because line 154 is
  inside the loop; a start that is resumed afterwards makes the client a member,
  and `send` then records messages in the entry although nobody gets them;
* a reply written on a connection that is ending may or may not arrive; replies
  are matched by topic and batch number, as EVMConnect does; messages without a
  batch number (the older array protocol) are not modelled;
* receipts and broadcasts keep no state and are left out.

`Hazards` names which hard behaviours a run may contain, so that a property can
be checked under exactly the behaviours it survives. With all of them in
`Hazards` nothing is restricted. The theorems of `EventStreamProxyProofs` hold for
every value of `Hazards`; those of `EventStreamProxyDrainProofs` say which of
them they exclude.

Bounds: `MaxBatch` batches per stream, `MaxDrops` upstream losses.

A client that goes mute stays in the Maps, is chosen by `send` and may hold a
batch. That it leaves in the end is not assumed out of the blue: it is what
`ClientLinks` promises and `ClientHeartbeat` implements.

### ClientHeartbeat and ClientLinks

`ClientHeartbeat` is `WebSocketEventsBase` (websocket-events.base.ts) in time:
one interval timer for all clients, a flag for each.

| action | code |
| --- | --- |
| `Connect` | the `connection` handler 83-91 and `handleConnection` 95-107 |
| `Pong`, `Close` | the `pong` handler 98-100, `handleDisconnect` 109-111 |
| `Ping` | `ping` 113-123, for all clients in one step: no `await` in it |
| `Die`, `Tick` | external: a connection that dies silently, time |

`Latency[c]` is when a pong of `c` has arrived at the latest; the timer runs
before the tick that follows it, and pongs, arrivals and departures happen at
any moment in between. `owes` is the client's unanswered ping: the library
answers every ping once, and `terminate()` with the `close` it causes is one
step. A flag is lost with its connection, so a client that returns is another
client. `broadcast` keeps no state, and `requireAuth` is never set.

`ClientLinks` is what the proxy relies on: a connection comes, may fall silent,
goes, and does not stay silent for ever. `LinksAsPromised` is the refinement.

### BatchDelivery

What the proxy promises a FireFly deployment: batch `b` is delivered only when
everything before it is behind the checkpoint, and the checkpoint moves past a
batch only when a client confirmed it. `DeliversBatches` states that
EventStreamProxy implements it (`confirmed <- clientAcked`).

### EventStreamSocket and UpstreamSocket

`EventStreamSocket` is one socket with its timers: the reconnect timer, any
number of "next ping" timers, any number of ping timeouts of which only the last
one's handle is kept. Time is a tick; a timer that is due fires before the next
tick, and network events happen at any moment in between. `PeerDies` leaves a
half-open connection, which is what the pings are for. `terminate()` and the
`close` event it causes are one step: between them the websocket does nothing.
`UpstreamSocket` is the life the proxy relies on, including that a close in the
backoff stops nothing.

### PoolSubscriptions

The three requests that create or delete listeners, and the proxy's `connect()`,
which creates streams too. Each HTTP call is one step; between two steps every
other request and task may make its own.

| action | code |
| --- | --- |
| `Begin` | `getStream` looks into `streamCache` (tokens.service.ts 162-166); `connect()` does not |
| `PurgeList`, `Purge` | `migrationCheck` 185-204; its comment promises a warning, the code deletes the deprecated streams |
| `StreamList`, `StreamSave`, `StreamRefused` | `createOrUpdateStream` (service.ts 203-243), then the cache is filled; 404 if the stream that was listed is gone |
| `Query` | `getContractAddress` and `getAbi` in `activatePool`, then its promises start |
| `TaskList`, `TaskCreate`, `TaskRefused`, `TaskDelete` | `getOrCreateSubscription`, `deleteSubscriptionByName` (service.ts 277-347), one task for each event; a subscription on a stream that is gone is refused |
| `Submit` | `createWithAddress` |
| `RequestFails`, `TaskFails`, `Crash` | any call may fail; the process may restart |
| `StreamLost` | external: an administrator of EVMConnect deletes a stream while its id is in `streamCache` |

`Promise.all` is modelled as it behaves: the first rejection answers the request,
the other tasks go on. A call that changes something may have its effect and lose
its answer. `stream` holds what the listing found and then the stream's id, as
the local variable in the code does. Streams and subscriptions are EVMConnect's
and survive a restart; EVMConnect does not refuse a second one of the same name,
and a call still on its way when the process dies is taken to be lost. Initially
there is nothing, or the stream of an older release with a listener for every
event of every pool, which `migrationCheck` has to remove before anything of
this release takes its place.

The comment over `migrationCheck` (tokens.service.ts 178-184) says that it logs a
warning and that users may have to delete subscriptions manually; the code
deletes the deprecated streams itself. The model follows the code, and
`NoDuplicates` and `Silent` depend on it.

After a stream was deleted by others, `streamCache` keeps its id: activations
fail with 404 until the process restarts, but none succeeds without listeners
(`Listening`), and no pool is created without them (`ListensBeforeCreate`).

`settled` is a history: what the last request for a pool achieved, if no other
request for the pool was under way. `Hazards` is empty in the passing run: with
`coldOverlap` (requests look for the stream of a namespace together while there
is none) two
streams are created and `NoDuplicates` and `Silent` fail; with `samePool` (a
repeated request while tasks of a failed one still run) `NoDuplicates`, `Silent`
and `Listening` fail. These are hazards of the code; no doc promises that FireFly
may do so, so they are listed in `PROJECT.json` as
hazards that no property catches, and not run as violations. The same goes for
the second of two requests that delete the deprecated streams at once: it fails,
and `Answered` asks only for an answer.

Bounds: three requests, `MaxFailures` failed calls, `MaxCrashes` restarts,
`MaxLosses` streams deleted by others.

### BlockchainRetry

`retryableCall` as a loop: `LoopHead` is its condition and either the next HTTP
call or the final error, `FailsWithMatch` the catch branch with the back-off,
`EndsWith` the way out through `wrapError`. `id` of a request is optional
(tokens.interfaces.ts 113-115): with one (`requestId`), the two calls carry the
same, because FireFly repeats requests too, and EVMConnect answers 409 to an id
it has seen; without one every submission that arrives is taken, also the loop's
own repetition after a lost answer. `taken` counts them. The settings are chosen in the initial state. `fromEnvironment` is whether
`RETRY_MAX_ATTEMPTS` was set in the environment, in which case it is a string:
`===` then never holds and `<=` converts. The number -1 can only come from the
default in `main.ts` and is left out of the runs (the loop would not end).

### TokenIds, TokenListener, TokenLedger

`TokenIds` has the operators of `tokens.util.ts` on numbers and records:
`IndexSize` stands for 2^128 and `TypeBit` for 2^255, two powers of two of which
the second is a multiple of the first (`WidthsAssumption`). `BitOr` is the
bitwise or, as a recursive function on the bits (`Or`), not an addition. `TokenListener` has one operator for each function of
`tokens.listener.ts`: an event and the locator of a subscription give a set of
messages. `TokenLedger` composes them with the request side and a contract:

| action | code |
| --- | --- |
| `CreatePool` | `createPool` (tokens.service.ts 206-268): the base subscription, then the transaction |
| `ActivatePool` | `activatePool` 270-341: four subscriptions, the block each starts from, and the answer that confirms a pool whose range is in the request |
| `Request`, through `Handle` and `Operate` | `mint`, `transfer`, `burn`, `approval` 385-463: the interface of the request, as `checkInterface` selected it, or `getAbi`; `getMethodAndParams`, the map of the chosen method in `erc1155.ts`, submission; a transaction without a method (`NoMethod`) if none fits; or the refusal of `verifyNoIndex`, `verifyHasIndex` |
| `Deliver` | the event stream's next event of a pool through `processEvents` and `onEvent` |
| `Mined`, `BatchTransfer` | the contract: the sample contract (new and old) or an OpenZeppelin one with manual indexes |

Reductions: the failures and interleavings of the HTTP calls are those of
PoolSubscriptions and BlockchainRetry, so a request is one step here; one
transaction is in flight at a time, because the contract serialises them and the
connector keeps nothing between them; an event sent twice gives the same message
(the listener has no state), so `told` is a set, and that FireFly gets a
message twice does not show here; the events of one pool arrive in the order of the chain, as the event
stream merges its listeners, and pools progress independently; one creation
subscription stands for the two signatures; balances are counted by units, one
for each token that moved, in the contract's events as in the messages; roles,
token URIs and payloads are left out. A failed
`supportsInterface` query is a possible answer of every first query. FireFly
activates a pool once, by one of its locators, and operates on tokens it was told
of.

A pool may be made of a range on any contract (`createFromExisting`): of the pools
that an existing contract has (`Existing`), and on the sample contract of a pool
that it created before (`Ranges`), without `config.blockNumber`, so that its
subscriptions start at block 0. Other ranges are not offered. `activatePool` then
answers with the pool (tokens.service.ts 325-338), on the sample contract besides
the message of the creation event, which has the same range.

A request has an interface or none. `Interfaces` are what `checkInterface` can
have made of the contract's ABI: the methods of the operation, or an empty list.
With none, `getAbi` decides, on a contract that is not FireFly's too: its calls
may then name a method of the older sample that the contract lacks.

Bounds: `MaxBlocks` transactions for each kind of contract, few enough that no
contract runs out of types or of indexes (`ContractsAssumption`): 2^127 and
2^128 of them in the code. `Zero` is no account and `NoIndex` no index
(`NamesAssumption`).

## 3. Runs

| run | constants | states | shows |
| --- | --- | --- | --- |
| `proxy_faults` | 2 clients, 2 namespaces, 2 batches each, all hazards but drops, silent clients and departures in the backoff; symmetric clients and namespaces | 612 k | `AtLeastOnce`, `InOrder`, `SocketPerNamespace`, `AwaitedByMember` |
| `proxy_drain` | 3 clients, 1 namespace, 2 batches, 1 drop, crashes, silent clients, fair | 290 k | `NoStrandedBatch`, `LastClientCloses`, `DisconnectNacks`, `StreamDrains`, refinement of `BatchDelivery` |
| `heartbeat` | ticks of 1 s: interval 5; 3 clients that answer after 0, 4 and 6 at the latest, fair | 252 k | `PromptStay`, `DeadWithinTwo`, refinement of `ClientLinks` |
| `socket` | ticks of 5 s: reconnect 1, interval 2, timeout 12; 2 connections, fair | 217 k | `Watched`, `DeadDetected`, `Returns`, `FirstConnectionTimeout`, refinement of `UpstreamSocket` |
| `pools` | 1 namespace, 2 pools, 2 events, 3 requests, 2 failures, 1 restart, 1 lost stream, with and without an older stream, symmetric requests | 1.5 M | `Listening`, `Silent`, `NoDuplicates`, `ListensBeforeCreate`, `Answered` |
| `ledger` | 2 accounts, ids of 7 bits (3 of them index), 3 kinds of contract, 3 transactions | 111 k | `LedgerAgrees`, `BalanceAnswered`, `IndexIsOffset`, `IdsUnique`, `ApprovalsAgree`, `PoolConfirmed`, `CallsExist` |
| `retry` | 2 calls, with a request id and without, 26 settings, fair | 35 k | `AttemptsWithin`, `BackoffGrows`, `SubmissionsBounded`, `CallsEnd` |

Why the bounds are enough. Two batches let a stale reply or task of batch 1 meet
batch 2; one drop lets a batch be resent while its first copy is queued or held;
a third client lets one client leave while another holds the batch and the last
one keeps the namespace alive; two namespaces are what the loop in
`handleDisconnect` and the shared `awaitingAck` list distinguish. A client that
answers just within the interval and one that just misses it are the two sides
of the heartbeat's only comparison; clients do not influence each other there.
Two
connections of a socket let timers of the first act on the second. Three
requests allow an activation that fails, its repetition and a deactivation, or
two pools that share what a third request created; one event of each kind is
what the two streams in `activatePool` distinguish. Three
transactions are two pools filled and a batch across them on an OpenZeppelin
contract, an approval between the creation of two pools, or a pool of the sample
contract that is filled and then moved or burnt from. Retries of 0 to 3 cover the
first, a middle and the last round, with delays below and above the limit. The
safety properties are proved besides, for all values that satisfy the hypotheses
named in section 5.

Violations. Each checks what a comment or the README of the code says, quoted in
`PROJECT.json`:

| run | what happens |
| --- | --- |
| `ack_two_namespaces` | `handleAck` tests `!awaitingAck.filter(...)`, false for every array: with messages of two namespaces in flight the finished batch is not acked |
| `leave_nacks_first` | `handleDisconnect` deletes the client's `awaitingAck` while visiting the first namespace of the Map: messages of other namespaces are not nacked, even when each client uses only one |
| `zombie_reconnect` | the last client leaves during the reconnect delay: `close()` does not cancel the timer and `init()` clears `closeRequested`, so the socket returns for nobody |
| `index_offset` | an existing pool of ids 5 and 6: `computeTokenId` makes `5 \| 1 = 5` of index 1, `computeTokenIndex` calls token 6 index 1; pools aligned as the sample contract aligns them are safe (`ledger`) |
| `retry_indefinitely` | `RETRY_MAX_ATTEMPTS=-1` in the environment: the loop compares the string `'-1'` and makes no HTTP call at all |

Three more defects show with these modules and have no run of their own. Two
overlapping starts of a namespace open two sockets of which one is never closed
(`LastClientCloses` with `startOverlap` in `Hazards`). A client that leaves while
its start connects becomes a member afterwards and stays one (`LastClientCloses`
with `leaveStarting`). A pool locator without a
contract address (`LegacyPools`) is activated under the contract's address and
deactivated under `''`, so its listeners stay and the answer is 404 (`Silent`).

How far the guarantees reach: `proxy_drain` allows drops, crashes and silent clients, and
`NoStrandedBatch`, `LastClientCloses` and `StreamDrains` hold there. Each of
`startOverlap`, `leaveStarting`, `leaveBackoff`, `lookup`, `ackReorder` and a
second namespace breaks `NoStrandedBatch` by itself: the batch then waits until
the upstream connection ends. It is never skipped: that is `AtLeastOnce`, which
holds with all of them.

## 4. Fairness

EventStreamProxy: an HTTP call of a start ends, timers fire, the upstream
websocket gets through, the event stream sends on an open connection and reads
replies, the task queue runs, and a client that received messages acknowledges
some of them in time. A client that goes mute leaves: `ClientHeartbeat` ends its
connection. All weak: each of these stays enabled until it happens.
No client is obliged to connect, start or leave; `StreamDrains` asks only for
streams that have clients from some point on. FireFly clients do acknowledge;
without that no gateway could drain.

ClientHeartbeat: time passes, the interval timer runs, and the pongs of live
clients arrive. No client is obliged to come, to close or to die.

EventStreamSocket: time passes and due timers run. The network owes nothing.

BlockchainRetry: an HTTP call ends, with any of its outcomes, and a delay ends.

## 5. Proofs

`EventStreamProxyProofs` proves, for every set of clients and namespaces, every
bound and every choice of hazards:

* `TypeCorrect`: `Spec => []TypeOK`;
* `NothingSkipped`, `DeliveredInOrder`: `AtLeastOnce` and `InOrder`;
* `SocketForClients`, `AwaitedFromMembers`: `SocketPerNamespace` and `AwaitedByMember`;
* `Refinement`: `Spec => DeliversBatches`.

The argument for `AtLeastOnce` follows the batch. `BatchFlow` says of every
queued task, awaited message and reply how far its batch can be: a task's batch
is at most the next one after the checkpoint, a message's batch was delivered,
an ack's batch was confirmed. `AtLeastOnce` alone is not inductive: only
`BatchFlow` says that an ack that arrives late, after a crash or a resend, is
for a batch some client did confirm. `InOrder` follows from the same invariant.
`SocketPerNamespace` needs `AwaitedByMember` and the types. That a message is
awaited from one client only (`OneHolder`, from `IdsFresh`: every id in use is
below `nextId`) holds by the way ids are made; it is a fact the proofs use, not a
result. `IInv` is the conjunction
(theorem `Invariance`); TLC checked it on small instances before it was proved.
A mute client changes nothing in it: the messages it holds are awaited from a
member of the namespace as before. Nor does one that left and became a member
afterwards, whose messages are awaited in vain: `AwaitedByMember` says that only
its own start can have brought it there, and that its namespace has a socket. The assumptions used are the named ones of the module: the bounds are naturals, `SubsOf` is a
function, `None` is not a socket.

`PoolSubscriptionsProofs` proves `TypeOK` and `Answered` for any events, pools,
requests, bounds and hazards. `Answered` is inductive with the types and
`CacheFilled`, which says that an activation waiting for the contract's address
has a stream to go on with; a request starts with at least one task because
there is at least one creation event (`EventsAssumption`), a task replaces
itself or ends, and the last one to end answers.

`ClientHeartbeatProofs` proves, for any clients, latencies and interval,
`DeadWithinTwo`, `PromptStay` and that every step is one of `ClientLinks`
(`LinksFollow`; its liveness stays with TLC). `HInv` ties three clocks together:
the flag of a connected client is down exactly while it owes an answer
(`FlagsAgree`), an answer is owed since the last ping (`OwedSincePing`), and a
dead client is within one interval of its death before the first ping and within
two after it (`Deaths`). `PromptStay` follows: when the timer runs, a whole
interval has passed since a ping that is still unanswered.

`EventStreamProxyDrainProofs` proves what holds when some hazards are spared,
for any clients and bounds; drops, crashes, resends and silent clients stay.

* `UnneededSocketsClose` (`LastClientCloses`), if no two starts of a namespace
  overlap, nobody leaves during the reconnect delay (`OrderlySockets`) or while
  its start connects. Without the last, the namespace's only client may be one
  that is gone (`MembersConnected` excludes it). The invariant is `Linked`: a socket that lives is the one its namespace knows, a
  start is the only one of its namespace, an unanswered batch was sent on an
  open connection.
* `DepartureNacks` (`DisconnectNacks`), with one namespace: an action property,
  from `AwaitedByMember`. The run `leave_nacks_first` shows why one namespace.
* `BatchesAreNotStranded` (`NoStrandedBatch`), with one namespace and `Orderly`,
  which excludes each hazard that section 3 says breaks it by itself. `Sorted`
  is the part that is not obvious: queued batches are in order, a client holds
  none later than a queued one, and was sent those it holds in order. An ack is
  passed on only when the client owes no other message, so it may be swallowed
  because of another batch: `Sorted` says that what is owed then is later, and
  `BatchFlow` that it is not later than the batch in flight.

`EventStreamSocketProofs` proves, for any times and any number of connections
and without further hypotheses, `TypeOK`, `Watched`, `DeadDetected`,
`FirstConnectionTimeout` and the refinement `LivesAsUpstreamSocket`. `SInv` has
two parts that are not properties. `DeadlineRuns` bounds each timer from the
moment the peer died: a dead connection has a ping timeout that fires within
`PING_INTERVAL + PING_TIMEOUT` of the death, or a next ping due within
`PING_INTERVAL` of it, which then arms one; a leftover timer of an earlier
connection can only end it sooner. `FirstConnection` says that the first
connection has exactly one timer at a time, which is what later ones lose.

`PoolListenersProofs` proves `Listening`, `NoDuplicates` and
`ListensBeforeCreate` with `Hazards = {}`, and `Silent` with `LegacyPools = {}`
besides, for any namespaces, pools, requests and bounds: failures, restarts, lost
answers and lost streams may happen between any two calls. Without these
hypotheses they are false (sections 2 and 3). Of the invariant `LInv`, these
parts carry the argument. `Seen`: what a task saw in its listing is still so
when it creates or deletes, although every other request made its calls in
between; it needs `OnePerPool` (no other request has tasks for the pool),
`Unique` (no other task of the request has the name) and `OneCreator` (nobody
else makes a second stream). `Owned` and `CacheLive`: an id that is remembered
is that of a stream of the namespace or of one that is gone, and if the cached
one is gone then nothing listens and every task will be refused. `Activating`
and `Deactivating`: each event has its listener, or lost it, or a task still
works on it; the last task to end thus leaves what the answer promises.
`Migrated`: nothing of this release happens before the old stream is gone.

`TokenLedgerProofs` proves, for any accounts, widths, contracts and bounds:

* `CallsAreImplemented` (`CallsExist`): a call that names a method names one the
  sample contract has, or on another contract one of the older sample at worst,
  which is the fallback README.md describes. `Callable` adds that the connector
  takes a contract for the new sample contract only if it is;
* `ApprovalsKnown` (`ApprovalsAgree`), from `AInv`: a pool was told of the
  approvals behind its subscription and of nothing else, and the order of the
  ids is the order of the chain;
* `IdsIdentify` (`IdsUnique`), if the pools of an existing contract do not
  overlap (`Apart`): from `BInv`, which says that pools FireFly knows are pools
  of the contract, each active by one locator. Two pools hear of one approval,
  and only their `startId`s tell the messages apart; that they differ is
  arithmetic about ids (`Numbered`);
* `IndexesAreOffsets` (`IndexIsOffset`), if pools of an existing contract start
  at a multiple of `IndexSize` and are no longer than it (`Aligned`), which the
  run `index_offset` shows to be necessary, and which the pools that the sample
  contract makes always satisfy (a lemma, not a hypothesis);
* `PoolsAreConfirmed` (`PoolConfirmed`), from `CInv`: whatever confirms a pool
  carries its range; the event of its creation is among it if there is one, and
  no other event is. Types are created once, a
  locator names one creation, and the block in it is at most the block of that
  creation, so that the pool's subscription starts before it. The cardinality
  of what is before a block is compared with a place in the chain
  (`StartsBefore`);
* `BooksAgree` (`LedgerAgrees`), if a fungible pool of an existing contract is a
  single id (`Singular`): what FireFly was told of a pool adds up to what the
  contract holds of it, for every account. `createFromExisting` accepts any
  range, and a fungible pool's messages carry no index, so two of its tokens
  would be added together;
* `BalancesAreAnswered` (`BalanceAnswered`), if `Aligned` holds besides, because
  the id that is asked about is put together from its pool and index;
* `TypeCorrect` (`TypeOK`), from `EInv`. What it says beyond the shape of records
  is that nothing overflows: an id is below 2^256 (`BitOrFits`), also when the
  contract chooses the index (`IndexesFit`), and so is the end of a pool
  (`SamplePoolTyped`).

`BooksAgree` rests on `DInv`. A token is minted only in a pool that was created
before (`MintsInPools`), with an index that does not run into the next pool
(`Amounted`, `Room`, `MintFits`), and what moves was minted (`MovesInPools`).
So a subscription that starts at the pool's own block has missed nothing
(`NothingBefore`), and FireFly was told of every move that its subscriptions have
passed (`TransfersTold`); that it was told of nothing else is `Sent` in `BInv`.
The rest is counting: a move corresponds to one message of the same amount, as no
two moves of a chain share block, log and place in the batch
(`OneMoveOfAMessage`), and sets that correspond one to one have as many units
(`UnitsMatch`, `BooksMatch`).

Under them is the arithmetic of `TokenIds`: `Or` is the function its definition
says (`OrUnfolds`), numbers with no bit in common are added (`BitOrAdds`), and no
bit appears that neither had (`BitOrFits`).
Induction is not available, so all three are proved from the least counterexample.

`BlockchainRetryProofs` proves, for any settings and calls, `TypeOK`,
`AttemptsWithin`, `SubmissionsBounded` and `BackoffGrows`. `Counted` relates
the loop's counter, which is not what the documentation counts, to the HTTP calls
made. `Submitted` relates these to what the connector took: at most one
transaction for each HTTP call, and none yet for the call under way; without a
retry condition there is only one call. `Delayed` says which counter the last delay belongs to; that delays which
are computed from a power each grow from the one before, also when that was cut
at the limit, is `BackoffSteps`. `Power` is a recursive function for `Math.pow`,
because the prover knows nothing about `^`.

Only model-checked: everything with fairness (`StreamDrains`, `Returns`,
`CallsEnd`, the promise of `ClientLinks`), because liveness is out of the
prover's reach.

## 6. Plan

All modules are written and every safety property of the runs is proved, under
the hypotheses that section 5 names. What is left is to make the hypotheses fewer:

1. `UnneededSocketsClose` and `BatchesAreNotStranded` with the hazards one by
   one, to see which of them each part of the invariant spends.
2. `BooksAgree` without `Singular`, for the pools that FireFly did activate
   instead of all of `Existing`.

### Not modelled

* health check, request context, logging, bootstrap: no state that anything reads
  back;
* in the REST controller, validation and status codes; `init` does nothing and
  `receipt/:id` is one call of `BlockchainRetry`;
* the caching of the contract's address and the age of `supportCache` entries
  (500 contracts): one contract is modelled, and its address does not change;
* the ABI tables beyond the methods they list, the spelling of names, hex data
  and URIs, message formatting;
* the array protocol of batches without a number: what an ack of an undefined
  number does is up to the event stream;
* roles and token URIs of the sample contract.
