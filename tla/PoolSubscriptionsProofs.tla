----------------------- MODULE PoolSubscriptionsProofs -----------------------
(***************************************************************************)
(* Proofs about PoolSubscriptions, for any namespaces, pools, events,      *)
(* requests, bounds and hazards.                                           *)
(***************************************************************************)
EXTENDS PoolSubscriptions, TLAPS

\* TypeOK, that a suspended activation has a stream to go on with, and that
\* nobody waits for nothing.
PInv == TypeOK /\ CacheFilled /\ Answered

-----------------------------------------------------------------------------
(* What the helpers return                                                 *)

LEMMA InputFields ==
  ASSUME NEW i \in Input
  PROVE  i.ns \in Namespaces /\ i.pool \in Pools \cup {Base}
BY DEF Input

\* Tasks for streams that exist are tasks.
LEMMA TasksForType ==
  ASSUME input \in [Requests -> Input], NEW r \in Requests,
         NEW id \in Nat, NEW cached \in Nat
  PROVE  TasksFor(r, id, cached) \subseteq Task
<1>1. ASSUME NEW e \in Events, NEW n \in Nat PROVE NewTask(r, e, n) \in Task
  <2>1. input[r].pool \in Pools \cup {Base}
    BY InputFields
  <2>2. [prefix |-> PrefixFor(input[r].op, input[r].pool),
         pool |-> input[r].pool, event |-> e] \in SubName
    BY <2>1 DEF SubName, PrefixFor
  <2>3. QED
    BY <2>2 DEF NewTask, Task, OptId
<1>2. QED
  BY <1>1 DEF TasksFor, Events

\* All a request's tasks belong to it, and there is one.
LEMMA TasksForOwn ==
  ASSUME NEW r \in Requests, NEW id, NEW cached
  PROVE  /\ \A t \in TasksFor(r, id, cached) : t.req = r
         /\ \E t \in TasksFor(r, id, cached) : t.req = r
<1>1. \A e, n : NewTask(r, e, n).req = r
  BY DEF NewTask
<1>2. PICK e \in CreateEvents : TRUE
  BY EventsAssumption
<1>3. NewTask(r, e, cached) \in TasksFor(r, id, cached)
  BY <1>2 DEF TasksFor
<1>4. QED
  BY <1>1, <1>3 DEF TasksFor

\* The variables of the requests, their types and their waiting.
Waiting ==
  /\ pc \in [Requests -> Finding \cup {"idle", "query", "tasks", "submit", "done"}]
  /\ stream \in [Requests -> OptId]
  /\ tasks \subseteq Task
  /\ answer \in [Requests -> {"none", "ok", "notfound", "error"}]

\* A request that has its stream keeps the types and is answered if it ends.
LEMMA HasStreamStep ==
  ASSUME input \in [Requests -> Input], Waiting, Answered,
         NEW r \in Requests, NEW id \in Nat, HasStream(r, id), answer[r] = "none"
  PROVE  /\ Waiting'
         /\ \A o \in Requests :
              /\ pc'[o] = "done" <=> answer'[o] # "none"
              /\ pc'[o] = "tasks" => \E t \in tasks' : t.req = o
         /\ stream'[r] = id
         /\ \A o \in Requests \ {r} : pc'[o] = pc[o] /\ stream'[o] = stream[o]
<1>1. TasksFor(r, id, id) \subseteq Task
  BY TasksForType
<1>2. \E t \in TasksFor(r, id, id) : t.req = r
  BY TasksForOwn
<1>3. stream' = [stream EXCEPT ![r] = id] /\ id \in OptId
  BY DEF HasStream, OptId
<1>4. CASE GoTo(r, "done") /\ Answers(r, "ok") /\ UNCHANGED tasks
  BY <1>3, <1>4, SMT DEF Waiting, Answered, GoTo, Answers
<1>5. CASE GoTo(r, "query") /\ UNCHANGED <<tasks, answer>>
  BY <1>3, <1>5, SMT DEF Waiting, Answered, GoTo
<1>6. CASE /\ GoTo(r, "tasks") /\ UNCHANGED answer
           /\ tasks' = tasks \cup TasksFor(r, id, id)
  <2>1. Waiting'
    BY <1>1, <1>3, <1>6, SMT DEF Waiting, GoTo
  <2>2. pc' = [pc EXCEPT ![r] = "tasks"] /\ pc \in [Requests -> Finding \cup {"idle", "query", "tasks", "submit", "done"}]
    BY <1>6 DEF GoTo, Waiting
  <2>3. stream \in [Requests -> OptId]
    BY DEF Waiting
  <2> HIDE DEF TasksFor
  <2>4. QED
    BY <1>2, <1>3, <1>6, <2>1, <2>2, <2>3 DEF Answered
<1>7. QED
  BY <1>4, <1>5, <1>6 DEF HasStream

\* A settled promise keeps all this as well, for every other request.
LEMMA SettledStep ==
  ASSUME Waiting, Answered, NEW t \in tasks,
         (\E deleted \in BOOLEAN : Fulfilled(t, deleted)) \/ Rejected(t)
  PROVE  /\ Waiting'
         /\ Answered'
         /\ \A o \in Requests : pc'[o] = "query" => pc[o] = "query"
         /\ UNCHANGED <<stream, purge>>
<1> DEFINE r == t.req
<1>1. r \in Requests /\ tasks' = tasks \ {t} /\ UNCHANGED <<stream, purge>>
  BY DEF Waiting, Task, Fulfilled, Rejected
<1>2. \/ UNCHANGED <<pc, answer>> /\ (pc[r] # "tasks" \/ \E u \in tasks' : u.req = r)
      \/ /\ pc[r] = "tasks"
         /\ \E p \in {"submit", "done"}, a \in {"none", "ok", "notfound", "error"} :
              /\ pc' = [pc EXCEPT ![r] = p]
              /\ answer' = [answer EXCEPT ![r] = a]
              /\ p = "done" <=> a # "none"
  <2>1. CASE Rejected(t)
    BY <2>1 DEF Rejected, Rejects, GoTo, Answers
  <2>2. ASSUME NEW deleted \in BOOLEAN, Fulfilled(t, deleted)
        PROVE  <1>2
    <3>1. CASE pc[r] = "tasks" /\ \A u \in tasks \ {t} : u.req # r
      <4>1. PICK b : Completed(r, b)
        BY <2>2, <3>1 DEF Fulfilled
      <4>2. answer[r] = "none"
        BY <1>1, <3>1 DEF Answered
      <4>3. CASE input[r].op = "create"
        <5>1. pc' = [pc EXCEPT ![r] = "submit"] /\ answer' = [answer EXCEPT ![r] = "none"]
          BY <4>1, <4>2, <4>3 DEF Completed, GoTo
        <5>2. QED
          BY <3>1, <5>1
      <4>4. CASE input[r].op # "create"
        <5>1. /\ pc' = [pc EXCEPT ![r] = "done"]
              /\ \E a \in {"ok", "notfound"} : answer' = [answer EXCEPT ![r] = a]
          BY <4>1, <4>4 DEF Completed, GoTo
        <5>2. QED
          BY <3>1, <5>1
      <4>5. QED
        BY <4>3, <4>4
    <3>2. CASE ~(pc[r] = "tasks" /\ \A u \in tasks \ {t} : u.req # r)
      <4>1. UNCHANGED <<pc, answer>>
        BY <2>2, <3>2 DEF Fulfilled
      <4>2. QED
        BY <1>1, <3>2, <4>1
    <3>3. QED
      BY <3>1, <3>2
  <2>3. QED
    BY <2>1, <2>2
<1>3. Waiting'
  BY <1>1, <1>2, SMT DEF Waiting
<1>4. ASSUME NEW o \in Requests
      PROVE  /\ pc'[o] = "done" <=> answer'[o] # "none"
             /\ pc'[o] = "tasks" => \E u \in tasks' : u.req = o
             /\ pc'[o] = "query" => pc[o] = "query"
  <2> pc \in [Requests -> Finding \cup {"idle", "query", "tasks", "submit", "done"}]
      /\ answer \in [Requests -> {"none", "ok", "notfound", "error"}]
    BY DEF Waiting
  <2>1. /\ pc[o] = "done" <=> answer[o] # "none"
        /\ pc[o] = "tasks" => \E u \in tasks : u.req = o
    BY DEF Answered
  <2>2. CASE o = r
    BY <1>1, <1>2, <2>1, <2>2
  <2>3. CASE o # r
    BY <1>1, <1>2, <2>1, <2>3
  <2>4. QED
    BY <2>2, <2>3
<1>5. QED
  BY <1>1, <1>3, <1>4 DEF Answered

-----------------------------------------------------------------------------
(* The invariant                                                           *)

\* A request that moves between two labels, or is rejected.
LEMMA LabelStep ==
  ASSUME Waiting, Answered, NEW r \in Requests, pc[r] \notin {"idle", "done"},
         UNCHANGED tasks, stream' \in [Requests -> OptId],
         \/ /\ \E p \in Finding \cup {"query", "submit"} : GoTo(r, p)
            /\ UNCHANGED answer
         \/ Rejects(r)
         \/ GoTo(r, "done") /\ Answers(r, "ok")
  PROVE  Waiting' /\ Answered'
<1>1. \/ \E p \in Finding \cup {"query", "submit"} :
           pc' = [pc EXCEPT ![r] = p] /\ UNCHANGED answer
      \/ \E a \in {"ok", "error"} :
           pc' = [pc EXCEPT ![r] = "done"] /\ answer' = [answer EXCEPT ![r] = a]
  BY DEF GoTo, Rejects, Answers
<1>2. Waiting'
  BY <1>1, SMT DEF Waiting, Finding
<1>3. Answered'
  BY <1>1, SMT DEF Waiting, Answered, Finding
<1>4. QED
  BY <1>2, <1>3

LEMMA CountsFailure ==
  ASSUME failures \in 0..MaxFailures, Fails
  PROVE  failures' \in 0..MaxFailures
BY BoundsAssumption, SMT DEF Fails

\* PInv is inductive: one step per action.
LEMMA PInductive == PInv /\ [Next]_vars => PInv'
<1> SUFFICES ASSUME PInv, [Next]_vars PROVE PInv'
  OBVIOUS
<1> USE DEF PInv
<1>w. TypeOK /\ Waiting /\ Answered /\ CacheFilled
  BY DEF TypeOK, Waiting
<1>1. ASSUME NEW r \in Requests, Begin(r) PROVE PInv'
  <2>1. input[r].ns \in Namespaces /\ pc[r] = "idle" /\ answer[r] = "none"
    BY <1>1, InputFields DEF TypeOK, Begin, MayBegin, Answered
  <2>2. CASE HasStream(r, streamCache[input[r].ns]) /\ streamCache[input[r].ns] # None
    <3>1. streamCache[input[r].ns] \in Nat
      BY <2>1, <2>2 DEF TypeOK, OptId
    <3>2. /\ Waiting' /\ Answered'
          /\ stream'[r] = streamCache[input[r].ns]
          /\ \A o \in Requests \ {r} : pc'[o] = pc[o] /\ stream'[o] = stream[o]
      BY <1>w, <2>1, <2>2, <3>1, HasStreamStep DEF TypeOK, Answered
    <3>3. TypeOK'
      BY <1>1, <3>2, SMT DEF TypeOK, Waiting, Begin, connectorVars, counts
    <3>4. CacheFilled'
      BY <1>1, <3>1, <3>2 DEF CacheFilled, Begin
    <3>5. QED
      BY <3>2, <3>3, <3>4
  <2>3. CASE /\ \E p \in Finding : GoTo(r, p)
             /\ UNCHANGED <<stream, tasks, answer>>
    <3>1. TypeOK'
      BY <1>1, <2>3, SMT DEF TypeOK, Begin, connectorVars, counts, GoTo
    <3>2. CacheFilled'
      BY <1>1, <2>3 DEF TypeOK, CacheFilled, Begin, GoTo, Finding
    <3>3. Answered'
      BY <1>1, <2>1, <2>3 DEF TypeOK, Answered, Begin, GoTo, Finding
    <3>4. QED
      BY <3>1, <3>2, <3>3
  <2>4. QED
    BY <1>1, <2>2, <2>3 DEF Begin, Finding
<1>2. ASSUME NEW r \in Requests, PurgeList(r) PROVE PInv'
  <2>1. Waiting' /\ Answered'
    BY <1>2, <1>w, LabelStep DEF PurgeList, taskVars, Waiting, Finding
  <2>2. purge' \in [Requests -> SUBSET Nat]
    <3>1. {s.id : s \in {t \in streams : t.name = Deprecated}} \subseteq Nat
      BY DEF TypeOK, Stream
    <3>2. QED
      BY <1>2, <3>1 DEF TypeOK, PurgeList
  <2>3. TypeOK'
    BY <1>2, <2>1, <2>2, SMT DEF TypeOK, Waiting, PurgeList, connectorVars, counts, taskVars
  <2>4. CacheFilled'
    BY <1>2 DEF TypeOK, CacheFilled, PurgeList, GoTo
  <2>5. QED
    BY <2>1, <2>3, <2>4
<1>3. ASSUME NEW r \in Requests, Purge(r) PROVE PInv'
  <2>1. PICK id \in purge[r], lost \in BOOLEAN :
          /\ streams' = {s \in streams : s.id # id}
          /\ subs' = {s \in subs : s.stream # id}
          /\ purge' = [purge EXCEPT ![r] = @ \ {id}]
          /\ IF lost THEN Fails ELSE UNCHANGED failures
          /\ IF lost \/ streams' = streams
             THEN Rejects(r)
             ELSE /\ GoTo(r, IF purge'[r] = {} THEN "streamList" ELSE "purge")
                  /\ UNCHANGED answer
    BY <1>3 DEF Purge
  <2>2. /\ pc[r] = "purge" /\ UNCHANGED <<tasks, stream>>
        /\ \/ Rejects(r)
           \/ (GoTo(r, "streamList") \/ GoTo(r, "purge")) /\ UNCHANGED answer
    BY <1>3, <2>1 DEF Purge, taskVars
  <2>3. Waiting' /\ Answered'
    BY <1>w, <2>2, LabelStep DEF Waiting, Finding
  <2>4. failures' \in 0..MaxFailures
    BY <2>1, CountsFailure DEF TypeOK
  <2>5. /\ streams' \subseteq Stream /\ subs' \subseteq Subscription
        /\ purge' \in [Requests -> SUBSET Nat]
    BY <2>1 DEF TypeOK
  <2>6. TypeOK'
    BY <1>3, <2>3, <2>4, <2>5, SMT DEF TypeOK, Waiting, Purge, taskVars
  <2>7. CacheFilled'
    BY <1>3, <2>2 DEF TypeOK, CacheFilled, Purge, Rejects, GoTo
  <2>8. QED
    BY <2>3, <2>6, <2>7
<1>4. ASSUME NEW r \in Requests, StreamList(r) PROVE PInv'
  <2>1. StreamsOf(input[r].ns) \subseteq Nat
    BY DEF TypeOK, Stream, StreamsOf
  <2>2. stream' \in [Requests -> OptId]
    BY <1>4, <2>1 DEF TypeOK, StreamList, OptId
  <2>3. Waiting' /\ Answered'
    BY <1>4, <1>w, <2>2, LabelStep DEF StreamList, taskVars, Finding
  <2>4. TypeOK'
    BY <1>4, <2>3, SMT DEF TypeOK, Waiting, StreamList, connectorVars, counts, taskVars
  <2>5. CacheFilled'
    <3>1. \A o \in Requests : pc'[o] = "query" => pc[o] = "query" /\ stream'[o] = stream[o]
      BY <1>4 DEF TypeOK, StreamList, GoTo
    <3>2. QED
      BY <1>4, <3>1 DEF CacheFilled, StreamList
  <2>6. QED
    BY <2>3, <2>4, <2>5
<1>5. ASSUME NEW r \in Requests, StreamSave(r) PROVE PInv'
  <2> DEFINE ns == input[r].ns
             id == IF stream[r] = None THEN nextId ELSE stream[r]
  <2>1. /\ ns \in Namespaces /\ id \in Nat /\ pc[r] = "streamSave" /\ answer[r] = "none"
    BY <1>5, InputFields DEF TypeOK, StreamSave, Answered, OptId
  <2>2. /\ streams' \subseteq Stream /\ nextId' \in Nat
    <3>1. [id |-> nextId, name |-> ns] \in Stream
      BY <2>1 DEF TypeOK, Stream
    <3>2. QED
      BY <1>5, <3>1 DEF TypeOK, StreamSave
  <2>3. CASE Fails /\ Rejects(r) /\ UNCHANGED <<streamCache, stream, tasks>>
    <3>1. Waiting' /\ Answered'
      BY <1>w, <2>1, <2>3, LabelStep DEF Waiting
    <3>2. failures' \in 0..MaxFailures
      BY <2>3, CountsFailure DEF TypeOK
    <3>3. TypeOK'
      BY <1>5, <2>2, <2>3, <3>1, <3>2, SMT DEF TypeOK, Waiting, StreamSave
    <3>4. CacheFilled'
      BY <1>5, <2>3 DEF TypeOK, CacheFilled, StreamSave, Rejects, GoTo
    <3>5. QED
      BY <3>1, <3>3, <3>4
  <2>4. CASE /\ HasStream(r, id)
             /\ streamCache' = IF input[r].op = "connect" THEN streamCache
                               ELSE [streamCache EXCEPT ![ns] = id]
             /\ UNCHANGED failures
    <3>1. /\ Waiting' /\ Answered' /\ stream'[r] = id
          /\ \A o \in Requests \ {r} : pc'[o] = pc[o] /\ stream'[o] = stream[o]
      BY <1>w, <2>1, <2>4, HasStreamStep DEF TypeOK, Answered
    <3>2. streamCache' \in [Namespaces -> OptId]
      BY <2>1, <2>4 DEF TypeOK, OptId
    <3>3. TypeOK'
      BY <1>5, <2>2, <2>4, <3>1, <3>2, SMT DEF TypeOK, Waiting, StreamSave
    <3>4. ASSUME NEW o \in Requests, pc'[o] = "query"
          PROVE  stream'[o] \in Nat /\ streamCache'[input[o].ns] \in Nat
      <4>1. CASE o = r
        <5>1. input[r].op # "connect"
          BY <2>4, <3>4, <4>1 DEF HasStream, GoTo, TypeOK
        <5>2. QED
          BY <2>1, <2>4, <3>1, <4>1, <5>1 DEF TypeOK
      <4>2. CASE o # r
        <5>1. stream'[o] \in Nat /\ streamCache[input[o].ns] \in Nat
          BY <1>w, <3>1, <3>4, <4>2 DEF CacheFilled
        <5>2. input[o].ns \in Namespaces
          BY InputFields DEF TypeOK
        <5>3. QED
          BY <2>1, <2>4, <5>1, <5>2 DEF TypeOK
      <4>3. QED
        BY <4>1, <4>2
    <3>5. CacheFilled'
      BY <1>5, <3>4 DEF CacheFilled, StreamSave
    <3>6. QED
      BY <3>1, <3>3, <3>5
  <2>5. QED
    BY <1>5, <2>3, <2>4 DEF StreamSave
<1>6. ASSUME NEW r \in Requests, Query(r) PROVE PInv'
  <2> DEFINE new == TasksFor(r, stream[r], streamCache[input[r].ns])
  <2>1. stream[r] \in Nat /\ streamCache[input[r].ns] \in Nat
    BY <1>6, <1>w DEF CacheFilled, Query
  <2>2. new \subseteq Task
    BY <2>1, TasksForType DEF TypeOK
  <2>3. \E t \in new : t.req = r
    BY TasksForOwn
  <2>4. pc' = [pc EXCEPT ![r] = "tasks"] /\ tasks' = tasks \cup new
    BY <1>6 DEF Query, GoTo
  <2> HIDE DEF new
  <2>5. TypeOK'
    BY <1>6, <2>2, <2>4, SMT DEF TypeOK, Query, connectorVars, counts
  <2>6. CacheFilled'
    BY <1>6, <2>4 DEF TypeOK, CacheFilled, Query
  <2>7. Answered'
    BY <1>6, <1>w, <2>3, <2>4 DEF TypeOK, Answered, Query
  <2>8. QED
    BY <2>5, <2>6, <2>7
<1>7. ASSUME NEW r \in Requests, Submit(r) PROVE PInv'
  <2>1. Waiting' /\ Answered'
    BY <1>7, <1>w, LabelStep DEF Submit, taskVars, Waiting
  <2>2. TypeOK'
    BY <1>7, <2>1, SMT DEF TypeOK, Waiting, Submit, connectorVars, counts, taskVars
  <2>3. CacheFilled'
    BY <1>7 DEF TypeOK, CacheFilled, Submit, GoTo
  <2>4. QED
    BY <2>1, <2>2, <2>3
<1>8. ASSUME NEW r \in Requests, RequestFails(r) PROVE PInv'
  <2>1. Waiting' /\ Answered'
    BY <1>8, <1>w, LabelStep DEF RequestFails, taskVars, Waiting, Finding
  <2>2. failures' \in 0..MaxFailures
    BY <1>8, CountsFailure DEF TypeOK, RequestFails
  <2>3. TypeOK'
    BY <1>8, <2>1, <2>2, SMT DEF TypeOK, Waiting, RequestFails, connectorVars, taskVars
  <2>4. CacheFilled'
    BY <1>8 DEF TypeOK, CacheFilled, RequestFails, Rejects, GoTo
  <2>5. QED
    BY <2>1, <2>3, <2>4
<1>9. ASSUME NEW t \in tasks, (\E deleted \in BOOLEAN : Fulfilled(t, deleted)) \/ Rejected(t),
             streams' \subseteq Stream, subs' \subseteq Subscription, nextId' \in Nat,
             failures' \in 0..MaxFailures,
             UNCHANGED <<streamCache, input, crashes, losses>>
      PROVE  PInv'
  <2>1. /\ Waiting' /\ Answered' /\ UNCHANGED <<stream, purge>>
        /\ \A o \in Requests : pc'[o] = "query" => pc[o] = "query"
    BY <1>w, <1>9, SettledStep
  <2>2. found' \subseteq Requests
    BY <1>9 DEF TypeOK, Task, Fulfilled, Rejected
  <2>3. settled' \in [Namespaces \X Pools -> {"unknown", "active", "inactive"}]
    BY <1>9 DEF TypeOK, Fulfilled, Rejected
  <2>4. TypeOK'
    BY <1>9, <2>1, <2>2, <2>3, SMT DEF TypeOK, Waiting
  <2>5. CacheFilled'
    BY <1>9, <2>1 DEF CacheFilled
  <2>6. QED
    BY <2>1, <2>4, <2>5
<1>10. ASSUME NEW t \in tasks, TaskList(t) PROVE PInv'
  <2>1. CASE Fulfilled(t, FALSE)
    BY <1>10, <1>9, <2>1 DEF TypeOK, TaskList, connectorVars, counts
  <2>2. ASSUME NEW u \in Task, u.req = t.req, tasks' = (tasks \ {t}) \cup {u},
               UNCHANGED <<found, settled, requestVars, answer>>
        PROVE  PInv'
    <3>0. UNCHANGED <<connectorVars, streamCache, input, counts>>
      BY <1>10 DEF TaskList
    <3>1. TypeOK'
      BY <2>2, <3>0 DEF TypeOK, connectorVars, requestVars, counts
    <3>2. CacheFilled'
      BY <1>10, <2>2 DEF CacheFilled, TaskList, requestVars
    <3>3. Answered'
      <4>1. UNCHANGED <<pc, answer>>
        BY <2>2 DEF requestVars
      <4>2. ASSUME NEW o \in Requests, NEW v \in tasks, v.req = o
            PROVE  \E w \in tasks' : w.req = o
        BY <2>2, <4>2
      <4>3. QED
        BY <1>w, <4>1, <4>2 DEF Answered
    <3>4. QED
      BY <3>1, <3>2, <3>3
  <2>3. t \in Task /\ [t EXCEPT !.pc = "create"] \in Task
        /\ [t EXCEPT !.pc = "create"].req = t.req
    BY DEF TypeOK, Task
  <2>4. ASSUME NEW s \in Existing(t)
        PROVE  LET u == [t EXCEPT !.pc = "delete", !.sub = s.id]
               IN  u \in Task /\ u.req = t.req
    <3>1. s.id \in OptId
      BY DEF Existing, TypeOK, Subscription, OptId
    <3>2. QED
      BY <2>3, <3>1 DEF Task
  <2>5. QED
    BY <1>10, <2>1, <2>2, <2>3, <2>4 DEF TaskList
<1>11. ASSUME NEW t \in tasks, TaskCreate(t) PROVE PInv'
  <2>1. [id |-> nextId, stream |-> t.stream, name |-> t.name] \in Subscription
    BY DEF TypeOK, Task, Subscription
  <2>2. subs' \subseteq Subscription /\ failures' \in 0..MaxFailures
    BY <1>11, <2>1, CountsFailure DEF TypeOK, TaskCreate
  <2>3. nextId' \in Nat
    BY <1>11, SMT DEF TypeOK, TaskCreate
  <2>4. QED
    BY <1>9, <1>11, <2>2, <2>3 DEF TypeOK, TaskCreate
<1>12. ASSUME NEW t \in tasks, TaskDelete(t) PROVE PInv'
  <2>1. subs' \subseteq Subscription /\ failures' \in 0..MaxFailures
    BY <1>12, CountsFailure DEF TypeOK, TaskDelete
  <2>2. QED
    BY <1>9, <1>12, <2>1 DEF TypeOK, TaskDelete
<1>13. ASSUME NEW t \in tasks, TaskFails(t) PROVE PInv'
  <2>1. failures' \in 0..MaxFailures
    BY <1>13, CountsFailure DEF TypeOK, TaskFails
  <2>2. QED
    BY <1>9, <1>13, <2>1 DEF TypeOK, TaskFails, connectorVars
<1>14. ASSUME NEW t \in tasks, TaskRefused(t) PROVE PInv'
  BY <1>9, <1>14 DEF TypeOK, TaskRefused, connectorVars, counts
<1>15. ASSUME NEW r \in Requests, StreamRefused(r) PROVE PInv'
  <2>1. Waiting' /\ Answered'
    BY <1>15, <1>w, LabelStep DEF StreamRefused, taskVars, Waiting
  <2>2. TypeOK'
    BY <1>15, <2>1, SMT
       DEF TypeOK, Waiting, StreamRefused, connectorVars, taskVars, counts
  <2>3. CacheFilled'
    BY <1>15 DEF TypeOK, CacheFilled, StreamRefused, Rejects, GoTo
  <2>4. QED
    BY <2>1, <2>2, <2>3
<1>16. ASSUME NEW s \in streams, StreamLost(s) PROVE PInv'
  <2>1. losses' \in 0..MaxLosses
    BY <1>16, BoundsAssumption, SMT DEF TypeOK, StreamLost
  <2>2. settled' \in [Namespaces \X Pools -> {"unknown", "active", "inactive"}]
    BY <1>16 DEF TypeOK, StreamLost
  <2>3. TypeOK'
    BY <1>16, <2>1, <2>2 DEF TypeOK, StreamLost, requestVars
  <2>4. CacheFilled' /\ Answered'
    BY <1>16 DEF CacheFilled, Answered, StreamLost, requestVars
  <2>5. QED
    BY <2>3, <2>4
<1>17. CASE Crash
  <2>1. TypeOK'
    <3>1. crashes' \in 0..MaxCrashes
      BY <1>17, BoundsAssumption, SMT DEF TypeOK, Crash
    <3>2. streamCache' \in [Namespaces -> OptId]
      BY <1>17 DEF Crash, OptId
    <3>3. /\ pc' \in [Requests -> Finding \cup {"idle", "query", "tasks", "submit", "done"}]
          /\ answer' \in [Requests -> {"none", "ok", "notfound", "error"}]
      BY <1>17, SMT DEF TypeOK, Crash
    <3>4. QED
      BY <1>17, <3>1, <3>2, <3>3 DEF TypeOK, Crash, connectorVars
  <2>2. CacheFilled' /\ Answered'
    BY <1>17 DEF TypeOK, CacheFilled, Answered, Crash
  <2>3. QED
    BY <2>1, <2>2
<1>18. CASE UNCHANGED vars
  BY <1>18, SMT DEF vars, connectorVars, requestVars, taskVars, counts, TypeOK, CacheFilled, Answered
<1>19. QED
  BY <1>1, <1>2, <1>3, <1>4, <1>5, <1>6, <1>7, <1>8, <1>10, <1>11, <1>12, <1>13,
     <1>14, <1>15, <1>16, <1>17, <1>18 DEF Next

LEMMA InitP == Init => PInv
<1> SUFFICES ASSUME Init PROVE PInv
  OBVIOUS
<1>1. streams \subseteq Stream /\ subs \subseteq Subscription
  BY DEF Init, Stream, OldSubs, Subscription, SubName
<1>2. TypeOK
  BY <1>1, BoundsAssumption, SMT DEF Init, TypeOK, OptId
<1>3. QED
  BY <1>2 DEF PInv, Init, CacheFilled, Answered

\* Every variable keeps its type.
THEOREM TypeCorrect == Spec => []TypeOK
<1>1. PInv => TypeOK
  BY DEF PInv
<1>2. QED
  BY <1>1, InitP, PInductive, PTL DEF Spec

\* FireFly waits only for calls that are under way.
THEOREM NoneWaitsForever == Spec => []Answered
<1>1. PInv => Answered
  BY DEF PInv
<1>2. QED
  BY <1>1, InitP, PInductive, PTL DEF Spec

=============================================================================
