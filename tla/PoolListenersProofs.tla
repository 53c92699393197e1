------------------------- MODULE PoolListenersProofs -------------------------
(***************************************************************************)
(* Proofs about PoolSubscriptions that need more than its types: pools     *)
(* have their listeners, once, on one stream for each namespace.  They are *)
(* about the overlaps FireFly leaves (Hazards = {}); crashes, lost calls   *)
(* and lost streams may happen at any step.                                *)
(***************************************************************************)
EXTENDS PoolSubscriptionsProofs, FiniteSetTheorems

\* A stream of an older release is still there.
Old == \E s \in streams : s.name = Deprecated

\* A namespace has a stream.
Has(ns) == \E s \in streams : s.name = ns

\* An id that was given out, to a stream of ns if that still exists.
Of(ns, id) == id < nextId /\ \A s \in streams : s.id = id => s.name = ns

\* A request that asks for listeners.
Works(r) == input[r].op # "connect"

\* ... and is not finished, or has left tasks behind.
Busy(r) == pc[r] \notin {"idle", "done"} \/ \E t \in tasks : t.req = r

\* Two requests for one pool.
SamePool(q, r) == input[q].ns = input[r].ns /\ input[q].pool = input[r].pool

\* The listener of a pool for an event.
Name(pool, e) == [prefix |-> "address", pool |-> pool, event |-> e]

\* An id is that of the stream of ns.
On(ns, id) == \E s \in streams : s.id = id /\ s.name = ns

\* There is a listener of a name on the stream of ns.
Heard(ns, name) == \E b \in subs : b.name = name /\ On(ns, b.stream)

-----------------------------------------------------------------------------
(* The parts of the inductive invariant                                    *)

\* Ids and names identify streams; 0 is the id of the old one.
StreamIds ==
  /\ nextId > 0
  /\ \A s \in streams : s.id < nextId /\ (s.name = Deprecated <=> s.id = 0)
  /\ \A s, t \in streams : s.id = t.id \/ s.name = t.name => s = t

\* Subscriptions go with their stream.
SubIds ==
  \A b \in subs : b.id < nextId /\ ~Unknown(b.stream) /\ b.name.prefix = "address"

\* An id that is remembered anywhere is one of the namespace's streams.
Owned ==
  /\ \A r \in Requests : stream[r] # None => Of(input[r].ns, stream[r])
  /\ \A ns \in Namespaces : streamCache[ns] # None => Of(ns, streamCache[ns])
  /\ \A t \in tasks : Of(input[t.req].ns, t.stream)
  /\ \A r \in Requests : purge[r] \subseteq {0}

\* Nothing is listened to before the old stream is gone.
Migrated ==
  Old => /\ subs \subseteq OldSubs /\ tasks = {}
         /\ \A ns \in Namespaces : streamCache[ns] = None
         /\ \A ns \in Namespaces, p \in Pools : settled[<<ns, p>>] = "unknown"
         /\ \A r \in Requests :
              Works(r) => pc[r] \in {"idle", "purgeList", "purge", "done"}

\* One request creates a namespace's stream.
OneCreator ==
  /\ \A q, r \in Requests :
       pc[q] \in Finding /\ pc[r] \in Finding /\ input[q].ns = input[r].ns
       => q = r \/ Has(input[r].ns)
  /\ \A r \in Requests :
       pc[r] = "streamSave" /\ stream[r] = None => ~Has(input[r].ns)

\* Whose the tasks are.
TasksOwn ==
  /\ \A t \in tasks :
       /\ Works(t.req)
       /\ t.name.pool = input[t.req].pool
       /\ t.name.prefix = PrefixFor(input[t.req].op, input[t.req].pool)
  /\ \A r \in Requests :
       pc[r] \in Finding \cup {"idle", "query", "submit"} => \A t \in tasks : t.req # r
  /\ \A r \in Requests : pc[r] = "query" => input[r].op = "activate"
  /\ \A r \in Requests : pc[r] = "tasks" => Works(r)

OnePerPool ==
  \A q, r \in Requests :
    Works(q) /\ Works(r) /\ SamePool(q, r) /\ Busy(q) /\ Busy(r) => q = r

\* What a task saw in its listing is still so.
Seen ==
  \A t \in tasks :
    /\ t.pc = "create" => input[t.req].op # "deactivate" /\ Existing(t) = {}
    /\ t.pc = "delete" =>
         /\ input[t.req].op = "deactivate"
         /\ t.sub \in Nat /\ t.sub < nextId
         /\ \A b \in subs : b.id = t.sub <=> b \in Existing(t)

\* One task, one subscription for each name on a stream.
Unique ==
  /\ \A t, u \in tasks :
       t.req = u.req /\ t.name = u.name /\ t.stream = u.stream => t = u
  /\ ~Old => \A b, c \in subs :
       b.id = c.id \/ (b.name = c.name /\ b.stream = c.stream) => b = c

\* A stale cache is stale for everybody.
CacheLive ==
  \A ns \in Namespaces :
    streamCache[ns] # None /\ Unknown(streamCache[ns]) =>
      /\ \A b \in subs : ~On(ns, b.stream)
      /\ \A t \in tasks : input[t.req].ns = ns => Unknown(t.stream)
      /\ \A r \in Requests : pc[r] = "query" /\ input[r].ns = ns => Unknown(stream[r])

\* A deactivation looks where the listeners are, and leaves none behind.
Deactivating ==
  /\ \A t \in tasks : input[t.req].op = "deactivate" =>
       \A b \in subs : b.name = t.name /\ On(input[t.req].ns, b.stream)
                       => b.stream = t.stream
  /\ \A r \in Requests :
       pc[r] = "tasks" /\ input[r].op = "deactivate" /\ input[r].pool \notin LegacyPools
       => \A e \in Events : \/ \E t \in tasks : t.req = r /\ t.name.event = e
                            \/ ~Heard(input[r].ns, Name(input[r].pool, e))

\* The events a request creates listeners for.
EventsOf(r) == IF input[r].op = "create" THEN CreateEvents ELSE Events

\* An activation has its listeners, works on them, or will fail because a
\* stream it works with is gone.
Activating ==
  \A r \in Requests :
    pc[r] = "tasks" /\ input[r].op \in {"create", "activate"}
    => \/ \E t \in tasks : t.req = r /\ Unknown(t.stream)
       \/ \A e \in EventsOf(r) : \/ \E t \in tasks : t.req = r /\ t.name.event = e
                                 \/ Heard(input[r].ns, Name(input[r].pool, e))

\* Nobody works on a pool whose last request is settled.
SettledIdle ==
  \A ns \in Namespaces, p \in Pools : settled[<<ns, p>>] # "unknown" =>
    \A r \in Requests : Works(r) /\ input[r].ns = ns /\ input[r].pool = p => ~Busy(r)

\* Listening and Silent, pool by pool.
Active ==
  \A ns \in Namespaces, p \in Pools : settled[<<ns, p>>] = "active" =>
    \A e \in Events : Heard(ns, Name(p, e))

Inactive ==
  \A ns \in Namespaces, p \in Pools \ LegacyPools : settled[<<ns, p>>] = "inactive" =>
    \A b \in subs : b.name.pool = p => ~On(ns, b.stream)

LInv ==
  /\ StreamIds /\ SubIds /\ Owned /\ Migrated /\ OneCreator
  /\ TasksOwn /\ OnePerPool /\ Seen /\ Unique
  /\ CacheLive /\ Deactivating /\ Activating
  /\ SettledIdle /\ Active /\ Inactive

-----------------------------------------------------------------------------
(* Requests                                                                *)

\* A request ends, whether or not its tasks do.
LEMMA EndsKeeps ==
  ASSUME TypeOK, LInv, NEW r \in Requests, pc[r] # "idle",
         pc' = [pc EXCEPT ![r] = "done"],
         UNCHANGED <<streams, subs, nextId, streamCache, input, stream, purge,
                     tasks, settled>>
  PROVE  LInv'
<1> USE DEF LInv
<1>1. \A o \in Requests : pc'[o] = IF o = r THEN "done" ELSE pc[o]
  BY DEF TypeOK
<1>2. StreamIds' /\ SubIds' /\ Owned'
  BY DEF StreamIds, SubIds, Unknown, Owned, Of
<1>3. Migrated'
  BY <1>1 DEF Migrated, Old, Works
<1>4. OneCreator'
  BY <1>1 DEF OneCreator, Has, Finding
<1>5. TasksOwn'
  BY <1>1 DEF TasksOwn, Works, Finding
<1>6. \A o \in Requests : Busy(o)' => Busy(o)
  BY <1>1 DEF Busy
<1>7. OnePerPool' /\ SettledIdle'
  BY <1>6 DEF OnePerPool, SettledIdle, Works, SamePool
<1>8. Seen' /\ Unique'
  BY DEF Seen, Existing, Unique, Old
<1>9. CacheLive'
  BY <1>1 DEF CacheLive, Unknown, On
<1>10. Deactivating'
  BY <1>1 DEF Deactivating, On, Heard
<1>11. Activating'
  BY <1>1 DEF Activating, EventsOf, Unknown, Heard, On
<1>12. Active' /\ Inactive'
  BY DEF Active, Inactive, Heard, On
<1>13. QED
  BY <1>2, <1>3, <1>4, <1>5, <1>7, <1>8, <1>9, <1>10, <1>11, <1>12

\* migrationCheck sees the old stream while it exists.
LEMMA PurgeListKeeps ==
  ASSUME TypeOK, LInv, NEW r \in Requests, PurgeList(r)
  PROVE  LInv'
<1> USE DEF LInv
<1>1. /\ pc[r] = "purgeList" /\ pc' = [pc EXCEPT ![r] = IF Old THEN "purge" ELSE "streamList"]
      /\ purge' = [purge EXCEPT ![r] = {s.id : s \in {t \in streams : t.name = Deprecated}}]
      /\ UNCHANGED <<streams, subs, nextId, streamCache, input, stream, tasks, settled>>
  <2> DEFINE ids == {s.id : s \in {t \in streams : t.name = Deprecated}}
  <2>1. ids = {} <=> ~Old
    BY DEF Old
  <2>2. purge'[r] = ids
    BY DEF PurgeList, TypeOK
  <2> HIDE DEF ids
  <2>3. pc' = [pc EXCEPT ![r] = IF Old THEN "purge" ELSE "streamList"]
    BY <2>1, <2>2 DEF PurgeList, GoTo
  <2> USE DEF ids
  <2>4. QED
    BY <2>3 DEF PurgeList, connectorVars, taskVars
<1>2. \A o \in Requests : pc'[o] = IF o # r THEN pc[o] ELSE IF Old THEN "purge" ELSE "streamList"
  BY <1>1 DEF TypeOK
<1>3. StreamIds' /\ SubIds'
  BY <1>1 DEF StreamIds, SubIds, Unknown
<1>4. Owned'
  <2>1. \A o \in Requests : purge'[o] \subseteq {0}
    BY <1>1 DEF Owned, TypeOK, StreamIds
  <2>2. QED
    BY <1>1, <2>1 DEF Owned, Of
<1>5. Migrated'
  BY <1>1, <1>2 DEF Migrated, Old, Works
<1>6. OneCreator'
  BY <1>1, <1>2 DEF OneCreator, Has, Finding
<1>7. TasksOwn'
  BY <1>1, <1>2 DEF TasksOwn, Works, Finding
<1>8. \A o \in Requests : Busy(o)' => Busy(o)
  BY <1>1, <1>2 DEF Busy
<1>9. OnePerPool' /\ SettledIdle'
  BY <1>1, <1>8 DEF OnePerPool, SettledIdle, Works, SamePool
<1>10. Seen' /\ Unique'
  BY <1>1 DEF Seen, Existing, Unique, Old
<1>11. CacheLive'
  BY <1>1, <1>2 DEF CacheLive, Unknown, On
<1>12. Deactivating'
  BY <1>1, <1>2 DEF Deactivating, On, Heard
<1>13. Activating'
  BY <1>1, <1>2 DEF Activating, EventsOf, Unknown, Heard, On
<1>14. Active' /\ Inactive'
  BY <1>1 DEF Active, Inactive, Heard, On
<1>15. QED
  BY <1>3, <1>4, <1>5, <1>6, <1>7, <1>9, <1>10, <1>11, <1>12, <1>13, <1>14

\* The old stream goes with its subscriptions; nothing else changes.
LEMMA PurgeKeeps ==
  ASSUME TypeOK, LInv, NEW r \in Requests, Purge(r)
  PROVE  LInv'
<1> USE DEF LInv
<1>1. PICK p \in {"done", "streamList", "purge"} :
        /\ pc[r] = "purge" /\ pc' = [pc EXCEPT ![r] = p]
        /\ p # "done" => purge[r] # {} /\ (p = "streamList" => purge'[r] = {})
        /\ UNCHANGED <<nextId, streamCache, input, stream, tasks, settled>>
  BY DEF Purge, GoTo, Rejects, taskVars
<1>2. /\ streams' = {s \in streams : s.name # Deprecated}
      /\ subs' = {s \in subs : s.stream # 0}
      /\ \A o \in Requests : purge'[o] \subseteq {0}
  BY DEF Purge, Owned, StreamIds, TypeOK
<1>3. \A o \in Requests : pc'[o] = IF o = r THEN p ELSE pc[o]
  BY <1>1 DEF TypeOK
<1>4. /\ StreamIds' /\ ~Old'
      /\ \A id \in Nat : Unknown(id)' => Unknown(id) \/ id = 0
      /\ \A ns \in Namespaces : \A id : On(ns, id)' <=> On(ns, id)
      /\ \A ns \in Namespaces : Has(ns)' <=> Has(ns)
  BY <1>1, <1>2, NamesAssumption DEF StreamIds, Old, Unknown, On, Has
<1>5. SubIds'
  BY <1>1, <1>2, <1>4 DEF SubIds, TypeOK, Subscription
<1>6. Owned'
  BY <1>1, <1>2 DEF Owned, Of
<1>7. Migrated'
  BY <1>4 DEF Migrated
<1>8. OneCreator'
  BY <1>1, <1>3, <1>4, InputFields DEF OneCreator, Finding, TypeOK
<1>9. TasksOwn'
  BY <1>1, <1>3 DEF TasksOwn, Works, Finding
<1>10. \A o \in Requests : Busy(o)' => Busy(o)
  BY <1>1, <1>3 DEF Busy
<1>11. OnePerPool' /\ SettledIdle'
  BY <1>1, <1>10 DEF OnePerPool, SettledIdle, Works, SamePool
<1>12. Old \/ (subs' = subs /\ streams' = streams)
  <2>1. ~Old => \A s \in streams : s \in streams'
    BY <1>2 DEF Old
  <2>2. ~Old => \A b \in subs : b \in subs'
    BY <1>2 DEF Old, SubIds, Unknown, StreamIds
  <2>3. streams' \subseteq streams /\ subs' \subseteq subs
    BY <1>2
  <2>4. ASSUME ~Old PROVE streams' = streams
    BY <2>1, <2>3, <2>4, Zenon
  <2>5. ASSUME ~Old PROVE subs' = subs
    BY <2>2, <2>3, <2>5, Zenon
  <2>6. QED
    BY <2>4, <2>5
<1>13. CASE Old
  <2>1. tasks = {} /\ subs' = {}
    BY <1>2, <1>13 DEF Migrated, OldSubs
  <2>2. Seen' /\ Unique'
    BY <1>1, <2>1 DEF Seen, Unique
  <2>3. CacheLive'
    BY <1>1, <1>13 DEF Migrated, CacheLive
  <2>4. \A o \in Requests : pc'[o] # "tasks" \/ ~Works(o)
    BY <1>3, <1>13 DEF Migrated
  <2>5. Deactivating' /\ Activating'
    BY <1>1, <2>1, <2>4 DEF Deactivating, Activating, Works
  <2>6. Active' /\ Inactive'
    BY <1>1, <1>13 DEF Active, Inactive, Migrated
  <2>7. QED
    BY <1>4, <1>5, <1>6, <1>7, <1>8, <1>9, <1>11, <2>2, <2>3, <2>5, <2>6
<1>14. CASE subs' = subs /\ streams' = streams
  <2>1. Seen' /\ Unique'
    BY <1>1, <1>14 DEF Seen, Existing, Unique, Old
  <2>2. CacheLive'
    BY <1>1, <1>3, <1>14 DEF CacheLive, Unknown, On
  <2>3. Deactivating'
    BY <1>1, <1>3, <1>14 DEF Deactivating, On, Heard
  <2>4. Activating'
    BY <1>1, <1>3, <1>14 DEF Activating, EventsOf, Unknown, Heard, On
  <2>5. Active' /\ Inactive'
    BY <1>1, <1>14 DEF Active, Inactive, Heard, On
  <2>6. QED
    BY <1>4, <1>5, <1>6, <1>7, <1>8, <1>9, <1>11, <2>1, <2>2, <2>3, <2>4, <2>5
<1>15. QED
  BY <1>12, <1>13, <1>14

\* createOrUpdateStream has its listing.
LEMMA StreamListKeeps ==
  ASSUME TypeOK, LInv, NEW r \in Requests, StreamList(r)
  PROVE  LInv'
<1> USE DEF LInv
<1> DEFINE ns == input[r].ns
<1>1. /\ pc[r] = "streamList" /\ pc' = [pc EXCEPT ![r] = "streamSave"]
      /\ UNCHANGED <<streams, subs, nextId, streamCache, input, purge, tasks, settled>>
  BY DEF StreamList, GoTo, connectorVars, taskVars
<1>2. \A o \in Requests : pc'[o] = IF o = r THEN "streamSave" ELSE pc[o]
  BY <1>1 DEF TypeOK
<1>3. \/ ~Has(ns) /\ stream' = stream
      \/ \E id \in Nat : On(ns, id) /\ stream' = [stream EXCEPT ![r] = id]
  <2>1. StreamsOf(ns) = {} => ~Has(ns)
    BY DEF StreamsOf, Has
  <2>2. \A id \in StreamsOf(ns) : id \in Nat /\ On(ns, id)
    BY DEF StreamsOf, On, TypeOK, Stream
  <2>3. QED
    BY <2>1, <2>2 DEF StreamList
<1>4. StreamIds' /\ SubIds'
  BY <1>1 DEF StreamIds, SubIds, Unknown
<1>5. Owned'
  <2>1. \A id : On(ns, id) => Of(ns, id)
    BY DEF StreamIds, On, Of
  <2>2. \A o \in Requests : stream'[o] # None => Of(input[o].ns, stream'[o])
    BY <1>3, <2>1 DEF Owned, TypeOK
  <2>3. QED
    BY <1>1, <2>2 DEF Owned, Of
<1>6. Migrated'
  BY <1>1, <1>2 DEF Migrated, Old, Works
<1>7. OneCreator'
  <2>1. \A q, o \in Requests :
          pc'[q] \in Finding /\ pc'[o] \in Finding /\ input[q].ns = input[o].ns
          => q = o \/ Has(input[o].ns)
    BY <1>1, <1>2 DEF OneCreator, Finding
  <2>2. \A o \in Requests : pc'[o] = "streamSave" /\ stream'[o] = None => ~Has(input[o].ns)
    BY <1>2, <1>3, NamesAssumption DEF OneCreator, TypeOK
  <2>3. QED
    BY <1>1, <2>1, <2>2 DEF OneCreator, Has
<1>8. TasksOwn'
  BY <1>1, <1>2 DEF TasksOwn, Works, Finding
<1>9. \A o \in Requests : Busy(o)' => Busy(o)
  BY <1>1, <1>2 DEF Busy
<1>10. OnePerPool' /\ SettledIdle'
  BY <1>1, <1>9 DEF OnePerPool, SettledIdle, Works, SamePool
<1>11. Seen' /\ Unique'
  BY <1>1 DEF Seen, Existing, Unique, Old
<1>12. CacheLive'
  <2>1. \A o \in Requests : pc'[o] = "query" => pc[o] = "query" /\ stream'[o] = stream[o]
    BY <1>2, <1>3 DEF TypeOK
  <2>2. QED
    BY <1>1, <2>1 DEF CacheLive, Unknown, On
<1>13. Deactivating'
  BY <1>1, <1>2 DEF Deactivating, On, Heard
<1>14. Activating'
  BY <1>1, <1>2 DEF Activating, EventsOf, Unknown, Heard, On
<1>15. Active' /\ Inactive'
  BY <1>1 DEF Active, Inactive, Heard, On
<1>16. QED
  BY <1>4, <1>5, <1>6, <1>7, <1>8, <1>10, <1>11, <1>12, <1>13, <1>14, <1>15

\* A stream that is created takes a new id, and disturbs no other.
LEMMA Grows ==
  ASSUME TypeOK, StreamIds, NEW ns \in Namespaces,
         \/ UNCHANGED <<streams, nextId>>
         \/ /\ ~Has(ns)
            /\ streams' = streams \cup {[id |-> nextId, name |-> ns]}
            /\ nextId' = nextId + 1
  PROVE  /\ StreamIds' /\ nextId' >= nextId /\ nextId' \in Nat
         /\ Old' <=> Old
         /\ \A m : Has(m) => Has(m)'
         /\ \A id \in Nat : id < nextId =>
              /\ Unknown(id)' <=> Unknown(id)
              /\ \A m : On(m, id)' <=> On(m, id)
         /\ \A m : \A id \in Nat : Of(m, id) => Of(m, id)'
<1>1. CASE UNCHANGED <<streams, nextId>>
  BY <1>1, SMT DEF StreamIds, Old, Has, Unknown, On, Of, TypeOK
<1>2. CASE /\ ~Has(ns)
           /\ streams' = streams \cup {[id |-> nextId, name |-> ns]}
           /\ nextId' = nextId + 1
  <2> DEFINE new == [id |-> nextId, name |-> ns]
  <2>1. /\ new.id = nextId /\ new.name = ns /\ ns # Deprecated /\ new.id > 0
        /\ streams' = streams \cup {new} /\ nextId \in Nat
    BY <1>2, NamesAssumption DEF TypeOK, StreamIds
  <2>2. \A s \in streams : s.id \in Nat /\ s.id < nextId /\ s.name # ns
    BY <1>2 DEF Has, StreamIds, TypeOK, Stream
  <2> HIDE DEF new
  <2>3. StreamIds'
    <3>1. \A s \in streams' : s.id < nextId' /\ (s.name = Deprecated <=> s.id = 0)
      BY <1>2, <2>1, <2>2 DEF StreamIds
    <3>2. \A s, t \in streams' : s.id = t.id \/ s.name = t.name => s = t
      BY <2>1, <2>2 DEF StreamIds
    <3>3. QED
      BY <1>2, <2>1, <3>1, <3>2 DEF StreamIds
  <2>4. Old' <=> Old
    BY <2>1 DEF Old
  <2>5. \A m : Has(m) => Has(m)'
    BY <2>1 DEF Has
  <2>6. ASSUME NEW id \in Nat, id < nextId
        PROVE  /\ Unknown(id)' <=> Unknown(id)
               /\ \A m : On(m, id)' <=> On(m, id)
    BY <2>1, <2>6 DEF Unknown, On
  <2>7. ASSUME NEW m, NEW id \in Nat, Of(m, id) PROVE Of(m, id)'
    BY <1>2, <2>1, <2>7 DEF Of
  <2>8. QED
    BY <1>2, <2>1, <2>3, <2>4, <2>5, <2>6, <2>7
<1>3. QED
  BY <1>1, <1>2

\* The tasks a request starts with.
LEMMA TasksForShape ==
  ASSUME NEW r \in Requests, NEW id, NEW cached
  PROVE  LET new == TasksFor(r, id, cached) IN
         /\ \A t \in new :
              /\ t.req = r /\ t.pc = "list" /\ t.stream \in {id, cached}
              /\ t.name.prefix = PrefixFor(input[r].op, input[r].pool)
              /\ t.name.pool = input[r].pool
              /\ t.name.event \in Events
         /\ \A e \in EventsOf(r) : \E t \in new : t.name.event = e
         /\ \A t, u \in new : t.name = u.name /\ t.stream = u.stream => t = u
<1> DEFINE new == TasksFor(r, id, cached)
<1>1. \A e, n : /\ NewTask(r, e, n).req = r
                /\ NewTask(r, e, n).pc = "list"
                /\ NewTask(r, e, n).stream = n
                /\ NewTask(r, e, n).name =
                     [prefix |-> PrefixFor(input[r].op, input[r].pool),
                      pool |-> input[r].pool, event |-> e]
                /\ NewTask(r, e, n).name.event = e
  BY DEF NewTask
<1>2. \A t \in new : \E e \in Events, n \in {id, cached} : t = NewTask(r, e, n)
  BY DEF TasksFor, Events
<1>3. \A e \in EventsOf(r) : \E n : NewTask(r, e, n) \in new
  <2>1. \A e \in CreateEvents : NewTask(r, e, cached) \in new
    BY DEF TasksFor
  <2>2. input[r].op # "create" => \A e \in TransferEvents : NewTask(r, e, id) \in new
    BY DEF TasksFor
  <2> HIDE DEF new
  <2>3. QED
    BY <2>1, <2>2 DEF EventsOf, Events
<1> HIDE DEF new
<1>4. \A t, u \in new : t.name = u.name /\ t.stream = u.stream => t = u
  <2> SUFFICES ASSUME NEW t \in new, NEW u \in new, t.name = u.name, t.stream = u.stream
               PROVE  t = u
    OBVIOUS
  <2>1. PICK e, n : t = NewTask(r, e, n)
    BY <1>2
  <2>2. PICK f, m : u = NewTask(r, f, m)
    BY <1>2
  <2>3. e = f /\ n = m
    <3>1. t.name.event = e /\ u.name.event = f /\ t.stream = n /\ u.stream = m
      BY <1>1, <2>1, <2>2
    <3>2. QED
      BY <3>1
  <2>4. QED
    BY <2>1, <2>2, <2>3
<1>5. \A t \in new :
        /\ t.req = r /\ t.pc = "list" /\ t.stream \in {id, cached}
        /\ t.name.prefix = PrefixFor(input[r].op, input[r].pool)
        /\ t.name.pool = input[r].pool
        /\ t.name.event \in Events
  <2> SUFFICES ASSUME NEW t \in new
               PROVE  /\ t.req = r /\ t.pc = "list" /\ t.stream \in {id, cached}
                      /\ t.name.prefix = PrefixFor(input[r].op, input[r].pool)
                      /\ t.name.pool = input[r].pool
                      /\ t.name.event \in Events
    OBVIOUS
  <2>1. PICK e \in Events, n \in {id, cached} : t = NewTask(r, e, n)
    BY <1>2
  <2>2. t.req = r /\ t.pc = "list" /\ t.stream = n /\ t.name.event = e
    BY <1>1, <2>1
  <2>3. t.name = [prefix |-> PrefixFor(input[r].op, input[r].pool),
                  pool |-> input[r].pool, event |-> e]
    BY <1>1, <2>1
  <2>4. QED
    BY <2>2, <2>3
<1>6. \A e \in EventsOf(r) : \E t \in new : t.name.event = e
  BY <1>1, <1>3
<1>7. QED
  BY <1>4, <1>5, <1>6 DEF new

\* A request gets its stream, from the cache or after it was saved.  When the
\* answer to the save is lost, the request is rejected.
LEMMA HasStreamKeeps ==
  ASSUME TypeOK, CacheFilled, LInv, NEW r \in Requests, NEW id \in Nat,
         \/ /\ HasStream(r, id)
            /\ \A ns \in Namespaces :
                 streamCache'[ns] = IF Works(r) /\ ns = input[r].ns THEN id
                                    ELSE streamCache[ns]
         \/ Rejects(r) /\ UNCHANGED <<streamCache, stream, tasks>>,
         pc[r] \in {"idle", "streamSave"}, UNCHANGED <<subs, input, purge>>,
         \/ UNCHANGED <<streams, nextId>>
         \/ /\ pc[r] = "streamSave" /\ ~Has(input[r].ns)
            /\ streams' = streams \cup {[id |-> nextId, name |-> input[r].ns]}
            /\ nextId' = nextId + 1,
         Of(input[r].ns, id)',
         streamCache[input[r].ns] = id \/ ~Unknown(id)',
         Works(r) => /\ ~Old
                     /\ \A o \in Requests : Works(o) /\ SamePool(o, r) /\ Busy(o) => o = r,
         \A ns \in Namespaces, p \in Pools : settled'[<<ns, p>>] # "unknown" =>
           /\ settled'[<<ns, p>>] = settled[<<ns, p>>]
           /\ Works(r) => <<ns, p>> # <<input[r].ns, input[r].pool>>
  PROVE  LInv'
<1> DEFINE ns == input[r].ns
           new == TasksFor(r, id, id)
<1> USE DEF LInv
<1>1. ns \in Namespaces /\ \A o \in Requests : input[o].ns \in Namespaces
  BY InputFields DEF TypeOK
<1>2. /\ StreamIds' /\ nextId' >= nextId /\ nextId' \in Nat /\ nextId \in Nat
      /\ Old' <=> Old
      /\ \A m : Has(m) => Has(m)'
      /\ \A n \in Nat : n < nextId =>
              /\ Unknown(n)' <=> Unknown(n)
              /\ \A m : On(m, n)' <=> On(m, n)
      /\ \A m : \A n \in Nat : Of(m, n) => Of(m, n)'
  <2>1. nextId \in Nat
    BY DEF TypeOK
  <2>2. QED
    BY <1>1, <2>1, Grows
<1>3. /\ \A o \in Requests \ {r} : stream'[o] = stream[o]
      /\ stream'[r] = id \/ (stream' = stream /\ pc'[r] = "done")
  BY DEF HasStream, Rejects, GoTo, TypeOK
<1>4. \/ (~Works(r) \/ streamCache' = streamCache) /\ pc' = [pc EXCEPT ![r] = "done"] /\ tasks' = tasks
      \/ Works(r) /\ input[r].op = "activate" /\ pc' = [pc EXCEPT ![r] = "query"]
         /\ tasks' = tasks
      \/ Works(r) /\ input[r].op # "activate" /\ pc' = [pc EXCEPT ![r] = "tasks"]
         /\ tasks' = tasks \cup new
  <2>1. CASE HasStream(r, id) /\ input[r].op = "connect"
    BY <2>1 DEF HasStream, GoTo, Works
  <2>2. CASE HasStream(r, id) /\ input[r].op = "activate"
    BY <2>2 DEF HasStream, GoTo, Works
  <2>3. CASE HasStream(r, id) /\ input[r].op \notin {"activate", "connect"}
    BY <2>3 DEF HasStream, GoTo, Works
  <2>4. CASE Rejects(r) /\ UNCHANGED <<streamCache, stream, tasks>>
    BY <2>4 DEF Rejects, GoTo
  <2>5. QED
    BY <2>1, <2>2, <2>3, <2>4
<1>5. /\ \A t \in new :
              /\ t.req = r /\ t.pc = "list" /\ t.stream = id
              /\ t.name.prefix = PrefixFor(input[r].op, input[r].pool)
              /\ t.name.pool = input[r].pool
              /\ t.name.event \in Events
      /\ \A e \in EventsOf(r) : \E t \in new : t.name.event = e
      /\ \A t, u \in new : t.name = u.name /\ t.stream = u.stream => t = u
  BY TasksForShape
<1> HIDE DEF new
<1>6. /\ \A t \in tasks : t.req # r
      /\ \A t \in tasks' : t \in tasks \/ (t \in new /\ Works(r) /\ pc'[r] = "tasks")
      /\ \A t \in tasks : t \in tasks'
  BY <1>4 DEF TasksOwn, Finding, TypeOK
<1>7. \A o \in Requests \ {r} : pc'[o] = pc[o]
  BY <1>4 DEF TypeOK
<1>8. /\ pc'[r] \in {"done", "query", "tasks"}
      /\ pc'[r] = "query" => input[r].op = "activate"
      /\ pc'[r] = "tasks" => Works(r) /\ input[r].op # "activate" /\ tasks' = tasks \cup new
      /\ pc'[r] # "tasks" => tasks' = tasks
  BY <1>4 DEF TypeOK, Works
<1>8a. /\ pc'[r] # "done" /\ Works(r) => streamCache'[ns] = id
       /\ \A m \in Namespaces : streamCache'[m] = streamCache[m]
                               \/ (Works(r) /\ m = ns /\ streamCache'[m] = id)
  BY <1>1 DEF Rejects, GoTo, TypeOK
<1>9. \A b \in subs : /\ b.id \in Nat /\ b.id < nextId
                      /\ b.stream \in Nat /\ b.stream < nextId
                      /\ \A m : On(m, b.stream)' <=> On(m, b.stream)
  <2>1. \A b \in subs : b.id \in Nat /\ b.stream \in Nat
    BY DEF TypeOK, Subscription
  <2>2. \A b \in subs : b.stream < nextId
    BY DEF SubIds, Unknown, StreamIds
  <2>3. QED
    BY <1>2, <2>1, <2>2 DEF SubIds
<1>10. \A m, name : Heard(m, name)' <=> Heard(m, name)
  BY <1>9 DEF Heard
<1>11. SubIds'
  BY <1>2, <1>9 DEF SubIds
<1>12. Owned'
  <2>1. \A o \in Requests : stream'[o] # None => Of(input[o].ns, stream[o])'
    BY <1>2, <1>3 DEF Owned, TypeOK, OptId
  <2>2. \A m \in Namespaces : streamCache'[m] # None => Of(m, streamCache[m])'
    BY <1>2 DEF Owned, TypeOK, OptId
  <2>3. \A t \in tasks' : Of(input[t.req].ns, t.stream)'
    BY <1>2, <1>5, <1>6 DEF Owned, TypeOK, Task
  <2>4. QED
    BY <2>1, <2>2, <2>3 DEF Owned
<1>13. Migrated'
  BY <1>2, <1>4, <1>7 DEF Migrated, Works
<1>14. OneCreator'
  <2>1. \A q, o \in Requests :
          pc'[q] \in Finding /\ pc'[o] \in Finding /\ input[q].ns = input[o].ns
          => q = o \/ Has(input[o].ns)'
    BY <1>2, <1>7, <1>8 DEF OneCreator, Finding
  <2>2. ASSUME NEW o \in Requests, pc'[o] = "streamSave", stream'[o] = None
        PROVE  ~Has(input[o].ns)'
    <3>1. o # r /\ ~Has(input[o].ns)
      BY <1>3, <1>7, <1>8, <2>2 DEF OneCreator
    <3>2. ~Has(ns) /\ pc[r] = "streamSave" => input[o].ns # ns
      BY <1>7, <2>2, <3>1 DEF OneCreator, Finding
    <3>3. QED
      BY <3>1, <3>2 DEF Has
  <2>3. QED
    BY <2>1, <2>2 DEF OneCreator
<1>15. TasksOwn'
  <2>1. \A t \in tasks' : /\ Works(t.req)
                          /\ t.name.pool = input[t.req].pool
                          /\ t.name.prefix = PrefixFor(input[t.req].op, input[t.req].pool)
    BY <1>5, <1>6 DEF TasksOwn
  <2>2. ASSUME NEW o \in Requests, pc'[o] \in Finding \cup {"idle", "query", "submit"},
               NEW t \in tasks'
        PROVE  t.req # o
    <3>1. CASE o = r
      BY <1>6, <1>8, <2>2, <3>1 DEF Finding
    <3>2. CASE o # r
      BY <1>5, <1>6, <1>7, <2>2, <3>2 DEF TasksOwn
    <3>3. QED
      BY <3>1, <3>2
  <2>3. /\ \A o \in Requests : pc'[o] = "query" => input[o].op = "activate"
        /\ \A o \in Requests : pc'[o] = "tasks" => Works(o)
    BY <1>7, <1>8 DEF TasksOwn
  <2>4. QED
    BY <2>1, <2>2, <2>3 DEF TasksOwn, Works
<1>16. \A o \in Requests \ {r} : Busy(o)' => Busy(o)
  BY <1>5, <1>6, <1>7 DEF Busy
<1>17. OnePerPool'
  BY <1>16 DEF OnePerPool, Works, SamePool
<1>18. Seen'
  BY <1>2, <1>5, <1>6, <1>9 DEF Seen, Existing, TypeOK, Task
<1>19. Unique'
  BY <1>2, <1>5, <1>6 DEF Unique
<1>20. CacheLive'
  <2> SUFFICES ASSUME NEW m \in Namespaces, streamCache'[m] # None, Unknown(streamCache[m])'
               PROVE  /\ \A b \in subs : ~On(m, b.stream)'
                      /\ \A t \in tasks' : input[t.req].ns = m => Unknown(t.stream)'
                      /\ \A o \in Requests : pc'[o] = "query" /\ input[o].ns = m
                                             => Unknown(stream[o])'
    BY DEF CacheLive
  <2>1. streamCache[m] # None /\ Unknown(streamCache[m])
        /\ (Works(r) /\ m = ns /\ pc'[r] # "done" => Unknown(id)')
    BY <1>2, <1>8a DEF Owned, Of, TypeOK, OptId
  <2>2. /\ \A b \in subs : ~On(m, b.stream)
        /\ \A t \in tasks : input[t.req].ns = m => Unknown(t.stream)
        /\ \A o \in Requests : pc[o] = "query" /\ input[o].ns = m => Unknown(stream[o])
    BY <2>1 DEF CacheLive
  <2>3. \A t \in tasks' : input[t.req].ns = m => Unknown(t.stream)'
    BY <1>2, <1>5, <1>6, <2>1, <2>2 DEF Owned, Of, TypeOK, Task
  <2>4. ASSUME NEW o \in Requests, pc'[o] = "query", input[o].ns = m
        PROVE  Unknown(stream[o])'
    <3>1. CASE o = r
      BY <1>3, <1>8, <2>1, <2>4, <3>1 DEF Works
    <3>2. CASE o # r
      <4>1. Unknown(stream[o]) /\ stream'[o] = stream[o]
        BY <1>3, <1>7, <2>2, <2>4, <3>2
      <4>2. stream[o] \in Nat /\ stream[o] < nextId
        BY <1>7, <2>4, <3>2, NamesAssumption DEF CacheFilled, Owned, Of
      <4>3. QED
        BY <1>2, <4>1, <4>2
    <3>3. QED
      BY <3>1, <3>2
  <2>5. QED
    BY <1>9, <2>2, <2>3, <2>4
<1>21. Deactivating'
  <2>1. ASSUME NEW t \in tasks', input[t.req].op = "deactivate",
               NEW b \in subs, b.name = t.name, On(input[t.req].ns, b.stream)'
        PROVE  b.stream = t.stream
    <3>1. CASE t \in tasks
      BY <1>9, <2>1, <3>1 DEF Deactivating
    <3>2. CASE t \in new /\ Works(r) /\ pc'[r] = "tasks"
      <4>1. t.stream = id /\ On(ns, b.stream)' /\ streamCache'[ns] = id /\ id # None
        BY <1>1, <1>5, <1>8, <1>8a, <2>1, <3>2, NamesAssumption
      <4>2. ~Unknown(id)'
        BY <1>1, <1>20, <4>1 DEF CacheLive
      <4>3. On(ns, id)'
        BY <4>2 DEF Unknown, Of, On
      <4>4. QED
        BY <1>2, <4>1, <4>3 DEF On, StreamIds
    <3>3. QED
      BY <1>6, <3>1, <3>2
  <2>2. ASSUME NEW o \in Requests, pc'[o] = "tasks", input[o].op = "deactivate",
               input[o].pool \notin LegacyPools, NEW e \in Events
        PROVE  \/ \E t \in tasks' : t.req = o /\ t.name.event = e
               \/ ~Heard(input[o].ns, Name(input[o].pool, e))'
    <3>1. CASE o = r
      <4>1. e \in EventsOf(r)
        BY <2>2, <3>1 DEF EventsOf
      <4>2. PICK t \in new : t.name.event = e
        BY <1>5, <4>1
      <4>3. QED
        BY <1>5, <1>8, <2>2, <3>1, <4>2
    <3>2. CASE o # r
      BY <1>6, <1>7, <1>10, <2>2, <3>2 DEF Deactivating
    <3>3. QED
      BY <3>1, <3>2
  <2>3. QED
    BY <2>1, <2>2 DEF Deactivating, Name
<1>22. Activating'
  <2>1. ASSUME NEW o \in Requests, pc'[o] = "tasks", input[o].op \in {"create", "activate"}
        PROVE  \/ \E t \in tasks' : t.req = o /\ Unknown(t.stream)'
               \/ \A e \in EventsOf(o) : \/ \E t \in tasks' : t.req = o /\ t.name.event = e
                                         \/ Heard(input[o].ns, Name(input[o].pool, e))'
    <3>1. CASE o = r
      BY <1>5, <1>8, <2>1, <3>1
    <3>2. CASE o # r
      <4>1. \A t \in tasks : t.stream \in Nat /\ t.stream < nextId
        BY DEF Owned, Of, TypeOK, Task
      <4>2. QED
        BY <1>2, <1>6, <1>7, <1>10, <2>1, <3>2, <4>1 DEF Activating
    <3>3. QED
      BY <3>1, <3>2
  <2>2. QED
    BY <2>1 DEF Activating, EventsOf, Name
<1>23. SettledIdle'
  BY <1>16 DEF SettledIdle, Works
<1>24. Active'
  <2>1. \A m \in Namespaces, p \in Pools :
          settled'[<<m, p>>] = "active" => settled[<<m, p>>] = "active"
    OBVIOUS
  <2>2. QED
    BY <1>10, <2>1 DEF Active, Name
<1>25. Inactive'
  <2>1. \A m \in Namespaces, p \in Pools :
          settled'[<<m, p>>] = "inactive" => settled[<<m, p>>] = "inactive"
    OBVIOUS
  <2>2. QED
    BY <1>9, <2>1 DEF Inactive
<1>26. QED
  BY <1>2, <1>11, <1>12, <1>13, <1>14, <1>15, <1>17, <1>18, <1>19, <1>20, <1>21,
     <1>22, <1>23, <1>24, <1>25

\* A request arrives.
LEMMA BeginKeeps ==
  ASSUME Hazards = {}, TypeOK, CacheFilled, LInv, NEW r \in Requests, Begin(r)
  PROVE  LInv'
<1> DEFINE ns == input[r].ns
<1> USE DEF LInv
<1>1. /\ ns \in Namespaces /\ pc[r] = "idle"
      /\ UNCHANGED <<streams, subs, nextId, streamCache, input, purge>>
  BY InputFields DEF TypeOK, Begin, MayBegin, connectorVars
<1>2. Works(r) => \A o \in Requests : Works(o) /\ SamePool(o, r) => ~Busy(o)
  BY DEF Begin, MayBegin, Works, SamePool, Busy
<1>3. \A m \in Namespaces, p \in Pools : settled'[<<m, p>>] # "unknown" =>
        settled'[<<m, p>>] = settled[<<m, p>>] /\ <<m, p>> # <<ns, input[r].pool>>
  BY DEF Begin, TypeOK
<1>4. CASE HasStream(r, streamCache[ns]) /\ Works(r) /\ streamCache[ns] # None
  <2>1. streamCache[ns] \in Nat /\ Of(ns, streamCache[ns])' /\ ~Old
    BY <1>1, <1>4 DEF Owned, Of, Migrated, TypeOK, OptId
  <2>2. \A m \in Namespaces :
          streamCache'[m] = IF Works(r) /\ m = ns THEN streamCache[ns] ELSE streamCache[m]
    BY <1>1
  <2>3. QED
    BY <1>1, <1>2, <1>3, <1>4, <2>1, <2>2, HasStreamKeeps
<1>5. CASE /\ UNCHANGED <<stream, tasks>>
           /\ \E p \in {"streamList", "purgeList"} :
                /\ pc' = [pc EXCEPT ![r] = p]
                /\ Works(r) => p = "purgeList"
  <2>1. PICK p \in {"streamList", "purgeList"} :
          /\ \A o \in Requests : pc'[o] = IF o = r THEN p ELSE pc[o]
          /\ Works(r) => p = "purgeList"
    BY <1>5 DEF TypeOK
  <2>2. StreamIds' /\ SubIds' /\ Owned'
    BY <1>1, <1>5 DEF StreamIds, SubIds, Unknown, Owned, Of
  <2>3. Migrated'
    BY <1>1, <1>3, <1>5, <2>1 DEF Migrated, Old, Works
  <2>4. OneCreator'
    <3>1. \A o \in Requests : pc[o] \in Finding /\ input[o].ns = ns => Has(ns)
      <4>1. StreamsOf(ns) # {} \/ Looking(ns) = {}
        BY DEF Begin, MayBegin
      <4>2. StreamsOf(ns) # {} => Has(ns)
        BY DEF StreamsOf, Has
      <4>3. QED
        BY <4>1, <4>2 DEF Looking
    <3>2. QED
      BY <1>1, <1>5, <2>1, <3>1 DEF OneCreator, Has, Finding
  <2>5. TasksOwn'
    BY <1>1, <1>5, <2>1 DEF TasksOwn, Works, Finding
  <2>6. \A o \in Requests \ {r} : Busy(o)' => Busy(o)
    BY <1>5, <2>1 DEF Busy
  <2>7. OnePerPool'
    BY <1>1, <1>2, <2>6 DEF OnePerPool, Works, SamePool
  <2>8. SettledIdle'
    BY <1>1, <1>3, <2>6 DEF SettledIdle, Works
  <2>9. Seen' /\ Unique'
    BY <1>1, <1>5 DEF Seen, Existing, Unique, Old
  <2>10. CacheLive'
    BY <1>1, <1>5, <2>1 DEF CacheLive, Unknown, On
  <2>11. Deactivating'
    BY <1>1, <1>5, <2>1 DEF Deactivating, On, Heard
  <2>12. Activating'
    BY <1>1, <1>5, <2>1 DEF Activating, EventsOf, Unknown, Heard, On
  <2>13. Active' /\ Inactive'
    <3>1. \A m \in Namespaces, p1 \in Pools :
            settled'[<<m, p1>>] \in {"unknown", settled[<<m, p1>>]}
      BY <1>3
    <3>2. QED
      BY <1>1, <3>1 DEF Active, Inactive, Heard, On
  <2>14. QED
    BY <2>2, <2>3, <2>4, <2>5, <2>7, <2>8, <2>9, <2>10, <2>11, <2>12, <2>13
<1>6. QED
  BY <1>4, <1>5 DEF Begin, Works, GoTo

\* The stream is updated or created.
LEMMA StreamSaveKeeps ==
  ASSUME TypeOK, CacheFilled, LInv, NEW r \in Requests, StreamSave(r)
  PROVE  LInv'
<1> DEFINE ns == input[r].ns
<1> USE DEF LInv
<1>0. PICK id \in Nat : id = IF stream[r] = None THEN nextId ELSE stream[r]
  BY DEF TypeOK, OptId
<1>1. /\ ns \in Namespaces /\ pc[r] = "streamSave"
      /\ UNCHANGED <<subs, input, purge, settled>>
  BY InputFields DEF TypeOK, StreamSave
<1>2. \/ UNCHANGED <<streams, nextId>> /\ stream[r] # None
      \/ /\ ~Has(ns) /\ stream[r] = None
         /\ streams' = streams \cup {[id |-> nextId, name |-> ns]}
         /\ nextId' = nextId + 1
  BY DEF StreamSave, OneCreator
<1>3. Of(ns, id)' /\ ~Unknown(id)'
  <2>1. CASE UNCHANGED <<streams, nextId>> /\ stream[r] # None
    <3>1. ~Unknown(id) /\ Of(ns, id)
      BY <1>0, <2>1 DEF StreamSave, Owned
    <3>2. QED
      BY <1>1, <2>1, <3>1 DEF Unknown, Of
  <2>2. CASE /\ stream[r] = None
             /\ streams' = streams \cup {[id |-> nextId, name |-> ns]}
             /\ nextId' = nextId + 1
    <3>1. \A s \in streams : s.id # nextId
      BY DEF StreamIds, TypeOK, Stream
    <3>2. PICK s : s.id = nextId /\ s.name = ns /\ streams' = streams \cup {s}
      BY <2>2
    <3>3. id = nextId /\ nextId \in Nat
      BY <1>0, <2>2 DEF TypeOK
    <3>4. Of(ns, id)'
      BY <1>1, <2>2, <3>1, <3>2, <3>3 DEF Of
    <3>5. ~Unknown(id)'
      BY <3>2, <3>3 DEF Unknown
    <3>6. QED
      BY <3>4, <3>5
  <2>3. QED
    BY <1>2, <2>1, <2>2
<1>4. Works(r) => ~Old
  BY <1>1 DEF Migrated
<1>5. \A o \in Requests : Works(r) /\ Works(o) /\ SamePool(o, r) /\ Busy(o) => o = r
  BY <1>1 DEF OnePerPool, SamePool, Busy
<1>6. \A m \in Namespaces, p \in Pools : settled'[<<m, p>>] # "unknown" =>
        /\ settled'[<<m, p>>] = settled[<<m, p>>]
        /\ Works(r) => <<m, p>> # <<ns, input[r].pool>>
  BY <1>1 DEF SettledIdle, Busy
<1>7. CASE /\ HasStream(r, id)
           /\ streamCache' = IF input[r].op = "connect" THEN streamCache
                             ELSE [streamCache EXCEPT ![ns] = id]
  <2>1. \A m \in Namespaces :
          streamCache'[m] = IF Works(r) /\ m = ns THEN id ELSE streamCache[m]
    BY <1>7 DEF Works, TypeOK
  <2>2. QED
    BY <1>1, <1>2, <1>3, <1>4, <1>5, <1>6, <1>7, <2>1, HasStreamKeeps
<1>8. CASE Rejects(r) /\ UNCHANGED <<streamCache, stream, tasks>>
  BY <1>1, <1>2, <1>3, <1>4, <1>5, <1>6, <1>8, HasStreamKeeps
<1>9. QED
  BY <1>0, <1>7, <1>8 DEF StreamSave

\* An activation has what it needs to start its tasks.
LEMMA QueryKeeps ==
  ASSUME TypeOK, CacheFilled, LInv, NEW r \in Requests, Query(r)
  PROVE  LInv'
<1> DEFINE ns == input[r].ns
           new == TasksFor(r, stream[r], streamCache[ns])
<1> USE DEF LInv
<1>1. /\ ns \in Namespaces /\ pc[r] = "query" /\ input[r].op = "activate"
      /\ pc' = [pc EXCEPT ![r] = "tasks"] /\ tasks' = tasks \cup new
      /\ UNCHANGED <<streams, subs, nextId, streamCache, input, stream, purge, settled>>
  BY InputFields DEF Query, GoTo, TasksOwn, TypeOK, connectorVars
<1>2. /\ \A t \in new :
           /\ t.req = r /\ t.pc = "list" /\ t.stream \in {stream[r], streamCache[ns]}
           /\ t.name.prefix = PrefixFor(input[r].op, input[r].pool)
           /\ t.name.pool = input[r].pool
           /\ t.name.event \in Events
      /\ \A e \in EventsOf(r) : \E t \in new : t.name.event = e
      /\ \A t, u \in new : t.name = u.name /\ t.stream = u.stream => t = u
  BY TasksForShape
<1> HIDE DEF new
<1>3. /\ \A t \in tasks : t.req # r /\ t \in tasks'
      /\ \A t \in tasks' : t \in tasks \/ t \in new
  BY <1>1 DEF TasksOwn
<1>4. \A o \in Requests : pc'[o] = IF o = r THEN "tasks" ELSE pc[o]
  BY <1>1 DEF TypeOK
<1>5. stream[r] # None /\ streamCache[ns] # None
  BY <1>1, NamesAssumption DEF CacheFilled
<1>6. Works(r) /\ ~Old
  BY <1>1 DEF Works, Migrated
<1>7. StreamIds' /\ SubIds'
  BY <1>1 DEF StreamIds, SubIds, Unknown
<1>8. Owned'
  <2>1. \A t \in tasks' : Of(input[t.req].ns, t.stream)
    BY <1>1, <1>2, <1>3, <1>5 DEF Owned
  <2>2. QED
    BY <1>1, <2>1 DEF Owned, Of
<1>9. Migrated'
  BY <1>1, <1>6 DEF Migrated, Old
<1>10. OneCreator'
  BY <1>1, <1>4 DEF OneCreator, Has, Finding
<1>11. TasksOwn'
  <2>1. \A t \in tasks' : /\ Works(t.req)
                          /\ t.name.pool = input[t.req].pool
                          /\ t.name.prefix = PrefixFor(input[t.req].op, input[t.req].pool)
    BY <1>2, <1>3, <1>6 DEF TasksOwn
  <2>2. \A o \in Requests : pc'[o] \in Finding \cup {"idle", "query", "submit"} =>
          \A t \in tasks' : t.req # o
    BY <1>2, <1>3, <1>4 DEF TasksOwn, Finding
  <2>3. QED
    BY <1>1, <1>4, <1>6, <2>1, <2>2 DEF TasksOwn, Works
<1>12. \A o \in Requests : Busy(o)' => Busy(o)
  BY <1>1, <1>2, <1>3, <1>4 DEF Busy
<1>13. OnePerPool' /\ SettledIdle'
  BY <1>1, <1>12 DEF OnePerPool, SettledIdle, Works, SamePool
<1>14. Seen'
  BY <1>1, <1>2, <1>3 DEF Seen, Existing
<1>15. Unique'
  BY <1>1, <1>2, <1>3 DEF Unique, Old
<1>16. CacheLive'
  <2>1. Unknown(streamCache[ns]) => Unknown(stream[r])
    BY <1>1, <1>5 DEF CacheLive
  <2>2. \A t \in tasks', m \in Namespaces :
          Unknown(streamCache[m]) /\ streamCache[m] # None /\ input[t.req].ns = m
          => Unknown(t.stream)
    BY <1>2, <1>3, <2>1 DEF CacheLive
  <2>3. QED
    BY <1>1, <1>4, <2>2 DEF CacheLive, Unknown, On
<1>17. Deactivating'
  <2>1. \A t \in tasks' : input[t.req].op = "deactivate" => t \in tasks
    BY <1>1, <1>2, <1>3
  <2>2. QED
    BY <1>1, <1>3, <1>4, <2>1 DEF Deactivating, On, Heard
<1>18. Activating'
  <2>1. ASSUME NEW o \in Requests, pc'[o] = "tasks", input[o].op \in {"create", "activate"}
        PROVE  \/ \E t \in tasks' : t.req = o /\ Unknown(t.stream)
               \/ \A e \in EventsOf(o) : \/ \E t \in tasks' : t.req = o /\ t.name.event = e
                                         \/ Heard(input[o].ns, Name(input[o].pool, e))
    <3>1. CASE o = r
      BY <1>1, <1>2, <3>1
    <3>2. CASE o # r
      BY <1>3, <1>4, <2>1, <3>2 DEF Activating
    <3>3. QED
      BY <3>1, <3>2
  <2>2. QED
    BY <1>1, <2>1 DEF Activating, EventsOf, Unknown, Heard, On, Name
<1>19. Active' /\ Inactive'
  BY <1>1 DEF Active, Inactive, Heard, On
<1>20. QED
  BY <1>7, <1>8, <1>9, <1>10, <1>11, <1>13, <1>14, <1>15, <1>16, <1>17, <1>18, <1>19

-----------------------------------------------------------------------------
(* Tasks                                                                   *)

\* No other task works on a listener: the tasks of a request have different
\* listeners, and one request works on a pool.
LEMMA OneTask ==
  ASSUME TypeOK, LInv, NEW t \in tasks, NEW u \in tasks,
         u.name = t.name, u.stream = t.stream, ~Unknown(t.stream)
  PROVE  u = t
<1> USE DEF LInv
<1>1. input[u.req].ns = input[t.req].ns
  BY DEF Owned, Of, Unknown
<1>2. t.req \in Requests /\ u.req \in Requests
  BY DEF TypeOK, Task
<1>3. u.req = t.req
  BY <1>1, <1>2 DEF TasksOwn, OnePerPool, SamePool, Busy
<1>4. QED
  BY <1>3 DEF Unique

\* Whoever works on a pool is the one that does.
LEMMA OneWorker ==
  ASSUME TypeOK, LInv, NEW t \in tasks, NEW o \in Requests, Works(o), Busy(o),
         input[o].ns = input[t.req].ns, input[o].pool = t.name.pool
  PROVE  o = t.req
<1>1. t.req \in Requests
  BY DEF TypeOK, Task
<1>2. QED
  BY <1>1 DEF LInv, TasksOwn, OnePerPool, SamePool, Busy

\* What the call of a task changes: nothing, one subscription more, or the
\* subscriptions of its listener less.
Calls(t) ==
  \/ UNCHANGED <<subs, nextId>>
  \/ /\ t.pc = "create" /\ ~Unknown(t.stream)
     /\ subs' = subs \cup {[id |-> nextId, stream |-> t.stream, name |-> t.name]}
     /\ nextId' = nextId + 1
  \/ /\ t.pc = "delete"
     /\ subs' = {s \in subs : s.id # t.sub} /\ UNCHANGED nextId

\* A task is settled.
Leaves(t) ==
  /\ tasks' = tasks \ {t}
  /\ \A o \in Requests \ {t.req} : pc'[o] = pc[o]
  /\ \/ pc'[t.req] = pc[t.req]
     \/ pc[t.req] = "tasks" /\ pc'[t.req] = "done"
     \/ /\ pc[t.req] = "tasks" /\ pc'[t.req] = "submit"
        /\ \A u \in tasks' : u.req # t.req
  /\ UNCHANGED <<streams, streamCache, input, stream, purge>>
  /\ Calls(t)

\* What Calls(t) means for the listeners.
LEMMA CallsListeners ==
  ASSUME TypeOK, LInv, NEW t \in tasks, Leaves(t)
  PROVE  /\ nextId' \in Nat /\ nextId' >= nextId /\ nextId \in Nat
         /\ \A b \in subs' : \/ b \in subs
                             \/ /\ b.id = nextId /\ nextId' = nextId + 1
                                /\ b.stream = t.stream /\ b.name = t.name
                                /\ t.pc = "create" /\ ~Unknown(t.stream)
         /\ \A b \in subs : \/ b \in subs'
                            \/ /\ t.pc = "delete" /\ b.id = t.sub
                               /\ b.stream = t.stream /\ b.name = t.name
         /\ \A b, c \in subs' : b \notin subs /\ c \notin subs => b = c
<1>1. nextId \in Nat
  BY DEF TypeOK
<1>2. CASE UNCHANGED <<subs, nextId>>
  BY <1>1, <1>2
<1>3. CASE /\ t.pc = "create" /\ ~Unknown(t.stream)
           /\ subs' = subs \cup {[id |-> nextId, stream |-> t.stream, name |-> t.name]}
           /\ nextId' = nextId + 1
  BY <1>1, <1>3
<1>4. CASE /\ t.pc = "delete"
           /\ subs' = {s \in subs : s.id # t.sub} /\ UNCHANGED nextId
  BY <1>1, <1>4 DEF LInv, Seen, Existing
<1>5. QED
  BY <1>2, <1>3, <1>4 DEF Leaves, Calls

\* What holds whatever the outcome of the task's call.
LEMMA LeavesKeeps ==
  ASSUME TypeOK, LInv, NEW t \in tasks, Leaves(t)
  PROVE  /\ StreamIds' /\ SubIds' /\ Owned' /\ Migrated' /\ OneCreator'
         /\ TasksOwn' /\ OnePerPool' /\ Seen' /\ Unique' /\ CacheLive'
         /\ \A o \in Requests : Busy(o)' => Busy(o)
<1> DEFINE r == t.req
           ns == input[r].ns
<1> USE DEF LInv
<1>1. /\ tasks' = tasks \ {t}
      /\ UNCHANGED <<streams, streamCache, input, stream, purge>>
      /\ r \in Requests /\ ns \in Namespaces /\ t.stream \in Nat /\ t.name \in SubName
  BY InputFields DEF Leaves, TypeOK, Task
<1>2. /\ nextId' \in Nat /\ nextId' >= nextId /\ nextId \in Nat
      /\ \A b \in subs' : \/ b \in subs
                          \/ /\ b.id = nextId /\ nextId' = nextId + 1
                             /\ b.stream = t.stream /\ b.name = t.name
                             /\ t.pc = "create" /\ ~Unknown(t.stream)
      /\ \A b \in subs : \/ b \in subs'
                         \/ /\ t.pc = "delete" /\ b.id = t.sub
                            /\ b.stream = t.stream /\ b.name = t.name
      /\ \A b, c \in subs' : b \notin subs /\ c \notin subs => b = c
  BY CallsListeners
<1>3. /\ ~Old /\ Works(r) /\ pc[r] \notin Finding \cup {"idle", "query", "submit"}
      /\ Busy(r)
  BY <1>1 DEF Migrated, TasksOwn, Busy
<1>4. /\ \A o \in Requests : pc'[o] # pc[o] =>
           o = r /\ pc[r] = "tasks" /\ pc'[r] \in {"done", "submit"}
      /\ \A o \in Requests : pc'[o] = "submit" => pc[o] = "submit" \/ \A u \in tasks' : u.req # o
  BY DEF Leaves
<1>5. StreamIds'
  BY <1>1, <1>2 DEF StreamIds, TypeOK, Stream
<1>6. SubIds'
  <2>1. t.pc = "create" => t.name.prefix = "address"
    BY <1>1 DEF Seen, TasksOwn, PrefixFor
  <2>2. \A b \in subs : b.id \in Nat
    BY DEF TypeOK, Subscription
  <2>3. \A b \in subs' : b.id < nextId' /\ ~Unknown(b.stream) /\ b.name.prefix = "address"
    BY <1>2, <2>1, <2>2 DEF SubIds
  <2>4. QED
    BY <1>1, <2>3 DEF SubIds, Unknown
<1>7. Owned'
  <2>1. \A m : \A id \in Nat : Of(m, id) => Of(m, id)'
    BY <1>1, <1>2 DEF Of
  <2>2. \A o \in Requests : stream[o] # None => Of(input[o].ns, stream[o])'
    BY <1>1, <2>1 DEF Owned, TypeOK, OptId
  <2>3. \A m \in Namespaces : streamCache[m] # None => Of(m, streamCache[m])'
    BY <1>1, <2>1 DEF Owned, TypeOK, OptId
  <2>4. \A u \in tasks : Of(input[u.req].ns, u.stream)'
    BY <1>1, <2>1 DEF Owned, TypeOK, Task
  <2>5. QED
    BY <1>1, <2>2, <2>3, <2>4 DEF Owned, Of
<1>8. Migrated'
  BY <1>1, <1>3 DEF Migrated, Old
<1>9. OneCreator'
  BY <1>1, <1>4 DEF OneCreator, Has, Finding
<1>10. TasksOwn'
  <2>1. \A o \in Requests : pc'[o] \in Finding \cup {"idle", "query", "submit"} =>
          \A u \in tasks' : u.req # o
    BY <1>1, <1>4 DEF TasksOwn, Finding
  <2>2. QED
    BY <1>1, <1>4, <2>1 DEF TasksOwn, Works, Finding
<1>11. \A o \in Requests : Busy(o)' => Busy(o)
  BY <1>1, <1>4 DEF Busy
<1>12. OnePerPool'
  BY <1>1, <1>11 DEF OnePerPool, Works, SamePool
<1>13. \A u \in tasks' : /\ u \in tasks /\ u # t
                         /\ ~Unknown(t.stream) => ~(u.name = t.name /\ u.stream = t.stream)
  BY <1>1, OneTask
<1>14. Seen'
  <2>1. ASSUME NEW u \in tasks', u.pc = "create", NEW b \in subs',
               b.name = u.name, b.stream = u.stream
        PROVE  FALSE
    BY <1>2, <1>13, <2>1 DEF Seen, Existing
  <2>2. ASSUME NEW u \in tasks', u.pc = "delete", NEW b \in subs'
        PROVE  b.id = u.sub <=> b.name = u.name /\ b.stream = u.stream
    <3>1. CASE b \in subs
      BY <1>13, <2>2, <3>1 DEF Seen, Existing
    <3>2. CASE b \notin subs
      BY <1>2, <1>13, <2>2, <3>2 DEF Seen
    <3>3. QED
      BY <3>1, <3>2
  <2>3. \A u \in tasks' :
          /\ u.pc = "create" => input[u.req].op # "deactivate"
          /\ u.pc = "delete" => /\ input[u.req].op = "deactivate"
                                /\ u.sub \in Nat /\ u.sub < nextId'
    BY <1>2, <1>13 DEF Seen
  <2>4. QED
    BY <1>1, <2>1, <2>2, <2>3 DEF Seen, Existing
<1>15. Unique'
  <2>1. ASSUME NEW b \in subs', NEW c \in subs',
               b.id = c.id \/ (b.name = c.name /\ b.stream = c.stream)
        PROVE  b = c
    <3>1. \A x \in subs : x.id # nextId
      BY <1>2 DEF SubIds, TypeOK, Subscription
    <3>2. t.pc = "create" => \A x \in subs : ~(x.name = t.name /\ x.stream = t.stream)
      BY DEF Seen, Existing
    <3>3. QED
      BY <1>2, <1>3, <2>1, <3>1, <3>2 DEF Unique
  <2>2. \A u, v \in tasks' :
          u.req = v.req /\ u.name = v.name /\ u.stream = v.stream => u = v
    BY <1>13 DEF Unique
  <2>3. QED
    BY <2>1, <2>2 DEF Unique
<1>16. CacheLive'
  <2> SUFFICES ASSUME NEW m \in Namespaces, streamCache[m] # None, Unknown(streamCache[m])
               PROVE  /\ \A b \in subs' : ~On(m, b.stream)
                      /\ \A u \in tasks' : input[u.req].ns = m => Unknown(u.stream)
                      /\ \A o \in Requests : pc'[o] = "query" /\ input[o].ns = m
                                             => Unknown(stream[o])
    BY <1>1 DEF CacheLive, On, Unknown
  <2>1. ASSUME NEW b \in subs' PROVE ~On(m, b.stream)
    <3>1. CASE b \in subs
      BY <3>1 DEF CacheLive
    <3>2. CASE b.stream = t.stream /\ ~Unknown(t.stream)
      <4>1. On(m, t.stream) => m = ns
        BY <1>1 DEF On, Owned, Of
      <4>2. QED
        BY <1>1, <3>2, <4>1 DEF CacheLive
    <3>3. QED
      BY <1>2, <3>1, <3>2
  <2>2. QED
    BY <1>4, <1>13, <2>1 DEF CacheLive
<1>17. QED
  BY <1>5, <1>6, <1>7, <1>8, <1>9, <1>10, <1>11, <1>12, <1>14, <1>15, <1>16

\* A task that is fulfilled has done its work.
Succeeds(t) ==
  IF input[t.req].op = "deactivate"
  THEN \A b \in subs' : b.name = t.name => ~On(input[t.req].ns, b.stream)
  ELSE ~Unknown(t.stream) /\ \E b \in subs' : b.name = t.name /\ b.stream = t.stream

\* What a request that awaits its tasks has achieved after one of them.
LEMMA Progress ==
  ASSUME TypeOK, LInv, NEW t \in tasks, Leaves(t),
         NEW o \in Requests, pc[o] = "tasks", o = t.req => Succeeds(t)
  PROVE  /\ input[o].op \in {"create", "activate"} =>
              \/ \E u \in tasks' : u.req = o /\ Unknown(u.stream)
              \/ \A e \in EventsOf(o) :
                   \/ \E u \in tasks' : u.req = o /\ u.name.event = e
                   \/ \E b \in subs' : b.name = Name(input[o].pool, e) /\ On(input[o].ns, b.stream)
         /\ input[o].op = "deactivate" /\ input[o].pool \notin LegacyPools =>
              \A e \in Events :
                \/ \E u \in tasks' : u.req = o /\ u.name.event = e
                \/ \A b \in subs' : b.name = Name(input[o].pool, e)
                                    => ~On(input[o].ns, b.stream)
<1> DEFINE r == t.req
           ns == input[o].ns
           pool == input[o].pool
<1> USE DEF LInv
<1>1. /\ tasks' = tasks \ {t} /\ r \in Requests
      /\ t.name \in SubName /\ t.name.pool = input[r].pool
      /\ t.name.prefix = PrefixFor(input[r].op, input[r].pool)
      /\ Works(o) /\ Busy(o)
  BY DEF Leaves, TasksOwn, TypeOK, Task, Busy
<1>2. /\ \A b \in subs' : \/ b \in subs
                          \/ /\ b.stream = t.stream /\ b.name = t.name
                             /\ t.pc = "create" /\ ~Unknown(t.stream)
      /\ \A b \in subs : \/ b \in subs'
                         \/ /\ t.pc = "delete" /\ b.id = t.sub
                            /\ b.stream = t.stream /\ b.name = t.name
  BY CallsListeners
<1>3. \A m : On(m, t.stream) => m = input[r].ns
  BY DEF On, Owned, Of
<1>4. \A e : Name(pool, e).pool = pool /\ Name(pool, e).event = e
  BY DEF Name
<1>5. On(ns, t.stream) /\ t.name.pool = pool => o = r
  BY <1>1, <1>3, OneWorker
<1>6. input[r].op # "deactivate" \/ input[r].pool \notin LegacyPools
      => t.name = Name(input[r].pool, t.name.event)
  BY <1>1 DEF PrefixFor, Name, SubName
<1>7. \A u \in tasks : u = t \/ u \in tasks'
  BY <1>1
<1>8. ASSUME input[o].op \in {"create", "activate"},
             \A u \in tasks' : ~(u.req = o /\ Unknown(u.stream)),
             NEW e \in EventsOf(o)
      PROVE  \/ \E u \in tasks' : u.req = o /\ u.name.event = e
             \/ \E b \in subs' : b.name = Name(pool, e) /\ On(ns, b.stream)
  <2>1. o = r => ~Unknown(t.stream) /\ \E b \in subs' : b.name = t.name /\ b.stream = t.stream
    BY <1>8 DEF Succeeds
  <2>2. \A u \in tasks : ~(u.req = o /\ Unknown(u.stream))
    BY <1>7, <1>8, <2>1
  <2>3. CASE \E u \in tasks : u.req = o /\ u.name.event = e
    <3>1. PICK u \in tasks : u.req = o /\ u.name.event = e
      BY <2>3
    <3>2. CASE u = t
      <4>1. On(ns, t.stream)
        BY <2>1, <3>1, <3>2 DEF On, Unknown, Owned, Of
      <4>2. t.name = Name(pool, e)
        BY <1>6, <1>8, <3>1, <3>2
      <4>3. QED
        BY <2>1, <3>1, <3>2, <4>1, <4>2
    <3>3. CASE u # t
      BY <1>7, <3>1, <3>3
    <3>4. QED
      BY <3>2, <3>3
  <2>4. CASE Heard(ns, Name(pool, e))
    <3>1. PICK b \in subs : b.name = Name(pool, e) /\ On(ns, b.stream)
      BY <2>4 DEF Heard
    <3>2. CASE b \in subs'
      BY <3>1, <3>2
    <3>3. CASE t.pc = "delete" /\ b.stream = t.stream /\ b.name = t.name
      <4>1. o = r
        BY <1>4, <1>5, <3>1, <3>3
      <4>2. QED
        BY <1>8, <3>3, <4>1 DEF Seen
    <3>4. QED
      BY <1>2, <3>2, <3>3
  <2>5. QED
    BY <1>8, <2>2, <2>3, <2>4 DEF Activating
<1>9. ASSUME input[o].op = "deactivate", pool \notin LegacyPools, NEW e \in Events,
             \A u \in tasks' : ~(u.req = o /\ u.name.event = e),
             NEW b \in subs', b.name = Name(pool, e), On(ns, b.stream)
      PROVE  FALSE
  <2>1. CASE b \notin subs
    <3>1. b.stream = t.stream /\ b.name = t.name /\ t.pc = "create"
      BY <1>2, <2>1
    <3>2. o = r
      BY <1>4, <1>5, <1>9, <3>1
    <3>3. QED
      BY <1>9, <3>1, <3>2 DEF Seen
  <2>2. CASE b \in subs
    <3>1. PICK u \in tasks : u.req = o /\ u.name.event = e
      BY <1>9, <2>2 DEF Deactivating, Heard
    <3>2. u = t
      BY <1>7, <1>9, <3>1
    <3>3. t.name = b.name
      BY <1>6, <1>9, <3>1, <3>2
    <3>4. QED
      BY <1>9, <3>1, <3>2, <3>3 DEF Succeeds
  <2>3. QED
    BY <2>1, <2>2
<1>10. QED
  BY <1>8, <1>9

\* A pool is settled by the last task of a request that succeeded in all.
SettlesPool(t, ns, p) ==
  /\ input[t.req].ns = ns /\ input[t.req].pool = p
  /\ pc[t.req] = "tasks" /\ pc'[t.req] = "done"
  /\ Succeeds(t) /\ \A u \in tasks' : u.req # t.req
  /\ settled'[<<ns, p>>] = IF input[t.req].op = "activate" THEN "active" ELSE "inactive"

LEMMA SettlesKeeps ==
  ASSUME TypeOK, TypeOK', LInv, NEW t \in tasks, Leaves(t),
         pc'[t.req] = "tasks" => Succeeds(t),
         \A ns \in Namespaces, p \in Pools :
           settled'[<<ns, p>>] = settled[<<ns, p>>] \/ SettlesPool(t, ns, p)
  PROVE  LInv'
<1> DEFINE r == t.req
<1> USE DEF LInv
<1>1. /\ StreamIds' /\ SubIds' /\ Owned' /\ Migrated' /\ OneCreator'
      /\ TasksOwn' /\ OnePerPool' /\ Seen' /\ Unique' /\ CacheLive'
      /\ \A o \in Requests : Busy(o)' => Busy(o)
  BY LeavesKeeps
<1>2. /\ tasks' = tasks \ {t} /\ r \in Requests /\ Works(r) /\ Busy(r)
      /\ UNCHANGED <<streams, streamCache, input, stream, purge>>
      /\ t.name.pool = input[r].pool
  BY DEF Leaves, TasksOwn, TypeOK, Task, Busy
<1>3. /\ \A b \in subs' : \/ b \in subs
                          \/ /\ b.stream = t.stream /\ b.name = t.name /\ t.pc = "create"
      /\ \A b \in subs : \/ b \in subs'
                         \/ /\ b.stream = t.stream /\ b.name = t.name
  BY CallsListeners
<1>4. \A m : On(m, t.stream) => m = input[r].ns
  BY DEF On, Owned, Of
<1>5. \A o \in Requests : pc'[o] = "tasks" => pc[o] = "tasks" /\ (o = r => Succeeds(t))
  BY DEF Leaves
<1>6. Activating'
  <2>1. ASSUME NEW o \in Requests, pc'[o] = "tasks", input[o].op \in {"create", "activate"}
        PROVE  \/ \E u \in tasks' : u.req = o /\ Unknown(u.stream)
               \/ \A e \in EventsOf(o) :
                    \/ \E u \in tasks' : u.req = o /\ u.name.event = e
                    \/ \E b \in subs' : b.name = Name(input[o].pool, e)
                                        /\ On(input[o].ns, b.stream)
    BY <1>5, <2>1, Progress
  <2>2. QED
    BY <1>2, <2>1 DEF Activating, EventsOf, Unknown, Heard, On, Name
<1>7. Deactivating'
  <2>1. ASSUME NEW u \in tasks', input[u.req].op = "deactivate", NEW b \in subs',
               b.name = u.name, On(input[u.req].ns, b.stream)
        PROVE  b.stream = u.stream
    <3>1. u \in tasks /\ u.req \in Requests /\ Works(u.req) /\ Busy(u.req)
          /\ u.name.pool = input[u.req].pool
      BY <1>2 DEF TasksOwn, TypeOK, Task, Busy
    <3>2. CASE b \in subs
      BY <2>1, <3>1, <3>2 DEF Deactivating
    <3>3. CASE b.stream = t.stream /\ b.name = t.name /\ t.pc = "create"
      <4>1. input[u.req].ns = input[t.req].ns /\ input[u.req].pool = t.name.pool
        BY <1>4, <2>1, <3>1, <3>3
      <4>2. u.req = t.req
        BY <3>1, <4>1, OneWorker
      <4>3. QED
        BY <2>1, <3>3, <4>2 DEF Seen
    <3>4. QED
      BY <1>3, <3>2, <3>3
  <2>2. ASSUME NEW o \in Requests, pc'[o] = "tasks", input[o].op = "deactivate",
               input[o].pool \notin LegacyPools, NEW e \in Events
        PROVE  \/ \E u \in tasks' : u.req = o /\ u.name.event = e
               \/ \A b \in subs' : b.name = Name(input[o].pool, e)
                                   => ~On(input[o].ns, b.stream)
    BY <1>5, <2>2, Progress
  <2>3. QED
    BY <1>2, <2>1, <2>2 DEF Deactivating, Heard, On, Name
<1>8. SettledIdle'
  <2>1. ASSUME NEW ns \in Namespaces, NEW p \in Pools, SettlesPool(t, ns, p),
               NEW o \in Requests, Works(o), input[o].ns = ns, input[o].pool = p, Busy(o)'
        PROVE  FALSE
    <3>1. o = r
      BY <1>1, <1>2, <2>1 DEF OnePerPool, SamePool, SettlesPool
    <3>2. QED
      BY <2>1, <3>1 DEF SettlesPool, Busy
  <2>2. QED
    BY <1>1, <1>2, <2>1 DEF SettledIdle, Works
<1>9. \A ns \in Namespaces, p \in Pools : settled[<<ns, p>>] # "unknown" =>
        \A b : ~(b.stream = t.stream /\ b.name = t.name /\ b.name.pool = p /\ On(ns, b.stream))
  BY <1>2, <1>4 DEF SettledIdle
<1>10. ASSUME NEW ns \in Namespaces, NEW p \in Pools, SettlesPool(t, ns, p)
       PROVE  /\ settled'[<<ns, p>>] = "active" =>
                   \A e \in Events : \E b \in subs' : b.name = Name(p, e) /\ On(ns, b.stream)
              /\ settled'[<<ns, p>>] = "inactive" /\ p \notin LegacyPools =>
                   \A e \in Events : \A b \in subs' : b.name = Name(p, e) => ~On(ns, b.stream)
  <2>1. input[r] \in Input /\ input[r].op # "connect" /\ input[r].op # "create"
    BY <1>2, <1>10, PoolsAssumption DEF SettlesPool, TypeOK, Input, Works
  <2>2. input[r].op \in {"activate", "deactivate"}
    BY <2>1 DEF Input
  <2>3. CASE input[r].op = "activate"
    BY <1>2, <1>10, <2>3, Progress DEF SettlesPool, EventsOf
  <2>4. CASE input[r].op = "deactivate"
    BY <1>2, <1>10, <2>4, Progress DEF SettlesPool
  <2>5. QED
    BY <2>2, <2>3, <2>4
<1>11. Active'
  <2>1. ASSUME NEW ns \in Namespaces, NEW p \in Pools, settled'[<<ns, p>>] = "active",
               NEW e \in Events
        PROVE  \E b \in subs' : b.name = Name(p, e) /\ On(ns, b.stream)
    <3>1. CASE settled[<<ns, p>>] = "active"
      <4>1. PICK b \in subs : b.name = Name(p, e) /\ On(ns, b.stream)
        BY <3>1 DEF Active, Heard
      <4>2. b.name.pool = p
        BY <4>1 DEF Name
      <4>3. QED
        BY <1>3, <1>9, <3>1, <4>1, <4>2
    <3>2. CASE SettlesPool(t, ns, p)
      BY <1>10, <2>1, <3>2
    <3>3. QED
      BY <2>1, <3>1, <3>2
  <2>2. QED
    BY <1>2, <2>1 DEF Active, Heard, On, Name
<1>12. Inactive'
  <2>1. ASSUME NEW ns \in Namespaces, NEW p \in Pools \ LegacyPools,
               settled'[<<ns, p>>] = "inactive", NEW b \in subs', b.name.pool = p
        PROVE  ~On(ns, b.stream)
    <3>1. CASE settled[<<ns, p>>] = "inactive"
      BY <1>3, <1>9, <2>1, <3>1 DEF Inactive
    <3>2. CASE SettlesPool(t, ns, p)
      <4>1. b.name \in SubName /\ b.name.prefix = "address"
        BY <1>1 DEF SubIds, TypeOK, Subscription
      <4>2. b.name = Name(p, b.name.event) /\ b.name.event \in Events
        BY <2>1, <4>1 DEF SubName, Name
      <4>3. QED
        BY <1>10, <2>1, <3>2, <4>2
    <3>3. QED
      BY <2>1, <3>1, <3>2
  <2>2. QED
    BY <1>2, <2>1 DEF Inactive, On
<1>13. QED
  BY <1>1, <1>6, <1>7, <1>8, <1>11, <1>12

LEMMA RejectedKeeps ==
  ASSUME TypeOK, TypeOK', LInv, NEW t \in tasks, Rejected(t), Calls(t),
         UNCHANGED <<streams, streamCache, input>>
  PROVE  LInv'
<1>1. pc \in [Requests -> Finding \cup {"idle", "query", "tasks", "submit", "done"}]
      /\ t.req \in Requests
  BY DEF TypeOK, Task
<1>2. pc' = [pc EXCEPT ![t.req] = IF pc[t.req] = "tasks" THEN "done" ELSE @]
  BY <1>1 DEF Rejected, Rejects, GoTo
<1>3. Leaves(t) /\ pc'[t.req] # "tasks"
  BY <1>1, <1>2 DEF Rejected, Leaves
<1>4. QED
  BY <1>3, SettlesKeeps DEF Rejected

LEMMA FulfilledKeeps ==
  ASSUME TypeOK, TypeOK', LInv, NEW t \in tasks, NEW deleted \in BOOLEAN,
         Fulfilled(t, deleted), Calls(t), Succeeds(t),
         UNCHANGED <<streams, streamCache, input>>
  PROVE  LInv'
<1> DEFINE r == t.req
<1>1. /\ pc \in [Requests -> Finding \cup {"idle", "query", "tasks", "submit", "done"}]
      /\ r \in Requests /\ tasks' = tasks \ {t} /\ UNCHANGED <<stream, purge>>
  BY DEF TypeOK, Task, Fulfilled
<1>2. CASE pc[r] = "tasks" /\ \A u \in tasks \ {t} : u.req # r
  <2>1. /\ pc' = [pc EXCEPT ![r] = IF input[r].op = "create" THEN "submit" ELSE "done"]
        /\ settled' = [np \in DOMAIN settled |->
               IF np # <<input[r].ns, input[r].pool>> \/ ~Alone(r) THEN settled[np]
               ELSE IF input[r].op = "activate" THEN "active" ELSE "inactive"]
    BY <1>2 DEF Fulfilled, Completed, GoTo
  <2>2. Leaves(t)
    BY <1>1, <1>2, <2>1 DEF Leaves
  <2>3. ASSUME NEW ns \in Namespaces, NEW p \in Pools, settled'[<<ns, p>>] # settled[<<ns, p>>]
        PROVE  SettlesPool(t, ns, p)
    <3>1. /\ <<ns, p>> = <<input[r].ns, input[r].pool>>
          /\ settled'[<<ns, p>>] = IF input[r].op = "activate" THEN "active" ELSE "inactive"
      BY <2>1, <2>3 DEF TypeOK
    <3>2. input[r].op # "create"
      BY <1>1, <3>1, PoolsAssumption DEF TypeOK, Input
    <3>3. QED
      BY <1>1, <1>2, <2>1, <3>1, <3>2 DEF SettlesPool
  <2>4. QED
    BY <2>2, <2>3, SettlesKeeps
<1>3. CASE ~(pc[r] = "tasks" /\ \A u \in tasks \ {t} : u.req # r)
  <2>1. UNCHANGED <<pc, settled>>
    BY <1>3 DEF Fulfilled
  <2>2. Leaves(t)
    BY <1>1, <2>1 DEF Leaves
  <2>3. QED
    BY <2>1, <2>2, SettlesKeeps
<1>4. QED
  BY <1>2, <1>3

\* The task goes on with what it saw in its listing.
LEMMA ListedKeeps ==
  ASSUME TypeOK, LInv, NEW t \in tasks, NEW u,
         tasks' = (tasks \ {t}) \cup {u},
         u.req = t.req, u.name = t.name, u.stream = t.stream,
         \/ u.pc = "create" /\ Existing(t) = {} /\ input[t.req].op # "deactivate"
         \/ /\ u.pc = "delete" /\ input[t.req].op = "deactivate"
            /\ \E s \in Existing(t) : u.sub = s.id,
         UNCHANGED <<streams, subs, nextId, streamCache, input, pc, stream, purge, settled>>
  PROVE  LInv'
<1> USE DEF LInv
<1>1. /\ \A v \in tasks' : v = u \/ (v \in tasks /\ v # t)
      /\ \A v \in tasks : v = t \/ v \in tasks'
      /\ u \in tasks'
  OBVIOUS
<1>2. StreamIds' /\ SubIds'
  BY DEF StreamIds, SubIds, Unknown
<1>3. Owned'
  <2>1. \A v \in tasks' : Of(input[v.req].ns, v.stream)
    BY <1>1 DEF Owned
  <2>2. QED
    BY <2>1 DEF Owned, Of
<1>4. Migrated' /\ ~Old
  BY DEF Migrated, Old
<1>5. OneCreator'
  BY DEF OneCreator, Has, Finding
<1>6. TasksOwn'
  <2>1. \A v \in tasks' : /\ Works(v.req)
                          /\ v.name.pool = input[v.req].pool
                          /\ v.name.prefix = PrefixFor(input[v.req].op, input[v.req].pool)
    BY <1>1 DEF TasksOwn
  <2>2. \A o \in Requests : pc[o] \in Finding \cup {"idle", "query", "submit"} =>
          \A v \in tasks' : v.req # o
    BY <1>1 DEF TasksOwn
  <2>3. QED
    BY <2>1, <2>2 DEF TasksOwn, Works
<1>7. \A o \in Requests : Busy(o)' <=> Busy(o)
  BY <1>1 DEF Busy
<1>8. OnePerPool' /\ SettledIdle'
  BY <1>7 DEF OnePerPool, SettledIdle, Works, SamePool
<1>9. Unique'
  <2>1. \A v, w \in tasks' : v.req = w.req /\ v.name = w.name /\ v.stream = w.stream => v = w
    BY <1>1 DEF Unique
  <2>2. QED
    BY <2>1 DEF Unique, Old
<1>10. Seen'
  <2>1. ASSUME u.pc = "delete"
        PROVE  u.sub \in Nat /\ u.sub < nextId /\ \A b \in subs : b.id = u.sub <=> b \in Existing(t)
    <3>1. PICK s \in Existing(t) : u.sub = s.id
      BY <2>1
    <3>2. s \in subs /\ s.name = t.name /\ s.stream = t.stream
      BY DEF Existing
    <3>3. \A b \in subs : b.id = s.id <=> b.name = t.name /\ b.stream = t.stream
      BY <1>4, <3>2 DEF Unique
    <3>4. QED
      BY <3>1, <3>2, <3>3 DEF SubIds, TypeOK, Subscription, Existing
  <2>2. QED
    BY <1>1, <2>1 DEF Seen, Existing
<1>11. CacheLive'
  <2>1. \A v \in tasks', m \in Namespaces :
          streamCache[m] # None /\ Unknown(streamCache[m]) /\ input[v.req].ns = m
          => Unknown(v.stream)
    BY <1>1 DEF CacheLive
  <2>2. QED
    BY <2>1 DEF CacheLive, Unknown, On
<1>12. \A o \in Requests : \A e : (\E v \in tasks : v.req = o /\ v.name.event = e)
                              => \E v \in tasks' : v.req = o /\ v.name.event = e
  BY <1>1
<1>13. Deactivating'
  <2>1. \A v \in tasks' : input[v.req].op = "deactivate" =>
          \A b \in subs : b.name = v.name /\ On(input[v.req].ns, b.stream) => b.stream = v.stream
    BY <1>1 DEF Deactivating
  <2>2. QED
    BY <1>12, <2>1 DEF Deactivating, Heard, On
<1>14. Activating'
  <2>1. \A o \in Requests : (\E v \in tasks : v.req = o /\ Unknown(v.stream))
                            => \E v \in tasks' : v.req = o /\ Unknown(v.stream)
    BY <1>1
  <2>2. \A o \in Requests : pc[o] = "tasks" /\ input[o].op \in {"create", "activate"}
          => \/ \E v \in tasks' : v.req = o /\ Unknown(v.stream)
             \/ \A e \in EventsOf(o) : \/ \E v \in tasks' : v.req = o /\ v.name.event = e
                                       \/ Heard(input[o].ns, Name(input[o].pool, e))
    BY <1>12, <2>1 DEF Activating
  <2>3. QED
    BY <2>2 DEF Activating, EventsOf, Unknown, Heard, On, Name
<1>15. Active' /\ Inactive'
  BY DEF Active, Inactive, Heard, On
<1>16. QED
  BY <1>2, <1>3, <1>4, <1>5, <1>6, <1>8, <1>9, <1>10, <1>11, <1>13, <1>14, <1>15

\* What the calls of a task achieve when they are answered.
LEMMA ListSucceeds ==
  ASSUME TypeOK, LInv, NEW t \in tasks, TaskList(t),
         input[t.req].op = "deactivate" <=> Existing(t) = {}
  PROVE  Calls(t) /\ Succeeds(t)
<1>1. UNCHANGED <<streams, subs, nextId, streamCache, input>>
  BY DEF TaskList, connectorVars
<1>2. CASE input[t.req].op = "deactivate"
  <2>1. \A b \in subs : b.name = t.name /\ b.stream = t.stream => FALSE
    BY <1>2 DEF Existing
  <2>2. QED
    BY <1>1, <1>2, <2>1 DEF Calls, Succeeds, LInv, Deactivating
<1>3. CASE input[t.req].op # "deactivate"
  <2>1. PICK b \in subs : b.name = t.name /\ b.stream = t.stream
    BY <1>3 DEF Existing
  <2>2. QED
    BY <1>1, <1>3, <2>1 DEF Calls, Succeeds, LInv, SubIds
<1>4. QED
  BY <1>2, <1>3

LEMMA CreateSucceeds ==
  ASSUME TypeOK, LInv, NEW t \in tasks, TaskCreate(t)
  PROVE  Calls(t) /\ Succeeds(t)
<1> DEFINE new == [id |-> nextId, stream |-> t.stream, name |-> t.name]
<1>1. /\ Calls(t) /\ ~Unknown(t.stream) /\ subs' = subs \cup {new}
      /\ input[t.req].op # "deactivate"
  BY DEF TaskCreate, Calls, LInv, Seen
<1>2. new \in subs' /\ new.name = t.name /\ new.stream = t.stream
  BY <1>1
<1>3. QED
  BY <1>1, <1>2 DEF Succeeds

LEMMA DeleteSucceeds ==
  ASSUME TypeOK, LInv, NEW t \in tasks, TaskDelete(t)
  PROVE  Calls(t) /\ Succeeds(t)
<1>1. Calls(t) /\ subs' = {s \in subs : s.id # t.sub} /\ t.pc = "delete"
  BY DEF TaskDelete, Calls
<1>2. /\ input[t.req].op = "deactivate"
      /\ \A b \in subs : b.id = t.sub <=> b.name = t.name /\ b.stream = t.stream
  BY <1>1 DEF LInv, Seen, Existing
<1>3. QED
  BY <1>1, <1>2 DEF Succeeds, LInv, Deactivating

LEMMA TaskListKeeps ==
  ASSUME TypeOK, TypeOK', LInv, NEW t \in tasks, TaskList(t)
  PROVE  LInv'
<1> DEFINE deactivates == input[t.req].op = "deactivate"
<1>1. UNCHANGED <<streams, subs, nextId, streamCache, input>>
  BY DEF TaskList, connectorVars
<1>2. CASE (deactivates <=> Existing(t) = {}) /\ Fulfilled(t, FALSE)
  BY <1>1, <1>2, ListSucceeds, FulfilledKeeps
<1>3. t \in Task
  BY DEF TypeOK
<1>4. CASE /\ Existing(t) = {} /\ ~deactivates
           /\ tasks' = (tasks \ {t}) \cup {[t EXCEPT !.pc = "create"]}
           /\ UNCHANGED <<found, settled, requestVars, answer>>
  <2> DEFINE u == [t EXCEPT !.pc = "create"]
  <2>1. u.req = t.req /\ u.name = t.name /\ u.stream = t.stream /\ u.pc = "create"
    BY <1>3 DEF Task
  <2>2. tasks' = (tasks \ {t}) \cup {u}
    BY <1>4
  <2> HIDE DEF u
  <2>3. QED
    BY <1>1, <1>4, <2>1, <2>2, ListedKeeps DEF requestVars
<1>5. ASSUME deactivates, NEW s \in Existing(t),
             tasks' = (tasks \ {t}) \cup {[t EXCEPT !.pc = "delete", !.sub = s.id]},
             UNCHANGED <<found, settled, requestVars, answer>>
      PROVE  LInv'
  <2> DEFINE u == [t EXCEPT !.pc = "delete", !.sub = s.id]
  <2>1. u.req = t.req /\ u.name = t.name /\ u.stream = t.stream /\ u.pc = "delete"
        /\ u.sub = s.id
    BY <1>3 DEF Task
  <2>2. tasks' = (tasks \ {t}) \cup {u}
    BY <1>5
  <2> HIDE DEF u
  <2>3. QED
    BY <1>1, <1>5, <2>1, <2>2, ListedKeeps DEF requestVars
<1>6. QED
  BY <1>2, <1>4, <1>5 DEF TaskList

LEMMA TaskCreateKeeps ==
  ASSUME TypeOK, TypeOK', LInv, NEW t \in tasks, TaskCreate(t)
  PROVE  LInv'
<1>1. UNCHANGED <<streams, streamCache, input>>
  BY DEF TaskCreate
<1>2. QED
  BY <1>1, CreateSucceeds, FulfilledKeeps, RejectedKeeps DEF TaskCreate

LEMMA TaskDeleteKeeps ==
  ASSUME TypeOK, TypeOK', LInv, NEW t \in tasks, TaskDelete(t)
  PROVE  LInv'
<1>1. UNCHANGED <<streams, streamCache, input>>
  BY DEF TaskDelete
<1>2. QED
  BY <1>1, DeleteSucceeds, FulfilledKeeps, RejectedKeeps DEF TaskDelete

-----------------------------------------------------------------------------
(* The world                                                               *)

\* A stream is deleted by others: whoever works with it will be told.
LEMMA StreamLostKeeps ==
  ASSUME Hazards = {}, PInv, LInv, NEW s \in streams, StreamLost(s)
  PROVE  LInv'
<1> USE DEF LInv
<1>1. /\ streams' = streams \ {s} /\ subs' = {b \in subs : b.stream # s.id}
      /\ UNCHANGED <<nextId, streamCache, input, pc, stream, purge, tasks>>
      /\ TypeOK /\ CacheFilled /\ Answered
  BY DEF StreamLost, requestVars, PInv
<1>2. /\ \A x \in streams' : x \in streams /\ x.id # s.id /\ x.name # s.name
      /\ \A x \in streams : x = s \/ x \in streams'
      /\ s.name = Deprecated <=> s.id = 0
  BY <1>1 DEF StreamIds
<1>3. \A ns \in Namespaces, p \in Pools :
        settled'[<<ns, p>>] = IF ns = s.name THEN "unknown" ELSE settled[<<ns, p>>]
  BY <1>1 DEF StreamLost, TypeOK
<1>4. /\ \A m, id : On(m, id)' => On(m, id) /\ m # s.name
      /\ \A m, id : On(m, id) => On(m, id)' \/ (m = s.name /\ id = s.id)
      /\ \A id : Unknown(id) => Unknown(id)'
      /\ \A id : Unknown(id)' => Unknown(id) \/ id = s.id
      /\ \A m : Has(m)' => Has(m)
      /\ \A m : Has(m) /\ m # s.name => Has(m)'
      /\ Old' => Old
  BY <1>2 DEF On, Unknown, Has, Old
<1>5. StreamIds'
  BY <1>1, <1>2 DEF StreamIds
<1>6. SubIds'
  BY <1>1, <1>4 DEF SubIds
<1>7. Owned'
  BY <1>1, <1>2 DEF Owned, Of
<1>8. Migrated'
  BY <1>1, <1>3, <1>4 DEF Migrated, Works
<1>9. OneCreator'
  <2>1. \A q, r \in Requests : pc[q] \in Finding /\ pc[r] \in Finding
          /\ input[q].ns = s.name /\ input[r].ns = s.name => q = r
    <3>1. \A q, r \in Looking(s.name) : q = r
      BY DEF StreamLost
    <3>2. QED
      BY <3>1 DEF Looking
  <2>2. QED
    BY <1>1, <1>4, <2>1 DEF OneCreator
<1>10. TasksOwn'
  BY <1>1 DEF TasksOwn, Works
<1>11. \A o \in Requests : Busy(o)' <=> Busy(o)
  BY <1>1 DEF Busy
<1>12. OnePerPool' /\ SettledIdle'
  BY <1>1, <1>3, <1>11 DEF OnePerPool, SettledIdle, Works, SamePool
<1>13. Seen'
  BY <1>1 DEF Seen, Existing
<1>14. Unique'
  <2>1. CASE ~Old
    BY <1>1, <2>1 DEF Unique
  <2>2. CASE Old /\ ~Old'
    <3>1. s.id = 0
      BY <1>2, <2>2 DEF Old
    <3>2. subs' = {}
      BY <1>1, <2>2, <3>1 DEF Migrated, OldSubs
    <3>3. QED
      BY <1>1, <3>2 DEF Unique
  <2>3. CASE Old'
    BY <1>1, <2>3 DEF Unique
  <2>4. QED
    BY <2>1, <2>2, <2>3
<1>15. \A m, id : Of(m, id) /\ m = s.name => Unknown(id)'
  BY <1>2 DEF Of, Unknown
<1>16. CacheLive'
  <2> SUFFICES ASSUME NEW m \in Namespaces, streamCache[m] # None, Unknown(streamCache[m])'
               PROVE  /\ \A b \in subs' : ~On(m, b.stream)'
                      /\ \A t \in tasks : input[t.req].ns = m => Unknown(t.stream)'
                      /\ \A o \in Requests : pc[o] = "query" /\ input[o].ns = m
                                             => Unknown(stream[o])'
    BY <1>1 DEF CacheLive, On, Unknown
  <2>1. CASE Unknown(streamCache[m])
    BY <1>1, <1>4, <2>1 DEF CacheLive
  <2>2. CASE streamCache[m] = s.id
    <3>1. m = s.name
      BY <2>2 DEF Owned, Of
    <3>2. \A o \in Requests : pc[o] = "query" => Of(input[o].ns, stream[o])
      BY <1>1, NamesAssumption DEF CacheFilled, Owned
    <3>3. QED
      BY <1>1, <1>4, <1>15, <3>1, <3>2 DEF Owned
  <2>3. QED
    BY <1>1, <1>4, <2>1, <2>2
<1>17. Deactivating'
  <2>1. \A t \in tasks : input[t.req].op = "deactivate" =>
          \A b \in subs' : b.name = t.name /\ On(input[t.req].ns, b.stream)'
                           => b.stream = t.stream
    BY <1>1, <1>4 DEF Deactivating
  <2>2. \A m, name : Heard(m, name)' => Heard(m, name)
    BY <1>1, <1>4 DEF Heard
  <2>3. \A r \in Requests :
          pc[r] = "tasks" /\ input[r].op = "deactivate" /\ input[r].pool \notin LegacyPools
          => \A e \in Events : \/ \E t \in tasks : t.req = r /\ t.name.event = e
                               \/ ~Heard(input[r].ns, Name(input[r].pool, e))'
    BY <1>1, <2>2 DEF Deactivating, Name
  <2>4. QED
    BY <1>1, <2>1, <2>3 DEF Deactivating, On, Heard, Name
<1>18. \A m, name : Heard(m, name) /\ m # s.name => Heard(m, name)'
  <2>1. \A m, id : On(m, id) /\ m # s.name => id # s.id
    BY DEF On, StreamIds
  <2>2. QED
    BY <1>1, <1>4, <2>1 DEF Heard
<1>19. Activating'
  <2>1. ASSUME NEW r \in Requests, pc[r] = "tasks", input[r].op \in {"create", "activate"}
        PROVE  \/ \E t \in tasks : t.req = r /\ Unknown(t.stream)'
               \/ \A e \in EventsOf(r) : \/ \E t \in tasks : t.req = r /\ t.name.event = e
                                         \/ Heard(input[r].ns, Name(input[r].pool, e))'
    <3>1. CASE input[r].ns = s.name
      <4>1. PICK t \in tasks : t.req = r
        BY <1>1, <2>1 DEF Answered
      <4>2. Of(input[r].ns, t.stream)
        BY <4>1 DEF Owned
      <4>3. QED
        BY <1>15, <3>1, <4>1, <4>2
    <3>2. CASE input[r].ns # s.name
      BY <1>1, <1>4, <1>18, <2>1, <3>2 DEF Activating, Name
    <3>3. QED
      BY <3>1, <3>2
  <2>2. QED
    BY <1>1, <2>1 DEF Activating, EventsOf, Unknown, Heard, On, Name
<1>20. Active'
  BY <1>3, <1>18 DEF Active, Name
<1>21. Inactive'
  BY <1>1, <1>3, <1>4 DEF Inactive
<1>22. QED
  BY <1>5, <1>6, <1>7, <1>8, <1>9, <1>10, <1>12, <1>13, <1>14, <1>16, <1>17, <1>19,
     <1>20, <1>21

\* The process forgets its requests, its tasks and its cache.
LEMMA CrashKeeps ==
  ASSUME TypeOK, LInv, Crash
  PROVE  LInv'
<1> USE DEF LInv
<1>1. /\ UNCHANGED <<streams, subs, nextId, input, stream, purge, settled>>
      /\ tasks' = {} /\ \A ns \in Namespaces : streamCache'[ns] = None
      /\ \A r \in Requests : pc'[r] = IF pc[r] = "idle" THEN "idle" ELSE "done"
  BY DEF Crash, connectorVars
<1>2. StreamIds' /\ SubIds' /\ Owned' /\ Migrated'
  BY <1>1 DEF StreamIds, SubIds, Unknown, Owned, Of, Migrated, Old, Works
<1>3. \A r \in Requests : ~Busy(r)'
  BY <1>1 DEF Busy
<1>4. OneCreator' /\ TasksOwn'
  BY <1>1 DEF OneCreator, TasksOwn, Finding
<1>5. OnePerPool' /\ SettledIdle'
  BY <1>3 DEF OnePerPool, SettledIdle
<1>6. Seen' /\ CacheLive' /\ Deactivating' /\ Activating'
  BY <1>1 DEF Seen, CacheLive, Deactivating, Activating
<1>7. Unique'
  BY <1>1 DEF Unique, Old
<1>8. Active' /\ Inactive'
  BY <1>1 DEF Active, Inactive, Heard, On
<1>9. QED
  BY <1>2, <1>4, <1>5, <1>6, <1>7, <1>8

-----------------------------------------------------------------------------
(* The theorems                                                            *)

LInductive == PInv /\ LInv

LEMMA LStep ==
  ASSUME Hazards = {}, LInductive, [Next]_vars
  PROVE  LInductive'
<1>1. PInv /\ PInv' /\ LInv
  BY PInductive DEF LInductive
<1>2. TypeOK /\ TypeOK' /\ CacheFilled
  BY <1>1 DEF PInv
<1>3. ASSUME NEW r \in Requests,
             StreamRefused(r) \/ Submit(r) \/ RequestFails(r)
      PROVE  LInv'
  <2>1. /\ pc[r] # "idle" /\ pc' = [pc EXCEPT ![r] = "done"]
        /\ UNCHANGED <<streams, subs, nextId, streamCache, input, stream, purge,
                       tasks, settled>>
    BY <1>3 DEF StreamRefused, Submit, RequestFails, Rejects, GoTo, connectorVars,
                taskVars, Finding
  <2>2. QED
    BY <1>1, <1>2, <2>1, EndsKeeps
<1>4. ASSUME NEW t \in tasks, TaskRefused(t) \/ TaskFails(t) PROVE LInv'
  <2>1. /\ Rejected(t) /\ Calls(t) /\ UNCHANGED <<streams, streamCache, input>>
    BY <1>4 DEF TaskRefused, TaskFails, Calls, connectorVars
  <2>2. QED
    BY <1>1, <1>2, <2>1, RejectedKeeps
<1>5. ASSUME UNCHANGED vars PROVE LInv'
  <2>1. UNCHANGED <<streams, subs, nextId, streamCache, input, pc, stream, purge,
                    tasks, settled>>
    BY <1>5 DEF vars, connectorVars, requestVars, taskVars
  <2>2. StreamIds' /\ SubIds' /\ Owned' /\ Migrated' /\ OneCreator' /\ TasksOwn'
    BY <1>1, <2>1 DEF LInv, StreamIds, SubIds, Unknown, Owned, Of, Migrated, Old, Works,
                      OneCreator, Has, TasksOwn
  <2>3. OnePerPool' /\ SettledIdle' /\ Seen' /\ Unique'
    BY <1>1, <2>1 DEF LInv, OnePerPool, SettledIdle, Works, SamePool, Busy, Seen, Existing,
                      Unique, Old
  <2>4. CacheLive' /\ Deactivating' /\ Active' /\ Inactive'
    BY <1>1, <2>1 DEF LInv, CacheLive, Deactivating, Active, Inactive, Heard, On, Unknown
  <2>5. Activating'
    BY <1>1, <2>1 DEF LInv, Activating, EventsOf, Unknown, Heard, On
  <2>6. QED
    BY <2>2, <2>3, <2>4, <2>5 DEF LInv
<1>6. LInv'
  BY <1>1, <1>2, <1>3, <1>4, <1>5, BeginKeeps, PurgeListKeeps, PurgeKeeps, StreamListKeeps,
     StreamSaveKeeps, QueryKeeps, TaskListKeeps, TaskCreateKeeps, TaskDeleteKeeps,
     StreamLostKeeps, CrashKeeps
     DEF Next
<1>7. QED
  BY <1>1, <1>6 DEF LInductive

LEMMA InitL == Init => LInductive
<1> SUFFICES ASSUME Init PROVE LInductive
  OBVIOUS
<1>1. PInv
  BY InitP
<1>2. /\ nextId = 1 /\ tasks = {} /\ \A r \in Requests : pc[r] = "idle" /\ stream[r] = None
      /\ \A r \in Requests : purge[r] = {}
      /\ \A ns \in Namespaces : streamCache[ns] = None
      /\ \A ns \in Namespaces, p \in Pools : settled[<<ns, p>>] = "unknown"
  BY DEF Init
<1>3. \/ streams = {} /\ subs = {}
      \/ streams = {[id |-> 0, name |-> Deprecated]} /\ subs = OldSubs
  BY DEF Init
<1>4. StreamIds /\ Owned
  BY <1>2, <1>3 DEF StreamIds, Owned
<1>5. SubIds
  <2>1. ASSUME streams = {[id |-> 0, name |-> Deprecated]}, NEW b \in OldSubs
        PROVE  b.id = 0 /\ ~Unknown(b.stream) /\ b.name.prefix = "address"
    BY <2>1 DEF OldSubs, Unknown
  <2>2. QED
    BY <1>2, <1>3, <2>1 DEF SubIds
<1>6. Migrated
  BY <1>2, <1>3 DEF Migrated, Old
<1>7. \A r \in Requests : ~Busy(r)
  BY <1>2 DEF Busy
<1>8. OneCreator /\ TasksOwn /\ OnePerPool /\ SettledIdle
  BY <1>2, <1>7 DEF OneCreator, TasksOwn, OnePerPool, SettledIdle, Finding
<1>9. Seen /\ Unique
  <2>1. Old \/ subs = {}
    <3>1. [id |-> 0, name |-> Deprecated].name = Deprecated
      OBVIOUS
    <3>2. QED
      BY <1>3, <3>1 DEF Old
  <2>2. QED
    BY <1>2, <2>1 DEF Seen, Unique
<1>10. CacheLive /\ Deactivating /\ Activating /\ Active /\ Inactive
  BY <1>2 DEF CacheLive, Deactivating, Activating, Active, Inactive
<1>11. QED
  BY <1>1, <1>4, <1>5, <1>6, <1>8, <1>9, <1>10 DEF LInductive, LInv

LEMMA LInvariant == Hazards = {} /\ Spec => []LInductive
<1>1. Hazards = {} /\ LInductive /\ [Next]_vars => LInductive'
  BY LStep
<1>2. (Hazards = {})' <=> Hazards = {}
  OBVIOUS
<1>3. QED
  BY InitL, <1>1, <1>2, PTL DEF Spec

\* A pool whose activation succeeded keeps a listener for each of its events
\* on the stream of its namespace, until it is asked for again or its stream
\* is deleted: getStream's cache, createSubscription's 404 and Promise.all
\* never let an activation succeed with a listener missing.
THEOREM ActivationListens == Hazards = {} /\ Spec => []Listening
<1>1. LInductive => Listening
  <2> SUFFICES ASSUME LInductive, NEW np \in DOMAIN settled, settled[np] = "active",
                      NEW e \in Events
               PROVE  \E s \in subs :
                        /\ s.name = [prefix |-> "address", pool |-> np[2], event |-> e]
                        /\ s.stream \in StreamsOf(np[1])
    BY DEF Listening
  <2>1. np = <<np[1], np[2]>> /\ np[1] \in Namespaces /\ np[2] \in Pools
    BY DEF LInductive, PInv, TypeOK
  <2>2. Heard(np[1], Name(np[2], e))
    BY <2>1 DEF LInductive, LInv, Active
  <2>3. QED
    BY <2>2 DEF Heard, Name, On, StreamsOf
<1>2. QED
  BY <1>1, LInvariant, PTL

\* A pool whose deactivation succeeded, or found nothing, has no listener on
\* its namespace's stream or on that of an older release.  Locators without
\* an address are excluded: deactivatePool looks for other names than
\* activatePool has created for them.
THEOREM DeactivationSilences == Hazards = {} /\ LegacyPools = {} /\ Spec => []Silent
<1>1. LegacyPools = {} /\ LInductive => Silent
  <2> SUFFICES ASSUME LegacyPools = {}, LInductive, NEW np \in DOMAIN settled,
                      settled[np] = "inactive", NEW s \in subs, s.name.pool = np[2]
               PROVE  s.stream \notin Sources(np[1])
    BY DEF Silent
  <2>1. np = <<np[1], np[2]>> /\ np[1] \in Namespaces /\ np[2] \in Pools
    BY DEF LInductive, PInv, TypeOK
  <2>2. ~On(np[1], s.stream) /\ ~Old
    BY <2>1 DEF LInductive, LInv, Inactive, Migrated
  <2>3. QED
    BY <2>2 DEF Sources, On, Old, StreamsOf
<1>2. (LegacyPools = {})' <=> LegacyPools = {}
  OBVIOUS
<1>3. QED
  BY <1>1, <1>2, LInvariant, PTL

\* No event is received twice: one stream for each namespace and one
\* subscription of each name on it, although streams and subscriptions are
\* created after a look that others may have taken too.
THEOREM NoneTwice == Hazards = {} /\ Spec => []NoDuplicates
<1>1. LInductive => NoDuplicates
  <2> SUFFICES ASSUME LInductive, NEW ns \in Namespaces
               PROVE  /\ Cardinality(StreamsOf(ns)) <= 1
                      /\ \A s, t \in subs :
                           {s.stream, t.stream} \subseteq Sources(ns) /\ s.name = t.name
                           => s = t
    BY DEF NoDuplicates
  <2>1. \A a, b \in StreamsOf(ns) : a = b
    BY DEF LInductive, LInv, StreamIds, StreamsOf
  <2>2. Cardinality(StreamsOf(ns)) <= 1
    <3>1. CASE StreamsOf(ns) = {}
      BY <3>1, FS_EmptySet
    <3>2. ASSUME NEW a \in StreamsOf(ns) PROVE Cardinality(StreamsOf(ns)) = 1
      <4>1. StreamsOf(ns) = {a}
        BY <2>1, <3>2
      <4>2. QED
        BY <4>1, FS_Singleton
    <3>3. QED
      BY <3>1, <3>2
  <2>3. CASE Old
    <3>1. subs \subseteq OldSubs
      BY <2>3 DEF LInductive, LInv, Migrated
    <3>2. \A s, t \in OldSubs : s.name = t.name => s = t
      BY DEF OldSubs
    <3>3. QED
      BY <2>2, <3>1, <3>2
  <2>4. CASE ~Old
    <3>1. Sources(ns) = StreamsOf(ns)
      BY <2>4 DEF Sources, StreamsOf, Old
    <3>2. \A s, t \in subs : s.stream = t.stream /\ s.name = t.name => s = t
      BY <2>4 DEF LInductive, LInv, Unique
    <3>3. QED
      BY <2>1, <2>2, <3>1, <3>2
  <2>5. QED
    BY <2>3, <2>4
<1>2. QED
  BY <1>1, LInvariant, PTL

\* A request comes to submit its transaction when its last task succeeds.
LEMMA SubmitsLast ==
  ASSUME TypeOK, LInv, Next, NEW r \in Requests, pc[r] # "submit", pc'[r] = "submit"
  PROVE  /\ pc[r] = "tasks" /\ input[r].op = "create" /\ \A u \in tasks' : u.req # r
         /\ \E t \in tasks : t.req = r /\ Leaves(t) /\ Succeeds(t)
<1>1. pc \in [Requests -> Finding \cup {"idle", "query", "tasks", "submit", "done"}]
  BY DEF TypeOK
<1>2. ASSUME NEW o \in Requests, NEW p, pc' = [pc EXCEPT ![o] = p], p # "submit"
      PROVE  FALSE
  BY <1>1, <1>2
<1>3. ASSUME NEW o \in Requests, NEW id, HasStream(o, id) PROVE FALSE
  BY <1>2, <1>3 DEF HasStream, GoTo
<1>4. ASSUME NEW o \in Requests PROVE ~Begin(o)
  BY <1>2, <1>3 DEF Begin, GoTo
<1>5. ASSUME NEW o \in Requests
      PROVE  ~PurgeList(o) /\ ~Purge(o) /\ ~StreamList(o) /\ ~StreamSave(o)
  BY <1>2, <1>3 DEF PurgeList, Purge, StreamList, StreamSave, Rejects, GoTo
<1>6. ASSUME NEW o \in Requests
      PROVE  ~StreamRefused(o) /\ ~Query(o) /\ ~Submit(o) /\ ~RequestFails(o)
  BY <1>2 DEF StreamRefused, Query, Submit, RequestFails, Rejects, GoTo
<1>7. ASSUME NEW t \in tasks PROVE ~Rejected(t)
  <2>1. t.req \in Requests
    BY DEF TypeOK, Task
  <2>2. QED
    BY <1>2, <2>1 DEF Rejected, Rejects, GoTo
<1>8. ~Crash /\ \A s \in streams : ~StreamLost(s)
  BY <1>1 DEF Crash, StreamLost, requestVars
<1>9. PICK t \in tasks : /\ TaskList(t) \/ TaskCreate(t) \/ TaskDelete(t)
                         /\ \E deleted \in BOOLEAN : Fulfilled(t, deleted)
                         /\ Calls(t) /\ Succeeds(t)
  <2>1. PICK t \in tasks : TaskList(t) \/ TaskCreate(t) \/ TaskDelete(t)
    BY <1>4, <1>5, <1>6, <1>7, <1>8 DEF Next, TaskRefused, TaskFails
  <2>2. CASE TaskList(t)
    BY <2>2, ListSucceeds DEF TaskList, requestVars
  <2>3. CASE TaskCreate(t)
    BY <1>7, <2>3, CreateSucceeds DEF TaskCreate
  <2>4. CASE TaskDelete(t)
    BY <1>7, <2>4, DeleteSucceeds DEF TaskDelete
  <2>5. QED
    BY <2>1, <2>2, <2>3, <2>4
<1>10. PICK deleted \in BOOLEAN : Fulfilled(t, deleted)
  BY <1>9
<1>11. /\ t.req = r /\ pc[r] = "tasks" /\ \A u \in tasks \ {t} : u.req # r
       /\ input[r].op = "create" /\ pc' = [pc EXCEPT ![r] = "submit"]
  <2>1. t.req \in Requests
    BY DEF TypeOK, Task
  <2>2. /\ pc[t.req] = "tasks" /\ \A u \in tasks \ {t} : u.req # t.req
        /\ pc' = [pc EXCEPT ![t.req] = IF input[t.req].op = "create" THEN "submit" ELSE "done"]
    BY <1>10 DEF Fulfilled, Completed, GoTo
  <2>3. QED
    BY <1>1, <2>1, <2>2
<1>12. Leaves(t)
  BY <1>1, <1>9, <1>10, <1>11
     DEF Fulfilled, Leaves, TaskList, TaskCreate, TaskDelete, connectorVars
<1>13. tasks' = tasks \ {t}
  BY <1>10 DEF Fulfilled
<1>14. QED
  BY <1>9, <1>11, <1>12, <1>13

\* createPool submits its transaction only with a listener for each creation
\* event on its namespace's stream.
THEOREM CreationIsHeard == Hazards = {} /\ Spec => ListensBeforeCreate
<1>1. ASSUME LInductive, [Next]_vars
      PROVE  [\A r \in Requests : pc[r] # "submit" /\ pc'[r] = "submit" =>
                \A e \in CreateEvents : \E s \in subs' :
                  /\ s.name = [prefix |-> "address", pool |-> Base, event |-> e]
                  /\ s.stream \in StreamsOf(input[r].ns)']_vars
  <2>1. CASE UNCHANGED vars
    BY <2>1
  <2>2. ASSUME Next, NEW r \in Requests, pc[r] # "submit", pc'[r] = "submit",
               NEW e \in CreateEvents
        PROVE  \E s \in subs' :
                  /\ s.name = [prefix |-> "address", pool |-> Base, event |-> e]
                  /\ s.stream \in StreamsOf(input[r].ns)'
    <3>1. TypeOK /\ LInv
      BY <1>1 DEF LInductive, PInv
    <3>2. /\ pc[r] = "tasks" /\ input[r].op = "create" /\ \A u \in tasks' : u.req # r
          /\ \E t \in tasks : t.req = r /\ Leaves(t) /\ Succeeds(t)
      BY <2>2, <3>1, SubmitsLast
    <3>3. \E b \in subs' : b.name = Name(input[r].pool, e) /\ On(input[r].ns, b.stream)
      BY <2>2, <3>1, <3>2, Progress DEF EventsOf
    <3>4. input[r].pool = Base
      BY <3>1, <3>2 DEF TypeOK, Input
    <3>5. UNCHANGED <<streams, input>>
      BY <3>2 DEF Leaves
    <3>6. QED
      BY <3>3, <3>4, <3>5 DEF Name, On, StreamsOf
  <2>3. QED
    BY <1>1, <2>1, <2>2
<1>2. QED
  BY <1>1, LInvariant, PTL DEF ListensBeforeCreate, Spec

=============================================================================
