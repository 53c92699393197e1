------------------------ MODULE BlockchainRetryProofs ------------------------
(***************************************************************************)
(* Proofs about BlockchainRetry, for any calls and any settings.           *)
(***************************************************************************)
EXTENDS BlockchainRetry, WellFoundedInduction, TLAPS

-----------------------------------------------------------------------------
(* The number of HTTP calls                                                *)

\* The types the count needs, which are not those of the delays.
CountTypes ==
  /\ config \in Config
  /\ pc \in [Calls -> {"idle", "calling", "waiting", "done"}]
  /\ retries \in [Calls -> Nat]
  /\ answer \in [Calls -> {"none", "ok", "conflict", "error", "exhausted"}]
  /\ attempts \in [Calls -> Nat]

\* What the loop's counter says of the HTTP calls of c made so far.
Counted(c) ==
  /\ pc[c] = "idle" => attempts[c] = 0
  /\ pc[c] \in {"calling", "waiting"} =>
       attempts[c] = retries[c] + 1 /\ retries[c] <= config.retriesMax
  /\ pc[c] = "done" =>
       /\ attempts[c] <= config.retriesMax + 1
       /\ answer[c] = "exhausted" => attempts[c] = config.retriesMax + 1
  /\ pc[c] # "done" => answer[c] = "none"

CountInv ==
  /\ CountTypes
  /\ config.retriesMax >= 0 => \A c \in Calls : Counted(c)

\* A call that passes through the head of the loop stays counted: the counter
\* is the number of HTTP calls it has made.
LEMMA LoopHeadCounts ==
  ASSUME CountInv, UNCHANGED config,
         NEW c \in Calls, NEW n \in Nat, LoopHead(c, n),
         config.retriesMax >= 0 =>
           pc[c] # "done" /\ attempts[c] = n /\ n <= config.retriesMax + 1
  PROVE  CountInv'
<1>1. CountTypes'
  BY SMT DEF CountInv, CountTypes, LoopHead
<1>2. ASSUME config'.retriesMax >= 0, NEW d \in Calls
      PROVE  Counted(d)'
  <2>1. config \in Config /\ config' = config /\ config.retriesMax \in Int
    BY DEF CountInv, CountTypes, Config
  <2>2. CASE d = c
    <3>1. attempts[c] = n /\ n <= config.retriesMax + 1 /\ attempts[c] \in Nat
      BY <1>2, <2>1 DEF CountInv, CountTypes
    <3>2. retries'[c] = n
      BY SMT DEF CountInv, CountTypes, LoopHead
    <3>3. CASE LoopContinues(n)
      <4>1. /\ pc'[c] = "calling" /\ attempts'[c] = n + 1
            /\ answer' = answer /\ n <= config.retriesMax
        BY <1>2, <2>1, <3>1, <3>3, SMT DEF CountInv, CountTypes, LoopHead, LoopContinues
      <4>2. answer[c] = "none"
        BY <1>2, <2>1 DEF CountInv, Counted
      <4>3. QED
        BY <2>1, <2>2, <3>2, <4>1, <4>2, SMT DEF Counted
    <3>4. CASE ~LoopContinues(n)
      <4>1. pc'[c] = "done" /\ attempts'[c] = n /\ n > config.retriesMax
        BY <2>1, <3>1, <3>4, SMT DEF CountInv, CountTypes, LoopHead, LoopContinues
      <4>2. QED
        BY <2>1, <2>2, <3>1, <4>1, SMT DEF Counted
    <3>5. QED
      BY <3>3, <3>4
  <2>3. CASE d # c
    BY <1>2, <2>1, <2>3, SMT DEF CountInv, CountTypes, Counted, LoopHead
  <2>4. QED
    BY <2>2, <2>3
<1>3. QED
  BY <1>1, <1>2 DEF CountInv

\* A call that is answered, or sent to wait, made no further HTTP call.
LEMMA ReplyCounts ==
  ASSUME CountInv, UNCHANGED config, NEW c \in Calls, pc[c] = "calling",
         \/ \E result \in {"ok", "conflict", "error"} : EndsWith(c, result)
         \/ FailsWithMatch(c)
  PROVE  CountInv'
<1> DEFINE Ended(result) == /\ pc' = [pc EXCEPT ![c] = "done"]
                            /\ answer' = [answer EXCEPT ![c] = result]
           Waits == pc' = [pc EXCEPT ![c] = "waiting"] /\ UNCHANGED answer
<1>1. UNCHANGED <<retries, attempts>>
  BY SMT DEF EndsWith, FailsWithMatch
<1>2. (\E result \in {"ok", "conflict", "error"} : Ended(result)) \/ Waits
  BY SMT DEF EndsWith, FailsWithMatch
<1>3. CountTypes'
  BY <1>1, <1>2, SMT DEF CountInv, CountTypes
<1>4. ASSUME config'.retriesMax >= 0, NEW d \in Calls
      PROVE  Counted(d)'
  <2>1. config \in Config /\ config' = config /\ config.retriesMax \in Int
    BY DEF CountInv, CountTypes, Config
  <2>2. Counted(c) /\ Counted(d)
    BY <1>4, <2>1 DEF CountInv
  <2>3. CASE d = c
    BY <1>1, <1>2, <2>1, <2>2, <2>3, SMT DEF CountInv, CountTypes, Counted
  <2>4. CASE d # c
    BY <1>1, <1>2, <2>1, <2>2, <2>4, SMT DEF CountInv, CountTypes, Counted
  <2>5. QED
    BY <2>3, <2>4
<1>5. QED
  BY <1>3, <1>4 DEF CountInv

\* CountInv is inductive.
LEMMA CountInductive == CountInv /\ [Next]_vars => CountInv'
<1> SUFFICES ASSUME CountInv, [Next]_vars PROVE CountInv'
  OBVIOUS
<1>1. ASSUME NEW c \in Calls, Call(c) PROVE CountInv'
  <2>1. config.retriesMax >= 0 =>
          pc[c] # "done" /\ attempts[c] = 0 /\ 0 <= config.retriesMax + 1
    BY <1>1, SMT DEF CountInv, CountTypes, Config, Counted, Call
  <2>2. QED
    BY <1>1, <2>1, LoopHeadCounts DEF Call
<1>2. ASSUME NEW c \in Calls, Accept(c) PROVE CountInv'
  BY <1>2, ReplyCounts DEF Accept
<1>3. ASSUME NEW c \in Calls, Conflict(c) PROVE CountInv'
  BY <1>3, ReplyCounts DEF Conflict
<1>4. ASSUME NEW c \in Calls, Unreachable(c) PROVE CountInv'
  BY <1>4, ReplyCounts DEF Unreachable
<1>5. ASSUME NEW c \in Calls, Rejected(c) PROVE CountInv'
  BY <1>5, ReplyCounts DEF Rejected
<1>6. ASSUME NEW c \in Calls, Wake(c) PROVE CountInv'
  <2> DEFINE n == Incremented(retries[c])
  <2>1. n \in Nat
    BY SMT DEF CountInv, CountTypes, Incremented
  <2>2. config.retriesMax >= 0 =>
          pc[c] # "done" /\ attempts[c] = n /\ n <= config.retriesMax + 1
    BY <1>6, SMT DEF CountInv, CountTypes, Config, Counted, Wake, Incremented
  <2>3. LoopHead(c, n) /\ UNCHANGED config
    BY <1>6 DEF Wake
  <2> HIDE DEF n
  <2>4. QED
    BY <2>1, <2>2, <2>3, LoopHeadCounts
<1>7. CASE UNCHANGED vars
  BY <1>7, SMT DEF vars, callVars, CountInv, CountTypes, Counted
<1>8. QED
  BY <1>1, <1>2, <1>3, <1>4, <1>5, <1>6, <1>7 DEF Next

\* A call makes at most RETRY_MAX_ATTEMPTS + 1 HTTP calls and gives up only
\* after all of them.
THEOREM AttemptsBounded == Spec => []AttemptsWithin
<1>1. Init => CountInv
  BY ConfigsAssumption, SMT DEF Init, CountInv, CountTypes, Counted, Config
<1>2. CountInv => AttemptsWithin
  <2> SUFFICES ASSUME CountInv, config.retriesMax >= 0, NEW c \in Calls
               PROVE  /\ attempts[c] <= config.retriesMax + 1
                      /\ answer[c] = "exhausted" => attempts[c] = config.retriesMax + 1
    BY DEF AttemptsWithin
  <2>1. Counted(c) /\ config.retriesMax \in Int
    BY DEF CountInv, CountTypes, Config
  <2>2. /\ pc[c] \in {"idle", "calling", "waiting", "done"}
        /\ attempts[c] \in Nat /\ retries[c] \in Nat
    BY DEF CountInv, CountTypes
  <2>3. QED
    BY <2>1, <2>2, SMT DEF Counted
<1>3. QED
  BY <1>1, <1>2, CountInductive, PTL DEF Spec

-----------------------------------------------------------------------------
(* Submissions                                                             *)

\* What the HTTP calls made say of the submissions the connector took: a call
\* whose answer is awaited was not yet taken, and without a retry condition
\* no call is repeated.
Submitted(c) ==
  /\ taken[c] <= attempts[c]
  /\ pc[c] = "idle" => attempts[c] = 0
  /\ pc[c] = "calling" => taken[c] < attempts[c]
  /\ ~config.condition => pc[c] # "waiting" /\ attempts[c] <= 1

SubmitInv ==
  /\ CountInv
  /\ requestId \in BOOLEAN
  /\ taken \in [Calls -> Nat]
  /\ \A c \in Calls : Submitted(c)

\* The head of the loop makes at most one HTTP call, and a second one only
\* after a delay.
LEMMA LoopHeadSubmits ==
  ASSUME SubmitInv, CountInv', UNCHANGED <<config, requestId, taken>>,
         NEW c \in Calls, NEW n, LoopHead(c, n), pc[c] \in {"idle", "waiting"}
  PROVE  SubmitInv'
<1>1. CountTypes /\ CountTypes'
  BY DEF SubmitInv, CountInv
<1>2. ASSUME NEW d \in Calls PROVE Submitted(d)'
  <2>1. Submitted(d) /\ taken[d] \in Nat
    BY DEF SubmitInv
  <2>2. CASE d = c
    BY <1>1, <2>1, <2>2, SMT DEF CountTypes, Submitted, LoopHead
  <2>3. CASE d # c
    BY <1>1, <2>1, <2>3, SMT DEF CountTypes, Submitted, LoopHead
  <2>4. QED
    BY <2>2, <2>3
<1>3. QED
  BY <1>2 DEF SubmitInv

\* The end of an HTTP call, by which the connector took the transaction or
\* did not.
LEMMA ReplySubmits ==
  ASSUME SubmitInv, CountInv', UNCHANGED <<config, requestId>>,
         NEW c \in Calls, pc[c] = "calling",
         taken' = taken \/ taken' = [taken EXCEPT ![c] = @ + 1],
         \/ \E result \in {"ok", "conflict", "error"} : EndsWith(c, result)
         \/ FailsWithMatch(c)
  PROVE  SubmitInv'
<1>1. CountTypes /\ CountTypes' /\ attempts' = attempts
  BY DEF SubmitInv, CountInv, EndsWith, FailsWithMatch
<1>2. \/ pc' = [pc EXCEPT ![c] = "done"]
      \/ pc' = [pc EXCEPT ![c] = "waiting"] /\ config.condition
  BY DEF EndsWith, FailsWithMatch
<1>3. taken' \in [Calls -> Nat]
  BY DEF SubmitInv
<1>4. ASSUME NEW d \in Calls PROVE Submitted(d)'
  <2>1. Submitted(d) /\ taken[d] \in Nat
    BY DEF SubmitInv
  <2>2. CASE d = c
    <3>1. taken'[c] <= attempts[c] /\ pc'[c] \in {"done", "waiting"}
      BY <1>1, <1>2, <2>1, <2>2, SMT DEF CountTypes, Submitted, SubmitInv
    <3>2. ~config.condition => pc'[c] # "waiting"
      BY <1>1, <1>2, SMT DEF CountTypes
    <3>3. QED
      BY <1>1, <2>1, <2>2, <3>1, <3>2 DEF Submitted
  <2>3. CASE d # c
    <3>1. taken'[d] = taken[d]
      BY <2>3 DEF SubmitInv
    <3>2. pc'[d] = pc[d]
      BY <1>1, <1>2, <2>3 DEF CountTypes
    <3>3. QED
      BY <1>1, <2>1, <3>1, <3>2 DEF Submitted
  <2>4. QED
    BY <2>2, <2>3
<1>5. QED
  BY <1>3, <1>4 DEF SubmitInv

LEMMA SubmitInductive == SubmitInv /\ [Next]_vars => SubmitInv'
<1> SUFFICES ASSUME SubmitInv, [Next]_vars PROVE SubmitInv'
  OBVIOUS
<1>1. CountInv'
  BY CountInductive DEF SubmitInv
<1>2. ASSUME NEW c \in Calls, Call(c) PROVE SubmitInv'
  BY <1>1, <1>2, LoopHeadSubmits DEF Call
<1>3. ASSUME NEW c \in Calls, Accept(c) PROVE SubmitInv'
  BY <1>1, <1>3, ReplySubmits DEF Accept
<1>4. ASSUME NEW c \in Calls, Conflict(c) PROVE SubmitInv'
  BY <1>1, <1>4, ReplySubmits DEF Conflict
<1>5. ASSUME NEW c \in Calls, Unreachable(c) PROVE SubmitInv'
  BY <1>1, <1>5, ReplySubmits DEF Unreachable
<1>6. ASSUME NEW c \in Calls, Rejected(c) PROVE SubmitInv'
  BY <1>1, <1>6, ReplySubmits DEF Rejected
<1>7. ASSUME NEW c \in Calls, Wake(c) PROVE SubmitInv'
  BY <1>1, <1>7, LoopHeadSubmits DEF Wake
<1>8. CASE UNCHANGED vars
  BY <1>1, <1>8 DEF vars, callVars, SubmitInv, Submitted
<1>9. QED
  BY <1>2, <1>3, <1>4, <1>5, <1>6, <1>7, <1>8 DEF Next

LEMMA SubmitInvariant == Spec => []SubmitInv
<1>1. Init => SubmitInv
  BY ConfigsAssumption DEF Init, SubmitInv, Submitted, CountInv, CountTypes, Counted, Config
<1>2. QED
  BY <1>1, SubmitInductive, PTL DEF Spec

\* One request of FireFly reaches the chain at most once when nothing is to
\* be retried, and otherwise at most RETRY_MAX_ATTEMPTS + 1 times, with or
\* without a request id and whatever answers are lost.
THEOREM SubmissionsAreBounded == Spec => []SubmissionsBounded
<1>1. SubmitInv => SubmissionsBounded
  <2> SUFFICES ASSUME SubmitInv, NEW c \in Calls
               PROVE  /\ ~config.condition => taken[c] <= 1
                      /\ config.retriesMax >= 0 => taken[c] <= config.retriesMax + 1
    BY DEF SubmissionsBounded
  <2>1. /\ taken[c] \in Nat /\ attempts[c] \in Nat /\ taken[c] <= attempts[c]
        /\ ~config.condition => attempts[c] <= 1
    BY DEF SubmitInv, CountInv, CountTypes, Submitted
  <2>2. config.retriesMax >= 0 => attempts[c] <= config.retriesMax + 1
    <3>1. /\ config.retriesMax >= 0 => Counted(c)
          /\ config.retriesMax \in Int /\ retries[c] \in Nat
          /\ pc[c] \in {"idle", "calling", "waiting", "done"}
      BY DEF SubmitInv, CountInv, CountTypes, Config
    <3>2. QED
      BY <2>1, <3>1, SMT DEF Counted
  <2>3. config.retriesMax \in Int
    BY DEF SubmitInv, CountInv, CountTypes, Config
  <2>4. QED
    BY <2>1, <2>2, <2>3
<1>2. QED
  BY <1>1, SubmitInvariant, PTL

-----------------------------------------------------------------------------
(* Delays                                                                  *)

\* A set of naturals that has a member has a least one.
LEMMA LeastOf ==
  ASSUME NEW S \in SUBSET Nat, S # {}
  PROVE  \E m \in S : \A x \in S : m <= x
<1> DEFINE less == {ss \in Nat \X Nat : ss[1] < ss[2]}
<1>1. less = OpToRel(<, Nat)
  BY DEF OpToRel
<1>2. PICK m \in S : \A x \in S : <<x, m>> \notin less
  <2>1. IsWellFoundedOn(less, Nat)
    BY <1>1, NatLessThanWellFounded, Zenon
  <2> HIDE DEF less
  <2>2. QED
    BY <2>1, WFMin
<1>3. \A x \in S : ~(x < m)
  BY <1>2
<1>4. QED
  BY <1>3

\* One step of Power, with f for the recursive call.
PowerStep(f, p) == IF p[2] = 0 THEN 1 ELSE p[1] * f[<<p[1], p[2] - 1>>]

UpTo(n) == {p \in Nat \X Nat : p[2] <= n}

\* f is Power on the exponents up to n.
PowerUpTo(n, f) == /\ f \in [UpTo(n) -> Nat]
                   /\ \A p \in UpTo(n) : f[p] = PowerStep(f, p)

LEMMA OneLess ==
  ASSUME NEW p \in Nat \X Nat, p[2] # 0
  PROVE  <<p[1], p[2] - 1>> \in Nat \X Nat
OBVIOUS

LEMMA PowerUpToExists == \A n \in Nat : \E f : PowerUpTo(n, f)
<1> DEFINE bad == {n \in Nat : ~\E f : PowerUpTo(n, f)}
<1> SUFFICES ASSUME bad # {} PROVE FALSE
  OBVIOUS
<1>1. PICK n \in bad : \A m \in bad : n <= m
  BY LeastOf
<1>2. CASE n = 0
  <2> DEFINE g == [p \in UpTo(0) |-> 1]
  <2>1. \A p \in UpTo(0) : p[2] = 0 /\ g[p] = 1
    BY DEF UpTo
  <2>2. g \in [UpTo(0) -> Nat]
    OBVIOUS
  <2> HIDE DEF g
  <2>3. PowerUpTo(0, g)
    BY <2>1, <2>2 DEF PowerUpTo, PowerStep
  <2>4. QED
    BY <1>1, <1>2, <2>3
<1>3. CASE n # 0
  <2>1. n - 1 \in Nat /\ n - 1 \notin bad
    BY <1>1, <1>3
  <2>2. PICK f : PowerUpTo(n - 1, f)
    BY <2>1
  <2> DEFINE g == [p \in UpTo(n) |-> IF p \in UpTo(n - 1) THEN f[p] ELSE PowerStep(f, p)]
  <2>3. ASSUME NEW p \in UpTo(n), p[2] # 0
        PROVE  <<p[1], p[2] - 1>> \in UpTo(n - 1)
    BY <1>1, <2>3, OneLess DEF UpTo
  <2>4. UpTo(n - 1) \subseteq UpTo(n)
    BY <1>1 DEF UpTo
  <2>5. \A p \in UpTo(n) : PowerStep(f, p) = PowerStep(g, p)
    BY <2>3, <2>4 DEF PowerStep
  <2>6. \A p \in UpTo(n) : g[p] = PowerStep(f, p)
    BY <2>2 DEF PowerUpTo
  <2>7. \A p \in UpTo(n) : PowerStep(f, p) \in Nat
    <3> TAKE p \in UpTo(n)
    <3>1. p[1] \in Nat
      BY DEF UpTo
    <3>2. p[2] # 0 => f[<<p[1], p[2] - 1>>] \in Nat
      BY <2>2, <2>3 DEF PowerUpTo
    <3>3. QED
      BY <3>1, <3>2 DEF PowerStep
  <2>8. g \in [UpTo(n) -> Nat]
    BY <2>6, <2>7
  <2> HIDE DEF g
  <2>9. PowerUpTo(n, g)
    BY <2>5, <2>6, <2>8 DEF PowerUpTo
  <2>10. QED
    BY <1>1, <2>9
<1>4. QED
  BY <1>2, <1>3

LEMMA PowerUpToAgree ==
  ASSUME NEW m \in Nat, NEW n \in Nat, NEW f, NEW g, PowerUpTo(m, f), PowerUpTo(n, g)
  PROVE  \A p \in UpTo(m) \cap UpTo(n) : f[p] = g[p]
<1> DEFINE bad == {k \in Nat : \E p \in UpTo(m) \cap UpTo(n) : p[2] = k /\ f[p] # g[p]}
<1>1. SUFFICES ASSUME bad # {} PROVE FALSE
  BY DEF UpTo
<1>2. PICK k \in bad : \A j \in bad : k <= j
  BY <1>1, LeastOf
<1>3. PICK p \in UpTo(m) \cap UpTo(n) : p[2] = k /\ f[p] # g[p]
  BY <1>2
<1>4. p \in Nat \X Nat /\ p[2] <= m /\ p[2] <= n
  BY <1>3 DEF UpTo
<1>5. f[p] = PowerStep(f, p) /\ g[p] = PowerStep(g, p)
  BY <1>3 DEF PowerUpTo
<1>6. p[2] # 0
  BY <1>3, <1>5 DEF PowerStep
<1> DEFINE h == <<p[1], p[2] - 1>>
<1>7. h \in UpTo(m) \cap UpTo(n) /\ h[2] \in Nat /\ h[2] < k
  BY <1>3, <1>4, <1>6, OneLess DEF UpTo
<1>8. f[h] = g[h]
  BY <1>2, <1>7
<1>9. QED
  BY <1>3, <1>5, <1>6, <1>8 DEF PowerStep

\* Power is the function its definition says: there is one.
LEMMA PowerUnfolds ==
  /\ Power \in [Nat \X Nat -> Nat]
  /\ \A p \in Nat \X Nat : Power[p] = PowerStep(Power, p)
<1> DEFINE part(n) == CHOOSE f : PowerUpTo(n, f)
           F == [p \in Nat \X Nat |-> part(p[2])[p]]
<1>1. \A n \in Nat : PowerUpTo(n, part(n))
  BY PowerUpToExists
<1> HIDE DEF part
<1>2. \A p \in Nat \X Nat : p[2] \in Nat /\ p \in UpTo(p[2])
  BY DEF UpTo
<1>3. \A p \in Nat \X Nat : F[p] \in Nat /\ F[p] = PowerStep(part(p[2]), p)
  BY <1>1, <1>2 DEF PowerUpTo
<1>4. ASSUME NEW p \in Nat \X Nat
      PROVE  PowerStep(part(p[2]), p) = PowerStep(F, p)
  <2>1. CASE p[2] = 0
    BY <2>1 DEF PowerStep
  <2>2. CASE p[2] # 0
    <3> DEFINE h == <<p[1], p[2] - 1>>
    <3>1. h \in Nat \X Nat /\ h[2] \in Nat /\ h[2] = p[2] - 1
      BY <2>2, OneLess
    <3>2. h \in UpTo(p[2]) /\ h \in UpTo(h[2])
      BY <3>1 DEF UpTo
    <3>3. part(p[2])[h] = part(h[2])[h]
      BY <1>1, <1>2, <3>1, <3>2, PowerUpToAgree
    <3>4. F[h] = part(h[2])[h]
      BY <3>1
    <3> HIDE DEF F
    <3>5. QED
      BY <2>2, <3>3, <3>4 DEF PowerStep
  <2>3. QED
    BY <2>1, <2>2
<1>5. F = [p \in Nat \X Nat |-> PowerStep(F, p)]
  <2>1. \A p \in Nat \X Nat : F[p] = PowerStep(F, p)
    BY <1>3, <1>4
  <2>2. F = [p \in Nat \X Nat |-> F[p]]
    OBVIOUS
  <2> HIDE DEF F
  <2>3. QED
    BY <2>1, <2>2
<1> HIDE DEF F
<1>6. Power = CHOOSE f : f = [p \in Nat \X Nat |-> PowerStep(f, p)]
  BY DEF Power, PowerStep
<1>7. Power = [p \in Nat \X Nat |-> PowerStep(Power, p)]
  BY <1>5, <1>6
<1>8. \A p \in Nat \X Nat : Power[p] = PowerStep(Power, p)
  BY <1>7
<1>9. \A p \in Nat \X Nat : Power[p] \in Nat
  <2> DEFINE bad == {k \in Nat : \E p \in Nat \X Nat : p[2] = k /\ Power[p] \notin Nat}
  <2>1. SUFFICES ASSUME bad # {} PROVE FALSE
    OBVIOUS
  <2>2. PICK k \in bad : \A j \in bad : k <= j
    BY <2>1, LeastOf
  <2>3. PICK p \in Nat \X Nat : p[2] = k /\ Power[p] \notin Nat
    BY <2>2
  <2>4. Power[p] = PowerStep(Power, p)
    BY <1>8
  <2>5. p[2] # 0
    BY <2>3, <2>4 DEF PowerStep
  <2> DEFINE h == <<p[1], p[2] - 1>>
  <2>6. h \in Nat \X Nat /\ h[2] \in Nat /\ h[2] < k
    BY <2>3, <2>5, OneLess
  <2>7. Power[h] \in Nat
    BY <2>2, <2>6
  <2>8. Power[p] = p[1] * Power[h] /\ p[1] \in Nat
    BY <2>4, <2>5 DEF PowerStep
  <2>9. QED
    BY <2>3, <2>7, <2>8
<1>10. QED
  BY <1>7, <1>8, <1>9

Least(x, y) == IF x < y THEN x ELSE y

\* A back-off that was cut to the limit grows like one that was not.
LEMMA CutGrows ==
  ASSUME NEW x \in Nat, NEW limit \in Nat, NEW factor \in Nat \ {0}
  PROVE  Least(x * factor, limit) = Least(Least(x, limit) * factor, limit)
<1>1. CASE x < limit
  BY <1>1 DEF Least
<1>2. CASE x >= limit
  <2>1. \A y \in Nat : y * factor \in Nat /\ y * factor >= y
    OBVIOUS
  <2>2. x * factor >= limit /\ limit * factor >= limit
    BY <1>2, <2>1
  <2>3. x * factor \in Nat /\ limit * factor \in Nat
    BY <2>1
  <2> DEFINE a == x * factor
             b == limit * factor
  <2> HIDE DEF a, b
  <2>4. Least(x, limit) = limit
    BY <1>2 DEF Least
  <2>5. Least(a, limit) = limit /\ Least(b, limit) = limit
    BY <2>2, <2>3 DEF Least, a, b
  <2>6. QED
    BY <2>4, <2>5 DEF a, b
<1>3. QED
  BY <1>1, <1>2

\* The back-off of a retry from that of the retry before.
LEMMA BackoffSteps ==
  ASSUME config \in Config, NEW n \in Nat
  PROVE  /\ Backoff(n) \in Nat
         /\ Backoff(0) = Least(config.initial, config.limit)
         /\ Backoff(n + 1) = Least(Backoff(n) * config.factor, config.limit)
<1> DEFINE factor == config.factor
           initial == config.initial
           limit == config.limit
           grown(k) == initial * Power[<<factor, k>>]
<1>1. factor \in Nat \ {0} /\ initial \in Nat /\ limit \in Nat
  BY DEF Config
<1>2. \A k \in Nat : Backoff(k) = Least(grown(k), limit)
  BY DEF Backoff, Least
<1> HIDE DEF factor, initial, limit
<1>3. /\ Power[<<factor, n>>] \in Nat
      /\ Power[<<factor, 0>>] = 1
      /\ Power[<<factor, n + 1>>] = factor * Power[<<factor, n>>]
  <2>1. \A k \in Nat : <<factor, k>> \in Nat \X Nat
    BY <1>1
  <2>2. \A k \in Nat : Power[<<factor, k>>] \in Nat
    BY <2>1, PowerUnfolds
  <2>3. Power[<<factor, 0>>] = PowerStep(Power, <<factor, 0>>)
    BY <2>1, PowerUnfolds
  <2>4. n + 1 \in Nat /\ n + 1 # 0 /\ (n + 1) - 1 = n
    OBVIOUS
  <2>5. Power[<<factor, n + 1>>] = PowerStep(Power, <<factor, n + 1>>)
    BY <2>1, <2>4, PowerUnfolds
  <2>6. PowerStep(Power, <<factor, 0>>) = 1
    BY DEF PowerStep
  <2>7. PowerStep(Power, <<factor, n + 1>>) = factor * Power[<<factor, n>>]
    BY <2>4 DEF PowerStep
  <2>8. QED
    BY <2>2, <2>3, <2>5, <2>6, <2>7
<1> DEFINE power == Power[<<factor, n>>]
<1> HIDE DEF power
<1>4. grown(0) = initial /\ grown(n) \in Nat /\ grown(n + 1) = grown(n) * factor
  <2>1. initial * 1 = initial
    BY <1>1
  <2>2. power \in Nat
    BY <1>3 DEF power
  <2>3. initial * power \in Nat
    BY <1>1, <2>2
  <2>4. initial * (factor * power) = (initial * power) * factor
    BY <1>1, <2>2
  <2>5. QED
    BY <1>3, <2>1, <2>3, <2>4 DEF power
<1>5. /\ Backoff(n) = Least(grown(n), limit)
      /\ Backoff(0) = Least(grown(0), limit)
      /\ Backoff(n + 1) = Least(grown(n + 1), limit)
  BY <1>2
<1> HIDE DEF grown
<1>6. Backoff(n) \in Nat
  BY <1>1, <1>4, <1>5 DEF Least
<1>7. Backoff(n + 1) = Least(Backoff(n) * factor, limit)
  BY <1>1, <1>4, <1>5, CutGrows
<1>8. QED
  BY <1>4, <1>5, <1>6, <1>7 DEF factor, initial, limit

\* The last delay of a call that retries belongs to the counter.
Delayed(c) ==
  /\ pc[c] = "waiting" => delay[c] = Backoff(retries[c])
  /\ pc[c] = "calling" /\ retries[c] > 0 => delay[c] = Backoff(retries[c] - 1)

DelayInv ==
  /\ CountInv
  /\ delay \in [Calls -> Nat]
  /\ config.retriesMax >= 0 => \A c \in Calls : Delayed(c)

\* The head of the loop keeps the delay, and a call that goes on has it from
\* the counter before.
LEMMA LoopHeadDelays ==
  ASSUME DelayInv, CountInv', UNCHANGED <<config, delay>>,
         NEW c \in Calls, NEW n \in Nat, LoopHead(c, n),
         n = 0 \/ (pc[c] = "waiting" /\ n = Incremented(retries[c]))
  PROVE  DelayInv'
<1>1. /\ config \in Config /\ config.retriesMax \in Int
      /\ pc \in [Calls -> {"idle", "calling", "waiting", "done"}] /\ retries \in [Calls -> Nat]
  BY DEF DelayInv, CountInv, CountTypes, Config
<1>2. ASSUME config.retriesMax >= 0, NEW d \in Calls
      PROVE  Delayed(d)'
  <2>1. Delayed(d)
    BY <1>2 DEF DelayInv
  <2>2. \A k : Backoff(k)' = Backoff(k)
    BY DEF Backoff
  <2>3. CASE d # c
    <3>1. pc'[d] = pc[d] /\ retries'[d] = retries[d] /\ delay'[d] = delay[d]
      BY <1>1, <2>3 DEF LoopHead
    <3>2. QED
      BY <2>1, <2>2, <3>1 DEF Delayed
  <2>4. CASE d = c
    <3>1. pc'[d] # "waiting" /\ retries'[d] = n /\ delay'[d] = delay[d]
      BY <1>1, <2>4 DEF LoopHead
    <3>2. CASE n = 0
      BY <3>1, <3>2 DEF Delayed
    <3>3. CASE pc[c] = "waiting" /\ n = Incremented(retries[c])
      <4>1. n - 1 = retries[d]
        BY <1>1, <1>2, <2>4, <3>3 DEF Incremented
      <4>2. delay[d] = Backoff(retries[d])
        BY <2>1, <2>4, <3>3 DEF Delayed
      <4>3. QED
        BY <2>2, <3>1, <4>1, <4>2 DEF Delayed
    <3>4. QED
      BY <3>2, <3>3
  <2>5. QED
    BY <2>3, <2>4
<1>3. QED
  BY <1>2 DEF DelayInv

\* A failed call waits as long as its counter says.
LEMMA ReplyDelays ==
  ASSUME DelayInv, CountInv', UNCHANGED config,
         NEW c \in Calls, pc[c] = "calling",
         \/ \E result \in {"ok", "conflict", "error"} : EndsWith(c, result)
         \/ FailsWithMatch(c)
  PROVE  DelayInv'
<1>1. /\ config \in Config /\ retries' = retries
      /\ pc \in [Calls -> {"idle", "calling", "waiting", "done"}] /\ retries \in [Calls -> Nat]
      /\ delay \in [Calls -> Nat]
  BY DEF DelayInv, CountInv, CountTypes, EndsWith, FailsWithMatch
<1>2. \/ pc' = [pc EXCEPT ![c] = "done"] /\ delay' = delay
      \/ /\ pc' = [pc EXCEPT ![c] = "waiting"]
         /\ delay' = [delay EXCEPT ![c] = Backoff(retries[c])]
  BY DEF EndsWith, FailsWithMatch
<1>3. Backoff(retries[c]) \in Nat
  BY <1>1, BackoffSteps
<1>4. delay' \in [Calls -> Nat]
  BY <1>1, <1>2, <1>3
<1>5. ASSUME config.retriesMax >= 0, NEW d \in Calls
      PROVE  Delayed(d)'
  <2>1. Delayed(d)
    BY <1>5 DEF DelayInv
  <2>2. \A k : Backoff(k)' = Backoff(k)
    BY DEF Backoff
  <2>3. retries'[d] = retries[d]
    BY <1>1
  <2>4. CASE d # c
    <3>1. pc'[d] = pc[d] /\ delay'[d] = delay[d]
      BY <1>1, <1>2, <2>4
    <3>2. QED
      BY <2>1, <2>2, <2>3, <3>1 DEF Delayed
  <2>5. CASE d = c
    <3>1. CASE pc' = [pc EXCEPT ![c] = "done"]
      BY <1>1, <2>5, <3>1 DEF Delayed
    <3>2. CASE /\ pc' = [pc EXCEPT ![c] = "waiting"]
               /\ delay' = [delay EXCEPT ![c] = Backoff(retries[c])]
      <4>1. pc'[d] = "waiting" /\ delay'[d] = Backoff(retries[d])
        BY <1>1, <2>5, <3>2
      <4>2. QED
        BY <2>2, <2>3, <4>1 DEF Delayed
    <3>3. QED
      BY <1>2, <3>1, <3>2
  <2>6. QED
    BY <2>4, <2>5
<1>6. QED
  BY <1>4, <1>5 DEF DelayInv

LEMMA DelayInductive == DelayInv /\ [Next]_vars => DelayInv'
<1> SUFFICES ASSUME DelayInv, [Next]_vars PROVE DelayInv'
  OBVIOUS
<1>1. CountInv'
  <2>1. CountInv
    BY DEF DelayInv
  <2>2. QED
    BY <2>1, CountInductive
<1>2. ASSUME NEW c \in Calls, Call(c) PROVE DelayInv'
  <2> DEFINE n == 0
  <2>1. LoopHead(c, n) /\ UNCHANGED <<config, delay>>
    BY <1>2 DEF Call
  <2>2. n \in Nat /\ n = 0
    OBVIOUS
  <2> HIDE DEF n
  <2>3. QED
    BY <1>1, <2>1, <2>2, LoopHeadDelays
<1>3. ASSUME NEW c \in Calls, Accept(c) PROVE DelayInv'
  BY <1>1, <1>3, ReplyDelays DEF Accept
<1>4. ASSUME NEW c \in Calls, Conflict(c) PROVE DelayInv'
  BY <1>1, <1>4, ReplyDelays DEF Conflict
<1>5. ASSUME NEW c \in Calls, Unreachable(c) PROVE DelayInv'
  BY <1>1, <1>5, ReplyDelays DEF Unreachable
<1>6. ASSUME NEW c \in Calls, Rejected(c) PROVE DelayInv'
  BY <1>1, <1>6, ReplyDelays DEF Rejected
<1>7. ASSUME NEW c \in Calls, Wake(c) PROVE DelayInv'
  <2>1. Incremented(retries[c]) \in Nat
    BY DEF DelayInv, CountInv, CountTypes, Incremented
  <2>2. QED
    BY <1>1, <1>7, <2>1, LoopHeadDelays DEF Wake
<1>8. CASE UNCHANGED vars
  <2>1. \A k : Backoff(k)' = Backoff(k)
    BY <1>8 DEF vars, Backoff
  <2>2. QED
    BY <1>1, <1>8, <2>1 DEF vars, callVars, DelayInv, Delayed
<1>9. QED
  BY <1>2, <1>3, <1>4, <1>5, <1>6, <1>7, <1>8 DEF Next

LEMMA DelayInvariant == Spec => []DelayInv
<1>1. Init => DelayInv
  BY ConfigsAssumption DEF Init, DelayInv, Delayed, CountInv, CountTypes, Counted, Config
<1>2. QED
  BY <1>1, DelayInductive, PTL DEF Spec

\* The settings, the counters and the delays keep their types.
THEOREM TypeCorrect == Spec => []TypeOK
<1>1. DelayInv /\ SubmitInv => TypeOK
  BY DEF DelayInv, SubmitInv, CountInv, CountTypes, TypeOK
<1>2. QED
  BY <1>1, DelayInvariant, SubmitInvariant, PTL

\* The first delay is the initial one, and each delay is the one before times
\* the factor, up to the limit: backoffDelay computes each from the counter.
THEOREM DelaysGrow == Spec => BackoffGrows
<1> DEFINE Grows(c) ==
      pc[c] = "calling" /\ pc'[c] = "waiting" =>
        LET due == IF attempts[c] = 1 THEN config.initial ELSE delay[c] * config.factor
        IN  delay'[c] = IF due < config.limit THEN due ELSE config.limit
<1>1. ASSUME DelayInv, [Next]_vars, config.retriesMax >= 0, NEW c \in Calls,
             pc[c] = "calling", pc'[c] = "waiting"
      PROVE  LET due == IF attempts[c] = 1 THEN config.initial ELSE delay[c] * config.factor
             IN  delay'[c] = IF due < config.limit THEN due ELSE config.limit
  <2>1. /\ config \in Config /\ retries \in [Calls -> Nat] /\ delay \in [Calls -> Nat]
        /\ attempts[c] = retries[c] + 1
        /\ retries[c] > 0 => delay[c] = Backoff(retries[c] - 1)
    BY <1>1 DEF DelayInv, CountInv, CountTypes, Counted, Delayed
  <2>2. delay'[c] = Backoff(retries[c])
    <3>1. pc \in [Calls -> {"idle", "calling", "waiting", "done"}]
      BY <1>1 DEF DelayInv, CountInv, CountTypes
    <3>2. PICK d \in Calls : Call(d) \/ Accept(d) \/ Conflict(d) \/ Unreachable(d) \/ Rejected(d) \/ Wake(d)
      BY <1>1 DEF Next, vars, callVars
    <3>3. \/ pc'[d] # "waiting" /\ \E p : pc' = [pc EXCEPT ![d] = p]
          \/ FailsWithMatch(d)
      BY <3>1, <3>2 DEF Call, Accept, Conflict, Unreachable, Rejected, Wake, LoopHead, EndsWith
    <3>4. FailsWithMatch(d) /\ d = c
      BY <1>1, <3>1, <3>3 DEF FailsWithMatch, EndsWith
    <3>5. QED
      BY <1>1, <2>1, <3>1, <3>4 DEF FailsWithMatch, EndsWith
  <2>3. CASE retries[c] = 0
    BY <2>1, <2>2, <2>3, BackoffSteps DEF Least
  <2>4. CASE retries[c] # 0
    <3> DEFINE n == retries[c] - 1
    <3>1. n \in Nat /\ n + 1 = retries[c] /\ attempts[c] # 1 /\ delay[c] = Backoff(n)
      BY <2>1, <2>4
    <3> HIDE DEF n
    <3>2. Backoff(n + 1) = Least(Backoff(n) * config.factor, config.limit)
      BY <2>1, <3>1, BackoffSteps
    <3>3. QED
      BY <2>2, <3>1, <3>2 DEF Least
  <2>5. QED
    BY <2>3, <2>4
<1>2. DelayInv /\ [Next]_vars => [config.retriesMax >= 0 => \A c \in Calls : Grows(c)]_vars
  BY <1>1
<1> HIDE DEF Grows
<1>3. [][config.retriesMax >= 0 => \A c \in Calls : Grows(c)]_vars => BackoffGrows
  BY DEF Grows, BackoffGrows
<1>4. QED
  BY <1>2, <1>3, DelayInvariant, PTL DEF Spec

=============================================================================
