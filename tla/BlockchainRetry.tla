--------------------------- MODULE BlockchainRetry ---------------------------
(***************************************************************************)
(* Calls of src/tokens/blockchain.service.ts to the blockchain connector:  *)
(* the loop of retryableCall with its back-off, and wrapError.  Each call  *)
(* submits the same transaction (sendTransaction): FireFly may repeat a    *)
(* request it has no answer for, while the loop retries by itself.  The    *)
(* request id, by which the connector knows a repeated submission, is      *)
(* optional.  getContractInfo, query and getReceipt go through the same    *)
(* loop, without the effect on the chain.                                  *)
(***************************************************************************)
EXTENDS Integers

CONSTANTS Calls,   \* HTTP requests of FireFly for one transaction
          Configs  \* settings the process may be started with

\* RETRY_MAX_ATTEMPTS and whether it comes from the environment, where it is
\* a string; RETRY_BACKOFF_FACTOR, _LIMIT_MS and _INITIAL_MS; whether
\* RETRY_CONDITION is not empty.
Config == [retriesMax : Int, fromEnvironment : BOOLEAN,
           factor : Nat \ {0}, initial : Nat, limit : Nat, condition : BOOLEAN]

ASSUME ConfigsAssumption == Configs \subseteq Config

VARIABLES
  config,    \* the settings, read once at startup
  requestId, \* whether FireFly's requests carry an id, the same one
  pc,        \* where a call is
  retries,   \* the loop's counter
  delay,     \* the last back-off
  answer,    \* what the REST API answers
  attempts,  \* history: HTTP calls made
  taken      \* history: how often the connector took a call's transaction

callVars == <<pc, retries, delay, answer, attempts>>
vars == <<config, requestId, callVars, taken>>

TypeOK ==
  /\ config \in Config
  /\ requestId \in BOOLEAN
  /\ pc \in [Calls -> {"idle", "calling", "waiting", "done"}]
  /\ retries \in [Calls -> Nat]
  /\ delay \in [Calls -> Nat]
  /\ answer \in [Calls -> {"none", "ok", "conflict", "error", "exhausted"}]
  /\ attempts \in [Calls -> Nat]
  /\ taken \in [Calls -> Nat]

Init ==
  /\ config \in Configs
  /\ requestId \in BOOLEAN
  /\ pc = [c \in Calls |-> "idle"]
  /\ retries = [c \in Calls |-> 0]
  /\ delay = [c \in Calls |-> 0]
  /\ answer = [c \in Calls |-> "none"]
  /\ attempts = [c \in Calls |-> 0]
  /\ taken = [c \in Calls |-> 0]

-----------------------------------------------------------------------------
(* Helpers                                                                 *)

\* Mutant of LoopContinues: one attempt too few.
LoopContinuesBelow(n) == n < config.retriesMax

\* The loop's condition.  '===' tells the string '-1' from the number, while
\* '<=' converts a string to the number it spells.
LoopContinues(n) ==
  \/ config.retriesMax = -1 /\ ~config.fromEnvironment
  \/ n <= config.retriesMax

\* Mutant of Incremented: the counter runs down.
IncrementedDown(n) == n - 1

\* The loop's increment, not taken when the number -1 is configured.
Incremented(n) ==
  IF config.retriesMax = -1 /\ ~config.fromEnvironment THEN n ELSE n + 1

\* Math.pow: the first number to the power of the second.
Power[p \in Nat \X Nat] ==
  IF p[2] = 0 THEN 1 ELSE p[1] * Power[<<p[1], p[2] - 1>>]

\* Mutant of Backoff: the factor is applied before the first retry.
BackoffEarly(n) ==
  LET grown == config.initial * Power[<<config.factor, n + 1>>]
  IN  IF grown < config.limit THEN grown ELSE config.limit

Backoff(n) ==
  LET grown == config.initial * Power[<<config.factor, n>>]
  IN  IF grown < config.limit THEN grown ELSE config.limit

\* The head of the loop with counter n: another HTTP call, or giving up.
LoopHead(c, n) ==
  /\ retries' = [retries EXCEPT ![c] = n]
  /\ IF LoopContinues(n)
     THEN /\ pc' = [pc EXCEPT ![c] = "calling"]
          /\ attempts' = [attempts EXCEPT ![c] = @ + 1]
          /\ UNCHANGED answer
     ELSE /\ pc' = [pc EXCEPT ![c] = "done"]
          /\ answer' = [answer EXCEPT ![c] = "exhausted"]
          /\ UNCHANGED attempts

\* The call ends; wrapError turns an error into 409 or 500.
EndsWith(c, result) ==
  /\ pc' = [pc EXCEPT ![c] = "done"]
  /\ answer' = [answer EXCEPT ![c] = result]
  /\ UNCHANGED <<retries, delay, attempts>>

\* Mutant of FailsWithMatch: an empty condition matches every error.
MatchAlways(c) ==
  /\ pc' = [pc EXCEPT ![c] = "waiting"]
  /\ delay' = [delay EXCEPT ![c] = Backoff(retries[c])]
  /\ UNCHANGED <<retries, answer, attempts>>

\* An error whose text matches the retry condition, if there is one.
FailsWithMatch(c) ==
  IF config.condition
  THEN /\ pc' = [pc EXCEPT ![c] = "waiting"]
       /\ delay' = [delay EXCEPT ![c] = Backoff(retries[c])]
       /\ UNCHANGED <<retries, answer, attempts>>
  ELSE EndsWith(c, "error")

-----------------------------------------------------------------------------
(* Actions                                                                 *)

\* sendTransaction calls retryableCall.
Call(c) ==
  /\ pc[c] = "idle"
  /\ LoopHead(c, 0)
  /\ UNCHANGED <<config, requestId, delay, taken>>

\* The connector has seen the id of the request.
Known == requestId /\ \E c \in Calls : taken[c] > 0

\* The connector takes the transaction: nothing tells it that it did before.
\* The connection may be reset before its answer arrives.
Accept(c) ==
  /\ pc[c] = "calling" /\ ~Known
  /\ taken' = [taken EXCEPT ![c] = @ + 1]
  /\ EndsWith(c, "ok") \/ FailsWithMatch(c)
  /\ UNCHANGED <<config, requestId>>

\* It answers 409 for a request id it has seen; that answer may be lost too.
Conflict(c) ==
  /\ pc[c] = "calling" /\ Known
  /\ EndsWith(c, "conflict") \/ FailsWithMatch(c)
  /\ UNCHANGED <<config, requestId, taken>>

\* The connector cannot be reached: ECONNREFUSED and the like.
Unreachable(c) ==
  /\ pc[c] = "calling"
  /\ FailsWithMatch(c)
  /\ UNCHANGED <<config, requestId, taken>>

\* It answers with an error that does not match the condition.
Rejected(c) ==
  /\ pc[c] = "calling"
  /\ EndsWith(c, "error")
  /\ UNCHANGED <<config, requestId, taken>>

\* Mutant of Wake: the last delay leads nowhere.
WakeUnlessLast(c) ==
  /\ pc[c] = "waiting"
  /\ LoopContinues(Incremented(retries[c]))
  /\ LoopHead(c, Incremented(retries[c]))
  /\ UNCHANGED <<config, requestId, delay, taken>>

\* The delay is over.
Wake(c) ==
  /\ pc[c] = "waiting"
  /\ LoopHead(c, Incremented(retries[c]))
  /\ UNCHANGED <<config, requestId, delay, taken>>

Next == \E c \in Calls :
  Call(c) \/ Accept(c) \/ Conflict(c) \/ Unreachable(c) \/ Rejected(c) \/ Wake(c)

Spec == Init /\ [][Next]_vars

\* An HTTP call ends, one way or another, and delays end.
FairSpec == Spec /\ \A c \in Calls :
  /\ WF_vars(Accept(c) \/ Conflict(c) \/ Unreachable(c) \/ Rejected(c))
  /\ WF_vars(Wake(c))

-----------------------------------------------------------------------------
(* Properties                                                              *)

\* A call makes at most RETRY_MAX_ATTEMPTS + 1 HTTP calls, and gives up only
\* after all of them (README.md: "a total of RETRY_MAX_ATTEMPTS + 1 calls").
AttemptsWithin ==
  config.retriesMax >= 0 => \A c \in Calls :
    /\ attempts[c] <= config.retriesMax + 1
    /\ answer[c] = "exhausted" => attempts[c] = config.retriesMax + 1

\* Each delay is the one before times the factor, up to the limit, and the
\* first is the initial one (README.md: "The default first retry interval is
\* 100ms and doubles up to a maximum of 10s").
BackoffGrows ==
  [][config.retriesMax >= 0 => \A c \in Calls :
       pc[c] = "calling" /\ pc'[c] = "waiting" =>
         LET due == IF attempts[c] = 1 THEN config.initial
                                       ELSE delay[c] * config.factor
         IN  delay'[c] = IF due < config.limit THEN due ELSE config.limit]_vars

\* How often one request of FireFly can reach the chain.  A lost answer makes
\* the loop submit again, and without an id the connector takes it again: but
\* only if the settings ask for retries (an empty RETRY_CONDITION matches no
\* error), and at most once per attempt the settings allow.
SubmissionsBounded ==
  \A c \in Calls :
    /\ ~config.condition => taken[c] <= 1
    /\ config.retriesMax >= 0 => taken[c] <= config.retriesMax + 1

\* With a bound on the retries each call is answered, however often the
\* connector fails.
CallsEnd == config.retriesMax >= 0 => \A c \in Calls : pc[c] = "calling" ~> pc[c] = "done"

\* README.md: "Setting RETRY_MAX_ATTEMPTS to -1 causes it to retry
\* indefinitely": then no call gives up.
RetriesIndefinitely ==
  config.retriesMax = -1 => \A c \in Calls : answer[c] # "exhausted"

=============================================================================
