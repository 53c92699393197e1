----------------------------- MODULE TokenLedger -----------------------------
(***************************************************************************)
(* The round trip of a token operation.  FireFly asks the connector to     *)
(* mint, transfer, burn or approve in a pool (tokens.service.ts); the      *)
(* connector picks a method of the contract and its parameters             *)
(* (abimapper.service.ts, erc1155.ts); the contract emits events; and for  *)
(* each subscription of an active pool the listener turns the events into  *)
(* messages (tokens.listener.ts), from which FireFly keeps its books.      *)
(*                                                                         *)
(* The contract is "V2", the sample contract; "Old", its first release,    *)
(* which announces a pool by its type_id and cannot mint with a URI; or    *)
(* "oz", an OpenZeppelin contract with manual indexes, whose pools FireFly *)
(* is told of by range (Existing) and whose ABI FireFly supplies.          *)
(***************************************************************************)
EXTENDS TokenListener, SequencesExt, TLC

CONSTANTS Accounts,     \* holders of tokens
          Kinds,        \* the contracts to consider
          Existing,     \* the pools of an "oz" contract
          MaxBlocks     \* bound: kind -> mined transactions

(* Nobody holds as the zero address, and an absent index is no index.      *)
ASSUME NamesAssumption == Zero \notin Accounts /\ NoIndex \notin Nat

(* No contract runs out of types, or of indexes in one; or has ids that    *)
(* are not uint256.                                                        *)
ASSUME ContractsAssumption ==
    /\ Kinds \subseteq {"V2", "Old", "oz"}
    /\ \A k \in Kinds : /\ MaxBlocks[k] \in Nat /\ MaxBlocks[k] * IndexSize < TypeBit
                        /\ 2 * MaxBlocks[k] <= IndexSize
    /\ Existing \subseteq [isFungible : BOOLEAN, startId : TokenIdSpace, endId : TokenIdSpace]

NoMethod == "none"  \* an absent method

VARIABLES kind,          \* the contract
          maxIndex,      \* its types: type_id -> highest index minted
          chain,         \* its events, in order
          submitted,     \* transactions submitted and not mined yet
          supportCache,  \* AbiMapperService.supportCache
          cursor,        \* subscription -> the events of chain behind it
          told           \* messages sent to FireFly

vars == <<kind, maxIndex, chain, submitted, supportCache, cursor, told>>

Height == IF chain = <<>> THEN 0 ELSE Last(chain).block

Active == {sub.locator : sub \in DOMAIN cursor} \ {Base}

(* The ranges a pool may be made of (createFromExisting): pools that are   *)
(* there, on FireFly's own contracts too.                                  *)
Ranges == IF kind = "oz" THEN Existing
          ELSE {Announced(chain[i]) :
                  i \in {j \in DOMAIN chain : chain[j].signature = "TokenPoolCreation"}}

Ranged == {PackPoolLocator(range, 0) : range \in Ranges}

(* The locators FireFly may activate: what createPool answered for a range,*)
(* or those of announced pools, in either form.                            *)
Offered == Ranged \cup UNION {{m.poolLocator} \cup m.alternateLocators :
                                m \in {n \in told : n.event = "token-pool"}}

(* What locators, requests, events and messages look like                  *)
(* (tokens.interfaces.ts).                                                 *)
Holders == {Zero} \cup Accounts
Indexes == {NoIndex} \cup Nat
Pool == [isFungible : BOOLEAN, startId : TokenIdSpace, endId : TokenIdSpace]
Locator == [form : {"range"}, pool : Pool, block : Nat]
           \cup [form : {"id"}, pool : [isFungible : BOOLEAN, number : Nat], block : Nat]

(* Of TokenTransfer, TokenMint and TokenBurn; of TokenApproval.            *)
TransferDto == [from : Holders, to : Holders, amount : Nat, tokenIndex : Indexes]
ApprovalDto == [from : Accounts, to : Accounts, approved : BOOLEAN,
                amount : {0}, tokenIndex : {NoIndex}]

Event ==
    [block : Nat, log : Nat, signature : {"TokenPoolCreation"}, typeId : TokenIdSpace]
    \cup [block : Nat, log : Nat, signature : {"TokenPoolCreation"},
          isFungible : BOOLEAN, startId : TokenIdSpace, endId : TokenIdSpace]
    \cup [block : Nat, log : Nat, signature : {"TransferSingle"},
          from : Holders, to : Holders, id : TokenIdSpace, value : Nat]
    \cup [block : Nat, log : Nat, signature : {"TransferBatch"},
          from : Accounts, to : Accounts, ids : Seq(TokenIdSpace), values : Seq(Nat)]
    \cup [block : Nat, log : Nat, signature : {"ApprovalForAll"},
          account : Accounts, operator : Accounts, approved : BOOLEAN]

TokenPoolEvent ==
    [event : {"token-pool"}, id : Seq(Nat), locator : {Base} \cup Locator,
     poolLocator : Locator, alternateLocators : SUBSET Locator, info : Pool]
TokenTransferEvent ==
    [event : {"token-mint", "token-burn", "token-transfer"}, id : Seq(Nat),
     locator : Locator, tokenIndex : Indexes, from : Holders, to : Holders, amount : Nat]
TokenApprovalEvent ==
    [event : {"token-approval"}, id : Seq(Nat), locator : Locator,
     from : Accounts, to : Accounts, approved : BOOLEAN]

TypeOK ==
    /\ kind \in Kinds
    /\ \A t \in DOMAIN maxIndex : t \in TokenIdSpace /\ maxIndex[t] \in 0 .. IndexSize - 1
    /\ chain \in Seq(Event) /\ \A i \in DOMAIN chain : chain[i].block \in 1 .. MaxBlocks[kind]
    /\ Cardinality(submitted) <= 1
    /\ \A tx \in {t \in submitted : t.operation # "create" /\ t.method # NoMethod} :
         tx.dto \in TransferDto \cup ApprovalDto /\ tx.id \in TokenIdSpace
    /\ supportCache \in {"unknown", "yes", "no"}
    /\ \A sub \in DOMAIN cursor : cursor[sub] \in 0 .. Len(chain)
    /\ told \subseteq TokenPoolEvent \cup TokenTransferEvent \cup TokenApprovalEvent

Init == /\ kind \in Kinds
        /\ maxIndex = <<>>
        /\ chain = <<>>
        /\ submitted = {}
        /\ supportCache = "unknown"
        /\ cursor = <<>>
        /\ told = {}
-----------------------------------------------------------------------------
(* AbiMapperService *)

Standard == {"safeTransferFrom", "setApprovalForAll"}

OldSample == Standard \cup {"create", "burnWithData", "setApprovalForAllWithData",
                            "mintFungible", "mintNonFungible"}

Sample == OldSample \cup {"mintNonFungibleWithURI"}

Implemented == CASE kind = "V2"  -> Sample
                 [] kind = "Old" -> OldSample
                 [] OTHER        -> Standard \cup {"mint", "burn"}

(* Mutants: a failed query counts as yes; or is kept as an answer of its own. *)
SupportAssumed == IF supportCache # "unknown" THEN {supportCache} ELSE {"yes"}
SupportFailed == IF supportCache # "unknown" THEN {supportCache} ELSE {"failed"}

(* supportsInterface: a query that fails is a no, and any answer is kept.  *)
SupportAnswers ==
    IF supportCache # "unknown" THEN {supportCache}
    ELSE {"no"} \cup {answer \in {"yes"} : kind = "V2"}

(* The methods of an operation, in the order of preference.                *)
DynamicMethods ==
    [approval |-> <<"setApprovalForAllWithData", "setApprovalForAll">>,
     burn     |-> <<"burnWithData", "burn">>,
     mint     |-> <<"mintFungible", "mintNonFungibleWithURI", "mintNonFungible", "mint">>,
     transfer |-> <<"safeTransferFrom">>]

(* The interface of a request, as checkInterface selected it from the ABI  *)
(* that FireFly was given (getAllMethods): the methods of the operation, or *)
(* none of them, which is not to have no interface.                        *)
Interfaces(operation) == {Implemented \cap ToSet(DynamicMethods[operation]), {}}

(* getAbi, for a request without an interface of its own.                  *)
AbiFor(support) == IF support = "yes" THEN Sample ELSE OldSample

AutoIndexed == {"mintNonFungibleWithURI", "mintNonFungible"}

(* Whether map returns parameters for such a pool.                         *)
Maps(method, pool) == /\ method = "mintFungible" => pool.isFungible
                      /\ method \in AutoIndexed => ~pool.isFungible

(* verifyNoIndex and verifyHasIndex refuse the request.                    *)
Verified(method, pool, dto) ==
    /\ method \in AutoIndexed => dto.tokenIndex = NoIndex
    /\ method = "mint" /\ ~pool.isFungible => dto.tokenIndex # NoIndex

(* Mutant: a fungible mint does not ignore the index. *)
IdParamAlways(method, pool, dto) ==
    ComputeTokenId(pool, IF dto.tokenIndex = NoIndex THEN 0 ELSE dto.tokenIndex)

(* The token id among the parameters; a fungible mint ignores the index.   *)
IdParam(method, pool, dto) ==
    ComputeTokenId(pool,
        IF \/ dto.tokenIndex = NoIndex
           \/ method \in {"mintFungible", "mint"} /\ pool.isFungible
        THEN 0 ELSE dto.tokenIndex)

(* getMethodAndParams: the first method of the list that the ABI has, if   *)
(* it has one.                                                             *)
MethodFor(abi, pool, operation) ==
    LET methods == DynamicMethods[operation]
        Fitting == {i \in DOMAIN methods : methods[i] \in abi /\ Maps(methods[i], pool)}
    IN IF Fitting = {} THEN NoMethod ELSE methods[Min(Fitting)]
-----------------------------------------------------------------------------
(* TokensService *)

Submit(request) == /\ submitted = {} /\ Height < MaxBlocks[kind]
                   /\ submitted' = {request}

TransferSubs(locator) == {[locator |-> locator, signature |-> s] :
                            s \in {"TransferSingle", "TransferBatch"}}
PoolSub(locator) == [locator |-> locator, signature |-> "TokenPoolCreation"]
ApprovalSub(locator) == [locator |-> locator, signature |-> "ApprovalForAll"]

(* Mutant: approvals start at the pool's block too. *)
FromPoolBlock(sub) == IF sub.locator = Base THEN 0 ELSE sub.locator.block

(* A subscription starts at its pool's block; approvals start at block 0,  *)
(* so that existing ones are reflected in the new pool.                    *)
FromBlock(sub) ==
    IF sub.locator = Base \/ sub.signature = "ApprovalForAll" THEN 0 ELSE sub.locator.block

(* getOrCreateSubscription: one that is there goes on where it was.        *)
Subscribe(subs) ==
    LET Before(sub) == {i \in DOMAIN chain : chain[i].block < FromBlock(sub)}
    IN cursor' = [sub \in DOMAIN cursor \cup subs |->
                    IF sub \in DOMAIN cursor THEN cursor[sub] ELSE Cardinality(Before(sub))]

(* createPool: the base subscription, then the transaction.                *)
CreatePool(isFungible) ==
    /\ kind # "oz"
    /\ Subscribe({PoolSub(Base)})
    /\ Submit([operation |-> "create", method |-> "create", isFungible |-> isFungible])
    /\ UNCHANGED <<kind, maxIndex, chain, supportCache, told>>

(* The answer confirms a pool whose range is in the request.               *)
ActivateAnswer(locator) ==
    [event |-> "token-pool", id |-> <<>>, locator |-> locator, poolLocator |-> locator,
     alternateLocators |-> {}, info |-> UnpackPoolLocator(locator)]

(* activatePool; the range is in the request's config when the pool was    *)
(* made of it.  FireFly activates a pool once, by one of its locators.     *)
ActivatePool(locator) ==
    /\ locator # Base
    /\ \A a \in Active : UnpackPoolLocator(a) # UnpackPoolLocator(locator)
    /\ \E support \in SupportAnswers : supportCache' = support
    /\ Subscribe({PoolSub(locator), ApprovalSub(locator)} \cup TransferSubs(locator))
    /\ told' = told \cup {ActivateAnswer(l) : l \in {locator} \cap Ranged}
    /\ UNCHANGED <<kind, maxIndex, chain, submitted>>

(* mint, transfer, burn, approval, with the methods that abi has.  A       *)
(* refused request submits nothing; one that finds no method submits a     *)
(* transaction without method and parameters.                              *)
Operate(locator, operation, dto, abi) ==
    LET pool   == UnpackPoolLocator(locator)
        method == MethodFor(abi, pool, operation)
    IN IF method = NoMethod
       THEN Submit([operation |-> operation, method |-> NoMethod])
       ELSE IF Verified(method, pool, dto)
       THEN Submit([operation |-> operation, method |-> method, locator |-> locator,
                    dto |-> dto, id |-> IdParam(method, pool, dto)])
       ELSE UNCHANGED submitted

(* The request has an interface, or the contract is asked about its ABI.   *)
Handle(locator, operation, dto) ==
    /\ \/ /\ \E abi \in Interfaces(operation) : Operate(locator, operation, dto, abi)
          /\ UNCHANGED supportCache
       \/ \E support \in SupportAnswers :
            /\ supportCache' = support
            /\ Operate(locator, operation, dto, AbiFor(support))
    /\ UNCHANGED <<kind, maxIndex, chain, cursor, told>>
-----------------------------------------------------------------------------
(* The contract: external to the connector.                                *)

Moves(event) ==
    IF event.signature = "TransferSingle" THEN <<event>>
    ELSE IF event.signature = "TransferBatch"
    THEN [i \in DOMAIN event.ids |-> BatchMove(event, i)]
    ELSE <<>>

(* What movements (records with from, to and amount) come to: the units    *)
(* that they bring to an account less those that they take from it.        *)
Units(Movements) == UNION {{m} \X (1 .. m.amount) : m \in Movements}

Net(Movements, account) == Cardinality(Units({m \in Movements : m.to = account}))
                           - Cardinality(Units({m \in Movements : m.from = account}))

Movement(i, j) ==
    LET move == Moves(chain[i])[j]
    IN [at |-> <<i, j>>, from |-> move.from, to |-> move.to, id |-> move.id,
        amount |-> move.value]

AllMoves == UNION {{Movement(i, j) : j \in DOMAIN Moves(chain[i])} : i \in DOMAIN chain}

Balance(account, id) == Net({m \in AllMoves : m.id = id}, account)

(* Mutant: the index is not passed on. *)
BalanceOfStart(locator, account, tokenIndex) ==
    Balance(account, UnpackPoolLocator(locator).startId)

(* What the contract answers to TokensService.balance.                     *)
BalanceQuery(locator, account, tokenIndex) ==
    Balance(account, ComputeTokenId(UnpackPoolLocator(locator),
                                    IF tokenIndex = NoIndex THEN 0 ELSE tokenIndex))

Approved(account, operator) ==
    LET Given == {i \in DOMAIN chain : /\ chain[i].signature = "ApprovalForAll"
                                       /\ chain[i].account = account
                                       /\ chain[i].operator = operator}
    IN Given # {} /\ chain[Max(Given)].approved

Transfer(from, to, id, value) ==
    [signature |-> "TransferSingle", from |-> from, to |-> to, id |-> id, value |-> value]

NextType(isFungible) ==
    BitOr(IF isFungible THEN 0 ELSE TypeBit, (Cardinality(DOMAIN maxIndex) + 1) * IndexSize)

CreationEvent(type, isFungible) ==
    IF kind = "Old" THEN [signature |-> "TokenPoolCreation", typeId |-> type]
    ELSE [signature |-> "TokenPoolCreation", isFungible |-> isFungible,
          startId |-> type, endId |-> FormatLegacyPool(isFungible, type).endId]

Minted(tx) ==
    IF tx.method \in AutoIndexed
    THEN [i \in 1 .. tx.dto.amount |->
            Transfer(Zero, tx.dto.to, BitOr(tx.id, maxIndex[tx.id] + i), 1)]
    ELSE <<Transfer(Zero, tx.dto.to, tx.id, tx.dto.amount)>>

Moved(tx) == <<Transfer(tx.dto.from, tx.dto.to, tx.id, tx.dto.amount)>>

(* What a method emits; nothing if it reverts.                             *)
Executes(tx) ==
    IF tx.operation = "create" THEN <<CreationEvent(NextType(tx.isFungible), tx.isFungible)>>
    ELSE IF tx.operation = "mint" THEN Minted(tx)
    ELSE IF tx.operation = "approval"
    THEN <<[signature |-> "ApprovalForAll", account |-> tx.dto.from,
            operator |-> tx.dto.to, approved |-> tx.dto.approved]>>
    ELSE IF Balance(tx.dto.from, tx.id) >= tx.dto.amount THEN Moved(tx) ELSE <<>>

Emitted(tx) == IF tx.method \in Implemented THEN Executes(tx) ELSE <<>>

(* The events of a transaction get their places in the chain.              *)
Placed(event, block, log) ==
    [f \in {"block", "log"} \cup DOMAIN event |->
       IF f = "block" THEN block ELSE IF f = "log" THEN log ELSE event[f]]

Mine(events) == chain' = chain \o [i \in DOMAIN events |-> Placed(events[i], Height + 1, i)]

Mined(tx) ==
    /\ submitted' = submitted \ {tx}
    /\ Mine(Emitted(tx))
    /\ maxIndex' =
         IF tx.operation = "create"
         THEN [t \in DOMAIN maxIndex \cup {NextType(tx.isFungible)} |->
                 IF t \in DOMAIN maxIndex THEN maxIndex[t] ELSE 0]
         ELSE IF tx.method \in AutoIndexed \cap Implemented
         THEN [maxIndex EXCEPT ![tx.id] = @ + tx.dto.amount]
         ELSE maxIndex
    /\ UNCHANGED <<kind, supportCache, cursor, told>>

(* A holder moves two tokens by itself.                                    *)
BatchTransfer(from, to, ids) ==
    /\ submitted = {} /\ Height < MaxBlocks[kind]
    /\ \A id \in ToSet(ids) :
         Balance(from, id) >= Cardinality({i \in DOMAIN ids : ids[i] = id})
    /\ Mine(<<[signature |-> "TransferBatch", from |-> from, to |-> to, ids |-> ids,
               values |-> [i \in DOMAIN ids |-> 1]]>>)
    /\ UNCHANGED <<kind, maxIndex, submitted, supportCache, cursor, told>>
-----------------------------------------------------------------------------
(* The event stream hands the subscriptions of a pool their events in the  *)
(* order of the chain; those of different pools at different times.        *)

Outstanding(sub) == {i \in DOMAIN chain : i > cursor[sub] /\ chain[i].signature = sub.signature}

Deliver(locator) ==
    LET subs == {sub \in DOMAIN cursor : sub.locator = locator}
        Due  == UNION {Outstanding(sub) : sub \in subs}
    IN /\ Due # {}
       /\ LET event == chain[Min(Due)]
          IN /\ cursor' = [cursor EXCEPT ![[locator |-> locator, signature |-> event.signature]] = Min(Due)]
             /\ told' = told \cup OnEvent(locator, event)
       /\ UNCHANGED <<kind, maxIndex, chain, submitted, supportCache>>
-----------------------------------------------------------------------------
(* FireFly's requests: of the pools it activated, and the tokens it knows. *)

Messages(locator) == {m \in told : m.locator = locator
                                   /\ m.event \in {"token-mint", "token-burn", "token-transfer"}}

KnownIndexes(locator) == {m.tokenIndex : m \in Messages(locator)}

Dto(from, to, amount, tokenIndex) ==
    [from |-> from, to |-> to, amount |-> amount, tokenIndex |-> tokenIndex]

Pairs == {pair \in Accounts \X Accounts : pair[1] # pair[2]}

MintDtos(pool) ==
    {Dto(Zero, to, amount, index) :
       to \in Accounts,
       amount \in {IF kind = "oz" /\ ~pool.isFungible THEN 1 ELSE 2},
       index \in {NoIndex, 0, 1}}

TransferDtos(locator) ==
    {Dto(pair[1], pair[2], 1, index) : pair \in Pairs, index \in KnownIndexes(locator)}

BurnDtos(locator) ==
    {Dto(from, Zero, 1, index) : from \in Accounts, index \in KnownIndexes(locator)}

ApprovalDtos ==
    {[from |-> pair[1], to |-> pair[2], approved |-> approved, amount |-> 0, tokenIndex |-> NoIndex] :
       approved \in BOOLEAN, pair \in Pairs}

Request(locator) ==
    \/ \E dto \in MintDtos(UnpackPoolLocator(locator)) : Handle(locator, "mint", dto)
    \/ \E dto \in TransferDtos(locator) : Handle(locator, "transfer", dto)
    \/ \E dto \in BurnDtos(locator) : Handle(locator, "burn", dto)
    \/ \E dto \in ApprovalDtos : Handle(locator, "approval", dto)

Held(account) == {id \in {m.id : m \in AllMoves} : Balance(account, id) > 0}

Next ==
    \/ \E isFungible \in BOOLEAN : CreatePool(isFungible)
    \/ \E locator \in Offered : ActivatePool(locator)
    \/ \E locator \in Active : Request(locator)
    \/ \E tx \in submitted : Mined(tx)
    \/ \E pair \in Pairs : \E ids \in Held(pair[1]) \X Held(pair[1]) :
         BatchTransfer(pair[1], pair[2], ids)
    \/ \E locator \in Active \cup {Base} : Deliver(locator)

Spec == Init /\ [][Next]_vars
-----------------------------------------------------------------------------
(* Properties                                                              *)

CaughtUp(subs) == \A sub \in subs : Outstanding(sub) = {}

Told(locator, account, tokenIndex) ==
    Net({m \in Messages(locator) : m.tokenIndex = tokenIndex}, account)

(* The books agree: once the transfers of an active pool are delivered,    *)
(* what the messages of the pool add up to is what the contract holds, for *)
(* every account and every token of the pool (the token of index n is the  *)
(* one n after startId), and nothing of another pool is in them.           *)
(* transformTransferSingleEvent, transformTransferBatchEvent.              *)
LedgerAgrees ==
    \A locator \in Active : CaughtUp(TransferSubs(locator)) =>
        LET pool  == UnpackPoolLocator(locator)
            Ids   == {m.id : m \in AllMoves} \cap pool.startId .. pool.endId
            Index == [id \in Ids |-> IF pool.isFungible THEN NoIndex ELSE id - pool.startId]
        IN /\ KnownIndexes(locator) \subseteq {Index[id] : id \in Ids}
           /\ \A id \in Ids, account \in Accounts :
                Told(locator, account, Index[id]) = Balance(account, id)

(* GET /balance gives the balance of the token that messages name by the   *)
(* same index.                                                             *)
BalanceAnswered ==
    \A locator \in Active : CaughtUp(TransferSubs(locator)) =>
        \A account \in Accounts, index \in KnownIndexes(locator) :
            BalanceQuery(locator, account, index) = Told(locator, account, index)

(* An operation reaches the token that is tokenIndex after the pool's      *)
(* startId (README.md:81), or startId itself without one.                  *)
IndexIsOffset ==
    \A tx \in {t \in submitted : /\ t.operation \in {"mint", "transfer", "burn"}
                                /\ t.method # NoMethod} :
        LET pool == UnpackPoolLocator(tx.locator)
        IN tx.id = pool.startId + (IF pool.isFungible \/ tx.dto.tokenIndex = NoIndex
                                   THEN 0 ELSE tx.dto.tokenIndex)

(* Different transfers have different ids, and so have different           *)
(* approvals, also the one approval that every pool hears of.              *)
IdsUnique ==
    \A m, n \in {t \in told : t.event # "token-pool"} : m.id = n.id => m = n

(* An active pool knows every approval of the contract, those older than   *)
(* the pool included, and the last one decides (tokens.service.ts:318).    *)
ApprovalsAgree ==
    \A locator \in Active : CaughtUp({ApprovalSub(locator)}) =>
        \A account, operator \in Accounts :
            LET Given == {m \in told : /\ m.event = "token-approval" /\ m.locator = locator
                                      /\ m.from = account /\ m.to = operator}
                Later(m, n) == m.id[1] > n.id[1]
            IN Approved(account, operator)
                 <=> \E m \in Given : m.approved /\ \A n \in Given \ {m} : Later(m, n)

(* An activated pool is confirmed with its range: by the event of its own  *)
(* creation however late it was activated, by that of no other pool, and   *)
(* by the answer, alone, if the contract knows of no creation.  A pool made *)
(* of a range that the contract announces is confirmed by both.            *)
PoolConfirmed ==
    \A locator \in Active : CaughtUp({PoolSub(locator)}) =>
        LET pool      == UnpackPoolLocator(locator)
            Confirmed == {m \in told : m.event = "token-pool" /\ m.locator = locator}
            Creations == {i \in DOMAIN chain : /\ chain[i].signature = "TokenPoolCreation"
                                               /\ Announced(chain[i]) = pool}
        IN /\ Confirmed # {}
           /\ \A m \in Confirmed : m.info = pool
           /\ {m.id : m \in Confirmed} \ {<<>>} = {EventId(chain[i]) : i \in Creations}

(* On FireFly's own contracts a call that names a method names one that is *)
(* there, whatever became of the query for the interface; elsewhere it may *)
(* be one of the older sample's, if the request had no interface           *)
(* (README.md, "Fallback Functionality").                                  *)
CallsExist ==
    \A tx \in {t \in submitted : t.method # NoMethod} :
        tx.method \in Implemented \/ (kind = "oz" /\ tx.method \in OldSample)
=============================================================================
