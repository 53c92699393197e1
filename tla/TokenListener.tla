---------------------------- MODULE TokenListener ----------------------------
(***************************************************************************)
(* What TokenListener (src/tokens/tokens.listener.ts) makes of one event   *)
(* of the contract for one subscription: a set of messages, empty when     *)
(* process() is called with undefined.  Signer, data, uri and the          *)
(* description of the blockchain event are left out; the uri is '' when    *)
(* its query fails, so a message sent again may differ there only.         *)
(*                                                                         *)
(* An event is a record with its place in the chain (block, log), its      *)
(* signature and its parameters; a creation in the older signatures has a  *)
(* typeId, in the newer one isFungible, startId and endId.                 *)
(***************************************************************************)
EXTENDS TokenIds, Sequences

CONSTANTS Zero,      \* the zero address
          NoIndex,   \* an absent tokenIndex
          Base       \* the locator of a 'base' subscription

(* formatBlockchainEventId                                                 *)
EventId(event) == <<event.block, event.log>>

IsOlder(event) == "typeId" \in DOMAIN event

Announced(event) ==
    IF IsOlder(event) THEN UnpackTypeId(event.typeId)
    ELSE [isFungible |-> event.isFungible, startId |-> event.startId, endId |-> event.endId]

(* Mutant: a subscription takes every creation for its own pool's. *)
CreatesAny(event, pool) == TRUE

(* A subscription of a pool hears of every creation; is it this pool's?    *)
CreatesPool(event, pool) ==
    IF IsOlder(event) THEN pool.startId = event.typeId
    ELSE pool.startId = event.startId /\ pool.endId = event.endId

PoolMessage(event, locator, poolLocator, alternates) ==
    [event |-> "token-pool", id |-> EventId(event), locator |-> locator,
     poolLocator |-> poolLocator, alternateLocators |-> alternates,
     info |-> UnpackPoolLocator(poolLocator)]

TransformTokenPoolCreationEvent(locator, event) ==
    IF locator = Base
    THEN {PoolMessage(event, locator, PackPoolLocator(Announced(event), event.block),
            {PackOldPoolLocator(UnpackOldTypeId(t), event.block) :
               t \in {event[f] : f \in {"typeId"} \cap DOMAIN event}})}
    ELSE {PoolMessage(event, locator, locator, {}) :
            e \in {x \in {event} : CreatesPool(x, UnpackPoolLocator(locator))}}

TransferName(move) == IF move.from = Zero THEN "token-mint"
                      ELSE IF move.to = Zero THEN "token-burn" ELSE "token-transfer"

(* One movement of a token; the id of a movement in a batch has its place. *)
TransferMessage(locator, move, id) ==
    LET pool == UnpackPoolLocator(locator)
    IN [event |-> TransferName(move), id |-> id, locator |-> locator,
        tokenIndex |-> IF pool.isFungible THEN NoIndex ELSE ComputeTokenIndex(pool, move.id),
        from |-> move.from, to |-> move.to, amount |-> move.value]

OfPool(locator, move) == /\ PoolContainsId(UnpackPoolLocator(locator), move.id)
                         /\ ~(move.from = Zero /\ move.to = Zero)

TransformTransferSingleEvent(locator, event) ==
    {TransferMessage(locator, event, EventId(event)) : e \in {x \in {event} : OfPool(locator, x)}}

BatchMove(event, i) ==
    [from |-> event.from, to |-> event.to, id |-> event.ids[i], value |-> event.values[i]]

BatchId(event, i) == EventId(event) \o <<i>>

TransformTransferBatchEvent(locator, event) ==
    {TransferMessage(locator, BatchMove(event, i), BatchId(event, i)) :
       i \in {j \in DOMAIN event.ids : OfPool(locator, BatchMove(event, j))}}

(* Mutant: an approval has the id of its event. *)
ApprovalIdPlain(event, pool) == EventId(event)

(* One approval concerns every pool of the contract: the id of the message *)
(* has the pool's startId.                                                 *)
ApprovalId(event, pool) == EventId(event) \o <<pool.startId>>

TransformApprovalForAllEvent(locator, event) ==
    {[event |-> "token-approval", id |-> ApprovalId(event, UnpackPoolLocator(locator)),
      locator |-> locator, from |-> event.account, to |-> event.operator,
      approved |-> event.approved]}

OnEvent(locator, event) ==
    CASE event.signature = "TokenPoolCreation" -> TransformTokenPoolCreationEvent(locator, event)
      [] event.signature = "TransferSingle" -> TransformTransferSingleEvent(locator, event)
      [] event.signature = "TransferBatch" -> TransformTransferBatchEvent(locator, event)
      [] event.signature = "ApprovalForAll" -> TransformApprovalForAllEvent(locator, event)
      [] OTHER -> {}
=============================================================================
