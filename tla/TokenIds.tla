------------------------------ MODULE TokenIds ------------------------------
(***************************************************************************)
(* Token ids and pool locators (src/tokens/tokens.util.ts).  An id is a    *)
(* uint256: bit 255 says non-fungible, the low 128 bits are the index of a *)
(* token in its pool.  IndexSize stands for 2^128 and TypeBit for 2^255.   *)
(* Decimal and hexadecimal spellings of one number are one number here,    *)
(* as BigInt() makes them.                                                 *)
(***************************************************************************)
EXTENDS Integers

CONSTANTS IndexSize, TypeBit

PowerOfTwo(n) == /\ n \in Nat \ {0}
                 /\ \A d, q \in 1 .. n : d * q = n => d = 1 \/ d % 2 = 0

ASSUME WidthsAssumption == /\ PowerOfTwo(IndexSize) /\ IndexSize > 1
                           /\ PowerOfTwo(TypeBit)
                           /\ \E n \in 1 .. TypeBit : TypeBit = IndexSize * n

(* The operator | on BigInts.                                              *)
Or[p \in Nat \X Nat] ==
    IF 0 \in {p[1], p[2]} THEN p[1] + p[2]
    ELSE 2 * Or[<<p[1] \div 2, p[2] \div 2>>]
         + (IF 1 \in {p[1] % 2, p[2] % 2} THEN 1 ELSE 0)

BitOr(x, y) == Or[<<x, y>>]

TokenIdSpace == 0 .. (2 * TypeBit - 1)

(* The ids of one pool, and the pools of the sample contract: fungible     *)
(* pools are a single id, the others are as long as the index allows.      *)
FormatLegacyPool(isFungible, startId) ==
    [isFungible |-> isFungible, startId |-> startId,
     endId |-> startId + (IF isFungible THEN 1 ELSE IndexSize) - 1]

UnpackTypeId(id) == FormatLegacyPool(id < TypeBit, id - (id % IndexSize))

(* The pool ids "F1", "N2", ... of the first releases.                     *)
UnpackOldTypeId(id) ==
    [isFungible |-> id < TypeBit, number |-> (id % TypeBit) \div IndexSize]

ConvertLegacyPoolId(poolId) ==
    FormatLegacyPool(poolId.isFungible,
        BitOr(IF poolId.isFungible THEN 0 ELSE TypeBit, poolId.number * IndexSize))

(* A locator in either of its forms.  Block 0 is an absent block: both     *)
(* start a subscription from the first block.                              *)
PackPoolLocator(range, block) == [form |-> "range", pool |-> range, block |-> block]

PackOldPoolLocator(poolId, block) == [form |-> "id", pool |-> poolId, block |-> block]

UnpackPoolLocator(locator) ==
    IF locator.form = "range" THEN locator.pool ELSE ConvertLegacyPoolId(locator.pool)

(* Mutant: the range is taken to exclude its first id. *)
ContainsIdExclusive(pool, id) == pool.startId < id /\ pool.endId >= id

PoolContainsId(pool, id) == pool.startId <= id /\ pool.endId >= id

(* From an id of the contract to the index FireFly sees, and back.         *)
ComputeTokenIndex(pool, id) == id - pool.startId

ComputeTokenId(pool, tokenIndex) == BitOr(pool.startId, tokenIndex)
=============================================================================
