------------------------------- MODULE MCPools -------------------------------
(* Small instances of PoolSubscriptions.                                   *)
EXTENDS PoolSubscriptions, TLC

CONSTANTS r1, r2, r3, n1, p1, p2, eCreate, eTransfer

Symmetric == Permutations(Requests)
=============================================================================
