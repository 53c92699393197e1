------------------------------ MODULE MCLedger ------------------------------
EXTENDS TokenLedger
CONSTANTS a, b
OwnPools == {FormatLegacyPool(TRUE, 8), FormatLegacyPool(FALSE, 64)}
OddPools == {[isFungible |-> FALSE, startId |-> 5, endId |-> 6]}
Blocks == [V2 |-> 3, Old |-> 3, oz |-> 3]
Symmetric == Permutations(Accounts)
=============================================================================
