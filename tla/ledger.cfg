CONSTANTS
  a = a  b = b
  Zero = Zero  NoIndex = NoIndex  Base = Base
  Accounts = {a, b}
  IndexSize = 8
  TypeBit = 64
  Kinds = {"V2", "Old", "oz"}
  Existing <- OwnPools
  MaxBlocks <- Blocks
SPECIFICATION Spec
SYMMETRY Symmetric
INVARIANTS TypeOK LedgerAgrees BalanceAnswered IndexIsOffset IdsUnique ApprovalsAgree PoolConfirmed CallsExist
CHECK_DEADLOCK FALSE
