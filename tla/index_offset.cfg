CONSTANTS
  a = a  b = b
  Zero = Zero  NoIndex = NoIndex  Base = Base
  Accounts = {a, b}
  IndexSize = 8
  TypeBit = 64
  Kinds = {"oz"}
  Existing <- OddPools
  MaxBlocks <- Blocks
SPECIFICATION Spec
INVARIANTS IndexIsOffset
CHECK_DEADLOCK FALSE
