CONSTANTS
  r1 = r1  r2 = r2
  Calls = {r1}
  Configs <- Unbounded
SPECIFICATION Spec
INVARIANTS RetriesIndefinitely
CHECK_DEADLOCK FALSE
