CONSTANTS
  r1 = r1  r2 = r2  r3 = r3  n1 = n1   p1 = p1  p2 = p2
  eCreate = eCreate  eTransfer = eTransfer
  None = None  Deprecated = Deprecated  Base = Base
  Namespaces = {n1}
  Pools = {p1, p2}
  LegacyPools = {}
  CreateEvents = {eCreate}
  TransferEvents = {eTransfer}
  Requests = {r1, r2, r3}
  MaxFailures = 2
  MaxCrashes = 1
  MaxLosses = 1
  Hazards = {}
SPECIFICATION Spec
SYMMETRY Symmetric
INVARIANTS TypeOK Listening Silent NoDuplicates Answered
PROPERTIES ListensBeforeCreate
CHECK_DEADLOCK FALSE
