CONSTANTS
  c1 = c1  c2 = c2  c3 = c3  n1 = n1  n2 = n2  x = x  y = y
  None = None
  Clients = {c1}
  Namespaces = {n1}
  Subs = {x}
  SubsOf <- SubsOfEach
  MaxBatch = 1
  MaxDrops = 1
  Hazards = {"leaveBackoff"}
SPECIFICATION Spec
INVARIANTS LastClientCloses
CHECK_DEADLOCK FALSE
