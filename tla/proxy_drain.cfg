CONSTANTS
  c1 = c1  c2 = c2  c3 = c3  n1 = n1  n2 = n2  x = x  y = y
  None = None
  Clients = {c1, c2, c3}
  Namespaces = {n1}
  Subs = {x}
  SubsOf <- SubsOfEach
  MaxBatch = 2
  MaxDrops = 1
  Hazards = {"crash", "mute"}
SPECIFICATION FairSpec
INVARIANTS NoStrandedBatch LastClientCloses
PROPERTIES DisconnectNacks DeliversBatches StreamDrains
CHECK_DEADLOCK FALSE
