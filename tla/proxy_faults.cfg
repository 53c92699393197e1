CONSTANTS
  c1 = c1  c2 = c2  c3 = c3  n1 = n1  n2 = n2  x = x  y = y
  None = None
  Clients = {c1, c2}
  Namespaces = {n1, n2}
  Subs = {x}
  SubsOf <- SubsOfEach
  MaxBatch = 2
  MaxDrops = 0
  Hazards = {"manyNamespaces", "crash", "lookup", "startOverlap", "leaveStarting",
             "ackReorder"}
SPECIFICATION Spec
SYMMETRY Symmetric
INVARIANTS TypeOK AtLeastOnce InOrder SocketPerNamespace AwaitedByMember
CHECK_DEADLOCK FALSE
