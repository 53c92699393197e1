CONSTANTS
  c1 = c1  c2 = c2  c3 = c3  n1 = n1  n2 = n2  x = x  y = y
  None = None
  Clients = {c1}
  Namespaces = {n1, n2}
  Subs = {x}
  SubsOf <- SubsOfEach
  MaxBatch = 2
  MaxDrops = 0
  Hazards = {"manyNamespaces"}
SPECIFICATION Spec
PROPERTIES AcksCompletedBatch
CHECK_DEADLOCK FALSE
