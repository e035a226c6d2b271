CONSTANTS
  b1 = b1
  b2 = b2
  b3 = b3
  listen = listen
  None = None
  Broker = {b1, b2, b3}
  Thread <- OneThread
  ClusterSize = 3
  MaxStale = 2
SPECIFICATION Spec
CHECK_DEADLOCK FALSE
INVARIANTS
  TypeOK
  
  
SYMMETRY Symmetry
