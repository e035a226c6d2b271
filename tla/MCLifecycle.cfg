CONSTANTS
  k1 = k1
  k2 = k2
  c1 = c1
  o1 = o1
  o2 = o2
  None = None
  Conn <- Conns
  Cid <- Cids
  Op <- Ops
  MaxServers = 2
SPECIFICATION Spec
SYMMETRY Symmetry
CHECK_DEADLOCK FALSE
INVARIANTS
  CountExact
  FlagTrue
  ExpelledAll
  GoodbyesSaid
