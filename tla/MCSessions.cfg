CONSTANTS
  b1 = b1
  b2 = b2
  u1 = u1
  c1 = c1
  tcp = tcp
  ws = ws
  k1 = k1
  k2 = k2
  k3 = k3
  NoNet = NoNet
  NoConn = NoConn
  Channel = {}
  User <- Users
  Client <- Clients
  Identities <- Logins
  Broker <- TwoBrokers
  Net <- TwoNets
  Conn <- ThreeConns
  MaxLost = 1
SPECIFICATION Spec
SYMMETRY Symmetry
CHECK_DEADLOCK FALSE
INVARIANTS
  NoStaleRoute
  ClosedLeavesMap
  
  SoleLoginOnline
