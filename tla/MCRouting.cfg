CONSTANTS
  b1 = b1
  b2 = b2
  u1 = u1
  c1 = c1
  c2 = c2
  tcp = tcp
  k1 = k1
  k2 = k2
  news = news
  NoNet = NoNet
  Absent = Absent
  NoConn = NoConn
  User <- Users
  Client <- Clients
  Self = b2
  Entry <- LogEntries
  Broker <- Brokers
  Net <- Nets
  Channel <- Channels
  Conn <- Conns
  Login <- Logins
  MaxAttempts = 2
  MaxApplied = 2
SPECIFICATION Spec
SYMMETRY Symmetry
CHECK_DEADLOCK FALSE
INVARIANTS
  CountedIsDelivered
  SteadyServed
  OncePerAttempt
