CONSTANTS
  b1 = b1
  b2 = b2
  u1 = u1
  c1 = c1
  tcp = tcp
  news = news
  k1 = k1
  k2 = k2
  NoNet = NoNet
  Absent = Absent
  Broker <- Brokers
  User <- Users
  Client <- Device
  Net <- Nets
  Channel <- Topics
  Call <- Calls
  UserOf <- Owner
SPECIFICATION Spec
SYMMETRY Symmetry
INVARIANTS
  InSync
PROPERTY
  ImplementsSessionTable
