CONSTANTS
  b1 = b1
  b2 = b2
  u1 = u1
  c1 = c1
  tcp = tcp
  news = news
  NoNet = NoNet
  Broker <- Brokers
  User <- Users
  Client <- Clients
  Net <- Nets
  Channel <- Channels
  Proposals <- Proposed
  SnapshotGap = 1
  MaxLog = 3
SPECIFICATION Spec
INVARIANTS
  DeterminedByPrefix
  NoCompactionGap
  VotersAgree
