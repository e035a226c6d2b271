CONSTANTS
  a1 = a1
  a2 = a2
  Torn = Torn
  None = None
  Addr = {a1, a2}
  MaxChanges = 2
  MaxClients = 3
  MaxFailures = 2
  MaxCalls = 5
SPECIFICATION Spec
CHECK_DEADLOCK FALSE
INVARIANTS
  ConnectedWhereTold
  KnownIfRegistered
  OrphansBounded
  ReadyIsUsable
PROPERTIES
  PeerConnects
