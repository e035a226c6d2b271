CONSTANTS
  MaxStarts = 2
  MaxWire = 2
  MaxHeard = 1
SPECIFICATION HeartbeatSpec
CHECK_DEADLOCK FALSE
INVARIANTS
  
  PanicNeedsRestart
PROPERTIES
  PingReturns
  SilenceNoticed
