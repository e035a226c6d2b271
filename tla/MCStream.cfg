CONSTANTS
  Base = 4
  Packet <- AllPackets
  MaxPackets = 2
  MaxShort = 1
SPECIFICATION Spec
CHECK_DEADLOCK FALSE
INVARIANTS
  
  FullReadsKeepFrames
PROPERTY
  WrittenIsRead
