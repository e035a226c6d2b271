CONSTANTS
  app = app
  t1 = t1
  t2 = t2
  App = app
  Timer <- TwoTimers
  Transports <- ThreeKinds
  Limit = 2
  MaxDials = 2
  MaxLate = 1
SPECIFICATION Spec
CHECK_DEADLOCK FALSE
INVARIANT
  PanicNeedsNil
PROPERTIES
  Settles
  FirstLossNoticed
