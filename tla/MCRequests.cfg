CONSTANTS
  r1 = r1
  r2 = r2
  r3 = r3
  None = None
  Caller <- ThreeCallers
  GivenID <- FirstNumbered
  PatientCaller = {r1}
  MaxUint16 = 3
SPECIFICATION RequestsSpec
CHECK_DEADLOCK FALSE
INVARIANTS
  TasksLive
  OwnResponse
PROPERTY
  AnsweredReturns
