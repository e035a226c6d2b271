CONSTANTS
  j1 = j1
  j2 = j2
  t1 = t1
  t2 = t2
  Nobody = Nobody
  Pusher <- Pushers
  Jumper <- Jumpers
  PatientPusher <- Patients
  Capacity = 2
  JumpCapacity = 1
SPECIFICATION QueueSpec
CHECK_DEADLOCK FALSE
INVARIANTS
  InOrder
  JumpPriority
PROPERTY
  AcceptedRun
