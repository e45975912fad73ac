SPECIFICATION Spec
CONSTANTS
  c1 = c1
  c2 = c2
  Caller <- Callers
  device_info = device_info
  device_status = device_status
  Oneof <- Oneofs
  MaxRid = 3
  Faults <- AllFaults
SYMMETRY Symmetry
INVARIANTS
  TypeOK
  SessionInv
  WaitingIsRegistered
  EchoReachesCaller
  AnswersNotShared
PROPERTIES
  SlotKept
CHECK_DEADLOCK FALSE
