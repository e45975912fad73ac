SPECIFICATION Spec
CONSTANTS
  t1 = t1
  t2 = t2
  Task <- Tasks
  MaxMsg = 3
  MaxFrags = 3
  Faults <- AllFaults
SYMMETRY Symmetry
INVARIANTS
  TypeOK
  MessagesIntact
  LossAccounted
PROPERTIES
  ImplementsMessageLink
CHECK_DEADLOCK FALSE
