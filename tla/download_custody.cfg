SPECIFICATION Spec
CONSTANTS
  MaxPage = 3
  InboxCap = 2
  Faults <- Chatter
INVARIANTS
  TypeOK
  NoPageLost
  CustodyInv
PROPERTIES
  ImplementsDurableCustody

