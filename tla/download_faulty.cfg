SPECIFICATION FairSpec
CONSTANTS
  MaxPage = 3
  InboxCap = 2
  Faults <- Mishaps
INVARIANTS
  TakenBeforeFreed
PROPERTIES
  ImplementsCustody
  RunEnds
