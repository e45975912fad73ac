SPECIFICATION Spec
CONSTANTS
  MaxPage = 2
  InboxCap = 2
  Faults <- LossyLink
INVARIANTS
  TakenBeforeFreed
