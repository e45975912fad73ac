SPECIFICATION Spec
CONSTANTS
  Mtu <- Mtus
  Command <- Commands
  Index <- Indices
  Message <- Messages
  Size <- Sizes
  Identifier <- Identifiers
  MaxMessages = 2
INVARIANTS
  CommandsCross
  FragmentsFit
  BinReadable
  SalvageIsPrefix
CHECK_DEADLOCK FALSE
