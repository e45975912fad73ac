SPECIFICATION Spec
CONSTANTS
  today = today
  later = later
  enroll = enroll
  Path <- Paths
  EnrollPath = enroll
  MaxPage = 2
  MaxKey = 2
  Habits <- Mishaps
SYMMETRY Symmetry
INVARIANTS
  TypeOK
  KeysSuffice
  FileInv
  PagesKept
PROPERTIES
  SuccessMeansSaved
CHECK_DEADLOCK FALSE
