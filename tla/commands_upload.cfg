SPECIFICATION Spec
CONSTANTS
  today = today
  later = later
  enroll = enroll
  Path <- Paths
  EnrollPath = enroll
  MaxPage = 2
  MaxKey = 2
  Habits = {}
SYMMETRY Symmetry
PROPERTY UploadHappens
CHECK_DEADLOCK FALSE
