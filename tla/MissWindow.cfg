CONSTANTS
  Window = 5
  ULongSize = 8
SPECIFICATION WindowSpec
INVARIANTS
  ArrayIsRecent
  ReturnsMissesInArray
  OnlineTracksWindow
CHECK_DEADLOCK TRUE
