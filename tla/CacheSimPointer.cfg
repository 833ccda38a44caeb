\* The same with fetches that straddle two lines.
CONSTANTS
  Assoc = 2
  Free = 0
  Throttle = 50
  SetsL1 = 1
  SetsLL = 2
  Window = 3
  ULongSize = 100
  Threshold = 1
  miss_functions <- MCFour
  Approaches = {"SLIDING_WINDOW", "ONLINE"}
  InstrRefs <- MCInstrStraddling
  DataRefs <- MCData
  Requests = {}
  MaxRefs = 6
SPECIFICATION Spec
INVARIANT
  ResultUsesSelected
CHECK_DEADLOCK FALSE
