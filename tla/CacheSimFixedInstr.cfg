\* The instruction misses charged at the end of a window.
CONSTANTS
  Assoc = 2
  Free = 0
  Throttle = 0
  SetsL1 = 1
  SetsLL = 2
  Window = 2
  ULongSize = 100
  Threshold = 1
  miss_functions <- MCLruBip
  Approaches = {"FIXED_WINDOW"}
  InstrRefs <- MCInstrStraddling
  DataRefs <- MCDataStraddling
  Requests = {}
  MaxRefs = 7
SPECIFICATION Spec
INVARIANT
  OneMissPerInstrRef
CHECK_DEADLOCK FALSE
