\* The approaches that run the policies side by side, beside a fixed policy and
\* ADAPTATIVE, with fetches and data within a line and across two. BIP with
\* throttle 0 beats LRU on three blocks in two ways, so that switches happen,
\* and two windows can be closed.
CONSTANTS
  Assoc = 2
  Free = 0
  Throttle = 0
  SetsL1 = 1
  SetsLL = 2
  Window = 4
  ULongSize = 100
  Threshold = 1
  miss_functions <- MCLruBip
  Approaches = {"FIXED_WINDOW", "SLIDING_WINDOW", "ONLINE", "FIFO", "ADAPTATIVE"}
  InstrRefs <- MCInstrStraddling
  DataRefs <- MCDataStraddling
  Requests = {}
  MaxRefs = 9
SPECIFICATION Spec
INVARIANTS
  MissesCountOnce
  ResultIsFirstUntilSwitch
  WindowStartsEqual
  ClosedWindowsAreCharged

  
CHECK_DEADLOCK FALSE
