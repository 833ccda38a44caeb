\* Four sets in D1, of which one follows the leaders, windows of two
\* references and selectors of two bits: all of them are filled and move.
CONSTANTS
  Assoc = 2
  Free = 0
  Throttle = 0
  SetsL1 = 4
  SetsLL = 2
  Window = 2
  ULongSize = 100
  Threshold = 1
  PselMax = 3
  miss_functions <- MCFour
  Approaches = {"LRU", "LIP", "FIFO", "BIP", "RANDOM", "ADAPTATIVE", "NAIVE",
                "DIP", "DIP3", "DIP3_AGEING", "CACHE_DUELING"}
  InstrRefs <- MCInstr
  DataRefs <- MCData
  Requests = {"BIP"}
  MaxRefs = 5
SPECIFICATION DuelSpec
INVARIANTS
  CachesSane
  MonitorPredictsResult
  
  
CHECK_DEADLOCK FALSE
