CONSTANTS
  Assoc = 3
  Free = 0
  Throttle = 50
  Tag = {1, 2, 3, 4}
  Policies = {"LRU", "LIP", "FIFO", "BIP", "RANDOM"}
SPECIFICATION SetSpec
INVARIANTS
  LruHoldsMostRecent
  FifoHoldsLastInstalled
  BipMayInsertAtHead
PROPERTIES
  ReferenceKeepsOthers
