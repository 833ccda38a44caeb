\* A client that chooses the policy.
CONSTANTS
  Assoc = 2
  Free = 0
  Throttle = 50
  SetsL1 = 1
  SetsLL = 2
  Window = 2
  ULongSize = 100
  Threshold = 1
  miss_functions <- MCFour
  Approaches = {"ADAPTATIVE"}
  InstrRefs <- MCInstr
  DataRefs <- MCData
  Requests = {"LIP"}
  MaxRefs = 4
SPECIFICATION Spec
PROPERTY
  AdaptativeUsesAsked
CHECK_DEADLOCK FALSE
