\* Fairness: the client goes on making data references.
CONSTANTS
  Window = 2
  ULongSize = 3
  POLICIES = 2
  Threshold = 1
  Approaches = {"SLIDING_WINDOW", "ONLINE"}
SPECIFICATION FairSpec
PROPERTY
  LeavesLosingPolicy
