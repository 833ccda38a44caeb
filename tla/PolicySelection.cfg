\* A window of three and a threshold of two let the counts differ by more than
\* the threshold and a switch be undone; the counters wrap.
CONSTANTS
  Window = 3
  ULongSize = 4
  POLICIES = 2
  Threshold = 2
  Approaches = {"FIXED_WINDOW", "SLIDING_WINDOW", "ONLINE"}
SPECIFICATION Spec
INVARIANTS
  NeverMuchWorse
  FixedCountsWindow
  
PROPERTIES
  SwitchesAreSpaced
  UsesTheBest
