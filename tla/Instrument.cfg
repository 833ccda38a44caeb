\* A queue of four, so that calls of one, two and three events follow each other.
CONSTANTS
  N_EVENTS = 4
  Loc = {x, y}
  NoLoc = NoLoc
SPECIFICATION Spec
INVARIANTS
  TypeOK
  NothingLostOrReordered
  NothingOwedAtExits
