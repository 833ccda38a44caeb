\* Two sectors of two slots: a third translation recycles a sector, and a
\* deletion leaves a slot and a hash index to be used again.
CONSTANTS
  Code <- MCCode
  Hash <- MCHash
  NSectors = 2
  TTEno = {e1, e2}
  NHttes = 3
  TcSize = 2
  ClassSize = 2
  NClasses = 2
  NUnredir = 1
  Entries <- MCEntries
  Ranges <- MCRanges
  Specs <- MCSpecs
SPECIFICATION Spec
SYMMETRY Symmetry
INVARIANTS
  TypeOK
  JumpsLandOnLive
  EdgesMatch
  SearchIsExact
  
  LiveExtentsAreInUse
  DiscardsCover
  
  FastIsLive
CHECK_DEADLOCK FALSE
