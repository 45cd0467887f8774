SPECIFICATION AgedSpec
CONSTANTS
  MinOldGen = 5
  Objects = 2
  MaxCells = 7
  Tags = {"Context"}
  StackSize = 1
  Handles = {}
  WeakRefs = {}
  MaxCollections = 1
  MaxLost = 1
INVARIANTS
  OldCycleNeverCollected
PROPERTIES
  NewSpaceCollectionEnds
  OldSpaceCollectionEnds
CHECK_DEADLOCK FALSE
