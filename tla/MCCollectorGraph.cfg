SPECIFICATION Spec
CONSTANTS
  MinOldGen = 2
  Objects = 2
  MaxCells = 6
  Tags = {"Context", "Array"}
  StackSize = 1
  Handles = {}
  WeakRefs = {}
  MaxCollections = 1
  MaxLost = 2
INVARIANTS
  TypeOK
  NoPanic
  GraphPreserved
PROPERTIES
  RedirectedToFreshCopy
CHECK_DEADLOCK FALSE
