SPECIFICATION RootsSpec
CONSTANTS
  MinOldGen = 2
  Objects = 2
  MaxCells = 5
  Tags = {"Context", "Object", "String"}
  StackSize = 1
  Handles = {1}
  WeakRefs = {1}
  MaxCollections = 2
  MaxLost = 1
INVARIANTS
  GenerationMatchesSpace
  DanglingOnlyPromoted
  WeakRefsLoseTheirObject
  PrototypesDangle
PROPERTIES
  KeepsPromise
CHECK_DEADLOCK FALSE
