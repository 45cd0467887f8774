SPECIFICATION Spec
CONSTANTS
  PageSize = 8
  Requests = {3, 9}
  Extra = {3, 8}
  ThisSpace = "NewSpace"
  PageIds = {p1, p2, p3, p4}
SYMMETRY PageSymmetry
INVARIANTS
  TypeOK
  SmallBlocksInBounds
  OverlapsWhereRestarted
  CellOwned
  BlocksVisible
  GrowsOnlyByEmbedder
  UnmapExact
CHECK_DEADLOCK FALSE
