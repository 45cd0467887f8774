SPECIFICATION Spec
CONSTANTS
  InstrLens = {1}
  MaxPos = 9
  MaxLabels = 1
  MaxData = 32
INVARIANTS
  MasksAligned
CHECK_DEADLOCK FALSE
