SPECIFICATION Spec
CONSTANTS
  InstrLens = {3}
  MaxPos = 16
  MaxLabels = 2
  MaxData = 32
INVARIANTS
  TypeOK
  JumpsLand
  NothingOverlaps
  LoadsReadTheirConstant
CHECK_DEADLOCK FALSE
