SPECIFICATION Spec
CONSTANTS
  MinOldGen = 2
  MaxSlots = 3
  MaxObjects = 5
  MaxWrites = 1
INVARIANTS
  ReadsAsWritten
  SurvivorsOverrun
  CopyStaysInside
  TextKept
CHECK_DEADLOCK FALSE
