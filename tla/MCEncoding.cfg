SPECIFICATION AllSpec
CONSTANTS
  Regs <- MCRegs
  Scales = {1, 4, 8}
  Imms <- MCImms
  Bytes <- MCBytes
  Thirds = {0, 13}
INVARIANTS
  TypeOK
  StaysInStep
  DecodesAsAsked
  VexDecodesAsAsked
CHECK_DEADLOCK FALSE
