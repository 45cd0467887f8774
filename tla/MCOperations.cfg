SPECIFICATION Spec
CONSTANTS
  GP <- MCGP
  XMM <- MCXMM
  RAX = "RAX"
  RCX = "RCX"
  RDX = "RDX"
  R11 = "R11"
  Values <- MCValues
  InitRegs <- MCInitRegs
  BigImm = 6
  Alu <- MCAlu
  Un <- MCUn
  SetLow <- MCSetLow
  Sign <- MCSign
  DivTraps <- MCDivTraps
  Quot <- MCQuot
  Rem <- MCRem
  SLess <- MCSLess
  ULess <- MCULess
  FRel <- MCFRel
INVARIANTS
  TypeOK
  ResultRight
  KeepsOthers
CHECK_DEADLOCK FALSE
