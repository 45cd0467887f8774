SPECIFICATION Spec
CONSTANTS
  Nil = Nil
  Foreign = Foreign
  Names = {k1, k2}
  Indices <- MCIndices
  Values = {v1, v2}
  Sizes = {1, 2}
  DenseMax = 9
  BitAnd <- MCBitAnd
  Hash <- MCHash
  MaxSize = 16
  MaxForeign = 2
  MaxCalls = 4
INVARIANTS
  TypeOK
  ElementsKept
  OnlyForeignElements
  HashNeverFills
CHECK_DEADLOCK FALSE
