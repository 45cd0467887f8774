-------------------------- MODULE MCPropertyTable --------------------------
(***************************************************************************)
(* PropertyTable with the instance TLC checks.  Index 3 makes a map of one  *)
(* slot grow to nine, which is no power of two and still dense.             *)
(***************************************************************************)
EXTENDS PropertyTable, Bitwise

MCIndices == {-1, 0, 1, 2, 3}
Conjunctions == [x \in 0..64, m \in 0..16 |-> x & m]
MCBitAnd(x, m) == Conjunctions[x, m]
MCHash(i) == (5 * i + 3) % 64
=============================================================================
