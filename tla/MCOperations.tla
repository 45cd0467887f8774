---------------------------- MODULE MCOperations ----------------------------
(***************************************************************************)
(* Operations on a processor with three-bit registers: the low two bits are *)
(* the byte, and as a float the value 0 is the NaN.                         *)
(***************************************************************************)
EXTENDS Operations

MCValues == 0..7

Signed(v) == IF v >= 4 THEN v - 8 ELSE v

Abs(n) == IF n < 0 THEN -n ELSE n

Dividend(hi, lo) == 8 * Signed(hi) + lo

\* Rounded towards zero.
Quotient(n, d) ==
  IF (n < 0) # (d < 0) THEN -(Abs(n) \div Abs(d)) ELSE Abs(n) \div Abs(d)

MCAlu(f, x, y) ==
  CASE f = "add" -> (x + y) % 8
    [] f = "sub" -> (x - y) % 8
    [] f = "xor" -> IF x = y THEN 0 ELSE (x + y) % 8
    [] f = "shl" -> (x * 2^(y % 4)) % 8

MCUn(f, x) ==
  CASE f = "neg" -> (8 - x) % 8
    [] f = "zext" -> x % 4
    [] f = "xor1" -> IF x % 2 = 0 THEN x + 1 ELSE x - 1
    [] f = "and1" -> 4 * (x \div 4) + (x % 2)
    [] OTHER -> x

MCSetLow(v, b) == 4 * (v \div 4) + b

MCSign(v) == IF Signed(v) < 0 THEN 7 ELSE 0

MCDivTraps(hi, lo, d) ==
  d = 0 \/ Quotient(Dividend(hi, lo), Signed(d)) \notin -4..3

MCQuot(hi, lo, d) == Quotient(Dividend(hi, lo), Signed(d)) % 8

MCRem(hi, lo, d) ==
  (Dividend(hi, lo) - Signed(d) * Quotient(Dividend(hi, lo), Signed(d))) % 8

MCSLess(x, y) == Signed(x) < Signed(y)
MCULess(x, y) == x < y

MCFRel(x, y) ==
  IF x = 0 \/ y = 0 THEN "un" ELSE IF x < y THEN "lt" ELSE IF x = y THEN "eq" ELSE "gt"

MCGP == {"RAX", "RCX", "RDX", "R11", "RBX", "RSI", "RDI"}
MCXMM == {"XMM0", "XMM1", "XMM2"}

\* Contents with negative, equal, zero and NaN operands in turn.
File(a, c, d, s, b, si, di, x0, x1, x2) ==
  [r \in MCGP \cup MCXMM |->
     CASE r = "RAX" -> a [] r = "RCX" -> c [] r = "RDX" -> d [] r = "R11" -> s
       [] r = "RBX" -> b [] r = "RSI" -> si [] r = "RDI" -> di
       [] r = "XMM0" -> x0 [] r = "XMM1" -> x1 [] r = "XMM2" -> x2]

MCInitRegs ==
  { File(6, 1, 5, 3, 7, 2, 1, 0, 5, 3),
    File(3, 2, 7, 0, 4, 3, 7, 4, 4, 6),
    File(1, 6, 2, 5, 0, 1, 4, 7, 2, 2) }
=============================================================================
