----------------------------- MODULE MCEncoding -----------------------------
(***************************************************************************)
(* Encoding and VexEncoding with the instance TLC checks: one register of   *)
(* each kind the encoders or the processor treat apart, and numbers on both *)
(* sides of each bound.                                                     *)
(***************************************************************************)
EXTENDS VexEncoding

\* A basic register, RSP, RBP, another byte register that needs REX, and their
\* namesakes with the high bit.
MCRegs == {1, RSP, RBP, 6, 8, R12, R13, RAX}
MCImms == {-129, -128, 0, 127, 128}
MCBytes == {1, 127, 128}
=============================================================================
