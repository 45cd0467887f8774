------------------------------- MODULE MCMasm -------------------------------
(***************************************************************************)
(* The entry stub with more arguments than it saves registers, and every    *)
(* register as the result of the parts of Masm.                             *)
(***************************************************************************)
EXTENDS Masm
=============================================================================
