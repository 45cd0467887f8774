---------------------------- MODULE MCCodeBuffer ----------------------------
(***************************************************************************)
(* CodeBuffer with the instances TLC checks.                                *)
(***************************************************************************)
EXTENDS CodeBuffer
=============================================================================
