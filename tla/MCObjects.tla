------------------------------ MODULE MCObjects ------------------------------
(***************************************************************************)
(* Objects with the instance TLC checks: contexts with fewer and with more  *)
(* than two slots, and objects that are copied into the old space.          *)
(***************************************************************************)
EXTENDS Objects
=============================================================================
