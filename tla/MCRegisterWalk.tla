--------------------------- MODULE MCRegisterWalk ---------------------------
(***************************************************************************)
(* Instance of RegisterWalk for TLC: registers play no part in it.         *)
(***************************************************************************)
EXTENDS RegisterWalk

mcReg == {"R0"}
=============================================================================
