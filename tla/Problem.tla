------------------------------ MODULE Problem ------------------------------
(***************************************************************************)
(* What a checker of proofs is given besides the proof: the formula that   *)
(* is to be refuted (the parameter f of refute, lean/src/sat/proof.lean).  *)
(***************************************************************************)
EXTENDS Cnf

CONSTANT Input                  \* the formulas to refute

ASSUME InputAssumption == Input \subseteq Formula

VARIABLE formula                \* the formula to refute, never changed
=============================================================================
