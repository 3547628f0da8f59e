--------------------------- MODULE MCProofChecker ---------------------------
(***************************************************************************)
(* Three formulas over two variables: a chain of unit clauses, which unit  *)
(* propagation refutes, and two that have models, one of them with a gap   *)
(* in its identifiers.                                                     *)
(***************************************************************************)
EXTENDS ProofChecker

x == <<"x", FALSE>>
y == <<"y", FALSE>>

Formulas == { {<<1, {x}>>, <<2, {neg(x), y}>>, <<3, {neg(y)}>>},
              {<<1, {x, y}>>, <<2, {neg(x), y}>>},
              {<<1, {x, neg(y)}>>, <<3, {neg(x), y}>>} }
=============================================================================
