-------------------------------- MODULE ToCnf --------------------------------
(***************************************************************************)
(* From a circuit to a formula: lean/src/aig/to_cnf.lean.  The identifiers *)
(* of nodes are the variables of the formula, edges its literals.          *)
(***************************************************************************)
EXTENDS Aig, SequencesExt

C == INSTANCE Cnf WITH Var <- Id, Key <- Id

fault_to_subformula(i, n) ==           \* one direction of the equivalence
  IF ~IsAnd(n) THEN << >>
  ELSE <<C!clause_of_list(<< <<i, TRUE>>, n.l >>),
         C!clause_of_list(<< <<i, TRUE>>, n.r >>)>>

\* Node i is true if and only if its children are.
to_subformula(i, n) ==
  IF ~IsAnd(n) THEN << >>
  ELSE <<C!clause_of_list(<< <<i, TRUE>>, n.l >>),
         C!clause_of_list(<< <<i, TRUE>>, n.r >>),
         C!clause_of_list(<< <<i, FALSE>>, neg(n.l), neg(n.r) >>)>>

\* The clauses of all nodes, used by the ref or not.
list_to_subformulas(N) ==
  FlattenSeq([i \in DOMAIN N |-> to_subformula(i, N[i])])

\* An option: no formula if some node is not valid.
to_cnf(N, r) ==
  CASE r = top -> {{}}
    [] r = bot -> {C!formula_of_list(<< {} >>)}
    [] r \notin {top, bot} /\ \A i \in DOMAIN N : valid(i, N[i]) ->
         {C!formula_of_list(<<C!clause_of_list(<<r>>)>> \o list_to_subformulas(N))}
    [] OTHER -> {}
=============================================================================
