-------------------------------- MODULE AigCnf --------------------------------
(***************************************************************************)
(* The formulas that to_cnf makes of the refs a caller holds.              *)
(***************************************************************************)
EXTENDS AigFactory, ToCnf

\* The assignments of the identifiers in use; no clause has another.
Assignments == [DOMAIN g.nodes -> BOOLEAN]

satisfiable(f) == \E p \in Assignments : C!sat_formula(p, f)

(***************************************************************************)
(* Every ref has a formula, and it is satisfiable if and only if the ref   *)
(* holds in some interpretation.  That a ref which holds has a satisfiable *)
(* formula is proved in the source (unsatisfiability is sound); the        *)
(* converse, without which a solver could not refute a false ref, needs    *)
(* the clauses of a node to be an equivalence, no clause to lose a literal *)
(* to of_list, and no input to be two variables, and is stated nowhere.    *)
(***************************************************************************)
Equisatisfiable ==
  \A x \in held :
    /\ to_cnf(g.nodes, x[1]) # {}
    /\ \A f \in to_cnf(g.nodes, x[1]) : satisfiable(f) <=> x[2] # {}
=============================================================================
