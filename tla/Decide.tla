-------------------------------- MODULE Decide --------------------------------
(***************************************************************************)
(* Deciding that a ref of a graph is false (lean/src/aig): trivially for a *)
(* constant, and otherwise by refuting its formula.  To decide that it is  *)
(* true its negation is asked.  The source has the formula refuted by an   *)
(* external solver and rup_check check its proof; here the solver of the   *)
(* repository itself takes the place of both.                              *)
(***************************************************************************)
EXTENDS ToCnf

D == INSTANCE Dpll

\* The tries of a formula of sets, and of its clauses.
default_formula(f) == D!of_map({<<s[1], D!of_map(s[2])>> : s \in f})

fault_dimacs(t) == D!elems(t)          \* as the trie lists them

\* What the solver is given: the clauses of the trie t by their numbers.
dimacs(t) ==
  LET ls == SortSeq(D!to_list(t), LAMBDA s, u : s[1] < u[1])
  IN  [i \in DOMAIN ls |-> ls[i][2]]

Decides(N, r) ==
  r = bot \/ \E f \in to_cnf(N, r) : D!dpll_refutes(default_formula(f))
=============================================================================
