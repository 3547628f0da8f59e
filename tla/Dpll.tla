--------------------------------- MODULE Dpll ---------------------------------
(***************************************************************************)
(* The solver of lean/src/sat/dpll.lean, on the default clauses and        *)
(* formulas, which are tries.  A clause maps variables to signs; a formula *)
(* is a list of clauses here.  TRUE stands for none, the verdict that it   *)
(* is unsatisfiable, FALSE for some (), the verdict that nothing is known. *)
(***************************************************************************)
EXTENDS Trie, FiniteSetsExt, SequencesExt

\* An option: the literal of the first clause that has one literal.
find_unit_clause(f) ==
  LET units == {i \in DOMAIN f : unsingleton(f[i]) # {}}
  IN  IF units = {} THEN {} ELSE unsingleton(f[Min(units)])

\* The clauses without l, and without the negation of l in them.
bcp_on(l, f) ==
  LET rest == SelectSeq(f, LAMBDA c : lookup(l[1], c) # {l[2]})
  IN  [i \in DOMAIN rest |-> erase2(rest[i], l[1], ~l[2])]

RECURSIVE bcp(_, _)
bcp(n, f) ==
  LET unit == find_unit_clause(f)
  IN  IF n = 0 \/ unit = {} THEN f
      ELSE bcp(n - 1, bcp_on(CHOOSE l \in unit : TRUE, f))

choose_literal(f) == Head(to_list(f[1]))

\* With fuel n, n - 1 rounds of propagation, and calls with fuel n - 1.
RECURSIVE dpll_core(_, _)
dpll_core(n, f) ==
  /\ n > 0
  /\ LET rest == bcp(n - 1, f)
     IN  /\ rest # << >>
         /\ \/ \E i \in DOMAIN rest : null(rest[i])
            \/ LET l == choose_literal(rest)
               IN  /\ dpll_core(n - 1, bcp_on(l, rest))
                   /\ dpll_core(n - 1, bcp_on(<<l[1], ~l[2]>>, rest))

fault_fuel(cs) ==                      \* enough for the longest clause only
  FoldLeft(LAMBDA n, c : IF card(c) > n THEN card(c) ELSE n, 0, cs)

\* As much fuel as there are literals in all clauses.
fuel(cs) == FoldLeft(LAMBDA n, c : n + card(c), 0, cs)

\* sat.dpll: TRUE if the solver refutes the formula.
dpll_refutes(f) == LET cs == elems(f) IN dpll_core(fuel(cs), cs)
=============================================================================
