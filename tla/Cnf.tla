--------------------------------- MODULE Cnf ---------------------------------
(***************************************************************************)
(* Formulas in conjunctive normal form, lean/src/sat/cnf.lean: a literal   *)
(* is a variable and its sign (TRUE for a negated variable), a clause a    *)
(* map from variables to signs, a formula a map from identifiers to        *)
(* clauses.                                                                *)
(***************************************************************************)
EXTENDS UnorderedMap, Naturals, Sequences

CONSTANTS Var,                  \* the variables of a formula
          Key                   \* the identifiers of clauses

Literal == Var \X BOOLEAN

Clause == {c \in SUBSET Literal : nodupkeys(c)}

Formula == {f \in SUBSET (Key \X Clause) : nodupkeys(f)}

fault_neg(l) == l                      \* keeps the sign

neg(l) == <<l[1], ~l[2]>>

\* Of the literals of one variable, the last in the list is kept.
clause_of_list(ls) ==
  {ls[i] : i \in {j \in DOMAIN ls :
                    \A k \in DOMAIN ls : k > j => ls[k][1] # ls[j][1]}}

\* Clauses are numbered from the end of the list.
formula_of_list(cs) == {<<Len(cs) + 1 - i, cs[i]>> : i \in DOMAIN cs}

-----------------------------------------------------------------------------
(* Satisfaction by an assignment p of the variables.                       *)

Assignment == [Var -> BOOLEAN]

sat_literal(p, l) == p[l[1]] # l[2]

sat_clause(p, c) == \E l \in c : sat_literal(p, l)

sat_formula(p, f) == \A s \in f : sat_clause(p, s[2])

unsatisfiable(f) == \A p \in Assignment : ~sat_formula(p, f)
=============================================================================
