-------------------------------- MODULE MCAig --------------------------------
(***************************************************************************)
(* Circuits of two inputs, which are interchangeable, and the decision     *)
(* procedure on every ref the caller holds.                                *)
(***************************************************************************)
EXTENDS AigCnf, Decide, TLC

Sym == Permutations(Input)

(***************************************************************************)
(* to_cnf and the solver together: a ref is refuted if and only if it is   *)
(* false in every interpretation.  That a refuted ref is false is proved   *)
(* in the source; that every false ref is refuted needs to_cnf not to      *)
(* fail, the solver's fuel to suffice and no clause to lose a literal on   *)
(* the way, and is stated nowhere.                                         *)
(***************************************************************************)
DecidesExactly == \A x \in held : Decides(g.nodes, x[1]) <=> x[2] = {}

(***************************************************************************)
(* A solver's proof names a clause by its line in the file that dimacs     *)
(* wrote, and rup_check looks that number up in the formula: they mean the *)
(* same clause.  formula.of_list numbers from the end of its list, the     *)
(* trie lists its keys in an order of its own, and dimacs sorts them.      *)
(***************************************************************************)
LinesAreIdentifiers ==
  \A x \in held : \A f \in to_cnf(g.nodes, x[1]) :
    LET t == default_formula(f)
        lines == dimacs(t)
    IN  /\ Len(lines) = D!card(t)
        /\ \A i \in DOMAIN lines : D!lookup(i, t) = {lines[i]}
=============================================================================
