---------------------------- MODULE ProofChecker ----------------------------
(***************************************************************************)
(* The checker of clausal proofs, lean/src/sat/proof.lean: refute with the *)
(* handler rup for RUP additions and either handler for deletions, the one *)
(* of rup_check or the one of drup_check.                                  *)
(*                                                                         *)
(* The proof comes from an external SAT solver and nothing is known of it. *)
(* refute and rup_core take the head of the list of actions, or of hints,  *)
(* and look at the rest only to see whether it is empty: here the next     *)
(* action, the next hint and the end of either list are chosen when they   *)
(* are read.                                                               *)
(***************************************************************************)
EXTENDS Problem

CONSTANT Deletes                \* drup_check, or else rup_check

ASSUME DeletesAssumption == Deletes \in BOOLEAN

VARIABLES db,                   \* f, the clauses at hand
          phase,                \* "refute", "rup", "done"
          last,                 \* as.empty: no action is left
          id, new,              \* the addition being checked
          cur,                  \* c, the clause of rup_core
          result

checkerVars == <<db, phase, last, id, new, cur, result>>
vars == <<formula, checkerVars>>

Rejected == {"out_of_hints", "missing_clause", "no_unit_clause",
             "out_of_proof", "no_rat_support"}

-----------------------------------------------------------------------------

CheckerInit ==
  /\ db = formula
  /\ phase = "refute"
  /\ last \in BOOLEAN
  /\ id \in Key /\ new = {} /\ cur = {}
  /\ result = "pending"

Init == formula \in Input /\ CheckerInit

Finish(r) == phase' = "done" /\ result' = r

Read(l) == phase = "refute" /\ ~last /\ last' = l

\* action.rup: an addition, to be checked by rup.
ReadRup(k, c, l) ==
  /\ Read(l)
  /\ phase' = "rup"
  /\ id' = k /\ new' = c /\ cur' = c
  /\ UNCHANGED <<formula, db, result>>

\* action.rat: both checkers have no RAT handler.
ReadRat(l) ==
  /\ Read(l)
  /\ Finish("no_rat_support")
  /\ UNCHANGED <<formula, db, id, new, cur>>

fault_del(f, hints) ==                 \* the handlers exchanged
  IF Deletes THEN f ELSE ksdiff(f, hints)

del(f, hints) == IF Deletes THEN ksdiff(f, hints) ELSE f

\* action.del: the hints are a map from identifiers to empty clauses.
ReadDel(ks, l) ==
  /\ Read(l)
  /\ db' = del(db, {<<k, {}>> : k \in ks})
  /\ UNCHANGED <<formula, phase, id, new, cur, result>>

EndOfProof ==
  /\ phase = "refute" /\ last
  /\ Finish(IF \E s \in db : null(s[2]) THEN "ok" ELSE "out_of_proof")
  /\ UNCHANGED <<formula, db, last, id, new, cur>>

-----------------------------------------------------------------------------
(* rup_core on the hint k.                                                 *)

MissingClause(k) ==
  /\ phase = "rup"
  /\ lookup(k, db) = {}
  /\ Finish("missing_clause")
  /\ UNCHANGED <<formula, db, last, id, new, cur>>

(***************************************************************************)
(* Nothing is left of the hint's clause: the addition is accepted, and the *)
(* rest of its hints is not looked at.  An empty clause that is the proof's *)
(* last is not even added.                                                 *)
(***************************************************************************)
Conflict(k) ==
  /\ phase = "rup"
  /\ \E ck \in lookup(k, db) : null(sdiff2(ck, cur))
  /\ IF last /\ null(new)
       THEN Finish("ok") /\ UNCHANGED db
       ELSE phase' = "refute" /\ db' = kinsert(id, new, db) /\ UNCHANGED result
  /\ UNCHANGED <<formula, last, id, new, cur>>

\* One literal is left: its negation joins the clause.
Propagate(k) ==
  /\ phase = "rup"
  /\ \E ck \in lookup(k, db), l \in Literal :
       /\ sdiff2(ck, cur) = {l}
       /\ cur' = insert2(neg(l)[1], neg(l)[2], cur)
  /\ UNCHANGED <<formula, db, phase, last, id, new, result>>

NoUnitClause(k) ==
  /\ phase = "rup"
  /\ \E ck \in lookup(k, db) :
       /\ ~null(sdiff2(ck, cur))
       /\ \A l \in Literal : sdiff2(ck, cur) # {l}
  /\ Finish("no_unit_clause")
  /\ UNCHANGED <<formula, db, last, id, new, cur>>

Hint(k) == MissingClause(k) \/ Conflict(k) \/ Propagate(k) \/ NoUnitClause(k)

OutOfHints ==
  /\ phase = "rup"
  /\ Finish("out_of_hints")
  /\ UNCHANGED <<formula, db, last, id, new, cur>>

Next ==
  \/ \E k \in Key, c \in Clause, l \in BOOLEAN : ReadRup(k, c, l)
  \/ \E l \in BOOLEAN : ReadRat(l)
  \/ \E ks \in SUBSET Key, l \in BOOLEAN : ReadDel(ks, l)
  \/ EndOfProof
  \/ \E k \in Key : Hint(k)
  \/ OutOfHints
  \/ phase = "done" /\ UNCHANGED vars

Spec == Init /\ [][Next]_vars

-----------------------------------------------------------------------------

\* The types of the variables; both databases are maps.
TypeOK ==
  /\ formula \in Formula /\ db \in Formula
  /\ phase \in {"refute", "rup", "done"}
  /\ last \in BOOLEAN
  /\ id \in Key /\ new \in Clause /\ cur \in Clause
  /\ result \in {"pending", "ok"} \cup Rejected

(***************************************************************************)
(* unsat_of_refute: whatever the proof, a formula refuted has no model.    *)
(***************************************************************************)
Sound == result = "ok" => unsatisfiable(formula)

(***************************************************************************)
(* rup_spec and del_spec: no addition costs the formula a model, and       *)
(* without deletions none is won: the clauses at hand stay equivalent to   *)
(* the formula, an identifier used twice or not.                           *)
(***************************************************************************)
Equivalent ==
  \A p \in Assignment :
    /\ sat_formula(p, formula) => sat_formula(p, db)
    /\ ~Deletes /\ sat_formula(p, db) => sat_formula(p, formula)

(***************************************************************************)
(* insert2 empties a clause that has the literal's dual.  rup_core does    *)
(* not check for that; it cannot happen: while an addition is checked, its *)
(* clause only grows.                                                      *)
(***************************************************************************)
NeverEmptied == phase = "rup" => new \subseteq cur
=============================================================================
