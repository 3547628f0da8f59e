------------------------- MODULE ProofCheckerProofs -------------------------
(***************************************************************************)
(* What ProofChecker promises, for every set of variables, of identifiers  *)
(* and of formulas and for every proof, proved.  The invariant relates the *)
(* models of the formula to those of the clauses at hand and, while an     *)
(* addition is checked, those of rup_core's clause to those of the         *)
(* addition (the induction hypothesis of limplies_of_rup).                 *)
(***************************************************************************)
EXTENDS ProofChecker, RupDrup, TLAPS

-----------------------------------------------------------------------------
(* Operations on maps.                                                     *)

\* kinsert on a formula gives a formula.
LEMMA KinsertFormula ==
  ASSUME NEW f \in Formula, NEW k \in Key, NEW c \in Clause
  PROVE  kinsert(k, c, f) \in Formula
  BY DEF Formula, kinsert, nodupkeys, keys

\* An insertion adds the pair or nothing.
LEMMA KinsertSubset ==
  ASSUME NEW f, NEW k, NEW c
  PROVE  f \subseteq kinsert(k, c, f) /\ kinsert(k, c, f) \subseteq f \cup {<<k, c>>}
  BY DEF kinsert

\* A deletion leaves a formula.
LEMMA DelFormula ==
  ASSUME NEW f \in Formula, NEW h
  PROVE  del(f, h) \in Formula /\ del(f, h) \subseteq f
  BY DEF Formula, del, ksdiff, nodupkeys

\* insert2 on a clause gives a clause.
LEMMA Insert2Clause ==
  ASSUME NEW c \in Clause, NEW l \in Literal
  PROVE  insert2(l[1], l[2], c) \in Clause
<1> DEFINE d == insert2(l[1], l[2], c)
<1>1. l = <<l[1], l[2]>>
  BY DEF Literal
<1>2. d \in SUBSET Literal
  BY <1>1 DEF insert2, Clause
<1>3. nodupkeys(d)
  BY <1>1 DEF insert2, Clause, nodupkeys, keys
<1> QED
  BY <1>2, <1>3 DEF Clause

\* A literal's negation is a literal, true exactly when the literal is not.
LEMMA Negation ==
  ASSUME NEW l \in Literal
  PROVE  /\ neg(l) \in Literal
         /\ neg(l) = <<neg(l)[1], neg(l)[2]>>
         /\ \A p \in Assignment : sat_literal(p, neg(l)) <=> ~sat_literal(p, l)
  BY DEF Literal, neg, Assignment, sat_literal

-----------------------------------------------------------------------------
(* Models.                                                                 *)

\* More clauses have no more models.
LEMMA SubsetModels ==
  ASSUME NEW f, NEW g \in SUBSET f, NEW p, sat_formula(p, f)
  PROVE  sat_formula(p, g)
  BY DEF sat_formula

\* The clause that an identifier names is satisfied with the formula.
LEMMA LookupModels ==
  ASSUME NEW f \in Formula, NEW k, NEW c \in lookup(k, f)
  PROVE  c \in Clause /\ \A p : sat_formula(p, f) => sat_clause(p, c)
  BY DEF lookup, sat_formula, Formula

(***************************************************************************)
(* The clause that a propagation extends grows: the literal's dual is not  *)
(* in it, being what is left of the hint's clause.                         *)
(***************************************************************************)
LEMMA PropagateGrows ==
  ASSUME NEW c \in Clause, NEW ck \in Clause, NEW l \in Literal,
         sdiff2(ck, c) = {l}
  PROVE  /\ c \subseteq insert2(neg(l)[1], neg(l)[2], c)
         /\ insert2(neg(l)[1], neg(l)[2], c) \subseteq c \cup {neg(l)}
<1>1. l \notin c
  BY DEF sdiff2
<1>2. l = <<l[1], l[2]>> /\ l[2] \in BOOLEAN /\ neg(l) = <<l[1], ~l[2]>>
  BY DEF Literal, neg
<1>3. \A s \in c : s = <<s[1], s[2]>> /\ s[2] \in BOOLEAN
  BY DEF Clause, Literal
<1>4. ASSUME l[1] \in keys(c) PROVE neg(l) \in c
  <2>1. PICK s \in c : s[1] = l[1]
    BY <1>4 DEF keys
  <2>2. s[2] # l[2]
    BY <1>1, <1>2, <1>3, <2>1
  <2> QED
    BY <1>2, <1>3, <2>1, <2>2
<1> QED
  BY <1>2, <1>4 DEF insert2

(***************************************************************************)
(* limplies_of_rup, the step of the induction: a model of the hint's       *)
(* clause and of the extended clause is one of the clause.                 *)
(***************************************************************************)
LEMMA PropagateModels ==
  ASSUME NEW c \in Clause, NEW ck \in Clause, NEW l \in Literal,
         sdiff2(ck, c) = {l},
         NEW p \in Assignment, sat_clause(p, ck), ~sat_clause(p, c)
  PROVE  ~sat_clause(p, insert2(neg(l)[1], neg(l)[2], c))
<1>1. sat_literal(p, l)
  BY DEF sat_clause, sdiff2
<1>2. ~sat_literal(p, neg(l))
  BY <1>1, Negation
<1> QED
  BY <1>2, PropagateGrows DEF sat_clause

-----------------------------------------------------------------------------
(* The invariant.                                                          *)

\* rup_spec, inside rup_core: the clause under way implies the addition.
Implied ==
  phase = "rup" =>
    \A p \in Assignment :
      sat_formula(p, db) /\ sat_clause(p, cur) => sat_clause(p, new)

\* A refutation found is one of the clauses at hand.
Refuted == result = "ok" => unsatisfiable(db)

KeepsModels ==
  \A p \in Assignment : sat_formula(p, formula) => sat_formula(p, db)

\* Without deletions the formula's clauses stay at hand.
KeepsClauses == ~Deletes => formula \subseteq db

\* The result is given at the end and not before.
Unanswered == phase # "done" => result = "pending"

IInv == /\ TypeOK /\ Unanswered /\ NeverEmptied
        /\ Implied /\ Refuted /\ KeepsModels /\ KeepsClauses

\* The invariant holds initially.
LEMMA InitIInv == Init => IInv
<1> SUFFICES ASSUME Init PROVE IInv
  OBVIOUS
<1>1. formula \in Formula /\ db = formula /\ phase = "refute" /\ result = "pending"
  BY InputAssumption DEF Init, CheckerInit
<1>2. {} \in Clause
  BY DEF Clause, nodupkeys
<1>3. TypeOK
  BY <1>1, <1>2 DEF Init, CheckerInit, TypeOK
<1> QED
  BY <1>1, <1>3 DEF IInv, Unanswered, NeverEmptied, Implied, Refuted, KeepsModels,
     KeepsClauses

\* Reading an addition starts with the addition itself.
LEMMA ReadRupIInv ==
  ASSUME IInv, NEW k \in Key, NEW c \in Clause, NEW l \in BOOLEAN, ReadRup(k, c, l)
  PROVE  IInv'
<1>1. TypeOK'
  BY DEF IInv, ReadRup, Read, TypeOK
<1>2. Unanswered' /\ NeverEmptied' /\ Implied' /\ Refuted' /\ KeepsModels'
      /\ KeepsClauses'
  BY DEF IInv, ReadRup, Read, Unanswered, NeverEmptied, Implied, Refuted,
         KeepsModels, KeepsClauses
<1> QED
  BY <1>1, <1>2 DEF IInv

\* A deletion keeps all models of the clauses at hand.
LEMMA ReadDelIInv ==
  ASSUME IInv, NEW ks \in SUBSET Key, NEW l \in BOOLEAN, ReadDel(ks, l)
  PROVE  IInv'
<1> DEFINE h == {<<k, {}>> : k \in ks}
<1>1. db' = del(db, h) /\ phase = "refute" /\ phase' = phase
  BY DEF ReadDel, Read
<1>2. db' \in Formula /\ db' \subseteq db
  BY <1>1, DelFormula DEF IInv, TypeOK
<1>3. TypeOK'
  BY <1>2 DEF IInv, ReadDel, Read, TypeOK
<1>4. KeepsModels'
  <2> SUFFICES ASSUME NEW p \in Assignment, sat_formula(p, formula)
               PROVE  sat_formula(p, db')
    BY DEF KeepsModels, ReadDel
  <2> QED
    BY <1>2, SubsetModels DEF IInv, KeepsModels
<1>5. KeepsClauses'
  BY <1>1 DEF IInv, KeepsClauses, ReadDel, del
<1>6. result' = "pending"
  BY <1>1 DEF IInv, Unanswered, ReadDel
<1> QED
  BY <1>1, <1>3, <1>4, <1>5, <1>6
     DEF IInv, Unanswered, NeverEmptied, Implied, Refuted

\* A step that only gives a result keeps the rest of the invariant.
LEMMA FinishIInv ==
  ASSUME IInv, NEW r \in {"ok"} \cup Rejected, Finish(r), last' \in BOOLEAN,
         UNCHANGED <<formula, db, id, new, cur>>,
         r = "ok" => unsatisfiable(db)
  PROVE  IInv'
<1>1. TypeOK'
  BY DEF IInv, TypeOK, Finish
<1>2. Refuted'
  BY DEF Finish, Refuted
<1> QED
  BY <1>1, <1>2 DEF IInv, Finish, Unanswered, NeverEmptied, Implied, KeepsModels,
                    KeepsClauses

\* An empty clause at hand has no model.
LEMMA EndOfProofIInv ==
  ASSUME IInv, EndOfProof
  PROVE  IInv'
<1> DEFINE r == IF \E s \in db : null(s[2]) THEN "ok" ELSE "out_of_proof"
<1>1. r \in {"ok"} \cup Rejected
  BY DEF Rejected
<1>2. r = "ok" => unsatisfiable(db)
  BY DEF unsatisfiable, sat_formula, sat_clause, null
<1>3. Finish(r) /\ last' = last /\ UNCHANGED <<formula, db, id, new, cur>>
  BY DEF EndOfProof
<1>4. last' \in BOOLEAN
  BY <1>3 DEF IInv, TypeOK
<1> QED
  BY <1>1, <1>2, <1>3, <1>4, FinishIInv

(***************************************************************************)
(* A conflict: every model of the clauses at hand is one of the hint's     *)
(* clause, hence of the clause under way, hence of the addition.           *)
(***************************************************************************)
LEMMA ConflictIInv ==
  ASSUME IInv, NEW k \in Key, Conflict(k)
  PROVE  IInv'
<1>1. PICK ck \in lookup(k, db) : null(sdiff2(ck, cur))
  BY DEF Conflict
<1>2. phase = "rup" /\ UNCHANGED <<formula, last, id, new, cur>>
  BY DEF Conflict
<1>3. \A p \in Assignment : sat_formula(p, db) => sat_clause(p, cur)
  <2>1. ck \subseteq cur
    BY <1>1 DEF null, sdiff2
  <2>2. \A p : sat_formula(p, db) => sat_clause(p, ck)
    BY <1>1, LookupModels DEF IInv, TypeOK
  <2> QED
    BY <2>1, <2>2 DEF sat_clause
<1>4. \A p \in Assignment : sat_formula(p, db) => sat_clause(p, new)
  BY <1>2, <1>3 DEF IInv, Implied
<1>5. CASE last /\ null(new)
  <2>1. unsatisfiable(db)
    BY <1>4, <1>5 DEF unsatisfiable, null, sat_clause
  <2>2. Finish("ok") /\ UNCHANGED <<formula, db, id, new, cur>> /\ last' \in BOOLEAN
    BY <1>2, <1>5 DEF Conflict, IInv, TypeOK
  <2> QED
    BY <2>1, <2>2, FinishIInv
<1>6. CASE ~(last /\ null(new))
  <2>1. phase' = "refute" /\ db' = kinsert(id, new, db) /\ UNCHANGED result
    BY <1>6 DEF Conflict
  <2>2. TypeOK'
    BY <1>2, <2>1, KinsertFormula DEF IInv, TypeOK
  <2>3. KeepsModels'
    <3> SUFFICES ASSUME NEW p \in Assignment, sat_formula(p, formula)
                 PROVE  sat_formula(p, db')
      BY <1>2 DEF KeepsModels
    <3>1. sat_formula(p, db) /\ sat_clause(p, new)
      BY <1>4 DEF IInv, KeepsModels
    <3>2. db' \subseteq db \cup {<<id, new>>}
      BY <2>1, KinsertSubset
    <3> QED
      BY <3>1, <3>2 DEF sat_formula
  <2>4. KeepsClauses'
    BY <1>2, <2>1, KinsertSubset DEF IInv, KeepsClauses
  <2>5. Unanswered' /\ Refuted'
    BY <1>2, <2>1 DEF IInv, Unanswered, Refuted
  <2> QED
    BY <2>1, <2>2, <2>3, <2>4, <2>5 DEF IInv, NeverEmptied, Implied
<1> QED
  BY <1>5, <1>6

\* A propagation: a literal that the hint's clause allows to add is added.
LEMMA PropagateIInv ==
  ASSUME IInv, NEW k \in Key, Propagate(k)
  PROVE  IInv'
<1>1. PICK ck \in lookup(k, db), l \in Literal :
        /\ sdiff2(ck, cur) = {l}
        /\ cur' = insert2(neg(l)[1], neg(l)[2], cur)
  BY DEF Propagate
<1>2. phase = "rup" /\ UNCHANGED <<formula, db, phase, last, id, new, result>>
  BY DEF Propagate
<1>3. cur \in Clause /\ db \in Formula /\ neg(l) \in Literal
  BY Negation DEF IInv, TypeOK
<1>4. ck \in Clause /\ \A p : sat_formula(p, db) => sat_clause(p, ck)
  BY <1>1, <1>3, LookupModels
<1>5. TypeOK'
  <2>1. cur' \in Clause
    BY <1>1, <1>3, Insert2Clause
  <2> QED
    BY <1>2, <2>1 DEF IInv, TypeOK
<1>6. NeverEmptied'
  BY <1>1, <1>2, <1>3, <1>4, PropagateGrows DEF IInv, NeverEmptied
<1>7. Implied'
  <2> SUFFICES ASSUME NEW p \in Assignment, sat_formula(p, db), sat_clause(p, cur')
               PROVE  sat_clause(p, new)
    BY <1>2 DEF Implied
  <2>1. sat_clause(p, cur)
    BY <1>1, <1>3, <1>4, PropagateModels
  <2> QED
    BY <1>2, <2>1 DEF IInv, Implied
<1>8. Unanswered' /\ Refuted' /\ KeepsModels' /\ KeepsClauses'
  BY <1>2 DEF IInv, Unanswered, Refuted, KeepsModels, KeepsClauses
<1> QED
  BY <1>5, <1>6, <1>7, <1>8 DEF IInv

\* The hints: those that end the check, and the end of the hints.
LEMMA RejectIInv ==
  ASSUME IInv,
         \/ \E k \in Key : MissingClause(k) \/ NoUnitClause(k)
         \/ OutOfHints \/ \E l \in BOOLEAN : ReadRat(l)
  PROVE  IInv'
<1>1. PICK r \in Rejected : Finish(r)
  BY DEF MissingClause, NoUnitClause, OutOfHints, ReadRat, Rejected
<1>2. UNCHANGED <<formula, db, id, new, cur>> /\ last' \in BOOLEAN
  BY DEF IInv, TypeOK, MissingClause, NoUnitClause, OutOfHints, ReadRat, Read
<1>3. "ok" \notin Rejected
  BY DEF Rejected
<1> QED
  BY <1>1, <1>2, <1>3, FinishIInv

\* Every step keeps the invariant.
LEMMA NextIInv == IInv /\ [Next]_vars => IInv'
<1> SUFFICES ASSUME IInv, [Next]_vars PROVE IInv'
  OBVIOUS
<1>1. CASE \E k \in Key, c \in Clause, l \in BOOLEAN : ReadRup(k, c, l)
  BY <1>1, ReadRupIInv
<1>2. CASE \E ks \in SUBSET Key, l \in BOOLEAN : ReadDel(ks, l)
  BY <1>2, ReadDelIInv
<1>3. CASE EndOfProof
  BY <1>3, EndOfProofIInv
<1>4. CASE \E k \in Key : Hint(k)
  <2>1. PICK k \in Key : Hint(k)
    BY <1>4
  <2> QED
    BY <2>1, ConflictIInv, PropagateIInv, RejectIInv DEF Hint
<1>5. CASE OutOfHints \/ \E l \in BOOLEAN : ReadRat(l)
  BY <1>5, RejectIInv
<1>6. CASE UNCHANGED vars
  BY <1>6 DEF vars, checkerVars, IInv, TypeOK, Unanswered, NeverEmptied,
              Implied, Refuted, KeepsModels, KeepsClauses
<1> QED
  BY <1>1, <1>2, <1>3, <1>4, <1>5, <1>6 DEF Next

\* The invariant of the proof checker.
THEOREM Invariant == Spec => []IInv
<1>1. Init => IInv
  BY InitIInv
<1>2. IInv /\ [Next]_vars => IInv'
  BY NextIInv
<1> QED
  BY <1>1, <1>2, PTL DEF Spec

-----------------------------------------------------------------------------
(* What the checker promises.                                              *)

\* Identifiers name one clause each, at any time.
THEOREM TypeCorrect == Spec => []TypeOK
<1>1. IInv => TypeOK
  BY DEF IInv
<1> QED
  BY <1>1, Invariant, PTL

\* unsat_of_refute: a formula refuted is unsatisfiable, whatever the proof.
THEOREM Soundness == Spec => []Sound
<1>1. IInv => Sound
  <2> SUFFICES ASSUME IInv, result = "ok" PROVE unsatisfiable(formula)
    BY DEF Sound
  <2> QED
    BY DEF IInv, Refuted, KeepsModels, unsatisfiable
<1> QED
  BY <1>1, Invariant, PTL

\* rup_spec, del_spec: the clauses at hand keep the formula's models.
THEOREM Equivalence == Spec => []Equivalent
<1>1. IInv => Equivalent
  <2> SUFFICES ASSUME IInv, NEW p \in Assignment PROVE
        /\ sat_formula(p, formula) => sat_formula(p, db)
        /\ ~Deletes /\ sat_formula(p, db) => sat_formula(p, formula)
    BY DEF Equivalent
  <2>1. sat_formula(p, formula) => sat_formula(p, db)
    BY DEF IInv, KeepsModels
  <2>2. ~Deletes /\ sat_formula(p, db) => sat_formula(p, formula)
    BY SubsetModels DEF IInv, KeepsClauses
  <2> QED
    BY <2>1, <2>2
<1> QED
  BY <1>1, Invariant, PTL

\* rup_core's clause is never emptied by a dual literal.
THEOREM ClauseGrows == Spec => []NeverEmptied
<1>1. IInv => NeverEmptied
  BY DEF IInv
<1> QED
  BY <1>1, Invariant, PTL

-----------------------------------------------------------------------------
(***************************************************************************)
(* The two checkers on one proof (module RupDrup): deletions are optional, *)
(* for every proof whose additions have identifiers of their own.  The     *)
(* invariant says that rup_check has all the clauses of drup_check, under  *)
(* identifiers that no addition still to come can have, and that it is at  *)
(* the same point of the proof.                                            *)
(***************************************************************************)

\* Both databases are maps and rup_check's is the larger.
Databases ==
  /\ rdb \in Formula
  /\ ddb \subseteq rdb
  /\ keys(rdb) \subseteq used

\* The addition being checked has an identifier that is still free.
Fresh ==
  dphase = "rup" => did \in Key /\ did \in used \ keys(rdb) /\ dnew \in Clause

\* drup_check has no answer, or one on which the two agree, or rejects.
Answers == (dphase # "done" => dresult = "pending") /\ DeletionOptional

BothIInv == Databases /\ Fresh /\ Lockstep /\ Answers

-----------------------------------------------------------------------------

\* The operations on maps and literals are the same in the two checkers.
LEMMA Shared ==
  /\ Rup!Literal = Literal /\ Drup!Literal = Literal
  /\ \A m : (Rup!null(m) <=> null(m)) /\ (Drup!null(m) <=> null(m))
  /\ \A k, m : Rup!lookup(k, m) = lookup(k, m) /\ Drup!lookup(k, m) = lookup(k, m)
  /\ \A m, n : Rup!sdiff2(m, n) = sdiff2(m, n) /\ Drup!sdiff2(m, n) = sdiff2(m, n)
  /\ \A k, c, m : /\ Rup!kinsert(k, c, m) = kinsert(k, c, m)
                  /\ Drup!kinsert(k, c, m) = kinsert(k, c, m)
  /\ \A m, n : Drup!ksdiff(m, n) = ksdiff(m, n)
  /\ \A l : Rup!neg(l) = neg(l) /\ Drup!neg(l) = neg(l)
  /\ \A a, b, m : /\ Rup!insert2(a, b, m) = insert2(a, b, m)
                  /\ Drup!insert2(a, b, m) = insert2(a, b, m)
  BY DEF Rup!Literal, Drup!Literal, Literal, Rup!null, Drup!null, null,
         Rup!lookup, Drup!lookup, lookup, Rup!sdiff2, Drup!sdiff2, sdiff2,
         Rup!kinsert, Drup!kinsert, kinsert, Rup!keys, Drup!keys, keys,
         Drup!ksdiff, ksdiff,
         Rup!neg, Drup!neg, neg, Rup!insert2, Drup!insert2, insert2

\* A clause that drup_check finds is the one that rup_check finds.
LEMMA SameLookup ==
  ASSUME NEW f \in Formula, NEW g \in SUBSET f, NEW k, NEW c \in lookup(k, g)
  PROVE  lookup(k, f) = {c}
<1>1. PICK s \in g : s[1] = k /\ s[2] = c
  BY DEF lookup
<1>2. \A t \in f : t[1] = k => t = s
  BY <1>1 DEF Formula, nodupkeys
<1> QED
  BY <1>1, <1>2 DEF lookup

\* The same fresh insertion into both databases keeps them as they should be.
LEMMA InsertDatabases ==
  ASSUME Databases, NEW k \in Key, k \in used \ keys(rdb), NEW c \in Clause,
         rdb' = kinsert(k, c, rdb), ddb' \in {ddb, kinsert(k, c, ddb)}, used' = used
  PROVE  Databases'
<1>1. rdb' = rdb \cup {<<k, c>>}
  BY DEF kinsert
<1>2. ddb' \subseteq ddb \cup {<<k, c>>}
  BY DEF kinsert
<1>3. rdb' \in Formula
  BY <1>1 DEF Databases, Formula, nodupkeys, keys
<1>4. keys(rdb') \subseteq used
  BY <1>1 DEF Databases, keys
<1> QED
  BY <1>1, <1>2, <1>3, <1>4 DEF Databases

\* The invariant holds initially.
LEMMA BothInitIInv == BothInit => BothIInv
  BY InputAssumption
     DEF BothInit, Rup!CheckerInit, Drup!CheckerInit, BothIInv, Databases, Fresh,
         Lockstep, Answers, DeletionOptional

\* Steps that leave the databases alone, but for what drup_check erases.
LEMMA BothReadIInv ==
  ASSUME BothIInv,
         \/ \E k \in Key, c \in Clause, l \in BOOLEAN : BothReadRup(k, c, l)
         \/ \E ks \in SUBSET Key, l \in BOOLEAN : BothReadDel(ks, l)
         \/ \E l \in BOOLEAN : BothReadRat(l)
         \/ BothOutOfHints
  PROVE  BothIInv'
<1>1. CASE \E k \in Key, c \in Clause, l \in BOOLEAN : BothReadRup(k, c, l)
  BY <1>1 DEF BothReadRup, Rup!ReadRup, Drup!ReadRup, Rup!Read, Drup!Read, BothIInv,
              Databases, Fresh, Lockstep, Answers, DeletionOptional
<1>2. CASE \E ks \in SUBSET Key, l \in BOOLEAN : BothReadDel(ks, l)
  BY <1>2, Shared DEF BothReadDel, Rup!ReadDel, Drup!ReadDel, Rup!Read, Drup!Read, Rup!del,
              Drup!del, ksdiff, BothIInv, Databases, Fresh, Lockstep, Answers,
              DeletionOptional
<1>3. CASE \E l \in BOOLEAN : BothReadRat(l)
  BY <1>3 DEF BothReadRat, Rup!ReadRat, Drup!ReadRat, Rup!Read, Drup!Read,
              Rup!Finish, Drup!Finish, BothIInv, Databases, Fresh, Lockstep,
              Answers, DeletionOptional
<1>4. CASE BothOutOfHints
  BY <1>4 DEF BothOutOfHints, Rup!OutOfHints, Drup!OutOfHints, Rup!Finish,
              Drup!Finish, BothIInv, Databases, Fresh, Lockstep, Answers,
              DeletionOptional
<1> QED
  BY <1>1, <1>2, <1>3, <1>4

\* An empty clause that drup_check has, rup_check has.
LEMMA BothEndOfProofIInv ==
  ASSUME BothIInv, BothEndOfProof
  PROVE  BothIInv'
<1>1. (\E s \in ddb : null(s[2])) => (\E s \in rdb : null(s[2]))
  BY DEF BothIInv, Databases
<1>2. dphase' = "done" /\ UNCHANGED <<rdb, ddb, used>>
  BY DEF BothEndOfProof, Rup!EndOfProof, Drup!EndOfProof, Drup!Finish
<1>3. dresult' = "ok" => rresult' = "ok"
  BY <1>1, Shared DEF BothEndOfProof, Rup!EndOfProof, Drup!EndOfProof, Drup!Finish, Rup!Finish
<1> QED
  BY <1>2, <1>3 DEF BothIInv, Databases, Fresh, Lockstep, Answers, DeletionOptional

(***************************************************************************)
(* A hint: a clause drup_check does not find ends the comparison; one that *)
(* it finds has the same effect on both.                                   *)
(***************************************************************************)
LEMMA BothHintIInv ==
  ASSUME BothIInv, NEW k \in Key, BothHint(k)
  PROVE  BothIInv'
<1>1. /\ dphase = "rup" /\ dresult = "pending"
      /\ <<rphase, rlast, rid, rnew, rcur, rresult>>
           = <<dphase, dlast, did, dnew, dcur, dresult>>
  BY DEF BothIInv, Answers, Lockstep, BothHint, Drup!Hint, Drup!MissingClause,
         Drup!Conflict, Drup!Propagate, Drup!NoUnitClause
<1>2. /\ rdb' \in {rdb, kinsert(did, dnew, rdb)}
      /\ used' = used
  BY <1>1, Shared DEF BothHint, Rup!Hint, Rup!MissingClause, Rup!Conflict, Rup!Propagate,
              Rup!NoUnitClause
<1>3. did \in Key /\ did \in used \ keys(rdb) /\ dnew \in Clause /\ Databases
  BY <1>1 DEF BothIInv, Fresh
<1>4. CASE Drup!MissingClause(k)
  <2>1. /\ ddb' = ddb
        /\ dphase' = "done" /\ dresult' = "missing_clause"
    BY <1>4 DEF Drup!MissingClause, Drup!Finish
  <2>2. Databases'
    BY <1>2, <1>3, <2>1, InsertDatabases DEF Databases
  <2> QED
    BY <2>1, <2>2 DEF BothIInv, Fresh, Lockstep, Answers, DeletionOptional, Databases
<1>5. CASE ~Drup!MissingClause(k)
  <2>1. PICK c : lookup(k, ddb) = {c} /\ lookup(k, rdb) = {c}
    <3>1. PICK c \in lookup(k, ddb) : TRUE
      BY <1>5, Shared DEF BothHint, Drup!Hint, Drup!Conflict, Drup!Propagate, Drup!NoUnitClause
    <3>2. lookup(k, rdb) = {c}
      BY <1>3, <3>1, SameLookup DEF Databases
    <3>3. lookup(k, ddb) \subseteq lookup(k, rdb)
      BY <1>3 DEF Databases, lookup
    <3> QED
      BY <3>1, <3>2, <3>3
  <2>2. ~Rup!MissingClause(k)
    BY <2>1, Shared DEF Rup!MissingClause
  <2>3. CASE null(sdiff2(c, dcur))
    <3>1. Rup!Conflict(k) /\ Drup!Conflict(k)
      <4>1. sdiff2(c, dcur) = {}
        BY <2>3 DEF null
      <4>2. ~Rup!Propagate(k) /\ ~Drup!Propagate(k)
        BY <1>1, <2>1, <4>1, Shared DEF Rup!Propagate, Drup!Propagate
      <4>3. ~Rup!NoUnitClause(k) /\ ~Drup!NoUnitClause(k)
        BY <1>1, <2>1, <2>3, Shared DEF Rup!NoUnitClause, Drup!NoUnitClause
      <4> QED
        BY <1>5, <2>2, <4>2, <4>3 DEF BothHint, Rup!Hint, Drup!Hint
    <3>2. CASE dlast /\ null(dnew)
      <4>1. /\ dphase' = "done" /\ dresult' = "ok" /\ rresult' = "ok"
            /\ rdb' = rdb /\ ddb' = ddb
        BY <1>1, <3>1, <3>2, Shared DEF Rup!Conflict, Drup!Conflict, Rup!Finish, Drup!Finish
      <4> QED
        BY <1>2, <1>3, <4>1
           DEF BothIInv, Databases, Fresh, Lockstep, Answers, DeletionOptional
    <3>3. CASE ~(dlast /\ null(dnew))
      <4>1. /\ rdb' = kinsert(did, dnew, rdb) /\ ddb' = kinsert(did, dnew, ddb)
            /\ dphase' = "refute" /\ rphase' = "refute"
            /\ UNCHANGED <<rlast, rid, rnew, rcur, rresult, dlast, did, dnew,
                           dcur, dresult>>
        BY <1>1, <3>1, <3>3, Shared DEF Rup!Conflict, Drup!Conflict
      <4>2. Databases'
        BY <1>2, <1>3, <4>1, InsertDatabases
      <4> QED
        BY <1>1, <4>1, <4>2
           DEF BothIInv, Databases, Fresh, Lockstep, Answers, DeletionOptional
    <3> QED
      BY <3>2, <3>3
  <2>4. CASE ~null(sdiff2(c, dcur))
    <3>1. ~Rup!Conflict(k) /\ ~Drup!Conflict(k)
      BY <1>1, <2>1, <2>4, Shared DEF Rup!Conflict, Drup!Conflict
    <3>2. CASE \E l \in Literal : sdiff2(c, dcur) = {l}
      <4>1. Rup!Propagate(k) /\ Drup!Propagate(k)
        BY <1>1, <1>5, <2>1, <2>2, <3>1, <3>2, Shared
           DEF BothHint, Rup!Hint, Drup!Hint, Rup!NoUnitClause, Drup!NoUnitClause
      <4>2. PICK l \in Literal : sdiff2(c, dcur) = {l}
        BY <3>2
      <4>3. /\ rcur' = insert2(neg(l)[1], neg(l)[2], dcur)
            /\ dcur' = insert2(neg(l)[1], neg(l)[2], dcur)
        BY <1>1, <2>1, <4>1, <4>2, Shared DEF Rup!Propagate, Drup!Propagate
      <4>4. UNCHANGED <<rdb, rphase, rlast, rid, rnew, rresult,
                        ddb, dphase, dlast, did, dnew, dresult, used>>
        BY <1>2, <4>1 DEF Rup!Propagate, Drup!Propagate
      <4> QED
        BY <1>1, <1>3, <4>3, <4>4
           DEF BothIInv, Databases, Fresh, Lockstep, Answers, DeletionOptional
    <3>3. CASE ~\E l \in Literal : sdiff2(c, dcur) = {l}
      <4>1. Drup!NoUnitClause(k)
        BY <1>5, <2>1, <3>1, <3>3, Shared DEF BothHint, Drup!Hint, Drup!Propagate
      <4>2. Rup!NoUnitClause(k)
        BY <1>1, <2>1, <2>2, <3>1, <3>3, Shared DEF BothHint, Rup!Hint, Rup!Propagate
      <4>3. /\ dphase' = "done" /\ dresult' = "no_unit_clause"
            /\ rdb' = rdb /\ ddb' = ddb
        BY <4>1, <4>2 DEF Rup!NoUnitClause, Drup!NoUnitClause, Drup!Finish
      <4> QED
        BY <1>2, <1>3, <4>3
           DEF BothIInv, Databases, Fresh, Lockstep, Answers, DeletionOptional
    <3> QED
      BY <3>2, <3>3
  <2> QED
    BY <2>3, <2>4
<1> QED
  BY <1>4, <1>5

\* Every step keeps the invariant.
LEMMA BothNextIInv == BothIInv /\ [BothNext]_bothVars => BothIInv'
<1> SUFFICES ASSUME BothIInv, [BothNext]_bothVars PROVE BothIInv'
  OBVIOUS
<1>1. CASE BothEndOfProof
  BY <1>1, BothEndOfProofIInv
<1>2. CASE \E k \in Key : BothHint(k)
  BY <1>2, BothHintIInv
<1>3. CASE UNCHANGED bothVars
  BY <1>3 DEF bothVars, rvars, dvars, BothIInv, Databases, Fresh, Lockstep, Answers,
              DeletionOptional
<1> QED
  BY <1>1, <1>2, <1>3, BothReadIInv DEF BothNext

-----------------------------------------------------------------------------

\* Deletions are optional: what drup_check accepts, rup_check accepts.
THEOREM DeletionsOptional == BothSpec => []DeletionOptional
<1>1. BothInit => BothIInv
  BY BothInitIInv
<1>2. BothIInv /\ [BothNext]_bothVars => BothIInv'
  BY BothNextIInv
<1>3. BothIInv => DeletionOptional
  BY DEF BothIInv, Answers
<1> QED
  BY <1>1, <1>2, <1>3, PTL DEF BothSpec

\* The two checkers stay at the same point of the proof.
THEOREM InStep == BothSpec => []Lockstep
<1>1. BothInit => BothIInv
  BY BothInitIInv
<1>2. BothIInv /\ [BothNext]_bothVars => BothIInv'
  BY BothNextIInv
<1>3. BothIInv => Lockstep
  BY DEF BothIInv
<1> QED
  BY <1>1, <1>2, <1>3, PTL DEF BothSpec
=============================================================================
