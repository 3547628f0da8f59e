------------------------------- MODULE RupDrup -------------------------------
(***************************************************************************)
(* The two checkers of lean/src/sat/proof.lean on one proof, side by side: *)
(* drup_check erases the clauses a deletion names, rup_check ignores it.   *)
(* A solver gives every addition an identifier of its own, which nothing   *)
(* checks; so it is in this proof.  rup_check is followed for as long as   *)
(* drup_check goes on.                                                     *)
(***************************************************************************)
EXTENDS Problem

VARIABLES used,        \* used: the identifiers given to a clause
          rdb, rphase, rlast, rid, rnew, rcur, rresult,
          ddb, dphase, dlast, did, dnew, dcur, dresult

Rup == INSTANCE ProofChecker WITH
  Deletes <- FALSE, db <- rdb, phase <- rphase, last <- rlast, id <- rid,
  new <- rnew, cur <- rcur, result <- rresult

Drup == INSTANCE ProofChecker WITH
  Deletes <- TRUE, db <- ddb, phase <- dphase, last <- dlast, id <- did,
  new <- dnew, cur <- dcur, result <- dresult

rvars == <<rdb, rphase, rlast, rid, rnew, rcur, rresult>>
dvars == <<ddb, dphase, dlast, did, dnew, dcur, dresult>>
bothVars == <<formula, used, rvars, dvars>>

BothInit ==
  /\ formula \in Input
  /\ used = keys(formula)
  /\ Rup!CheckerInit /\ Drup!CheckerInit
  /\ rlast = dlast /\ rid = did

BothReadRup(k, c, l) ==
  /\ k \notin used
  /\ used' = used \cup {k}
  /\ Rup!ReadRup(k, c, l) /\ Drup!ReadRup(k, c, l)

BothReadRat(l) == Rup!ReadRat(l) /\ Drup!ReadRat(l) /\ UNCHANGED used

BothReadDel(ks, l) == Rup!ReadDel(ks, l) /\ Drup!ReadDel(ks, l) /\ UNCHANGED used

BothEndOfProof == Rup!EndOfProof /\ Drup!EndOfProof /\ UNCHANGED used

BothHint(k) == Rup!Hint(k) /\ Drup!Hint(k) /\ UNCHANGED used

BothOutOfHints == Rup!OutOfHints /\ Drup!OutOfHints /\ UNCHANGED used

BothNext ==
  \/ \E k \in Key, c \in Clause, l \in BOOLEAN : BothReadRup(k, c, l)
  \/ \E l \in BOOLEAN : BothReadRat(l)
  \/ \E ks \in SUBSET Key, l \in BOOLEAN : BothReadDel(ks, l)
  \/ BothEndOfProof
  \/ \E k \in Key : BothHint(k)
  \/ BothOutOfHints
  \/ dphase = "done" /\ UNCHANGED bothVars

BothSpec == BothInit /\ [][BothNext]_bothVars

-----------------------------------------------------------------------------

(***************************************************************************)
(* Deletions only save memory: a proof that drup_check accepts, rup_check  *)
(* accepts too, without performing one.  It rests on the identifiers:      *)
(* kinsert keeps the clause that a reused one already names.               *)
(***************************************************************************)
DeletionOptional == dresult = "ok" => rresult = "ok"

(***************************************************************************)
(* While drup_check goes on the two agree on everything but the clauses    *)
(* at hand, and of those rup_check has all that drup_check has: neither    *)
(* has to wait for the other.                                              *)
(***************************************************************************)
Lockstep ==
  /\ ddb \subseteq rdb
  /\ dphase # "done" => <<rphase, rlast, rid, rnew, rcur, rresult>>
                          = <<dphase, dlast, did, dnew, dcur, dresult>>
=============================================================================
