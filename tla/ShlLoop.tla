------------------------------- MODULE ShlLoop -------------------------------
(***************************************************************************)
(* The left shift of a tnum by a tnum, tnum.shl of                         *)
(* lean/src/data/domain/tnum.lean, call by call: a state holds the         *)
(* arguments of one call of shl_aux, which shifts a by the amount b times  *)
(* amt and recurses on the tail of b with amt doubled.                     *)
(***************************************************************************)
EXTENDS Tnum

VARIABLES amt, a, b

shlVars == <<amt, a, b>>

ShlInit == amt = 1 /\ a \in Tnum /\ b \in Tnum

ShlCall ==
  /\ b # << >>
  /\ a' = shl_step(amt, a, Head(b))
  /\ b' = Tail(b)
  /\ amt' = 2 * amt

ShlDone == b = << >> /\ UNCHANGED shlVars

ShlSpec == ShlInit /\ [][ShlCall \/ ShlDone]_shlVars

-----------------------------------------------------------------------------

(***************************************************************************)
(* What shl_correct needs of every call: the result covers each word of a  *)
(* shifted by amt times each amount of b, the product taken as a number.   *)
(* The source's proof stops here (its lemma, below, is false, and its      *)
(* induction step is closed with the axiom bogus : false), so nothing in   *)
(* the repository establishes it.                                          *)
(***************************************************************************)
ShlAuxCovers ==
  \A x \in tnum_gamma(a), y \in tnum_gamma(b) :
    (x * 2^(y * amt)) % 2^W \in tnum_gamma(shl_aux(amt, a, b))

(***************************************************************************)
(* A known amount loses no precision: every trit of a moves up by the      *)
(* amount, the low trits become 0, and an amount beyond the width leaves   *)
(* the constant 0.                                                         *)
(***************************************************************************)
KnownAmountIsExact ==
  (\A i \in 1 .. Len(b) : b[i] # X) =>
    \A y \in tnum_gamma(b) : \A i \in 1 .. W :
      shl_aux(amt, a, b)[i] = IF i > y * amt THEN a[i - y * amt] ELSE 0

(***************************************************************************)
(* The lemma shl_aux_correct (tnum.lean:468), as stated: the amount is the *)
(* product reduced to the width of b, bv.of_nat (bv.to_nat y * amt).       *)
(***************************************************************************)
shl_aux_correct ==
  \A x \in tnum_gamma(a), y \in tnum_gamma(b) :
    (x * 2^((y * amt) % 2^Len(b))) % 2^W \in tnum_gamma(shl_aux(amt, a, b))
=============================================================================
