-------------------------------- MODULE Tnum --------------------------------
(***************************************************************************)
(* Tristate numbers: lean/src/data/domain/trit.lean and tnum.lean.  A trit *)
(* is a known bit, 0 or 1, or X, unknown; a tnum is a vector of W trits,   *)
(* least significant first, and stands for the words that agree with it on *)
(* the known bits.                                                         *)
(***************************************************************************)
EXTENDS Words, Sequences

CONSTANT NoTnum                 \* bottom, the meet of disjoint tnums

X == 2
Trit == {0, 1, X}
TnumOf(n) == [1 .. n -> Trit]

Map(f(_), a) == [i \in 1 .. Len(a) |-> f(a[i])]
Map2(f(_, _), a, b) == [i \in 1 .. Len(a) |-> f(a[i], b[i])]
Repeat(t, n) == [i \in 1 .. n |-> t]

-----------------------------------------------------------------------------
(* Trits.                                                                  *)

trit_gamma(t) == IF t = X THEN {0, 1} ELSE {t}

trit_le(s, t) == t = X \/ s = t

trit_join(s, t) == IF s = t THEN s ELSE X

trit_not(s) == IF s = X THEN X ELSE 1 - s

trit_and(s, t) == IF s = 0 \/ t = 0 THEN 0 ELSE IF s = 1 /\ t = 1 THEN 1 ELSE X

trit_or(s, t) == IF s = 1 \/ t = 1 THEN 1 ELSE IF s = 0 /\ t = 0 THEN 0 ELSE X

trit_xor(s, t) == IF X \in {s, t} THEN X ELSE (s + t) % 2

\* The sum and the carry; the carry is known if two equal inputs decide it.
fault_full_add(a, b, cin) ==
  CASE X \notin {a, b, cin} -> <<(a + b + cin) % 2, (a + b + cin) \div 2>>
    [] OTHER                -> <<X, trit_or(trit_and(a, b), trit_and(a, cin))>>

full_add(a, b, cin) ==
  CASE X \notin {a, b, cin} -> <<(a + b + cin) % 2, (a + b + cin) \div 2>>
    [] cin = X /\ a # X /\ a = b   -> <<X, a>>
    [] b = X /\ a # X /\ a = cin   -> <<X, a>>
    [] a = X /\ b # X /\ b = cin   -> <<X, b>>
    [] OTHER                       -> <<X, X>>

-----------------------------------------------------------------------------
(* Tnums.                                                                  *)

Tnum == TnumOf(W)

ASSUME NoTnumAssumption == NoTnum \notin Tnum

\* The words of t's width that t stands for.
tnum_gamma(t) ==
  {x \in 0 .. 2^Len(t) - 1 :
     \A i \in 1 .. Len(t) : Bit(x, i - 1) \in trit_gamma(t[i])}

tnum_const(x) == [i \in 1 .. W |-> Bit(x, i - 1)]

tnum_is_const(t) == \A i \in 1 .. W : t[i] # X

tnum_to_const(t) == FromBits([i \in 0 .. W - 1 |-> IF t[i + 1] = 1 THEN 1 ELSE 0])

tnum_top == Repeat(X, W)

tnum_le(a, b) == \A i \in 1 .. W : trit_le(a[i], b[i])

tnum_join(a, b) == Map2(trit_join, a, b)

fault_tnum_meet(a, b) ==               \* keeps what only the first knows
  IF \E i \in 1 .. W : X \notin {a[i], b[i]} /\ a[i] # b[i] THEN NoTnum
  ELSE a

\* with_bot: no tnum if some bit is known to be both 0 and 1.
tnum_meet(a, b) ==
  IF \E i \in 1 .. W : X \notin {a[i], b[i]} /\ a[i] # b[i] THEN NoTnum
  ELSE Map2(LAMBDA s, t : IF s = X THEN t ELSE s, a, b)

tnum_not(a) == Map(trit_not, a)
tnum_and(a, b) == Map2(trit_and, a, b)
tnum_or(a, b) == Map2(trit_or, a, b)
tnum_xor(a, b) == Map2(trit_xor, a, b)

\* Ripple-carry addition; carry[i] enters the i-th adder.
tnum_adc(a, b, c) ==
  LET carry[i \in 1 .. Len(a)] ==
        IF i = 1 THEN c ELSE full_add(a[i - 1], b[i - 1], carry[i - 1])[2]
  IN  [i \in 1 .. Len(a) |-> full_add(a[i], b[i], carry[i])[1]]

tnum_add(a, b) == tnum_adc(a, b, 0)
tnum_sub(a, b) == tnum_adc(a, tnum_not(b), 1)
tnum_neg(a) == tnum_add(tnum_not(a), tnum_const(1))

(***************************************************************************)
(* Shift and add, least significant bit of b first.  The recursion of the  *)
(* source drops a's last and b's first trit: product[n] is its result for  *)
(* the first n trits of a and the last n of b.                             *)
(***************************************************************************)
tnum_mul(a, b) ==
  LET product[n \in 0 .. W] ==
        IF n = 0 THEN << >>
        ELSE LET p == tnum_and(SubSeq(a, 1, n), Repeat(b[W - n + 1], n))
             IN  <<p[1]>> \o tnum_add(Tail(p), product[n - 1])
  IN  product[W]

\* Division only of constants.
fault_tnum_udiv(a, b) ==               \* does not look at the dividend
  IF tnum_is_const(b) THEN tnum_const(udiv(tnum_to_const(a), tnum_to_const(b)))
  ELSE tnum_top

tnum_udiv(a, b) ==
  IF tnum_is_const(a) /\ tnum_is_const(b)
    THEN tnum_const(udiv(tnum_to_const(a), tnum_to_const(b)))
    ELSE tnum_top

tnum_urem(a, b) ==
  IF tnum_is_const(a) /\ tnum_is_const(b)
    THEN tnum_const(urem(tnum_to_const(a), tnum_to_const(b)))
    ELSE tnum_top

\* Left shift by a known amount.
fault_shiftl(a, amt) ==                \* drops the low trits
  LET k == IF amt < Len(a) THEN amt ELSE Len(a)
  IN  Repeat(0, k) \o SubSeq(a, k + 1, Len(a))

shiftl(a, amt) ==
  LET k == IF amt < Len(a) THEN amt ELSE Len(a)
  IN  Repeat(0, k) \o SubSeq(a, 1, Len(a) - k)

\* One bit of the amount: shift by amt if it is set, and perhaps if unknown.
fault_shl_step(amt, a, t) == IF t = 0 THEN a ELSE shiftl(a, amt)

shl_step(amt, a, t) ==
  CASE t = 0 -> a
    [] t = 1 -> shiftl(a, amt)
    [] t = X -> tnum_join(a, shiftl(a, amt))

shl_aux(amt, a, b) ==
  LET shifted[j \in 0 .. Len(b)] ==
        IF j = 0 THEN a ELSE shl_step(amt * 2^(j - 1), shifted[j - 1], b[j])
  IN  shifted[Len(b)]

tnum_shl(a, b) == shl_aux(1, a, b)
tnum_lshr(a, b) == tnum_top
tnum_ashr(a, b) == tnum_top
=============================================================================
