----------------------------- MODULE KernelTnum -----------------------------
(***************************************************************************)
(* The tristate numbers of the Linux kernel, cbmc/tnum.c: a pair of words, *)
(* the known bits that are set and the bits that are not known.  The       *)
(* source's words have 64 bits and its half words 32; words of W = 2^LogW  *)
(* bits and half words of half as many stand for them.                     *)
(***************************************************************************)
EXTENDS Words

CONSTANT LogW                   \* 6 in the source, the rounds of a shift

ASSUME LogWAssumption == LogW \in Nat \ {0} /\ W = 2^LogW

Half == W \div 2

TNUM(v, m) == [value |-> v, mask |-> m]

tnum_valid(a) == bv_and(a.value, a.mask) = 0

tnum_contains(a, c) ==
  bv_add(bv_or(a.mask, bv_not(bv_xor(a.value, c))), 1) = 0

\* What nondet_tnum assumes.
KTnum == {a \in [value : Word, mask : Word] : tnum_valid(a)}

tnum_const(v) == TNUM(v, 0)

tnum_lshift(a, s) == TNUM(shl(a.value, s), shl(a.mask, s))
tnum_rshift(a, s) == TNUM(lshr(a.value, s), lshr(a.mask, s))

\* The low bits of x as a signed integer of that many bits, shifted right.
sar(x, s, bits) ==
  LET low == x % 2^bits
      ones == 2^bits - 1
  IN  IF low < 2^(bits - 1) THEN low \div 2^s ELSE ones - (ones - low) \div 2^s

tnum_arshift(a, s, bitness) ==
  TNUM(sar(a.value, s, bitness), sar(a.mask, s, bitness))

-----------------------------------------------------------------------------

tnum_add(a, b) ==
  LET sm == bv_add(a.mask, b.mask)
      sv == bv_add(a.value, b.value)
      chi == bv_xor(bv_add(sm, sv), sv)
      mu == bv_or(chi, bv_or(a.mask, b.mask))
  IN  TNUM(bv_and(sv, bv_not(mu)), mu)

fault_tnum_sub(a, b) ==                \* as if no borrow were uncertain
  LET dv == bv_sub(a.value, b.value)
      mu == bv_or(a.mask, b.mask)
  IN  TNUM(bv_and(dv, bv_not(mu)), mu)

tnum_sub(a, b) ==
  LET dv == bv_sub(a.value, b.value)
      chi == bv_xor(bv_add(dv, a.mask), bv_sub(dv, b.mask))
      mu == bv_or(chi, bv_or(a.mask, b.mask))
  IN  TNUM(bv_and(dv, bv_not(mu)), mu)

tnum_and(a, b) ==
  LET v == bv_and(a.value, b.value)
  IN  TNUM(v, bv_and(bv_and(bv_or(a.value, a.mask), bv_or(b.value, b.mask)),
                     bv_not(v)))

tnum_or(a, b) ==
  LET v == bv_or(a.value, b.value)
  IN  TNUM(v, bv_and(bv_or(a.mask, b.mask), bv_not(v)))

tnum_xor(a, b) ==
  LET mu == bv_or(a.mask, b.mask)
  IN  TNUM(bv_and(bv_xor(a.value, b.value), bv_not(mu)), mu)

fault_tnum_mul(a, b) ==                \* an uncertain bit adds the mask only
  LET acc_m[i \in 0 .. W] ==
        IF i = 0 THEN TNUM(0, 0)
        ELSE IF Bit(a.value, i - 1) = 1 \/ Bit(a.mask, i - 1) = 1
          THEN tnum_add(acc_m[i - 1], TNUM(0, shl(b.mask, i - 1)))
        ELSE acc_m[i - 1]
  IN  tnum_add(TNUM(bv_mul(a.value, b.value), 0), acc_m[W])

\* The product of the values, and one tnum of masks per bit of a.
tnum_mul(a, b) ==
  LET acc_m[i \in 0 .. W] ==
        IF i = 0 THEN TNUM(0, 0)
        ELSE LET shifted == tnum_lshift(b, i - 1)
             IN  CASE Bit(a.value, i - 1) = 1 ->
                        tnum_add(acc_m[i - 1], TNUM(0, shifted.mask))
                   [] Bit(a.value, i - 1) = 0 /\ Bit(a.mask, i - 1) = 1 ->
                        tnum_add(acc_m[i - 1],
                                 TNUM(0, bv_or(shifted.value, shifted.mask)))
                   [] OTHER -> acc_m[i - 1]
  IN  tnum_add(TNUM(bv_mul(a.value, b.value), 0), acc_m[W])

tnum_intersect(a, b) ==
  LET mu == bv_and(a.mask, b.mask)
  IN  TNUM(bv_and(bv_or(a.value, b.value), bv_not(mu)), mu)

tnum_union(a, b) ==
  LET mu == bv_or(bv_or(a.mask, b.mask), bv_xor(a.value, b.value))
  IN  TNUM(bv_and(bv_or(a.value, b.value), bv_not(mu)), mu)

\* Bit i of the amount shifts by 2^i if it is set, and perhaps if unknown.
by_amount(shift(_, _), a, b, bitness) ==
  LET amt == tnum_and(b, tnum_const(bitness - 1))
      round[i \in 0 .. LogW] ==
        IF i = 0 THEN a
        ELSE LET c == round[i - 1]
                 u == IF Bit(amt.mask, i - 1) = 1
                        THEN tnum_union(c, shift(c, 2^(i - 1))) ELSE c
             IN  IF Bit(amt.value, i - 1) = 1 THEN shift(u, 2^(i - 1)) ELSE u
  IN  round[LogW]

tnum_shl(a, b, bitness) == by_amount(tnum_lshift, a, b, bitness)
tnum_lshr(a, b, bitness) == by_amount(tnum_rshift, a, b, bitness)

-----------------------------------------------------------------------------

\* Truncation to fewer bits than a word: the source only asks for half.
tnum_cast(a, bits) ==
  TNUM(bv_and(a.value, 2^bits - 1), bv_and(a.mask, 2^bits - 1))

tnum_is_aligned(a, size) ==
  size = 0 \/ bv_and(bv_or(a.value, a.mask), size - 1) = 0

\* b is a subset of a.
tnum_in(a, b) ==
  /\ bv_and(b.mask, bv_not(a.mask)) = 0
  /\ a.value = bv_and(b.value, bv_not(a.mask))

tnum_subreg(a) == tnum_cast(a, Half)
tnum_clear_subreg(a) == tnum_lshift(tnum_rshift(a, Half), Half)
tnum_const_subreg(a, v) == tnum_or(tnum_clear_subreg(a), tnum_const(v))
=============================================================================
