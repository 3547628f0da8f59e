------------------------------ MODULE KernelWalk ------------------------------
(***************************************************************************)
(* A register of the kernel's verifier, executed twice: x is its value, a  *)
(* the tnum that cbmc/tnum.c computes for it.  main asserts soundness of   *)
(* one operation at a time, of the addition, the subtraction and the       *)
(* bitwise ones; the shifts are commented out there, and multiplication,   *)
(* union, intersection and the half words were never asserted.  The same   *)
(* tnums, as vectors of trits, are those of lean/src/data/domain/tnum.lean.*)
(***************************************************************************)
EXTENDS KernelTnum

CONSTANT NoTnum                 \* bottom of the other implementation

L == INSTANCE Tnum              \* the Lean implementation

VARIABLES x, a

vars == <<x, a>>

Init == x \in Word /\ a = tnum_const(x)

Bitness == {Half, W}

\* The second operand, abstract and concrete.
Operand == {o \in KTnum \X Word : tnum_contains(o[1], o[2])}

Arith(b, y) ==
  \/ x' = bv_add(x, y) /\ a' = tnum_add(a, b)
  \/ x' = bv_sub(x, y) /\ a' = tnum_sub(a, b)
  \/ x' = bv_and(x, y) /\ a' = tnum_and(a, b)
  \/ x' = bv_or(x, y) /\ a' = tnum_or(a, b)
  \/ x' = bv_xor(x, y) /\ a' = tnum_xor(a, b)
  \/ x' = bv_mul(x, y) /\ a' = tnum_mul(a, b)

Shift(b, y, bitness) ==
  \/ x' = shl(x, y % bitness) /\ a' = tnum_shl(a, b, bitness)
  \/ x' = lshr(x, y % bitness) /\ a' = tnum_lshr(a, b, bitness)

\* By a known amount only.
ShiftArith(s, bitness) ==
  x' = sar(x, s, bitness) /\ a' = tnum_arshift(a, s, bitness)

Subreg ==
  \/ x' = x % 2^Half /\ a' = tnum_subreg(a)
  \/ x' = (x \div 2^Half) * 2^Half /\ a' = tnum_clear_subreg(a)
  \/ \E v \in 0 .. 2^Half - 1 :
       x' = (x \div 2^Half) * 2^Half + v /\ a' = tnum_const_subreg(a, v)

\* Control flow meets, or a test tells more of the same value.
Meet(b, y) ==
  /\ UNCHANGED x
  /\ \/ a' = tnum_union(a, b)
     \/ y = x /\ a' = tnum_intersect(a, b)

Next ==
  \/ \E o \in Operand : Arith(o[1], o[2]) \/ Meet(o[1], o[2])
  \/ \E o \in Operand, bitness \in Bitness : Shift(o[1], o[2], bitness)
  \/ \E bitness \in Bitness : \E s \in 0 .. bitness - 1 : ShiftArith(s, bitness)
  \/ Subreg

Spec == Init /\ [][Next]_vars

-----------------------------------------------------------------------------

(***************************************************************************)
(* After any sequence of operations the tnum is valid and contains the     *)
(* value: main's assertions, for all operations and for their compositions.*)
(* A pointer that the tnum says is aligned is aligned.                     *)
(***************************************************************************)
KernelSound ==
  /\ tnum_valid(a)
  /\ tnum_contains(a, x)
  /\ \A k \in 0 .. LogW : tnum_is_aligned(a, 2^k) => x % 2^k = 0

\* The trits of a kernel tnum.
trits(t) ==
  [i \in 1 .. W |-> IF Bit(t.mask, i - 1) = 1 THEN L!X ELSE Bit(t.value, i - 1)]

(***************************************************************************)
(* The word-level tricks of the C code (carries found by exclusive or) and *)
(* the trit-level recursion of the Lean code compute the same tnums, so    *)
(* what is proved of one holds of the other; where tnums disagree the      *)
(* kernel's intersection is not bottom, and nothing is said of it.         *)
(* Multiplication differs.                                                 *)
(***************************************************************************)
KernelAgrees ==
  \A b \in KTnum :
    LET s == trits(a)
        t == trits(b)
    IN  /\ trits(tnum_add(a, b)) = L!tnum_add(s, t)
        /\ trits(tnum_sub(a, b)) = L!tnum_sub(s, t)
        /\ trits(tnum_and(a, b)) = L!tnum_and(s, t)
        /\ trits(tnum_or(a, b)) = L!tnum_or(s, t)
        /\ trits(tnum_xor(a, b)) = L!tnum_xor(s, t)
        /\ trits(tnum_union(a, b)) = L!tnum_join(s, t)
        /\ L!tnum_meet(s, t) \in {NoTnum, trits(tnum_intersect(a, b))}
        /\ trits(tnum_shl(a, b, W))
             = L!tnum_shl(s, L!tnum_and(t, L!tnum_const(W - 1)))
        /\ tnum_in(a, b) <=> L!tnum_le(t, s)
=============================================================================
