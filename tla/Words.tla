-------------------------------- MODULE Words --------------------------------
(***************************************************************************)
(* Machine words: the bitvectors of lean/src/data/bv/basic.lean.  A word   *)
(* of width W is the number bv.to_nat gives it; bit i is its i-th digit.   *)
(* The source instantiates the width at 64, the models at a few bits: no   *)
(* operator depends on the width being 64.                                 *)
(***************************************************************************)
EXTENDS Integers

CONSTANT W                      \* the width of a word, 64 in the source

ASSUME WAssumption == W \in Nat \ {0}

Word == 0 .. 2^W - 1

Bit(x, i) == (x \div 2^i) % 2

msb(x) == Bit(x, W - 1) = 1

AllOnes == 2^W - 1

(***************************************************************************)
(* The word whose i-th bit is f[i], for a function f from 0 .. W-1 to      *)
(* {0, 1}.                                                                 *)
(***************************************************************************)
FromBits(f) ==
  LET upto[n \in 0 .. W] ==
        IF n = 0 THEN 0 ELSE upto[n - 1] + f[n - 1] * 2^(n - 1)
  IN  upto[W]

bv_not(x) == AllOnes - x
bv_and(x, y) == FromBits([i \in 0 .. W - 1 |-> Bit(x, i) * Bit(y, i)])
bv_xor(x, y) == FromBits([i \in 0 .. W - 1 |-> (Bit(x, i) + Bit(y, i)) % 2])
bv_or(x, y) == bv_not(bv_and(bv_not(x), bv_not(y)))

bv_add(x, y) == (x + y) % 2^W
bv_neg(x) == (2^W - x) % 2^W
bv_sub(x, y) == (x - y) % 2^W
bv_mul(x, y) == (x * y) % 2^W

\* Division by zero is total: all ones, and the dividend as remainder.
udiv(x, y) == IF y = 0 THEN AllOnes ELSE x \div y
urem(x, y) == IF y = 0 THEN x ELSE x % y

\* The shift amount is a word and may exceed the width.
shl(x, y) == (x * 2^y) % 2^W
lshr(x, y) == x \div 2^y
ashr(x, y) == IF msb(x) THEN bv_not(lshr(bv_not(x), y)) ELSE lshr(x, y)

slt(x, y) == (msb(x) /\ ~msb(y)) \/ ((msb(x) <=> msb(y)) /\ x < y)
sle(x, y) == (msb(x) /\ ~msb(y)) \/ ((msb(x) <=> msb(y)) /\ x <= y)
=============================================================================
