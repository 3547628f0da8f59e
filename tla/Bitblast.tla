------------------------------ MODULE Bitblast ------------------------------
(***************************************************************************)
(* Circuits of words: lean/src/smt/bitblast and the defaults of            *)
(* lean/src/smt/factory.lean.  A vector of refs, least significant first,  *)
(* is a word; a comparison is a vector of one ref.                         *)
(***************************************************************************)
EXTENDS Naturals, Sequences, SequencesExt

CONSTANT Input

S == INSTANCE SatFactory        \* the operations on single refs

Repeat(b, n) == [i \in 1 .. n |-> b]

\* demote_mk_binary_op: the default, an empty vector, if ill-typed.
typed(v1, v2, p, g) == IF Len(v1) = Len(v2) THEN p ELSE <<<< >>, g>>

\* vector.mmap
mk_unary_bitwise_op(f(_, _), g, v) ==
  FoldLeft(LAMBDA p, x : S!bind(f(p[2], x), LAMBDA r, h : <<Append(p[1], r), h>>),
           <<<< >>, g>>, v)

mk_binary_bitwise_op(f(_, _, _), g, v1, v2) ==
  mk_unary_bitwise_op(LAMBDA h, p : f(h, p[1], p[2]), g, Zip(v1, v2))

\* A constant costs no node: c is a sequence of bits.
mk_const(g, c) == <<[i \in DOMAIN c |-> IF c[i] = 1 THEN S!top ELSE S!bot], g>>

\* b gives the erased value of every bit.
mk_var(g, b) == mk_unary_bitwise_op(S!mk_var, g, b)

-----------------------------------------------------------------------------
(* Bitwise operations.                                                     *)

mk_not(g, v) == mk_unary_bitwise_op(S!mk_not, g, v)

mk_and(g, v1, v2) == typed(v1, v2, mk_binary_bitwise_op(S!mk_and, g, v1, v2), g)

mk_xor(g, v1, v2) == typed(v1, v2, mk_binary_bitwise_op(S!mk_xor, g, v1, v2), g)

mk_or(g, v1, v2) ==
  S!bind(mk_not(g, v1), LAMBDA n1, g1 :
  S!bind(mk_not(g1, v2), LAMBDA n2, g2 :
  S!bind(mk_and(g2, n1, n2), LAMBDA r, g3 : mk_not(g3, r))))

mk_implies(g, v1, v2) == S!bind(mk_not(g, v1), LAMBDA n, g1 : mk_or(g1, v2, n))

\* Both branches have one width, the condition is one ref.
mk_ite(g, c, v1, v2) ==
  typed(v1, v2,
        mk_binary_bitwise_op(LAMBDA f, x, y : S!mk_ite(f, c, x, y), g, v1, v2), g)

mk_concat(g, v1, v2) == <<v2 \o v1, g>>

mk_extract(g, upper, lower, v) == <<SubSeq(v, lower + 1, upper + 1), g>>

mk_msb(g, v) ==
  IF v = << >> THEN <<<<S!bot>>, g>> ELSE mk_extract(g, Len(v) - 1, Len(v) - 1, v)

-----------------------------------------------------------------------------
(* Arithmetic.                                                             *)

\* The sum and the carry out.
mk_adc(g, v1, v2, c) ==
  FoldLeft(LAMBDA p, b :
             S!bind(S!mk_full_add(p[2], b[1], b[2], p[1][2]),
                    LAMBDA r, h : <<<<Append(p[1][1], r[1]), r[2]>>, h>>),
           <<<<<< >>, c>>, g>>, Zip(v1, v2))

\* The word of a result with a carry.
word(p) == <<p[1][1], p[2]>>

mk_add_carry(g, v1, v2) == mk_adc(g, v1, v2, S!bot)

mk_add(g, v1, v2) == typed(v1, v2, word(mk_add_carry(g, v1, v2)), g)

mk_sbc(g, v1, v2, c) ==
  S!bind(mk_not(g, v2), LAMBDA n, g1 : mk_adc(g1, v1, n, c))

\* The carry of a subtraction says that v1 >= v2.
mk_sub_carry(g, v1, v2) == mk_sbc(g, v1, v2, S!top)

mk_sub(g, v1, v2) == typed(v1, v2, word(mk_sub_carry(g, v1, v2)), g)

mk_neg(g, v) ==
  S!bind(mk_not(g, v), LAMBDA n, g1 :
  S!bind(mk_const(g1, [i \in DOMAIN v |-> IF i = 1 THEN 1 ELSE 0]),
         LAMBDA one, g2 : mk_add(g2, n, one)))

\* Partial products, most of them narrower than the word.
RECURSIVE mul(_, _, _)
mul(g, v1, v2) ==
  IF v1 = << >> THEN <<<< >>, g>>
  ELSE S!bind(mk_unary_bitwise_op(LAMBDA h, x : S!mk_and(h, Head(v2), x), g, v1),
              LAMBDA p, g1 :
       S!bind(mul(g1, Front(v1), Tail(v2)), LAMBDA r, g2 :
       S!bind(mk_add_carry(g2, Tail(p), r), LAMBDA s, g3 :
                <<<<Head(p)>> \o s[1], g3>>)))

mk_mul(g, v1, v2) == typed(v1, v2, mul(g, v1, v2), g)

\* Long division, the high bits of v1 first: quotient and remainder.  A step
\* takes the shifted remainder r to a bit of the quotient and what remains.
divide(step(_, _), g, v1, v2) ==
  FoldRight(LAMBDA b, p :
              S!bind(step(p[2], <<b>> \o Front(p[1][2])),
                     LAMBDA r, h : <<<<<<r[1]>> \o p[1][1], r[2]>>, h>>),
            v1, <<<<<< >>, Repeat(S!bot, Len(v2))>>, g>>)

fault_mk_udiv_urem(g, v1, v2) ==       \* does not restore the remainder
  divide(LAMBDA h, r :
           S!bind(mk_sub_carry(h, r, v2), LAMBDA s, h1 : <<<<s[2], s[1]>>, h1>>),
         g, v1, v2)

\* Restoring division.
mk_udiv_urem(g, v1, v2) ==
  divide(LAMBDA h, r :
           S!bind(mk_sub_carry(h, r, v2), LAMBDA s, h1 :
           S!bind(mk_ite(h1, s[2], s[1], r), LAMBDA t, h2 : <<<<s[2], t>>, h2>>)),
         g, v1, v2)

mk_urem(g, v1, v2) ==
  typed(v1, v2,
        S!bind(mk_udiv_urem(g, v1, v2), LAMBDA qr, h : <<qr[2], h>>), g)

\* The divider of udiv.lean, an instance of lower priority than the one below.
mk_udiv_circuit(g, v1, v2) ==
  typed(v1, v2, word(mk_udiv_urem(g, v1, v2)), g)

\* udiv_default: a new variable, whose erased value is the quotient b.
mk_udiv(g, b) == mk_var(g, b)

-----------------------------------------------------------------------------
(* Shifts, most significant bit of the amount first: mk_shl_rev and        *)
(* mk_lshr_rev on the reversed amount.                                     *)

by_amount(f(_, _), g, v1, v2) ==
  FoldRight(LAMBDA i, p : mk_ite(p[2], v2[i], f(p[1], 2^(i - 1)), p[1]),
            [i \in DOMAIN v2 |-> i], <<v1, g>>)

Least(m, n) == IF m < n THEN m ELSE n

up(v, amount) ==
  LET k == Least(Len(v), amount) IN Repeat(S!bot, k) \o SubSeq(v, 1, Len(v) - k)

down(v, amount) ==
  LET k == Least(Len(v), amount) IN SubSeq(v, k + 1, Len(v)) \o Repeat(S!bot, k)

mk_shl(g, v1, v2) == by_amount(up, g, v1, v2)

mk_lshr(g, v1, v2) == by_amount(down, g, v1, v2)

mk_ashr(g, v1, v2) ==
  S!bind(mk_not(g, v1), LAMBDA n, g1 :
  S!bind(mk_lshr(g1, n, v2), LAMBDA s, g2 :
  S!bind(mk_not(g2, s), LAMBDA r1, g3 :
  S!bind(mk_lshr(g3, v1, v2), LAMBDA r2, g4 :
  S!bind(mk_msb(g4, v1), LAMBDA msb, g5 : mk_ite(g5, Head(msb), r1, r2))))))

-----------------------------------------------------------------------------
(* Comparisons.                                                            *)

bit(p) == <<<<p[1]>>, p[2]>>

mk_eq(g, v1, v2) ==
  typed(v1, v2,
        S!bind(mk_binary_bitwise_op(S!mk_iff, g, v1, v2),
               LAMBDA r, h : bit(S!mk_all(h, r))), g)

mk_redor(g, v) == bit(S!mk_any(g, v))

mk_redand(g, v) == mk_eq(g, v, Repeat(S!top, Len(v)))

\* Comparators of one bit, chained from the least significant.
mk_ult(g, v1, v2) ==
  typed(v1, v2,
        bit(FoldLeft(LAMBDA p, b : S!mk_ult(p[2], b[1], b[2], p[1]),
                     <<S!bot, g>>, Zip(v1, v2))), g)

mk_ule(g, v1, v2) == S!bind(mk_ult(g, v2, v1), LAMBDA r, h : mk_not(h, r))

mk_slt(g, v1, v2) ==
  S!bind(mk_ult(g, v1, v2), LAMBDA ult, g1 :
  S!bind(mk_msb(g1, v1), LAMBDA m1, g2 :
  S!bind(mk_msb(g2, v2), LAMBDA m2, g3 :
  S!bind(mk_eq(g3, m1, m2), LAMBDA match, g4 :
  S!bind(mk_and(g4, match, ult), LAMBDA match_ult, g5 :
  S!bind(mk_not(g5, m2), LAMBDA n2, g6 :
  S!bind(mk_and(g6, m1, n2), LAMBDA lt, g7 : mk_or(g7, lt, match_ult))))))))

mk_sle(g, v1, v2) == S!bind(mk_slt(g, v2, v1), LAMBDA r, h : mk_not(h, r))
=============================================================================
