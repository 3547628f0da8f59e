---------------------------- MODULE KernelProofs ----------------------------
(***************************************************************************)
(* KernelSound for words of every width W = 2^LogW: main of cbmc/tnum.c    *)
(* asserts it of one operation on a bounded word, and not of all of them.  *)
(* A tnum represents a word when each position fits.  Every operation      *)
(* is shown to keep that (the ...Represents lemmas), position by position: *)
(* the sum and the difference because the carries lie between those of the *)
(* least and of the greatest operands (SumBetween), the product because    *)
(* acc_m collects what the bits of the first operand add to the product of *)
(* the values, the shifts because the rounds add up to the amount.         *)
(* The operations that lean/src/data/domain/tnum.lean has too are shown to *)
(* give the same trits (the ...Agree lemmas).                              *)
(***************************************************************************)
EXTENDS KernelWalk, WordsProofs, Sequences

-----------------------------------------------------------------------------
(* What a tnum stands for, position by position.                           *)

PairOfWords == [value : Word, mask : Word]

\* A known bit is the word's, an unknown bit has value 0.
Fits(t, v, i) ==
  \/ Bit(t.mask, i) = 0 /\ Bit(v, i) = Bit(t.value, i)
  \/ Bit(t.mask, i) = 1 /\ Bit(t.value, i) = 0

Represents(t, v) ==
  /\ t \in PairOfWords /\ v \in Word
  /\ \A i \in 0 .. W - 1 : Fits(t, v, i)

\* Words are integers.
LEMMA WordInt ==
  \A u \in Word : u \in Int
  BY WordFacts

\* The bitwise operations of words, without arithmetic: w is the result.
IsNot(w, p) == \A i \in 0 .. W - 1 : Bit(w, i) = IF Bit(p, i) = 1 THEN 0 ELSE 1

IsAnd(w, p, q) ==
  \A i \in 0 .. W - 1 : Bit(w, i) = IF Bit(p, i) = 1 /\ Bit(q, i) = 1 THEN 1 ELSE 0

IsOr(w, p, q) ==
  \A i \in 0 .. W - 1 : Bit(w, i) = IF Bit(p, i) = 1 \/ Bit(q, i) = 1 THEN 1 ELSE 0

IsXor(w, p, q) ==
  \A i \in 0 .. W - 1 : Bit(w, i) = IF Bit(p, i) = Bit(q, i) THEN 0 ELSE 1

\* The operations of module Words are these.
LEMMA BitwiseFacts ==
  ASSUME NEW p \in Word, NEW q \in Word
  PROVE  /\ bv_not(p) \in Word /\ IsNot(bv_not(p), p)
         /\ bv_and(p, q) \in Word /\ IsAnd(bv_and(p, q), p, q)
         /\ bv_or(p, q) \in Word /\ IsOr(bv_or(p, q), p, q)
         /\ bv_xor(p, q) \in Word /\ IsXor(bv_xor(p, q), p, q)
<1>1. /\ bv_not(p) \in Word /\ bv_and(p, q) \in Word
      /\ bv_or(p, q) \in Word /\ bv_xor(p, q) \in Word
  BY NotBits, AndBits, OrBits, XorBits
<1>2. ASSUME NEW i \in 0 .. W - 1
      PROVE  /\ Bit(bv_not(p), i) = IF Bit(p, i) = 1 THEN 0 ELSE 1
             /\ Bit(bv_and(p, q), i)
                  = IF Bit(p, i) = 1 /\ Bit(q, i) = 1 THEN 1 ELSE 0
             /\ Bit(bv_or(p, q), i)
                  = IF Bit(p, i) = 1 \/ Bit(q, i) = 1 THEN 1 ELSE 0
             /\ Bit(bv_xor(p, q), i)
                  = IF Bit(p, i) = Bit(q, i) THEN 0 ELSE 1
  <2>1. Bit(p, i) \in {0, 1} /\ Bit(q, i) \in {0, 1}
    BY WordBitType
  <2>2. Bit(bv_not(p), i) = 1 - Bit(p, i)
    BY NotBits
  <2>3. Bit(bv_and(p, q), i) = Bit(p, i) * Bit(q, i)
    BY AndBits
  <2>4. Bit(bv_or(p, q), i) = 1 - (1 - Bit(p, i)) * (1 - Bit(q, i))
    BY OrBits
  <2>5. Bit(bv_xor(p, q), i) = (Bit(p, i) + Bit(q, i)) % 2
    BY XorBits
  <2> QED
    BY <2>1, <2>2, <2>3, <2>4, <2>5
<1> QED
  BY <1>1, <1>2 DEF IsNot, IsAnd, IsOr, IsXor

\* A word is zero if its bits are.
LEMMA ZeroWord ==
  ASSUME NEW p \in Word
  PROVE  p = 0 <=> \A i \in 0 .. W - 1 : Bit(p, i) = 0
<1>1. \A i \in 0 .. W - 1 : Bit(0, i) = 0
  BY ZeroBit, WAssumption
<1>2. 0 \in Word
  BY WordFacts
<1> QED
  BY <1>1, <1>2, WordExtensionality

\* Only the word of ones is followed by zero.
LEMMA OnesWord ==
  ASSUME NEW p \in Word
  PROVE  bv_add(p, 1) = 0 <=> \A i \in 0 .. W - 1 : Bit(p, i) = 1
<1>1. AllOnes \in Word /\ \A i \in 0 .. W - 1 : Bit(AllOnes, i) = 1
  <2>1. W \in Nat /\ \A i \in 0 .. W - 1 : i \in Nat /\ i < W
    BY WAssumption
  <2>2. \A i \in 0 .. W - 1 : Bit(2^W - 1, i) = 1
    BY <2>1, OnesBits
  <2> QED
    BY <2>2, WordFacts DEF AllOnes
<1>2. p = AllOnes <=> \A i \in 0 .. W - 1 : Bit(p, i) = 1
  BY <1>1, WordExtensionality
<1>3. bv_add(p, 1) = 0 <=> p = AllOnes
  <2> DEFINE d == 2^W
  <2>1. d \in Nat \ {0} /\ p \in 0 .. d - 1
    BY WordFacts
  <2>2. \A u \in Int : u % d \in 0 .. d - 1 /\ u = d * (u \div d) + (u % d)
    <3> HIDE DEF d
    <3> QED
      BY <2>1, DivMod
  <2>3. \A u \in 0 .. d - 1 : u % d = u
    BY LowSelf, WAssumption
  <2>4. (0 + d * 1) % d = 0 % d
    <3> HIDE DEF d
    <3> QED
      BY <2>1, ModShift
  <2> HIDE DEF d
  <2>5. CASE p = d - 1
    <3>1. p + 1 = 0 + d * 1 /\ 0 % d = 0
      BY <2>1, <2>3, <2>5
    <3> QED
      BY <2>4, <2>5, <3>1 DEF bv_add, AllOnes, d
  <2>6. CASE p # d - 1
    <3>1. p + 1 \in 0 .. d - 1 /\ p + 1 # 0
      BY <2>1, <2>6
    <3>2. (p + 1) % d # 0
      BY <2>3, <3>1
    <3> QED
      BY <2>6, <3>2 DEF bv_add, AllOnes, d
  <2> QED
    BY <2>5, <2>6
<1> QED
  BY <1>2, <1>3

\* A valid tnum has no position with both bits set.
LEMMA ValidMeans ==
  ASSUME NEW t \in PairOfWords
  PROVE  tnum_valid(t)
           <=> \A i \in 0 .. W - 1 : Bit(t.value, i) = 0 \/ Bit(t.mask, i) = 0
<1> DEFINE p == t.value
           m == t.mask
<1>1. p \in Word /\ m \in Word
  BY DEF PairOfWords
<1>2. \A i \in 0 .. W - 1 : Bit(p, i) \in {0, 1} /\ Bit(m, i) \in {0, 1}
  BY <1>1, WordBitType
<1>3. tnum_valid(t) <=> bv_and(p, m) = 0
  BY DEF tnum_valid
<1> HIDE DEF p, m
<1>4. bv_and(p, m) \in Word /\ IsAnd(bv_and(p, m), p, m)
  BY <1>1, BitwiseFacts
<1>5. bv_and(p, m) = 0 <=> \A i \in 0 .. W - 1 : Bit(bv_and(p, m), i) = 0
  BY <1>4, ZeroWord
<1> QED
  BY <1>2, <1>3, <1>4, <1>5 DEF IsAnd, p, m

\* Represents is what the two assertions of main say.
LEMMA RepresentsMeans ==
  ASSUME NEW t \in PairOfWords, NEW v \in Word
  PROVE  Represents(t, v) <=> tnum_valid(t) /\ tnum_contains(t, v)
<1> DEFINE p == t.value
           m == t.mask
           e == bv_xor(p, v)
           n == bv_not(e)
           o == bv_or(m, n)
<1>1. p \in Word /\ m \in Word
  BY DEF PairOfWords
<1> HIDE DEF p, m
<1>2. \A i \in 0 .. W - 1 :
        Bit(p, i) \in {0, 1} /\ Bit(m, i) \in {0, 1} /\ Bit(v, i) \in {0, 1}
  BY <1>1, WordBitType
<1>3. e \in Word /\ IsXor(e, p, v)
  BY <1>1, BitwiseFacts
<1> HIDE DEF e
<1>4. n \in Word /\ IsNot(n, e)
  BY <1>3, BitwiseFacts
<1> HIDE DEF n
<1>5. o \in Word /\ IsOr(o, m, n)
  BY <1>1, <1>4, BitwiseFacts
<1>6. tnum_valid(t) <=> \A i \in 0 .. W - 1 : Bit(p, i) = 0 \/ Bit(m, i) = 0
  BY ValidMeans DEF p, m
<1>7. tnum_contains(t, v)
        <=> \A i \in 0 .. W - 1 : Bit(m, i) = 1 \/ Bit(p, i) = Bit(v, i)
  <2>1. tnum_contains(t, v) <=> bv_add(o, 1) = 0
    BY DEF tnum_contains, p, m, e, n
  <2>2. bv_add(o, 1) = 0 <=> \A i \in 0 .. W - 1 : Bit(o, i) = 1
    BY <1>5, OnesWord
  <2>3. \A i \in 0 .. W - 1 : Bit(o, i) = 1 <=> Bit(m, i) = 1 \/ Bit(p, i) = Bit(v, i)
    BY <1>2, <1>3, <1>4, <1>5 DEF IsXor, IsNot, IsOr
  <2> QED
    BY <2>1, <2>2, <2>3
<1>8. Represents(t, v) <=>
        \A i \in 0 .. W - 1 : \/ Bit(m, i) = 0 /\ Bit(v, i) = Bit(p, i)
                              \/ Bit(m, i) = 1 /\ Bit(p, i) = 0
  BY DEF Represents, Fits, p, m
<1> QED
  BY <1>2, <1>6, <1>7, <1>8

\* The parts of a tnum that represents a word.
LEMMA Represented ==
  ASSUME NEW t, NEW v, Represents(t, v)
  PROVE  /\ t \in PairOfWords /\ t.value \in Word /\ t.mask \in Word /\ v \in Word
         /\ \A i \in 0 .. W - 1 :
              /\ Bit(t.value, i) \in {0, 1} /\ Bit(t.mask, i) \in {0, 1}
              /\ Bit(v, i) \in {0, 1}
              /\ \/ Bit(t.mask, i) = 0 /\ Bit(v, i) = Bit(t.value, i)
                 \/ Bit(t.mask, i) = 1 /\ Bit(t.value, i) = 0
<1>1. t \in PairOfWords /\ t.value \in Word /\ t.mask \in Word /\ v \in Word
  BY DEF Represents, PairOfWords
<1> QED
  BY <1>1, WordBitType DEF Represents, Fits

\* A tnum that represents a word represents its value.
LEMMA OwnValue ==
  ASSUME NEW t, NEW v, Represents(t, v)
  PROVE  Represents(t, t.value)
  BY Represented DEF Represents, Fits

\* A valid tnum represents its value.
LEMMA ValidRepresents ==
  ASSUME NEW t \in KTnum
  PROVE  Represents(t, t.value)
<1>1. t \in PairOfWords /\ tnum_valid(t)
  BY DEF KTnum, PairOfWords
<1>2. t.value \in Word /\ t.mask \in Word
  BY <1>1 DEF PairOfWords
<1>3. \A i \in 0 .. W - 1 : Bit(t.value, i) \in {0, 1} /\ Bit(t.mask, i) \in {0, 1}
  BY <1>2, WordBitType
<1> QED
  BY <1>1, <1>2, <1>3, ValidMeans DEF Represents, Fits

\* A tnum made of two words.
LEMMA MadeOf ==
  ASSUME NEW p \in Word, NEW m \in Word, NEW v \in Word,
         \A i \in 0 .. W - 1 : \/ Bit(m, i) = 0 /\ Bit(v, i) = Bit(p, i)
                               \/ Bit(m, i) = 1 /\ Bit(p, i) = 0
  PROVE  Represents(TNUM(p, m), v)
<1>1. TNUM(p, m) \in PairOfWords /\ TNUM(p, m).value = p /\ TNUM(p, m).mask = m
  BY DEF TNUM, PairOfWords
<1> HIDE DEF TNUM
<1> QED
  BY <1>1 DEF Represents, Fits

\* A constant represents itself.
LEMMA ConstRepresents ==
  ASSUME NEW v \in Word
  PROVE  Represents(tnum_const(v), v)
<1>1. 0 \in Word /\ \A i \in 0 .. W - 1 : Bit(0, i) = 0
  BY WordFacts, ZeroWord
<1> QED
  BY <1>1, MadeOf DEF tnum_const

-----------------------------------------------------------------------------
(* The bitwise operations, and the two that leave the word alone.          *)

\* A position of the conjunction is known if either operand's is 0 or both are 1.
LEMMA AndParts ==
  ASSUME NEW s \in PairOfWords, NEW t \in PairOfWords, NEW r, r = tnum_and(s, t)
  PROVE  /\ r \in PairOfWords
         /\ \A i \in 0 .. W - 1 :
              /\ Bit(r.value, i)
                   = IF Bit(s.value, i) = 1 /\ Bit(t.value, i) = 1 THEN 1 ELSE 0
              /\ Bit(r.mask, i)
                   = IF /\ Bit(s.value, i) = 1 \/ Bit(s.mask, i) = 1
                        /\ Bit(t.value, i) = 1 \/ Bit(t.mask, i) = 1
                        /\ ~ (Bit(s.value, i) = 1 /\ Bit(t.value, i) = 1)
                     THEN 1 ELSE 0
<1> DEFINE p == bv_and(s.value, t.value)
           e == bv_or(s.value, s.mask)
           f == bv_or(t.value, t.mask)
           g == bv_and(e, f)
           n == bv_not(p)
           m == bv_and(g, n)
<1>1. s.value \in Word /\ s.mask \in Word /\ t.value \in Word /\ t.mask \in Word
  BY DEF PairOfWords
<1>2. /\ p \in Word /\ IsAnd(p, s.value, t.value)
      /\ e \in Word /\ IsOr(e, s.value, s.mask)
      /\ f \in Word /\ IsOr(f, t.value, t.mask)
  BY <1>1, BitwiseFacts
<1>3. r = TNUM(p, m)
  BY DEF tnum_and
<1> HIDE DEF p, e, f
<1>4. g \in Word /\ IsAnd(g, e, f) /\ n \in Word /\ IsNot(n, p)
  BY <1>2, BitwiseFacts
<1> HIDE DEF g, n
<1>5. m \in Word /\ IsAnd(m, g, n)
  BY <1>4, BitwiseFacts
<1> HIDE DEF m
<1>6. r \in PairOfWords /\ r.value = p /\ r.mask = m
  BY <1>2, <1>3, <1>5 DEF TNUM, PairOfWords
<1> QED
  BY <1>2, <1>4, <1>5, <1>6 DEF IsNot, IsAnd, IsOr

\* The conjunction represents what its operands do.
LEMMA AndRepresents ==
  ASSUME NEW s, NEW t, NEW u, NEW v, Represents(s, u), Represents(t, v)
  PROVE  Represents(tnum_and(s, t), bv_and(u, v))
<1> DEFINE r == tnum_and(s, t)
           w == bv_and(u, v)
<1>1. s \in PairOfWords /\ t \in PairOfWords /\ u \in Word /\ v \in Word
  BY Represented
<1>2. w \in Word /\ IsAnd(w, u, v)
  BY <1>1, BitwiseFacts
<1>3. /\ r \in PairOfWords
      /\ \A i \in 0 .. W - 1 :
           /\ Bit(r.value, i)
                = IF Bit(s.value, i) = 1 /\ Bit(t.value, i) = 1 THEN 1 ELSE 0
           /\ Bit(r.mask, i)
                = IF /\ Bit(s.value, i) = 1 \/ Bit(s.mask, i) = 1
                     /\ Bit(t.value, i) = 1 \/ Bit(t.mask, i) = 1
                     /\ ~ (Bit(s.value, i) = 1 /\ Bit(t.value, i) = 1)
                  THEN 1 ELSE 0
  BY <1>1, AndParts
<1> HIDE DEF r, w
<1>4. ASSUME NEW i \in 0 .. W - 1 PROVE Fits(r, w, i)
  <2>1. /\ \/ Bit(s.mask, i) = 0 /\ Bit(u, i) = Bit(s.value, i)
           \/ Bit(s.mask, i) = 1 /\ Bit(s.value, i) = 0
        /\ \/ Bit(t.mask, i) = 0 /\ Bit(v, i) = Bit(t.value, i)
           \/ Bit(t.mask, i) = 1 /\ Bit(t.value, i) = 0
    BY Represented
  <2> QED
    BY <1>2, <1>3, <2>1 DEF IsAnd, Fits
<1> QED
  BY <1>2, <1>3, <1>4 DEF Represents, r, w

\* A position of the disjunction is known if either operand's is 1 or both are 0.
LEMMA OrParts ==
  ASSUME NEW s \in PairOfWords, NEW t \in PairOfWords, NEW r, r = tnum_or(s, t)
  PROVE  /\ r \in PairOfWords
         /\ \A i \in 0 .. W - 1 :
              /\ Bit(r.value, i)
                   = IF Bit(s.value, i) = 1 \/ Bit(t.value, i) = 1 THEN 1 ELSE 0
              /\ Bit(r.mask, i)
                   = IF /\ Bit(s.mask, i) = 1 \/ Bit(t.mask, i) = 1
                        /\ ~ (Bit(s.value, i) = 1 \/ Bit(t.value, i) = 1)
                     THEN 1 ELSE 0
<1> DEFINE p == bv_or(s.value, t.value)
           e == bv_or(s.mask, t.mask)
           n == bv_not(p)
           m == bv_and(e, n)
<1>1. s.value \in Word /\ s.mask \in Word /\ t.value \in Word /\ t.mask \in Word
  BY DEF PairOfWords
<1>2. /\ p \in Word /\ IsOr(p, s.value, t.value)
      /\ e \in Word /\ IsOr(e, s.mask, t.mask)
  BY <1>1, BitwiseFacts
<1>3. r = TNUM(p, m)
  BY DEF tnum_or
<1> HIDE DEF p, e
<1>4. n \in Word /\ IsNot(n, p)
  BY <1>2, BitwiseFacts
<1> HIDE DEF n
<1>5. m \in Word /\ IsAnd(m, e, n)
  BY <1>2, <1>4, BitwiseFacts
<1> HIDE DEF m
<1>6. r \in PairOfWords /\ r.value = p /\ r.mask = m
  BY <1>2, <1>3, <1>5 DEF TNUM, PairOfWords
<1> QED
  BY <1>2, <1>4, <1>5, <1>6 DEF IsNot, IsAnd, IsOr

\* The disjunction represents what its operands do.
LEMMA OrRepresents ==
  ASSUME NEW s, NEW t, NEW u, NEW v, Represents(s, u), Represents(t, v)
  PROVE  Represents(tnum_or(s, t), bv_or(u, v))
<1> DEFINE r == tnum_or(s, t)
           w == bv_or(u, v)
<1>1. s \in PairOfWords /\ t \in PairOfWords /\ u \in Word /\ v \in Word
  BY Represented
<1>2. w \in Word /\ IsOr(w, u, v)
  BY <1>1, BitwiseFacts
<1>3. /\ r \in PairOfWords
      /\ \A i \in 0 .. W - 1 :
           /\ Bit(r.value, i)
                = IF Bit(s.value, i) = 1 \/ Bit(t.value, i) = 1 THEN 1 ELSE 0
           /\ Bit(r.mask, i)
                = IF /\ Bit(s.mask, i) = 1 \/ Bit(t.mask, i) = 1
                     /\ ~ (Bit(s.value, i) = 1 \/ Bit(t.value, i) = 1)
                  THEN 1 ELSE 0
  BY <1>1, OrParts
<1> HIDE DEF r, w
<1>4. ASSUME NEW i \in 0 .. W - 1 PROVE Fits(r, w, i)
  <2>1. /\ \/ Bit(s.mask, i) = 0 /\ Bit(u, i) = Bit(s.value, i)
           \/ Bit(s.mask, i) = 1 /\ Bit(s.value, i) = 0
        /\ \/ Bit(t.mask, i) = 0 /\ Bit(v, i) = Bit(t.value, i)
           \/ Bit(t.mask, i) = 1 /\ Bit(t.value, i) = 0
    BY Represented
  <2> QED
    BY <1>2, <1>3, <2>1 DEF IsOr, Fits
<1> QED
  BY <1>2, <1>3, <1>4 DEF Represents, r, w

\* Common to the operations whose mask is m and whose value is masked: nothing
\* that e has where the mask is set counts.
Masked(r, e, m) ==
  /\ r \in PairOfWords /\ r.mask = m
  /\ \A i \in 0 .. W - 1 :
       /\ Bit(m, i) \in {0, 1} /\ Bit(e, i) \in {0, 1}
       /\ Bit(r.value, i) = IF Bit(m, i) = 1 THEN 0 ELSE Bit(e, i)

\* The value is masked by a complement and a conjunction.
LEMMA MaskedParts ==
  ASSUME NEW e \in Word, NEW m \in Word
  PROVE  Masked(TNUM(bv_and(e, bv_not(m)), m), e, m)
<1> DEFINE n == bv_not(m)
           p == bv_and(e, n)
           r == TNUM(p, m)
<1>1. n \in Word /\ IsNot(n, m)
  BY BitwiseFacts
<1> HIDE DEF n
<1>2. p \in Word /\ IsAnd(p, e, n)
  BY <1>1, BitwiseFacts
<1>3. \A i \in 0 .. W - 1 : Bit(e, i) \in {0, 1} /\ Bit(m, i) \in {0, 1}
  BY WordBitType
<1> HIDE DEF p
<1>4. r \in PairOfWords /\ r.value = p /\ r.mask = m
  BY <1>2 DEF TNUM, PairOfWords
<1> HIDE DEF r
<1>5. Masked(r, e, m)
  BY <1>1, <1>2, <1>3, <1>4 DEF Masked, IsNot, IsAnd
<1> QED
  BY <1>5 DEF r, p, n

\* It represents a word that e agrees with where the mask is not set.
LEMMA MaskedOff ==
  ASSUME NEW r, NEW e, NEW m, Masked(r, e, m), NEW v \in Word,
         \A i \in 0 .. W - 1 : Bit(m, i) = 0 => Bit(v, i) = Bit(e, i)
  PROVE  Represents(r, v)
  BY DEF Masked, Represents, Fits

\* A position of the exclusive or is known if both operands' are.
LEMMA XorParts ==
  ASSUME NEW s \in PairOfWords, NEW t \in PairOfWords
  PROVE  \E e \in Word, m \in Word :
           /\ Masked(tnum_xor(s, t), e, m)
           /\ IsXor(e, s.value, t.value) /\ IsOr(m, s.mask, t.mask)
<1> DEFINE e == bv_xor(s.value, t.value)
           m == bv_or(s.mask, t.mask)
<1>1. s.value \in Word /\ s.mask \in Word /\ t.value \in Word /\ t.mask \in Word
  BY DEF PairOfWords
<1>2. e \in Word /\ IsXor(e, s.value, t.value) /\ m \in Word /\ IsOr(m, s.mask, t.mask)
  BY <1>1, BitwiseFacts
<1>3. tnum_xor(s, t) = TNUM(bv_and(e, bv_not(m)), m)
  BY DEF tnum_xor
<1> HIDE DEF e, m
<1> QED
  BY <1>2, <1>3, MaskedParts

\* The exclusive or represents what its operands do.
LEMMA XorRepresents ==
  ASSUME NEW s, NEW t, NEW u, NEW v, Represents(s, u), Represents(t, v)
  PROVE  Represents(tnum_xor(s, t), bv_xor(u, v))
<1> DEFINE w == bv_xor(u, v)
<1>1. s \in PairOfWords /\ t \in PairOfWords /\ u \in Word /\ v \in Word
  BY Represented
<1>2. w \in Word /\ IsXor(w, u, v)
  BY <1>1, BitwiseFacts
<1>3. PICK e \in Word, m \in Word :
        /\ Masked(tnum_xor(s, t), e, m)
        /\ IsXor(e, s.value, t.value) /\ IsOr(m, s.mask, t.mask)
  BY <1>1, XorParts
<1> HIDE DEF w
<1>4. ASSUME NEW i \in 0 .. W - 1, Bit(m, i) = 0 PROVE Bit(w, i) = Bit(e, i)
  <2>1. Bit(u, i) = Bit(s.value, i) /\ Bit(v, i) = Bit(t.value, i)
    BY <1>3, <1>4, Represented DEF IsOr
  <2> QED
    BY <2>1, <1>2, <1>3 DEF IsXor
<1> QED
  BY <1>2, <1>3, <1>4, MaskedOff DEF w

\* A position of the union is known if it is known in both and the same.
LEMMA UnionParts ==
  ASSUME NEW s \in PairOfWords, NEW t \in PairOfWords
  PROVE  \E e \in Word, m \in Word :
           /\ Masked(tnum_union(s, t), e, m)
           /\ IsOr(e, s.value, t.value)
           /\ \A i \in 0 .. W - 1 :
                Bit(m, i) = IF \/ Bit(s.mask, i) = 1 \/ Bit(t.mask, i) = 1
                               \/ Bit(s.value, i) # Bit(t.value, i) THEN 1 ELSE 0
<1> DEFINE c == bv_or(s.mask, t.mask)
           d == bv_xor(s.value, t.value)
           m == bv_or(c, d)
           e == bv_or(s.value, t.value)
<1>1. s.value \in Word /\ s.mask \in Word /\ t.value \in Word /\ t.mask \in Word
  BY DEF PairOfWords
<1>2. /\ c \in Word /\ IsOr(c, s.mask, t.mask)
      /\ d \in Word /\ IsXor(d, s.value, t.value)
      /\ e \in Word /\ IsOr(e, s.value, t.value)
  BY <1>1, BitwiseFacts
<1>3. tnum_union(s, t) = TNUM(bv_and(e, bv_not(m)), m)
  BY DEF tnum_union
<1> HIDE DEF c, d, e
<1>4. m \in Word /\ IsOr(m, c, d)
  BY <1>2, BitwiseFacts
<1> HIDE DEF m
<1>5. \A i \in 0 .. W - 1 :
        Bit(m, i) = IF \/ Bit(s.mask, i) = 1 \/ Bit(t.mask, i) = 1
                       \/ Bit(s.value, i) # Bit(t.value, i) THEN 1 ELSE 0
  BY <1>2, <1>4 DEF IsOr, IsXor
<1>6. Masked(tnum_union(s, t), e, m)
  BY <1>2, <1>3, <1>4, MaskedParts
<1> QED
  BY <1>2, <1>4, <1>5, <1>6

\* The union represents what either operand does.
LEMMA UnionRepresents ==
  ASSUME NEW s, NEW t, NEW u, NEW v, Represents(s, u), Represents(t, v)
  PROVE  Represents(tnum_union(s, t), u) /\ Represents(tnum_union(s, t), v)
<1>1. s \in PairOfWords /\ t \in PairOfWords /\ u \in Word /\ v \in Word
  BY Represented
<1>2. PICK e \in Word, m \in Word :
        /\ Masked(tnum_union(s, t), e, m)
        /\ IsOr(e, s.value, t.value)
        /\ \A i \in 0 .. W - 1 :
             Bit(m, i) = IF \/ Bit(s.mask, i) = 1 \/ Bit(t.mask, i) = 1
                            \/ Bit(s.value, i) # Bit(t.value, i) THEN 1 ELSE 0
  BY <1>1, UnionParts
<1>3. ASSUME NEW i \in 0 .. W - 1, Bit(m, i) = 0
      PROVE  Bit(u, i) = Bit(e, i) /\ Bit(v, i) = Bit(e, i)
  <2>1. Bit(s.mask, i) # 1 /\ Bit(t.mask, i) # 1 /\ Bit(s.value, i) = Bit(t.value, i)
    BY <1>2, <1>3
  <2>2. /\ Bit(u, i) = Bit(s.value, i) /\ Bit(v, i) = Bit(t.value, i)
        /\ Bit(s.value, i) \in {0, 1}
    BY <2>1, Represented
  <2> QED
    BY <2>1, <2>2, <1>2 DEF IsOr
<1> QED
  BY <1>1, <1>2, <1>3, MaskedOff

\* A position of the intersection is unknown if it is in both.
LEMMA IntersectParts ==
  ASSUME NEW s \in PairOfWords, NEW t \in PairOfWords
  PROVE  \E e \in Word, m \in Word :
           /\ Masked(tnum_intersect(s, t), e, m)
           /\ IsOr(e, s.value, t.value) /\ IsAnd(m, s.mask, t.mask)
<1> DEFINE m == bv_and(s.mask, t.mask)
           e == bv_or(s.value, t.value)
<1>1. s.value \in Word /\ s.mask \in Word /\ t.value \in Word /\ t.mask \in Word
  BY DEF PairOfWords
<1>2. m \in Word /\ IsAnd(m, s.mask, t.mask) /\ e \in Word /\ IsOr(e, s.value, t.value)
  BY <1>1, BitwiseFacts
<1>3. tnum_intersect(s, t) = TNUM(bv_and(e, bv_not(m)), m)
  BY DEF tnum_intersect
<1> HIDE DEF m, e
<1> QED
  BY <1>2, <1>3, MaskedParts

\* The intersection represents what both operands do.
LEMMA IntersectRepresents ==
  ASSUME NEW s, NEW t, NEW v, Represents(s, v), Represents(t, v)
  PROVE  Represents(tnum_intersect(s, t), v)
<1>1. s \in PairOfWords /\ t \in PairOfWords /\ v \in Word
  BY Represented
<1>2. PICK e \in Word, m \in Word :
        /\ Masked(tnum_intersect(s, t), e, m)
        /\ IsOr(e, s.value, t.value) /\ IsAnd(m, s.mask, t.mask)
  BY <1>1, IntersectParts
<1>3. ASSUME NEW i \in 0 .. W - 1, Bit(m, i) = 0 PROVE Bit(v, i) = Bit(e, i)
  <2>1. /\ \/ Bit(s.mask, i) = 0 /\ Bit(v, i) = Bit(s.value, i)
           \/ Bit(s.mask, i) = 1 /\ Bit(s.value, i) = 0
        /\ \/ Bit(t.mask, i) = 0 /\ Bit(v, i) = Bit(t.value, i)
           \/ Bit(t.mask, i) = 1 /\ Bit(t.value, i) = 0
        /\ Bit(v, i) \in {0, 1}
    BY Represented
  <2> QED
    BY <2>1, <1>2, <1>3 DEF IsAnd, IsOr
<1> QED
  BY <1>1, <1>2, <1>3, MaskedOff

-----------------------------------------------------------------------------
(* Shifts by a known amount, and truncation.                               *)

\* Left: the low positions become known zeros.
LEMMA LshiftRepresents ==
  ASSUME NEW t, NEW v, Represents(t, v), NEW k \in Nat
  PROVE  Represents(tnum_lshift(t, k), shl(v, k))
<1>1. t.value \in Word /\ t.mask \in Word /\ v \in Word
  BY Represented
<1>2. ASSUME NEW u \in Word
      PROVE  /\ shl(u, k) \in Word
             /\ \A i \in 0 .. W - 1 :
                  Bit(shl(u, k), i) = IF i < k THEN 0 ELSE Bit(u, i - k)
  <2>1. u \in Int /\ 2^k \in Int
    BY WordFacts, PowerFacts
  <2>2. u * 2^k \in Int
    BY <2>1
  <2>3. shl(u, k) \in Word
    BY <2>2, WordFacts DEF shl
  <2> QED
    BY <2>1, <2>3, ShlBits DEF shl
<1> DEFINE p == shl(t.value, k)
           m == shl(t.mask, k)
           w == shl(v, k)
<1>3. /\ p \in Word /\ m \in Word /\ w \in Word
      /\ \A i \in 0 .. W - 1 :
           /\ Bit(p, i) = IF i < k THEN 0 ELSE Bit(t.value, i - k)
           /\ Bit(m, i) = IF i < k THEN 0 ELSE Bit(t.mask, i - k)
           /\ Bit(w, i) = IF i < k THEN 0 ELSE Bit(v, i - k)
  BY <1>1, <1>2
<1>4. tnum_lshift(t, k) = TNUM(p, m)
  BY DEF tnum_lshift
<1> HIDE DEF p, m, w
<1>5. ASSUME NEW i \in 0 .. W - 1
      PROVE  \/ Bit(m, i) = 0 /\ Bit(w, i) = Bit(p, i)
             \/ Bit(m, i) = 1 /\ Bit(p, i) = 0
  <2>1. CASE i < k
    BY <1>3, <2>1
  <2>2. CASE ~ i < k
    <3>1. i - k \in 0 .. W - 1
      BY <2>2, WAssumption
    <3>2. \/ Bit(t.mask, i - k) = 0 /\ Bit(v, i - k) = Bit(t.value, i - k)
          \/ Bit(t.mask, i - k) = 1 /\ Bit(t.value, i - k) = 0
      BY <3>1, Represented
    <3> QED
      BY <1>3, <2>2, <3>2
  <2> QED
    BY <2>1, <2>2
<1> QED
  BY <1>3, <1>4, <1>5, MadeOf DEF w

\* The bits of a word shifted right: the high ones are zero.
LEMMA LshrBits ==
  ASSUME NEW u \in Word, NEW k \in Nat, NEW i \in 0 .. W - 1
  PROVE  Bit(lshr(u, k), i) = IF k + i < W THEN Bit(u, k + i) ELSE 0
<1>1. u \in Int /\ u \in 0 .. 2^W - 1 /\ W \in Nat
  BY WordFacts, WAssumption
<1>2. Bit(lshr(u, k), i) = Bit(u, k + i)
  BY <1>1, ShiftedDown DEF lshr
<1>3. CASE k + i < W
  BY <1>2, <1>3
<1>4. CASE ~ k + i < W
  <2>1. k + i \in Nat /\ W <= k + i
    BY <1>1, <1>4
  <2>2. Bit(u, k + i) = 0
    BY <1>1, <2>1, BitsAbove
  <2> QED
    BY <1>2, <1>4, <2>2
<1> QED
  BY <1>3, <1>4

\* Right: the high positions become known zeros.
LEMMA RshiftRepresents ==
  ASSUME NEW t, NEW v, Represents(t, v), NEW k \in Nat
  PROVE  Represents(tnum_rshift(t, k), lshr(v, k))
<1> DEFINE p == lshr(t.value, k)
           m == lshr(t.mask, k)
           w == lshr(v, k)
<1>1. t.value \in Word /\ t.mask \in Word /\ v \in Word
  BY Represented
<1>2. p \in Word /\ m \in Word /\ w \in Word
  BY <1>1, LshrWords
<1>3. \A i \in 0 .. W - 1 :
           /\ Bit(p, i) = IF k + i < W THEN Bit(t.value, k + i) ELSE 0
           /\ Bit(m, i) = IF k + i < W THEN Bit(t.mask, k + i) ELSE 0
           /\ Bit(w, i) = IF k + i < W THEN Bit(v, k + i) ELSE 0
  BY <1>1, LshrBits
<1>4. tnum_rshift(t, k) = TNUM(p, m)
  BY DEF tnum_rshift
<1> HIDE DEF p, m, w
<1>5. ASSUME NEW i \in 0 .. W - 1
      PROVE  \/ Bit(m, i) = 0 /\ Bit(w, i) = Bit(p, i)
             \/ Bit(m, i) = 1 /\ Bit(p, i) = 0
  <2>1. CASE k + i < W
    <3>1. k + i \in 0 .. W - 1
      BY <2>1, WAssumption
    <3>2. \/ Bit(t.mask, k + i) = 0 /\ Bit(v, k + i) = Bit(t.value, k + i)
          \/ Bit(t.mask, k + i) = 1 /\ Bit(t.value, k + i) = 0
      BY <3>1, Represented
    <3> QED
      BY <1>3, <2>1, <3>2
  <2>2. CASE ~ k + i < W
    BY <1>3, <2>2
  <2> QED
    BY <2>1, <2>2
<1> QED
  BY <1>2, <1>4, <1>5, MadeOf DEF w

\* The words whose high positions are zero, and the words among them.
LEMMA NarrowWord ==
  ASSUME NEW n \in Nat, n <= W, NEW u \in 0 .. 2^n - 1
  PROVE  u \in Word
<1>1. 2^n \in Nat /\ 2^W \in Nat /\ 2^n <= 2^W
  BY PowerFacts, PowerOrder, WAssumption
<1> QED
  BY <1>1 DEF Word

(***************************************************************************)
(* sar repeats the sign, bit n - 1: it shifts the complement of a negative *)
(* number, whose high bits are zero, and complements the result.           *)
(***************************************************************************)
LEMMA SarBits ==
  ASSUME NEW u \in Int, NEW n \in Nat \ {0}, NEW k \in Nat
  PROVE  /\ sar(u, k, n) \in 0 .. 2^n - 1
         /\ \A i \in Nat : Bit(sar(u, k, n), i) =
              IF i >= n THEN 0
              ELSE IF k + i < n THEN Bit(u, k + i) ELSE Bit(u, n - 1)
<1> DEFINE N == 2^n
           low == u % 2^n
           d == 2^k
           h == (N - 1) - low
<1>1. N \in Nat \ {0} /\ d \in Nat \ {0} /\ low \in 0 .. N - 1
  BY PowerFacts, RemainderBits
<1>2. \A i \in Nat : Bit(low, i) = IF i < n THEN Bit(u, i) ELSE 0
  BY RemainderBits
<1>3. \A z \in 0 .. N - 1 : z \div d \in 0 .. N - 1
  <2> HIDE DEF N, d
  <2>1. ASSUME NEW z \in 0 .. N - 1 PROVE z \div d \in 0 .. N - 1
    <3>1. z \in Int /\ z >= 0
      BY <1>1
    <3>2. z \div d \in 0 .. z
      BY <1>1, <3>1, DivMod
    <3> QED
      BY <1>1, <3>2
  <2> QED
    BY <2>1
<1>4. h \in 0 .. N - 1
  <2> HIDE DEF N, low
  <2> QED
    BY <1>1
<1>5. \A z \in Int, i \in Nat : Bit(z \div d, i) = Bit(z, k + i)
  BY ShiftedDown
<1>6. \A i \in 0 .. n - 1 : Bit(h, i) = 1 - Bit(low, i)
  <2> HIDE DEF low
  <2>1. low \in Int
    BY <1>1
  <2> QED
    BY <2>1, ComplementBits
<1>7. \A z \in 0 .. N - 1, i \in Nat : n <= i => Bit(z, i) = 0
  BY BitsAbove
<1>8. n - 1 \in Nat /\ (n - 1) + 1 = n /\ n - 1 < n
  OBVIOUS
<1>9. low < 2^(n - 1) <=> Bit(u, n - 1) = 0
  <2>1. /\ low = (low % 2^(n - 1)) + 2^(n - 1) * Bit(low, n - 1)
        /\ Bit(low, n - 1) \in {0, 1}
    <3>1. low \in Int /\ low % 2^n = low
      BY <1>1, LowSelf
    <3> HIDE DEF low
    <3>2. low % 2^((n - 1) + 1) = (low % 2^(n - 1)) + 2^(n - 1) * Bit(low, n - 1)
      BY <1>8, <3>1, BitStep
    <3> QED
      BY <1>8, <3>1, <3>2, BitStep
  <2>2. Bit(low, n - 1) = Bit(u, n - 1)
    BY <1>2, <1>8
  <2> DEFINE e == 2^(n - 1)
             r == low % e
             b == Bit(u, n - 1)
  <2>3. e \in Nat \ {0}
    BY <1>8, PowerFacts
  <2>4. r \in 0 .. e - 1
    <3> HIDE DEF e, low
    <3> QED
      BY <1>1, <2>3, DivMod
  <2>5. low = r + e * b /\ b \in {0, 1}
    BY <2>1, <2>2
  <2> HIDE DEF e, r, b, low
  <2>6. e * 0 = 0 /\ e * 1 = e
    BY <2>3
  <2>7. low < e <=> b = 0
    BY <2>3, <2>4, <2>5, <2>6
  <2> QED
    BY <2>7 DEF e, b
<1>10. CASE low < 2^(n - 1)
  <2>1. sar(u, k, n) = low \div d
    BY <1>10 DEF sar
  <2>2. \A i \in Nat : Bit(low \div d, i) = Bit(low, k + i)
    <3> HIDE DEF low, d
    <3> QED
      BY <1>1, <1>5
  <2>3. low \div d \in 0 .. N - 1
    BY <1>1, <1>3
  <2>4. \A i \in Nat : Bit(low, k + i) = IF k + i < n THEN Bit(u, k + i) ELSE 0
    BY <1>2
  <2>5. Bit(u, n - 1) = 0
    BY <1>9, <1>10
  <2>6. ASSUME NEW i \in Nat
        PROVE  Bit(sar(u, k, n), i) = IF i >= n THEN 0
                 ELSE IF k + i < n THEN Bit(u, k + i) ELSE Bit(u, n - 1)
    <3> HIDE DEF low, d
    <3>1. Bit(sar(u, k, n), i) = IF k + i < n THEN Bit(u, k + i) ELSE 0
      BY <2>1, <2>2, <2>4
    <3>2. i >= n => ~ k + i < n
      OBVIOUS
    <3> QED
      BY <2>5, <3>1, <3>2
  <2>7. sar(u, k, n) \in 0 .. 2^n - 1
    BY <2>1, <2>3
  <2> QED
    BY <2>6, <2>7
<1>11. CASE ~ low < 2^(n - 1)
  <2> DEFINE g == h \div d
             w == (N - 1) - g
  <2>1. sar(u, k, n) = w
    BY <1>11 DEF sar
  <2>2. g \in 0 .. N - 1 /\ \A i \in Nat : Bit(g, i) = Bit(h, k + i)
    <3>1. h \in Int
      <4> HIDE DEF h, N
      <4> QED
        BY <1>1, <1>4
    <3> HIDE DEF h, d, N
    <3>2. g \in 0 .. N - 1
      BY <1>3, <1>4
    <3> QED
      BY <1>5, <3>1, <3>2
  <2>3. w \in 0 .. N - 1
    <3> HIDE DEF g, N
    <3> QED
      BY <1>1, <2>2
  <2>4. \A i \in 0 .. n - 1 : Bit(w, i) = 1 - Bit(g, i)
    <3> HIDE DEF g
    <3>1. g \in Int
      BY <2>2
    <3> QED
      BY <3>1, ComplementBits
  <2>5. Bit(u, n - 1) = 1
    <3>1. Bit(u, n - 1) \in {0, 1}
      BY <1>8, BitType
    <3> QED
      BY <1>9, <1>11, <3>1
  <2>6. ASSUME NEW i \in Nat
        PROVE  Bit(w, i) = IF i >= n THEN 0
                           ELSE IF k + i < n THEN Bit(u, k + i) ELSE Bit(u, n - 1)
    <3>1. CASE i >= n
      <4> HIDE DEF w, N
      <4> QED
        BY <1>7, <2>3, <3>1
    <3>2. CASE i < n /\ k + i < n
      <4>1. i \in 0 .. n - 1 /\ k + i \in 0 .. n - 1 /\ k + i \in Nat
        BY <3>2
      <4>2. Bit(u, k + i) \in {0, 1}
        BY <4>1, BitType
      <4> HIDE DEF w, g, h, low
      <4> QED
        BY <1>2, <1>6, <2>2, <2>4, <3>2, <4>1, <4>2
    <3>3. CASE i < n /\ ~ k + i < n
      <4>1. i \in 0 .. n - 1 /\ n <= k + i /\ k + i \in Nat
        BY <3>3
      <4> HIDE DEF w, g, h, N
      <4> QED
        BY <1>4, <1>7, <2>2, <2>4, <2>5, <3>3, <4>1
    <3> QED
      BY <3>1, <3>2, <3>3
  <2> HIDE DEF w, N
  <2> QED
    BY <2>1, <2>3, <2>6 DEF N
<1> QED
  BY <1>10, <1>11

\* Right, with the sign of the low n bits: both parts repeat the same position.
LEMMA ArshiftRepresents ==
  ASSUME NEW t, NEW v, Represents(t, v),
         NEW n \in Nat \ {0}, n <= W, NEW k \in Nat
  PROVE  Represents(tnum_arshift(t, k, n), sar(v, k, n))
<1> DEFINE p == sar(t.value, k, n)
           m == sar(t.mask, k, n)
           w == sar(v, k, n)
<1>1. /\ t.value \in Word /\ t.mask \in Word /\ v \in Word
      /\ t.value \in Int /\ t.mask \in Int /\ v \in Int
  <2>1. t.value \in Word /\ t.mask \in Word /\ v \in Word
    BY Represented
  <2> QED
    BY <2>1, WordInt
<1>2. p \in 0 .. 2^n - 1 /\ m \in 0 .. 2^n - 1 /\ w \in 0 .. 2^n - 1
  BY <1>1, SarBits
<1>3. \A i \in Nat :
        /\ Bit(p, i) = IF i >= n THEN 0
                       ELSE IF k + i < n THEN Bit(t.value, k + i) ELSE Bit(t.value, n - 1)
        /\ Bit(m, i) = IF i >= n THEN 0
                       ELSE IF k + i < n THEN Bit(t.mask, k + i) ELSE Bit(t.mask, n - 1)
        /\ Bit(w, i) = IF i >= n THEN 0
                       ELSE IF k + i < n THEN Bit(v, k + i) ELSE Bit(v, n - 1)
  BY <1>1, SarBits
<1>4. tnum_arshift(t, k, n) = TNUM(p, m)
  BY DEF tnum_arshift
<1> HIDE DEF p, m, w
<1>5. p \in Word /\ m \in Word /\ w \in Word
  BY <1>2, NarrowWord
<1>6. ASSUME NEW i \in 0 .. W - 1
      PROVE  \/ Bit(m, i) = 0 /\ Bit(w, i) = Bit(p, i)
             \/ Bit(m, i) = 1 /\ Bit(p, i) = 0
  <2>1. i \in Nat
    OBVIOUS
  <2>2. \A j \in 0 .. W - 1 :
          \/ Bit(t.mask, j) = 0 /\ Bit(v, j) = Bit(t.value, j)
          \/ Bit(t.mask, j) = 1 /\ Bit(t.value, j) = 0
    BY Represented
  <2>3. CASE i >= n
    BY <1>3, <2>1, <2>3
  <2>4. CASE i < n /\ k + i < n
    <3>1. k + i \in 0 .. W - 1
      BY <2>1, <2>4, WAssumption
    <3> QED
      BY <1>3, <2>1, <2>2, <2>4, <3>1
  <2>5. CASE i < n /\ ~ k + i < n
    <3>1. n - 1 \in 0 .. W - 1
      BY <2>1, WAssumption
    <3> QED
      BY <1>3, <2>1, <2>2, <2>5, <3>1
  <2> QED
    BY <2>1, <2>3, <2>4, <2>5
<1> QED
  BY <1>4, <1>5, <1>6, MadeOf DEF w

\* Truncation to the low n bits.
LEMMA CastRepresents ==
  ASSUME NEW t, NEW v, Represents(t, v), NEW n \in Nat, n <= W
  PROVE  Represents(tnum_cast(t, n), v % 2^n)
<1> DEFINE o == 2^n - 1
           p == bv_and(t.value, o)
           m == bv_and(t.mask, o)
           w == v % 2^n
<1>1. t.value \in Word /\ t.mask \in Word /\ v \in Word /\ v \in Int
  BY Represented, WordFacts
<1>2. \A i \in 0 .. W - 1 : i \in Nat
  BY WAssumption
<1>3. o \in Word /\ w \in Word
  BY <1>1, NarrowWord, OnesBits, RemainderBits
<1>4. \A i \in 0 .. W - 1 : /\ Bit(o, i) = IF i < n THEN 1 ELSE 0
                            /\ Bit(w, i) = IF i < n THEN Bit(v, i) ELSE 0
  BY <1>1, <1>2, OnesBits, RemainderBits
<1> HIDE DEF o, w
<1>5. p \in Word /\ IsAnd(p, t.value, o) /\ m \in Word /\ IsAnd(m, t.mask, o)
  BY <1>1, <1>3, BitwiseFacts
<1>6. tnum_cast(t, n) = TNUM(p, m)
  BY DEF tnum_cast, o
<1> HIDE DEF p, m
<1>7. ASSUME NEW i \in 0 .. W - 1
      PROVE  \/ Bit(m, i) = 0 /\ Bit(w, i) = Bit(p, i)
             \/ Bit(m, i) = 1 /\ Bit(p, i) = 0
  <2>1. /\ \/ Bit(t.mask, i) = 0 /\ Bit(v, i) = Bit(t.value, i)
           \/ Bit(t.mask, i) = 1 /\ Bit(t.value, i) = 0
        /\ Bit(v, i) \in {0, 1}
    BY Represented
  <2> QED
    BY <1>4, <1>5, <2>1 DEF IsAnd
<1> QED
  BY <1>3, <1>5, <1>6, <1>7, MadeOf DEF w

-----------------------------------------------------------------------------
(* Addition and subtraction.                                               *)

\* The least and the greatest word a tnum represents: its value, and value + mask.
LEMMA Between ==
  ASSUME NEW t, NEW v, Represents(t, v)
  PROVE  /\ t.value \in Int /\ t.mask \in Int /\ v \in Int /\ t.value + t.mask \in Int
         /\ \A i \in 0 .. W - 1 :
              /\ Bit(t.value, i) <= Bit(v, i)
              /\ Bit(v, i) <= Bit(t.value + t.mask, i)
              /\ Bit(t.mask, i) = 0 => /\ Bit(t.value, i) = Bit(v, i)
                                       /\ Bit(v, i) = Bit(t.value + t.mask, i)
              /\ Bit(t.value, i) \in {0, 1} /\ Bit(v, i) \in {0, 1}
              /\ Bit(t.value + t.mask, i) \in {0, 1}
<1>1. /\ t.value \in Word /\ t.mask \in Word /\ v \in Word
      /\ \A i \in 0 .. W - 1 :
           /\ Bit(t.value, i) \in {0, 1} /\ Bit(t.mask, i) \in {0, 1}
           /\ Bit(v, i) \in {0, 1}
           /\ \/ Bit(t.mask, i) = 0 /\ Bit(v, i) = Bit(t.value, i)
              \/ Bit(t.mask, i) = 1 /\ Bit(t.value, i) = 0
  BY Represented
<1>2. t.value \in Int /\ t.mask \in Int /\ v \in Int
  BY <1>1, WordInt
<1>3. \A i \in 0 .. W - 1 : Bit(t.value, i) = 0 \/ Bit(t.mask, i) = 0
  BY <1>1
<1>4. \A i \in 0 .. W - 1 :
        Bit(t.value + t.mask, i) = Bit(t.value, i) + Bit(t.mask, i)
  BY <1>1, <1>3, DisjointSum
<1>5. ASSUME NEW i \in 0 .. W - 1
      PROVE  /\ Bit(t.value, i) <= Bit(v, i)
             /\ Bit(v, i) <= Bit(t.value + t.mask, i)
             /\ Bit(t.mask, i) = 0 => /\ Bit(t.value, i) = Bit(v, i)
                                      /\ Bit(v, i) = Bit(t.value + t.mask, i)
             /\ Bit(t.value, i) \in {0, 1} /\ Bit(v, i) \in {0, 1}
             /\ Bit(t.value + t.mask, i) \in {0, 1}
  <2> DEFINE bp == Bit(t.value, i)
             bm == Bit(t.mask, i)
             bv == Bit(v, i)
             bs == Bit(t.value + t.mask, i)
  <2>1. /\ bp \in {0, 1} /\ bm \in {0, 1} /\ bv \in {0, 1} /\ bs = bp + bm
        /\ (bm = 0 /\ bv = bp) \/ (bm = 1 /\ bp = 0)
    BY <1>1, <1>4
  <2> HIDE DEF bp, bm, bv, bs
  <2>2. /\ bp <= bv /\ bv <= bs /\ bs \in {0, 1}
        /\ bm = 0 => bp = bv /\ bv = bs
    BY <2>1
  <2> QED
    BY <2>1, <2>2 DEF bp, bm, bv, bs
<1> QED
  BY <1>2, <1>5

\* A position of a sum, and of a difference as a sum with the complement.
LEMMA SumOfWords ==
  ASSUME NEW p \in Int, NEW q \in Int, NEW i \in 0 .. W - 1
  PROVE  /\ Bit((p + q) % 2^W, i) = Bit(p + q + 0, i)
         /\ Bit((p - q) % 2^W, i) = Bit(p + (2^W - 1 - q) + 1, i)
<1> DEFINE d == 2^W
<1>1. d \in Nat \ {0} /\ W \in Nat
  BY WordFacts, WAssumption
<1>2. \A z \in Int : Bit(z % d, i) = Bit(z, i) /\ Bit(d * 1 + z, i) = Bit(z, i)
  <2>1. \A z \in Int : Bit(z % 2^W, i) = Bit(z, i)
    BY <1>1, BitOfLow
  <2>2. \A z \in Int : Bit(2^W * 1 + z, i) = Bit(z, i)
    BY <1>1, BitBelow
  <2> QED
    BY <2>1, <2>2
<1> HIDE DEF d
<1>3. /\ p + q \in Int /\ p - q \in Int /\ p + q + 0 = p + q
      /\ p + (d - 1 - q) + 1 = d * 1 + (p - q)
  BY <1>1
<1> QED
  BY <1>2, <1>3 DEF d

\* The mask of a sum: where a summand is not known, and where the least and the
\* greatest sum differ (chi).
LEMMA AddParts ==
  ASSUME NEW s \in PairOfWords, NEW t \in PairOfWords,
         NEW lo, lo = s.value + t.value + 0,
         NEW hi, hi = (s.value + s.mask) + (t.value + t.mask) + 0
  PROVE  \E e \in Word, m \in Word :
           /\ Masked(tnum_add(s, t), e, m)
           /\ \A i \in 0 .. W - 1 :
                /\ Bit(e, i) = Bit(lo, i)
                /\ Bit(m, i) = IF \/ Bit(s.mask, i) = 1 \/ Bit(t.mask, i) = 1
                                  \/ Bit(lo, i) # Bit(hi, i) THEN 1 ELSE 0
<1> DEFINE sm == bv_add(s.mask, t.mask)
           sv == bv_add(s.value, t.value)
           sigma == bv_add(sm, sv)
           chi == bv_xor(sigma, sv)
           mk == bv_or(s.mask, t.mask)
           mu == bv_or(chi, mk)
           hs == s.value + s.mask
           ht == t.value + t.mask
<1>1. s.value \in Word /\ s.mask \in Word /\ t.value \in Word /\ t.mask \in Word
  BY DEF PairOfWords
<1>2. s.value \in Int /\ s.mask \in Int /\ t.value \in Int /\ t.mask \in Int
  BY <1>1, WordInt
<1>3. hs \in Int /\ ht \in Int
  BY <1>2
<1>4. sm \in Word /\ sv \in Word
  BY <1>1, WordOperations
<1>5. sigma \in Word
  <2> HIDE DEF sm, sv
  <2> QED
    BY <1>4, WordOperations
<1>6. sigma = (hs + ht) % 2^W
  <2> DEFINE d == 2^W
             p == s.mask + t.mask
             q == s.value + t.value
  <2>1. d \in Nat \ {0}
    BY WordFacts
  <2>2. p \in Int /\ q \in Int
    BY <1>2
  <2>3. q % d \in Int
    BY <1>4, WordInt DEF bv_add
  <2>4. sigma = ((p % d) + (q % d)) % d
    BY DEF bv_add
  <2>5. p + q = hs + ht
    BY <1>2
  <2> HIDE DEF d, p, q
  <2>6. ((p % d) + (q % d)) % d = (p + (q % d)) % d /\ (p + (q % d)) % d = (p + q) % d
    BY <2>1, <2>2, <2>3, ModSum
  <2> QED
    BY <2>4, <2>5, <2>6 DEF d
<1>7. \A i \in 0 .. W - 1 : Bit(sigma, i) = Bit(hi, i) /\ Bit(sv, i) = Bit(lo, i)
  <2> HIDE DEF sigma, hs, ht
  <2> QED
    BY <1>2, <1>3, <1>6, SumOfWords DEF bv_add, hs, ht
<1>8. tnum_add(s, t) = TNUM(bv_and(sv, bv_not(mu)), mu)
  BY DEF tnum_add
<1> HIDE DEF sigma, sv
<1>9. chi \in Word /\ IsXor(chi, sigma, sv) /\ mk \in Word /\ IsOr(mk, s.mask, t.mask)
  BY <1>1, <1>4, <1>5, BitwiseFacts
<1> HIDE DEF chi, mk
<1>10. mu \in Word /\ IsOr(mu, chi, mk)
  BY <1>9, BitwiseFacts
<1> HIDE DEF mu
<1>11. Masked(tnum_add(s, t), sv, mu)
  BY <1>4, <1>8, <1>10, MaskedParts
<1>12. \A i \in 0 .. W - 1 :
         Bit(mu, i) = IF \/ Bit(s.mask, i) = 1 \/ Bit(t.mask, i) = 1
                         \/ Bit(lo, i) # Bit(hi, i) THEN 1 ELSE 0
  BY <1>7, <1>9, <1>10 DEF IsOr, IsXor
<1> QED
  BY <1>4, <1>7, <1>10, <1>11, <1>12

\* sigma and sv agree where no uncertain carry enters.
LEMMA AddRepresents ==
  ASSUME NEW s, NEW t, NEW u, NEW v, Represents(s, u), Represents(t, v)
  PROVE  Represents(tnum_add(s, t), bv_add(u, v))
<1> DEFINE hs == s.value + s.mask
           ht == t.value + t.mask
           lo == s.value + t.value + 0
           hi == hs + ht + 0
           w == bv_add(u, v)
<1>1. s \in PairOfWords /\ t \in PairOfWords /\ u \in Word /\ v \in Word
  BY Represented
<1>2. /\ s.value \in Int /\ u \in Int /\ hs \in Int
      /\ t.value \in Int /\ v \in Int /\ ht \in Int
  BY Between
<1>3. PICK e \in Word, m \in Word :
        /\ Masked(tnum_add(s, t), e, m)
        /\ \A i \in 0 .. W - 1 :
             /\ Bit(e, i) = Bit(lo, i)
             /\ Bit(m, i) = IF \/ Bit(s.mask, i) = 1 \/ Bit(t.mask, i) = 1
                               \/ Bit(lo, i) # Bit(hi, i) THEN 1 ELSE 0
  <2> HIDE DEF lo, hi
  <2>1. lo = s.value + t.value + 0 /\ hi = (s.value + s.mask) + (t.value + t.mask) + 0
    BY DEF lo, hi
  <2> QED
    BY <1>1, <2>1, AddParts
<1>4. w \in Word /\ \A i \in 0 .. W - 1 : Bit(w, i) = Bit(u + v + 0, i)
  BY <1>1, <1>2, WordOperations, SumOfWords DEF bv_add
<1> HIDE DEF w
<1>5. ASSUME NEW i \in 0 .. W - 1, Bit(m, i) = 0 PROVE Bit(w, i) = Bit(e, i)
  <2>1. Bit(s.mask, i) # 1 /\ Bit(t.mask, i) # 1 /\ Bit(lo, i) = Bit(hi, i)
    <3> HIDE DEF lo, hi
    <3> QED
      BY <1>3, <1>5
  <2>2. Bit(s.mask, i) = 0 /\ Bit(t.mask, i) = 0
    BY <2>1, Represented
  <2>3. i \in Nat /\ \A j \in 0 .. i - 1 : j \in 0 .. W - 1
    BY WAssumption
  <2>4. SumsAgree(i, 0, s.value, t.value, u, v, hs, ht)
    <3>1. \A j \in 0 .. W - 1 :
            /\ Bit(s.value, j) <= Bit(u, j) /\ Bit(u, j) <= Bit(hs, j)
            /\ Bit(t.value, j) <= Bit(v, j) /\ Bit(v, j) <= Bit(ht, j)
      BY Between
    <3>2. /\ Bit(s.value, i) = Bit(u, i) /\ Bit(u, i) = Bit(hs, i)
          /\ Bit(t.value, i) = Bit(v, i) /\ Bit(v, i) = Bit(ht, i)
      BY <2>2, Between
    <3> HIDE DEF hs, ht
    <3> QED
      BY <1>2, <2>1, <2>3, <3>1, <3>2 DEF SumsAgree
  <2>5. Bit(u + v + 0, i) = Bit(lo, i)
    <3> HIDE DEF hs, ht
    <3> QED
      BY <2>4, SumBetween
  <2> HIDE DEF lo, hi
  <2> QED
    BY <1>3, <1>4, <2>5
<1> QED
  BY <1>3, <1>4, <1>5, MaskedOff DEF w

\* The word of complements, of any integer.
Complement(y) == 2^W - 1 - y

\* The mask of a difference, which is the sum with the complement and one: the
\* least one takes the greatest subtrahend (beta), the greatest the least (alpha).
LEMMA SubParts ==
  ASSUME NEW s \in PairOfWords, NEW t \in PairOfWords,
         NEW lo, lo = s.value + Complement(t.value + t.mask) + 1,
         NEW hi, hi = (s.value + s.mask) + Complement(t.value) + 1
  PROVE  \E e \in Word, m \in Word :
           /\ Masked(tnum_sub(s, t), e, m)
           /\ \A i \in 0 .. W - 1 :
                /\ Bit(e, i) = Bit(s.value + Complement(t.value) + 1, i)
                /\ Bit(m, i) = IF \/ Bit(s.mask, i) = 1 \/ Bit(t.mask, i) = 1
                                  \/ Bit(lo, i) # Bit(hi, i) THEN 1 ELSE 0
<1> DEFINE dv == bv_sub(s.value, t.value)
           alpha == bv_add(dv, s.mask)
           beta == bv_sub(dv, t.mask)
           chi == bv_xor(alpha, beta)
           mk == bv_or(s.mask, t.mask)
           mu == bv_or(chi, mk)
           hs == s.value + s.mask
           ht == t.value + t.mask
<1>1. s.value \in Word /\ s.mask \in Word /\ t.value \in Word /\ t.mask \in Word
  BY DEF PairOfWords
<1>2. s.value \in Int /\ s.mask \in Int /\ t.value \in Int /\ t.mask \in Int
  BY <1>1, WordInt
<1>3. hs \in Int /\ ht \in Int
  BY <1>2
<1>4. dv \in Word
  BY <1>1, WordOperations
<1>5. alpha \in Word /\ beta \in Word
  <2> HIDE DEF dv
  <2> QED
    BY <1>1, <1>4, WordOperations
<1>6. alpha = (hs - t.value) % 2^W /\ beta = (s.value - ht) % 2^W
  <2> DEFINE d == 2^W
             p == s.value - t.value
  <2>1. d \in Nat \ {0}
    BY WordFacts
  <2>2. p \in Int /\ p + s.mask = hs - t.value /\ p - t.mask = s.value - ht
    BY <1>2
  <2>3. alpha = ((p % d) + s.mask) % d /\ beta = ((p % d) - t.mask) % d
    BY DEF bv_add, bv_sub
  <2> HIDE DEF d, p
  <2>4. /\ ((p % d) + s.mask) % d = (p + s.mask) % d
        /\ ((p % d) - t.mask) % d = (p - t.mask) % d
    BY <1>2, <2>1, <2>2, ModSum
  <2> QED
    BY <2>2, <2>3, <2>4 DEF d
<1>7. \A p \in Int, q \in Int : \A i \in 0 .. W - 1 :
        Bit((p - q) % 2^W, i) = Bit(p + Complement(q) + 1, i)
  BY SumOfWords DEF Complement
<1>8. dv = (s.value - t.value) % 2^W
  BY DEF bv_sub
<1>9. tnum_sub(s, t) = TNUM(bv_and(dv, bv_not(mu)), mu)
  BY DEF tnum_sub
<1>10. lo = s.value + Complement(ht) + 1 /\ hi = hs + Complement(t.value) + 1
  OBVIOUS
<1> HIDE DEF alpha, beta, dv, hs, ht
<1>11. \A i \in 0 .. W - 1 : Bit(alpha, i) = Bit(hi, i)
  <2>1. \A i \in 0 .. W - 1 :
          Bit((hs - t.value) % 2^W, i) = Bit(hs + Complement(t.value) + 1, i)
    BY <1>2, <1>3, <1>7, Zenon
  <2> QED
    BY <1>6, <1>10, <2>1, Zenon
<1>12. \A i \in 0 .. W - 1 : Bit(beta, i) = Bit(lo, i)
  <2>1. \A i \in 0 .. W - 1 :
          Bit((s.value - ht) % 2^W, i) = Bit(s.value + Complement(ht) + 1, i)
    BY <1>2, <1>3, <1>7, Zenon
  <2> QED
    BY <1>6, <1>10, <2>1, Zenon
<1>13. \A i \in 0 .. W - 1 : Bit(dv, i) = Bit(s.value + Complement(t.value) + 1, i)
  BY <1>2, <1>7, <1>8, Zenon
<1>14. chi \in Word /\ IsXor(chi, alpha, beta) /\ mk \in Word /\ IsOr(mk, s.mask, t.mask)
  BY <1>1, <1>5, BitwiseFacts
<1> HIDE DEF chi, mk
<1>15. mu \in Word /\ IsOr(mu, chi, mk)
  BY <1>14, BitwiseFacts
<1> HIDE DEF mu
<1>16. Masked(tnum_sub(s, t), dv, mu)
  BY <1>4, <1>9, <1>15, MaskedParts
<1>17. \A i \in 0 .. W - 1 :
         Bit(mu, i) = IF \/ Bit(s.mask, i) = 1 \/ Bit(t.mask, i) = 1
                         \/ Bit(lo, i) # Bit(hi, i) THEN 1 ELSE 0
  BY <1>11, <1>12, <1>14, <1>15 DEF IsOr, IsXor
<1> QED
  BY <1>4, <1>13, <1>15, <1>16, <1>17

\* The complements of the values of a subtrahend, between those of its greatest
\* and of its least.
LEMMA ComplementBetween ==
  ASSUME NEW t, NEW v, Represents(t, v), NEW ht, ht = t.value + t.mask
  PROVE  /\ Complement(t.value) \in Int /\ Complement(v) \in Int /\ Complement(ht) \in Int
         /\ \A i \in 0 .. W - 1 :
              /\ Bit(Complement(t.value), i) = 1 - Bit(t.value, i)
              /\ Bit(Complement(v), i) = 1 - Bit(v, i)
              /\ Bit(Complement(ht), i) = 1 - Bit(ht, i)
              /\ Bit(Complement(ht), i) <= Bit(Complement(v), i)
              /\ Bit(Complement(v), i) <= Bit(Complement(t.value), i)
              /\ Bit(t.mask, i) = 0 =>
                   /\ Bit(Complement(ht), i) = Bit(Complement(v), i)
                   /\ Bit(Complement(v), i) = Bit(Complement(t.value), i)
<1>1. /\ t.value \in Int /\ v \in Int /\ ht \in Int
      /\ \A i \in 0 .. W - 1 :
           /\ Bit(t.value, i) <= Bit(v, i) /\ Bit(v, i) <= Bit(ht, i)
           /\ Bit(t.mask, i) = 0 => /\ Bit(t.value, i) = Bit(v, i)
                                    /\ Bit(v, i) = Bit(ht, i)
           /\ Bit(t.value, i) \in {0, 1} /\ Bit(v, i) \in {0, 1} /\ Bit(ht, i) \in {0, 1}
  BY Between
<1>2. 2^W \in Int
  BY WordFacts
<1>3. \A y \in Int : Complement(y) \in Int
  BY <1>2 DEF Complement
<1>4. \A y \in Int, i \in 0 .. W - 1 : Bit(Complement(y), i) = 1 - Bit(y, i)
  BY ComplementBits, WAssumption DEF Complement
<1>5. ASSUME NEW i \in 0 .. W - 1
      PROVE  /\ Bit(Complement(t.value), i) = 1 - Bit(t.value, i)
             /\ Bit(Complement(v), i) = 1 - Bit(v, i)
             /\ Bit(Complement(ht), i) = 1 - Bit(ht, i)
  BY <1>1, <1>4
<1>6. ASSUME NEW i \in 0 .. W - 1
      PROVE  /\ 1 - Bit(ht, i) <= 1 - Bit(v, i) /\ 1 - Bit(v, i) <= 1 - Bit(t.value, i)
             /\ Bit(t.mask, i) = 0 => /\ 1 - Bit(ht, i) = 1 - Bit(v, i)
                                      /\ 1 - Bit(v, i) = 1 - Bit(t.value, i)
  BY <1>1
<1> QED
  BY <1>1, <1>3, <1>5, <1>6

\* The differences of a tnum: with the least and the greatest minuend u, and any
\* subtrahend v, all agree where the mask of the difference is not set.
LEMMA DifferencesAgree ==
  ASSUME NEW s, NEW t, NEW u, NEW v, Represents(s, u), Represents(t, v),
         NEW i \in 0 .. W - 1, Bit(s.mask, i) = 0, Bit(t.mask, i) = 0,
         NEW lo, lo = s.value + Complement(t.value + t.mask) + 1,
         NEW hi, hi = (s.value + s.mask) + Complement(t.value) + 1,
         Bit(lo, i) = Bit(hi, i)
  PROVE  Bit(u + Complement(v) + 1, i) = Bit(lo, i)
<1> DEFINE hs == s.value + s.mask
           ht == t.value + t.mask
<1>1. /\ s.value \in Int /\ u \in Int /\ hs \in Int
      /\ \A j \in 0 .. W - 1 : Bit(s.value, j) <= Bit(u, j) /\ Bit(u, j) <= Bit(hs, j)
      /\ Bit(s.value, i) = Bit(u, i) /\ Bit(u, i) = Bit(hs, i)
  BY Between
<1>2. /\ Complement(t.value) \in Int /\ Complement(v) \in Int /\ Complement(ht) \in Int
      /\ \A j \in 0 .. W - 1 :
           /\ Bit(Complement(ht), j) <= Bit(Complement(v), j)
           /\ Bit(Complement(v), j) <= Bit(Complement(t.value), j)
      /\ Bit(Complement(ht), i) = Bit(Complement(v), i)
      /\ Bit(Complement(v), i) = Bit(Complement(t.value), i)
  BY ComplementBetween
<1>3. i \in Nat /\ 1 \in {0, 1} /\ \A j \in 0 .. i - 1 : j \in 0 .. W - 1
  BY WAssumption
<1>4. Bit(s.value + Complement(ht) + 1, i) = Bit(hs + Complement(t.value) + 1, i)
  OBVIOUS
<1>5. lo = s.value + Complement(ht) + 1
  OBVIOUS
<1> HIDE DEF hs, ht
<1>6. SumsAgree(i, 1, s.value, Complement(ht), u, Complement(v), hs, Complement(t.value))
  BY <1>1, <1>2, <1>3, <1>4 DEF SumsAgree
<1> QED
  BY <1>5, <1>6, SumBetween

\* alpha and beta agree where no uncertain borrow enters.
LEMMA SubRepresents ==
  ASSUME NEW s, NEW t, NEW u, NEW v, Represents(s, u), Represents(t, v)
  PROVE  Represents(tnum_sub(s, t), bv_sub(u, v))
<1> DEFINE lo == s.value + Complement(t.value + t.mask) + 1
           hi == (s.value + s.mask) + Complement(t.value) + 1
           w == bv_sub(u, v)
<1>1. s \in PairOfWords /\ t \in PairOfWords /\ u \in Word /\ v \in Word
  BY Represented
<1>2. PICK e \in Word, m \in Word :
        /\ Masked(tnum_sub(s, t), e, m)
        /\ \A i \in 0 .. W - 1 :
             /\ Bit(e, i) = Bit(s.value + Complement(t.value) + 1, i)
             /\ Bit(m, i) = IF \/ Bit(s.mask, i) = 1 \/ Bit(t.mask, i) = 1
                               \/ Bit(lo, i) # Bit(hi, i) THEN 1 ELSE 0
  BY <1>1, SubParts
<1>3. w \in Word /\ \A i \in 0 .. W - 1 : Bit(w, i) = Bit(u + Complement(v) + 1, i)
  <2>1. u \in Int /\ v \in Int /\ w \in Word
    BY <1>1, WordInt, WordOperations
  <2>2. \A i \in 0 .. W - 1 : Bit((u - v) % 2^W, i) = Bit(u + (2^W - 1 - v) + 1, i)
    BY <2>1, SumOfWords
  <2>3. w = (u - v) % 2^W /\ Complement(v) = 2^W - 1 - v
    BY DEF bv_sub, Complement
  <2> HIDE DEF w
  <2> QED
    BY <2>1, <2>2, <2>3
<1>4. ASSUME NEW i \in 0 .. W - 1, Bit(m, i) = 0 PROVE Bit(w, i) = Bit(e, i)
  <2>1. Bit(s.mask, i) # 1 /\ Bit(t.mask, i) # 1 /\ Bit(lo, i) = Bit(hi, i)
    <3> HIDE DEF lo, hi
    <3> QED
      BY <1>2, <1>4
  <2>2. Bit(s.mask, i) = 0 /\ Bit(t.mask, i) = 0
    BY <2>1, Represented
  <2>3. Bit(u + Complement(v) + 1, i) = Bit(lo, i)
    BY <2>1, <2>2, DifferencesAgree
  <2>4. Represents(s, s.value) /\ Represents(t, t.value)
    BY Represented, OwnValue
  <2>5. Bit(s.value + Complement(t.value) + 1, i) = Bit(lo, i)
    BY <2>1, <2>2, <2>4, DifferencesAgree
  <2> HIDE DEF lo, hi, w
  <2> QED
    BY <1>2, <1>3, <2>3, <2>5
<1> HIDE DEF lo, hi, w
<1> QED
  BY <1>2, <1>3, <1>4, MaskedOff DEF w

-----------------------------------------------------------------------------
(* Shifts by an amount that is a tnum itself.                              *)

\* The recursion over the bits of an operand, as an equation.
Unfolded(g, m, d0, G) ==
  g = [n \in 0 .. m |-> IF n = 0 THEN d0 ELSE G[n][g[n - 1]]]

\* The equation has a solution.
LEMMA RecursionUnfolds ==
  ASSUME NEW m \in Nat, NEW D, NEW d0 \in D, NEW G \in [1 .. m -> [D -> D]]
  PROVE  \E g \in [0 .. m -> D] : Unfolded(g, m, d0, G)
<1>1. PICK g \in [0 .. m -> D] : Recursive(g, m, d0, G)
  BY RecursionExists, Zenon
<1>2. \A n \in 0 .. m : g[n] = IF n = 0 THEN d0 ELSE G[n][g[n - 1]]
  <2> SUFFICES ASSUME NEW n \in 0 .. m
               PROVE  g[n] = IF n = 0 THEN d0 ELSE G[n][g[n - 1]]
    OBVIOUS
  <2>1. CASE n = 0
    BY <1>1, <2>1 DEF Recursive
  <2>2. CASE n # 0
    <3>1. n \in 1 .. m
      BY <2>2
    <3> QED
      BY <1>1, <2>2, <3>1 DEF Recursive
  <2> QED
    BY <2>1, <2>2
<1> QED
  BY <1>2 DEF Unfolded

\* The rounds of a shift: a word of bits is at least as wide as it has rounds.
LEMMA RoundFacts ==
  /\ W \in Nat \ {0} /\ LogW \in Nat \ {0} /\ W = 2^LogW /\ LogW < W
  /\ Half = 2^(LogW - 1) /\ Half \in Nat \ {0} /\ Half < W /\ Half <= W
<1>1. W \in Nat \ {0} /\ LogW \in Nat \ {0} /\ W = 2^LogW /\ LogW < W
  BY WAssumption, LogWAssumption, PowerAbove
<1>2. /\ LogW - 1 \in Nat /\ (LogW - 1) + 1 = LogW
  BY <1>1
<1>3. 2^(LogW - 1) \in Nat \ {0} /\ W = 2 * 2^(LogW - 1)
  BY <1>1, <1>2, PowerFacts
<1> DEFINE h == 2^(LogW - 1)
<1>4. Half = h
  <2> HIDE DEF h
  <2> QED
    BY <1>3 DEF Half, h
<1> QED
  BY <1>1, <1>3, <1>4

\* The amount is taken modulo a power of two, by a mask.
LEMMA AmountRepresents ==
  ASSUME NEW t, NEW v, Represents(t, v), NEW e \in 0 .. LogW
  PROVE  /\ Represents(tnum_and(t, tnum_const(2^e - 1)), v % 2^e)
         /\ v % 2^e \in 0 .. 2^LogW - 1
<1>1. e \in Nat /\ e <= W /\ e <= LogW /\ LogW \in Nat /\ v \in Word /\ v \in Int
  BY RoundFacts, Represented, WordInt
<1>2. v % 2^e \in 0 .. 2^e - 1 /\ 2^e - 1 \in 0 .. 2^e - 1
  BY <1>1, RemainderBits, OnesBits
<1>3. v % 2^e \in Word /\ 2^e - 1 \in Word
  BY <1>1, <1>2, NarrowWord
<1>4. v % 2^e \in 0 .. 2^LogW - 1
  <2>1. 2^e \in Nat /\ 2^LogW \in Nat /\ 2^e <= 2^LogW
    BY <1>1, PowerFacts, PowerOrder
  <2> QED
    BY <1>2, <2>1
<1>5. bv_and(v, 2^e - 1) = v % 2^e
  <2> DEFINE o == 2^e - 1
             w == v % 2^e
             g == bv_and(v, o)
  <2>1. \A i \in 0 .. W - 1 : /\ Bit(o, i) = IF i < e THEN 1 ELSE 0
                              /\ Bit(w, i) = IF i < e THEN Bit(v, i) ELSE 0
    <3>1. \A i \in 0 .. W - 1 : i \in Nat
      BY WAssumption
    <3> QED
      BY <1>1, <3>1, OnesBits, RemainderBits
  <2>2. o \in Word /\ w \in Word
    BY <1>3
  <2> HIDE DEF o, w
  <2>3. g \in Word /\ IsAnd(g, v, o)
    BY <1>1, <2>2, BitwiseFacts
  <2> HIDE DEF g
  <2>4. \A i \in 0 .. W - 1 : Bit(v, i) \in {0, 1}
    BY <1>1, WordBitType
  <2>5. \A i \in 0 .. W - 1 : Bit(g, i) = Bit(w, i)
    BY <2>1, <2>3, <2>4 DEF IsAnd
  <2>6. g = w
    BY <2>2, <2>3, <2>5, WordExtensionality
  <2> QED
    BY <2>6 DEF g, o, w
<1>6. Represents(tnum_const(2^e - 1), 2^e - 1)
  BY <1>3, ConstRepresents
<1> QED
  BY <1>4, <1>5, <1>6, AndRepresents

\* Rounds that follow the bits of r add up to r: c[k] is the word shifted by k.
LEMMA RoundsRepresent ==
  ASSUME NEW r \in 0 .. 2^LogW - 1, NEW round, NEW c,
         Represents(round[0], c[0]),
         \A i \in 0 .. LogW - 1, k \in Nat :
           Represents(round[i], c[k]) =>
             /\ Bit(r, i) = 1 => Represents(round[i + 1], c[k + 2^i])
             /\ Bit(r, i) = 0 => Represents(round[i + 1], c[k])
  PROVE  Represents(round[LogW], c[r])
<1> DEFINE S == {i \in Nat : i <= LogW => Represents(round[i], c[r % 2^i])}
<1>1. r \in Int /\ LogW \in Nat
  BY RoundFacts, PowerFacts
<1>2. 0 \in S
  <2>1. r % 2^0 = 0
    <3>1. r % 1 = 0
      BY <1>1
    <3> QED
      BY <3>1, PowerZero
  <2> QED
    BY <2>1
<1>3. ASSUME NEW i \in Nat, i \in S PROVE i + 1 \in S
  <2> SUFFICES ASSUME i + 1 <= LogW PROVE Represents(round[i + 1], c[r % 2^(i + 1)])
    OBVIOUS
  <2>1. i \in 0 .. LogW - 1 /\ Represents(round[i], c[r % 2^i])
    BY <1>1, <1>3
  <2>2. r % 2^(i + 1) = (r % 2^i) + 2^i * Bit(r, i) /\ Bit(r, i) \in {0, 1}
    BY <1>1, BitStep
  <2>3. r % 2^i \in Nat /\ 2^i \in Nat
    <3>1. r % 2^i \in 0 .. 2^i - 1 /\ 2^i \in Nat
      BY <1>1, PowerFacts, RemainderBits
    <3> QED
      BY <3>1
  <2> DEFINE k == r % 2^i
             d == 2^i
  <2>4. d * 0 = 0 /\ d * 1 = d
    BY <2>3
  <2>5. /\ Bit(r, i) = 1 => Represents(round[i + 1], c[k + d])
        /\ Bit(r, i) = 0 => Represents(round[i + 1], c[k])
    BY <2>1, <2>3
  <2>6. r % 2^(i + 1) = k + d * Bit(r, i)
    BY <2>2
  <2> HIDE DEF k, d
  <2>7. CASE Bit(r, i) = 0
    <3>1. k + d * Bit(r, i) = k
      BY <2>3, <2>4, <2>7 DEF k, d
    <3> QED
      BY <2>5, <2>6, <2>7, <3>1
  <2>8. CASE Bit(r, i) = 1
    <3>1. k + d * Bit(r, i) = k + d
      BY <2>3, <2>4, <2>8 DEF k, d
    <3> QED
      BY <2>5, <2>6, <2>8, <3>1
  <2> QED
    BY <2>2, <2>7, <2>8
<1>4. LogW \in S
  <2> HIDE DEF S
  <2> QED
    BY <1>1, <1>2, <1>3, SetInduction
<1>5. r % 2^LogW = r
  BY <1>1, LowSelf
<1> QED
  BY <1>1, <1>4, <1>5

\* The operations on pairs of words that a round calls yield pairs of words.
LEMMA RoundTypes ==
  ASSUME NEW s \in PairOfWords, NEW t \in PairOfWords, NEW k \in Nat
  PROVE  /\ tnum_union(s, t) \in PairOfWords
         /\ tnum_lshift(s, k) \in PairOfWords
         /\ tnum_rshift(s, k) \in PairOfWords
<1>1. s.value \in Word /\ s.mask \in Word /\ t.value \in Word /\ t.mask \in Word
  BY DEF PairOfWords
<1>2. \A p \in Word, q \in Word :
        bv_and(p, q) \in Word /\ bv_or(p, q) \in Word /\ bv_xor(p, q) \in Word
        /\ bv_not(p) \in Word
  BY BitwiseFacts
<1>3. tnum_union(s, t) \in PairOfWords
  BY <1>1, <1>2 DEF tnum_union, TNUM, PairOfWords
<1>4. \A p \in Word : shl(p, k) \in Word
  <2>1. 2^k \in Int
    BY PowerFacts
  <2>2. ASSUME NEW p \in Word PROVE shl(p, k) \in Word
    <3>1. p * 2^k \in Int
      BY <2>1, WordInt
    <3> QED
      BY <3>1, WordFacts DEF shl
  <2> QED
    BY <2>2
<1>5. \A p \in Word : lshr(p, k) \in Word
  BY LshrWords
<1> QED
  BY <1>1, <1>3, <1>4, <1>5 DEF tnum_lshift, tnum_rshift, TNUM, PairOfWords

\* A round of a shift to the left by amt.
ShlRound(amt, c, i) ==
  LET u == IF Bit(amt.mask, i - 1) = 1
             THEN tnum_union(c, tnum_lshift(c, 2^(i - 1))) ELSE c
  IN  IF Bit(amt.value, i - 1) = 1 THEN tnum_lshift(u, 2^(i - 1)) ELSE u

\* The rounds of tnum_shl.
LEMMA ShlRounds ==
  ASSUME NEW t \in PairOfWords, NEW b, NEW n, NEW amt, amt = tnum_and(b, tnum_const(n - 1))
  PROVE  \E round \in [0 .. LogW -> PairOfWords] :
           /\ tnum_shl(t, b, n) = round[LogW]
           /\ round[0] = t
           /\ \A i \in 0 .. LogW - 1 : round[i + 1] = ShlRound(amt, round[i], i + 1)
<1> DEFINE Step(c, i) == ShlRound(amt, c, i)
           G == [i \in 1 .. LogW |-> [c \in PairOfWords |-> Step(c, i)]]
           round[i \in 0 .. LogW] ==
             IF i = 0 THEN t
             ELSE LET c == round[i - 1]
                      u == IF Bit(amt.mask, i - 1) = 1
                             THEN tnum_union(c, tnum_lshift(c, 2^(i - 1))) ELSE c
                  IN  IF Bit(amt.value, i - 1) = 1 THEN tnum_lshift(u, 2^(i - 1)) ELSE u
<1>1. LogW \in Nat
  BY RoundFacts
<1>2. tnum_shl(t, b, n) = round[LogW]
  BY DEF tnum_shl, by_amount
<1>3. \A i \in 1 .. LogW : \A c \in PairOfWords : Step(c, i) \in PairOfWords
  <2>1. \A i \in 1 .. LogW : 2^(i - 1) \in Nat
    <3>1. \A i \in 1 .. LogW : i - 1 \in Nat
      BY <1>1
    <3> QED
      BY <3>1, PowerFacts
  <2>2. ASSUME NEW i \in 1 .. LogW, NEW c \in PairOfWords
        PROVE  Step(c, i) \in PairOfWords
    <3> DEFINE u == IF Bit(amt.mask, i - 1) = 1
                      THEN tnum_union(c, tnum_lshift(c, 2^(i - 1))) ELSE c
    <3>1. u \in PairOfWords
      BY <2>1, RoundTypes
    <3> HIDE DEF u
    <3>2. tnum_lshift(u, 2^(i - 1)) \in PairOfWords
      BY <2>1, <3>1, RoundTypes
    <3> QED
      BY <3>1, <3>2 DEF u, ShlRound
  <2> QED
    BY <2>2
<1>4. G \in [1 .. LogW -> [PairOfWords -> PairOfWords]]
  <2> HIDE DEF Step
  <2> QED
    BY <1>3
<1>5. PICK g \in [0 .. LogW -> PairOfWords] : Unfolded(g, LogW, t, G)
  <2> HIDE DEF G
  <2> QED
    BY <1>1, <1>4, RecursionUnfolds, Zenon
<1>6. g = [i \in 0 .. LogW |-> IF i = 0 THEN t ELSE Step(g[i - 1], i)]
  <2>1. ASSUME NEW i \in 0 .. LogW, i # 0 PROVE G[i][g[i - 1]] = Step(g[i - 1], i)
    <3>1. i \in 1 .. LogW /\ g[i - 1] \in PairOfWords
      BY <1>1, <2>1
    <3> HIDE DEF Step
    <3> QED
      BY <3>1
  <2> HIDE DEF Step, G
  <2> QED
    BY <1>5, <2>1 DEF Unfolded
<1>7. round = [i \in 0 .. LogW |-> IF i = 0 THEN t ELSE Step(round[i - 1], i)]
  <2>1. g = [i \in 0 .. LogW |->
               IF i = 0 THEN t
               ELSE LET c == g[i - 1]
                        u == IF Bit(amt.mask, i - 1) = 1
                               THEN tnum_union(c, tnum_lshift(c, 2^(i - 1))) ELSE c
                    IN  IF Bit(amt.value, i - 1) = 1 THEN tnum_lshift(u, 2^(i - 1)) ELSE u]
    BY <1>6 DEF ShlRound
  <2>2. round = [i \in 0 .. LogW |->
               IF i = 0 THEN t
               ELSE LET c == round[i - 1]
                        u == IF Bit(amt.mask, i - 1) = 1
                               THEN tnum_union(c, tnum_lshift(c, 2^(i - 1))) ELSE c
                    IN  IF Bit(amt.value, i - 1) = 1 THEN tnum_lshift(u, 2^(i - 1)) ELSE u]
    BY <2>1
  <2> HIDE DEF round
  <2> QED
    BY <2>2 DEF ShlRound
<1> HIDE DEF round
<1>8. round[0] = t
  BY <1>1, <1>7
<1>9. ASSUME NEW i \in 0 .. LogW - 1 PROVE round[i + 1] = Step(round[i], i + 1)
  <2>1. i + 1 \in 0 .. LogW /\ i + 1 # 0 /\ (i + 1) - 1 = i
    BY <1>1
  <2> HIDE DEF Step
  <2>2. round[i + 1] = Step(round[(i + 1) - 1], i + 1)
    BY <1>7, <2>1
  <2> QED
    BY <2>1, <2>2
<1>10. round \in [0 .. LogW -> PairOfWords]
  <2> DEFINE S == {i \in Nat : i <= LogW => round[i] \in PairOfWords}
  <2>1. 0 \in S
    BY <1>8
  <2>2. ASSUME NEW i \in Nat, i \in S PROVE i + 1 \in S
    <3> SUFFICES ASSUME i + 1 <= LogW PROVE round[i + 1] \in PairOfWords
      OBVIOUS
    <3>1. i \in 0 .. LogW - 1 /\ i + 1 \in 1 .. LogW /\ round[i] \in PairOfWords
      BY <1>1, <2>2
    <3> HIDE DEF Step
    <3> QED
      BY <1>3, <1>9, <3>1
  <2> HIDE DEF S
  <2>3. \A i \in Nat : i \in S
    BY <2>1, <2>2, SetInduction
  <2>4. \A i \in 0 .. LogW : round[i] \in PairOfWords
    BY <1>1, <2>3 DEF S
  <2> HIDE DEF Step
  <2> QED
    BY <1>7, <2>4
<1> QED
  BY <1>2, <1>8, <1>9, <1>10

\* Left, by the bits of the amount, known and unknown.
LEMMA ShlRepresents ==
  ASSUME NEW t, NEW v, Represents(t, v), NEW b, NEW y, Represents(b, y),
         NEW e \in 0 .. LogW
  PROVE  Represents(tnum_shl(t, b, 2^e), shl(v, y % 2^e))
<1> DEFINE amt == tnum_and(b, tnum_const(2^e - 1))
           r == y % 2^e
           shifted == [k \in Nat |-> shl(v, k)]
<1>1. LogW \in Nat /\ t \in PairOfWords /\ v \in Word /\ v \in Int
  BY RoundFacts, Represented, WordInt
<1>2. Represents(amt, r) /\ r \in 0 .. 2^LogW - 1
  BY AmountRepresents
<1>3. PICK round \in [0 .. LogW -> PairOfWords] :
        /\ tnum_shl(t, b, 2^e) = round[LogW]
        /\ round[0] = t
        /\ \A i \in 0 .. LogW - 1 : round[i + 1] = ShlRound(amt, round[i], i + 1)
  <2>1. amt = tnum_and(b, tnum_const(2^e - 1)) /\ t \in PairOfWords
    BY <1>1
  <2> HIDE DEF amt
  <2> QED
    BY <2>1, ShlRounds
<1> HIDE DEF amt, r
<1>4. shl(v, 0) = v
  <2>1. v * 2^0 = v
    BY <1>1, PowerZero
  <2> QED
    BY <1>1, <2>1, WordFacts DEF shl
<1>5. \A j \in Nat, k \in Nat : shl(shl(v, k), j) = shl(v, k + j)
  <2>1. ASSUME NEW j \in Nat, NEW k \in Nat PROVE shl(shl(v, k), j) = shl(v, k + j)
    <3> DEFINE d == 2^W
               p == 2^k
               q == 2^j
    <3>1. d \in Nat \ {0} /\ p \in Nat /\ q \in Nat /\ 2^(k + j) = p * q
      BY WordFacts, PowerFacts, PowerSum
    <3> HIDE DEF d, p, q
    <3>2. v * p \in Int /\ q \in Int /\ v * (p * q) = (v * p) * q
      BY <1>1, <3>1
    <3>3. (((v * p) % d) * q) % d = ((v * p) * q) % d
      BY <3>1, <3>2, ModFactor
    <3>4. shl(shl(v, k), j) = (((v * p) % d) * q) % d
      BY DEF shl, d, p, q
    <3>5. shl(v, k + j) = (v * (p * q)) % d
      BY <3>1 DEF shl, d
    <3> QED
      BY <3>2, <3>3, <3>4, <3>5
  <2> QED
    BY <2>1
<1>6. ASSUME NEW i \in 0 .. LogW - 1, NEW k \in Nat, Represents(round[i], shifted[k])
       PROVE  /\ Bit(r, i) = 1 => Represents(round[i + 1], shifted[k + 2^i])
              /\ Bit(r, i) = 0 => Represents(round[i + 1], shifted[k])
  <2> DEFINE c == round[i]
             cs == tnum_lshift(c, 2^i)
             u == IF Bit(amt.mask, i) = 1 THEN tnum_union(c, cs) ELSE c
             us == tnum_lshift(u, 2^i)
             w == shl(v, k)
             ws == shl(v, k + 2^i)
  <2>1. i \in Nat /\ (i + 1) - 1 = i /\ i \in 0 .. W - 1
    BY RoundFacts
  <2>2. 2^i \in Nat
    BY <2>1, PowerFacts
  <2>3. k + 2^i \in Nat
    BY <2>2
  <2>4. round[i + 1] = IF Bit(amt.value, i) = 1 THEN us ELSE u
    BY <1>3, <2>1 DEF ShlRound
  <2>5. /\ \/ Bit(amt.mask, i) = 0 /\ Bit(r, i) = Bit(amt.value, i)
           \/ Bit(amt.mask, i) = 1 /\ Bit(amt.value, i) = 0
    BY <1>2, <2>1, Represented
  <2>6. Represents(c, w)
    BY <1>6
  <2>7. ws = shl(w, 2^i)
    BY <1>5, <2>2
  <2> HIDE DEF c, w, ws
  <2>8. Represents(cs, ws)
    BY <2>2, <2>6, <2>7, LshiftRepresents
  <2> HIDE DEF cs
  <2>9. Represents(tnum_union(c, cs), w) /\ Represents(tnum_union(c, cs), ws)
    BY <2>6, <2>8, UnionRepresents
  <2>10. /\ Bit(r, i) = 1 => Represents(round[i + 1], ws)
         /\ Bit(r, i) = 0 => Represents(round[i + 1], w)
    <3>1. CASE Bit(amt.mask, i) = 0 /\ Bit(amt.value, i) = 1
      <4>1. round[i + 1] = cs /\ Bit(r, i) = 1
        BY <2>4, <2>5, <3>1 DEF cs
      <4> QED
        BY <2>8, <4>1
    <3>2. CASE Bit(amt.mask, i) = 0 /\ Bit(amt.value, i) # 1
      <4>1. round[i + 1] = c /\ Bit(r, i) # 1
        BY <2>4, <2>5, <3>2
      <4> QED
        BY <2>6, <4>1
    <3>3. CASE Bit(amt.mask, i) = 1
      <4>1. round[i + 1] = tnum_union(c, cs)
        BY <2>4, <2>5, <3>3
      <4> QED
        BY <2>9, <4>1
    <3> QED
      BY <2>5, <3>1, <3>2, <3>3
  <2>11. shifted[k] = w /\ shifted[k + 2^i] = ws
    BY <2>3 DEF w, ws
  <2> QED
    BY <2>10, <2>11
<1>7. Represents(round[0], shifted[0])
  BY <1>3, <1>4
<1> HIDE DEF shifted
<1>8. Represents(round[LogW], shifted[r])
  BY <1>2, <1>6, <1>7, RoundsRepresent
<1>9. shifted[r] = shl(v, r)
  <2>1. r \in Nat
    BY <1>2
  <2> QED
    BY <2>1 DEF shifted
<1> QED
  BY <1>3, <1>8, <1>9 DEF r

\* Right, by the bits of the amount, known and unknown.
LEMMA LshrRepresents ==
  ASSUME NEW t, NEW v, Represents(t, v), NEW b, NEW y, Represents(b, y),
         NEW e \in 0 .. LogW
  PROVE  Represents(tnum_lshr(t, b, 2^e), lshr(v, y % 2^e))
<1> DEFINE amt == tnum_and(b, tnum_const(2^e - 1))
           r == y % 2^e
           Step(c, i) ==
             LET u == IF Bit(amt.mask, i - 1) = 1
                        THEN tnum_union(c, tnum_rshift(c, 2^(i - 1))) ELSE c
             IN  IF Bit(amt.value, i - 1) = 1 THEN tnum_rshift(u, 2^(i - 1)) ELSE u
           G == [n \in 1 .. LogW |-> [c \in PairOfWords |-> Step(c, n)]]
           round[i \in 0 .. LogW] ==
             IF i = 0 THEN t
             ELSE LET c == round[i - 1]
                      u == IF Bit(amt.mask, i - 1) = 1
                             THEN tnum_union(c, tnum_rshift(c, 2^(i - 1))) ELSE c
                  IN  IF Bit(amt.value, i - 1) = 1 THEN tnum_rshift(u, 2^(i - 1)) ELSE u
           shifted == [k \in Nat |-> lshr(v, k)]
<1>1. LogW \in Nat /\ t \in PairOfWords /\ v \in Word /\ v \in Int
  BY RoundFacts, Represented, WordInt
<1>2. Represents(amt, r) /\ r \in 0 .. 2^LogW - 1
  BY AmountRepresents
<1>3. tnum_lshr(t, b, 2^e) = round[LogW]
  BY DEF tnum_lshr, by_amount
<1> HIDE DEF amt, r
<1>4. \A n \in 1 .. LogW : \A c \in PairOfWords : Step(c, n) \in PairOfWords
  <2>1. \A n \in 1 .. LogW : 2^(n - 1) \in Nat
    <3>1. \A n \in 1 .. LogW : n - 1 \in Nat
      BY <1>1
    <3> QED
      BY <3>1, PowerFacts
  <2>2. ASSUME NEW n \in 1 .. LogW, NEW c \in PairOfWords
        PROVE  Step(c, n) \in PairOfWords
    <3> DEFINE u == IF Bit(amt.mask, n - 1) = 1
                      THEN tnum_union(c, tnum_rshift(c, 2^(n - 1))) ELSE c
    <3>1. u \in PairOfWords
      BY <2>1, RoundTypes
    <3> HIDE DEF u
    <3>2. tnum_rshift(u, 2^(n - 1)) \in PairOfWords
      BY <2>1, <3>1, RoundTypes
    <3> QED
      BY <3>1, <3>2 DEF u
  <2> QED
    BY <2>2
<1>5. G \in [1 .. LogW -> [PairOfWords -> PairOfWords]]
  <2> HIDE DEF Step
  <2> QED
    BY <1>4
<1>6. PICK g \in [0 .. LogW -> PairOfWords] : Unfolded(g, LogW, t, G)
  <2> HIDE DEF G
  <2> QED
    BY <1>1, <1>5, RecursionUnfolds, Zenon
<1>7. g = [n \in 0 .. LogW |-> IF n = 0 THEN t ELSE Step(g[n - 1], n)]
  <2>1. ASSUME NEW n \in 0 .. LogW, n # 0 PROVE G[n][g[n - 1]] = Step(g[n - 1], n)
    <3>1. n \in 1 .. LogW /\ g[n - 1] \in PairOfWords
      BY <1>1, <2>1
    <3> HIDE DEF Step
    <3> QED
      BY <3>1
  <2> HIDE DEF Step, G
  <2> QED
    BY <1>6, <2>1 DEF Unfolded
<1>8. round = [n \in 0 .. LogW |-> IF n = 0 THEN t ELSE Step(round[n - 1], n)]
  <2>1. g = [n \in 0 .. LogW |->
               IF n = 0 THEN t
               ELSE LET c == g[n - 1]
                        u == IF Bit(amt.mask, n - 1) = 1
                               THEN tnum_union(c, tnum_rshift(c, 2^(n - 1))) ELSE c
                    IN  IF Bit(amt.value, n - 1) = 1 THEN tnum_rshift(u, 2^(n - 1)) ELSE u]
    BY <1>7
  <2>2. round = [n \in 0 .. LogW |->
               IF n = 0 THEN t
               ELSE LET c == round[n - 1]
                        u == IF Bit(amt.mask, n - 1) = 1
                               THEN tnum_union(c, tnum_rshift(c, 2^(n - 1))) ELSE c
                    IN  IF Bit(amt.value, n - 1) = 1 THEN tnum_rshift(u, 2^(n - 1)) ELSE u]
    BY <2>1
  <2> HIDE DEF round
  <2> QED
    BY <2>2
<1> HIDE DEF round
<1>9. /\ round[0] = t
      /\ \A i \in 0 .. LogW - 1 : round[i + 1] = Step(round[i], i + 1)
  <2>1. round[0] = t
    BY <1>1, <1>8
  <2>2. ASSUME NEW i \in 0 .. LogW - 1 PROVE round[i + 1] = Step(round[i], i + 1)
    <3>1. i + 1 \in 0 .. LogW /\ i + 1 # 0 /\ (i + 1) - 1 = i
      BY <1>1
    <3> HIDE DEF Step
    <3>2. round[i + 1] = Step(round[(i + 1) - 1], i + 1)
      BY <1>8, <3>1
    <3> QED
      BY <3>1, <3>2
  <2> QED
    BY <2>1, <2>2
<1>10. lshr(v, 0) = v
  <2>1. v \div 1 = v
    BY <1>1
  <2> QED
    BY <2>1, PowerZero DEF lshr
<1>11. \A j \in Nat, k \in Nat : lshr(lshr(v, k), j) = lshr(v, k + j)
  <2>1. ASSUME NEW j \in Nat, NEW k \in Nat PROVE lshr(lshr(v, k), j) = lshr(v, k + j)
    <3>1. 2^k \in Nat \ {0} /\ 2^j \in Nat \ {0} /\ 2^(k + j) = 2^k * 2^j
      BY PowerFacts, PowerSum
    <3>2. (v \div 2^k) \div 2^j = v \div (2^k * 2^j)
      BY <1>1, <3>1, DivTwice
    <3> QED
      BY <3>1, <3>2 DEF lshr
  <2> QED
    BY <2>1
<1>12. ASSUME NEW i \in 0 .. LogW - 1, NEW k \in Nat, Represents(round[i], shifted[k])
       PROVE  /\ Bit(r, i) = 1 => Represents(round[i + 1], shifted[k + 2^i])
              /\ Bit(r, i) = 0 => Represents(round[i + 1], shifted[k])
  <2> DEFINE c == round[i]
             cs == tnum_rshift(c, 2^i)
             u == IF Bit(amt.mask, i) = 1 THEN tnum_union(c, cs) ELSE c
             us == tnum_rshift(u, 2^i)
             w == lshr(v, k)
             ws == lshr(v, k + 2^i)
  <2>1. i \in Nat /\ (i + 1) - 1 = i /\ i \in 0 .. W - 1
    BY RoundFacts
  <2>2. 2^i \in Nat
    BY <2>1, PowerFacts
  <2>3. k + 2^i \in Nat
    BY <2>2
  <2>4. round[i + 1] = IF Bit(amt.value, i) = 1 THEN us ELSE u
    BY <1>9, <2>1
  <2>5. /\ \/ Bit(amt.mask, i) = 0 /\ Bit(r, i) = Bit(amt.value, i)
           \/ Bit(amt.mask, i) = 1 /\ Bit(amt.value, i) = 0
    BY <1>2, <2>1, Represented
  <2>6. Represents(c, w)
    BY <1>12
  <2>7. ws = lshr(w, 2^i)
    BY <1>11, <2>2
  <2> HIDE DEF c, w, ws
  <2>8. Represents(cs, ws)
    BY <2>2, <2>6, <2>7, RshiftRepresents
  <2> HIDE DEF cs
  <2>9. Represents(tnum_union(c, cs), w) /\ Represents(tnum_union(c, cs), ws)
    BY <2>6, <2>8, UnionRepresents
  <2>10. /\ Bit(r, i) = 1 => Represents(round[i + 1], ws)
         /\ Bit(r, i) = 0 => Represents(round[i + 1], w)
    <3>1. CASE Bit(amt.mask, i) = 0 /\ Bit(amt.value, i) = 1
      <4>1. round[i + 1] = cs /\ Bit(r, i) = 1
        BY <2>4, <2>5, <3>1 DEF cs
      <4> QED
        BY <2>8, <4>1
    <3>2. CASE Bit(amt.mask, i) = 0 /\ Bit(amt.value, i) # 1
      <4>1. round[i + 1] = c /\ Bit(r, i) # 1
        BY <2>4, <2>5, <3>2
      <4> QED
        BY <2>6, <4>1
    <3>3. CASE Bit(amt.mask, i) = 1
      <4>1. round[i + 1] = tnum_union(c, cs)
        BY <2>4, <2>5, <3>3
      <4> QED
        BY <2>9, <4>1
    <3> QED
      BY <2>5, <3>1, <3>2, <3>3
  <2>11. shifted[k] = w /\ shifted[k + 2^i] = ws
    BY <2>3 DEF w, ws
  <2> QED
    BY <2>10, <2>11
<1>13. Represents(round[0], shifted[0])
  BY <1>9, <1>10
<1> HIDE DEF shifted
<1>14. Represents(round[LogW], shifted[r])
  BY <1>2, <1>12, <1>13, RoundsRepresent
<1>15. shifted[r] = lshr(v, r)
  <2>1. r \in Nat
    BY <1>2
  <2> QED
    BY <2>1 DEF shifted
<1> QED
  BY <1>3, <1>14, <1>15 DEF r

-----------------------------------------------------------------------------
(* Multiplication.                                                         *)

\* What a word has over the value of its tnum is represented by the mask alone.
LEMMA MaskRepresents ==
  ASSUME NEW t, NEW v, Represents(t, v)
  PROVE  Represents(TNUM(0, t.mask), v - t.value)
<1> DEFINE q == bv_and(v, t.mask)
<1>1. /\ t.value \in Word /\ t.mask \in Word /\ v \in Word /\ 0 \in Word
      /\ \A i \in 0 .. W - 1 : Bit(0, i) = 0
      /\ \A i \in 0 .. W - 1 :
           /\ Bit(t.value, i) \in {0, 1} /\ Bit(t.mask, i) \in {0, 1}
           /\ Bit(v, i) \in {0, 1}
           /\ \/ Bit(t.mask, i) = 0 /\ Bit(v, i) = Bit(t.value, i)
              \/ Bit(t.mask, i) = 1 /\ Bit(t.value, i) = 0
  <2>1. 0 \in Word /\ \A i \in 0 .. W - 1 : Bit(0, i) = 0
    BY WordFacts, ZeroWord
  <2> QED
    BY <2>1, Represented
<1>2. q \in Word /\ IsAnd(q, v, t.mask)
  BY <1>1, BitwiseFacts
<1> HIDE DEF q
<1>3. \A i \in 0 .. W - 1 : /\ Bit(t.value, i) = 0 \/ Bit(q, i) = 0
                            /\ Bit(v, i) = Bit(t.value, i) + Bit(q, i)
                            /\ Bit(t.mask, i) = 0 => Bit(q, i) = 0
  <2>1. ASSUME NEW i \in 0 .. W - 1
        PROVE  /\ Bit(t.value, i) = 0 \/ Bit(q, i) = 0
               /\ Bit(v, i) = Bit(t.value, i) + Bit(q, i)
               /\ Bit(t.mask, i) = 0 => Bit(q, i) = 0
    <3>1. Bit(q, i) = IF Bit(v, i) = 1 /\ Bit(t.mask, i) = 1 THEN 1 ELSE 0
      BY <1>2 DEF IsAnd
    <3>2. /\ Bit(t.value, i) \in {0, 1} /\ Bit(t.mask, i) \in {0, 1}
          /\ Bit(v, i) \in {0, 1}
          /\ \/ Bit(t.mask, i) = 0 /\ Bit(v, i) = Bit(t.value, i)
             \/ Bit(t.mask, i) = 1 /\ Bit(t.value, i) = 0
      BY <1>1
    <3> QED
      BY <3>1, <3>2
  <2> QED
    BY <2>1
<1>4. /\ t.value + q \in Word
      /\ \A i \in 0 .. W - 1 : Bit(t.value + q, i) = Bit(t.value, i) + Bit(q, i)
  BY <1>1, <1>2, <1>3, DisjointSum
<1>5. v = t.value + q
  BY <1>1, <1>3, <1>4, WordExtensionality
<1>6. q = v - t.value
  <2>1. q \in Int /\ t.value \in Int
    BY <1>1, <1>2, WordInt
  <2> QED
    BY <1>5, <2>1
<1>7. Represents(TNUM(0, t.mask), q)
  <2>1. ASSUME NEW i \in 0 .. W - 1
        PROVE  \/ Bit(t.mask, i) = 0 /\ Bit(q, i) = Bit(0, i)
               \/ Bit(t.mask, i) = 1 /\ Bit(0, i) = 0
    BY <1>1, <1>3
  <2> QED
    BY <1>1, <1>2, <2>1, MadeOf
<1> QED
  BY <1>6, <1>7

\* A tnum whose every possible bit is unknown represents the word, and zero.
LEMMA UnknownRepresents ==
  ASSUME NEW t, NEW v, Represents(t, v)
  PROVE  /\ Represents(TNUM(0, bv_or(t.value, t.mask)), v)
         /\ Represents(TNUM(0, bv_or(t.value, t.mask)), 0)
<1> DEFINE m == bv_or(t.value, t.mask)
<1>1. t.value \in Word /\ t.mask \in Word /\ v \in Word
  BY Represented
<1>2. 0 \in Word /\ \A i \in 0 .. W - 1 : Bit(0, i) = 0
  BY WordFacts, ZeroWord
<1>3. m \in Word /\ IsOr(m, t.value, t.mask)
  BY <1>1, BitwiseFacts
<1> HIDE DEF m
<1>4. ASSUME NEW i \in 0 .. W - 1
      PROVE  \/ Bit(m, i) = 0 /\ Bit(v, i) = 0
             \/ Bit(m, i) = 1
  <2>1. /\ \/ Bit(t.mask, i) = 0 /\ Bit(v, i) = Bit(t.value, i)
           \/ Bit(t.mask, i) = 1 /\ Bit(t.value, i) = 0
        /\ Bit(v, i) \in {0, 1}
    BY Represented
  <2> QED
    BY <1>3, <2>1 DEF IsOr
<1>5. Represents(TNUM(0, m), v) /\ Represents(TNUM(0, m), 0)
  BY <1>1, <1>2, <1>3, <1>4, MadeOf
<1> QED
  BY <1>5 DEF m

\* The round of the product for the bit n - 1 of s.
MulStep(s, t, c, n) ==
  LET shifted == tnum_lshift(t, n - 1)
  IN  CASE Bit(s.value, n - 1) = 1 -> tnum_add(c, TNUM(0, shifted.mask))
        [] Bit(s.value, n - 1) = 0 /\ Bit(s.mask, n - 1) = 1 ->
             tnum_add(c, TNUM(0, bv_or(shifted.value, shifted.mask)))
        [] OTHER -> c

\* It yields a pair of words, whatever it is given.
LEMMA MulStepType ==
  ASSUME NEW s, NEW t \in PairOfWords, NEW c \in PairOfWords, NEW n \in Nat \ {0}
  PROVE  MulStep(s, t, c, n) \in PairOfWords
<1> DEFINE shifted == tnum_lshift(t, n - 1)
<1>1. n - 1 \in Nat /\ 0 \in Word
  BY WordFacts
<1>2. shifted \in PairOfWords
  BY <1>1, RoundTypes
<1>3. \A p \in Word, q \in Word :
        bv_and(p, q) \in Word /\ bv_or(p, q) \in Word /\ bv_xor(p, q) \in Word
        /\ bv_not(p) \in Word /\ bv_add(p, q) \in Word
  BY BitwiseFacts, WordOperations
<1>4. \A e \in PairOfWords, f \in PairOfWords : tnum_add(e, f) \in PairOfWords
  <2>1. ASSUME NEW e \in PairOfWords, NEW f \in PairOfWords
        PROVE  tnum_add(e, f) \in PairOfWords
    <3> DEFINE sm == bv_add(e.mask, f.mask)
               sv == bv_add(e.value, f.value)
               sigma == bv_add(sm, sv)
               chi == bv_xor(sigma, sv)
               mk == bv_or(e.mask, f.mask)
               mu == bv_or(chi, mk)
               nu == bv_not(mu)
               p == bv_and(sv, nu)
    <3>1. e.mask \in Word /\ e.value \in Word /\ f.mask \in Word /\ f.value \in Word
      BY DEF PairOfWords
    <3>2. tnum_add(e, f) = TNUM(p, mu)
      BY DEF tnum_add
    <3>3. sm \in Word /\ sv \in Word /\ mk \in Word
      BY <1>3, <3>1
    <3> HIDE DEF sm, sv, mk
    <3>4. sigma \in Word
      BY <1>3, <3>3
    <3> HIDE DEF sigma
    <3>5. chi \in Word
      BY <1>3, <3>3, <3>4
    <3> HIDE DEF chi
    <3>6. mu \in Word
      BY <1>3, <3>3, <3>5
    <3> HIDE DEF mu
    <3>7. nu \in Word
      BY <1>3, <3>6
    <3> HIDE DEF nu
    <3>8. p \in Word
      BY <1>3, <3>3, <3>7
    <3> HIDE DEF p
    <3> QED
      BY <3>2, <3>6, <3>8 DEF TNUM, PairOfWords
  <2> QED
    BY <2>1
<1> HIDE DEF shifted
<1>5. TNUM(0, shifted.mask) \in PairOfWords
  BY <1>1, <1>2 DEF TNUM, PairOfWords
<1>6. TNUM(0, bv_or(shifted.value, shifted.mask)) \in PairOfWords
  BY <1>1, <1>2, <1>3 DEF TNUM, PairOfWords
<1>7. /\ tnum_add(c, TNUM(0, shifted.mask)) \in PairOfWords
      /\ tnum_add(c, TNUM(0, bv_or(shifted.value, shifted.mask))) \in PairOfWords
  BY <1>4, <1>5, <1>6
<1> QED
  BY <1>7 DEF MulStep, shifted

\* The arithmetic of one round: d is the bit's power of two.
Distributes(N, d, ul, sl, v, q, bu, bs, w) ==
  (((ul + d * bu) * v) - ((sl + d * bs) * q)) % N
    = ((((ul * v) - (sl * q)) % N) + ((w * d) % N)) % N

\* w is what the bit adds to one product more than to the other.
LEMMA MulArithmetic ==
  ASSUME NEW N, NEW d, NEW ul, NEW sl, NEW v, NEW q, NEW bu, NEW bs, NEW w,
         N \in Nat \ {0}, d \in Int, ul \in Int, sl \in Int, v \in Int, q \in Int,
         bu \in {0, 1}, bs \in {0, 1}, w \in Int, w = bu * v - bs * q
  PROVE  Distributes(N, d, ul, sl, v, q, bu, bs, w)
<1> DEFINE z == (ul * v) - (sl * q)
           y == w * d
<1>1. z \in Int /\ y \in Int
  OBVIOUS
<1>2. ((ul + d * bu) * v) - ((sl + d * bs) * q) = z + y
  <2> DEFINE uv == ul * v
             sq == sl * q
             dv == d * v
             dq == d * q
  <2>1. uv \in Int /\ sq \in Int /\ dv \in Int /\ dq \in Int
    OBVIOUS
  <2>2. (ul + d) * v = uv + dv /\ (sl + d) * q = sq + dq
    OBVIOUS
  <2>3. d * 0 = 0 /\ d * 1 = d /\ 0 * v = 0 /\ 1 * v = v /\ 0 * q = 0 /\ 1 * q = q
    OBVIOUS
  <2>4. /\ bu = 0 => (ul + d * bu) * v = uv /\ bu * v = 0
        /\ bu = 1 => (ul + d * bu) * v = uv + dv /\ bu * v = v
        /\ bs = 0 => (sl + d * bs) * q = sq /\ bs * q = 0
        /\ bs = 1 => (sl + d * bs) * q = sq + dq /\ bs * q = q
    <3> HIDE DEF uv, sq, dv, dq
    <3>1. ul + 0 = ul /\ sl + 0 = sl
      OBVIOUS
    <3>2. bu = 0 => (ul + d * bu) * v = uv /\ bu * v = 0
      BY <2>3, <3>1 DEF uv
    <3>3. bu = 1 => (ul + d * bu) * v = uv + dv /\ bu * v = v
      BY <2>2, <2>3
    <3>4. bs = 0 => (sl + d * bs) * q = sq /\ bs * q = 0
      BY <2>3, <3>1 DEF sq
    <3>5. bs = 1 => (sl + d * bs) * q = sq + dq /\ bs * q = q
      BY <2>2, <2>3
    <3> QED
      BY <3>2, <3>3, <3>4, <3>5
  <2>5. y = bu * dv - bs * dq
    <3>1. y = (bu * v - bs * q) * d
      OBVIOUS
    <3>2. (v - q) * d = dv - dq /\ (0 - q) * d = 0 - dq /\ (v - 0) * d = dv
          /\ (0 - 0) * d = 0
      OBVIOUS
    <3>3. /\ 0 * dv = 0 /\ 1 * dv = dv /\ 0 * dq = 0 /\ 1 * dq = dq
      BY <2>1
    <3> HIDE DEF dv, dq, y
    <3> QED
      BY <2>1, <2>3, <3>1, <3>2, <3>3
  <2>6. /\ 0 * dv = 0 /\ 1 * dv = dv /\ 0 * dq = 0 /\ 1 * dq = dq
    BY <2>1
  <2>7. z = uv - sq
    OBVIOUS
  <2> HIDE DEF uv, sq, dv, dq, y, z
  <2>8. /\ (ul + d * bu) * v = uv + bu * dv /\ bu * dv \in Int
        /\ (sl + d * bs) * q = sq + bs * dq /\ bs * dq \in Int
    BY <2>1, <2>4, <2>6
  <2> DEFINE bdv == bu * dv
             bdq == bs * dq
  <2>9. y = bdv - bdq /\ bdv \in Int /\ bdq \in Int
    BY <2>5, <2>8
  <2>10. (ul + d * bu) * v = uv + bdv /\ (sl + d * bs) * q = sq + bdq
    BY <2>8
  <2> HIDE DEF bdv, bdq
  <2> QED
    BY <2>1, <2>7, <2>9, <2>10
<1> HIDE DEF z, y
<1>3. (z + y) % N = ((z % N) + (y % N)) % N
  <2>1. y % N \in Int
    BY <1>1, DivMod
  <2>2. ((z % N) + (y % N)) % N = (z + (y % N)) % N
    <3> DEFINE k == y % N
    <3>1. k \in Int
      BY <2>1
    <3> HIDE DEF k
    <3>2. ((z % N) + k) % N = (z + k) % N
      BY <1>1, <3>1, ModSum
    <3> QED
      BY <3>2 DEF k
  <2>3. (z + (y % N)) % N = (z + y) % N
    BY <1>1, ModSum
  <2> QED
    BY <2>2, <2>3
<1> QED
  BY <1>2, <1>3 DEF z, y, Distributes

\* acc_m after i rounds represents what the low i bits of the first operand add
\* to the product of the values, when they are not those of its value.
Surplus(s, t, u, v, i) ==
  (((u % 2^i) * v) - ((s.value % 2^i) * t.value)) % 2^W

\* A round of the product adds to acc_m what bit i of the first operand adds to
\* the surplus (the body of the loop of bpf_mul).
LEMMA MulStepRepresents ==
  ASSUME NEW s, NEW t, NEW u, NEW v, Represents(s, u), Represents(t, v),
         NEW i \in 0 .. W - 1, NEW c, Represents(c, Surplus(s, t, u, v, i))
  PROVE  Represents(MulStep(s, t, c, i + 1), Surplus(s, t, u, v, i + 1))
<1> DEFINE bu == Bit(u, i)
           bs == Bit(s.value, i)
           d == 2^i
           N == 2^W
           q == t.value
           w == bu * v - bs * q
           sh == tnum_lshift(t, i)
           S0 == Surplus(s, t, u, v, i)
           S1 == Surplus(s, t, u, v, i + 1)
<1>1. /\ s.value \in Int /\ t.value \in Int /\ u \in Int /\ v \in Int /\ v \in Word
      /\ i \in Nat /\ (i + 1) - 1 = i
  BY Represented, WordInt, WAssumption
<1>2. bu \in {0, 1} /\ bs \in {0, 1}
  BY Represented
<1>3. d \in Nat \ {0} /\ N \in Nat \ {0}
  BY <1>1, PowerFacts, WordFacts
<1>4. w \in Int
  <2> HIDE DEF bu, bs, q
  <2>1. q \in Int
    BY <1>1 DEF q
  <2> QED
    BY <1>1, <1>2, <2>1
<1>5. S1 = (S0 + ((w * d) % N)) % N
  <2> DEFINE ul == u % d
             sl == s.value % d
  <2>1. u % 2^(i + 1) = ul + d * bu /\ s.value % 2^(i + 1) = sl + d * bs
    BY <1>1, BitStep
  <2>2. ul \in Int /\ sl \in Int
    <3> HIDE DEF d
    <3>1. \A z \in Int : z % d \in Int
      BY <1>3, DivMod
    <3> QED
      BY <1>1, <3>1
  <2>3. S1 = (((ul + d * bu) * v) - ((sl + d * bs) * q)) % N
    BY <2>1 DEF Surplus
  <2>4. S0 = ((ul * v) - (sl * q)) % N
    BY DEF Surplus
  <2>5. q \in Int /\ d \in Int
    BY <1>1, <1>3
  <2> HIDE DEF ul, sl, d, N, bu, bs, q, S0, S1
  <2>6. Distributes(N, d, ul, sl, v, q, bu, bs, w)
    <3>1. w = bu * v - bs * q
      OBVIOUS
    <3> HIDE DEF w
    <3> QED
      BY <1>1, <1>2, <1>3, <1>4, <2>2, <2>5, <3>1, MulArithmetic
  <2> QED
    BY <2>3, <2>4, <2>6 DEF Distributes
<1>6. Represents(sh, shl(v, i))
  BY <1>1, LshiftRepresents
<1>7. MulStep(s, t, c, i + 1) =
        IF bs = 1 THEN tnum_add(c, TNUM(0, sh.mask))
        ELSE IF Bit(s.mask, i) = 1
          THEN tnum_add(c, TNUM(0, bv_or(sh.value, sh.mask))) ELSE c
  <2>1. MulStep(s, t, c, i + 1) =
          CASE bs = 1 -> tnum_add(c, TNUM(0, sh.mask))
            [] bs = 0 /\ Bit(s.mask, i) = 1 ->
                 tnum_add(c, TNUM(0, bv_or(sh.value, sh.mask)))
            [] OTHER -> c
    BY <1>1 DEF MulStep
  <2> HIDE DEF bs, sh
  <2> QED
    BY <1>2, <2>1
<1>8. /\ \/ Bit(s.mask, i) = 0 /\ bu = bs
         \/ Bit(s.mask, i) = 1 /\ bs = 0
  BY Represented
<1>9. S0 \in Word /\ S0 % N = S0 /\ 0 % N = 0 /\ S0 + 0 = S0
  <2>1. S0 \in Word /\ 0 \in Word
    BY Represented, WordFacts
  <2> HIDE DEF S0
  <2>2. S0 \in Int
    BY <2>1, WordInt
  <2> QED
    BY <2>1, <2>2, WordFacts
<1>10. CASE bs = 1
  <2>1. bu = 1 /\ w = v - q
    <3>1. bu = 1
      BY <1>8, <1>10
    <3>2. q \in Int
      BY <1>1
    <3> HIDE DEF bu, bs, q
    <3> QED
      BY <1>1, <1>10, <3>1, <3>2
  <2>2. Represents(TNUM(0, t.mask), w)
    BY <2>1, MaskRepresents
  <2>3. Represents(tnum_lshift(TNUM(0, t.mask), i), shl(w, i))
    <3> HIDE DEF w
    <3> QED
      BY <1>1, <2>2, LshiftRepresents
  <2>4. tnum_lshift(TNUM(0, t.mask), i) = TNUM(0, sh.mask)
    <3>1. shl(0, i) = 0
      <4>1. 0 * 2^i = 0
        BY <1>3
      <4> QED
        BY <1>9, <4>1 DEF shl
    <3> QED
      BY <3>1 DEF tnum_lshift, TNUM
  <2>5. Represents(tnum_add(c, TNUM(0, sh.mask)), bv_add(S0, shl(w, i)))
    <3> HIDE DEF S0, w, sh
    <3>1. Represents(c, S0)
      BY DEF S0
    <3> QED
      BY <2>3, <2>4, <3>1, AddRepresents
  <2>6. bv_add(S0, shl(w, i)) = S1
    BY <1>5 DEF bv_add, shl
  <2> HIDE DEF S0, S1, w, sh
  <2> QED
    BY <1>7, <1>10, <2>5, <2>6 DEF S1
<1>11. CASE bs = 0 /\ Bit(s.mask, i) = 1
  <2> DEFINE m == TNUM(0, bv_or(sh.value, sh.mask))
  <2>1. w = IF bu = 1 THEN v ELSE 0
    <3>1. q \in Int
      BY <1>1
    <3> HIDE DEF bu, bs, q
    <3> QED
      BY <1>1, <1>2, <1>11, <3>1
  <2>2. Represents(m, shl(w, i))
    <3>1. Represents(m, shl(v, i)) /\ Represents(m, 0)
      BY <1>6, UnknownRepresents
    <3>2. shl(0, i) = 0
      <4>1. 0 * 2^i = 0
        BY <1>3
      <4> QED
        BY <1>9, <4>1 DEF shl
    <3> HIDE DEF m, w, bu
    <3> QED
      BY <2>1, <3>1, <3>2
  <2>3. Represents(tnum_add(c, m), bv_add(S0, shl(w, i)))
    <3> HIDE DEF S0, w, m
    <3>1. Represents(c, S0)
      BY DEF S0
    <3> QED
      BY <2>2, <3>1, AddRepresents
  <2>4. bv_add(S0, shl(w, i)) = S1
    BY <1>5 DEF bv_add, shl
  <2>5. MulStep(s, t, c, i + 1) = tnum_add(c, m)
    <3> HIDE DEF sh, bs
    <3> QED
      BY <1>7, <1>11
  <2> HIDE DEF S0, w, m
  <2> QED
    BY <2>3, <2>4, <2>5 DEF S1
<1>12. CASE bs = 0 /\ Bit(s.mask, i) # 1
  <2>1. MulStep(s, t, c, i + 1) = c
    <3> HIDE DEF sh, bs
    <3> QED
      BY <1>7, <1>12
  <2>2. w = 0
    <3>1. bu = 0
      BY <1>8, <1>12
    <3>2. q \in Int
      BY <1>1
    <3> HIDE DEF bu, bs, q
    <3> QED
      BY <1>1, <1>12, <3>1, <3>2
  <2>3. S1 = S0
    <3>1. w * d = 0
      <4> HIDE DEF w, d
      <4> QED
        BY <1>3, <2>2
    <3> HIDE DEF w, d, S0, S1, N
    <3> QED
      BY <1>5, <1>9, <3>1
  <2> QED
    BY <2>1, <2>3
<1> QED
  BY <1>2, <1>10, <1>11, <1>12

\* The product of the values and the surplus of all bits.
LEMMA MulRepresents ==
  ASSUME NEW s, NEW t, NEW u, NEW v, Represents(s, u), Represents(t, v)
  PROVE  Represents(tnum_mul(s, t), bv_mul(u, v))
<1> DEFINE G == [n \in 1 .. W |-> [c \in PairOfWords |-> MulStep(s, t, c, n)]]
           acc_m[i \in 0 .. W] ==
             IF i = 0 THEN TNUM(0, 0)
             ELSE LET shifted == tnum_lshift(t, i - 1)
                  IN  CASE Bit(s.value, i - 1) = 1 ->
                             tnum_add(acc_m[i - 1], TNUM(0, shifted.mask))
                        [] Bit(s.value, i - 1) = 0 /\ Bit(s.mask, i - 1) = 1 ->
                             tnum_add(acc_m[i - 1],
                                      TNUM(0, bv_or(shifted.value, shifted.mask)))
                        [] OTHER -> acc_m[i - 1]
           product == bv_mul(s.value, t.value)
<1>1. /\ W \in Nat /\ s \in PairOfWords /\ t \in PairOfWords
      /\ s.value \in Word /\ t.value \in Word /\ u \in Word /\ v \in Word
  BY WAssumption, Represented
<1>2. tnum_mul(s, t) = tnum_add(TNUM(product, 0), acc_m[W])
  BY DEF tnum_mul
<1>3. 0 \in Word /\ TNUM(0, 0) \in PairOfWords
  BY WordFacts DEF TNUM, PairOfWords
<1>4. G \in [1 .. W -> [PairOfWords -> PairOfWords]]
  <2>1. \A n \in 1 .. W : \A c \in PairOfWords : MulStep(s, t, c, n) \in PairOfWords
    BY <1>1, MulStepType
  <2> QED
    BY <2>1
<1>5. PICK g \in [0 .. W -> PairOfWords] : Unfolded(g, W, TNUM(0, 0), G)
  <2> HIDE DEF G
  <2> QED
    BY <1>1, <1>3, <1>4, RecursionUnfolds, Zenon
<1>6. g = [n \in 0 .. W |-> IF n = 0 THEN TNUM(0, 0) ELSE MulStep(s, t, g[n - 1], n)]
  <2>1. ASSUME NEW n \in 0 .. W, n # 0 PROVE G[n][g[n - 1]] = MulStep(s, t, g[n - 1], n)
    <3>1. n \in 1 .. W /\ g[n - 1] \in PairOfWords
      BY <1>1, <2>1
    <3> QED
      BY <3>1
  <2> HIDE DEF G
  <2> QED
    BY <1>5, <2>1 DEF Unfolded
<1>7. acc_m = [n \in 0 .. W |->
                 IF n = 0 THEN TNUM(0, 0) ELSE MulStep(s, t, acc_m[n - 1], n)]
  <2>1. g = [n \in 0 .. W |->
               IF n = 0 THEN TNUM(0, 0)
               ELSE LET shifted == tnum_lshift(t, n - 1)
                    IN  CASE Bit(s.value, n - 1) = 1 ->
                               tnum_add(g[n - 1], TNUM(0, shifted.mask))
                          [] Bit(s.value, n - 1) = 0 /\ Bit(s.mask, n - 1) = 1 ->
                               tnum_add(g[n - 1],
                                        TNUM(0, bv_or(shifted.value, shifted.mask)))
                          [] OTHER -> g[n - 1]]
    BY <1>6 DEF MulStep
  <2>2. acc_m = [n \in 0 .. W |->
               IF n = 0 THEN TNUM(0, 0)
               ELSE LET shifted == tnum_lshift(t, n - 1)
                    IN  CASE Bit(s.value, n - 1) = 1 ->
                               tnum_add(acc_m[n - 1], TNUM(0, shifted.mask))
                          [] Bit(s.value, n - 1) = 0 /\ Bit(s.mask, n - 1) = 1 ->
                               tnum_add(acc_m[n - 1],
                                        TNUM(0, bv_or(shifted.value, shifted.mask)))
                          [] OTHER -> acc_m[n - 1]]
    BY <2>1
  <2> HIDE DEF acc_m
  <2> QED
    BY <2>2 DEF MulStep
<1> HIDE DEF acc_m, G
<1> DEFINE S == {n \in Nat : n <= W => Represents(acc_m[n], Surplus(s, t, u, v, n))}
<1>8. 0 \in S
  <2>1. Surplus(s, t, u, v, 0) = 0
    <3>1. u \in Int /\ v \in Int /\ s.value \in Int /\ t.value \in Int
      BY <1>1, WordInt
    <3>2. u % 1 = 0 /\ s.value % 1 = 0 /\ (0 * v) - (0 * t.value) = 0
      BY <3>1
    <3>3. 0 % 2^W = 0
      BY <1>3, WordFacts
    <3> QED
      BY <3>2, <3>3, PowerZero DEF Surplus
  <2>2. acc_m[0] = TNUM(0, 0)
    BY <1>1, <1>7
  <2>3. Represents(TNUM(0, 0), 0)
    BY <1>3, ConstRepresents DEF tnum_const
  <2> QED
    BY <2>1, <2>2, <2>3
<1>9. ASSUME NEW i \in Nat, i \in S PROVE i + 1 \in S
  <2> SUFFICES ASSUME i + 1 <= W
               PROVE  Represents(acc_m[i + 1], Surplus(s, t, u, v, i + 1))
    OBVIOUS
  <2>1. /\ i \in 0 .. W - 1 /\ i + 1 \in 0 .. W /\ i + 1 # 0 /\ (i + 1) - 1 = i
        /\ Represents(acc_m[i], Surplus(s, t, u, v, i))
    BY <1>1, <1>9
  <2>2. acc_m[i + 1] = MulStep(s, t, acc_m[i], i + 1)
    <3>1. acc_m[i + 1] = MulStep(s, t, acc_m[(i + 1) - 1], i + 1)
      BY <1>7, <2>1
    <3> QED
      BY <2>1, <3>1
  <2> QED
    BY <2>1, <2>2, MulStepRepresents
<1>10. Represents(acc_m[W], Surplus(s, t, u, v, W))
  <2>1. W \in S
    <3> HIDE DEF S
    <3> QED
      BY <1>1, <1>8, <1>9, SetInduction
  <2> QED
    BY <1>1, <2>1
<1>11. product \in Word
  BY <1>1, WordOperations
<1>12. Represents(TNUM(product, 0), product)
  <2> HIDE DEF product
  <2> QED
    BY <1>11, ConstRepresents DEF tnum_const
<1>13. bv_add(product, Surplus(s, t, u, v, W)) = bv_mul(u, v)
  <2> DEFINE N == 2^W
             p == s.value * t.value
             m == u * v
             z == m - p
  <2>1. N \in Nat \ {0} /\ u % N = u /\ s.value % N = s.value
    BY <1>1, WordFacts
  <2>2. u \in Int /\ v \in Int /\ s.value \in Int /\ t.value \in Int
    BY <1>1, WordInt
  <2>3. p \in Int /\ m \in Int
    BY <2>2
  <2>4. product = p % N /\ bv_mul(u, v) = m % N
    BY DEF bv_mul
  <2>5. Surplus(s, t, u, v, W) = z % N
    BY <2>1 DEF Surplus
  <2>6. bv_add(product, Surplus(s, t, u, v, W)) = ((p % N) + (z % N)) % N
    BY <2>4, <2>5 DEF bv_add
  <2> HIDE DEF N, p, m
  <2>7. z \in Int /\ p + z = m
    BY <2>3
  <2> HIDE DEF z
  <2>8. z % N \in Int
    BY <2>1, <2>7, DivMod
  <2>9. ((p % N) + (z % N)) % N = (p + (z % N)) % N
    BY <2>1, <2>3, <2>8, ModSum
  <2>10. (p + (z % N)) % N = (p + z) % N
    BY <2>1, <2>3, <2>7, ModSum
  <2> QED
    BY <2>4, <2>6, <2>7, <2>9, <2>10
<1> HIDE DEF product
<1>14. Represents(tnum_add(TNUM(product, 0), acc_m[W]),
                  bv_add(product, Surplus(s, t, u, v, W)))
  BY <1>10, <1>12, AddRepresents
<1> QED
  BY <1>2, <1>13, <1>14

-----------------------------------------------------------------------------
(* Half words.                                                             *)

\* A word with its low half cleared, and with a low half put in.
LEMMA SubregRepresents ==
  ASSUME NEW t, NEW v, Represents(t, v)
  PROVE  /\ Represents(tnum_subreg(t), v % 2^Half)
         /\ Represents(tnum_clear_subreg(t), (v \div 2^Half) * 2^Half)
         /\ \A l \in 0 .. 2^Half - 1 :
              Represents(tnum_const_subreg(t, l), (v \div 2^Half) * 2^Half + l)
<1> DEFINE h == Half
           q == v \div 2^h
           c == q * 2^h
<1>1. h \in Nat /\ h <= W /\ 2^h \in Nat \ {0} /\ v \in Word /\ v \in Int
  BY RoundFacts, PowerFacts, Represented, WordInt
<1>2. Represents(tnum_subreg(t), v % 2^h)
  BY <1>1, CastRepresents DEF tnum_subreg
<1>3. c \in Word
  <2> DEFINE d == 2^h
             r == v % d
  <2>1. d \in Nat \ {0} /\ v \in 0 .. 2^W - 1 /\ 2^W \in Nat
    BY <1>1, WordFacts
  <2> HIDE DEF d
  <2>2. q \in Int /\ v = d * q + r /\ r \in 0 .. d - 1 /\ q >= 0
    <3>1. v \in Int /\ v >= 0
      BY <2>1
    <3>2. \A z \in Int : /\ z \div d \in Int /\ z % d \in 0 .. d - 1
                         /\ z = d * (z \div d) + (z % d)
                         /\ z >= 0 => z \div d \in 0 .. z
      BY <2>1, DivMod
    <3>3. q = v \div d
      BY DEF d
    <3> QED
      BY <3>1, <3>2, <3>3
  <2>3. c = q * d
    BY DEF d
  <2> HIDE DEF q, r, c
  <2>4. q * d >= 0 /\ q * d = d * q /\ q * d \in Int
    BY <2>1, <2>2
  <2>5. q * d \in 0 .. 2^W - 1
    BY <2>1, <2>2, <2>4
  <2> QED
    BY <2>3, <2>5 DEF Word
<1>4. Represents(tnum_clear_subreg(t), c)
  <2>1. Represents(tnum_rshift(t, h), lshr(v, h))
    BY <1>1, RshiftRepresents
  <2>2. Represents(tnum_lshift(tnum_rshift(t, h), h), shl(lshr(v, h), h))
    BY <1>1, <2>1, LshiftRepresents
  <2>3. shl(lshr(v, h), h) = c % 2^W
    BY DEF shl, lshr
  <2>4. c % 2^W = c
    <3> HIDE DEF c
    <3> QED
      BY <1>3, WordFacts
  <2> QED
    BY <2>2, <2>3, <2>4 DEF tnum_clear_subreg
<1>5. ASSUME NEW l \in 0 .. 2^h - 1
      PROVE  Represents(tnum_const_subreg(t, l), c + l)
  <2>1. l \in Word
    BY <1>1, NarrowWord
  <2>2. q \in Int
    <3> DEFINE d == 2^h
    <3>1. d \in Nat \ {0}
      BY <1>1
    <3> HIDE DEF d
    <3>2. \A z \in Int : z \div d \in Int
      BY <3>1, DivMod
    <3>3. q = v \div d
      BY DEF d
    <3> QED
      BY <1>1, <3>2, <3>3
  <2>3. ASSUME NEW i \in 0 .. W - 1 PROVE Bit(c, i) = 0 \/ Bit(l, i) = 0
    <3>1. i \in Nat
      BY WAssumption
    <3>2. CASE i < h
      <4> HIDE DEF q, h
      <4>1. Bit(q * 2^h, i) = 0
        BY <1>1, <2>2, <3>1, <3>2, ShiftedBits
      <4> QED
        BY <4>1
    <3>3. CASE ~ i < h
      <4> HIDE DEF h
      <4>1. h <= i
        BY <1>1, <3>1, <3>3
      <4> QED
        BY <1>1, <3>1, <4>1, BitsAbove
    <3> QED
      BY <3>2, <3>3
  <2> DEFINE w == bv_or(c, l)
  <2> HIDE DEF c
  <2>4. /\ c + l \in Word
        /\ \A i \in 0 .. W - 1 : Bit(c + l, i) = Bit(c, i) + Bit(l, i)
    BY <1>3, <2>1, <2>3, DisjointSum
  <2>5. w \in Word /\ IsOr(w, c, l)
    BY <1>3, <2>1, BitwiseFacts
  <2> HIDE DEF w
  <2>6. ASSUME NEW i \in 0 .. W - 1 PROVE Bit(w, i) = Bit(c + l, i)
    <3>1. Bit(c, i) \in {0, 1} /\ Bit(l, i) \in {0, 1} /\ (Bit(c, i) = 0 \/ Bit(l, i) = 0)
      BY <1>3, <2>1, <2>3, WordBitType
    <3>2. Bit(w, i) = IF Bit(c, i) = 1 \/ Bit(l, i) = 1 THEN 1 ELSE 0
      BY <2>5 DEF IsOr
    <3> QED
      BY <2>4, <3>1, <3>2
  <2>7. w = c + l
    BY <2>4, <2>5, <2>6, WordExtensionality
  <2>8. Represents(tnum_const(l), l)
    BY <2>1, ConstRepresents
  <2>9. Represents(tnum_const_subreg(t, l), w)
    BY <1>4, <2>8, OrRepresents DEF tnum_const_subreg, w
  <2> QED
    BY <2>7, <2>9
<1> QED
  BY <1>2, <1>4, <1>5

-----------------------------------------------------------------------------
(* The register.                                                           *)

\* A tnum that is aligned represents only words that are.
LEMMA AlignedRepresents ==
  ASSUME NEW t, NEW v, Represents(t, v), NEW k \in 0 .. LogW, tnum_is_aligned(t, 2^k)
  PROVE  v % 2^k = 0
<1> DEFINE o == 2^k - 1
           e == bv_or(t.value, t.mask)
           f == bv_and(e, o)
<1>1. /\ t.value \in Word /\ t.mask \in Word /\ v \in Word /\ v \in Int
      /\ k \in Nat /\ k <= W /\ W \in Nat
  BY Represented, RoundFacts, WordInt
<1>2. o \in Word /\ 2^k # 0
  <2>1. o \in 0 .. 2^k - 1
    BY <1>1, OnesBits
  <2> HIDE DEF o
  <2> QED
    BY <1>1, <2>1, NarrowWord, PowerFacts
<1>3. f = 0
  BY <1>2 DEF tnum_is_aligned
<1>4. \A i \in 0 .. k - 1 : Bit(o, i) = 1
  <2>1. \A i \in 0 .. k - 1 : i \in Nat /\ i < k
    BY <1>1
  <2> QED
    BY <1>1, <2>1, OnesBits
<1>5. e \in Word /\ IsOr(e, t.value, t.mask)
  BY <1>1, BitwiseFacts
<1> HIDE DEF o, e
<1>6. f \in Word /\ IsAnd(f, e, o)
  BY <1>2, <1>5, BitwiseFacts
<1>7. \A i \in 0 .. W - 1 : Bit(f, i) = 0
  <2> HIDE DEF f
  <2> QED
    BY <1>3, <1>6, ZeroWord
<1> HIDE DEF f
<1>8. ASSUME NEW i \in 0 .. k - 1 PROVE Bit(v, i) = Bit(0, i)
  <2>1. i \in 0 .. W - 1 /\ i \in Nat
    BY <1>1
  <2>2. Bit(e, i) # 1
    BY <1>4, <1>6, <1>7, <2>1 DEF IsAnd
  <2>3. Bit(t.value, i) # 1 /\ Bit(t.mask, i) # 1
    BY <1>5, <2>1, <2>2 DEF IsOr
  <2>4. Bit(v, i) = 0
    BY <2>1, <2>3, Represented
  <2> QED
    BY <2>1, <2>4, ZeroBit
<1>9. v % 2^k = 0 % 2^k
  BY <1>1, <1>8, BitsDetermine
<1>10. 0 % 2^k = 0
  <2>1. 2^k \in Nat \ {0}
    BY <1>1, PowerFacts
  <2>2. 0 \in 0 .. 2^k - 1
    BY <2>1
  <2> QED
    BY <1>1, <2>2, LowSelf
<1> QED
  BY <1>9, <1>10

-----------------------------------------------------------------------------
(***************************************************************************)
(* The tnums of lean/src/data/domain/tnum.lean are the same: position by   *)
(* position where an operation is bitwise, carry by carry for sums (a trit *)
(* stands for its least and its greatest bit), round by round for shifts.  *)
(***************************************************************************)

\* The trit of a tnum at a position.
KTrit(t, i) == IF Bit(t.mask, i) = 1 THEN L!X ELSE Bit(t.value, i)

\* The trits of a tnum make a vector as long as a word.
LEMMA TritsOf ==
  ASSUME NEW t
  PROVE  /\ trits(t) = [i \in 1 .. W |-> KTrit(t, i - 1)]
         /\ Len(trits(t)) = W
<1>1. trits(t) = [i \in 1 .. W |-> KTrit(t, i - 1)]
  BY DEF trits, KTrit
<1>2. W \in Nat
  BY WAssumption
<1> HIDE DEF trits
<1> QED
  BY <1>1, <1>2

\* Operations on trits that agree at every position agree.
LEMMA Positionwise ==
  ASSUME NEW s, NEW t, NEW r
  PROVE  /\ (\A i \in 0 .. W - 1 :
               KTrit(r, i) = L!trit_and(KTrit(s, i), KTrit(t, i)))
              => trits(r) = L!tnum_and(trits(s), trits(t))
         /\ (\A i \in 0 .. W - 1 :
               KTrit(r, i) = L!trit_or(KTrit(s, i), KTrit(t, i)))
              => trits(r) = L!tnum_or(trits(s), trits(t))
         /\ (\A i \in 0 .. W - 1 :
               KTrit(r, i) = L!trit_xor(KTrit(s, i), KTrit(t, i)))
              => trits(r) = L!tnum_xor(trits(s), trits(t))
         /\ (\A i \in 0 .. W - 1 :
               KTrit(r, i) = L!trit_join(KTrit(s, i), KTrit(t, i)))
              => trits(r) = L!tnum_join(trits(s), trits(t))
<1>1. /\ trits(s) = [i \in 1 .. W |-> KTrit(s, i - 1)]
      /\ trits(t) = [i \in 1 .. W |-> KTrit(t, i - 1)]
      /\ trits(r) = [i \in 1 .. W |-> KTrit(r, i - 1)]
      /\ Len(trits(s)) = W
  BY TritsOf
<1>2. \A i \in 1 .. W : /\ trits(s)[i] = KTrit(s, i - 1)
                        /\ trits(t)[i] = KTrit(t, i - 1)
                        /\ i - 1 \in 0 .. W - 1
  BY <1>1, WAssumption
<1>3. L!tnum_and(trits(s), trits(t))
        = [i \in 1 .. W |-> L!trit_and(trits(s)[i], trits(t)[i])]
  BY <1>1 DEF L!tnum_and, L!Map2
<1>4. L!tnum_or(trits(s), trits(t))
        = [i \in 1 .. W |-> L!trit_or(trits(s)[i], trits(t)[i])]
  BY <1>1 DEF L!tnum_or, L!Map2
<1>5. L!tnum_xor(trits(s), trits(t))
        = [i \in 1 .. W |-> L!trit_xor(trits(s)[i], trits(t)[i])]
  BY <1>1 DEF L!tnum_xor, L!Map2
<1>6. L!tnum_join(trits(s), trits(t))
        = [i \in 1 .. W |-> L!trit_join(trits(s)[i], trits(t)[i])]
  BY <1>1 DEF L!tnum_join, L!Map2
<1>7. ASSUME \A i \in 0 .. W - 1 : KTrit(r, i) = L!trit_and(KTrit(s, i), KTrit(t, i))
      PROVE  trits(r) = L!tnum_and(trits(s), trits(t))
  <2>1. ASSUME NEW i \in 1 .. W
        PROVE  KTrit(r, i - 1) = L!trit_and(trits(s)[i], trits(t)[i])
    BY <1>2, <1>7, Zenon
  <2> QED
    BY <1>1, <1>3, <2>1, Zenon
<1>8. ASSUME \A i \in 0 .. W - 1 : KTrit(r, i) = L!trit_or(KTrit(s, i), KTrit(t, i))
      PROVE  trits(r) = L!tnum_or(trits(s), trits(t))
  <2>1. ASSUME NEW i \in 1 .. W
        PROVE  KTrit(r, i - 1) = L!trit_or(trits(s)[i], trits(t)[i])
    BY <1>2, <1>8, Zenon
  <2> QED
    BY <1>1, <1>4, <2>1, Zenon
<1>9. ASSUME \A i \in 0 .. W - 1 : KTrit(r, i) = L!trit_xor(KTrit(s, i), KTrit(t, i))
      PROVE  trits(r) = L!tnum_xor(trits(s), trits(t))
  <2>1. ASSUME NEW i \in 1 .. W
        PROVE  KTrit(r, i - 1) = L!trit_xor(trits(s)[i], trits(t)[i])
    BY <1>2, <1>9, Zenon
  <2> QED
    BY <1>1, <1>5, <2>1, Zenon
<1>10. ASSUME \A i \in 0 .. W - 1 : KTrit(r, i) = L!trit_join(KTrit(s, i), KTrit(t, i))
      PROVE  trits(r) = L!tnum_join(trits(s), trits(t))
  <2>1. ASSUME NEW i \in 1 .. W
        PROVE  KTrit(r, i - 1) = L!trit_join(trits(s)[i], trits(t)[i])
    BY <1>2, <1>10, Zenon
  <2> QED
    BY <1>1, <1>6, <2>1, Zenon
<1> QED
  BY <1>7, <1>8, <1>9, <1>10

\* The trit at a position whose value is masked.
LEMMA MaskedTrit ==
  ASSUME NEW r, NEW e, NEW m, Masked(r, e, m), NEW i \in 0 .. W - 1
  PROVE  KTrit(r, i) = IF Bit(m, i) = 1 THEN L!X ELSE Bit(e, i)
  BY DEF Masked, KTrit

\* The bitwise operations and the union.
LEMMA BitwiseAgree ==
  ASSUME NEW s, NEW t, NEW u, NEW v, Represents(s, u), Represents(t, v)
  PROVE  /\ trits(tnum_and(s, t)) = L!tnum_and(trits(s), trits(t))
         /\ trits(tnum_or(s, t)) = L!tnum_or(trits(s), trits(t))
         /\ trits(tnum_xor(s, t)) = L!tnum_xor(trits(s), trits(t))
         /\ trits(tnum_union(s, t)) = L!tnum_join(trits(s), trits(t))
<1>1. s \in PairOfWords /\ t \in PairOfWords
  BY Represented
<1>2. \A i \in 0 .. W - 1 :
        /\ \/ Bit(s.mask, i) = 0 /\ Bit(s.value, i) \in {0, 1}
           \/ Bit(s.mask, i) = 1 /\ Bit(s.value, i) = 0
        /\ \/ Bit(t.mask, i) = 0 /\ Bit(t.value, i) \in {0, 1}
           \/ Bit(t.mask, i) = 1 /\ Bit(t.value, i) = 0
  BY Represented
<1>3. \A i \in 0 .. W - 1 :
        KTrit(tnum_and(s, t), i) = L!trit_and(KTrit(s, i), KTrit(t, i))
  <2> DEFINE r == tnum_and(s, t)
  <2>1. \A i \in 0 .. W - 1 :
          /\ Bit(r.value, i)
               = IF Bit(s.value, i) = 1 /\ Bit(t.value, i) = 1 THEN 1 ELSE 0
          /\ Bit(r.mask, i)
               = IF /\ Bit(s.value, i) = 1 \/ Bit(s.mask, i) = 1
                    /\ Bit(t.value, i) = 1 \/ Bit(t.mask, i) = 1
                    /\ ~ (Bit(s.value, i) = 1 /\ Bit(t.value, i) = 1)
                 THEN 1 ELSE 0
    BY <1>1, AndParts
  <2> HIDE DEF r
  <2>2. \A i \in 0 .. W - 1 : KTrit(r, i) = L!trit_and(KTrit(s, i), KTrit(t, i))
    BY <1>2, <2>1 DEF KTrit, L!trit_and, L!X
  <2> QED
    BY <2>2 DEF r
<1>4. \A i \in 0 .. W - 1 :
        KTrit(tnum_or(s, t), i) = L!trit_or(KTrit(s, i), KTrit(t, i))
  <2> DEFINE r == tnum_or(s, t)
  <2>1. \A i \in 0 .. W - 1 :
          /\ Bit(r.value, i)
               = IF Bit(s.value, i) = 1 \/ Bit(t.value, i) = 1 THEN 1 ELSE 0
          /\ Bit(r.mask, i)
               = IF /\ Bit(s.mask, i) = 1 \/ Bit(t.mask, i) = 1
                    /\ ~ (Bit(s.value, i) = 1 \/ Bit(t.value, i) = 1)
                 THEN 1 ELSE 0
    BY <1>1, OrParts
  <2> HIDE DEF r
  <2>2. \A i \in 0 .. W - 1 : KTrit(r, i) = L!trit_or(KTrit(s, i), KTrit(t, i))
    BY <1>2, <2>1 DEF KTrit, L!trit_or, L!X
  <2> QED
    BY <2>2 DEF r
<1>5. \A i \in 0 .. W - 1 :
        KTrit(tnum_xor(s, t), i) = L!trit_xor(KTrit(s, i), KTrit(t, i))
  <2>1. PICK e \in Word, m \in Word :
          /\ Masked(tnum_xor(s, t), e, m)
          /\ IsXor(e, s.value, t.value) /\ IsOr(m, s.mask, t.mask)
    BY <1>1, XorParts
  <2> SUFFICES ASSUME NEW i \in 0 .. W - 1
               PROVE  KTrit(tnum_xor(s, t), i) = L!trit_xor(KTrit(s, i), KTrit(t, i))
    OBVIOUS
  <2>2. KTrit(tnum_xor(s, t), i) = IF Bit(m, i) = 1 THEN L!X ELSE Bit(e, i)
    BY <2>1, MaskedTrit
  <2> QED
    BY <1>2, <2>1, <2>2 DEF KTrit, IsXor, IsOr, L!trit_xor, L!X
<1>6. \A i \in 0 .. W - 1 :
        KTrit(tnum_union(s, t), i) = L!trit_join(KTrit(s, i), KTrit(t, i))
  <2>1. PICK e \in Word, m \in Word :
          /\ Masked(tnum_union(s, t), e, m)
          /\ IsOr(e, s.value, t.value)
          /\ \A i \in 0 .. W - 1 :
               Bit(m, i) = IF \/ Bit(s.mask, i) = 1 \/ Bit(t.mask, i) = 1
                              \/ Bit(s.value, i) # Bit(t.value, i) THEN 1 ELSE 0
    BY <1>1, UnionParts
  <2> SUFFICES ASSUME NEW i \in 0 .. W - 1
               PROVE  KTrit(tnum_union(s, t), i) = L!trit_join(KTrit(s, i), KTrit(t, i))
    OBVIOUS
  <2>2. KTrit(tnum_union(s, t), i) = IF Bit(m, i) = 1 THEN L!X ELSE Bit(e, i)
    BY <2>1, MaskedTrit
  <2> QED
    BY <1>2, <2>1, <2>2 DEF KTrit, IsOr, L!trit_join, L!X
<1> QED
  BY <1>3, <1>4, <1>5, <1>6, Positionwise

\* The order, and the meet of tnums that do not contradict each other.
LEMMA OrderAgrees ==
  ASSUME NEW s, NEW t, NEW u, NEW v, Represents(s, u), Represents(t, v)
  PROVE  /\ L!tnum_meet(trits(s), trits(t)) \in {NoTnum, trits(tnum_intersect(s, t))}
         /\ tnum_in(s, t) <=> L!tnum_le(trits(t), trits(s))
<1>1. /\ s \in PairOfWords /\ s.value \in Word /\ s.mask \in Word
      /\ t \in PairOfWords /\ t.value \in Word /\ t.mask \in Word
  BY Represented
<1>2. \A i \in 0 .. W - 1 :
        /\ \/ Bit(s.mask, i) = 0 /\ Bit(s.value, i) \in {0, 1}
           \/ Bit(s.mask, i) = 1 /\ Bit(s.value, i) = 0
        /\ \/ Bit(t.mask, i) = 0 /\ Bit(t.value, i) \in {0, 1}
           \/ Bit(t.mask, i) = 1 /\ Bit(t.value, i) = 0
  BY Represented
<1>3. /\ Len(trits(s)) = W
      /\ \A i \in 1 .. W : /\ trits(s)[i] = KTrit(s, i - 1)
                           /\ trits(t)[i] = KTrit(t, i - 1)
                           /\ i - 1 \in 0 .. W - 1
  BY TritsOf, WAssumption
<1>4. L!tnum_meet(trits(s), trits(t)) \in {NoTnum, trits(tnum_intersect(s, t))}
  <2> DEFINE clash == \E i \in 1 .. W : /\ L!X \notin {trits(s)[i], trits(t)[i]}
                                        /\ trits(s)[i] # trits(t)[i]
             Both(p, q) == IF p = L!X THEN q ELSE p
  <2>1. CASE clash
    BY <2>1 DEF L!tnum_meet
  <2>2. CASE ~ clash
    <3>1. L!tnum_meet(trits(s), trits(t))
            = [i \in 1 .. W |-> Both(trits(s)[i], trits(t)[i])]
      BY <1>3, <2>2 DEF L!tnum_meet, L!Map2
    <3>2. PICK e \in Word, m \in Word :
            /\ Masked(tnum_intersect(s, t), e, m)
            /\ IsOr(e, s.value, t.value) /\ IsAnd(m, s.mask, t.mask)
      BY <1>1, IntersectParts
    <3>3. ASSUME NEW i \in 1 .. W
          PROVE  KTrit(tnum_intersect(s, t), i - 1) = Both(trits(s)[i], trits(t)[i])
      <4> DEFINE j == i - 1
      <4>1. j \in 0 .. W - 1 /\ trits(s)[i] = KTrit(s, j) /\ trits(t)[i] = KTrit(t, j)
        BY <1>3
      <4> HIDE DEF j
      <4>2. KTrit(tnum_intersect(s, t), j) = IF Bit(m, j) = 1 THEN L!X ELSE Bit(e, j)
        BY <3>2, <4>1, MaskedTrit
      <4>3. L!X \in {trits(s)[i], trits(t)[i]} \/ trits(s)[i] = trits(t)[i]
        BY <2>2
      <4>4. /\ Bit(m, j) = IF Bit(s.mask, j) = 1 /\ Bit(t.mask, j) = 1 THEN 1 ELSE 0
            /\ Bit(e, j) = IF Bit(s.value, j) = 1 \/ Bit(t.value, j) = 1 THEN 1 ELSE 0
        BY <3>2, <4>1 DEF IsOr, IsAnd
      <4>5. /\ \/ Bit(s.mask, j) = 0 /\ Bit(s.value, j) \in {0, 1}
               \/ Bit(s.mask, j) = 1 /\ Bit(s.value, j) = 0
            /\ \/ Bit(t.mask, j) = 0 /\ Bit(t.value, j) \in {0, 1}
               \/ Bit(t.mask, j) = 1 /\ Bit(t.value, j) = 0
        BY <1>2, <4>1
      <4>6. KTrit(tnum_intersect(s, t), j) = Both(KTrit(s, j), KTrit(t, j))
        BY <4>1, <4>2, <4>3, <4>4, <4>5 DEF KTrit, L!X
      <4> QED
        BY <4>1, <4>6 DEF j
    <3>4. trits(tnum_intersect(s, t))
            = [i \in 1 .. W |-> KTrit(tnum_intersect(s, t), i - 1)]
      BY TritsOf
    <3> HIDE DEF Both
    <3> QED
      BY <3>1, <3>3, <3>4, Zenon
  <2> QED
    BY <2>1, <2>2
<1>5. tnum_in(s, t) <=> L!tnum_le(trits(t), trits(s))
  <2> DEFINE n == bv_not(s.mask)
             p == bv_and(t.mask, n)
             q == bv_and(t.value, n)
             Le(i) == L!trit_le(KTrit(t, i), KTrit(s, i))
  <2>1. n \in Word /\ IsNot(n, s.mask)
    BY <1>1, BitwiseFacts
  <2>2. tnum_in(s, t) <=> p = 0 /\ s.value = q
    BY DEF tnum_in
  <2> HIDE DEF n
  <2>3. p \in Word /\ IsAnd(p, t.mask, n) /\ q \in Word /\ IsAnd(q, t.value, n)
    BY <1>1, <2>1, BitwiseFacts
  <2> HIDE DEF p, q
  <2>4. /\ p = 0 <=> \A i \in 0 .. W - 1 : Bit(p, i) = 0
        /\ s.value = q <=> \A i \in 0 .. W - 1 : Bit(s.value, i) = Bit(q, i)
    BY <1>1, <2>3, ZeroWord, WordExtensionality
  <2>5. ASSUME NEW i \in 0 .. W - 1
        PROVE  Bit(p, i) = 0 /\ Bit(s.value, i) = Bit(q, i) <=> Le(i)
    BY <1>2, <2>1, <2>3 DEF IsNot, IsAnd, KTrit, L!trit_le, L!X
  <2>6. tnum_in(s, t) <=> \A i \in 0 .. W - 1 : Le(i)
    <3> HIDE DEF Le
    <3> QED
      BY <2>2, <2>4, <2>5
  <2>7. L!tnum_le(trits(t), trits(s)) <=> \A i \in 1 .. W : Le(i - 1)
    BY <1>3 DEF L!tnum_le
  <2>8. (\A i \in 1 .. W : Le(i - 1)) <=> \A i \in 0 .. W - 1 : Le(i)
    <3> HIDE DEF Le
    <3>1. ASSUME \A i \in 1 .. W : Le(i - 1), NEW i \in 0 .. W - 1 PROVE Le(i)
      <4>1. i + 1 \in 1 .. W /\ (i + 1) - 1 = i
        BY WAssumption
      <4>2. Le((i + 1) - 1)
        BY <3>1, <4>1
      <4> QED
        BY <4>1, <4>2
    <3> QED
      BY <1>3, <3>1
  <2> QED
    BY <2>6, <2>7, <2>8
<1> QED
  BY <1>4, <1>5

\* The trit that stands for the bits between a least and a greatest one.
Enc(lo, hi) == IF lo = hi THEN lo ELSE L!X

BitsBetween(lo, hi) == lo \in {0, 1} /\ hi \in {0, 1} /\ lo <= hi

\* What a full adder says of the sums between a least and a greatest one.
AddsBetween(f, l1, h1, l2, h2, l3, h3) ==
  /\ f[1] = IF l1 = h1 /\ l2 = h2 /\ l3 = h3 THEN (l1 + l2 + l3) % 2 ELSE L!X
  /\ f[2] = Enc((l1 + l2 + l3) \div 2, (h1 + h2 + h3) \div 2)
  /\ (l1 + l2 + l3) \div 2 <= (h1 + h2 + h3) \div 2

\* A full adder on trits adds the least and the greatest bits.
LEMMA FullAddBetween ==
  \A l1, h1, l2, h2, l3, h3 :
    BitsBetween(l1, h1) /\ BitsBetween(l2, h2) /\ BitsBetween(l3, h3) =>
      AddsBetween(L!full_add(Enc(l1, h1), Enc(l2, h2), Enc(l3, h3)),
                  l1, h1, l2, h2, l3, h3)
  BY DEF L!full_add, Enc, L!X, BitsBetween, AddsBetween

\* The carries of tnum_adc, and its trits.
CarriesOf(c, s, t, z) ==
  c = [i \in 1 .. W |-> IF i = 1 THEN z ELSE L!full_add(s[i - 1], t[i - 1], c[i - 1])[2]]

SumsOf(c, s, t) == [i \in 1 .. W |-> L!full_add(s[i], t[i], c[i])[1]]

\* Any solution of the equation of the carries gives the trits.
LEMMA AdcUnfolds ==
  ASSUME NEW s, NEW t, Len(s) = W, NEW z, NEW c, CarriesOf(c, s, t, z)
  PROVE  L!tnum_adc(s, t, z) = SumsOf(c, s, t)
<1> DEFINE Step(h, i) ==
             IF i = 1 THEN z ELSE L!full_add(s[i - 1], t[i - 1], h[i - 1])[2]
           carry[i \in 1 .. Len(s)] ==
             IF i = 1 THEN z ELSE L!full_add(s[i - 1], t[i - 1], carry[i - 1])[2]
<1>1. W \in Nat
  BY WAssumption
<1>2. carry = [i \in 1 .. W |-> Step(carry, i)]
  <2>1. c = [i \in 1 .. Len(s) |->
               IF i = 1 THEN z ELSE L!full_add(s[i - 1], t[i - 1], c[i - 1])[2]]
    BY DEF CarriesOf
  <2>2. carry = [i \in 1 .. Len(s) |-> Step(carry, i)]
    BY <2>1
  <2> HIDE DEF carry, Step
  <2> QED
    BY <2>2
<1>3. L!tnum_adc(s, t, z) = [i \in 1 .. Len(s) |-> L!full_add(s[i], t[i], carry[i])[1]]
  BY DEF L!tnum_adc
<1> HIDE DEF carry
<1>4. c = [i \in 1 .. W |-> Step(c, i)]
  BY DEF CarriesOf
<1> DEFINE S == {i \in Nat : i + 1 <= W => carry[i + 1] = c[i + 1]}
<1>5. 0 \in S
  <2>1. W >= 1 => carry[1] = z /\ c[1] = z
    BY <1>1, <1>2, <1>4
  <2> QED
    BY <2>1
<1>6. ASSUME NEW i \in Nat, i \in S PROVE i + 1 \in S
  <2> SUFFICES ASSUME (i + 1) + 1 <= W PROVE carry[(i + 1) + 1] = c[(i + 1) + 1]
    OBVIOUS
  <2> DEFINE j == (i + 1) + 1
  <2>1. j \in 1 .. W /\ j # 1 /\ j - 1 = i + 1
    BY <1>1
  <2>2. carry[j - 1] = c[j - 1]
    BY <1>1, <1>6, <2>1
  <2> HIDE DEF j
  <2>3. carry[j] = Step(carry, j) /\ c[j] = Step(c, j)
    <3> HIDE DEF Step
    <3> QED
      BY <1>2, <1>4, <2>1, Zenon
  <2>4. Step(carry, j) = Step(c, j)
    BY <2>1, <2>2, Zenon
  <2>5. carry[j] = c[j]
    BY <2>3, <2>4
  <2> QED
    BY <2>5 DEF j
<1> HIDE DEF S
<1>7. \A i \in Nat : i \in S
  BY <1>5, <1>6, SetInduction
<1>8. ASSUME NEW i \in 1 .. W PROVE carry[i] = c[i]
  <2>1. i - 1 \in Nat /\ (i - 1) + 1 = i /\ (i - 1) + 1 <= W
    BY <1>1
  <2>2. i - 1 \in S
    BY <1>7, <2>1
  <2> QED
    BY <2>1, <2>2 DEF S
<1> QED
  BY <1>3, <1>8, Zenon DEF SumsOf

\* s has the trits between the bits of lo and of hi.
TritsBetween(s, lo, hi) ==
  /\ lo \in Int /\ hi \in Int /\ Len(s) = W
  /\ \A i \in 0 .. W - 1 : /\ Bit(lo, i) <= Bit(hi, i)
                           /\ s[i + 1] = Enc(Bit(lo, i), Bit(hi, i))

\* m shows where the least and the greatest sum of two summands may differ, and
\* elsewhere e is the least one.
Uncertain(e, m, l1, h1, l2, h2, z) ==
  \A i \in 0 .. W - 1 :
    /\ Bit(m, i) = IF \/ Bit(l1, i) # Bit(h1, i) \/ Bit(l2, i) # Bit(h2, i)
                      \/ Bit(l1 + l2 + z, i) # Bit(h1 + h2 + z, i) THEN 1 ELSE 0
    /\ Bit(m, i) = 0 => Bit(e, i) = Bit(l1 + l2 + z, i)

\* A pair of words of this kind has the trits of tnum_adc.
LEMMA RippleAgrees ==
  ASSUME NEW l1, NEW h1, NEW l2, NEW h2, NEW z \in {0, 1},
         NEW s, NEW t, TritsBetween(s, l1, h1), TritsBetween(t, l2, h2),
         NEW r, NEW e, NEW m, Masked(r, e, m), Uncertain(e, m, l1, h1, l2, h2, z)
  PROVE  trits(r) = L!tnum_adc(s, t, z)
<1> USE DEF TritsBetween, Uncertain
<1> DEFINE cl(n) == CarryInto(n, l1, l2, z)
           ch(n) == CarryInto(n, h1, h2, z)
           c == [i \in 1 .. W |-> Enc(cl(i - 1), ch(i - 1))]
           S == {n \in Nat : n <= W => cl(n) <= ch(n)}
<1>1. W \in Nat
  BY WAssumption
<1>2. \A n \in Nat : /\ Bit(l1, n) \in {0, 1} /\ Bit(h1, n) \in {0, 1}
                     /\ Bit(l2, n) \in {0, 1} /\ Bit(h2, n) \in {0, 1}
  BY BitType
<1>3. /\ cl(0) = z /\ ch(0) = z
      /\ \A n \in Nat : /\ cl(n) \in {0, 1} /\ ch(n) \in {0, 1}
                        /\ cl(n + 1) = (Bit(l1, n) + Bit(l2, n) + cl(n)) \div 2
                        /\ ch(n + 1) = (Bit(h1, n) + Bit(h2, n) + ch(n)) \div 2
  <2>1. /\ CarryInto(0, l1, l2, z) = z
        /\ \A n \in Nat :
             /\ CarryInto(n, l1, l2, z) \in {0, 1}
             /\ CarryInto(n + 1, l1, l2, z)
                  = (Bit(l1, n) + Bit(l2, n) + CarryInto(n, l1, l2, z)) \div 2
    BY CarryChain, Zenon
  <2>2. /\ CarryInto(0, h1, h2, z) = z
        /\ \A n \in Nat :
             /\ CarryInto(n, h1, h2, z) \in {0, 1}
             /\ CarryInto(n + 1, h1, h2, z)
                  = (Bit(h1, n) + Bit(h2, n) + CarryInto(n, h1, h2, z)) \div 2
    BY CarryChain, Zenon
  <2> QED
    BY <2>1, <2>2, Zenon
<1>4. ASSUME NEW n \in Nat
      PROVE  /\ Bit(l1 + l2 + z, n) = (Bit(l1, n) + Bit(l2, n) + cl(n)) % 2
             /\ Bit(h1 + h2 + z, n) = (Bit(h1, n) + Bit(h2, n) + ch(n)) % 2
  <2>1. l1 \in Int /\ l2 \in Int /\ h1 \in Int /\ h2 \in Int
    OBVIOUS
  <2>2. Bit(l1 + l2 + z, n) = (Bit(l1, n) + Bit(l2, n) + CarryInto(n, l1, l2, z)) % 2
    BY <2>1, SumBit, Zenon
  <2>3. Bit(h1 + h2 + z, n) = (Bit(h1, n) + Bit(h2, n) + CarryInto(n, h1, h2, z)) % 2
    BY <2>1, SumBit, Zenon
  <2> QED
    BY <2>2, <2>3
<1> HIDE DEF cl, ch
<1>5. ASSUME NEW n \in 0 .. W - 1, cl(n) <= ch(n)
      PROVE  LET f == L!full_add(s[n + 1], t[n + 1], Enc(cl(n), ch(n)))
             IN  /\ f[1] = KTrit(r, n)
                 /\ f[2] = Enc(cl(n + 1), ch(n + 1))
                 /\ cl(n + 1) <= ch(n + 1)
  <2> DEFINE f == L!full_add(s[n + 1], t[n + 1], Enc(cl(n), ch(n)))
             a1 == Bit(l1, n)
             b1 == Bit(h1, n)
             a2 == Bit(l2, n)
             b2 == Bit(h2, n)
             a3 == cl(n)
             b3 == ch(n)
  <2>1. n \in Nat
    BY <1>1
  <2>2. /\ a1 \in {0, 1} /\ b1 \in {0, 1} /\ a2 \in {0, 1} /\ b2 \in {0, 1}
        /\ a3 \in {0, 1} /\ b3 \in {0, 1} /\ a1 <= b1 /\ a2 <= b2 /\ a3 <= b3
    BY <1>2, <1>3, <1>5, <2>1
  <2>3. f = L!full_add(Enc(a1, b1), Enc(a2, b2), Enc(a3, b3))
    BY Zenon
  <2>4. /\ cl(n + 1) = (a1 + a2 + a3) \div 2 /\ ch(n + 1) = (b1 + b2 + b3) \div 2
        /\ Bit(l1 + l2 + z, n) = (a1 + a2 + a3) % 2
        /\ Bit(h1 + h2 + z, n) = (b1 + b2 + b3) % 2
    BY <1>3, <1>4, <2>1
  <2>5. KTrit(r, n) = IF Bit(m, n) = 1 THEN L!X ELSE Bit(e, n)
    BY MaskedTrit
  <2>6. /\ Bit(m, n) = IF a1 # b1 \/ a2 # b2 \/ Bit(l1 + l2 + z, n) # Bit(h1 + h2 + z, n)
                       THEN 1 ELSE 0
        /\ Bit(m, n) = 0 => Bit(e, n) = Bit(l1 + l2 + z, n)
    OBVIOUS
  <2> HIDE DEF a1, b1, a2, b2, a3, b3, f
  <2>7. /\ f[1] = IF a1 = b1 /\ a2 = b2 /\ a3 = b3 THEN (a1 + a2 + a3) % 2 ELSE L!X
        /\ f[2] = Enc((a1 + a2 + a3) \div 2, (b1 + b2 + b3) \div 2)
        /\ (a1 + a2 + a3) \div 2 <= (b1 + b2 + b3) \div 2
    <3>1. BitsBetween(a1, b1) /\ BitsBetween(a2, b2) /\ BitsBetween(a3, b3)
      BY <2>2 DEF BitsBetween
    <3>2. AddsBetween(f, a1, b1, a2, b2, a3, b3)
      BY <2>3, <3>1, FullAddBetween, Zenon
    <3> QED
      BY <3>2 DEF AddsBetween
  <2>8. a1 = b1 /\ a2 = b2 => ((a1 + a2 + a3) % 2 = (b1 + b2 + b3) % 2 <=> a3 = b3)
    BY <2>2
  <2>9. KTrit(r, n) = IF a1 = b1 /\ a2 = b2 /\ a3 = b3 THEN (a1 + a2 + a3) % 2 ELSE L!X
    BY <2>4, <2>5, <2>6, <2>8
  <2> QED
    BY <2>4, <2>7, <2>9 DEF f
<1>6. \A n \in Nat : n \in S
  <2>1. 0 \in S
    BY <1>3
  <2>2. ASSUME NEW n \in Nat, n \in S PROVE n + 1 \in S
    <3> SUFFICES ASSUME n + 1 <= W PROVE cl(n + 1) <= ch(n + 1)
      OBVIOUS
    <3>1. n \in 0 .. W - 1 /\ cl(n) <= ch(n)
      BY <1>1, <2>2
    <3> QED
      BY <1>5, <3>1
  <2> HIDE DEF S
  <2> QED
    BY <2>1, <2>2, SetInduction
<1>7. ASSUME NEW i \in 1 .. W
      PROVE  LET f == L!full_add(s[i], t[i], c[i])
             IN  f[1] = KTrit(r, i - 1) /\ f[2] = Enc(cl(i), ch(i))
  <2> DEFINE n == i - 1
  <2>1. n \in 0 .. W - 1 /\ n \in Nat /\ n + 1 = i /\ n <= W
    BY <1>1
  <2>2. c[i] = Enc(cl(n), ch(n)) /\ cl(n) <= ch(n)
    BY <1>6, <2>1
  <2> HIDE DEF n, c
  <2>3. LET f == L!full_add(s[n + 1], t[n + 1], Enc(cl(n), ch(n)))
        IN  f[1] = KTrit(r, n) /\ f[2] = Enc(cl(n + 1), ch(n + 1))
    BY <1>5, <2>1, <2>2
  <2> QED
    BY <2>1, <2>2, <2>3 DEF n
<1>8. CarriesOf(c, s, t, z)
  <2>1. ASSUME NEW i \in 1 .. W
        PROVE  Enc(cl(i - 1), ch(i - 1))
                 = IF i = 1 THEN z ELSE L!full_add(s[i - 1], t[i - 1], c[i - 1])[2]
    <3>1. CASE i = 1
      <4>1. i - 1 = 0
        BY <3>1
      <4> QED
        BY <1>3, <3>1, <4>1 DEF Enc
    <3>2. CASE i # 1
      <4>1. i - 1 \in 1 .. W
        BY <1>1, <3>2
      <4> HIDE DEF c
      <4> QED
        BY <1>7, <3>2, <4>1
    <3> QED
      BY <3>1, <3>2
  <2> QED
    BY <2>1, Zenon DEF CarriesOf
<1> HIDE DEF c
<1>9. L!tnum_adc(s, t, z) = SumsOf(c, s, t)
  BY <1>8, AdcUnfolds, Zenon
<1>10. trits(r) = [i \in 1 .. W |-> KTrit(r, i - 1)]
  BY TritsOf
<1> QED
  BY <1>7, <1>9, <1>10, Zenon DEF SumsOf

\* The trits of a tnum are between its least and its greatest word.
LEMMA TritsOfBetween ==
  ASSUME NEW t, NEW v, Represents(t, v), NEW ht, ht = t.value + t.mask
  PROVE  /\ TritsBetween(trits(t), t.value, ht)
         /\ \A i \in 0 .. W - 1 : Bit(t.mask, i) = 1 <=> Bit(t.value, i) # Bit(ht, i)
<1>1. /\ t.value \in Word /\ t.mask \in Word
      /\ \A i \in 0 .. W - 1 :
           /\ Bit(t.value, i) \in {0, 1} /\ Bit(t.mask, i) \in {0, 1}
           /\ Bit(t.value, i) = 0 \/ Bit(t.mask, i) = 0
  BY Represented
<1>2. \A i \in 0 .. W - 1 : Bit(ht, i) = Bit(t.value, i) + Bit(t.mask, i)
  BY <1>1, DisjointSum
<1>3. t.value \in Int /\ ht \in Int
  BY <1>1, WordInt
<1>4. Len(trits(t)) = W /\ \A i \in 0 .. W - 1 : trits(t)[i + 1] = KTrit(t, i)
  <2>1. trits(t) = [i \in 1 .. W |-> KTrit(t, i - 1)] /\ Len(trits(t)) = W
    BY TritsOf
  <2>2. \A i \in 0 .. W - 1 : i + 1 \in 1 .. W /\ (i + 1) - 1 = i
    BY WAssumption
  <2> QED
    BY <2>1, <2>2
<1>5. \A i \in 0 .. W - 1 :
        /\ Bit(t.value, i) <= Bit(ht, i)
        /\ KTrit(t, i) = Enc(Bit(t.value, i), Bit(ht, i))
        /\ Bit(t.mask, i) = 1 <=> Bit(t.value, i) # Bit(ht, i)
  BY <1>1, <1>2 DEF KTrit, Enc
<1> QED
  BY <1>3, <1>4, <1>5 DEF TritsBetween

\* Sums: the carries that the C code finds by exclusive or are those of the chain.
LEMMA AddAgrees ==
  ASSUME NEW s, NEW t, NEW u, NEW v, Represents(s, u), Represents(t, v)
  PROVE  trits(tnum_add(s, t)) = L!tnum_add(trits(s), trits(t))
<1> DEFINE hs == s.value + s.mask
           ht == t.value + t.mask
           lo == s.value + t.value + 0
           hi == hs + ht + 0
<1>1. s \in PairOfWords /\ t \in PairOfWords
  BY Represented
<1>2. PICK e \in Word, m \in Word :
        /\ Masked(tnum_add(s, t), e, m)
        /\ \A i \in 0 .. W - 1 :
             /\ Bit(e, i) = Bit(lo, i)
             /\ Bit(m, i) = IF \/ Bit(s.mask, i) = 1 \/ Bit(t.mask, i) = 1
                               \/ Bit(lo, i) # Bit(hi, i) THEN 1 ELSE 0
  <2> HIDE DEF lo, hi
  <2>1. lo = s.value + t.value + 0 /\ hi = (s.value + s.mask) + (t.value + t.mask) + 0
    BY DEF lo, hi
  <2> QED
    BY <1>1, <2>1, AddParts
<1>3. /\ TritsBetween(trits(s), s.value, hs) /\ TritsBetween(trits(t), t.value, ht)
      /\ \A i \in 0 .. W - 1 : /\ Bit(s.mask, i) = 1 <=> Bit(s.value, i) # Bit(hs, i)
                               /\ Bit(t.mask, i) = 1 <=> Bit(t.value, i) # Bit(ht, i)
  BY TritsOfBetween
<1> HIDE DEF hs, ht
<1>4. Uncertain(e, m, s.value, hs, t.value, ht, 0)
  BY <1>2, <1>3 DEF Uncertain
<1>5. trits(tnum_add(s, t)) = L!tnum_adc(trits(s), trits(t), 0)
  <2>1. 0 \in {0, 1} /\ Masked(tnum_add(s, t), e, m)
    BY <1>2
  <2>2. TritsBetween(trits(s), s.value, hs) /\ TritsBetween(trits(t), t.value, ht)
    BY <1>3
  <2> QED
    BY <1>4, <2>1, <2>2, RippleAgrees
<1> QED
  BY <1>5 DEF L!tnum_add

\* Differences: the chain adds the trits of the complement and one.
LEMMA SubAgrees ==
  ASSUME NEW s, NEW t, NEW u, NEW v, Represents(s, u), Represents(t, v)
  PROVE  trits(tnum_sub(s, t)) = L!tnum_sub(trits(s), trits(t))
<1> DEFINE hs == s.value + s.mask
           ht == t.value + t.mask
           cl == Complement(ht)
           ch == Complement(t.value)
           lo == s.value + Complement(t.value + t.mask) + 1
           hi == (s.value + s.mask) + Complement(t.value) + 1
           n == L!tnum_not(trits(t))
<1>1. s \in PairOfWords /\ t \in PairOfWords
  BY Represented
<1>2. PICK e \in Word, m \in Word :
        /\ Masked(tnum_sub(s, t), e, m)
        /\ \A i \in 0 .. W - 1 :
             /\ Bit(e, i) = Bit(s.value + Complement(t.value) + 1, i)
             /\ Bit(m, i) = IF \/ Bit(s.mask, i) = 1 \/ Bit(t.mask, i) = 1
                               \/ Bit(lo, i) # Bit(hi, i) THEN 1 ELSE 0
  BY <1>1, SubParts
<1>3. /\ TritsBetween(trits(s), s.value, hs) /\ TritsBetween(trits(t), t.value, ht)
      /\ \A i \in 0 .. W - 1 : /\ Bit(s.mask, i) = 1 <=> Bit(s.value, i) # Bit(hs, i)
                               /\ Bit(t.mask, i) = 1 <=> Bit(t.value, i) # Bit(ht, i)
  BY TritsOfBetween
<1>4. \A i \in 0 .. W - 1 :
        /\ Bit(t.value, i) \in {0, 1} /\ Bit(ht, i) \in {0, 1} /\ Bit(s.mask, i) \in {0, 1}
        /\ Bit(t.mask, i) \in {0, 1}
  BY Between, Represented
<1>5. /\ cl \in Int /\ ch \in Int
      /\ \A i \in 0 .. W - 1 : /\ Bit(cl, i) = 1 - Bit(ht, i)
                               /\ Bit(ch, i) = 1 - Bit(t.value, i)
  <2>1. Represents(t, t.value)
    BY OwnValue
  <2> QED
    BY <2>1, ComplementBetween
<1>6. lo = s.value + cl + 1 /\ hi = hs + ch + 1
  OBVIOUS
<1> HIDE DEF hs, ht, cl, ch
<1>7. TritsBetween(n, cl, ch)
  <2>1. Len(trits(t)) = W /\ \A i \in 0 .. W - 1 :
          trits(t)[i + 1] = Enc(Bit(t.value, i), Bit(ht, i)) /\ Bit(t.value, i) <= Bit(ht, i)
    BY <1>3 DEF TritsBetween
  <2>2. n = [i \in 1 .. W |-> L!trit_not(trits(t)[i])]
    BY <2>1 DEF L!tnum_not, L!Map
  <2> HIDE DEF n
  <2>3. W \in Nat /\ \A i \in 0 .. W - 1 : i + 1 \in 1 .. W
    BY WAssumption
  <2>4. Len(n) = W /\ \A i \in 0 .. W - 1 : n[i + 1] = L!trit_not(trits(t)[i + 1])
    <3>1. \A i \in 0 .. W - 1 : n[i + 1] = L!trit_not(trits(t)[i + 1])
      BY <2>2, <2>3, Zenon
    <3>2. Len(n) = W
      BY <2>2, <2>3
    <3> QED
      BY <3>1, <3>2
  <2>5. ASSUME NEW i \in 0 .. W - 1
        PROVE  Bit(cl, i) <= Bit(ch, i) /\ n[i + 1] = Enc(Bit(cl, i), Bit(ch, i))
    BY <1>4, <1>5, <2>1, <2>4 DEF Enc, L!trit_not, L!X
  <2> QED
    BY <1>5, <2>4, <2>5 DEF TritsBetween
<1>8. Uncertain(e, m, s.value, hs, cl, ch, 1)
  <2>1. ASSUME NEW i \in 0 .. W - 1
        PROVE  Bit(m, i) = IF \/ Bit(s.value, i) # Bit(hs, i) \/ Bit(cl, i) # Bit(ch, i)
                              \/ Bit(lo, i) # Bit(hi, i) THEN 1 ELSE 0
    <3>1. Bit(cl, i) # Bit(ch, i) <=> Bit(t.value, i) # Bit(ht, i)
      BY <1>4, <1>5
    <3> HIDE DEF lo, hi
    <3> QED
      BY <1>2, <1>3, <3>1
  <2>2. ASSUME NEW i \in 0 .. W - 1, Bit(m, i) = 0 PROVE Bit(e, i) = Bit(lo, i)
    <3>1. /\ Bit(s.mask, i) = 0 /\ Bit(t.mask, i) = 0 /\ Bit(lo, i) = Bit(hi, i)
      <4> HIDE DEF lo, hi
      <4> QED
        BY <1>2, <1>4, <2>2
    <3>2. Represents(s, s.value) /\ Represents(t, t.value)
      BY OwnValue
    <3>3. Bit(s.value + Complement(t.value) + 1, i) = Bit(lo, i)
      BY <3>1, <3>2, DifferencesAgree
    <3> QED
      BY <1>2, <3>3
  <2> HIDE DEF lo, hi
  <2> QED
    BY <1>6, <2>1, <2>2 DEF Uncertain
<1>9. trits(tnum_sub(s, t)) = L!tnum_adc(trits(s), n, 1)
  <2>1. 1 \in {0, 1} /\ Masked(tnum_sub(s, t), e, m)
    BY <1>2
  <2>2. TritsBetween(trits(s), s.value, hs)
    BY <1>3
  <2> HIDE DEF n
  <2> QED
    BY <1>7, <1>8, <2>1, <2>2, RippleAgrees
<1> QED
  BY <1>9 DEF L!tnum_sub

\* A shift by k moves every trit up by k, and the low trits are zero.
LEMMA LshiftAgrees ==
  ASSUME NEW t \in PairOfWords, NEW k \in Nat
  PROVE  trits(tnum_lshift(t, k)) = L!shiftl(trits(t), k)
<1> DEFINE q == trits(t)
           m == IF k < W THEN k ELSE W
           lo == L!Repeat(0, m)
           hi == SubSeq(q, 1, W - m)
           r == tnum_lshift(t, k)
<1>1. W \in Nat /\ m \in 0 .. W
  BY WAssumption
<1>2. q = [i \in 1 .. W |-> KTrit(t, i - 1)] /\ Len(q) = W
  BY TritsOf
<1>3. L!shiftl(q, k) = lo \o hi
  BY <1>2 DEF L!shiftl
<1>4. ASSUME NEW i \in 0 .. W - 1
      PROVE  KTrit(r, i) = IF i < k THEN 0 ELSE KTrit(t, i - k)
  <2>1. t.value \in Word /\ t.mask \in Word
    BY DEF PairOfWords
  <2>2. /\ Bit(shl(t.value, k), i) = IF i < k THEN 0 ELSE Bit(t.value, i - k)
        /\ Bit(shl(t.mask, k), i) = IF i < k THEN 0 ELSE Bit(t.mask, i - k)
    BY <2>1, WordInt, ShlBits DEF shl
  <2>3. r.value = shl(t.value, k) /\ r.mask = shl(t.mask, k)
    BY DEF tnum_lshift, TNUM
  <2> HIDE DEF r
  <2> QED
    BY <2>2, <2>3 DEF KTrit
<1> DEFINE D == {KTrit(t, i) : i \in 0 .. W - 1} \cup {0}
<1>5. q \in Seq(D)
  <2>1. \A i \in 1 .. W : KTrit(t, i - 1) \in D
    <3>1. \A i \in 1 .. W : i - 1 \in 0 .. W - 1
      BY <1>1
    <3> QED
      BY <3>1
  <2> HIDE DEF D
  <2>2. q \in [1 .. W -> D]
    <3> HIDE DEF q
    <3> QED
      BY <1>2, <2>1
  <2> HIDE DEF q
  <2> QED
    BY <1>1, <2>2
<1>6. 0 \in D
  OBVIOUS
<1> HIDE DEF D
<1>7. lo \in Seq(D) /\ Len(lo) = m /\ \A i \in 1 .. m : lo[i] = 0
  <2> HIDE DEF m
  <2> QED
    BY <1>1, <1>6 DEF L!Repeat
<1>8. hi \in Seq(D) /\ Len(hi) = W - m /\ \A i \in 1 .. W - m : hi[i] = q[i]
  <2> DEFINE n == W - m
  <2>1. q \in Seq(D) /\ Len(q) = W /\ n \in 0 .. W /\ W \in Nat
    BY <1>1, <1>2, <1>5
  <2> HIDE DEF n, q
  <2>2. LET p == SubSeq(q, 1, n)
        IN  p \in Seq(D) /\ Len(p) = n /\ \A i \in 1 .. n : p[i] = q[i]
    BY <2>1
  <2> QED
    BY <2>2 DEF n
<1>9. ASSUME NEW i \in 1 .. W PROVE (lo \o hi)[i] = KTrit(r, i - 1)
  <2>1. (lo \o hi)[i] = IF i <= m THEN lo[i] ELSE hi[i - m]
    <3> HIDE DEF lo, hi, m
    <3> QED
      BY <1>1, <1>7, <1>8
  <2>2. KTrit(r, i - 1) = IF i - 1 < k THEN 0 ELSE KTrit(t, (i - 1) - k)
    <3>1. i - 1 \in 0 .. W - 1
      BY <1>1
    <3> HIDE DEF r
    <3> QED
      BY <1>4, <3>1
  <2>3. CASE i <= m
    <3>1. i - 1 < k /\ i \in 1 .. m
      BY <1>1, <2>3
    <3> HIDE DEF lo, hi, m, r
    <3> QED
      BY <1>7, <2>1, <2>2, <2>3, <3>1
  <2>4. CASE ~ (i <= m)
    <3>1. m = k /\ ~ (i - 1 < k) /\ i - m \in 1 .. W - m /\ i - m \in 1 .. W
      BY <1>1, <2>4
    <3>2. hi[i - m] = KTrit(t, (i - m) - 1)
      <4> HIDE DEF lo, hi, m, r, q
      <4> QED
        BY <1>2, <1>8, <3>1
    <3>3. (i - m) - 1 = (i - 1) - k
      BY <1>1, <3>1
    <3> HIDE DEF lo, hi, m, r
    <3> QED
      BY <2>1, <2>2, <2>4, <3>1, <3>2, <3>3
  <2> QED
    BY <2>3, <2>4
<1>10. lo \o hi \in Seq(D) /\ Len(lo \o hi) = W
  <2> HIDE DEF lo, hi, m
  <2> QED
    BY <1>1, <1>7, <1>8
<1>11. lo \o hi = [i \in 1 .. W |-> (lo \o hi)[i]]
  <2> DEFINE w == lo \o hi
  <2>1. \A p \in Seq(D) : p \in [1 .. Len(p) -> D]
    OBVIOUS
  <2>2. w \in Seq(D) /\ Len(w) = W
    BY <1>10
  <2> HIDE DEF w
  <2>3. w \in [1 .. W -> D]
    BY <2>1, <2>2
  <2>4. w = [i \in 1 .. W |-> w[i]]
    BY <2>3
  <2> QED
    BY <2>4 DEF w
<1>12. trits(r) = [i \in 1 .. W |-> KTrit(r, i - 1)]
  BY TritsOf
<1> HIDE DEF lo, hi, r
<1>13. trits(r) = lo \o hi
  BY <1>9, <1>11, <1>12, Zenon
<1> QED
  BY <1>3, <1>13 DEF r, q

\* The tnums that shl_aux passes from one trit of the amount to the next.
ShiftsOf(f, s, t) ==
  f = [j \in 0 .. W |-> IF j = 0 THEN s ELSE L!shl_step(1 * 2^(j - 1), f[j - 1], t[j])]

\* Any solution of its equation gives the result.
LEMMA ShlUnfolds ==
  ASSUME NEW s, NEW t, Len(t) = W, NEW f, ShiftsOf(f, s, t)
  PROVE  L!tnum_shl(s, t) = f[W]
<1> DEFINE Step(h, j) == IF j = 0 THEN s ELSE L!shl_step(1 * 2^(j - 1), h[j - 1], t[j])
           shifted[j \in 0 .. Len(t)] ==
             IF j = 0 THEN s ELSE L!shl_step(1 * 2^(j - 1), shifted[j - 1], t[j])
<1>1. W \in Nat
  BY WAssumption
<1>2. shifted = [j \in 0 .. W |-> Step(shifted, j)]
  <2>1. f = [j \in 0 .. Len(t) |->
               IF j = 0 THEN s ELSE L!shl_step(1 * 2^(j - 1), f[j - 1], t[j])]
    BY DEF ShiftsOf
  <2>2. shifted = [j \in 0 .. Len(t) |-> Step(shifted, j)]
    BY <2>1
  <2> HIDE DEF shifted, Step
  <2> QED
    BY <2>2
<1>3. L!tnum_shl(s, t) = shifted[Len(t)]
  BY DEF L!tnum_shl, L!shl_aux
<1> HIDE DEF shifted
<1>4. f = [j \in 0 .. W |-> Step(f, j)]
  BY DEF ShiftsOf
<1> DEFINE S == {j \in Nat : j <= W => shifted[j] = f[j]}
<1>5. 0 \in S
  <2>1. shifted[0] = s /\ f[0] = s
    BY <1>1, <1>2, <1>4
  <2> QED
    BY <2>1
<1>6. ASSUME NEW i \in Nat, i \in S PROVE i + 1 \in S
  <2> SUFFICES ASSUME i + 1 <= W PROVE shifted[i + 1] = f[i + 1]
    OBVIOUS
  <2> DEFINE j == i + 1
  <2>1. j \in 0 .. W /\ j # 0 /\ j - 1 = i
    BY <1>1
  <2>2. shifted[j - 1] = f[j - 1]
    BY <1>1, <1>6, <2>1
  <2> HIDE DEF j
  <2>3. shifted[j] = Step(shifted, j) /\ f[j] = Step(f, j)
    <3> HIDE DEF Step
    <3> QED
      BY <1>2, <1>4, <2>1, Zenon
  <2>4. Step(shifted, j) = Step(f, j)
    BY <2>1, <2>2, Zenon
  <2>5. shifted[j] = f[j]
    BY <2>3, <2>4
  <2> QED
    BY <2>5 DEF j
<1> HIDE DEF S
<1>7. \A i \in Nat : i \in S
  BY <1>5, <1>6, SetInduction
<1>8. shifted[W] = f[W]
  BY <1>1, <1>7 DEF S
<1> QED
  BY <1>3, <1>8

\* A constant has the same trits.
LEMMA ConstAgrees ==
  ASSUME NEW c \in Word
  PROVE  trits(tnum_const(c)) = L!tnum_const(c)
<1>1. 0 \in Word /\ \A i \in 0 .. W - 1 : Bit(0, i) = 0
  BY WordFacts, ZeroWord
<1>2. \A i \in 1 .. W : i - 1 \in 0 .. W - 1
  BY WAssumption
<1>3. ASSUME NEW i \in 1 .. W PROVE KTrit(tnum_const(c), i - 1) = Bit(c, i - 1)
  BY <1>1, <1>2 DEF KTrit, tnum_const, TNUM
<1>4. L!tnum_const(c) = [i \in 1 .. W |-> Bit(c, i - 1)]
  BY DEF L!tnum_const, L!Bit, Bit
<1>5. trits(tnum_const(c)) = [i \in 1 .. W |-> KTrit(tnum_const(c), i - 1)]
  BY TritsOf
<1> QED
  BY <1>3, <1>4, <1>5, Zenon

\* One round: shifted, not shifted, or the union of both.
LEMMA ShlRoundAgrees ==
  ASSUME NEW c, NEW w, Represents(c, w), NEW amt, NEW r, Represents(amt, r),
         NEW i \in 0 .. W - 1, NEW n, n = ShlRound(amt, c, i + 1)
  PROVE  /\ trits(n) = L!shl_step(1 * 2^i, trits(c), KTrit(amt, i))
         /\ \E u : Represents(n, u)
<1> DEFINE d == 2^i
           cs == tnum_lshift(c, d)
<1>1. i \in Nat /\ (i + 1) - 1 = i
  BY WAssumption
<1>2. d \in Nat /\ c \in PairOfWords
  BY <1>1, PowerFacts, Represented
<1>3. 1 * d = d
  <2> HIDE DEF d
  <2> QED
    BY <1>2
<1>4. \/ Bit(amt.mask, i) = 0 /\ Bit(amt.value, i) \in {0, 1}
      \/ Bit(amt.mask, i) = 1 /\ Bit(amt.value, i) = 0
  BY Represented
<1> HIDE DEF d
<1>5. trits(cs) = L!shiftl(trits(c), d) /\ Represents(cs, shl(w, d))
  BY <1>2, LshiftAgrees, LshiftRepresents
<1>6. n = LET u == IF Bit(amt.mask, i) = 1 THEN tnum_union(c, cs) ELSE c
          IN  IF Bit(amt.value, i) = 1 THEN tnum_lshift(u, d) ELSE u
  BY <1>1 DEF ShlRound, d
<1>7. /\ trits(tnum_union(c, cs)) = L!tnum_join(trits(c), trits(cs))
      /\ Represents(tnum_union(c, cs), w)
  <2> HIDE DEF cs
  <2> QED
    BY <1>5, BitwiseAgree, UnionRepresents
<1>8. CASE Bit(amt.mask, i) = 1
  <2>1. n = tnum_union(c, cs) /\ KTrit(amt, i) = L!X
    BY <1>4, <1>6, <1>8 DEF KTrit
  <2>2. L!shl_step(d, trits(c), L!X) = L!tnum_join(trits(c), L!shiftl(trits(c), d))
    BY DEF L!shl_step, L!X
  <2> HIDE DEF cs
  <2> QED
    BY <1>3, <1>5, <1>7, <2>1, <2>2 DEF d
<1>9. CASE Bit(amt.mask, i) = 0 /\ Bit(amt.value, i) = 1
  <2>1. n = cs /\ KTrit(amt, i) = 1
    BY <1>6, <1>9 DEF KTrit
  <2>2. L!shl_step(d, trits(c), 1) = L!shiftl(trits(c), d)
    BY DEF L!shl_step, L!X
  <2> HIDE DEF cs
  <2> QED
    BY <1>3, <1>5, <2>1, <2>2 DEF d
<1>10. CASE Bit(amt.mask, i) = 0 /\ Bit(amt.value, i) = 0
  <2>1. n = c /\ KTrit(amt, i) = 0
    BY <1>6, <1>10 DEF KTrit
  <2>2. L!shl_step(d, trits(c), 0) = trits(c)
    BY DEF L!shl_step, L!X
  <2> HIDE DEF cs
  <2> QED
    BY <1>3, <2>1, <2>2 DEF d
<1> QED
  BY <1>4, <1>8, <1>9, <1>10

\* The shift: trits of the amount beyond the rounds of the C code are zero.
LEMMA ShlAgrees ==
  ASSUME NEW s, NEW t, NEW u, NEW v, Represents(s, u), Represents(t, v)
  PROVE  trits(tnum_shl(s, t, W))
           = L!tnum_shl(trits(s), L!tnum_and(trits(t), L!tnum_const(W - 1)))
<1> DEFINE one == tnum_const(2^LogW - 1)
           amt == tnum_and(t, one)
           r == v % 2^LogW
<1>1. W \in Nat \ {0} /\ LogW \in Nat \ {0} /\ W = 2^LogW /\ LogW < W
  BY RoundFacts
<1>2. Represents(amt, r)
  <2>1. LogW \in 0 .. LogW
    BY <1>1
  <2> QED
    BY <2>1, AmountRepresents
<1>3. 2^LogW - 1 \in Word
  <2>1. 2^LogW - 1 \in 0 .. 2^LogW - 1 /\ LogW <= W
    BY <1>1, OnesBits
  <2> QED
    BY <1>1, <2>1, NarrowWord
<1>4. Represents(one, 2^LogW - 1)
  BY <1>3, ConstRepresents
<1>5. trits(amt) = L!tnum_and(trits(t), L!tnum_const(W - 1))
  <2>1. trits(one) = L!tnum_const(W - 1)
    BY <1>1, <1>3, ConstAgrees
  <2> HIDE DEF one
  <2> QED
    BY <1>4, <2>1, BitwiseAgree
<1>6. ASSUME NEW i \in 0 .. W - 1, i >= LogW PROVE KTrit(amt, i) = 0
  <2>1. i \in Nat /\ LogW \in Nat
    BY <1>1
  <2>2. Bit(one.value, i) = 0 /\ Bit(one.mask, i) = 0
    <3>1. Bit(2^LogW - 1, i) = 0
      BY <1>6, <2>1, OnesBits
    <3>2. Bit(0, i) = 0
      BY <2>1, ZeroBit
    <3> QED
      BY <3>1, <3>2 DEF tnum_const, TNUM
  <2>3. t \in PairOfWords /\ one \in PairOfWords
    BY <1>4, Represented
  <2> HIDE DEF one
  <2>4. Bit(amt.value, i) = 0 /\ Bit(amt.mask, i) = 0
    BY <2>2, <2>3, AndParts
  <2> HIDE DEF amt
  <2> QED
    BY <2>4 DEF KTrit
<1>7. PICK round \in [0 .. LogW -> PairOfWords] :
        /\ tnum_shl(s, t, 2^LogW) = round[LogW]
        /\ round[0] = s
        /\ \A i \in 0 .. LogW - 1 : round[i + 1] = ShlRound(amt, round[i], i + 1)
  <2>1. amt = tnum_and(t, tnum_const(2^LogW - 1)) /\ s \in PairOfWords
    BY Represented
  <2> HIDE DEF amt
  <2> QED
    BY <2>1, ShlRounds
<1> HIDE DEF amt, one, r
<1>8. \A i \in 0 .. LogW : \E w : Represents(round[i], w)
  <2> DEFINE S == {i \in Nat : i <= LogW => \E w : Represents(round[i], w)}
  <2>1. 0 \in S
    BY <1>7
  <2>2. ASSUME NEW i \in Nat, i \in S PROVE i + 1 \in S
    <3> SUFFICES ASSUME i + 1 <= LogW PROVE \E w : Represents(round[i + 1], w)
      OBVIOUS
    <3>1. i \in 0 .. LogW - 1 /\ i \in 0 .. W - 1
      BY <1>1
    <3>2. PICK w : Represents(round[i], w)
      BY <1>1, <2>2
    <3>3. round[i + 1] = ShlRound(amt, round[i], i + 1)
      BY <1>7, <3>1
    <3> QED
      BY <1>2, <3>1, <3>2, <3>3, ShlRoundAgrees
  <2> HIDE DEF S
  <2>3. \A i \in Nat : i \in S
    BY <2>1, <2>2, SetInduction
  <2> QED
    BY <1>1, <2>3 DEF S
<1>9. ASSUME NEW i \in 0 .. LogW - 1
      PROVE  trits(round[i + 1])
               = L!shl_step(1 * 2^i, trits(round[i]), KTrit(amt, i))
  <2>1. i \in 0 .. LogW /\ i \in 0 .. W - 1
    BY <1>1
  <2>2. PICK w : Represents(round[i], w)
    BY <1>8, <2>1
  <2>3. round[i + 1] = ShlRound(amt, round[i], i + 1)
    BY <1>7
  <2> QED
    BY <1>2, <2>1, <2>2, <2>3, ShlRoundAgrees
<1> DEFINE q == trits(amt)
           last(j) == IF j <= LogW THEN j ELSE LogW
           f == [j \in 0 .. W |-> trits(round[last(j)])]
<1>10. Len(q) = W /\ \A j \in 1 .. W : q[j] = KTrit(amt, j - 1)
  BY TritsOf
<1>11. ASSUME NEW j \in 0 .. W
       PROVE  trits(round[last(j)])
                = IF j = 0 THEN trits(s) ELSE L!shl_step(1 * 2^(j - 1), f[j - 1], q[j])
  <2>1. CASE j = 0
    <3>1. last(j) = 0
      BY <1>1, <2>1
    <3> QED
      BY <1>7, <2>1, <3>1
  <2>2. CASE j # 0
    <3> DEFINE i == j - 1
    <3>1. i \in 0 .. W - 1 /\ i \in 0 .. W /\ i + 1 = j /\ j \in 1 .. W
      BY <1>1, <2>2
    <3>2. q[j] = KTrit(amt, i) /\ f[i] = trits(round[last(i)])
      BY <1>10, <3>1
    <3> HIDE DEF i, f, q
    <3>3. CASE j <= LogW
      <4>1. i \in 0 .. LogW - 1 /\ last(j) = i + 1 /\ last(i) = i
        BY <1>1, <3>1, <3>3
      <4> HIDE DEF last
      <4> QED
        BY <1>9, <2>2, <3>2, <4>1 DEF i
    <3>4. CASE ~ (j <= LogW)
      <4>1. i >= LogW /\ last(j) = LogW /\ last(i) = LogW
        BY <1>1, <3>1, <3>4
      <4>2. q[j] = 0
        BY <1>6, <3>1, <3>2, <4>1
      <4>3. ASSUME NEW k, NEW g PROVE L!shl_step(k, g, 0) = g
        BY DEF L!shl_step, L!X
      <4> HIDE DEF last
      <4> QED
        BY <2>2, <3>2, <4>1, <4>2, <4>3 DEF i
    <3> QED
      BY <3>3, <3>4
  <2> QED
    BY <2>1, <2>2
<1>12. ShiftsOf(f, trits(s), q)
  <2> HIDE DEF last, q
  <2> QED
    BY <1>11, Zenon DEF ShiftsOf
<1>13. f[W] = trits(round[LogW])
  <2>1. W \in 0 .. W /\ last(W) = LogW
    BY <1>1
  <2> HIDE DEF last
  <2> QED
    BY <2>1
<1> HIDE DEF f, q
<1>14. L!tnum_shl(trits(s), q) = f[W]
  BY <1>10, <1>12, ShlUnfolds
<1> QED
  BY <1>1, <1>5, <1>7, <1>13, <1>14 DEF q

-----------------------------------------------------------------------------
\* The inductive invariant: the tnum represents the value.
KernelIInv == Represents(a, x)

\* The first tnum is the constant.
LEMMA KernelInit ==
  Init => KernelIInv
  BY ConstRepresents DEF Init, KernelIInv

\* Every operation keeps it.
LEMMA KernelStep ==
  KernelIInv /\ [Next]_vars => KernelIInv'
<1> SUFFICES ASSUME KernelIInv, [Next]_vars
             PROVE  KernelIInv'
  OBVIOUS
<1>1. Represents(a, x) /\ x \in Word /\ x \in Int
  BY Represented, WordInt DEF KernelIInv
<1>2. ASSUME NEW o \in Operand PROVE Represents(o[1], o[2])
  <2>1. /\ o[1] \in PairOfWords /\ o[2] \in Word
        /\ tnum_valid(o[1]) /\ tnum_contains(o[1], o[2])
    BY DEF Operand, KTnum, PairOfWords
  <2> QED
    BY <2>1, RepresentsMeans
<1>3. ASSUME NEW o \in Operand, Arith(o[1], o[2]) PROVE KernelIInv'
  <2> DEFINE b == o[1]
             y == o[2]
  <2>1. Represents(b, y)
    BY <1>2
  <2> HIDE DEF b, y
  <2>2. /\ Represents(tnum_add(a, b), bv_add(x, y))
        /\ Represents(tnum_sub(a, b), bv_sub(x, y))
        /\ Represents(tnum_and(a, b), bv_and(x, y))
        /\ Represents(tnum_or(a, b), bv_or(x, y))
        /\ Represents(tnum_xor(a, b), bv_xor(x, y))
        /\ Represents(tnum_mul(a, b), bv_mul(x, y))
    BY <1>1, <2>1, AddRepresents, SubRepresents, AndRepresents, OrRepresents,
       XorRepresents, MulRepresents
  <2>3. Arith(b, y)
    BY <1>3 DEF b, y
  <2> QED
    BY <2>2, <2>3 DEF Arith, KernelIInv
<1>4. ASSUME NEW o \in Operand, Meet(o[1], o[2]) PROVE KernelIInv'
  <2> DEFINE b == o[1]
             y == o[2]
  <2>1. Represents(b, y) /\ Meet(b, y)
    BY <1>2, <1>4
  <2> HIDE DEF b, y
  <2>2. Represents(tnum_union(a, b), x)
    BY <1>1, <2>1, UnionRepresents
  <2>3. y = x => Represents(tnum_intersect(a, b), x)
    BY <1>1, <2>1, IntersectRepresents
  <2> QED
    BY <2>1, <2>2, <2>3 DEF Meet, KernelIInv
<1>5. \A n \in Bitness : /\ n \in Nat \ {0} /\ n <= W
                         /\ \E e \in 0 .. LogW : n = 2^e
  <2>1. Half = 2^(LogW - 1) /\ LogW - 1 \in 0 .. LogW /\ LogW \in 0 .. LogW
    BY RoundFacts
  <2> QED
    BY <2>1, RoundFacts DEF Bitness
<1>6. ASSUME NEW o \in Operand, NEW n \in Bitness, Shift(o[1], o[2], n)
      PROVE  KernelIInv'
  <2> DEFINE b == o[1]
             y == o[2]
  <2>1. Represents(b, y) /\ Shift(b, y, n)
    BY <1>2, <1>6
  <2> HIDE DEF b, y
  <2>2. PICK e \in 0 .. LogW : n = 2^e
    BY <1>5
  <2>3. /\ Represents(tnum_shl(a, b, 2^e), shl(x, y % 2^e))
        /\ Represents(tnum_lshr(a, b, 2^e), lshr(x, y % 2^e))
    BY <1>1, <2>1, ShlRepresents, LshrRepresents
  <2> QED
    BY <2>1, <2>2, <2>3 DEF Shift, KernelIInv
<1>7. ASSUME NEW n \in Bitness, NEW k \in 0 .. n - 1, ShiftArith(k, n)
      PROVE  KernelIInv'
  <2>1. n \in Nat \ {0} /\ n <= W /\ k \in Nat
    BY <1>5
  <2>2. Represents(tnum_arshift(a, k, n), sar(x, k, n))
    BY <1>1, <2>1, ArshiftRepresents
  <2> QED
    BY <1>7, <2>2 DEF ShiftArith, KernelIInv
<1>8. CASE Subreg
  BY <1>1, <1>8, SubregRepresents DEF Subreg, KernelIInv
<1>9. CASE UNCHANGED vars
  BY <1>1, <1>9 DEF vars, KernelIInv
<1> QED
  BY <1>3, <1>4, <1>6, <1>7, <1>8, <1>9 DEF Next

\* What the run checks follows.
LEMMA KernelImplied ==
  KernelIInv => KernelSound
<1> SUFFICES ASSUME KernelIInv PROVE KernelSound
  OBVIOUS
<1>1. Represents(a, x) /\ a \in PairOfWords /\ x \in Word
  BY Represented DEF KernelIInv
<1>2. tnum_valid(a) /\ tnum_contains(a, x)
  BY <1>1, RepresentsMeans
<1>3. \A k \in 0 .. LogW : tnum_is_aligned(a, 2^k) => x % 2^k = 0
  BY <1>1, AlignedRepresents
<1> QED
  BY <1>2, <1>3 DEF KernelSound

(***************************************************************************)
(* main's assertions, for every operation of cbmc/tnum.c, any sequence of  *)
(* them and every width: the tnum stays valid and contains the value, and  *)
(* a pointer that tnum_is_aligned accepts is aligned.                      *)
(***************************************************************************)
THEOREM KernelWalkSound == Spec => []KernelSound
<1>1. Init => KernelIInv
  BY KernelInit
<1>2. KernelIInv /\ [Next]_vars => KernelIInv'
  BY KernelStep
<1>3. KernelIInv => KernelSound
  BY KernelImplied
<1> QED
  BY <1>1, <1>2, <1>3, PTL DEF Spec

\* Two tnums the C code may hold have the trits the Lean code computes.
LEMMA KernelAgreeing ==
  KernelIInv => KernelAgrees
<1> SUFFICES ASSUME KernelIInv, NEW b \in KTnum
             PROVE  LET s == trits(a)
                        t == trits(b)
                    IN  /\ trits(tnum_add(a, b)) = L!tnum_add(s, t)
                        /\ trits(tnum_sub(a, b)) = L!tnum_sub(s, t)
                        /\ trits(tnum_and(a, b)) = L!tnum_and(s, t)
                        /\ trits(tnum_or(a, b)) = L!tnum_or(s, t)
                        /\ trits(tnum_xor(a, b)) = L!tnum_xor(s, t)
                        /\ trits(tnum_union(a, b)) = L!tnum_join(s, t)
                        /\ L!tnum_meet(s, t) \in {NoTnum, trits(tnum_intersect(a, b))}
                        /\ trits(tnum_shl(a, b, W))
                             = L!tnum_shl(s, L!tnum_and(t, L!tnum_const(W - 1)))
                        /\ tnum_in(a, b) <=> L!tnum_le(t, s)
  BY DEF KernelAgrees
<1>1. Represents(a, x) /\ Represents(b, b.value)
  BY ValidRepresents DEF KernelIInv
<1>2. /\ trits(tnum_add(a, b)) = L!tnum_add(trits(a), trits(b))
      /\ trits(tnum_sub(a, b)) = L!tnum_sub(trits(a), trits(b))
  BY <1>1, AddAgrees, SubAgrees
<1>3. /\ trits(tnum_and(a, b)) = L!tnum_and(trits(a), trits(b))
      /\ trits(tnum_or(a, b)) = L!tnum_or(trits(a), trits(b))
      /\ trits(tnum_xor(a, b)) = L!tnum_xor(trits(a), trits(b))
      /\ trits(tnum_union(a, b)) = L!tnum_join(trits(a), trits(b))
  BY <1>1, BitwiseAgree
<1>4. /\ L!tnum_meet(trits(a), trits(b)) \in {NoTnum, trits(tnum_intersect(a, b))}
      /\ tnum_in(a, b) <=> L!tnum_le(trits(b), trits(a))
  BY <1>1, OrderAgrees
<1>5. trits(tnum_shl(a, b, W))
        = L!tnum_shl(trits(a), L!tnum_and(trits(b), L!tnum_const(W - 1)))
  BY <1>1, ShlAgrees
<1> QED
  BY <1>2, <1>3, <1>4, <1>5

(***************************************************************************)
(* The two implementations of tnums agree at every width, on any tnum the  *)
(* C code holds and any valid operand: the carries that cbmc/tnum.c finds  *)
(* with an exclusive or are those the Lean code passes from trit to trit.  *)
(***************************************************************************)
THEOREM KernelWalkAgrees == Spec => []KernelAgrees
<1>1. Init => KernelIInv
  BY KernelInit
<1>2. KernelIInv /\ [Next]_vars => KernelIInv'
  BY KernelStep
<1>3. KernelIInv => KernelAgrees
  BY KernelAgreeing
<1> QED
  BY <1>1, <1>2, <1>3, PTL DEF Spec
=============================================================================
