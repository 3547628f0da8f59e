-------------------------- MODULE RegisterWalkProofs --------------------------
(***************************************************************************)
(* Theorems about tristate numbers and the abstract values built from them *)
(* (data/domain/trit.lean, data/domain/tnum.lean, bpf/absint/value.lean),  *)
(* for words of every width W:                                             *)
(*   - each operation stands for the operation on words (the ...Covers     *)
(*     lemmas), is monotone (the ...Monotone lemmas) and, where carries    *)
(*     and bits decide, loses nothing (the ...Optimal lemmas);             *)
(*   - the properties of modules RegisterWalk and ShlLoop;                 *)
(*   - the values are an instance of the class of module ValueAbstr, that  *)
(*     is, of all that the proofs about the verifier assume of a domain.   *)
(* Recursion over bits is unfolded through WordsProofs: the values of a    *)
(* recursive function are members of a set of functions that obey its      *)
(* equation, and what holds of them is shown by SetInduction.              *)
(***************************************************************************)
EXTENDS RegisterWalk, ShlLoop, WordsProofs

-----------------------------------------------------------------------------
(* Trits.                                                                  *)

\* A full adder on trits covers the full adder on bits.
LEMMA FullAddCovers ==
  ASSUME NEW s \in Trit, NEW t \in Trit, NEW c \in Trit
  PROVE  /\ full_add(s, t, c)[1] \in Trit /\ full_add(s, t, c)[2] \in Trit
         /\ \A i \in trit_gamma(s), j \in trit_gamma(t), k \in trit_gamma(c) :
              /\ (i + j + k) % 2 \in trit_gamma(full_add(s, t, c)[1])
              /\ (i + j + k) \div 2 \in trit_gamma(full_add(s, t, c)[2])
  BY DEF full_add, trit_gamma, Trit, X

\* A tnum of n trits is a sequence of them.
LEMMA TnumLen ==
  ASSUME NEW n \in Nat, NEW t \in TnumOf(n)
  PROVE  Len(t) = n /\ t \in Seq(Trit) /\ \A i \in 1 .. n : t[i] \in Trit
  BY DEF TnumOf


\* A trit stands for some bits.
LEMMA TritBits ==
  ASSUME NEW t \in Trit
  PROVE  trit_gamma(t) \subseteq {0, 1} /\ trit_gamma(t) # {}
  BY DEF trit_gamma, Trit, X

-----------------------------------------------------------------------------
(* Tnums of any length.                                                    *)

\* The words a tnum stands for, with positions counted from 0.
LEMMA GammaMember ==
  ASSUME NEW n \in Nat, NEW t \in TnumOf(n)
  PROVE  \A x : x \in tnum_gamma(t) <=>
                  /\ x \in 0 .. 2^n - 1
                  /\ \A i \in 0 .. n - 1 : Bit(x, i) \in trit_gamma(t[i + 1])
<1>1. Len(t) = n
  BY TnumLen
<1>2. ASSUME NEW x
      PROVE  (\A i \in 1 .. n : Bit(x, i - 1) \in trit_gamma(t[i]))
               <=> \A i \in 0 .. n - 1 : Bit(x, i) \in trit_gamma(t[i + 1])
  <2>1. ASSUME \A i \in 1 .. n : Bit(x, i - 1) \in trit_gamma(t[i]),
               NEW i \in 0 .. n - 1
        PROVE  Bit(x, i) \in trit_gamma(t[i + 1])
    <3>1. i + 1 \in 1 .. n /\ (i + 1) - 1 = i
      OBVIOUS
    <3>2. Bit(x, (i + 1) - 1) \in trit_gamma(t[i + 1])
      BY <2>1, <3>1
    <3> QED
      BY <3>1, <3>2
  <2>2. ASSUME \A i \in 0 .. n - 1 : Bit(x, i) \in trit_gamma(t[i + 1]),
               NEW i \in 1 .. n
        PROVE  Bit(x, i - 1) \in trit_gamma(t[i])
    <3>1. i - 1 \in 0 .. n - 1 /\ (i - 1) + 1 = i
      OBVIOUS
    <3>2. Bit(x, i - 1) \in trit_gamma(t[(i - 1) + 1])
      BY <2>2, <3>1
    <3> QED
      BY <3>1, <3>2
  <2> QED
    BY <2>1, <2>2
<1> QED
  BY <1>1, <1>2 DEF tnum_gamma

-----------------------------------------------------------------------------
(* Addition.                                                               *)

\* The carries of a ripple-carry addition of tnums of n trits.
Carries(s, t, c, n) ==
  {k \in [1 .. n + 1 -> Trit] :
     /\ k[1] = c
     /\ \A i \in 1 .. n : k[i + 1] = full_add(s[i], t[i], k[i])[2]}

\* The adder ripples: there are carries of which its trits are the sums.
LEMMA AdcUnfold ==
  ASSUME NEW n \in Nat, NEW s \in TnumOf(n), NEW t \in TnumOf(n), NEW c \in Trit
  PROVE  \E k \in Carries(s, t, c, n) :
           tnum_adc(s, t, c) = [i \in 1 .. n |-> full_add(s[i], t[i], k[i])[1]]
<1>1. Len(s) = n /\ \A i \in 1 .. n : s[i] \in Trit /\ t[i] \in Trit
  BY TnumLen
<1> DEFINE G == [i \in 1 .. n |-> [v \in Trit |-> full_add(s[i], t[i], v)[2]]]
           carry[i \in 1 .. Len(s)] ==
             IF i = 1 THEN c ELSE full_add(s[i - 1], t[i - 1], carry[i - 1])[2]
           Step(h, i) ==
             IF i = 1 THEN c ELSE full_add(s[i - 1], t[i - 1], h[i - 1])[2]
<1>2. G \in [1 .. n -> [Trit -> Trit]]
  BY <1>1, FullAddCovers
<1>3. PICK g \in [0 .. n -> Trit] : Recursive(g, n, c, G)
  <2> HIDE DEF G
  <2> QED
    BY <1>2, RecursionExists, Zenon
<1>4. \E h : h = [i \in 1 .. Len(s) |-> Step(h, i)]
  <2> DEFINE h == [i \in 1 .. n |-> g[i - 1]]
  <2>1. ASSUME NEW i \in 1 .. n PROVE h[i] = Step(h, i)
    <3>1. CASE i = 1
      BY <1>3, <3>1 DEF Recursive
    <3>2. CASE i # 1
      <4>1. i - 1 \in 1 .. n /\ i - 1 - 1 \in 0 .. n
        BY <3>2
      <4>2. g[i - 1] = G[i - 1][g[i - 1 - 1]] /\ g[i - 1 - 1] \in Trit
        BY <1>3, <4>1 DEF Recursive
      <4>3. h[i] = g[i - 1] /\ h[i - 1] = g[i - 1 - 1]
        BY <4>1
      <4> HIDE DEF h
      <4> QED
        BY <3>2, <4>1, <4>2, <4>3
    <3> QED
      BY <3>1, <3>2
  <2>2. h = [i \in 1 .. n |-> Step(h, i)]
    <3>1. h \in [1 .. n -> Trit]
      OBVIOUS
    <3> HIDE DEF h, Step
    <3> QED
      BY <2>1, <3>1
  <2> HIDE DEF Step, h
  <2> QED
    BY <1>1, <2>2
<1>5. carry = [i \in 1 .. n |-> Step(carry, i)]
  <2>1. carry = [i \in 1 .. Len(s) |-> Step(carry, i)]
    BY <1>4
  <2> HIDE DEF carry, Step
  <2> QED
    BY <1>1, <2>1
<1> HIDE DEF carry, G
<1>6. \A i \in 1 .. n : carry[i] \in Trit
  <2> DEFINE S == {i \in Nat : i \in 1 .. n => carry[i] \in Trit}
  <2>1. 0 \in S
    OBVIOUS
  <2>2. ASSUME NEW i \in Nat, i \in S PROVE i + 1 \in S
    <3>1. SUFFICES ASSUME i + 1 <= n PROVE carry[i + 1] \in Trit
      OBVIOUS
    <3>2. CASE i = 0
      BY <1>5, <3>1, <3>2
    <3>3. CASE i \in 1 .. n
      <4>1. carry[i] \in Trit /\ s[i] \in Trit /\ t[i] \in Trit
        BY <1>1, <2>2, <3>3
      <4>2. carry[i + 1] = full_add(s[i], t[i], carry[i])[2]
        BY <1>5, <3>1, <3>3
      <4> QED
        BY <4>1, <4>2, FullAddCovers
    <3> QED
      BY <3>1, <3>2, <3>3
  <2> HIDE DEF S
  <2>3. \A i \in Nat : i \in S
    BY <2>1, <2>2, SetInduction
  <2> QED
    BY <2>3 DEF S
<1> DEFINE k == [i \in 1 .. n + 1 |-> Step(carry, i)]
<1>7. \A i \in 1 .. n : k[i] = carry[i]
  BY <1>5
<1>8. k \in Carries(s, t, c, n)
  <2>1. k[1] = c
    OBVIOUS
  <2>2. ASSUME NEW i \in 1 .. n PROVE k[i + 1] = full_add(s[i], t[i], k[i])[2]
    <3>1. k[i + 1] = full_add(s[i], t[i], carry[i])[2]
      OBVIOUS
    <3> HIDE DEF k
    <3> QED
      BY <1>7, <3>1
  <2>3. ASSUME NEW i \in 1 .. n + 1 PROVE k[i] \in Trit
    <3>1. CASE i = 1
      BY <2>1, <3>1
    <3>2. CASE i - 1 \in 1 .. n
      <4>1. k[i] = full_add(s[i - 1], t[i - 1], carry[i - 1])[2]
        BY <3>2
      <4> QED
        BY <1>1, <1>6, <3>2, <4>1, FullAddCovers
    <3> QED
      BY <3>1, <3>2
  <2>4. k \in [1 .. n + 1 -> Trit]
    <3> HIDE DEF Step
    <3> QED
      BY <2>3
  <2> HIDE DEF k
  <2> QED
    BY <2>1, <2>2, <2>4 DEF Carries
<1>9. tnum_adc(s, t, c) = [i \in 1 .. n |-> full_add(s[i], t[i], k[i])[1]]
  <2>1. tnum_adc(s, t, c)
          = [i \in 1 .. Len(s) |-> full_add(s[i], t[i], carry[i])[1]]
    BY DEF tnum_adc, carry
  <2> HIDE DEF k
  <2> QED
    BY <1>1, <1>7, <2>1
<1> QED
  BY <1>8, <1>9

\* The adder gives as many trits as it takes.
LEMMA AdcType ==
  ASSUME NEW n \in Nat, NEW s \in TnumOf(n), NEW t \in TnumOf(n), NEW c \in Trit
  PROVE  tnum_adc(s, t, c) \in TnumOf(n)
<1>1. PICK k \in Carries(s, t, c, n) :
        tnum_adc(s, t, c) = [i \in 1 .. n |-> full_add(s[i], t[i], k[i])[1]]
  BY AdcUnfold
<1>2. ASSUME NEW i \in 1 .. n PROVE full_add(s[i], t[i], k[i])[1] \in Trit
  <2>1. s[i] \in Trit /\ t[i] \in Trit /\ k[i] \in Trit
    BY TnumLen DEF Carries
  <2> QED
    BY <2>1, FullAddCovers
<1> QED
  BY <1>1, <1>2 DEF TnumOf

\* The sum of two words modulo 2^n is covered by the sum of their tnums.
LEMMA AdcCovers ==
  ASSUME NEW n \in Nat, NEW s \in TnumOf(n), NEW t \in TnumOf(n), NEW c \in Trit,
         NEW x \in tnum_gamma(s), NEW y \in tnum_gamma(t), NEW z \in trit_gamma(c)
  PROVE  (x + y + z) % 2^n \in tnum_gamma(tnum_adc(s, t, c))
<1> DEFINE w == x + y + z
           r == tnum_adc(s, t, c)
<1>1. PICK k \in Carries(s, t, c, n) :
        r = [i \in 1 .. n |-> full_add(s[i], t[i], k[i])[1]]
  BY AdcUnfold
<1>2. /\ x \in Int /\ \A i \in 0 .. n - 1 : Bit(x, i) \in trit_gamma(s[i + 1])
      /\ y \in Int /\ \A i \in 0 .. n - 1 : Bit(y, i) \in trit_gamma(t[i + 1])
  BY GammaMember, PowerFacts
<1>3. z \in {0, 1} /\ z \in Int
  BY TritBits
<1>4. w \in Int
  BY <1>2, <1>3
<1> DEFINE Sum(i, c1) == Carried(x, y, z, i, c1)
           Prefix(i) ==
             /\ \E c1 \in trit_gamma(k[i + 1]) : Sum(i, c1)
             /\ \A j \in 0 .. i - 1 : Bit(w, j) \in trit_gamma(r[j + 1])
           S == {i \in Nat : i <= n => Prefix(i)}
<1>5. 0 \in S
  <2>1. z \in trit_gamma(k[0 + 1])
    BY <1>1 DEF Carries
  <2>2. Sum(0, z)
    <3>1. x % 2^0 = 0 /\ y % 2^0 = 0 /\ w % 2^0 = 0 /\ 2^0 * z = z
      <4>1. \A v \in Int : v % 1 = 0
        OBVIOUS
      <4> HIDE DEF w
      <4> QED
        BY <1>2, <1>3, <1>4, <4>1, PowerZero
    <3> HIDE DEF w
    <3> QED
      BY <1>3, <3>1 DEF Carried, w
  <2> HIDE DEF Sum, w, r
  <2> QED
    BY <2>1, <2>2
<1>6. ASSUME NEW i \in Nat, i \in S PROVE i + 1 \in S
  <2>1. SUFFICES ASSUME i + 1 <= n PROVE Prefix(i + 1)
    OBVIOUS
  <2>2. PICK c1 \in trit_gamma(k[i + 1]) : Sum(i, c1)
    <3> HIDE DEF Sum, r, w
    <3> QED
      BY <1>6, <2>1
  <2>3. s[i + 1] \in Trit /\ t[i + 1] \in Trit /\ k[i + 1] \in Trit
    BY <2>1, TnumLen DEF Carries
  <2>4. c1 \in {0, 1}
    BY <2>2, <2>3, TritBits
  <2> DEFINE v == Bit(x, i) + Bit(y, i) + c1
             f == full_add(s[i + 1], t[i + 1], k[i + 1])
  <2>5. v % 2 \in trit_gamma(f[1]) /\ v \div 2 \in trit_gamma(f[2])
    <3>1. Bit(x, i) \in trit_gamma(s[i + 1]) /\ Bit(y, i) \in trit_gamma(t[i + 1])
      BY <1>2, <2>1
    <3> QED
      BY <2>2, <2>3, <3>1, FullAddCovers
  <2>6. Bit(w, i) = v % 2 /\ Sum(i + 1, v \div 2)
    <3>1. /\ x \in Int /\ y \in Int /\ z \in Int /\ c1 \in {0, 1}
          /\ v = Bit(x, i) + Bit(y, i) + c1
      BY <1>2, <1>3, <2>4
    <3> HIDE DEF v
    <3> QED
      BY <2>2, <3>1, CarryStep
  <2>7. k[i + 1 + 1] = f[2] /\ r[i + 1] = f[1]
    BY <1>1, <2>1 DEF Carries
  <2>8. \A j \in 0 .. i - 1 : Bit(w, j) \in trit_gamma(r[j + 1])
    <3> HIDE DEF Sum, r, w
    <3> QED
      BY <1>6, <2>1
  <2> HIDE DEF Sum, r, w, v, f
  <2>9. ASSUME NEW j \in 0 .. (i + 1) - 1 PROVE Bit(w, j) \in trit_gamma(r[j + 1])
    <3>1. j = i \/ j \in 0 .. i - 1
      OBVIOUS
    <3> QED
      BY <2>5, <2>6, <2>7, <2>8, <3>1
  <2> QED
    BY <2>5, <2>6, <2>7, <2>9
<1>7. Prefix(n)
  <2>1. \A i \in Nat : i \in S
    <3> HIDE DEF S
    <3> QED
      BY <1>5, <1>6, SetInduction
  <2> HIDE DEF Prefix
  <2> QED
    BY <2>1
<1>8. w % 2^n \in 0 .. 2^n - 1
  <2>1. 2^n \in Nat \ {0}
    BY PowerFacts
  <2> HIDE DEF w
  <2> QED
    BY <1>4, <2>1, DivMod
<1>9. ASSUME NEW i \in 0 .. n - 1 PROVE Bit(w % 2^n, i) \in trit_gamma(r[i + 1])
  <2> HIDE DEF w, r
  <2>1. Bit(w % 2^n, i) = Bit(w, i)
    BY <1>4, BitOfLow
  <2> QED
    BY <1>7, <2>1
<1>10. r \in TnumOf(n)
  BY AdcType
<1> HIDE DEF w, r
<1> QED
  BY <1>8, <1>9, <1>10, GammaMember DEF w, r

-----------------------------------------------------------------------------
(* The bitwise operations, and what they give subtraction and negation.    *)

LEMMA NotCovers ==
  ASSUME NEW n \in Nat, NEW t \in TnumOf(n)
  PROVE  /\ tnum_not(t) \in TnumOf(n)
         /\ \A x \in tnum_gamma(t) : 2^n - 1 - x \in tnum_gamma(tnum_not(t))
<1>1. tnum_not(t) = [i \in 1 .. n |-> trit_not(t[i])] /\ \A i \in 1 .. n : t[i] \in Trit
  BY TnumLen DEF tnum_not, Map
<1>2. \A u \in Trit : /\ trit_not(u) \in Trit
                      /\ \A v \in trit_gamma(u) : 1 - v \in trit_gamma(trit_not(u))
  BY DEF trit_not, trit_gamma, Trit, X
<1>3. tnum_not(t) \in TnumOf(n)
  BY <1>1, <1>2 DEF TnumOf
<1>4. ASSUME NEW x \in tnum_gamma(t) PROVE 2^n - 1 - x \in tnum_gamma(tnum_not(t))
  <2>1. /\ 2^n \in Int /\ x \in Int /\ 2^n - 1 - x \in 0 .. 2^n - 1
        /\ \A i \in 0 .. n - 1 : Bit(x, i) \in trit_gamma(t[i + 1])
    <3>1. 2^n \in Int
      BY PowerFacts
    <3> QED
      BY <3>1, GammaMember
  <2>2. ASSUME NEW i \in 0 .. n - 1
        PROVE  Bit(2^n - 1 - x, i) \in trit_gamma(tnum_not(t)[i + 1])
    <3>1. tnum_not(t)[i + 1] = trit_not(t[i + 1]) /\ t[i + 1] \in Trit
      BY <1>1
    <3>2. Bit(2^n - 1 - x, i) = 1 - Bit(x, i)
      BY <2>1, ComplementBits
    <3> QED
      BY <1>2, <2>1, <3>1, <3>2
  <2> QED
    BY <1>3, <2>1, <2>2, GammaMember
<1> QED
  BY <1>3, <1>4

\* An operation on words that works bit by bit as one on trits covers it.
Bitwise2(s, t, r, x, y, z) ==
  /\ s \in Tnum /\ t \in Tnum /\ r \in Tnum /\ z \in Word
  /\ x \in tnum_gamma(s) /\ y \in tnum_gamma(t)
  /\ \A i \in 0 .. W - 1 :
       Bit(x, i) \in trit_gamma(s[i + 1]) /\ Bit(y, i) \in trit_gamma(t[i + 1])
         => Bit(z, i) \in trit_gamma(r[i + 1])

\* What holds of all bits holds of the words.
LEMMA BitwiseCovers ==
  ASSUME NEW s, NEW t, NEW r, NEW x, NEW y, NEW z, Bitwise2(s, t, r, x, y, z)
  PROVE  z \in tnum_gamma(r)
<1>1. W \in Nat /\ s \in TnumOf(W) /\ t \in TnumOf(W) /\ r \in TnumOf(W)
  BY WAssumption DEF Bitwise2, Tnum
<1>2. /\ \A i \in 0 .. W - 1 : Bit(x, i) \in trit_gamma(s[i + 1])
      /\ \A i \in 0 .. W - 1 : Bit(y, i) \in trit_gamma(t[i + 1])
  BY <1>1, GammaMember DEF Bitwise2
<1>3. \A i \in 0 .. W - 1 : Bit(z, i) \in trit_gamma(r[i + 1])
  BY <1>2 DEF Bitwise2
<1> QED
  BY <1>1, <1>3, GammaMember DEF Bitwise2, Word

\* Tnums stand for words.
LEMMA GammaWords ==
  ASSUME NEW t \in Tnum
  PROVE  tnum_gamma(t) \subseteq Word /\ tnum_gamma(t) \subseteq Nat
<1>1. W \in Nat /\ t \in TnumOf(W)
  BY WAssumption DEF Tnum
<1>2. tnum_gamma(t) \subseteq Word
  BY <1>1, GammaMember DEF Word
<1> QED
  BY <1>2, WordFacts

\* tnum_and is sound.
LEMMA AndCovers ==
  ASSUME NEW s \in Tnum, NEW t \in Tnum
  PROVE  /\ tnum_and(s, t) \in Tnum
         /\ \A x \in tnum_gamma(s), y \in tnum_gamma(t) :
              bv_and(x, y) \in tnum_gamma(tnum_and(s, t))
<1>1. /\ tnum_and(s, t) = [i \in 1 .. W |-> trit_and(s[i], t[i])]
      /\ \A i \in 1 .. W : s[i] \in Trit /\ t[i] \in Trit
  BY TnumLen, WAssumption DEF tnum_and, Map2, Tnum
<1>2. ASSUME NEW u \in Trit, NEW v \in Trit
      PROVE  /\ trit_and(u, v) \in Trit
             /\ \A i \in trit_gamma(u), j \in trit_gamma(v) :
                  i * j \in trit_gamma(trit_and(u, v))
  BY DEF trit_and, trit_gamma, Trit, X
<1>3. tnum_and(s, t) \in Tnum
  BY <1>1, <1>2 DEF Tnum, TnumOf
<1>4. ASSUME NEW x \in tnum_gamma(s), NEW y \in tnum_gamma(t)
      PROVE  bv_and(x, y) \in tnum_gamma(tnum_and(s, t))
  <2>1. x \in Word /\ y \in Word
    BY GammaWords
  <2>2. /\ bv_and(x, y) \in Word
        /\ \A i \in 0 .. W - 1 : Bit(bv_and(x, y), i) = Bit(x, i) * Bit(y, i)
    BY <2>1, AndBits
  <2>3. ASSUME NEW i \in 0 .. W - 1, Bit(x, i) \in trit_gamma(s[i + 1]),
               Bit(y, i) \in trit_gamma(t[i + 1])
        PROVE  Bit(bv_and(x, y), i) \in trit_gamma(tnum_and(s, t)[i + 1])
    <3>1. /\ tnum_and(s, t)[i + 1] = trit_and(s[i + 1], t[i + 1])
          /\ s[i + 1] \in Trit /\ t[i + 1] \in Trit
      BY <1>1, WAssumption
    <3> QED
      BY <1>2, <2>2, <2>3, <3>1
  <2> QED
    BY <1>3, <2>2, <2>3, BitwiseCovers DEF Bitwise2
<1> QED
  BY <1>3, <1>4

\* tnum_or is sound.
LEMMA OrCovers ==
  ASSUME NEW s \in Tnum, NEW t \in Tnum
  PROVE  /\ tnum_or(s, t) \in Tnum
         /\ \A x \in tnum_gamma(s), y \in tnum_gamma(t) :
              bv_or(x, y) \in tnum_gamma(tnum_or(s, t))
<1>1. /\ tnum_or(s, t) = [i \in 1 .. W |-> trit_or(s[i], t[i])]
      /\ \A i \in 1 .. W : s[i] \in Trit /\ t[i] \in Trit
  BY TnumLen, WAssumption DEF tnum_or, Map2, Tnum
<1>2. ASSUME NEW u \in Trit, NEW v \in Trit
      PROVE  /\ trit_or(u, v) \in Trit
             /\ \A i \in trit_gamma(u), j \in trit_gamma(v) :
                  1 - (1 - i) * (1 - j) \in trit_gamma(trit_or(u, v))
  BY DEF trit_or, trit_gamma, Trit, X
<1>3. tnum_or(s, t) \in Tnum
  BY <1>1, <1>2 DEF Tnum, TnumOf
<1>4. ASSUME NEW x \in tnum_gamma(s), NEW y \in tnum_gamma(t)
      PROVE  bv_or(x, y) \in tnum_gamma(tnum_or(s, t))
  <2>1. x \in Word /\ y \in Word
    BY GammaWords
  <2>2. /\ bv_or(x, y) \in Word
        /\ \A i \in 0 .. W - 1 :
             Bit(bv_or(x, y), i) = 1 - (1 - Bit(x, i)) * (1 - Bit(y, i))
    BY <2>1, OrBits
  <2>3. ASSUME NEW i \in 0 .. W - 1, Bit(x, i) \in trit_gamma(s[i + 1]),
               Bit(y, i) \in trit_gamma(t[i + 1])
        PROVE  Bit(bv_or(x, y), i) \in trit_gamma(tnum_or(s, t)[i + 1])
    <3>1. /\ tnum_or(s, t)[i + 1] = trit_or(s[i + 1], t[i + 1])
          /\ s[i + 1] \in Trit /\ t[i + 1] \in Trit
      BY <1>1, WAssumption
    <3> QED
      BY <1>2, <2>2, <2>3, <3>1
  <2> QED
    BY <1>3, <2>2, <2>3, BitwiseCovers DEF Bitwise2
<1> QED
  BY <1>3, <1>4

\* tnum_xor is sound.
LEMMA XorCovers ==
  ASSUME NEW s \in Tnum, NEW t \in Tnum
  PROVE  /\ tnum_xor(s, t) \in Tnum
         /\ \A x \in tnum_gamma(s), y \in tnum_gamma(t) :
              bv_xor(x, y) \in tnum_gamma(tnum_xor(s, t))
<1>1. /\ tnum_xor(s, t) = [i \in 1 .. W |-> trit_xor(s[i], t[i])]
      /\ \A i \in 1 .. W : s[i] \in Trit /\ t[i] \in Trit
  BY TnumLen, WAssumption DEF tnum_xor, Map2, Tnum
<1>2. ASSUME NEW u \in Trit, NEW v \in Trit
      PROVE  /\ trit_xor(u, v) \in Trit
             /\ \A i \in trit_gamma(u), j \in trit_gamma(v) :
                  (i + j) % 2 \in trit_gamma(trit_xor(u, v))
  BY DEF trit_xor, trit_gamma, Trit, X
<1>3. tnum_xor(s, t) \in Tnum
  BY <1>1, <1>2 DEF Tnum, TnumOf
<1>4. ASSUME NEW x \in tnum_gamma(s), NEW y \in tnum_gamma(t)
      PROVE  bv_xor(x, y) \in tnum_gamma(tnum_xor(s, t))
  <2>1. x \in Word /\ y \in Word
    BY GammaWords
  <2>2. /\ bv_xor(x, y) \in Word
        /\ \A i \in 0 .. W - 1 :
             Bit(bv_xor(x, y), i) = (Bit(x, i) + Bit(y, i)) % 2
    BY <2>1, XorBits
  <2>3. ASSUME NEW i \in 0 .. W - 1, Bit(x, i) \in trit_gamma(s[i + 1]),
               Bit(y, i) \in trit_gamma(t[i + 1])
        PROVE  Bit(bv_xor(x, y), i) \in trit_gamma(tnum_xor(s, t)[i + 1])
    <3>1. /\ tnum_xor(s, t)[i + 1] = trit_xor(s[i + 1], t[i + 1])
          /\ s[i + 1] \in Trit /\ t[i + 1] \in Trit
      BY <1>1, WAssumption
    <3> QED
      BY <1>2, <2>2, <2>3, <3>1
  <2> QED
    BY <1>3, <2>2, <2>3, BitwiseCovers DEF Bitwise2
<1> QED
  BY <1>3, <1>4

\* A constant stands for one word, the top tnum for all.
LEMMA ConstCovers ==
  ASSUME NEW x \in Word
  PROVE  tnum_const(x) \in Tnum /\ tnum_gamma(tnum_const(x)) = {x}
<1>1. tnum_const(x) \in Tnum
  <2>1. \A i \in 1 .. W : i - 1 \in 0 .. W - 1
    BY WAssumption
  <2> QED
    BY <2>1, WordBitType DEF tnum_const, Tnum, TnumOf, Trit
<1>2. \A i \in 0 .. W - 1 : trit_gamma(tnum_const(x)[i + 1]) = {Bit(x, i)}
  <2>1. ASSUME NEW i \in 0 .. W - 1
        PROVE  trit_gamma(tnum_const(x)[i + 1]) = {Bit(x, i)}
    <3>1. i + 1 \in 1 .. W /\ (i + 1) - 1 = i
      BY WAssumption
    <3>2. tnum_const(x)[i + 1] = Bit(x, i)
      BY <3>1 DEF tnum_const
    <3>3. Bit(x, i) \in {0, 1}
      BY WordBitType
    <3> QED
      BY <3>2, <3>3 DEF trit_gamma, X
  <2> QED
    BY <2>1
<1>3. \A y : y \in tnum_gamma(tnum_const(x)) <=>
               y \in Word /\ \A i \in 0 .. W - 1 : Bit(y, i) = Bit(x, i)
  <2>1. W \in Nat /\ tnum_const(x) \in TnumOf(W)
    BY <1>1, WAssumption DEF Tnum
  <2>2. \A y : y \in tnum_gamma(tnum_const(x)) <=>
          /\ y \in Word
          /\ \A i \in 0 .. W - 1 : Bit(y, i) \in trit_gamma(tnum_const(x)[i + 1])
    BY <2>1, GammaMember DEF Word
  <2> QED
    BY <1>2, <2>2
<1>4. \A y : y \in tnum_gamma(tnum_const(x)) <=> y = x
  BY <1>3, WordExtensionality
<1> QED
  BY <1>1, <1>4

\* The unknown tnum stands for every word.
LEMMA TopCovers ==
  tnum_top \in Tnum /\ tnum_gamma(tnum_top) = Word
<1>1. tnum_top \in Tnum
  BY DEF tnum_top, Repeat, Tnum, TnumOf, Trit, X
<1>2. \A i \in 0 .. W - 1 : trit_gamma(tnum_top[i + 1]) = {0, 1}
  BY WAssumption DEF tnum_top, Repeat, trit_gamma, X
<1>3. W \in Nat /\ tnum_top \in TnumOf(W)
  BY <1>1, WAssumption DEF Tnum
<1>4. \A y : y \in tnum_gamma(tnum_top) <=>
          y \in Word /\ \A i \in 0 .. W - 1 : Bit(y, i) \in {0, 1}
  BY <1>2, <1>3, GammaMember DEF Word
<1>5. \A y : y \in tnum_gamma(tnum_top) <=> y \in Word
  BY <1>4, WordBitType
<1> QED
  BY <1>1, <1>5

\* tnum_add is sound.
LEMMA AddCovers ==
  ASSUME NEW s \in Tnum, NEW t \in Tnum
  PROVE  /\ tnum_add(s, t) \in Tnum
         /\ \A x \in tnum_gamma(s), y \in tnum_gamma(t) :
              bv_add(x, y) \in tnum_gamma(tnum_add(s, t))
<1>1. W \in Nat /\ s \in TnumOf(W) /\ t \in TnumOf(W)
  BY WAssumption DEF Tnum
<1>2. 0 \in Trit /\ 0 \in trit_gamma(0)
  BY DEF Trit, trit_gamma, X
<1>3. ASSUME NEW x \in tnum_gamma(s), NEW y \in tnum_gamma(t)
      PROVE  bv_add(x, y) \in tnum_gamma(tnum_add(s, t))
  <2>1. (x + y + 0) % 2^W \in tnum_gamma(tnum_adc(s, t, 0))
    BY <1>1, <1>2, AdcCovers
  <2>2. x + y + 0 = x + y
    BY GammaWords
  <2> QED
    BY <2>1, <2>2 DEF bv_add, tnum_add
<1> QED
  BY <1>1, <1>2, <1>3, AdcType DEF tnum_add, Tnum

\* tnum_sub is sound: adding the complement and one.
LEMMA SubCovers ==
  ASSUME NEW s \in Tnum, NEW t \in Tnum
  PROVE  /\ tnum_sub(s, t) \in Tnum
         /\ \A x \in tnum_gamma(s), y \in tnum_gamma(t) :
              bv_sub(x, y) \in tnum_gamma(tnum_sub(s, t))
<1>1. W \in Nat /\ s \in TnumOf(W) /\ t \in TnumOf(W)
  BY WAssumption DEF Tnum
<1>2. 1 \in Trit /\ 1 \in trit_gamma(1)
  BY DEF Trit, trit_gamma, X
<1>3. /\ tnum_not(t) \in TnumOf(W)
      /\ \A y \in tnum_gamma(t) : 2^W - 1 - y \in tnum_gamma(tnum_not(t))
  BY <1>1, NotCovers
<1>4. ASSUME NEW x \in tnum_gamma(s), NEW y \in tnum_gamma(t)
      PROVE  bv_sub(x, y) \in tnum_gamma(tnum_sub(s, t))
  <2> DEFINE d == 2^W
  <2>1. (x + (d - 1 - y) + 1) % d \in tnum_gamma(tnum_adc(s, tnum_not(t), 1))
    BY <1>1, <1>2, <1>3, AdcCovers
  <2>2. x \in Int /\ y \in Int /\ d \in Nat \ {0}
    BY GammaWords, WordFacts
  <2>3. x + (d - 1 - y) + 1 = (x - y) + d * 1 /\ x - y \in Int
    <3> HIDE DEF d
    <3> QED
      BY <2>2
  <2>4. ((x - y) + d * 1) % d = (x - y) % d
    <3> HIDE DEF d
    <3>1. \A u \in Int, k \in Int : (u + d * k) % d = u % d
      BY <2>2, ModShift
    <3> QED
      BY <2>3, <3>1
  <2> QED
    BY <2>1, <2>3, <2>4 DEF bv_sub, tnum_sub
<1> QED
  BY <1>1, <1>2, <1>3, <1>4, AdcType DEF tnum_sub, Tnum

\* tnum_neg is sound.
LEMMA NegCovers ==
  ASSUME NEW s \in Tnum
  PROVE  /\ tnum_neg(s) \in Tnum
         /\ \A x \in tnum_gamma(s) : bv_neg(x) \in tnum_gamma(tnum_neg(s))
<1>1. W \in Nat /\ s \in TnumOf(W)
  BY WAssumption DEF Tnum
<1>2. /\ tnum_not(s) \in Tnum
      /\ \A x \in tnum_gamma(s) : 2^W - 1 - x \in tnum_gamma(tnum_not(s))
  BY <1>1, NotCovers DEF Tnum
<1>3. tnum_const(1) \in Tnum /\ 1 \in tnum_gamma(tnum_const(1))
  <2>1. 1 \in Word
    <3>1. 2^W >= 2
      BY WAssumption, PowerAbove, PowerFacts
    <3> QED
      BY <3>1, WordFacts DEF Word
  <2> QED
    BY <2>1, ConstCovers
<1>4. ASSUME NEW x \in tnum_gamma(s) PROVE bv_neg(x) \in tnum_gamma(tnum_neg(s))
  <2>1. bv_add(2^W - 1 - x, 1) \in tnum_gamma(tnum_neg(s))
    BY <1>2, <1>3, AddCovers DEF tnum_neg
  <2>2. bv_add(2^W - 1 - x, 1) = bv_neg(x)
    <3>1. x \in Int /\ 2^W \in Int
      BY GammaWords, WordFacts
    <3>2. 2^W - 1 - x + 1 = 2^W - x
      BY <3>1
    <3> QED
      BY <3>2 DEF bv_add, bv_neg
  <2> QED
    BY <2>1, <2>2
<1> QED
  BY <1>2, <1>3, <1>4, AddCovers DEF tnum_neg

-----------------------------------------------------------------------------
(* Division, of constants only.                                            *)

LEMMA ConstantWord ==
  ASSUME NEW t \in Tnum, tnum_is_const(t)
  PROVE  /\ tnum_to_const(t) \in Word
         /\ tnum_gamma(t) = {tnum_to_const(t)}
<1> DEFINE f == [i \in 0 .. W - 1 |-> IF t[i + 1] = 1 THEN 1 ELSE 0]
           v == tnum_to_const(t)
<1>1. W \in Nat /\ t \in TnumOf(W) /\ f \in [0 .. W - 1 -> {0, 1}]
  BY WAssumption DEF Tnum
<1>2. v \in Word /\ \A i \in 0 .. W - 1 : Bit(v, i) = f[i]
  BY <1>1, FromBitsDigits DEF tnum_to_const
<1>3. ASSUME NEW i \in 0 .. W - 1
      PROVE  f[i] \in {0, 1} /\ trit_gamma(t[i + 1]) = {f[i]}
  <2>1. i + 1 \in 1 .. W /\ t[i + 1] \in Trit /\ t[i + 1] # X
    BY <1>1, TnumLen DEF tnum_is_const
  <2> QED
    BY <2>1 DEF trit_gamma, Trit, X
<1>4. \A x : x \in tnum_gamma(t) <=>
               x \in Word /\ \A i \in 0 .. W - 1 : Bit(x, i) = f[i]
  <2>1. \A x : x \in tnum_gamma(t) <=>
          x \in Word /\ \A i \in 0 .. W - 1 : Bit(x, i) \in trit_gamma(t[i + 1])
    BY <1>1, GammaMember DEF Word
  <2> HIDE DEF f
  <2> QED
    BY <1>3, <2>1
<1>5. \A x : x \in tnum_gamma(t) <=> x = v
  <2> HIDE DEF f, v
  <2> QED
    BY <1>2, <1>4, WordExtensionality
<1> QED
  BY <1>2, <1>5

\* Division and remainder are sound: exact on constants, unknown otherwise.
LEMMA DivCovers ==
  ASSUME NEW s \in Tnum, NEW t \in Tnum
  PROVE  /\ tnum_udiv(s, t) \in Tnum /\ tnum_urem(s, t) \in Tnum
         /\ \A x \in tnum_gamma(s), y \in tnum_gamma(t) :
              /\ udiv(x, y) \in tnum_gamma(tnum_udiv(s, t))
              /\ urem(x, y) \in tnum_gamma(tnum_urem(s, t))
<1>1. CASE tnum_is_const(s) /\ tnum_is_const(t)
  <2> DEFINE u == tnum_to_const(s)
             v == tnum_to_const(t)
  <2>1. /\ u \in Word /\ tnum_gamma(s) = {u}
        /\ v \in Word /\ tnum_gamma(t) = {v}
    BY <1>1, ConstantWord
  <2>2. udiv(u, v) \in Word /\ urem(u, v) \in Word
    BY <2>1, DivWords
  <2>3. /\ tnum_udiv(s, t) = tnum_const(udiv(u, v))
        /\ tnum_urem(s, t) = tnum_const(urem(u, v))
    BY <1>1 DEF tnum_udiv, tnum_urem
  <2> HIDE DEF u, v
  <2> QED
    BY <2>1, <2>2, <2>3, ConstCovers
<1>2. CASE ~ (tnum_is_const(s) /\ tnum_is_const(t))
  <2>1. tnum_udiv(s, t) = tnum_top /\ tnum_urem(s, t) = tnum_top
    BY <1>2 DEF tnum_udiv, tnum_urem
  <2> QED
    BY <2>1, TopCovers, DivWords, GammaWords
<1> QED
  BY <1>1, <1>2

-----------------------------------------------------------------------------
(* Joins, and the left shift.                                              *)

LEMMA TritJoin ==
  ASSUME NEW s \in Trit, NEW t \in Trit
  PROVE  /\ trit_join(s, t) \in Trit
         /\ trit_gamma(s) \subseteq trit_gamma(trit_join(s, t))
         /\ trit_gamma(t) \subseteq trit_gamma(trit_join(s, t))
         /\ trit_le(s, trit_join(s, t)) /\ trit_le(t, trit_join(s, t))
         /\ \A u \in Trit : trit_le(s, u) /\ trit_le(t, u)
                              => trit_le(trit_join(s, t), u)
  BY DEF trit_join, trit_gamma, trit_le, Trit, X

\* A join stands for what its operands stand for.
LEMMA JoinCovers ==
  ASSUME NEW s \in Tnum, NEW t \in Tnum
  PROVE  /\ tnum_join(s, t) \in Tnum
         /\ tnum_gamma(s) \subseteq tnum_gamma(tnum_join(s, t))
         /\ tnum_gamma(t) \subseteq tnum_gamma(tnum_join(s, t))
<1>1. /\ tnum_join(s, t) = [i \in 1 .. W |-> trit_join(s[i], t[i])]
      /\ \A i \in 1 .. W : s[i] \in Trit /\ t[i] \in Trit
  BY TnumLen, WAssumption DEF tnum_join, Map2, Tnum
<1>2. tnum_join(s, t) \in Tnum
  BY <1>1, TritJoin DEF Tnum, TnumOf
<1>3. /\ W \in Nat /\ s \in TnumOf(W) /\ t \in TnumOf(W)
      /\ tnum_join(s, t) \in TnumOf(W)
  BY <1>2, WAssumption DEF Tnum
<1>4. ASSUME NEW i \in 0 .. W - 1
      PROVE  /\ trit_gamma(s[i + 1]) \subseteq trit_gamma(tnum_join(s, t)[i + 1])
             /\ trit_gamma(t[i + 1]) \subseteq trit_gamma(tnum_join(s, t)[i + 1])
  <2>1. i + 1 \in 1 .. W
    BY <1>3
  <2> QED
    BY <1>1, <2>1, TritJoin
<1>5. ASSUME NEW x \in tnum_gamma(s) PROVE x \in tnum_gamma(tnum_join(s, t))
  BY <1>3, <1>4, GammaMember
<1>6. ASSUME NEW x \in tnum_gamma(t) PROVE x \in tnum_gamma(tnum_join(s, t))
  BY <1>3, <1>4, GammaMember
<1> QED
  BY <1>2, <1>5, <1>6

\* A shift by k moves every trit up by k.
LEMMA ShiftlTrits ==
  ASSUME NEW t \in Tnum, NEW k \in Nat
  PROVE  /\ shiftl(t, k) \in Tnum
         /\ \A i \in 1 .. W : shiftl(t, k)[i] = IF i <= k THEN 0 ELSE t[i - k]
<1>1. W \in Nat /\ Len(t) = W /\ t \in Seq(Trit) /\ \A i \in 1 .. W : t[i] \in Trit
  BY WAssumption, TnumLen DEF Tnum
<1> DEFINE m == IF k < W THEN k ELSE W
           lo == Repeat(0, m)
           hi == SubSeq(t, 1, W - m)
<1>2. m \in 0 .. W
  BY <1>1
<1>3. lo \in Seq(Trit) /\ Len(lo) = m /\ \A i \in 1 .. m : lo[i] = 0
  <2> HIDE DEF m
  <2> QED
    BY <1>2 DEF Repeat, Trit
<1>4. hi \in Seq(Trit) /\ Len(hi) = W - m /\ \A i \in 1 .. W - m : hi[i] = t[i]
  <2> HIDE DEF m
  <2> QED
    BY <1>1, <1>2
<1>5. shiftl(t, k) = lo \o hi
  BY <1>1 DEF shiftl
<1>6. ASSUME NEW i \in 1 .. W
      PROVE  (lo \o hi)[i] = IF i <= k THEN 0 ELSE t[i - k]
  <2>1. (lo \o hi)[i] = IF i <= m THEN lo[i] ELSE hi[i - m]
    <3> HIDE DEF lo, hi, m
    <3> QED
      BY <1>1, <1>2, <1>3, <1>4
  <2>2. CASE i <= m
    <3>1. i <= k /\ i \in 1 .. m
      BY <1>1, <2>2
    <3> HIDE DEF lo, hi, m
    <3> QED
      BY <1>3, <2>1, <2>2, <3>1
  <2>3. CASE ~ (i <= m)
    <3>1. m = k /\ ~ (i <= k) /\ i - m \in 1 .. W - m
      BY <1>1, <1>2, <2>3
    <3> HIDE DEF lo, hi, m
    <3> QED
      BY <1>4, <2>1, <2>3, <3>1
  <2> QED
    BY <2>2, <2>3
<1>7. lo \o hi \in [1 .. W -> Trit]
  <2>1. lo \o hi \in Seq(Trit) /\ Len(lo \o hi) = W
    <3> HIDE DEF lo, hi, m
    <3> QED
      BY <1>1, <1>2, <1>3, <1>4
  <2>2. \A q \in Seq(Trit) : q \in [1 .. Len(q) -> Trit]
    OBVIOUS
  <2> HIDE DEF lo, hi, m
  <2> QED
    BY <2>1, <2>2
<1> QED
  BY <1>5, <1>6, <1>7 DEF Tnum, TnumOf

\* shiftl by a known amount is sound.
LEMMA ShiftlCovers ==
  ASSUME NEW t \in Tnum, NEW x \in tnum_gamma(t), NEW k \in Nat
  PROVE  (x * 2^k) % 2^W \in tnum_gamma(shiftl(t, k))
<1>1. /\ W \in Nat /\ t \in TnumOf(W) /\ shiftl(t, k) \in TnumOf(W)
      /\ x \in Int
  BY WAssumption, ShiftlTrits, GammaWords DEF Tnum
<1>2. (x * 2^k) % 2^W \in 0 .. 2^W - 1
  <2>1. x * 2^k \in Int
    BY <1>1, PowerFacts
  <2> QED
    BY <2>1, WordFacts DEF Word
<1>3. ASSUME NEW i \in 0 .. W - 1
      PROVE  Bit((x * 2^k) % 2^W, i) \in trit_gamma(shiftl(t, k)[i + 1])
  <2>1. /\ Bit((x * 2^k) % 2^W, i) = IF i < k THEN 0 ELSE Bit(x, i - k)
        /\ shiftl(t, k)[i + 1] = IF i + 1 <= k THEN 0 ELSE t[i + 1 - k]
    BY <1>1, ShlBits, ShiftlTrits
  <2>2. CASE i < k
    BY <1>1, <2>1, <2>2 DEF trit_gamma, X
  <2>3. CASE ~ (i < k)
    <3>1. i - k \in 0 .. W - 1 /\ i + 1 - k = (i - k) + 1 /\ ~ (i + 1 <= k)
      BY <1>1, <2>3
    <3>2. Bit(x, i - k) \in trit_gamma(t[(i - k) + 1])
      BY <1>1, <3>1, GammaMember
    <3> QED
      BY <2>1, <2>3, <3>1, <3>2
  <2> QED
    BY <2>2, <2>3
<1> QED
  BY <1>1, <1>2, <1>3, GammaMember

\* The tnums that shl_aux passes from one bit of the amount to the next.
Shifts(k, s, t, m) ==
  {f \in [0 .. m -> Tnum] :
     /\ f[0] = s
     /\ \A j \in 1 .. m : f[j] = shl_step(k * 2^(j - 1), f[j - 1], t[j])}

LEMMA ShlStepType ==
  ASSUME NEW k \in Nat, NEW s \in Tnum, NEW u \in Trit
  PROVE  shl_step(k, s, u) \in Tnum
<1>1. shiftl(s, k) \in Tnum
  BY ShiftlTrits
<1>2. tnum_join(s, shiftl(s, k)) \in Tnum
  BY <1>1, JoinCovers
<1> QED
  BY <1>1, <1>2 DEF shl_step, Trit, X

\* The recursion shl_aux has a value after each trit of the amount.
LEMMA ShlUnfold ==
  ASSUME NEW k \in Nat, NEW s \in Tnum, NEW m \in Nat, NEW t \in TnumOf(m)
  PROVE  \E f \in Shifts(k, s, t, m) : shl_aux(k, s, t) = f[m]
<1>1. Len(t) = m /\ \A j \in 1 .. m : t[j] \in Trit
  BY TnumLen
<1> DEFINE G == [j \in 1 .. m |->
                   [v \in Tnum |-> shl_step(k * 2^(j - 1), v, t[j])]]
           shifted[j \in 0 .. Len(t)] ==
             IF j = 0 THEN s ELSE shl_step(k * 2^(j - 1), shifted[j - 1], t[j])
           Step(h, j) ==
             IF j = 0 THEN s ELSE shl_step(k * 2^(j - 1), h[j - 1], t[j])
<1>2. \A j \in 1 .. m : k * 2^(j - 1) \in Nat
  BY PowerFacts
<1>3. G \in [1 .. m -> [Tnum -> Tnum]]
  BY <1>1, <1>2, ShlStepType
<1>4. PICK g \in [0 .. m -> Tnum] : Recursive(g, m, s, G)
  <2> HIDE DEF G
  <2> QED
    BY <1>3, RecursionExists, Zenon
<1>5. \A j \in 0 .. m : g[j] = Step(g, j)
  <2> SUFFICES ASSUME NEW j \in 0 .. m PROVE g[j] = Step(g, j)
    OBVIOUS
  <2>1. CASE j = 0
    BY <1>4, <2>1 DEF Recursive
  <2>2. CASE j # 0
    <3>1. j \in 1 .. m /\ j - 1 \in 0 .. m /\ g[j - 1] \in Tnum
      BY <2>2
    <3>2. g[j] = G[j][g[j - 1]]
      BY <1>4, <3>1 DEF Recursive
    <3> QED
      BY <2>2, <3>1, <3>2
  <2> QED
    BY <2>1, <2>2
<1>6. g = [j \in 0 .. Len(t) |-> Step(g, j)]
  <2> HIDE DEF Step
  <2> QED
    BY <1>1, <1>5
<1>7. shifted = [j \in 0 .. m |-> Step(shifted, j)]
  <2>1. shifted = [j \in 0 .. Len(t) |-> Step(shifted, j)]
    BY <1>6
  <2> HIDE DEF shifted, Step
  <2> QED
    BY <1>1, <2>1
<1> HIDE DEF shifted, G
<1>8. \A j \in 0 .. m : shifted[j] \in Tnum
  <2> DEFINE S == {j \in Nat : j <= m => shifted[j] \in Tnum}
  <2>1. 0 \in S
    BY <1>7
  <2>2. ASSUME NEW j \in Nat, j \in S PROVE j + 1 \in S
    <3>1. SUFFICES ASSUME j + 1 <= m PROVE shifted[j + 1] \in Tnum
      OBVIOUS
    <3>2. shifted[j + 1] = shl_step(k * 2^j, shifted[j], t[j + 1])
      BY <1>7, <3>1
    <3>3. shifted[j] \in Tnum /\ t[j + 1] \in Trit /\ k * 2^j \in Nat
      BY <1>1, <2>2, <3>1, PowerFacts
    <3> QED
      BY <3>2, <3>3, ShlStepType
  <2> HIDE DEF S
  <2>3. \A j \in Nat : j \in S
    BY <2>1, <2>2, SetInduction
  <2> QED
    BY <2>3 DEF S
<1>9. shifted \in Shifts(k, s, t, m)
  <2>1. shifted \in [0 .. m -> Tnum]
    <3> HIDE DEF Step
    <3> QED
      BY <1>7, <1>8
  <2>2. /\ shifted[0] = s
        /\ \A j \in 1 .. m :
             shifted[j] = shl_step(k * 2^(j - 1), shifted[j - 1], t[j])
    BY <1>7
  <2> QED
    BY <2>1, <2>2 DEF Shifts
<1>10. shl_aux(k, s, t) = shifted[m]
  BY <1>1 DEF shl_aux, shifted
<1> QED
  BY <1>9, <1>10

\* One trit of the amount: shifted, not shifted, or the join of both.
LEMMA ShlStepCovers ==
  ASSUME NEW k \in Nat, NEW s \in Tnum, NEW u \in Trit,
         NEW x \in tnum_gamma(s), NEW c \in trit_gamma(u)
  PROVE  (x * 2^(k * c)) % 2^W \in tnum_gamma(shl_step(k, s, u))
<1>1. /\ (x * 2^k) % 2^W \in tnum_gamma(shiftl(s, k))
      /\ shiftl(s, k) \in Tnum
  BY ShiftlCovers, ShiftlTrits
<1>2. (x * 2^0) % 2^W = x
  <2>1. x \in Word /\ x \in Int
    BY GammaWords
  <2> QED
    BY <2>1, WordFacts
<1>3. c \in {0, 1} /\ k * 0 = 0 /\ k * 1 = k
  BY TritBits
<1>4. CASE u = 0
  <2>1. c = 0
    BY <1>4 DEF trit_gamma, X
  <2>2. shl_step(k, s, u) = s
    BY <1>4 DEF shl_step, X
  <2>3. (x * 2^(k * c)) % 2^W = x
    BY <1>2, <1>3, <2>1
  <2> QED
    BY <2>2, <2>3
<1>5. CASE u = 1
  BY <1>1, <1>3, <1>5 DEF shl_step, trit_gamma, X
<1>6. CASE u = X
  <2>1. shl_step(k, s, u) = tnum_join(s, shiftl(s, k))
    BY <1>6 DEF shl_step, X
  <2> QED
    BY <1>1, <1>2, <1>3, <2>1, JoinCovers
<1> QED
  BY <1>4, <1>5, <1>6 DEF Trit

\* The amount after j bits is k times the low j bits of y.
LEMMA ShlPrefix ==
  ASSUME NEW k \in Nat, NEW s \in Tnum, NEW m \in Nat, NEW t \in TnumOf(m),
         NEW f \in Shifts(k, s, t, m),
         NEW x \in tnum_gamma(s), NEW y \in tnum_gamma(t), NEW n \in 0 .. m
  PROVE  (x * 2^(k * (y % 2^n))) % 2^W \in tnum_gamma(f[n])
<1> DEFINE N == 2^W
           S == {j \in Nat : j <= m => (x * 2^(k * (y % 2^j))) % N \in tnum_gamma(f[j])}
<1>1. /\ x \in Word /\ x \in Int /\ y \in Int /\ N \in Nat \ {0}
      /\ \A j \in 0 .. m - 1 : Bit(y, j) \in trit_gamma(t[j + 1])
  BY GammaWords, GammaMember, WordFacts, PowerFacts
<1>2. 0 \in S
  <2>1. y % 2^0 = 0
    <3>1. \A v \in Int : v % 1 = 0
      OBVIOUS
    <3> QED
      BY <1>1, <3>1, PowerZero
  <2>2. k * 0 = 0 /\ x * 1 = x
    BY <1>1
  <2>3. (x * 2^(k * (y % 2^0))) % N = x
    BY <1>1, <2>1, <2>2, PowerZero, WordFacts
  <2>4. f[0] = s
    BY DEF Shifts
  <2> QED
    BY <2>3, <2>4
<1>3. ASSUME NEW j \in Nat, j \in S PROVE j + 1 \in S
  <2>1. SUFFICES ASSUME j + 1 <= m
                 PROVE  (x * 2^(k * (y % 2^(j + 1)))) % N \in tnum_gamma(f[j + 1])
    OBVIOUS
  <2> DEFINE c == Bit(y, j)
             A == k * (y % 2^j)
             d == k * 2^j
             p == (x * 2^A) % N
  <2>2. p \in tnum_gamma(f[j])
    BY <1>3, <2>1
  <2>3. f[j] \in Tnum /\ f[j + 1] = shl_step(d, f[j], t[j + 1])
    <3>1. j + 1 \in 1 .. m /\ (j + 1) - 1 = j /\ j \in 0 .. m
      BY <2>1
    <3> QED
      BY <3>1 DEF Shifts
  <2>4. c \in trit_gamma(t[j + 1]) /\ t[j + 1] \in Trit /\ d \in Nat
    <3>1. j \in 0 .. m - 1 /\ j + 1 \in 1 .. m
      BY <2>1
    <3> QED
      BY <1>1, <3>1, TnumLen, PowerFacts
  <2>5. (p * 2^(d * c)) % N \in tnum_gamma(f[j + 1])
    <3> HIDE DEF p, c, d
    <3> QED
      BY <2>2, <2>3, <2>4, ShlStepCovers
  <2>6. c \in {0, 1} /\ y % 2^j \in Nat /\ 2^j \in Nat
    <3>1. 2^j \in Nat \ {0}
      BY PowerFacts
    <3> DEFINE e == 2^j
    <3>2. y % e \in 0 .. e - 1
      <4> HIDE DEF e
      <4> QED
        BY <1>1, <3>1, DivMod DEF e
    <3> QED
      BY <1>1, <3>1, <3>2, BitType
  <2>7. k * (y % 2^(j + 1)) = A + d * c /\ A \in Nat /\ d * c \in Nat
    <3>1. y % 2^(j + 1) = (y % 2^j) + 2^j * c
      BY <1>1, BitStep
    <3> DEFINE l == y % 2^j
               e == 2^j
    <3>2. k * (l + e * c) = k * l + k * e * c /\ k * l \in Nat /\ k * e * c \in Nat
      <4> HIDE DEF l, e, c
      <4> QED
        BY <2>6 DEF l, e
    <3> QED
      BY <3>1, <3>2
  <2>8. 2^(A + d * c) = 2^A * 2^(d * c) /\ 2^A \in Nat /\ 2^(d * c) \in Nat
    <3> HIDE DEF A, c, d
    <3> QED
      BY <2>7, PowerSum, PowerFacts
  <2>9. (p * 2^(d * c)) % N = (x * 2^(A + d * c)) % N
    <3> DEFINE u == 2^A
               v == 2^(d * c)
    <3>1. u \in Nat /\ v \in Nat /\ x * u \in Int
      BY <1>1, <2>8
    <3>2. (((x * u) % N) * v) % N = ((x * u) * v) % N
      <4>1. \A i1 \in Int, i2 \in Int : ((i1 % N) * i2) % N = (i1 * i2) % N
        BY <1>1, ModFactor
      <4> HIDE DEF N, u, v
      <4> QED
        BY <3>1, <4>1
    <3>3. (x * u) * v = x * (u * v)
      <4> HIDE DEF u, v
      <4> QED
        BY <1>1, <3>1
    <3> QED
      BY <2>8, <3>2, <3>3
  <2> QED
    BY <2>5, <2>7, <2>9
<1>4. n \in S
  <2> HIDE DEF S
  <2> QED
    BY <1>2, <1>3, SetInduction
<1> QED
  BY <1>4

\* What shl_correct needs of every call: k times the amount, as a number.
LEMMA ShlAuxCorrect ==
  ASSUME NEW k \in Nat, NEW s \in Tnum, NEW m \in Nat, NEW t \in TnumOf(m)
  PROVE  /\ shl_aux(k, s, t) \in Tnum
         /\ \A x \in tnum_gamma(s), y \in tnum_gamma(t) :
              (x * 2^(y * k)) % 2^W \in tnum_gamma(shl_aux(k, s, t))
<1>1. PICK f \in Shifts(k, s, t, m) : shl_aux(k, s, t) = f[m]
  BY ShlUnfold
<1>2. f[m] \in Tnum
  BY DEF Shifts
<1>3. ASSUME NEW x \in tnum_gamma(s), NEW y \in tnum_gamma(t)
      PROVE  (x * 2^(y * k)) % 2^W \in tnum_gamma(f[m])
  <2>1. y \in 0 .. 2^m - 1 /\ 2^m \in Nat \ {0}
    BY GammaMember, PowerFacts
  <2>2. y % 2^m = y /\ k * y = y * k
    BY <2>1, LowSelf
  <2>3. (x * 2^(k * (y % 2^m))) % 2^W \in tnum_gamma(f[m])
    BY ShlPrefix
  <2> QED
    BY <2>2, <2>3
<1> QED
  BY <1>1, <1>2, <1>3

\* tnum_shl is sound, the fact that tnum.lean:468 derives from a false axiom.
LEMMA ShlCovers ==
  ASSUME NEW s \in Tnum, NEW t \in Tnum
  PROVE  /\ tnum_shl(s, t) \in Tnum
         /\ \A x \in tnum_gamma(s), y \in tnum_gamma(t) :
              shl(x, y) \in tnum_gamma(tnum_shl(s, t))
<1>1. W \in Nat /\ t \in TnumOf(W) /\ 1 \in Nat
  BY WAssumption DEF Tnum
<1>2. \A y \in tnum_gamma(t) : y * 1 = y
  BY GammaWords
<1> QED
  BY <1>1, <1>2, ShlAuxCorrect DEF tnum_shl, shl

-----------------------------------------------------------------------------
(* Multiplication.                                                         *)

\* A word with a bit put below its own.
LEMMA ConsBits ==
  ASSUME NEW z \in Nat, NEW c \in {0, 1}, NEW i \in Nat
  PROVE  Bit(c + 2 * z, 0) = c /\ Bit(c + 2 * z, i + 1) = Bit(z, i)
<1> DEFINE d == 2^i
           e == 2^(i + 1)
           q == z \div d
           r == z % d
<1>1. d \in Nat \ {0} /\ e = 2 * d
  BY PowerFacts
<1>2. q \in Int /\ r \in 0 .. d - 1 /\ z = d * q + r
  <2> HIDE DEF d
  <2> QED
    BY <1>1, DivMod
<1>3. (c + 2 * z) \div e = q
  <2> HIDE DEF d, e, q, r
  <2>1. c + 2 * z = e * q + (2 * r + c)
    BY <1>1, <1>2
  <2>2. 2 * r + c \in 0 .. e - 1 /\ e \in Nat \ {0}
    BY <1>1, <1>2
  <2>3. (e * q + (2 * r + c)) \div e = q
    BY <1>2, <2>2, DivModUnique
  <2> QED
    BY <2>1, <2>3
<1>4. Bit(c + 2 * z, i + 1) = Bit(z, i)
  BY <1>3 DEF Bit
<1>5. Bit(c + 2 * z, 0) = c
  <2>1. (c + 2 * z) \div 1 = c + 2 * z /\ (c + 2 * z) % 2 = c
    BY <1>2
  <2> QED
    BY <2>1, PowerZero DEF Bit
<1> QED
  BY <1>4, <1>5

\* A trit put in front of a tnum,
LEMMA ConsTrits ==
  ASSUME NEW n \in Nat, NEW u \in Trit, NEW t \in TnumOf(n)
  PROVE  LET r == <<u>> \o t
         IN  /\ r \in [1 .. n + 1 -> Trit] /\ r[1] = u
             /\ \A i \in 1 .. n : r[i + 1] = t[i]
<1> DEFINE r == <<u>> \o t
<1>1. /\ Len(t) = n /\ t \in Seq(Trit)
      /\ \A i \in 1 .. n : t[i] \in Trit
  BY TnumLen
<1>2. /\ r \in [1 .. n + 1 -> Trit] /\ r[1] = u
      /\ \A i \in 1 .. n : r[i + 1] = t[i]
  <2>1. <<u>> \in Seq(Trit) /\ Len(<<u>>) = 1
    OBVIOUS
  <2>2. r \in Seq(Trit) /\ Len(r) = n + 1
    BY <1>1, <2>1
  <2>3. r[1] = u
    BY <1>1, <2>1
  <2>4. \A i \in 1 .. n : r[i + 1] = t[i]
    BY <1>1, <2>1
  <2>5. r \in [1 .. Len(r) -> Trit]
    <3> HIDE DEF r
    <3> QED
      BY <2>2
  <2> QED
    BY <2>2, <2>3, <2>4, <2>5
<1> QED
  BY <1>2

\* doubles the words and adds a bit.
LEMMA ConsCovers ==
  ASSUME NEW n \in Nat, NEW u \in Trit, NEW t \in TnumOf(n)
  PROVE  /\ <<u>> \o t \in TnumOf(n + 1)
         /\ \A c \in trit_gamma(u), z \in tnum_gamma(t) :
              c + 2 * z \in tnum_gamma(<<u>> \o t)
<1> DEFINE r == <<u>> \o t
<1>2. /\ r \in [1 .. n + 1 -> Trit] /\ r[1] = u
      /\ \A i \in 1 .. n : r[i + 1] = t[i]
  BY ConsTrits
<1>3. r \in TnumOf(n + 1)
  BY <1>2 DEF TnumOf
<1>4. ASSUME NEW c \in trit_gamma(u), NEW z \in tnum_gamma(t)
      PROVE  c + 2 * z \in tnum_gamma(r)
  <2> HIDE DEF r
  <2>1. c \in {0, 1}
    BY TritBits
  <2>2. /\ z \in 0 .. 2^n - 1 /\ 2^n \in Nat \ {0}
        /\ \A i \in 0 .. n - 1 : Bit(z, i) \in trit_gamma(t[i + 1])
    BY GammaMember, PowerFacts
  <2>3. c + 2 * z \in 0 .. 2^(n + 1) - 1
    <3> DEFINE d == 2^n
               e == 2^(n + 1)
    <3>1. e = 2 * d /\ d \in Nat /\ z \in 0 .. d - 1
      BY <2>2, PowerFacts
    <3> HIDE DEF d, e
    <3>2. c + 2 * z \in 0 .. e - 1
      BY <2>1, <3>1
    <3> QED
      BY <3>2 DEF e
  <2>4. ASSUME NEW i \in 0 .. (n + 1) - 1
        PROVE  Bit(c + 2 * z, i) \in trit_gamma(r[i + 1])
    <3>1. CASE i = 0
      <4>1. z \in Nat /\ 0 \in Nat
        BY <2>2
      <4>2. Bit(c + 2 * z, 0) = c
        BY <2>1, <4>1, ConsBits
      <4> QED
        BY <1>2, <3>1, <4>2
    <3>2. CASE i # 0
      <4>1. i - 1 \in 0 .. n - 1 /\ i - 1 \in Nat /\ (i - 1) + 1 = i /\ z \in Nat
        BY <2>2, <3>2
      <4>2. Bit(c + 2 * z, (i - 1) + 1) = Bit(z, i - 1)
        BY <2>1, <4>1, ConsBits
      <4>3. i \in 1 .. n /\ r[i + 1] = t[(i - 1) + 1]
        BY <1>2, <4>1
      <4> QED
        BY <2>2, <4>1, <4>2, <4>3
    <3> QED
      BY <3>1, <3>2
  <2> QED
    BY <1>3, <2>3, <2>4, GammaMember
<1> QED
  BY <1>3, <1>4

\* A tnum without its first trit
LEMMA TailTrits ==
  ASSUME NEW n \in Nat, NEW t \in TnumOf(n + 1)
  PROVE  /\ Tail(t) \in TnumOf(n) /\ t[1] \in Trit
         /\ \A i \in 1 .. n : Tail(t)[i] = t[i + 1]
<1>1. /\ Len(t) = n + 1 /\ t \in Seq(Trit)
      /\ \A i \in 1 .. n + 1 : t[i] \in Trit
  BY TnumLen
<1>2. /\ Tail(t) \in TnumOf(n)
      /\ \A i \in 1 .. n : Tail(t)[i] = t[i + 1]
  <2>1. /\ Tail(t) \in Seq(Trit) /\ Len(Tail(t)) = n
        /\ \A i \in 1 .. n : Tail(t)[i] = t[i + 1]
    BY <1>1
  <2>2. \A q \in Seq(Trit) : q \in [1 .. Len(q) -> Trit]
    OBVIOUS
  <2> QED
    BY <2>1, <2>2 DEF TnumOf
<1> QED
  BY <1>1, <1>2

\* stands for the halves.
LEMMA TailCovers ==
  ASSUME NEW n \in Nat, NEW t \in TnumOf(n + 1)
  PROVE  /\ Tail(t) \in TnumOf(n) /\ t[1] \in Trit
         /\ \A x \in tnum_gamma(t) :
              /\ x \in Nat /\ x % 2 \in trit_gamma(t[1])
              /\ x \div 2 \in tnum_gamma(Tail(t))
<1>2. /\ Tail(t) \in TnumOf(n) /\ t[1] \in Trit
      /\ \A i \in 1 .. n : Tail(t)[i] = t[i + 1]
  BY TailTrits
<1>3. ASSUME NEW x \in tnum_gamma(t)
      PROVE  /\ x \in Nat /\ x % 2 \in trit_gamma(t[1])
             /\ x \div 2 \in tnum_gamma(Tail(t))
  <2> DEFINE z == x \div 2
             c == x % 2
  <2>1. /\ x \in 0 .. 2^(n + 1) - 1
        /\ \A i \in 0 .. (n + 1) - 1 : Bit(x, i) \in trit_gamma(t[i + 1])
    BY GammaMember
  <2>2. x \in Nat /\ x <= 2 * 2^n - 1 /\ 2^n \in Nat
    BY <2>1, PowerFacts
  <2>3. x = c + 2 * z /\ c \in {0, 1} /\ z \in 0 .. 2^n - 1 /\ z \in Nat
    BY <2>2
  <2> HIDE DEF z, c
  <2>4. c \in trit_gamma(t[1])
    <3>1. Bit(x, 0) = c
      BY <2>3, ConsBits
    <3>2. 0 \in 0 .. (n + 1) - 1 /\ 0 + 1 = 1
      OBVIOUS
    <3> QED
      BY <2>1, <3>1, <3>2
  <2>5. ASSUME NEW i \in 0 .. n - 1
        PROVE  Bit(z, i) \in trit_gamma(Tail(t)[i + 1])
    <3>1. Bit(x, i + 1) = Bit(z, i)
      <4>1. i \in Nat
        OBVIOUS
      <4> QED
        BY <2>3, <4>1, ConsBits
    <3>2. i + 1 \in 0 .. (n + 1) - 1 /\ i + 1 \in 1 .. n
      OBVIOUS
    <3>3. Bit(x, i + 1) \in trit_gamma(t[(i + 1) + 1])
      BY <2>1, <3>2
    <3> QED
      BY <1>2, <3>1, <3>2, <3>3
  <2>6. z \in tnum_gamma(Tail(t))
    BY <1>2, <2>3, <2>5, GammaMember
  <2> QED
    BY <2>2, <2>4, <2>6 DEF z, c
<1> QED
  BY <1>2, <1>3

\* One row of the product: each trit of s times one trit.
LEMMA RowTrits ==
  ASSUME NEW s \in Tnum, NEW n \in 0 .. W, NEW u \in Trit
  PROVE  tnum_and(SubSeq(s, 1, n), Repeat(u, n))
           = [i \in 1 .. n |-> trit_and(s[i], u)]
<1> DEFINE low == SubSeq(s, 1, n)
           p == tnum_and(low, Repeat(u, n))
<1>1. /\ Len(s) = W /\ s \in Seq(Trit) /\ n \in Nat
      /\ \A i \in 1 .. W : s[i] \in Trit
  <2>1. W \in Nat /\ s \in TnumOf(W) /\ n \in Nat
    BY WAssumption DEF Tnum
  <2> QED
    BY <2>1, TnumLen
<1>2. Len(low) = n /\ \A i \in 1 .. n : low[i] = s[i]
  BY <1>1
<1>3. p = [i \in 1 .. n |-> trit_and(s[i], u)]
  <2>1. p = [i \in 1 .. Len(low) |-> trit_and(low[i], Repeat(u, n)[i])]
    BY DEF tnum_and, Map2
  <2>2. \A i \in 1 .. n : Repeat(u, n)[i] = u
    BY DEF Repeat
  <2> HIDE DEF low, p
  <2> QED
    BY <1>2, <2>1, <2>2
<1> QED
  BY <1>3

\* It covers the words of s times one bit.
LEMMA RowCovers ==
  ASSUME NEW s \in Tnum, NEW n \in 0 .. W, NEW u \in Trit
  PROVE  LET p == tnum_and(SubSeq(s, 1, n), Repeat(u, n))
         IN  /\ p \in TnumOf(n)
             /\ \A x \in tnum_gamma(s), c \in trit_gamma(u) :
                  (x * c) % 2^n \in tnum_gamma(p)
<1> DEFINE p == tnum_and(SubSeq(s, 1, n), Repeat(u, n))
<1>1. n \in Nat /\ \A i \in 1 .. W : s[i] \in Trit
  <2>1. W \in Nat /\ s \in TnumOf(W) /\ n \in Nat
    BY WAssumption DEF Tnum
  <2> QED
    BY <2>1, TnumLen
<1>3. p = [i \in 1 .. n |-> trit_and(s[i], u)]
  BY RowTrits
<1> HIDE DEF p
<1>4. ASSUME NEW v \in Trit
      PROVE  /\ trit_and(v, u) \in Trit
             /\ \A i \in trit_gamma(v), j \in trit_gamma(u) :
                  i * j \in trit_gamma(trit_and(v, u))
  BY DEF trit_and, trit_gamma, Trit, X
<1>5. p \in TnumOf(n)
  <2>1. \A i \in 1 .. n : i \in 1 .. W
    BY WAssumption
  <2> QED
    BY <1>1, <1>3, <1>4, <2>1 DEF TnumOf
<1>6. ASSUME NEW x \in tnum_gamma(s), NEW c \in trit_gamma(u)
      PROVE  (x * c) % 2^n \in tnum_gamma(p)
  <2>1. /\ x \in Int /\ c \in {0, 1}
        /\ \A i \in 0 .. W - 1 : Bit(x, i) \in trit_gamma(s[i + 1])
    <3>1. x \in Int /\ c \in {0, 1} /\ W \in Nat /\ s \in TnumOf(W)
      BY GammaWords, TritBits, WAssumption DEF Tnum
    <3>2. \A i \in 0 .. W - 1 : Bit(x, i) \in trit_gamma(s[i + 1])
      BY <3>1, GammaMember
    <3> QED
      BY <3>1, <3>2
  <2>2. x * c \in Int /\ x * 0 = 0 /\ x * 1 = x
    BY <2>1
  <2>3. (x * c) % 2^n \in 0 .. 2^n - 1
    BY <1>1, <2>2, PowerFacts, DivMod
  <2>4. ASSUME NEW i \in 0 .. n - 1
        PROVE  Bit((x * c) % 2^n, i) \in trit_gamma(p[i + 1])
    <3>1. /\ i + 1 \in 1 .. n /\ i + 1 \in 1 .. W /\ i \in 0 .. W - 1
          /\ i \in Nat
      BY WAssumption
    <3>2. Bit((x * c) % 2^n, i) = Bit(x * c, i)
      BY <1>1, <2>2, BitOfLow
    <3>3. Bit(x * c, i) = Bit(x, i) * c
      <4>1. Bit(0, i) = 0
        <5>1. 2^i \in Nat \ {0}
          BY <3>1, PowerFacts
        <5>2. 0 \div 2^i = 0
          <6>1. \A d \in Nat \ {0} : 0 \div d \in 0 .. 0
            BY DivMod
          <6> QED
            BY <5>1, <6>1
        <5> QED
          <6>1. 0 % 2 = 0
            OBVIOUS
          <6> QED
            BY <5>2, <6>1 DEF Bit
      <4>2. Bit(x, i) \in {0, 1}
        BY <2>1, <3>1, BitType
      <4> QED
        BY <2>1, <2>2, <4>1, <4>2
    <3>4. p[i + 1] = trit_and(s[i + 1], u) /\ s[i + 1] \in Trit
      BY <1>1, <1>3, <3>1
    <3>5. Bit(x, i) \in trit_gamma(s[i + 1])
      BY <2>1, <3>1
    <3> QED
      BY <1>4, <3>2, <3>3, <3>4, <3>5
  <2> QED
    BY <1>1, <1>5, <2>3, <2>4, GammaMember
<1> QED
  BY <1>5, <1>6 DEF p

\* One call of the recursion of tnum_mul on the first n trits of s.
MulStep(s, t, n, v) ==
  LET p == tnum_and(SubSeq(s, 1, n), Repeat(t[W - n + 1], n))
  IN  <<p[1]>> \o tnum_add(Tail(p), v)

\* The arithmetic of one call, by m = 2^(n-1): the row is xc modulo 2m, the
\* result below it xq modulo m.
LEMMA MulArithmetic ==
  ASSUME NEW m \in Nat \ {0}, NEW x \in Int, NEW q \in Int, NEW c \in {0, 1}
  PROVE  LET r == (x * c) % (2 * m)
             z == (x * q) % m
         IN  (r % 2) + 2 * ((r \div 2 + z + 0) % m)
               = (x * (2 * q + c)) % (2 * m)
<1> DEFINE xc == x * c
           xq == x * q
           r == xc % (2 * m)
           z == xq % m
           h == r \div 2
           l == r % 2
           i == xc \div (2 * m)
           j == xq \div m
           w == (h + z + 0) % m
           k == (h + z + 0) \div m
<1>1. xc \in Int /\ xq \in Int /\ 2 * m \in Nat \ {0}
  OBVIOUS
<1>2. x * (2 * q + c) = 2 * xq + xc
  OBVIOUS
<1>3. r \in 0 .. 2 * m - 1 /\ i \in Int /\ xc = (2 * m) * i + r
  <2> HIDE DEF xc
  <2>1. \A d \in Nat \ {0} : xc \div d \in Int /\ (xc % d) \in 0 .. d - 1
                               /\ xc = d * (xc \div d) + (xc % d)
    BY <1>1, DivMod
  <2> QED
    BY <1>1, <2>1
<1>4. z \in 0 .. m - 1 /\ j \in Int /\ xq = m * j + z
  <2> HIDE DEF xq
  <2> QED
    BY <1>1, DivMod
<1>5. r = 2 * h + l /\ l \in {0, 1} /\ h \in Int
  <2> HIDE DEF r
  <2> QED
    BY <1>3
<1>6. w \in 0 .. m - 1 /\ k \in Int /\ h + z + 0 = m * k + w
  <2> HIDE DEF h, z
  <2>1. h + z + 0 \in Int
    BY <1>4, <1>5
  <2> QED
    BY <2>1, DivMod
<1>7. 2 * xq + xc = (2 * m) * (k + i + j) + (l + 2 * w)
  <2> DEFINE mi == m * i
             mj == m * j
             mk == m * k
  <2>1. xc = 2 * mi + r /\ mi \in Int
    <3> HIDE DEF xc, r, i
    <3> QED
      BY <1>3
  <2>2. xq = mj + z /\ mj \in Int /\ h + z = mk + w /\ mk \in Int
    <3> HIDE DEF xq, z, h, w, j, k
    <3> QED
      BY <1>4, <1>5, <1>6
  <2>3. (2 * m) * (k + i + j) = 2 * mk + 2 * mi + 2 * mj
    <3> HIDE DEF i, j, k
    <3> QED
      BY <1>3, <1>4, <1>6
  <2> HIDE DEF xc, xq, r, z, h, l, i, j, k, w, mi, mj, mk
  <2>4. 2 * xq + xc = 2 * mk + 2 * mi + 2 * mj + (l + 2 * w)
    BY <1>3, <1>4, <1>5, <1>6, <2>1, <2>2
  <2> QED
    BY <2>3, <2>4
<1>8. (2 * xq + xc) % (2 * m) = l + 2 * w
  <2> HIDE DEF xc, xq, l, w, i, j, k
  <2>1. l + 2 * w \in 0 .. 2 * m - 1 /\ k + i + j \in Int
    BY <1>3, <1>4, <1>5, <1>6
  <2>2. \A q1 \in Int, r1 \in 0 .. 2 * m - 1 :
          ((2 * m) * q1 + r1) % (2 * m) = r1
    BY <1>1, DivModUnique
  <2> HIDE <1>7
  <2>3. ((2 * m) * (k + i + j) + (l + 2 * w)) % (2 * m) = l + 2 * w
    BY <2>1, <2>2
  <2> QED
    BY <1>7, <2>3
<1> QED
  BY <1>2, <1>8

\* One round of the multiplication: the partial product is shifted, and a
\* multiple of the other operand is added.
LEMMA MulStepCovers ==
  ASSUME NEW s \in Tnum, NEW t \in Tnum, NEW n \in 1 .. W,
         NEW v \in TnumOf(n - 1)
  PROVE  /\ MulStep(s, t, n, v) \in TnumOf(n)
         /\ \A x \in tnum_gamma(s), y \in tnum_gamma(t) :
              (x * (y \div 2^(W - n + 1))) % 2^(n - 1) \in tnum_gamma(v)
                => (x * (y \div 2^(W - n))) % 2^n
                     \in tnum_gamma(MulStep(s, t, n, v))
<1> DEFINE u == t[W - n + 1]
           p == tnum_and(SubSeq(s, 1, n), Repeat(u, n))
           sum == tnum_add(Tail(p), v)
<1>1. /\ W \in Nat /\ t \in TnumOf(W) /\ n \in Nat /\ n - 1 \in Nat
      /\ n \in 0 .. W /\ (n - 1) + 1 = n
  BY WAssumption DEF Tnum
<1>2. u \in Trit
  <2>1. W - n + 1 \in 1 .. W
    BY <1>1
  <2> QED
    BY <1>1, <2>1, TnumLen
<1>3. /\ p \in TnumOf(n)
      /\ \A x \in tnum_gamma(s), c \in trit_gamma(u) :
           (x * c) % 2^n \in tnum_gamma(p)
  <2> HIDE DEF u
  <2> QED
    BY <1>1, <1>2, RowCovers
<1> HIDE DEF p
<1>4. /\ Tail(p) \in TnumOf(n - 1) /\ p[1] \in Trit
      /\ \A z \in tnum_gamma(p) :
           z % 2 \in trit_gamma(p[1]) /\ z \div 2 \in tnum_gamma(Tail(p))
  BY <1>1, <1>3, TailCovers
<1>5. 0 \in Trit /\ 0 \in trit_gamma(0)
  BY DEF Trit, trit_gamma, X
<1>6. sum \in TnumOf(n - 1)
  BY <1>1, <1>4, <1>5, AdcType DEF tnum_add
<1>7. MulStep(s, t, n, v) = <<p[1]>> \o sum
  BY DEF MulStep, p
<1>8. /\ MulStep(s, t, n, v) \in TnumOf(n)
      /\ \A c \in trit_gamma(p[1]), z \in tnum_gamma(sum) :
           c + 2 * z \in tnum_gamma(MulStep(s, t, n, v))
  <2> HIDE DEF sum
  <2> QED
    BY <1>1, <1>4, <1>6, <1>7, ConsCovers
<1>9. ASSUME NEW x \in tnum_gamma(s), NEW y \in tnum_gamma(t),
             (x * (y \div 2^(W - n + 1))) % 2^(n - 1) \in tnum_gamma(v)
      PROVE  (x * (y \div 2^(W - n))) % 2^n \in tnum_gamma(MulStep(s, t, n, v))
  <2> DEFINE m == 2^(n - 1)
             c == Bit(y, W - n)
             q == y \div 2^(W - n + 1)
             r == (x * c) % (2 * m)
             z == (x * q) % m
  <2>1. m \in Nat \ {0} /\ 2^n = 2 * m
    BY <1>1, PowerFacts
  <2>2. /\ x \in Int /\ y \in Int /\ W - n \in Nat /\ (W - n) + 1 = W - n + 1
        /\ W - n \in 0 .. W - 1
    BY <1>1, GammaWords
  <2>3. c \in {0, 1} /\ y \div 2^(W - n) = 2 * q + c /\ q \in Int
    <3>1. 2^((W - n) + 1) \in Nat \ {0}
      BY <2>2, PowerFacts
    <3>2. q \in Int
      BY <2>2, <3>1, DivMod
    <3>3. /\ Bit(y, W - n) \in {0, 1}
          /\ y \div 2^(W - n) = 2 * (y \div 2^((W - n) + 1)) + Bit(y, W - n)
      BY <2>2, BitStep
    <3> QED
      BY <2>2, <3>2, <3>3
  <2>4. c \in trit_gamma(u)
    <3>1. \A i \in 0 .. W - 1 : Bit(y, i) \in trit_gamma(t[i + 1])
      BY <1>1, GammaMember
    <3> QED
      BY <2>2, <3>1
  <2>5. r \in tnum_gamma(p)
    <3> HIDE DEF c, m
    <3> QED
      BY <1>3, <2>1, <2>4
  <2>6. r % 2 \in trit_gamma(p[1]) /\ r \div 2 \in tnum_gamma(Tail(p))
    <3> HIDE DEF r
    <3> QED
      BY <1>4, <2>5
  <2>7. (r \div 2 + z + 0) % m \in tnum_gamma(sum)
    <3>1. z \in tnum_gamma(v)
      BY <1>9
    <3> DEFINE h == r \div 2
    <3> HIDE DEF z, h
    <3> QED
      BY <1>1, <1>4, <1>5, <2>6, <3>1, AdcCovers DEF tnum_add, h
  <2>8. (r % 2) + 2 * ((r \div 2 + z + 0) % m)
          \in tnum_gamma(MulStep(s, t, n, v))
    <3> DEFINE l == r % 2
               w == (r \div 2 + z + 0) % m
    <3> HIDE DEF l, w, sum
    <3> QED
      BY <1>8, <2>6, <2>7 DEF l, w
  <2>9. (r % 2) + 2 * ((r \div 2 + z + 0) % m) = (x * (2 * q + c)) % (2 * m)
    <3> HIDE DEF q, c, m
    <3> QED
      BY <2>1, <2>2, <2>3, MulArithmetic
  <2> QED
    BY <2>1, <2>3, <2>8, <2>9
<1> QED
  BY <1>8, <1>9

\* The results of the recursion of tnum_mul, indexed by their number of trits.
Products(s, t) ==
  {f \in [0 .. W -> Seq(Trit)] :
     /\ f[0] = << >>
     /\ \A n \in 1 .. W : f[n] = MulStep(s, t, n, f[n - 1])}

\* The recursion of tnum_mul has a value after each round.
LEMMA MulUnfold ==
  ASSUME NEW s \in Tnum, NEW t \in Tnum
  PROVE  \E f \in Products(s, t) :
           tnum_mul(s, t) = f[W] /\ \A n \in 0 .. W : f[n] \in TnumOf(n)
<1> DEFINE G == [n \in 1 .. W |-> [v \in Seq(Trit) |->
                   IF v \in TnumOf(n - 1) THEN MulStep(s, t, n, v) ELSE << >>]]
           product[n \in 0 .. W] ==
             IF n = 0 THEN << >>
             ELSE LET p == tnum_and(SubSeq(s, 1, n), Repeat(t[W - n + 1], n))
                  IN  <<p[1]>> \o tnum_add(Tail(p), product[n - 1])
           Step(h, n) == IF n = 0 THEN << >> ELSE MulStep(s, t, n, h[n - 1])
<1>1. \A n \in Nat : TnumOf(n) \subseteq Seq(Trit)
  BY TnumLen
<1>2. \A n \in 1 .. W : \A v \in TnumOf(n - 1) :
        MulStep(s, t, n, v) \in TnumOf(n)
  BY MulStepCovers
<1>3. << >> \in Seq(Trit) /\ W \in Nat
  BY WAssumption
<1>4. G \in [1 .. W -> [Seq(Trit) -> Seq(Trit)]]
  <2>1. \A n \in 1 .. W : n \in Nat
    BY <1>3
  <2> QED
    BY <1>1, <1>2, <1>3, <2>1
<1>5. PICK g \in [0 .. W -> Seq(Trit)] : Recursive(g, W, << >>, G)
  <2> HIDE DEF G
  <2> QED
    BY <1>3, <1>4, RecursionExists, Zenon
<1>6. \A n \in 0 .. W : g[n] \in TnumOf(n)
  <2> DEFINE S == {n \in Nat : n <= W => g[n] \in TnumOf(n)}
  <2>1. 0 \in S
    <3>1. << >> \in TnumOf(0)
      <4>1. \A q \in Seq(Trit) : q \in [1 .. Len(q) -> Trit]
        OBVIOUS
      <4>2. Len(<< >>) = 0
        OBVIOUS
      <4> QED
        BY <1>3, <4>1, <4>2 DEF TnumOf
    <3>2. g[0] = << >>
      BY <1>5 DEF Recursive
    <3> QED
      BY <3>1, <3>2
  <2>2. ASSUME NEW n \in Nat, n \in S PROVE n + 1 \in S
    <3>1. SUFFICES ASSUME n + 1 <= W PROVE g[n + 1] \in TnumOf(n + 1)
      OBVIOUS
    <3>2. /\ n + 1 \in 1 .. W /\ (n + 1) - 1 = n /\ n \in 0 .. W
          /\ g[n] \in TnumOf(n) /\ g[n] \in Seq(Trit)
      BY <1>3, <2>2, <3>1
    <3>3. g[n + 1] = G[n + 1][g[n]]
      BY <1>5, <3>2 DEF Recursive
    <3>4. G[n + 1][g[n]] = MulStep(s, t, n + 1, g[n])
      BY <3>2
    <3> QED
      BY <1>2, <3>2, <3>3, <3>4
  <2> HIDE DEF S
  <2>3. \A n \in Nat : n \in S
    BY <2>1, <2>2, SetInduction
  <2> QED
    BY <1>3, <2>3 DEF S
<1>7. \A n \in 0 .. W : g[n] = Step(g, n)
  <2> SUFFICES ASSUME NEW n \in 0 .. W PROVE g[n] = Step(g, n)
    OBVIOUS
  <2>1. CASE n = 0
    BY <1>5, <2>1 DEF Recursive
  <2>2. CASE n # 0
    <3>1. n \in 1 .. W /\ n - 1 \in 0 .. W /\ g[n - 1] \in Seq(Trit)
      BY <1>3, <2>2
    <3>2. g[n] = G[n][g[n - 1]] /\ g[n - 1] \in TnumOf(n - 1)
      BY <1>5, <1>6, <3>1 DEF Recursive
    <3> QED
      BY <2>2, <3>1, <3>2
  <2> QED
    BY <2>1, <2>2
<1>8. g = [n \in 0 .. W |-> Step(g, n)]
  <2> HIDE DEF Step
  <2> QED
    BY <1>7
<1>9. product = [n \in 0 .. W |-> Step(product, n)]
  <2>1. g = [n \in 0 .. W |->
               IF n = 0 THEN << >>
               ELSE LET p == tnum_and(SubSeq(s, 1, n), Repeat(t[W - n + 1], n))
                    IN  <<p[1]>> \o tnum_add(Tail(p), g[n - 1])]
    BY <1>8 DEF MulStep
  <2>2. product = [n \in 0 .. W |->
               IF n = 0 THEN << >>
               ELSE LET p == tnum_and(SubSeq(s, 1, n), Repeat(t[W - n + 1], n))
                    IN  <<p[1]>> \o tnum_add(Tail(p), product[n - 1])]
    BY <2>1
  <2> HIDE DEF product
  <2> QED
    BY <2>2 DEF MulStep
<1> HIDE DEF product, G
<1>10. \A n \in 0 .. W : product[n] \in TnumOf(n)
  <2> DEFINE S == {n \in Nat : n <= W => product[n] = g[n]}
  <2>1. 0 \in S
    BY <1>3, <1>7, <1>9
  <2>2. ASSUME NEW n \in Nat, n \in S PROVE n + 1 \in S
    <3>1. SUFFICES ASSUME n + 1 <= W PROVE product[n + 1] = g[n + 1]
      OBVIOUS
    <3>2. n + 1 \in 0 .. W /\ n + 1 # 0 /\ (n + 1) - 1 = n
      BY <1>3, <3>1
    <3>3. product[n + 1] = Step(product, n + 1) /\ g[n + 1] = Step(g, n + 1)
      <4> HIDE DEF Step
      <4> QED
        BY <1>7, <1>9, <3>2
    <3>4. product[n] = g[n]
      BY <1>3, <2>2, <3>1
    <3> QED
      BY <3>2, <3>3, <3>4
  <2> HIDE DEF S
  <2>3. \A n \in Nat : n \in S
    BY <2>1, <2>2, SetInduction
  <2>4. \A n \in 0 .. W : product[n] = g[n]
    BY <1>3, <2>3 DEF S
  <2> QED
    BY <1>6, <2>4
<1>11. product \in Products(s, t)
  <2>1. product \in [0 .. W -> Seq(Trit)]
    <3>1. \A n \in 0 .. W : product[n] \in Seq(Trit)
      BY <1>1, <1>3, <1>10
    <3> HIDE DEF Step
    <3> QED
      BY <1>9, <3>1
  <2>2. /\ product[0] = << >>
        /\ \A n \in 1 .. W : product[n] = MulStep(s, t, n, product[n - 1])
    <3>1. \A n \in 0 .. W : product[n] = Step(product, n)
      <4> HIDE DEF Step
      <4> QED
        BY <1>9
    <3>2. 0 \in 0 .. W /\ \A n \in 1 .. W : n \in 0 .. W /\ n # 0
      BY <1>3
    <3> QED
      BY <3>1, <3>2
  <2> QED
    BY <2>1, <2>2 DEF Products
<1>12. tnum_mul(s, t) = product[W]
  BY DEF tnum_mul, product
<1> QED
  BY <1>10, <1>11, <1>12

\* tnum_mul is sound.
LEMMA MulCovers ==
  ASSUME NEW s \in Tnum, NEW t \in Tnum
  PROVE  /\ tnum_mul(s, t) \in Tnum
         /\ \A x \in tnum_gamma(s), y \in tnum_gamma(t) :
              bv_mul(x, y) \in tnum_gamma(tnum_mul(s, t))
<1>1. W \in Nat
  BY WAssumption
<1>2. PICK f \in Products(s, t) :
        tnum_mul(s, t) = f[W] /\ \A n \in 0 .. W : f[n] \in TnumOf(n)
  BY MulUnfold
<1>3. f[0] = << >> /\ \A n \in 1 .. W : f[n] = MulStep(s, t, n, f[n - 1])
  BY DEF Products
<1>4. ASSUME NEW x \in tnum_gamma(s), NEW y \in tnum_gamma(t)
      PROVE  bv_mul(x, y) \in tnum_gamma(tnum_mul(s, t))
  <2> DEFINE P(n) == (x * (y \div 2^(W - n))) % 2^n
             S == {n \in Nat : n <= W => P(n) \in tnum_gamma(f[n])}
  <2>1. x \in Int /\ y \in Int
    BY GammaWords
  <2>2. 0 \in S
    <3>1. f[0] \in TnumOf(0)
      BY <1>1, <1>2
    <3>2. y \div 2^(W - 0) \in Int
      BY <1>1, <2>1, PowerFacts, DivMod
    <3>3. P(0) = 0
      <4>1. \A i \in Int : i % 1 = 0
        OBVIOUS
      <4>2. x * (y \div 2^(W - 0)) \in Int
        BY <2>1, <3>2
      <4> QED
        BY <4>1, <4>2, PowerZero
    <3>4. P(0) \in 0 .. 2^0 - 1
      BY <3>3, PowerZero
    <3> HIDE DEF P
    <3>5. P(0) \in tnum_gamma(f[0])
      <4>1. 0 \in Nat /\ \A i \in 0 .. 0 - 1 : FALSE
        OBVIOUS
      <4>2. \A i \in 0 .. 0 - 1 : Bit(P(0), i) \in trit_gamma(f[0][i + 1])
        BY <4>1
      <4> HIDE DEF S
      <4> QED
        BY <3>1, <3>4, <4>1, <4>2, GammaMember
    <3> QED
      BY <3>5
  <2>3. ASSUME NEW n \in Nat, n \in S PROVE n + 1 \in S
    <3>1. SUFFICES ASSUME n + 1 <= W PROVE P(n + 1) \in tnum_gamma(f[n + 1])
      OBVIOUS
    <3>2. /\ n + 1 \in 1 .. W /\ (n + 1) - 1 = n /\ n \in 0 .. W
          /\ W - (n + 1) + 1 = W - n
          /\ f[n] \in TnumOf(n)
      BY <1>1, <1>2, <3>1
    <3>3. P(n) \in tnum_gamma(f[n])
      <4> HIDE DEF P
      <4> QED
        BY <2>3, <3>1, <1>1
    <3>4. (x * (y \div 2^(W - (n + 1) + 1))) % 2^((n + 1) - 1)
            \in tnum_gamma(f[n])
      BY <3>2, <3>3
    <3>5. (x * (y \div 2^(W - (n + 1)))) % 2^(n + 1)
            \in tnum_gamma(MulStep(s, t, n + 1, f[n]))
      BY <3>2, <3>4, MulStepCovers
    <3> QED
      BY <1>3, <3>2, <3>5
  <2> HIDE DEF S
  <2>4. \A n \in Nat : n \in S
    BY <2>2, <2>3, SetInduction
  <2>5. P(W) \in tnum_gamma(f[W])
    <3> HIDE DEF P
    <3> QED
      BY <1>1, <2>4 DEF S
  <2>6. y \div 2^(W - W) = y
    <3>1. \A i \in Int : i \div 1 = i
      OBVIOUS
    <3> QED
      BY <1>1, <2>1, <3>1, PowerZero
  <2> QED
    BY <1>2, <2>5, <2>6 DEF bv_mul
<1>5. tnum_mul(s, t) \in Tnum
  BY <1>1, <1>2 DEF Tnum
<1> QED
  BY <1>4, <1>5

-----------------------------------------------------------------------------
(* Operations on abstract values.                                          *)

\* The cases of doALU_scalar and of doALU64_scalar, one equation each.
LEMMA AbstractCases ==
  ASSUME NEW s, NEW t
  PROVE  /\ doALU_scalar("ADD", s, t) = tnum_add(s, t)
         /\ doALU_scalar("SUB", s, t) = tnum_sub(s, t)
         /\ doALU_scalar("NEG", s, t) = tnum_neg(s)
         /\ doALU_scalar("MUL", s, t) = tnum_mul(s, t)
         /\ doALU_scalar("LSH", s, t) = tnum_shl(s, t)
         /\ doALU_scalar("XOR", s, t) = tnum_xor(s, t)
         /\ doALU_scalar("AND", s, t) = tnum_and(s, t)
         /\ doALU_scalar("OR", s, t) = tnum_or(s, t)
         /\ doALU_scalar("DIV", s, t) = tnum_udiv(s, t)
         /\ doALU_scalar("MOD", s, t) = tnum_urem(s, t)
         /\ \A op \in {"RSH", "ARSH", "MOV", "END"} :
              doALU_scalar(op, s, t) = tnum_top
  BY DEF doALU_scalar, tnum_lshr, tnum_ashr

\* The cases of the scalar operations, one by one: concrete,
LEMMA ConcreteCases ==
  ASSUME NEW x, NEW y
  PROVE  /\ doALU64_scalar("ADD", x, y) = bv_add(x, y)
         /\ doALU64_scalar("SUB", x, y) = bv_sub(x, y)
         /\ doALU64_scalar("NEG", x, y) = bv_neg(x)
         /\ doALU64_scalar("MUL", x, y) = bv_mul(x, y)
         /\ doALU64_scalar("LSH", x, y) = shl(x, y)
         /\ doALU64_scalar("XOR", x, y) = bv_xor(x, y)
         /\ doALU64_scalar("AND", x, y) = bv_and(x, y)
         /\ doALU64_scalar("OR", x, y) = bv_or(x, y)
         /\ doALU64_scalar("DIV", x, y) = udiv(x, y)
         /\ doALU64_scalar("MOD", x, y) = urem(x, y)
         /\ doALU64_scalar("RSH", x, y) = lshr(x, y)
         /\ doALU64_scalar("ARSH", x, y) = ashr(x, y)
         /\ doALU64_scalar("MOV", x, y) = y
         /\ doALU64_scalar("END", x, y) = x
  BY DEF doALU64_scalar

\* Every operation on scalars covers its operation on words.
LEMMA ScalarCovers ==
  ASSUME NEW op \in ALU, NEW s \in Tnum, NEW t \in Tnum
  PROVE  /\ doALU_scalar(op, s, t) \in Tnum
         /\ \A x \in tnum_gamma(s), y \in tnum_gamma(t) :
              doALU64_scalar(op, x, y) \in tnum_gamma(doALU_scalar(op, s, t))
<1>1. CASE op = "ADD"
  BY <1>1, AbstractCases, ConcreteCases, AddCovers
<1>2. CASE op = "SUB"
  BY <1>2, AbstractCases, ConcreteCases, SubCovers
<1>3. CASE op = "NEG"
  BY <1>3, AbstractCases, ConcreteCases, NegCovers
<1>4. CASE op = "MUL"
  BY <1>4, AbstractCases, ConcreteCases, MulCovers
<1>5. CASE op = "LSH"
  BY <1>5, AbstractCases, ConcreteCases, ShlCovers
<1>6. CASE op = "XOR"
  BY <1>6, AbstractCases, ConcreteCases, XorCovers
<1>7. CASE op = "AND"
  BY <1>7, AbstractCases, ConcreteCases, AndCovers
<1>8. CASE op = "OR"
  BY <1>8, AbstractCases, ConcreteCases, OrCovers
<1>9. CASE op = "DIV"
  BY <1>9, AbstractCases, ConcreteCases, DivCovers
<1>10. CASE op = "MOD"
  BY <1>10, AbstractCases, ConcreteCases, DivCovers
<1>11. CASE op \in {"RSH", "ARSH", "MOV", "END"}
  <2>1. doALU_scalar(op, s, t) = tnum_top
    BY <1>11, AbstractCases
  <2>2. ASSUME NEW x \in tnum_gamma(s), NEW y \in tnum_gamma(t)
        PROVE  doALU64_scalar(op, x, y) \in Word
    <3>1. x \in Word /\ y \in Word /\ y \in Nat
      BY GammaWords
    <3>2. lshr(x, y) \in Word /\ ashr(x, y) \in Word
      BY <3>1, LshrWords, WordOperations
    <3> QED
      BY <1>11, <3>1, <3>2, ConcreteCases
  <2> QED
    BY <2>1, <2>2, TopCovers
<1> QED
  BY <1>1, <1>2, <1>3, <1>4, <1>5, <1>6, <1>7, <1>8, <1>9, <1>10, <1>11 DEF ALU

\* The scalar operations give words.
LEMMA ScalarWords ==
  ASSUME NEW op \in ALU, NEW x \in Word, NEW y \in Word
  PROVE  doALU64_scalar(op, x, y) \in Word
<1>1. /\ tnum_const(x) \in Tnum /\ x \in tnum_gamma(tnum_const(x))
      /\ tnum_const(y) \in Tnum /\ y \in tnum_gamma(tnum_const(y))
  BY ConstCovers
<1>2. PICK r \in Tnum : doALU64_scalar(op, x, y) \in tnum_gamma(r)
  BY <1>1, ScalarCovers
<1> QED
  BY <1>2, GammaWords

-----------------------------------------------------------------------------
(* The shapes of values.                                                   *)

LEMMA ValueShapes ==
  /\ uninitialized \in Value /\ uninitialized.tag = "uninitialized"
  /\ \A x : /\ scalar(x).tag = "scalar" /\ scalar(x).n = x
            /\ x \in Word => scalar(x) \in Value
  /\ \A m, x : /\ pointer(m, x).tag = "pointer" /\ pointer(m, x).n = x
               /\ pointer(m, x).m = m
               /\ m \in Region /\ x \in Word => pointer(m, x) \in Value
  /\ \A v \in Value :
       /\ v.tag \in {"scalar", "pointer", "uninitialized"}
       /\ v.tag = "scalar" => v = scalar(v.n) /\ v.n \in Word
       /\ v.tag = "pointer" => v = pointer(v.m, v.n) /\ v.m \in Region /\ v.n \in Word
       /\ v.tag = "uninitialized" => v = uninitialized
<1>1. /\ uninitialized \in Value /\ uninitialized.tag = "uninitialized"
      /\ \A x : /\ scalar(x).tag = "scalar" /\ scalar(x).n = x
                /\ x \in Word => scalar(x) \in Value
  BY DEF Value, scalar, uninitialized
<1>2. \A m, x : /\ pointer(m, x).tag = "pointer" /\ pointer(m, x).n = x
                /\ pointer(m, x).m = m
  BY DEF pointer
<1>3. \A m \in Region, x \in Word : pointer(m, x) \in Value
  BY DEF Value
<1>4. ASSUME NEW v \in Value
      PROVE  \/ \E x \in Word : v = scalar(x)
             \/ \E m \in Region, x \in Word : v = pointer(m, x)
             \/ v = uninitialized
  BY DEF Value
<1> QED
  BY <1>1, <1>2, <1>3, <1>4

\* The shapes of abstract values.
LEMMA AbstractShapes ==
  /\ top \in avalues /\ top.tag = "top"
  /\ avalue_uninitialized \in avalues /\ avalue_uninitialized.tag = "uninitialized"
  /\ \A t : /\ avalue_scalar(t).tag = "scalar" /\ avalue_scalar(t).t = t
            /\ t \in Tnum => avalue_scalar(t) \in avalues
  /\ \A m, t : /\ avalue_pointer(m, t).tag = "pointer"
               /\ avalue_pointer(m, t).t = t /\ avalue_pointer(m, t).m = m
               /\ m \in Region /\ t \in Tnum => avalue_pointer(m, t) \in avalues
  /\ \A d \in avalues :
       /\ d.tag \in {"scalar", "pointer", "uninitialized", "top"}
       /\ d.tag = "scalar" => d = avalue_scalar(d.t) /\ d.t \in Tnum
       /\ d.tag = "pointer" => d = avalue_pointer(d.m, d.t) /\ d.m \in Region /\ d.t \in Tnum
       /\ d.tag = "uninitialized" => d = avalue_uninitialized
       /\ d.tag = "top" => d = top
<1>1. /\ top \in avalues /\ top.tag = "top"
      /\ avalue_uninitialized \in avalues
      /\ avalue_uninitialized.tag = "uninitialized"
  BY DEF avalues, avalue_uninitialized, top
<1>2. \A t : avalue_scalar(t).tag = "scalar" /\ avalue_scalar(t).t = t
  BY DEF avalue_scalar
<1>3. \A m, t : /\ avalue_pointer(m, t).tag = "pointer"
                /\ avalue_pointer(m, t).t = t /\ avalue_pointer(m, t).m = m
  BY DEF avalue_pointer
<1>4. /\ \A t \in Tnum : avalue_scalar(t) \in avalues
      /\ \A m \in Region, t \in Tnum : avalue_pointer(m, t) \in avalues
  BY DEF avalues
<1>5. ASSUME NEW d \in avalues
      PROVE  \/ \E t \in Tnum : d = avalue_scalar(t)
             \/ \E m \in Region, t \in Tnum : d = avalue_pointer(m, t)
             \/ d = avalue_uninitialized \/ d = top
  BY DEF avalues
<1> QED
  BY <1>1, <1>2, <1>3, <1>4, <1>5

\* The values an abstract value stands for, by its shape.
LEMMA GammaShapes ==
  ASSUME NEW d \in avalues
  PROVE  /\ d.tag = "scalar" =>
              \A v : v \in avalue_gamma(d) <=>
                       \E x \in tnum_gamma(d.t) : v = scalar(x)
         /\ d.tag = "pointer" =>
              \A v : v \in avalue_gamma(d) <=>
                       \E x \in tnum_gamma(d.t) : v = pointer(d.m, x)
         /\ d.tag = "uninitialized" => avalue_gamma(d) = {uninitialized}
         /\ d.tag = "top" => avalue_gamma(d) = Value
         /\ avalue_gamma(d) \subseteq Value
<1>1. CASE d.tag = "scalar"
  <2>1. avalue_gamma(d) = {scalar(x) : x \in tnum_gamma(d.t)}
    BY <1>1 DEF avalue_gamma
  <2>2. tnum_gamma(d.t) \subseteq Word
    BY <1>1, AbstractShapes, GammaWords
  <2> QED
    BY <1>1, <2>1, <2>2, ValueShapes
<1>2. CASE d.tag = "pointer"
  <2>1. avalue_gamma(d) = {pointer(d.m, x) : x \in tnum_gamma(d.t)}
    BY <1>2 DEF avalue_gamma
  <2>2. tnum_gamma(d.t) \subseteq Word /\ d.m \in Region
    BY <1>2, AbstractShapes, GammaWords
  <2> QED
    BY <1>2, <2>1, <2>2, ValueShapes
<1>3. CASE d.tag = "uninitialized"
  <2>1. avalue_gamma(d) = {uninitialized}
    BY <1>3 DEF avalue_gamma
  <2> QED
    BY <1>3, <2>1, ValueShapes
<1>4. CASE d.tag = "top"
  <2>1. avalue_gamma(d) = Value
    BY <1>4 DEF avalue_gamma
  <2> QED
    BY <1>4, <2>1
<1> QED
  BY <1>1, <1>2, <1>3, <1>4, AbstractShapes

\* The cases of doALU64 and of avalue_doALU64.
LEMMA ALU64Cases ==
  ASSUME NEW op, NEW v, NEW w
  PROVE  /\ v.tag = "scalar" /\ w.tag = "scalar"
              => doALU64(op, v, w) = scalar(doALU64_scalar(op, v.n, w.n))
         /\ v.tag = "pointer" /\ w.tag = "scalar"
              => doALU64(op, v, w) = doALU_pointer_scalar(op, v.m, v.n, w.n)
         /\ ~(v.tag \in {"scalar", "pointer"} /\ w.tag = "scalar")
              => doALU64(op, v, w) = IF op = "MOV" THEN w ELSE v
  BY DEF doALU64, is_scalar, is_pointer

\* The abstract operation by the shapes of its operands.
LEMMA AbstractALU64Cases ==
  ASSUME NEW op, NEW d, NEW e
  PROVE  /\ d.tag = "scalar" /\ e.tag = "scalar"
              => avalue_doALU64(op, d, e) = avalue_scalar(doALU_scalar(op, d.t, e.t))
         /\ d.tag = "pointer" /\ e.tag = "scalar"
              => avalue_doALU64(op, d, e) = doALU_scalar_pointer(op, d.m, d.t, e.t)
         /\ ~(d.tag \in {"scalar", "pointer"} /\ e.tag = "scalar")
              => avalue_doALU64(op, d, e) = IF op = "MOV" THEN e ELSE top
  BY DEF avalue_doALU64

\* Operations on a pointer and a scalar, concrete and abstract.
LEMMA PointerCases ==
  ASSUME NEW op, NEW m, NEW x, NEW y
  PROVE  /\ op = "ADD" => doALU_pointer_scalar(op, m, x, y) = pointer(m, bv_add(x, y))
         /\ op = "SUB" => doALU_pointer_scalar(op, m, x, y) = pointer(m, bv_sub(x, y))
         /\ op = "MOV" => doALU_pointer_scalar(op, m, x, y) = scalar(y)
         /\ op \notin {"ADD", "SUB", "MOV"}
              => doALU_pointer_scalar(op, m, x, y) = pointer(m, x)
         /\ op = "ADD" => doALU_scalar_pointer(op, m, x, y) = avalue_pointer(m, tnum_add(x, y))
         /\ op = "SUB" => doALU_scalar_pointer(op, m, x, y) = avalue_pointer(m, tnum_sub(x, y))
         /\ op = "MOV" => doALU_scalar_pointer(op, m, x, y) = avalue_scalar(y)
         /\ op \notin {"ADD", "SUB", "MOV"}
              => doALU_scalar_pointer(op, m, x, y) = avalue_pointer(m, x)
  BY DEF doALU_pointer_scalar, doALU_scalar_pointer

\* The concrete operation is closed on values, whatever its check says.
LEMMA ALU64Values ==
  ASSUME NEW op \in ALU, NEW v \in Value, NEW w \in Value
  PROVE  doALU64(op, v, w) \in Value
<1>1. CASE v.tag = "scalar" /\ w.tag = "scalar"
  BY <1>1, ALU64Cases, ValueShapes, ScalarWords
<1>2. CASE v.tag = "pointer" /\ w.tag = "scalar"
  <2>1. /\ doALU64(op, v, w) = doALU_pointer_scalar(op, v.m, v.n, w.n)
        /\ v.m \in Region /\ v.n \in Word /\ w.n \in Word
    BY <1>2, ALU64Cases, ValueShapes
  <2>2. bv_add(v.n, w.n) \in Word /\ bv_sub(v.n, w.n) \in Word
    BY <2>1, WordOperations
  <2> QED
    BY <2>1, <2>2, PointerCases, ValueShapes
<1>3. CASE ~(v.tag \in {"scalar", "pointer"} /\ w.tag = "scalar")
  BY <1>3, ALU64Cases
<1> QED
  BY <1>1, <1>2, <1>3

\* MOV gives the source operand whatever the destination was.
LEMMA MovReturns ==
  ASSUME NEW v \in Value, NEW w \in Value
  PROVE  doALU64("MOV", v, w) = w
<1>1. CASE v.tag = "scalar" /\ w.tag = "scalar"
  <2>1. doALU64_scalar("MOV", v.n, w.n) = w.n
    BY ConcreteCases
  <2> QED
    BY <1>1, <2>1, ALU64Cases, ValueShapes
<1>2. CASE v.tag = "pointer" /\ w.tag = "scalar"
  BY <1>2, ALU64Cases, PointerCases, ValueShapes
<1>3. CASE ~(v.tag \in {"scalar", "pointer"} /\ w.tag = "scalar")
  BY <1>3, ALU64Cases
<1> QED
  BY <1>1, <1>2, <1>3

\* The correct field of doALU64 in the instance of value_abstr.
LEMMA ALU64Covers ==
  ASSUME NEW op \in ALU, NEW d \in avalues, NEW e \in avalues
  PROVE  /\ avalue_doALU64(op, d, e) \in avalues
         /\ \A v \in avalue_gamma(d), w \in avalue_gamma(e) :
              doALU64(op, v, w) \in avalue_gamma(avalue_doALU64(op, d, e))
<1> DEFINE r == avalue_doALU64(op, d, e)
<1>1. CASE d.tag = "scalar" /\ e.tag = "scalar"
  <2> DEFINE t == doALU_scalar(op, d.t, e.t)
  <2>1. /\ d.t \in Tnum /\ e.t \in Tnum /\ r = avalue_scalar(t)
    BY <1>1, AbstractShapes, AbstractALU64Cases
  <2>2. /\ t \in Tnum
        /\ \A x \in tnum_gamma(d.t), y \in tnum_gamma(e.t) :
             doALU64_scalar(op, x, y) \in tnum_gamma(t)
    BY <2>1, ScalarCovers
  <2>3. r \in avalues /\ r.tag = "scalar" /\ r.t = t
    BY <2>1, <2>2, AbstractShapes
  <2>4. ASSUME NEW v \in avalue_gamma(d), NEW w \in avalue_gamma(e)
        PROVE  doALU64(op, v, w) \in avalue_gamma(r)
    <3>1. PICK x \in tnum_gamma(d.t) : v = scalar(x)
      BY <1>1, GammaShapes
    <3>2. PICK y \in tnum_gamma(e.t) : w = scalar(y)
      BY <1>1, GammaShapes
    <3>3. doALU64(op, v, w) = scalar(doALU64_scalar(op, x, y))
      BY <3>1, <3>2, ALU64Cases, ValueShapes
    <3> QED
      BY <2>2, <2>3, <3>3, GammaShapes
  <2> QED
    BY <2>3, <2>4
<1>2. CASE d.tag = "pointer" /\ e.tag = "scalar"
  <2>1. /\ d.t \in Tnum /\ e.t \in Tnum /\ d.m \in Region
        /\ r = doALU_scalar_pointer(op, d.m, d.t, e.t)
    BY <1>2, AbstractShapes, AbstractALU64Cases
  <2>2. /\ tnum_add(d.t, e.t) \in Tnum /\ tnum_sub(d.t, e.t) \in Tnum
        /\ \A x \in tnum_gamma(d.t), y \in tnum_gamma(e.t) :
             /\ bv_add(x, y) \in tnum_gamma(tnum_add(d.t, e.t))
             /\ bv_sub(x, y) \in tnum_gamma(tnum_sub(d.t, e.t))
    BY <2>1, AddCovers, SubCovers
  <2>3. r \in avalues
    BY <2>1, <2>2, PointerCases, AbstractShapes
  <2>4. ASSUME NEW v \in avalue_gamma(d), NEW w \in avalue_gamma(e)
        PROVE  doALU64(op, v, w) \in avalue_gamma(r)
    <3>1. PICK x \in tnum_gamma(d.t) : v = pointer(d.m, x)
      BY <1>2, GammaShapes
    <3>2. PICK y \in tnum_gamma(e.t) : w = scalar(y)
      BY <1>2, GammaShapes
    <3>3. doALU64(op, v, w) = doALU_pointer_scalar(op, d.m, x, y)
      BY <3>1, <3>2, ALU64Cases, ValueShapes
    <3>4. CASE op = "ADD"
      <4>1. r = avalue_pointer(d.m, tnum_add(d.t, e.t))
        BY <2>1, <3>4, PointerCases
      <4>2. r.tag = "pointer" /\ r.m = d.m /\ r.t = tnum_add(d.t, e.t)
        BY <4>1, AbstractShapes
      <4>3. doALU64(op, v, w) = pointer(d.m, bv_add(x, y))
        BY <3>3, <3>4, PointerCases
      <4> QED
        BY <2>2, <2>3, <4>2, <4>3, GammaShapes
    <3>5. CASE op = "SUB"
      <4>1. r = avalue_pointer(d.m, tnum_sub(d.t, e.t))
        BY <2>1, <3>5, PointerCases
      <4>2. r.tag = "pointer" /\ r.m = d.m /\ r.t = tnum_sub(d.t, e.t)
        BY <4>1, AbstractShapes
      <4>3. doALU64(op, v, w) = pointer(d.m, bv_sub(x, y))
        BY <3>3, <3>5, PointerCases
      <4> QED
        BY <2>2, <2>3, <4>2, <4>3, GammaShapes
    <3>6. CASE op = "MOV"
      <4>1. r = avalue_scalar(e.t)
        BY <2>1, <3>6, PointerCases
      <4>2. r.tag = "scalar" /\ r.t = e.t
        BY <4>1, AbstractShapes
      <4>3. doALU64(op, v, w) = scalar(y)
        BY <3>3, <3>6, PointerCases
      <4> QED
        BY <2>3, <4>2, <4>3, GammaShapes
    <3>7. CASE op \notin {"ADD", "SUB", "MOV"}
      <4>1. r = avalue_pointer(d.m, d.t)
        BY <2>1, <3>7, PointerCases
      <4>2. r.tag = "pointer" /\ r.m = d.m /\ r.t = d.t
        BY <4>1, AbstractShapes
      <4>3. doALU64(op, v, w) = pointer(d.m, x)
        BY <3>3, <3>7, PointerCases
      <4> QED
        BY <2>3, <4>2, <4>3, GammaShapes
    <3> QED
      BY <3>4, <3>5, <3>6, <3>7
  <2> QED
    BY <2>3, <2>4
<1>3. CASE ~(d.tag \in {"scalar", "pointer"} /\ e.tag = "scalar")
  <2>1. r = IF op = "MOV" THEN e ELSE top
    BY <1>3, AbstractALU64Cases
  <2>2. r \in avalues
    BY <2>1, AbstractShapes
  <2>3. ASSUME NEW v \in avalue_gamma(d), NEW w \in avalue_gamma(e)
        PROVE  doALU64(op, v, w) \in avalue_gamma(r)
    <3>1. v \in Value /\ w \in Value /\ doALU64(op, v, w) \in Value
      BY GammaShapes, ALU64Values
    <3>2. CASE op # "MOV"
      <4>1. r = top /\ r.tag = "top"
        BY <2>1, <3>2, AbstractShapes
      <4> QED
        BY <2>2, <3>1, <4>1, GammaShapes
    <3>3. CASE op = "MOV"
      <4>1. r = e
        BY <2>1, <3>3
      <4> QED
        BY <3>1, <3>3, <4>1, MovReturns
    <3> QED
      BY <3>2, <3>3
  <2> QED
    BY <2>2, <2>3
<1> QED
  BY <1>1, <1>2, <1>3, AbstractShapes

\* const is sound.
LEMMA ConstValues ==
  ASSUME NEW v \in Value
  PROVE  avalue_const(v) \in avalues /\ v \in avalue_gamma(avalue_const(v))
<1> DEFINE c == avalue_const(v)
<1>1. CASE v.tag = "scalar"
  <2>1. c = avalue_scalar(tnum_const(v.n))
    BY <1>1 DEF avalue_const
  <2>2. v = scalar(v.n) /\ v.n \in Word
    BY <1>1, ValueShapes
  <2>3. tnum_const(v.n) \in Tnum /\ v.n \in tnum_gamma(tnum_const(v.n))
    BY <2>2, ConstCovers
  <2>4. c \in avalues /\ c.tag = "scalar" /\ c.t = tnum_const(v.n)
    BY <2>1, <2>3, AbstractShapes
  <2> QED
    BY <2>2, <2>3, <2>4, GammaShapes
<1>2. CASE v.tag = "pointer"
  <2>1. c = avalue_pointer(v.m, tnum_const(v.n))
    BY <1>2 DEF avalue_const
  <2>2. v = pointer(v.m, v.n) /\ v.m \in Region /\ v.n \in Word
    BY <1>2, ValueShapes
  <2>3. tnum_const(v.n) \in Tnum /\ v.n \in tnum_gamma(tnum_const(v.n))
    BY <2>2, ConstCovers
  <2>4. /\ c \in avalues /\ c.tag = "pointer" /\ c.m = v.m
        /\ c.t = tnum_const(v.n)
    BY <2>1, <2>2, <2>3, AbstractShapes
  <2> QED
    BY <2>2, <2>3, <2>4, GammaShapes
<1>3. CASE v.tag = "uninitialized"
  <2>1. c = avalue_uninitialized
    BY <1>3 DEF avalue_const
  <2>2. c \in avalues /\ c.tag = "uninitialized" /\ v = uninitialized
    BY <1>3, <2>1, AbstractShapes, ValueShapes
  <2> QED
    BY <2>2, GammaShapes
<1> QED
  BY <1>1, <1>2, <1>3, ValueShapes

\* The cases of avalue_join.
LEMMA JoinCases ==
  ASSUME NEW d \in avalues, NEW e \in avalues
  PROVE  LET j == avalue_join(d, e)
         IN  /\ d.tag = "scalar" /\ e.tag = "scalar"
                  => j = avalue_scalar(tnum_join(d.t, e.t))
             /\ d.tag = "pointer" /\ e.tag = "pointer" /\ d.m = e.m
                  => j = avalue_pointer(d.m, tnum_join(d.t, e.t))
             /\ d.tag \in {"uninitialized", "top"} /\ e.tag = d.tag => j = d
             /\ ~SameShape(d, e) => j = top
<1>1. CASE d.tag = "scalar" /\ e.tag = "scalar"
  <2>1. d = avalue_scalar(d.t)
    BY <1>1, AbstractShapes
  <2>2. avalue_join(d, e) = [d EXCEPT !.t = tnum_join(d.t, e.t)]
    BY <1>1 DEF avalue_join, SameShape, HasTnum
  <2>3. \A s, t : [avalue_scalar(s) EXCEPT !.t = t] = avalue_scalar(t)
    BY DEF avalue_scalar
  <2>4. avalue_join(d, e) = avalue_scalar(tnum_join(d.t, e.t))
    BY <2>1, <2>2, <2>3
  <2> QED
    BY <1>1, <2>4 DEF SameShape
<1>2. CASE d.tag = "pointer" /\ e.tag = "pointer" /\ d.m = e.m
  <2>1. d = avalue_pointer(d.m, d.t)
    BY <1>2, AbstractShapes
  <2>2. avalue_join(d, e) = [d EXCEPT !.t = tnum_join(d.t, e.t)]
    BY <1>2 DEF avalue_join, SameShape, HasTnum
  <2>3. \A m, s, t : [avalue_pointer(m, s) EXCEPT !.t = t] = avalue_pointer(m, t)
    BY DEF avalue_pointer
  <2>4. avalue_join(d, e) = avalue_pointer(d.m, tnum_join(d.t, e.t))
    BY <2>1, <2>2, <2>3
  <2> QED
    BY <1>2, <2>4 DEF SameShape
<1>3. CASE d.tag \in {"uninitialized", "top"} /\ e.tag = d.tag
  <2>1. avalue_join(d, e) = d
    BY <1>3 DEF avalue_join, SameShape, HasTnum
  <2> QED
    BY <1>3, <2>1 DEF SameShape
<1>4. CASE ~SameShape(d, e)
  <2>1. avalue_join(d, e) = top
    BY <1>4 DEF avalue_join
  <2> QED
    BY <1>4, <2>1 DEF SameShape
<1> QED
  BY <1>1, <1>2, <1>3, <1>4, AbstractShapes DEF SameShape

\* Joins of values, of different shapes too, are sound.
LEMMA JoinValues ==
  ASSUME NEW d \in avalues, NEW e \in avalues
  PROVE  /\ avalue_join(d, e) \in avalues
         /\ avalue_gamma(d) \subseteq avalue_gamma(avalue_join(d, e))
<1> DEFINE j == avalue_join(d, e)
<1>1. CASE d.tag = "scalar" /\ e.tag = "scalar"
  <2>1. d.t \in Tnum /\ e.t \in Tnum
    BY <1>1, AbstractShapes
  <2>2. /\ tnum_join(d.t, e.t) \in Tnum
        /\ tnum_gamma(d.t) \subseteq tnum_gamma(tnum_join(d.t, e.t))
    BY <2>1, JoinCovers
  <2>3. j \in avalues /\ j.tag = "scalar" /\ j.t = tnum_join(d.t, e.t)
    BY <1>1, <2>2, JoinCases, AbstractShapes
  <2> QED
    BY <1>1, <2>2, <2>3, GammaShapes
<1>2. CASE d.tag = "pointer" /\ e.tag = "pointer" /\ d.m = e.m
  <2>1. d.t \in Tnum /\ e.t \in Tnum /\ d.m \in Region
    BY <1>2, AbstractShapes
  <2>2. /\ tnum_join(d.t, e.t) \in Tnum
        /\ tnum_gamma(d.t) \subseteq tnum_gamma(tnum_join(d.t, e.t))
    BY <2>1, JoinCovers
  <2>3. /\ j \in avalues /\ j.tag = "pointer" /\ j.m = d.m
        /\ j.t = tnum_join(d.t, e.t)
    BY <1>2, <2>1, <2>2, JoinCases, AbstractShapes
  <2> QED
    BY <1>2, <2>2, <2>3, GammaShapes
<1>3. CASE d.tag \in {"uninitialized", "top"} /\ e.tag = d.tag
  BY <1>3, JoinCases
<1>4. CASE ~SameShape(d, e)
  <2>1. j = top
    BY <1>4, JoinCases
  <2>2. j \in avalues /\ j.tag = "top"
    BY <2>1, AbstractShapes
  <2> QED
    BY <2>2, GammaShapes
<1> QED
  BY <1>1, <1>2, <1>3, <1>4, AbstractShapes DEF SameShape

-----------------------------------------------------------------------------
(* The walk of one register.                                               *)

LEMMA OperandParts ==
  ASSUME NEW o \in Operand
  PROVE  o[1] \in avalues /\ o[2] \in Value /\ o[2] \in avalue_gamma(o[1])
  BY DEF Operand

\* The abstract value is one, and stands for the concrete value.
WalkInv == abs \in avalues /\ Simulates

\* The walk starts in the invariant,
LEMMA WalkInvInit == WalkInit => WalkInv
  BY ConstValues DEF WalkInit, WalkInv, Simulates

\* each of its steps keeps it,
LEMMA WalkInvNext == WalkInv /\ [WalkNext]_walkVars => WalkInv'
<1> SUFFICES ASSUME WalkInv, [WalkNext]_walkVars PROVE WalkInv'
  OBVIOUS
<1>1. abs \in avalues /\ val \in avalue_gamma(abs)
  BY DEF WalkInv, Simulates
<1>2. ASSUME NEW op \in ALU, NEW o \in Operand, WalkALU(op, o[1], o[2])
      PROVE  WalkInv'
  <2>1. /\ val' = doALU64(op, val, o[2])
        /\ abs' = avalue_doALU64(op, abs, o[1])
    BY <1>2 DEF WalkALU
  <2>2. o[1] \in avalues /\ o[2] \in avalue_gamma(o[1])
    BY OperandParts
  <2> QED
    BY <1>1, <2>1, <2>2, ALU64Covers DEF WalkInv, Simulates
<1>3. ASSUME NEW d \in avalues, WalkJoin(d)
      PROVE  WalkInv'
  BY <1>1, <1>3, JoinValues DEF WalkJoin, WalkInv, Simulates
<1>4. CASE UNCHANGED walkVars
  BY <1>1, <1>4 DEF walkVars, WalkInv, Simulates
<1> QED
  BY <1>2, <1>3, <1>4 DEF WalkNext

\* so it always holds.
LEMMA WalkInvariant == WalkSpec => []WalkInv
  BY WalkInvInit, WalkInvNext, PTL DEF WalkSpec

(***************************************************************************)
(* For words of every width: after any sequence of ALU operations and      *)
(* joins the abstract value of value.lean stands for the concrete value.   *)
(* Shifts by a tnum are among the operations, whose correctness the source *)
(* derives from an axiom that is false.                                    *)
(***************************************************************************)
THEOREM WalkSimulates == WalkSpec => []Simulates
<1>1. WalkInv => Simulates
  BY DEF WalkInv
<1> QED
  BY <1>1, WalkInvariant, PTL

\* The tests of value.lean and basic.lean, for one pair of operands.
LEMMA ALUTestSound ==
  ASSUME NEW op \in ALU, NEW d \in avalues, NEW e \in avalues,
         NEW v \in avalue_gamma(d), NEW w \in avalue_gamma(e),
         avalue_doALU64_check(op, d, e)
  PROVE  doALU64_check(op, v, w)
<1>1. CASE d.tag = "scalar" /\ e.tag = "scalar"
  <2>1. avalue_doALU64_scalar_check(op, d.t, e.t)
    BY <1>1 DEF avalue_doALU64_check
  <2>2. PICK x \in tnum_gamma(d.t) : v = scalar(x)
    BY <1>1, GammaShapes
  <2>3. PICK y \in tnum_gamma(e.t) : w = scalar(y)
    BY <1>1, GammaShapes
  <2>4. doALU64_scalar_check(op, x, y)
    BY <2>1, <2>3 DEF avalue_doALU64_scalar_check, doALU64_scalar_check
  <2> QED
    BY <2>2, <2>3, <2>4, ValueShapes DEF doALU64_check, is_scalar
<1>2. CASE d.tag = "pointer" /\ e.tag = "scalar"
  <2>1. doALU_pointer_scalar_check(op)
    BY <1>2 DEF avalue_doALU64_check
  <2>2. v.tag = "pointer" /\ w.tag = "scalar"
    BY <1>2, GammaShapes, ValueShapes
  <2> QED
    BY <2>1, <2>2 DEF doALU64_check, is_scalar, is_pointer
<1>3. CASE ~(d.tag \in {"scalar", "pointer"} /\ e.tag = "scalar")
  <2>1. op = "MOV" /\ e.tag \in {"scalar", "pointer"}
    BY <1>3 DEF avalue_doALU64_check, HasTnum
  <2>2. w.tag = e.tag
    BY <2>1, GammaShapes, ValueShapes
  <2>3. w # uninitialized
    BY <2>1, <2>2, ValueShapes
  <2> QED
    BY <2>1, <2>3 DEF doALU64_check
<1> QED
  BY <1>1, <1>2, <1>3

(***************************************************************************)
(* A test of value.lean that passes on abstract values passes, in          *)
(* basic.lean, on all the values they stand for.                           *)
(***************************************************************************)
THEOREM WalkTestsSound == WalkSpec => []TestsSound
<1>1. WalkInv => TestsSound
  <2> SUFFICES ASSUME WalkInv, NEW o \in Operand
               PROVE  /\ \A op \in ALU : avalue_doALU64_check(op, abs, o[1])
                                           => doALU64_check(op, val, o[2])
                      /\ \A op \in JMP : avalue_doJMP64_check(op, abs, o[1])
                                           => doJMP64_check(op, val, o[2])
    BY DEF TestsSound
  <2>1. /\ abs \in avalues /\ val \in avalue_gamma(abs)
        /\ o[1] \in avalues /\ o[2] \in avalue_gamma(o[1])
    BY OperandParts DEF WalkInv, Simulates
  <2>2. \A op \in ALU : avalue_doALU64_check(op, abs, o[1])
                          => doALU64_check(op, val, o[2])
    BY <2>1, ALUTestSound
  <2>3. \A op \in JMP : avalue_doJMP64_check(op, abs, o[1])
                          => doJMP64_check(op, val, o[2])
    <3> SUFFICES ASSUME NEW op \in JMP, abs.tag = "scalar", o[1].tag = "scalar"
                 PROVE  doJMP64_check(op, val, o[2])
      BY DEF avalue_doJMP64_check
    <3>1. val.tag = "scalar" /\ o[2].tag = "scalar"
      BY <2>1, GammaShapes, ValueShapes
    <3> QED
      BY <3>1 DEF doJMP64_check, is_scalar
  <2> QED
    BY <2>2, <2>3
<1> QED
  BY <1>1, WalkInvariant, PTL

-----------------------------------------------------------------------------
(* The order and the lattice operations.                                   *)

\* Bits chosen independently, each allowed by its trit, make a word of t.
LEMMA GammaPick ==
  ASSUME NEW t \in Tnum, NEW f \in [0 .. W - 1 -> {0, 1}],
         \A i \in 0 .. W - 1 : f[i] \in trit_gamma(t[i + 1])
  PROVE  \E x \in tnum_gamma(t) : \A i \in 0 .. W - 1 : Bit(x, i) = f[i]
<1>1. W \in Nat /\ t \in TnumOf(W)
  BY WAssumption DEF Tnum
<1> DEFINE x == FromBits(f)
<1>2. x \in 0 .. 2^W - 1 /\ \A i \in 0 .. W - 1 : Bit(x, i) = f[i]
  BY FromBitsDigits DEF Word
<1> HIDE DEF x
<1>3. x \in tnum_gamma(t)
  BY <1>1, <1>2, GammaMember
<1> QED
  BY <1>2, <1>3

\* A bit of a word can be changed to any that the trit allows.
LEMMA GammaBit ==
  ASSUME NEW t \in Tnum, NEW x \in tnum_gamma(t), NEW i \in 0 .. W - 1,
         NEW c \in trit_gamma(t[i + 1])
  PROVE  \E z \in tnum_gamma(t) :
           /\ Bit(z, i) = c
           /\ \A j \in 0 .. W - 1 : j # i => Bit(z, j) = Bit(x, j)
<1>1. W \in Nat /\ t \in TnumOf(W) /\ x \in Word
  BY WAssumption, GammaWords DEF Tnum
<1>2. \A j \in 0 .. W - 1 : /\ Bit(x, j) \in trit_gamma(t[j + 1])
                            /\ t[j + 1] \in Trit /\ Bit(x, j) \in {0, 1}
  <2>1. \A j \in 0 .. W - 1 : j + 1 \in 1 .. W
    BY <1>1
  <2> QED
    BY <1>1, <2>1, GammaMember, TnumLen, WordBitType
<1> DEFINE f == [j \in 0 .. W - 1 |-> IF j = i THEN c ELSE Bit(x, j)]
<1>3. /\ f \in [0 .. W - 1 -> {0, 1}]
      /\ \A j \in 0 .. W - 1 : f[j] \in trit_gamma(t[j + 1])
  <2>1. c \in {0, 1}
    BY <1>2, TritBits
  <2> QED
    BY <1>2, <2>1
<1>4. PICK z \in tnum_gamma(t) : \A j \in 0 .. W - 1 : Bit(z, j) = f[j]
  <2> HIDE DEF f
  <2> QED
    BY <1>3, GammaPick
<1> QED
  BY <1>4

\* Every tnum stands for some word.
LEMMA GammaNonempty ==
  ASSUME NEW t \in Tnum
  PROVE  tnum_gamma(t) # {}
<1> DEFINE f == [i \in 0 .. W - 1 |-> IF t[i + 1] = 1 THEN 1 ELSE 0]
<1>1. W \in Nat /\ t \in TnumOf(W)
  BY WAssumption DEF Tnum
<1>2. /\ f \in [0 .. W - 1 -> {0, 1}]
      /\ \A i \in 0 .. W - 1 : f[i] \in trit_gamma(t[i + 1])
  <2>1. \A i \in 0 .. W - 1 : i + 1 \in 1 .. W
    BY <1>1
  <2>2. \A i \in 0 .. W - 1 : t[i + 1] \in {0, 1, 2}
    BY <1>1, <2>1, TnumLen DEF Trit, X
  <2> QED
    BY <2>2 DEF trit_gamma, X
<1> HIDE DEF f
<1>3. \E x \in tnum_gamma(t) : \A i \in 0 .. W - 1 : Bit(x, i) = f[i]
  BY <1>2, GammaPick
<1> QED
  BY <1>3

\* Order of trits is inclusion.
LEMMA TritOrder ==
  ASSUME NEW s \in Trit, NEW t \in Trit
  PROVE  trit_le(s, t) <=> trit_gamma(s) \subseteq trit_gamma(t)
  BY DEF trit_le, trit_gamma, Trit, X

\* The order of tnums is inclusion of the sets they stand for.
LEMMA TnumOrder ==
  ASSUME NEW s \in Tnum, NEW t \in Tnum
  PROVE  tnum_le(s, t) <=> tnum_gamma(s) \subseteq tnum_gamma(t)
<1>1. /\ W \in Nat /\ s \in TnumOf(W) /\ t \in TnumOf(W)
      /\ \A i \in 1 .. W : s[i] \in Trit /\ t[i] \in Trit
  <2>1. W \in Nat /\ s \in TnumOf(W) /\ t \in TnumOf(W)
    BY WAssumption DEF Tnum
  <2> QED
    BY <2>1, TnumLen
<1>2. ASSUME tnum_le(s, t), NEW x \in tnum_gamma(s)
      PROVE  x \in tnum_gamma(t)
  <2>1. /\ x \in 0 .. 2^W - 1
        /\ \A i \in 0 .. W - 1 : Bit(x, i) \in trit_gamma(s[i + 1])
    BY <1>1, GammaMember
  <2>2. ASSUME NEW i \in 0 .. W - 1
        PROVE  Bit(x, i) \in trit_gamma(t[i + 1])
    <3>1. i + 1 \in 1 .. W
      BY <1>1
    <3>2. trit_gamma(s[i + 1]) \subseteq trit_gamma(t[i + 1])
      BY <1>1, <1>2, <3>1, TritOrder DEF tnum_le
    <3> QED
      BY <2>1, <3>2
  <2> QED
    BY <1>1, <2>1, <2>2, GammaMember
<1>3. ASSUME tnum_gamma(s) \subseteq tnum_gamma(t), NEW i \in 1 .. W
      PROVE  trit_le(s[i], t[i])
  <2>1. i - 1 \in 0 .. W - 1 /\ (i - 1) + 1 = i
    BY <1>1
  <2>2. PICK x : x \in tnum_gamma(s)
    BY GammaNonempty
  <2>3. ASSUME NEW c \in trit_gamma(s[i])
        PROVE  c \in trit_gamma(t[i])
    <3>1. c \in trit_gamma(s[(i - 1) + 1])
      BY <2>1
    <3>2. PICK z \in tnum_gamma(s) : Bit(z, i - 1) = c
      BY <2>1, <2>2, <3>1, GammaBit
    <3>3. z \in tnum_gamma(t)
      BY <1>3
    <3>4. Bit(z, i - 1) \in trit_gamma(t[(i - 1) + 1])
      BY <1>1, <2>1, <3>3, GammaMember
    <3> QED
      BY <2>1, <3>2, <3>4
  <2> QED
    BY <1>1, <2>3, TritOrder
<1> QED
  BY <1>2, <1>3 DEF tnum_le

\* The cases of avalue_le.
LEMMA OrderCases ==
  ASSUME NEW d \in avalues, NEW e \in avalues
  PROVE  /\ e.tag = "top" => avalue_le(d, e)
         /\ e.tag # "top" /\ e.tag # d.tag => ~avalue_le(d, e)
         /\ d.tag = "scalar" /\ e.tag = "scalar"
              => (avalue_le(d, e) <=> tnum_le(d.t, e.t))
         /\ d.tag = "pointer" /\ e.tag = "pointer"
              => (avalue_le(d, e) <=> d.m = e.m /\ tnum_le(d.t, e.t))
         /\ d.tag = "uninitialized" /\ e.tag = d.tag => avalue_le(d, e)
<1>1. e = top <=> e.tag = "top"
  BY AbstractShapes
<1> QED
  BY <1>1 DEF avalue_le, SameShape, HasTnum

\* The order of abstract values is inclusion of the sets they stand for.
LEMMA ValueOrder ==
  ASSUME NEW d \in avalues, NEW e \in avalues
  PROVE  avalue_le(d, e) <=> avalue_gamma(d) \subseteq avalue_gamma(e)
<1>1. CASE e.tag = "top"
  BY <1>1, OrderCases, GammaShapes
<1>2. CASE e.tag # "top" /\ e.tag # d.tag
  <2>1. \E v \in avalue_gamma(d) : v.tag # e.tag
    <3>1. CASE d.tag = "scalar"
      <4>1. PICK x : x \in tnum_gamma(d.t)
        BY <3>1, AbstractShapes, GammaNonempty
      <4>2. scalar(x) \in avalue_gamma(d) /\ scalar(x).tag = "scalar"
        BY <3>1, <4>1, GammaShapes, ValueShapes
      <4> QED
        BY <1>2, <3>1, <4>2
    <3>2. CASE d.tag = "pointer"
      <4>1. PICK x : x \in tnum_gamma(d.t)
        BY <3>2, AbstractShapes, GammaNonempty
      <4>2. pointer(d.m, x) \in avalue_gamma(d) /\ pointer(d.m, x).tag = "pointer"
        BY <3>2, <4>1, GammaShapes, ValueShapes
      <4> QED
        BY <1>2, <3>2, <4>2
    <3>3. CASE d.tag = "uninitialized"
      BY <1>2, <3>3, GammaShapes, ValueShapes
    <3>4. CASE d.tag = "top"
      <4>1. uninitialized \in avalue_gamma(d) /\ scalar(0) \in avalue_gamma(d)
        <5>1. uninitialized \in Value /\ scalar(0) \in Value
          BY ValueShapes, WordFacts
        <5> QED
          BY <3>4, <5>1, GammaShapes
      <4> QED
        BY <4>1, ValueShapes
    <3> QED
      BY <3>1, <3>2, <3>3, <3>4, AbstractShapes
  <2>2. \A v \in avalue_gamma(e) : v.tag = e.tag
    BY <1>2, AbstractShapes, GammaShapes, ValueShapes
  <2> QED
    BY <1>2, <2>1, <2>2, OrderCases
<1>3. CASE d.tag = "scalar" /\ e.tag = "scalar"
  <2>1. d.t \in Tnum /\ e.t \in Tnum
    BY <1>3, AbstractShapes
  <2>2. avalue_gamma(d) \subseteq avalue_gamma(e)
          <=> tnum_gamma(d.t) \subseteq tnum_gamma(e.t)
    <3>1. \A x, y : scalar(x) = scalar(y) => x = y
      BY DEF scalar
    <3>2. \A c \in avalues : c.tag = "scalar" =>
            \A x : scalar(x) \in avalue_gamma(c) <=> x \in tnum_gamma(c.t)
      BY <3>1, GammaShapes
    <3>3. \A v \in avalue_gamma(d) : \E x \in tnum_gamma(d.t) : v = scalar(x)
      BY <1>3, GammaShapes
    <3> QED
      BY <1>3, <3>2, <3>3
  <2> QED
    BY <1>3, <2>1, <2>2, OrderCases, TnumOrder
<1>4. CASE d.tag = "pointer" /\ e.tag = "pointer"
  <2>1. d.t \in Tnum /\ e.t \in Tnum
    BY <1>4, AbstractShapes
  <2>2. \E x : x \in tnum_gamma(d.t)
    BY <2>1, GammaNonempty
  <2>3. avalue_gamma(d) \subseteq avalue_gamma(e)
          <=> d.m = e.m /\ tnum_gamma(d.t) \subseteq tnum_gamma(e.t)
    <3>1. \A m, n, x, y : pointer(m, x) = pointer(n, y) => m = n /\ x = y
      BY DEF pointer
    <3>2. \A c \in avalues : c.tag = "pointer" =>
            \A m, x : pointer(m, x) \in avalue_gamma(c)
                        <=> m = c.m /\ x \in tnum_gamma(c.t)
      BY <3>1, GammaShapes
    <3>3. \A v \in avalue_gamma(d) :
            \E x \in tnum_gamma(d.t) : v = pointer(d.m, x)
      BY <1>4, GammaShapes
    <3> QED
      BY <1>4, <2>2, <3>2, <3>3
  <2> QED
    BY <1>4, <2>1, <2>3, OrderCases, TnumOrder
<1>5. CASE d.tag = "uninitialized" /\ e.tag = d.tag
  BY <1>5, OrderCases, GammaShapes
<1> QED
  BY <1>1, <1>2, <1>3, <1>4, <1>5, AbstractShapes

\* The join of tnums is their least upper bound.
LEMMA TnumJoinLeast ==
  ASSUME NEW s \in Tnum, NEW t \in Tnum
  PROVE  /\ tnum_le(s, tnum_join(s, t)) /\ tnum_le(t, tnum_join(s, t))
         /\ \A u \in Tnum : tnum_le(s, u) /\ tnum_le(t, u)
                              => tnum_le(tnum_join(s, t), u)
<1>1. \A u \in Tnum : Len(u) = W /\ \A i \in 1 .. W : u[i] \in Trit
  <2>1. W \in Nat
    BY WAssumption
  <2> QED
    BY <2>1, TnumLen DEF Tnum
<1>2. \A i \in 1 .. W : tnum_join(s, t)[i] = trit_join(s[i], t[i])
  BY <1>1 DEF tnum_join, Map2
<1>3. \A i \in 1 .. W : /\ trit_le(s[i], trit_join(s[i], t[i]))
                        /\ trit_le(t[i], trit_join(s[i], t[i]))
  BY <1>1, TritJoin
<1>4. ASSUME NEW u \in Tnum, tnum_le(s, u), tnum_le(t, u), NEW i \in 1 .. W
      PROVE  trit_le(tnum_join(s, t)[i], u[i])
  <2>1. trit_le(s[i], u[i]) /\ trit_le(t[i], u[i])
    BY <1>4 DEF tnum_le
  <2> QED
    BY <1>1, <1>2, <2>1, TritJoin
<1> QED
  BY <1>2, <1>3, <1>4 DEF tnum_le

\* avalue_join is the least upper bound of avalue_le.
LEMMA JoinLeast ==
  ASSUME NEW d \in avalues, NEW e \in avalues
  PROVE  LET j == avalue_join(d, e)
         IN  /\ avalue_le(d, j) /\ avalue_le(e, j)
             /\ \A c \in avalues : avalue_le(d, c) /\ avalue_le(e, c)
                                     => avalue_le(j, c)
<1> DEFINE j == avalue_join(d, e)
<1>0. j \in avalues
  BY JoinValues
<1>1. CASE d.tag = "scalar" /\ e.tag = "scalar"
  <2>1. d.t \in Tnum /\ e.t \in Tnum
    BY <1>1, AbstractShapes
  <2>2. j.tag = "scalar" /\ j.t = tnum_join(d.t, e.t)
    BY <1>1, JoinCases, AbstractShapes
  <2>3. avalue_le(d, j) /\ avalue_le(e, j)
    BY <1>0, <1>1, <2>1, <2>2, TnumJoinLeast, OrderCases
  <2>4. ASSUME NEW c \in avalues, avalue_le(d, c), avalue_le(e, c)
        PROVE  avalue_le(j, c)
    <3>1. CASE c.tag = "top"
      BY <1>0, <3>1, OrderCases
    <3>2. CASE c.tag # "top"
      <4>1. c.tag = "scalar" /\ c.t \in Tnum
        BY <1>1, <2>4, <3>2, OrderCases, AbstractShapes
      <4>2. tnum_le(d.t, c.t) /\ tnum_le(e.t, c.t)
        BY <1>1, <2>4, <4>1, OrderCases
      <4> QED
        BY <1>0, <2>1, <2>2, <4>1, <4>2, TnumJoinLeast, OrderCases
    <3> QED
      BY <3>1, <3>2
  <2> QED
    BY <2>3, <2>4
<1>2. CASE d.tag = "pointer" /\ e.tag = "pointer" /\ d.m = e.m
  <2>1. d.t \in Tnum /\ e.t \in Tnum /\ d.m \in Region
    BY <1>2, AbstractShapes
  <2>2. j.tag = "pointer" /\ j.m = d.m /\ j.t = tnum_join(d.t, e.t)
    BY <1>2, JoinCases, AbstractShapes
  <2>3. avalue_le(d, j) /\ avalue_le(e, j)
    BY <1>0, <1>2, <2>1, <2>2, TnumJoinLeast, OrderCases
  <2>4. ASSUME NEW c \in avalues, avalue_le(d, c), avalue_le(e, c)
        PROVE  avalue_le(j, c)
    <3>1. CASE c.tag = "top"
      BY <1>0, <3>1, OrderCases
    <3>2. CASE c.tag # "top"
      <4>1. c.tag = "pointer" /\ c.t \in Tnum
        BY <1>2, <2>4, <3>2, OrderCases, AbstractShapes
      <4>2. d.m = c.m /\ tnum_le(d.t, c.t) /\ tnum_le(e.t, c.t)
        BY <1>2, <2>4, <4>1, OrderCases
      <4> QED
        BY <1>0, <2>1, <2>2, <4>1, <4>2, TnumJoinLeast, OrderCases
    <3> QED
      BY <3>1, <3>2
  <2> QED
    BY <2>3, <2>4
<1>3. CASE d.tag \in {"uninitialized", "top"} /\ e.tag = d.tag
  <2>1. j = d
    BY <1>3, JoinCases
  <2>2. avalue_le(d, d) /\ avalue_le(e, d)
    BY <1>3, OrderCases
  <2> QED
    BY <2>1, <2>2
<1>4. CASE ~SameShape(d, e)
  <2>1. j.tag = "top"
    BY <1>4, JoinCases, AbstractShapes
  <2>2. avalue_le(d, j) /\ avalue_le(e, j)
    BY <1>0, <2>1, OrderCases
  <2>3. ASSUME NEW c \in avalues, avalue_le(d, c), avalue_le(e, c)
        PROVE  c.tag = "top"
    <3>1. SUFFICES ASSUME c.tag # "top" PROVE FALSE
      OBVIOUS
    <3>2. c.tag = d.tag /\ c.tag = e.tag
      BY <2>3, <3>1, OrderCases
    <3>3. d.tag = "pointer" => d.m = c.m /\ e.m = c.m
      BY <2>3, <3>2, OrderCases
    <3> QED
      BY <1>4, <3>2, <3>3 DEF SameShape
  <2> QED
    BY <1>0, <2>2, <2>3, OrderCases
<1> QED
  BY <1>1, <1>2, <1>3, <1>4, AbstractShapes DEF SameShape

\* The meet of tnums stands for the words both stand for.
LEMMA MeetCovers ==
  ASSUME NEW s \in Tnum, NEW t \in Tnum
  PROVE  LET m == tnum_meet(s, t)
             both == tnum_gamma(s) \cap tnum_gamma(t)
         IN  IF m = NoTnum THEN both = {} ELSE tnum_gamma(m) = both
<1> DEFINE m == tnum_meet(s, t)
           both == tnum_gamma(s) \cap tnum_gamma(t)
           Clash(i) == X \notin {s[i], t[i]} /\ s[i] # t[i]
           pick(u, v) == IF u = X THEN v ELSE u
<1>1. /\ W \in Nat /\ s \in TnumOf(W) /\ t \in TnumOf(W) /\ Len(s) = W
      /\ \A i \in 1 .. W : s[i] \in Trit /\ t[i] \in Trit
  <2>1. W \in Nat /\ s \in TnumOf(W) /\ t \in TnumOf(W)
    BY WAssumption DEF Tnum
  <2> QED
    BY <2>1, TnumLen
<1>2. CASE \E i \in 1 .. W : Clash(i)
  <2>1. m = NoTnum
    BY <1>2 DEF tnum_meet
  <2>2. PICK i \in 1 .. W : Clash(i)
    BY <1>2
  <2>3. i - 1 \in 0 .. W - 1 /\ (i - 1) + 1 = i
    BY <1>1
  <2>4. trit_gamma(s[i]) \cap trit_gamma(t[i]) = {}
    BY <2>2 DEF trit_gamma
  <2>5. ASSUME NEW x, x \in both PROVE FALSE
    <3>1. /\ Bit(x, i - 1) \in trit_gamma(s[(i - 1) + 1])
          /\ Bit(x, i - 1) \in trit_gamma(t[(i - 1) + 1])
      BY <1>1, <2>3, <2>5, GammaMember
    <3> QED
      BY <2>3, <2>4, <3>1
  <2> QED
    BY <2>1, <2>5
<1>3. CASE ~ \E i \in 1 .. W : Clash(i)
  <2>1. m = [i \in 1 .. W |-> pick(s[i], t[i])]
    BY <1>1, <1>3 DEF tnum_meet, Map2
  <2>2. \A i \in 1 .. W : pick(s[i], t[i]) \in Trit
    BY <1>1
  <2>3. m \in TnumOf(W) /\ m # NoTnum
    <3>1. m \in TnumOf(W)
      <4> HIDE DEF m, pick
      <4> QED
        BY <2>1, <2>2 DEF TnumOf
    <3> QED
      BY <3>1, NoTnumAssumption DEF Tnum
  <2>4. ASSUME NEW i \in 0 .. W - 1
        PROVE  trit_gamma(m[i + 1])
                 = trit_gamma(s[i + 1]) \cap trit_gamma(t[i + 1])
    <3>1. i + 1 \in 1 .. W
      BY <1>1
    <3>2. s[i + 1] \in Trit /\ t[i + 1] \in Trit /\ ~Clash(i + 1)
      BY <1>1, <1>3, <3>1
    <3>3. m[i + 1] = pick(s[i + 1], t[i + 1])
      <4> HIDE DEF m, pick
      <4> QED
        BY <2>1, <3>1
    <3>4. \A u \in Trit, v \in Trit :
            ~(X \notin {u, v} /\ u # v)
              => trit_gamma(pick(u, v)) = trit_gamma(u) \cap trit_gamma(v)
      BY DEF trit_gamma, Trit, X
    <3>5. trit_gamma(pick(s[i + 1], t[i + 1]))
            = trit_gamma(s[i + 1]) \cap trit_gamma(t[i + 1])
      <4> HIDE DEF pick
      <4> QED
        BY <3>2, <3>4
    <3> QED
      BY <3>3, <3>5
  <2>5. \A x : x \in tnum_gamma(m) <=> x \in tnum_gamma(s) /\ x \in tnum_gamma(t)
    <3> HIDE DEF m
    <3>1. TAKE x
    <3>2. \A u \in TnumOf(W) :
            x \in tnum_gamma(u) <=>
              /\ x \in 0 .. 2^W - 1
              /\ \A i \in 0 .. W - 1 : Bit(x, i) \in trit_gamma(u[i + 1])
      BY <1>1, GammaMember
    <3>3. x \in tnum_gamma(m) <=>
            /\ x \in 0 .. 2^W - 1
            /\ \A i \in 0 .. W - 1 : Bit(x, i) \in trit_gamma(m[i + 1])
      BY <2>3, <3>2, Zenon
    <3>4. x \in tnum_gamma(s) /\ x \in tnum_gamma(t) <=>
            /\ x \in 0 .. 2^W - 1
            /\ \A i \in 0 .. W - 1 : /\ Bit(x, i) \in trit_gamma(s[i + 1])
                                    /\ Bit(x, i) \in trit_gamma(t[i + 1])
      BY <1>1, <3>2, Zenon
    <3> QED
      BY <2>4, <3>3, <3>4
  <2> QED
    BY <2>3, <2>5
<1> QED
  BY <1>2, <1>3

(***************************************************************************)
(* The laws of the lattice of abstract values (value.lean, tnum.lean) that *)
(* the solver and the final check rely on: the decided order is inclusion, *)
(* the join is the least upper bound, the meet of tnums is intersection.   *)
(***************************************************************************)
THEOREM WalkLatticeLaws == WalkSpec => []LatticeLaws
<1>1. WalkInv => LatticeLaws
  <2> SUFFICES ASSUME WalkInv PROVE LatticeLaws
    OBVIOUS
  <2>1. abs \in avalues
    BY DEF WalkInv
  <2>2. OrderIsInclusion
    BY <2>1, ValueOrder DEF OrderIsInclusion
  <2>3. JoinIsLeast
    BY <2>1, JoinLeast DEF JoinIsLeast
  <2>4. MeetIsIntersection
    <3>1. HasTnum(abs) => abs.t \in Tnum
      BY <2>1, AbstractShapes DEF HasTnum
    <3> QED
      BY <3>1, MeetCovers DEF MeetIsIntersection
  <2> QED
    BY <2>2, <2>3, <2>4 DEF LatticeLaws
<1> QED
  BY <1>1, WalkInvariant, PTL

-----------------------------------------------------------------------------
(* Monotonicity.                                                           *)

\* The order of tnums of n trits.
Below(n, s, t) == \A i \in 1 .. n : trit_le(s[i], t[i])

LEMMA TritMonotone ==
  ASSUME NEW s \in Trit, NEW t \in Trit, NEW u \in Trit, NEW v \in Trit,
         trit_le(s, u), trit_le(t, v)
  PROVE  /\ trit_le(trit_and(s, t), trit_and(u, v))
         /\ trit_le(trit_or(s, t), trit_or(u, v))
         /\ trit_le(trit_xor(s, t), trit_xor(u, v))
         /\ trit_le(trit_join(s, t), trit_join(u, v))
         /\ trit_le(trit_not(s), trit_not(u))
<1>1. trit_le(trit_and(s, t), trit_and(u, v))
  BY DEF trit_and, trit_le, Trit, X
<1>2. trit_le(trit_or(s, t), trit_or(u, v))
  BY DEF trit_or, trit_le, Trit, X
<1>3. trit_le(trit_xor(s, t), trit_xor(u, v))
  BY DEF trit_xor, trit_le, Trit, X
<1>4. trit_le(trit_join(s, t), trit_join(u, v))
  BY DEF trit_join, trit_le, Trit, X
<1>5. trit_le(trit_not(s), trit_not(u))
  BY DEF trit_not, trit_le, Trit, X
<1> QED
  BY <1>1, <1>2, <1>3, <1>4, <1>5

\* A trit that a carry or a sum loses is lost by larger inputs too.
LEMMA FullAddMonotone ==
  ASSUME NEW s \in Trit, NEW t \in Trit, NEW c \in Trit,
         NEW u \in Trit, NEW v \in Trit, NEW k \in Trit,
         trit_le(s, u), trit_le(t, v), trit_le(c, k)
  PROVE  /\ trit_le(full_add(s, t, c)[1], full_add(u, v, k)[1])
         /\ trit_le(full_add(s, t, c)[2], full_add(u, v, k)[2])
<1>1. \A p \in Trit, q \in Trit, r \in Trit :
        LET lo == full_add(p, q, r)[1]
            hi == full_add(p, q, r)[2]
        IN  /\ X \notin {p, q, r} => lo = (p + q + r) % 2 /\ hi = (p + q + r) \div 2
            /\ X \in {p, q, r} => lo = X
            /\ X \in {p, q, r} /\ hi # X =>
                 \/ p = q /\ hi = p
                 \/ p = r /\ hi = p
                 \/ q = r /\ hi = q
            /\ X \in {p, q, r} =>
                 /\ p = q /\ p # X => hi = p
                 /\ p = r /\ p # X => hi = p
                 /\ q = r /\ q # X => hi = q
  BY DEF full_add, Trit, X
<1>2. \A p \in Trit, q \in Trit : trit_le(p, q) <=> q = X \/ p = q
  BY DEF trit_le
<1> QED
  BY <1>1, <1>2 DEF Trit, X

\* The adder is monotone.
LEMMA AdcMonotone ==
  ASSUME NEW n \in Nat, NEW s \in TnumOf(n), NEW t \in TnumOf(n), NEW c \in Trit,
         NEW u \in TnumOf(n), NEW v \in TnumOf(n), Below(n, s, u), Below(n, t, v)
  PROVE  Below(n, tnum_adc(s, t, c), tnum_adc(u, v, c))
<1>1. PICK k \in Carries(s, t, c, n) :
        tnum_adc(s, t, c) = [i \in 1 .. n |-> full_add(s[i], t[i], k[i])[1]]
  BY AdcUnfold
<1>2. PICK l \in Carries(u, v, c, n) :
        tnum_adc(u, v, c) = [i \in 1 .. n |-> full_add(u[i], v[i], l[i])[1]]
  BY AdcUnfold
<1>3. \A i \in 1 .. n : /\ s[i] \in Trit /\ t[i] \in Trit
                        /\ u[i] \in Trit /\ v[i] \in Trit
                        /\ trit_le(s[i], u[i]) /\ trit_le(t[i], v[i])
  BY TnumLen DEF Below
<1>4. /\ \A i \in 1 .. n + 1 : k[i] \in Trit /\ l[i] \in Trit
      /\ k[1] = c /\ l[1] = c
      /\ \A i \in 1 .. n : /\ k[i + 1] = full_add(s[i], t[i], k[i])[2]
                           /\ l[i + 1] = full_add(u[i], v[i], l[i])[2]
  BY DEF Carries
<1> DEFINE S == {i \in Nat : i <= n => trit_le(k[i + 1], l[i + 1])}
<1>5. 0 \in S
  BY <1>4 DEF trit_le
<1>6. ASSUME NEW i \in Nat, i \in S PROVE i + 1 \in S
  <2>1. SUFFICES ASSUME i + 1 <= n
                 PROVE  trit_le(k[(i + 1) + 1], l[(i + 1) + 1])
    OBVIOUS
  <2>2. i + 1 \in 1 .. n /\ i + 1 \in 1 .. n + 1 /\ trit_le(k[i + 1], l[i + 1])
    BY <1>6, <2>1
  <2>3. /\ k[(i + 1) + 1] = full_add(s[i + 1], t[i + 1], k[i + 1])[2]
        /\ l[(i + 1) + 1] = full_add(u[i + 1], v[i + 1], l[i + 1])[2]
    BY <1>4, <2>2
  <2>4. /\ s[i + 1] \in Trit /\ t[i + 1] \in Trit /\ k[i + 1] \in Trit
        /\ u[i + 1] \in Trit /\ v[i + 1] \in Trit /\ l[i + 1] \in Trit
        /\ trit_le(s[i + 1], u[i + 1]) /\ trit_le(t[i + 1], v[i + 1])
    BY <1>3, <1>4, <2>2
  <2>5. trit_le(full_add(s[i + 1], t[i + 1], k[i + 1])[2],
                full_add(u[i + 1], v[i + 1], l[i + 1])[2])
    BY <2>2, <2>4, FullAddMonotone
  <2> QED
    BY <2>3, <2>5
<1> HIDE DEF S
<1>7. \A i \in Nat : i \in S
  BY <1>5, <1>6, SetInduction
<1>8. ASSUME NEW i \in 1 .. n
      PROVE  trit_le(full_add(s[i], t[i], k[i])[1], full_add(u[i], v[i], l[i])[1])
  <2>1. i - 1 \in Nat /\ (i - 1) + 1 = i /\ i - 1 <= n /\ i \in 1 .. n + 1
    OBVIOUS
  <2>2. trit_le(k[i], l[i])
    BY <1>7, <2>1 DEF S
  <2> QED
    BY <1>3, <1>4, <2>1, <2>2, FullAddMonotone
<1> QED
  BY <1>1, <1>2, <1>8 DEF Below

\* What a tnum of word length is made of.
LEMMA TnumParts ==
  ASSUME NEW s \in Tnum
  PROVE  /\ W \in Nat /\ s \in TnumOf(W) /\ Len(s) = W
         /\ \A i \in 1 .. W : s[i] \in Trit
<1>1. W \in Nat /\ s \in TnumOf(W)
  BY WAssumption DEF Tnum
<1> QED
  BY <1>1, TnumLen

\* The bitwise operations and join are monotone,
LEMMA BitwiseMonotone ==
  ASSUME NEW s \in Tnum, NEW t \in Tnum, NEW u \in Tnum, NEW v \in Tnum,
         tnum_le(s, u), tnum_le(t, v)
  PROVE  /\ tnum_le(tnum_and(s, t), tnum_and(u, v))
         /\ tnum_le(tnum_or(s, t), tnum_or(u, v))
         /\ tnum_le(tnum_xor(s, t), tnum_xor(u, v))
         /\ tnum_le(tnum_join(s, t), tnum_join(u, v))
         /\ tnum_le(tnum_not(s), tnum_not(u))
<1>1. \A i \in 1 .. W : /\ s[i] \in Trit /\ t[i] \in Trit
                        /\ u[i] \in Trit /\ v[i] \in Trit
                        /\ trit_le(s[i], u[i]) /\ trit_le(t[i], v[i])
  BY TnumParts DEF tnum_le
<1>2. Len(s) = W /\ Len(u) = W
  BY TnumParts
<1>3. \A i \in 1 .. W :
        /\ trit_le(trit_and(s[i], t[i]), trit_and(u[i], v[i]))
        /\ trit_le(trit_or(s[i], t[i]), trit_or(u[i], v[i]))
        /\ trit_le(trit_xor(s[i], t[i]), trit_xor(u[i], v[i]))
        /\ trit_le(trit_join(s[i], t[i]), trit_join(u[i], v[i]))
        /\ trit_le(trit_not(s[i]), trit_not(u[i]))
  BY <1>1, TritMonotone
<1>4. tnum_le(tnum_and(s, t), tnum_and(u, v))
  BY <1>2, <1>3 DEF tnum_le, tnum_and, Map2
<1>5. tnum_le(tnum_or(s, t), tnum_or(u, v))
  BY <1>2, <1>3 DEF tnum_le, tnum_or, Map2
<1>6. tnum_le(tnum_xor(s, t), tnum_xor(u, v))
  BY <1>2, <1>3 DEF tnum_le, tnum_xor, Map2
<1>7. tnum_le(tnum_join(s, t), tnum_join(u, v))
  BY <1>2, <1>3 DEF tnum_le, tnum_join, Map2
<1>8. tnum_le(tnum_not(s), tnum_not(u))
  BY <1>2, <1>3 DEF tnum_le, tnum_not, Map
<1> QED
  BY <1>4, <1>5, <1>6, <1>7, <1>8

\* addition, subtraction and negation,
LEMMA SumsMonotone ==
  ASSUME NEW s \in Tnum, NEW t \in Tnum, NEW u \in Tnum, tnum_le(s, u)
  PROVE  /\ tnum_le(tnum_add(s, t), tnum_add(u, t))
         /\ tnum_le(tnum_sub(s, t), tnum_sub(u, t))
         /\ tnum_le(tnum_neg(s), tnum_neg(u))
<1>1. /\ W \in Nat /\ s \in TnumOf(W) /\ t \in TnumOf(W) /\ u \in TnumOf(W)
      /\ 0 \in Trit /\ 1 \in Trit /\ 1 \in Word
  <2>1. 1 \in Word
    <3>1. W < 2^W /\ 2^W \in Nat
      BY WAssumption, PowerAbove, PowerFacts
    <3> QED
      BY <3>1, WAssumption DEF Word
  <2> QED
    BY <2>1, TnumParts DEF Trit
<1>2. \A p \in Tnum, q \in Tnum : tnum_le(p, q) <=> Below(W, p, q)
  BY DEF tnum_le, Below
<1>3. \A p \in Tnum : Below(W, p, p)
  BY DEF Below, trit_le
<1>4. /\ tnum_not(s) \in Tnum /\ tnum_not(t) \in Tnum /\ tnum_not(u) \in Tnum
      /\ tnum_const(1) \in Tnum
  BY <1>1, NotCovers, ConstCovers DEF Tnum
<1>5. \A p \in Tnum, q \in Tnum, r \in Tnum, c \in Trit :
        Below(W, p, q) => tnum_le(tnum_adc(p, r, c), tnum_adc(q, r, c))
  <2> SUFFICES ASSUME NEW p \in Tnum, NEW q \in Tnum, NEW r \in Tnum,
                      NEW c \in Trit, Below(W, p, q)
               PROVE  tnum_le(tnum_adc(p, r, c), tnum_adc(q, r, c))
    OBVIOUS
  <2>1. p \in TnumOf(W) /\ q \in TnumOf(W) /\ r \in TnumOf(W) /\ Below(W, r, r)
    BY <1>3, TnumParts
  <2>2. Below(W, tnum_adc(p, r, c), tnum_adc(q, r, c))
    BY <1>1, <2>1, AdcMonotone
  <2> QED
    BY <2>2 DEF tnum_le, Below
<1>6. Below(W, s, u) /\ Below(W, tnum_not(s), tnum_not(u))
  <2>1. tnum_le(t, t)
    BY DEF tnum_le, trit_le
  <2>2. tnum_le(tnum_not(s), tnum_not(u))
    BY <2>1, BitwiseMonotone
  <2> QED
    BY <1>2, <1>4, <2>2
<1>7. tnum_le(tnum_add(s, t), tnum_add(u, t))
  BY <1>1, <1>5, <1>6 DEF tnum_add
<1>8. tnum_le(tnum_sub(s, t), tnum_sub(u, t))
  BY <1>1, <1>4, <1>5, <1>6 DEF tnum_sub
<1>9. tnum_le(tnum_neg(s), tnum_neg(u))
  BY <1>1, <1>4, <1>5, <1>6 DEF tnum_neg, tnum_add
<1> QED
  BY <1>7, <1>8, <1>9

\* a round of the multiplication,
LEMMA MulStepMonotone ==
  ASSUME NEW s \in Tnum, NEW t \in Tnum, NEW u \in Tnum, tnum_le(s, u),
         NEW n \in 1 .. W, NEW v \in TnumOf(n - 1), NEW w \in TnumOf(n - 1),
         Below(n - 1, v, w)
  PROVE  Below(n, MulStep(s, t, n, v), MulStep(u, t, n, w))
<1> DEFINE c == t[W - n + 1]
           row(a1) == tnum_and(SubSeq(a1, 1, n), Repeat(c, n))
           p == row(s)
           q == row(u)
<1>1. /\ W \in Nat /\ n \in Nat /\ n - 1 \in Nat /\ n \in 0 .. W
      /\ (n - 1) + 1 = n /\ W - n + 1 \in 1 .. W
      /\ \A i \in 1 .. n : i \in 1 .. W
  BY WAssumption
<1>2. c \in Trit /\ trit_le(c, c)
  BY <1>1, TnumParts DEF trit_le
<1>3. /\ p = [i \in 1 .. n |-> trit_and(s[i], c)] /\ p \in TnumOf(n)
      /\ q = [i \in 1 .. n |-> trit_and(u[i], c)] /\ q \in TnumOf(n)
  <2> HIDE DEF c
  <2> QED
    BY <1>1, <1>2, RowTrits, RowCovers
<1> HIDE DEF c, p, q
<1>4. Below(n, p, q)
  <2>1. \A i \in 1 .. n :
          s[i] \in Trit /\ u[i] \in Trit /\ trit_le(s[i], u[i])
    BY <1>1, TnumParts DEF tnum_le
  <2>2. \A i \in 1 .. n : trit_le(trit_and(s[i], c), trit_and(u[i], c))
    BY <1>2, <2>1, TritMonotone
  <2> QED
    BY <1>3, <2>2 DEF Below
<1>5. /\ Tail(p) \in TnumOf(n - 1) /\ p[1] \in Trit
      /\ Tail(q) \in TnumOf(n - 1) /\ q[1] \in Trit
      /\ \A i \in 1 .. n - 1 : Tail(p)[i] = p[i + 1] /\ Tail(q)[i] = q[i + 1]
  BY <1>1, <1>3, TailTrits
<1>6. Below(n - 1, Tail(p), Tail(q)) /\ trit_le(p[1], q[1])
  <2>1. 1 \in 1 .. n /\ \A i \in 1 .. n - 1 : i + 1 \in 1 .. n
    BY <1>1
  <2> QED
    BY <1>4, <1>5, <2>1 DEF Below
<1> DEFINE x == tnum_add(Tail(p), v)
           y == tnum_add(Tail(q), w)
<1>7. x \in TnumOf(n - 1) /\ y \in TnumOf(n - 1) /\ Below(n - 1, x, y)
  <2>1. 0 \in Trit
    BY DEF Trit
  <2> QED
    BY <1>1, <1>5, <1>6, <2>1, AdcType, AdcMonotone DEF tnum_add
<1>8. MulStep(s, t, n, v) = <<p[1]>> \o x /\ MulStep(u, t, n, w) = <<q[1]>> \o y
  BY DEF MulStep, p, q, c
<1> HIDE DEF x, y
<1>9. ASSUME NEW i \in 1 .. n
      PROVE  trit_le((<<p[1]>> \o x)[i], (<<q[1]>> \o y)[i])
  <2>1. CASE i = 1
    BY <1>1, <1>5, <1>6, <1>7, <2>1, ConsTrits
  <2>2. CASE i # 1
    <3>1. i - 1 \in 1 .. n - 1 /\ (i - 1) + 1 = i
      BY <1>1, <2>2
    <3>2. /\ (<<p[1]>> \o x)[(i - 1) + 1] = x[i - 1]
          /\ (<<q[1]>> \o y)[(i - 1) + 1] = y[i - 1]
      BY <1>1, <1>5, <1>7, <3>1, ConsTrits
    <3> QED
      BY <1>7, <3>1, <3>2 DEF Below
  <2> QED
    BY <2>1, <2>2
<1> QED
  BY <1>8, <1>9 DEF Below

\* multiplication,
LEMMA MulMonotone ==
  ASSUME NEW s \in Tnum, NEW t \in Tnum, NEW u \in Tnum, tnum_le(s, u)
  PROVE  tnum_le(tnum_mul(s, t), tnum_mul(u, t))
<1>1. PICK f \in Products(s, t) :
        tnum_mul(s, t) = f[W] /\ \A n \in 0 .. W : f[n] \in TnumOf(n)
  BY MulUnfold
<1>2. PICK g \in Products(u, t) :
        tnum_mul(u, t) = g[W] /\ \A n \in 0 .. W : g[n] \in TnumOf(n)
  BY MulUnfold
<1>3. \A n \in 1 .. W : /\ f[n] = MulStep(s, t, n, f[n - 1])
                        /\ g[n] = MulStep(u, t, n, g[n - 1])
  BY DEF Products
<1>4. W \in Nat
  BY WAssumption
<1> DEFINE S == {n \in Nat : n <= W => Below(n, f[n], g[n])}
<1>5. 0 \in S
  BY DEF Below
<1>6. ASSUME NEW n \in Nat, n \in S PROVE n + 1 \in S
  <2>1. SUFFICES ASSUME n + 1 <= W PROVE Below(n + 1, f[n + 1], g[n + 1])
    OBVIOUS
  <2>2. /\ n + 1 \in 1 .. W /\ (n + 1) - 1 = n /\ Below(n, f[n], g[n])
        /\ f[n] \in TnumOf(n) /\ g[n] \in TnumOf(n)
    BY <1>1, <1>2, <1>4, <1>6, <2>1
  <2>3. Below(n + 1, MulStep(s, t, n + 1, f[n]), MulStep(u, t, n + 1, g[n]))
    BY <2>2, MulStepMonotone
  <2>4. f[n + 1] = MulStep(s, t, n + 1, f[n]) /\ g[n + 1] = MulStep(u, t, n + 1, g[n])
    BY <1>3, <2>2
  <2> QED
    BY <2>3, <2>4
<1> HIDE DEF S
<1>7. \A n \in Nat : n \in S
  BY <1>5, <1>6, SetInduction
<1>8. Below(W, f[W], g[W])
  BY <1>4, <1>7 DEF S
<1> QED
  BY <1>1, <1>2, <1>8 DEF tnum_le, Below

\* a step of the shift,
LEMMA ShlStepMonotone ==
  ASSUME NEW k \in Nat, NEW s \in Tnum, NEW u \in Tnum, tnum_le(s, u),
         NEW c \in Trit
  PROVE  tnum_le(shl_step(k, s, c), shl_step(k, u, c))
<1>1. /\ shiftl(s, k) \in Tnum /\ shiftl(u, k) \in Tnum
      /\ tnum_le(shiftl(s, k), shiftl(u, k))
  <2>1. /\ shiftl(s, k) \in Tnum /\ shiftl(u, k) \in Tnum
        /\ \A i \in 1 .. W :
             /\ shiftl(s, k)[i] = IF i <= k THEN 0 ELSE s[i - k]
             /\ shiftl(u, k)[i] = IF i <= k THEN 0 ELSE u[i - k]
    BY ShiftlTrits
  <2>2. \A i \in 1 .. W : i > k => i - k \in 1 .. W
    BY WAssumption
  <2>3. \A i \in 1 .. W : trit_le(shiftl(s, k)[i], shiftl(u, k)[i])
    BY <2>1, <2>2 DEF tnum_le, trit_le
  <2> QED
    BY <2>1, <2>3 DEF tnum_le
<1>2. CASE c = 0
  <2>1. shl_step(k, s, c) = s /\ shl_step(k, u, c) = u
    BY <1>2 DEF shl_step, X
  <2> QED
    BY <2>1
<1>3. CASE c = 1
  <2>1. shl_step(k, s, c) = shiftl(s, k) /\ shl_step(k, u, c) = shiftl(u, k)
    BY <1>3 DEF shl_step, X
  <2> QED
    BY <1>1, <2>1
<1>4. CASE c = X
  <2>1. /\ shl_step(k, s, c) = tnum_join(s, shiftl(s, k))
        /\ shl_step(k, u, c) = tnum_join(u, shiftl(u, k))
    BY <1>4 DEF shl_step, X
  <2> QED
    BY <1>1, <2>1, BitwiseMonotone
<1> QED
  BY <1>2, <1>3, <1>4 DEF Trit

\* shifts to the left,
LEMMA ShlMonotone ==
  ASSUME NEW s \in Tnum, NEW t \in Tnum, NEW u \in Tnum, tnum_le(s, u)
  PROVE  tnum_le(tnum_shl(s, t), tnum_shl(u, t))
<1>1. W \in Nat /\ t \in TnumOf(W) /\ \A j \in 1 .. W : t[j] \in Trit
  BY TnumParts
<1>2. PICK f \in Shifts(1, s, t, W) : shl_aux(1, s, t) = f[W]
  BY <1>1, ShlUnfold
<1>3. PICK g \in Shifts(1, u, t, W) : shl_aux(1, u, t) = g[W]
  BY <1>1, ShlUnfold
<1>4. /\ \A j \in 0 .. W : f[j] \in Tnum /\ g[j] \in Tnum
      /\ f[0] = s /\ g[0] = u
      /\ \A j \in 1 .. W : /\ f[j] = shl_step(1 * 2^(j - 1), f[j - 1], t[j])
                           /\ g[j] = shl_step(1 * 2^(j - 1), g[j - 1], t[j])
  BY DEF Shifts
<1> DEFINE S == {j \in Nat : j <= W => tnum_le(f[j], g[j])}
<1>5. 0 \in S
  BY <1>4
<1>6. ASSUME NEW j \in Nat, j \in S PROVE j + 1 \in S
  <2>1. SUFFICES ASSUME j + 1 <= W PROVE tnum_le(f[j + 1], g[j + 1])
    OBVIOUS
  <2>2. /\ j + 1 \in 1 .. W /\ j \in 0 .. W /\ (j + 1) - 1 = j
        /\ tnum_le(f[j], g[j])
    BY <1>1, <1>6, <2>1
  <2>3. 1 * 2^((j + 1) - 1) \in Nat
    BY <2>2, PowerFacts
  <2> DEFINE k == 1 * 2^((j + 1) - 1)
  <2>4. /\ f[j + 1] = shl_step(k, f[j], t[j + 1])
        /\ g[j + 1] = shl_step(k, g[j], t[j + 1])
    BY <1>4, <2>2
  <2> HIDE DEF k
  <2>5. k \in Nat
    BY <2>3 DEF k
  <2>6. tnum_le(shl_step(k, f[j], t[j + 1]), shl_step(k, g[j], t[j + 1]))
    BY <1>1, <1>4, <2>2, <2>5, ShlStepMonotone
  <2> QED
    BY <2>4, <2>6
<1> HIDE DEF S
<1>7. \A j \in Nat : j \in S
  BY <1>5, <1>6, SetInduction
<1>8. tnum_le(f[W], g[W])
  BY <1>1, <1>7 DEF S
<1> QED
  BY <1>2, <1>3, <1>8 DEF tnum_shl

\* division and remainder,
LEMMA DivMonotone ==
  ASSUME NEW s \in Tnum, NEW t \in Tnum, NEW u \in Tnum, tnum_le(s, u)
  PROVE  /\ tnum_le(tnum_udiv(s, t), tnum_udiv(u, t))
         /\ tnum_le(tnum_urem(s, t), tnum_urem(u, t))
<1>1. \A p : tnum_le(p, p) /\ tnum_le(p, tnum_top)
  BY DEF tnum_le, trit_le, tnum_top, Repeat
<1>2. CASE tnum_is_const(u)
  <2>1. \A i \in 1 .. W : s[i] = u[i]
    BY <1>2 DEF tnum_is_const, tnum_le, trit_le
  <2>2. s = u
    <3>1. s = [i \in 1 .. W |-> s[i]] /\ u = [i \in 1 .. W |-> u[i]]
      BY DEF Tnum, TnumOf
    <3>2. [i \in 1 .. W |-> s[i]] = [i \in 1 .. W |-> u[i]]
      BY <2>1
    <3> QED
      BY <3>1, <3>2
  <2> QED
    BY <1>1, <2>2
<1>3. CASE ~tnum_is_const(u)
  <2>1. tnum_udiv(u, t) = tnum_top /\ tnum_urem(u, t) = tnum_top
    BY <1>3 DEF tnum_udiv, tnum_urem
  <2> QED
    BY <1>1, <2>1
<1> QED
  BY <1>2, <1>3

\* Every operation but MOV on scalars is monotone in its first operand.
LEMMA ScalarMonotone ==
  ASSUME NEW op \in ALU, NEW s \in Tnum, NEW t \in Tnum, NEW u \in Tnum,
         tnum_le(s, u)
  PROVE  tnum_le(doALU_scalar(op, s, t), doALU_scalar(op, u, t))
<1>1. tnum_le(t, t) /\ tnum_le(tnum_top, tnum_top)
  BY DEF tnum_le, trit_le
<1>2. CASE op \in {"ADD", "SUB", "NEG"}
  BY <1>2, AbstractCases, SumsMonotone
<1>3. CASE op \in {"AND", "OR", "XOR"}
  BY <1>1, <1>3, AbstractCases, BitwiseMonotone
<1>4. CASE op \in {"DIV", "MOD"}
  BY <1>4, AbstractCases, DivMonotone
<1>5. CASE op = "MUL"
  BY <1>5, AbstractCases, MulMonotone
<1>6. CASE op = "LSH"
  BY <1>6, AbstractCases, ShlMonotone
<1>7. CASE op \in {"RSH", "ARSH", "MOV", "END"}
  BY <1>1, <1>7, AbstractCases
<1> QED
  BY <1>2, <1>3, <1>4, <1>5, <1>6, <1>7 DEF ALU

\* every operation on values but MOV.
LEMMA ALU64Monotone ==
  ASSUME NEW op \in ALU \ {"MOV"},
         NEW d \in avalues, NEW e \in avalues, NEW c \in avalues, avalue_le(d, e)
  PROVE  avalue_le(avalue_doALU64(op, d, c), avalue_doALU64(op, e, c))
<1> DEFINE p == avalue_doALU64(op, d, c)
           q == avalue_doALU64(op, e, c)
<1>1. p \in avalues /\ q \in avalues
  BY ALU64Covers
<1>2. CASE e.tag \notin {"scalar", "pointer"} \/ c.tag # "scalar"
  <2>1. q.tag = "top"
    BY <1>2, AbstractALU64Cases, AbstractShapes
  <2> QED
    BY <1>1, <2>1, OrderCases
<1>3. CASE e.tag = "scalar" /\ c.tag = "scalar"
  <2>1. d.tag = "scalar" /\ d.t \in Tnum /\ e.t \in Tnum /\ c.t \in Tnum
    BY <1>3, OrderCases, AbstractShapes
  <2>2. tnum_le(d.t, e.t)
    BY <1>3, <2>1, OrderCases
  <2>3. tnum_le(doALU_scalar(op, d.t, c.t), doALU_scalar(op, e.t, c.t))
    BY <2>1, <2>2, ScalarMonotone
  <2>4. /\ p.tag = "scalar" /\ p.t = doALU_scalar(op, d.t, c.t)
        /\ q.tag = "scalar" /\ q.t = doALU_scalar(op, e.t, c.t)
    BY <1>3, <2>1, AbstractALU64Cases, AbstractShapes
  <2> QED
    BY <1>1, <2>3, <2>4, OrderCases
<1>4. CASE e.tag = "pointer" /\ c.tag = "scalar"
  <2>1. d.tag = "pointer" /\ d.t \in Tnum /\ e.t \in Tnum /\ c.t \in Tnum
    BY <1>4, OrderCases, AbstractShapes
  <2>2. d.m = e.m /\ tnum_le(d.t, e.t)
    BY <1>4, <2>1, OrderCases
  <2>3. /\ p = doALU_scalar_pointer(op, d.m, d.t, c.t)
        /\ q = doALU_scalar_pointer(op, e.m, e.t, c.t)
    BY <1>4, <2>1, AbstractALU64Cases
  <2>4. CASE op = "ADD"
    <3>1. /\ p.tag = "pointer" /\ p.m = d.m /\ p.t = tnum_add(d.t, c.t)
          /\ q.tag = "pointer" /\ q.m = e.m /\ q.t = tnum_add(e.t, c.t)
      BY <2>3, <2>4, PointerCases, AbstractShapes
    <3> QED
      BY <1>1, <2>1, <2>2, <3>1, SumsMonotone, OrderCases
  <2>5. CASE op = "SUB"
    <3>1. /\ p.tag = "pointer" /\ p.m = d.m /\ p.t = tnum_sub(d.t, c.t)
          /\ q.tag = "pointer" /\ q.m = e.m /\ q.t = tnum_sub(e.t, c.t)
      BY <2>3, <2>5, PointerCases, AbstractShapes
    <3> QED
      BY <1>1, <2>1, <2>2, <3>1, SumsMonotone, OrderCases
  <2>6. CASE op \notin {"ADD", "SUB"}
    <3>1. /\ p.tag = "pointer" /\ p.m = d.m /\ p.t = d.t
          /\ q.tag = "pointer" /\ q.m = e.m /\ q.t = e.t
      BY <2>3, <2>6, PointerCases, AbstractShapes
    <3> QED
      BY <1>1, <2>2, <3>1, OrderCases
  <2> QED
    BY <2>4, <2>5, <2>6
<1> QED
  BY <1>2, <1>3, <1>4

(***************************************************************************)
(* Larger values give larger results: every transfer function of value.lean*)
(* but MOV's is monotone in the destination.                               *)
(***************************************************************************)
THEOREM WalkMonotone == WalkSpec => []Monotone
<1>1. WalkInv => Monotone
  BY ALU64Monotone DEF WalkInv, Monotone
<1> QED
  BY <1>1, WalkInvariant, PTL

-----------------------------------------------------------------------------
(* Optimality.                                                             *)

\* A trit that is unknown in a result takes both values, and a carry every
\* value it allows.
LEMMA TritWitness ==
  ASSUME NEW s \in Trit, NEW t \in Trit
  PROVE  /\ trit_and(s, t) = X => \A c \in {0, 1} :
              \E i \in trit_gamma(s), j \in trit_gamma(t) : i * j = c
         /\ trit_or(s, t) = X => \A c \in {0, 1} :
              \E i \in trit_gamma(s), j \in trit_gamma(t) :
                1 - (1 - i) * (1 - j) = c
         /\ trit_xor(s, t) = X => \A c \in {0, 1} :
              \E i \in trit_gamma(s), j \in trit_gamma(t) : (i + j) % 2 = c
<1>1. trit_and(s, t) = X => \A c \in {0, 1} :
        \E i \in trit_gamma(s), j \in trit_gamma(t) : i * j = c
  BY DEF trit_and, trit_gamma, Trit, X
<1>2. trit_or(s, t) = X => \A c \in {0, 1} :
        \E i \in trit_gamma(s), j \in trit_gamma(t) : 1 - (1 - i) * (1 - j) = c
  BY DEF trit_or, trit_gamma, Trit, X
<1>3. trit_xor(s, t) = X => \A c \in {0, 1} :
        \E i \in trit_gamma(s), j \in trit_gamma(t) : (i + j) % 2 = c
  BY DEF trit_xor, trit_gamma, Trit, X
<1> QED
  BY <1>1, <1>2, <1>3

SumTakes(s, t, k, c) ==
  \E i \in trit_gamma(s), j \in trit_gamma(t), e \in trit_gamma(k) :
    (i + j + e) % 2 = c
CarryTakes(s, t, k, c) ==
  \E i \in trit_gamma(s), j \in trit_gamma(t), e \in trit_gamma(k) :
    (i + j + e) \div 2 = c

\* An unknown trit of a full adder takes both values.
LEMMA FullAddWitness ==
  ASSUME NEW s \in Trit, NEW t \in Trit, NEW k \in Trit
  PROVE  /\ full_add(s, t, k)[1] = X => \A c \in {0, 1} : SumTakes(s, t, k, c)
         /\ \A c \in trit_gamma(full_add(s, t, k)[2]) : CarryTakes(s, t, k, c)
<1>1. /\ trit_gamma(s) \subseteq {0, 1} /\ trit_gamma(s) # {}
      /\ trit_gamma(t) \subseteq {0, 1} /\ trit_gamma(t) # {}
      /\ trit_gamma(k) \subseteq {0, 1} /\ trit_gamma(k) # {}
  BY TritBits
<1>2. PICK i \in trit_gamma(s), j \in trit_gamma(t), e \in trit_gamma(k) : TRUE
  BY <1>1
<1>3. i \in {0, 1} /\ j \in {0, 1} /\ e \in {0, 1}
  BY <1>1
<1>4. ASSUME full_add(s, t, k)[1] = X, NEW c \in {0, 1}
      PROVE  SumTakes(s, t, k, c)
  <2>1. X \in {s, t, k}
    BY <1>4 DEF full_add, Trit, X
  <2>2. CASE s = X
    <3>1. (c + j + e) % 2 \in trit_gamma(s)
      BY <1>3, <2>2 DEF trit_gamma
    <3>2. (((c + j + e) % 2) + j + e) % 2 = c
      BY <1>3, <1>4
    <3> QED
      BY <3>1, <3>2 DEF SumTakes
  <2>3. CASE t = X
    <3>1. (i + c + e) % 2 \in trit_gamma(t)
      BY <1>3, <2>3 DEF trit_gamma
    <3>2. (i + ((i + c + e) % 2) + e) % 2 = c
      BY <1>3, <1>4
    <3> QED
      BY <3>1, <3>2 DEF SumTakes
  <2>4. CASE k = X
    <3>1. (i + j + c) % 2 \in trit_gamma(k)
      BY <1>3, <2>4 DEF trit_gamma
    <3>2. (i + j + ((i + j + c) % 2)) % 2 = c
      BY <1>3, <1>4
    <3> QED
      BY <3>1, <3>2 DEF SumTakes
  <2> QED
    BY <2>1, <2>2, <2>3, <2>4
<1>5. ASSUME NEW c \in trit_gamma(full_add(s, t, k)[2])
      PROVE  CarryTakes(s, t, k, c)
  <2>1. CASE X \notin {s, t, k}
    <3>1. /\ trit_gamma(s) = {s} /\ trit_gamma(t) = {t} /\ trit_gamma(k) = {k}
          /\ full_add(s, t, k)[2] = (s + t + k) \div 2
          /\ (s + t + k) \div 2 # X
      BY <2>1 DEF trit_gamma, full_add, Trit, X
    <3>2. c = (s + t + k) \div 2
      BY <3>1 DEF trit_gamma
    <3> QED
      BY <3>1, <3>2 DEF CarryTakes
  <2>2. CASE X \in {s, t, k}
    <3>1. /\ c \in {0, 1}
          /\ \/ c \in trit_gamma(s) /\ c \in trit_gamma(t)
             \/ c \in trit_gamma(s) /\ c \in trit_gamma(k)
             \/ c \in trit_gamma(t) /\ c \in trit_gamma(k)
      BY <2>2 DEF trit_gamma, full_add, Trit, X
    <3>2. \A v \in {0, 1} : /\ (c + c + v) \div 2 = c
                            /\ (c + v + c) \div 2 = c
                            /\ (v + c + c) \div 2 = c
      BY <3>1
    <3> QED
      BY <1>3, <3>1, <3>2 DEF CarryTakes
  <2> QED
    BY <2>1, <2>2
<1> QED
  BY <1>4, <1>5

\* The low n bits of v are those of x.
SameLow(n, v, x) == v % 2^n = x % 2^n

Alike(n, x, y, v, w) ==
  /\ x \in Int /\ y \in Int /\ v \in Int /\ w \in Int
  /\ SameLow(n, v, x) /\ SameLow(n, w, y)

\* Two words of s and t with given bits at i, below i those of x and y.
LEMMA PairBits ==
  ASSUME NEW s \in Tnum, NEW t \in Tnum,
         NEW x \in tnum_gamma(s), NEW y \in tnum_gamma(t), NEW i \in 0 .. W - 1,
         NEW p \in trit_gamma(s[i + 1]), NEW q \in trit_gamma(t[i + 1])
  PROVE  \E v \in tnum_gamma(s), w \in tnum_gamma(t) :
           Bit(v, i) = p /\ Bit(w, i) = q /\ Alike(i, x, y, v, w)
<1>1. PICK v \in tnum_gamma(s) :
        Bit(v, i) = p /\ \A j \in 0 .. W - 1 : j # i => Bit(v, j) = Bit(x, j)
  BY GammaBit
<1>2. PICK w \in tnum_gamma(t) :
        Bit(w, i) = q /\ \A j \in 0 .. W - 1 : j # i => Bit(w, j) = Bit(y, j)
  BY GammaBit
<1>3. /\ x \in Int /\ y \in Int /\ v \in Int /\ w \in Int /\ i \in Nat
      /\ \A j \in 0 .. i - 1 : j \in 0 .. W - 1 /\ j # i
  <2>1. x \in Nat /\ y \in Nat /\ v \in Nat /\ w \in Nat
    BY GammaWords
  <2> QED
    BY <2>1, WAssumption
<1>4. SameLow(i, v, x)
  BY <1>1, <1>3, BitsDetermine DEF SameLow
<1>5. SameLow(i, w, y)
  BY <1>2, <1>3, BitsDetermine DEF SameLow
<1> QED
  BY <1>1, <1>2, <1>3, <1>4, <1>5 DEF Alike

\* The carry into a position depends on the lower bits only.
LEMMA CarriedLow ==
  ASSUME NEW n \in Nat, NEW x, NEW y, NEW v, NEW w, Alike(n, x, y, v, w),
         NEW z \in Int, NEW c \in {0, 1}, Carried(x, y, z, n, c)
  PROVE  Carried(v, w, z, n, c)
<1> USE DEF Alike
<1> DEFINE d == 2^n
           r == (x + y + z) % d
           vq == v \div d
           wq == w \div d
           vr == v % d
           wr == w % d
<1>1. d \in Nat \ {0} /\ x + y + z \in Int
  BY PowerFacts
<1>2. r \in 0 .. d - 1
  <2> HIDE DEF d
  <2> QED
    BY <1>1, DivMod
<1>3. vr + wr + z = r + d * c
  BY DEF Carried, SameLow
<1>4. v = d * vq + vr /\ w = d * wq + wr /\ vq \in Int /\ wq \in Int
      /\ vr \in Int /\ wr \in Int
  <2> HIDE DEF d
  <2> QED
    BY <1>1, DivMod
<1>5. v + w + z = d * (vq + wq + c) + r
  <2> HIDE DEF d, r, vq, wq, vr, wr
  <2>1. d * (vq + wq + c) = d * vq + d * wq + d * c /\ d * vq \in Int
        /\ d * wq \in Int /\ d * c \in Int
    BY <1>1, <1>4
  <2> QED
    BY <1>1, <1>2, <1>3, <1>4, <2>1
<1>6. (v + w + z) % d = r
  <2> HIDE DEF d, r, vq, wq
  <2>1. vq + wq + c \in Int
    BY <1>4
  <2>2. (d * (vq + wq + c) + r) % d = r
    BY <1>1, <1>2, <2>1, DivModUnique
  <2> QED
    BY <1>5, <2>2
<1> QED
  BY <1>3, <1>6 DEF Carried

\* Every carry that an addition of tnums allows is the carry of two words.
LEMMA CarryWitness ==
  ASSUME NEW s \in Tnum, NEW t \in Tnum, NEW z \in {0, 1},
         NEW k \in Carries(s, t, z, W), NEW n \in 0 .. W,
         NEW c \in trit_gamma(k[n + 1])
  PROVE  \E x \in tnum_gamma(s), y \in tnum_gamma(t) : Carried(x, y, z, n, c)
<1> DEFINE S == {i \in Nat : i <= W => \A e \in trit_gamma(k[i + 1]) :
                   \E x \in tnum_gamma(s), y \in tnum_gamma(t) :
                     Carried(x, y, z, i, e)}
<1>1. /\ W \in Nat /\ k[1] = z
      /\ \A i \in 1 .. W + 1 : k[i] \in Trit
      /\ \A i \in 1 .. W : /\ k[i + 1] = full_add(s[i], t[i], k[i])[2]
                           /\ s[i] \in Trit /\ t[i] \in Trit
  BY TnumParts DEF Carries
<1>2. 0 \in S
  <2>1. PICK x : x \in tnum_gamma(s)
    BY GammaNonempty
  <2>2. PICK y : y \in tnum_gamma(t)
    BY GammaNonempty
  <2>3. x \in Int /\ y \in Int /\ \A v \in Int : v % 1 = 0
    BY <2>1, <2>2, GammaWords
  <2>4. Carried(x, y, z, 0, z)
    <3>1. x % 1 = 0 /\ y % 1 = 0 /\ (x + y + z) % 1 = 0 /\ z \in Int
      BY <2>3
    <3> QED
      BY <3>1, PowerZero DEF Carried
  <2>5. trit_gamma(k[0 + 1]) = {z}
    BY <1>1 DEF trit_gamma, X
  <2> QED
    BY <2>1, <2>2, <2>4, <2>5
<1>3. ASSUME NEW i \in Nat, i \in S PROVE i + 1 \in S
  <2>1. SUFFICES ASSUME i + 1 <= W, NEW e \in trit_gamma(k[(i + 1) + 1])
                 PROVE  \E x \in tnum_gamma(s), y \in tnum_gamma(t) :
                          Carried(x, y, z, i + 1, e)
    OBVIOUS
  <2>2. /\ i + 1 \in 1 .. W /\ i + 1 \in 1 .. W + 1 /\ i \in 0 .. W - 1
        /\ \A e1 \in trit_gamma(k[i + 1]) :
             \E x \in tnum_gamma(s), y \in tnum_gamma(t) : Carried(x, y, z, i, e1)
    BY <1>1, <1>3, <2>1
  <2> HIDE DEF S
  <2>3. PICK p \in trit_gamma(s[i + 1]), q \in trit_gamma(t[i + 1]),
             e1 \in trit_gamma(k[i + 1]) : (p + q + e1) \div 2 = e
    <3>1. e \in trit_gamma(full_add(s[i + 1], t[i + 1], k[i + 1])[2])
      BY <1>1, <2>1, <2>2
    <3>2. CarryTakes(s[i + 1], t[i + 1], k[i + 1], e)
      BY <1>1, <2>2, <3>1, FullAddWitness
    <3> QED
      BY <3>2 DEF CarryTakes
  <2>4. PICK x \in tnum_gamma(s), y \in tnum_gamma(t) : Carried(x, y, z, i, e1)
    BY <2>2
  <2>5. PICK v \in tnum_gamma(s), w \in tnum_gamma(t) :
          Bit(v, i) = p /\ Bit(w, i) = q /\ Alike(i, x, y, v, w)
    BY <2>2, PairBits
  <2>6. x \in Int /\ y \in Int /\ v \in Int /\ w \in Int /\ z \in Int /\ e1 \in {0, 1}
    <3>1. x \in Nat /\ y \in Nat /\ v \in Nat /\ w \in Nat
      BY GammaWords
    <3> QED
      BY <1>1, <2>2, <3>1, TritBits
  <2>7. Carried(v, w, z, i, e1)
    BY <2>4, <2>5, <2>6, CarriedLow
  <2>8. Carried(v, w, z, i + 1, (p + q + e1) \div 2)
    <3> DEFINE u == p + q + e1
    <3>1. u = Bit(v, i) + Bit(w, i) + e1
      BY <2>5
    <3> HIDE DEF u
    <3>2. Carried(v, w, z, i + 1, u \div 2)
      BY <2>6, <2>7, <3>1, CarryStep
    <3> QED
      BY <3>2 DEF u
  <2> QED
    BY <2>3, <2>8
<1> HIDE DEF S
<1>4. \A i \in Nat : i \in S
  BY <1>2, <1>3, SetInduction
<1> QED
  BY <1>1, <1>4 DEF S

\* An unknown trit of a sum is 0 in one sum of two words and 1 in another.
LEMMA AdcOptimal ==
  ASSUME NEW s \in Tnum, NEW t \in Tnum, NEW z \in {0, 1}, NEW i \in 0 .. W - 1,
         tnum_adc(s, t, z)[i + 1] = X, NEW c \in {0, 1}
  PROVE  \E x \in tnum_gamma(s), y \in tnum_gamma(t) :
           Bit((x + y + z) % 2^W, i) = c
<1>1. /\ W \in Nat /\ s \in TnumOf(W) /\ t \in TnumOf(W) /\ z \in Trit
      /\ i + 1 \in 1 .. W /\ i + 1 \in 1 .. W + 1 /\ i \in 0 .. W /\ i \in Nat
      /\ s[i + 1] \in Trit /\ t[i + 1] \in Trit
  <2>1. W \in Nat /\ i + 1 \in 1 .. W
    BY WAssumption
  <2> QED
    BY <2>1, TnumParts DEF Trit
<1>2. PICK k \in Carries(s, t, z, W) :
        tnum_adc(s, t, z) = [j \in 1 .. W |-> full_add(s[j], t[j], k[j])[1]]
  BY <1>1, AdcUnfold
<1>3. k[i + 1] \in Trit /\ full_add(s[i + 1], t[i + 1], k[i + 1])[1] = X
  BY <1>1, <1>2 DEF Carries
<1>4. PICK p \in trit_gamma(s[i + 1]), q \in trit_gamma(t[i + 1]),
           e \in trit_gamma(k[i + 1]) : (p + q + e) % 2 = c
  <2>1. SumTakes(s[i + 1], t[i + 1], k[i + 1], c)
    BY <1>1, <1>3, FullAddWitness
  <2> QED
    BY <2>1 DEF SumTakes
<1>5. PICK x \in tnum_gamma(s), y \in tnum_gamma(t) : Carried(x, y, z, i, e)
  BY <1>1, CarryWitness
<1>6. PICK v \in tnum_gamma(s), w \in tnum_gamma(t) :
        Bit(v, i) = p /\ Bit(w, i) = q /\ Alike(i, x, y, v, w)
  <2>1. i \in 0 .. W - 1
    OBVIOUS
  <2> QED
    BY <2>1, PairBits
<1>7. x \in Int /\ y \in Int /\ v \in Int /\ w \in Int /\ z \in Int /\ e \in {0, 1}
  <2>1. x \in Nat /\ y \in Nat /\ v \in Nat /\ w \in Nat
    BY GammaWords
  <2> QED
    BY <1>3, <2>1, TritBits
<1>8. Carried(v, w, z, i, e)
  <2>1. i \in Nat
    BY <1>1
  <2> QED
    BY <1>5, <1>6, <1>7, <2>1, CarriedLow
<1>9. Bit(v + w + z, i) = (p + q + e) % 2
  <2> DEFINE u == p + q + e
  <2>1. u = Bit(v, i) + Bit(w, i) + e
    BY <1>6
  <2> HIDE DEF u
  <2>2. Bit(v + w + z, i) = u % 2
    <3>1. v \in Int /\ w \in Int /\ z \in Int /\ e \in {0, 1} /\ i \in Nat
      BY <1>1, <1>7
    <3> QED
      BY <1>8, <2>1, <3>1, CarryStep
  <2> QED
    BY <2>2 DEF u
<1>10. Bit((v + w + z) % 2^W, i) = Bit(v + w + z, i)
  <2>1. v + w + z \in Int
    BY <1>7
  <2> QED
    BY <1>1, <2>1, BitOfLow
<1> QED
  BY <1>4, <1>9, <1>10

\* Some words of s and t give a result of the operation with bit i equal to c.
BitTaken(op, s, t, i, c) ==
  \E x \in tnum_gamma(s), y \in tnum_gamma(t) :
    Bit(doALU64_scalar(op, x, y), i) = c

\* Addition loses nothing: an unknown trit of the sum takes both values.
LEMMA AddOptimal ==
  ASSUME NEW s \in Tnum, NEW t \in Tnum, NEW i \in 0 .. W - 1,
         tnum_add(s, t)[i + 1] = X, NEW c \in {0, 1}
  PROVE  BitTaken("ADD", s, t, i, c)
<1>1. tnum_adc(s, t, 0)[i + 1] = X
  BY DEF tnum_add
<1>2. PICK x \in tnum_gamma(s), y \in tnum_gamma(t) :
        Bit((x + y + 0) % 2^W, i) = c
  <2>1. i \in 0 .. W - 1 /\ 0 \in {0, 1}
    OBVIOUS
  <2> QED
    BY <1>1, <2>1, AdcOptimal
<1>3. x + y + 0 = x + y
  BY GammaWords
<1>4. Bit(doALU64_scalar("ADD", x, y), i) = c
  BY <1>2, <1>3, ConcreteCases DEF bv_add
<1> QED
  BY <1>4 DEF BitTaken

\* Complement, on tnums and on the words they stand for, is an involution.
LEMMA NotInverse ==
  ASSUME NEW t \in Tnum
  PROVE  /\ tnum_not(t) \in Tnum
         /\ \A y \in tnum_gamma(tnum_not(t)) :
              /\ y \in Word /\ 2^W - 1 - y \in tnum_gamma(t)
<1>1. W \in Nat /\ Len(t) = W /\ \A i \in 1 .. W : t[i] \in Trit
  BY TnumParts
<1>2. tnum_not(t) \in Tnum
  BY <1>1, NotCovers DEF Tnum
<1>3. tnum_not(tnum_not(t)) = t
  <2>1. tnum_not(t) = [i \in 1 .. W |-> trit_not(t[i])] /\ Len(tnum_not(t)) = W
    BY <1>1, <1>2, TnumParts DEF tnum_not, Map
  <2>2. tnum_not(tnum_not(t)) = [i \in 1 .. W |-> trit_not(tnum_not(t)[i])]
    BY <2>1 DEF tnum_not, Map
  <2>3. \A i \in 1 .. W : trit_not(tnum_not(t)[i]) = t[i]
    <3>1. \A u \in Trit : trit_not(trit_not(u)) = u
      BY DEF trit_not, Trit, X
    <3> QED
      BY <1>1, <2>1, <3>1
  <2>4. tnum_not(tnum_not(t)) = [i \in 1 .. W |-> t[i]]
    BY <2>2, <2>3
  <2>5. t = [i \in 1 .. W |-> t[i]]
    BY DEF Tnum, TnumOf
  <2> QED
    BY <2>4, <2>5
<1>4. \A y \in tnum_gamma(tnum_not(t)) :
        2^W - 1 - y \in tnum_gamma(tnum_not(tnum_not(t)))
  BY <1>1, <1>2, NotCovers DEF Tnum
<1> QED
  BY <1>2, <1>3, <1>4, GammaWords

\* Neither does subtraction,
LEMMA SubOptimal ==
  ASSUME NEW s \in Tnum, NEW t \in Tnum, NEW i \in 0 .. W - 1,
         tnum_sub(s, t)[i + 1] = X, NEW c \in {0, 1}
  PROVE  BitTaken("SUB", s, t, i, c)
<1>1. tnum_adc(s, tnum_not(t), 1)[i + 1] = X /\ tnum_not(t) \in Tnum
  BY NotInverse DEF tnum_sub
<1>2. PICK x \in tnum_gamma(s), y \in tnum_gamma(tnum_not(t)) :
        Bit((x + y + 1) % 2^W, i) = c
  <2>1. i \in 0 .. W - 1 /\ 1 \in {0, 1}
    OBVIOUS
  <2> QED
    BY <1>1, <2>1, AdcOptimal
<1> DEFINE d == 2^W
           z == d - 1 - y
<1>3. z \in tnum_gamma(t) /\ y \in Int /\ x \in Int /\ d \in Nat \ {0}
  BY NotInverse, GammaWords, WordFacts
<1>4. (x - z) % d = (x + y + 1) % d
  <2> HIDE DEF d
  <2>1. x + y + 1 = (x - z) + d * 1 /\ x - z \in Int
    BY <1>3
  <2> HIDE DEF z
  <2>2. \A u \in Int, k \in Int : (u + d * k) % d = u % d
    BY <1>3, ModShift
  <2>3. ((x - z) + d * 1) % d = (x - z) % d
    BY <2>1, <2>2
  <2> QED
    BY <2>1, <2>3
<1>5. Bit(doALU64_scalar("SUB", x, z), i) = c
  <2> HIDE DEF z
  <2> QED
    BY <1>2, <1>4, ConcreteCases DEF bv_sub
<1> QED
  BY <1>3, <1>5 DEF BitTaken

\* nor negation,
LEMMA NegOptimal ==
  ASSUME NEW s \in Tnum, NEW t \in Tnum, NEW i \in 0 .. W - 1,
         tnum_neg(s)[i + 1] = X, NEW c \in {0, 1}
  PROVE  BitTaken("NEG", s, t, i, c)
<1>0. 1 \in Word
  <2>1. W < 2^W /\ 2^W \in Nat
    BY WAssumption, PowerAbove, PowerFacts
  <2> QED
    BY <2>1, WAssumption DEF Word
<1>1. /\ tnum_add(tnum_not(s), tnum_const(1))[i + 1] = X /\ tnum_not(s) \in Tnum
      /\ tnum_const(1) \in Tnum /\ tnum_gamma(tnum_const(1)) = {1}
  BY <1>0, NotInverse, ConstCovers DEF tnum_neg
<1>2. PICK y \in tnum_gamma(tnum_not(s)), o \in tnum_gamma(tnum_const(1)) :
        Bit(doALU64_scalar("ADD", y, o), i) = c
  <2>1. BitTaken("ADD", tnum_not(s), tnum_const(1), i, c)
    BY <1>1, AddOptimal
  <2> QED
    BY <2>1 DEF BitTaken
<1>3. PICK w : w \in tnum_gamma(t)
  BY GammaNonempty
<1> DEFINE x == 2^W - 1 - y
<1>4. x \in tnum_gamma(s) /\ y \in Int /\ 2^W \in Int
  BY NotInverse, GammaWords, WordFacts
<1>5. doALU64_scalar("NEG", x, w) = (2^W - x) % 2^W
  BY ConcreteCases DEF bv_neg
<1>6. 2^W - x = y + 1
  BY <1>4
<1>7. doALU64_scalar("ADD", y, o) = (y + 1) % 2^W
  BY <1>1, ConcreteCases DEF bv_add
<1> HIDE DEF x
<1>8. Bit(doALU64_scalar("NEG", x, w), i) = c
  BY <1>2, <1>5, <1>6, <1>7
<1> QED
  BY <1>3, <1>4, <1>8 DEF BitTaken

\* nor do the bitwise operations,
LEMMA BitwiseOptimal ==
  ASSUME NEW s \in Tnum, NEW t \in Tnum, NEW i \in 0 .. W - 1, NEW c \in {0, 1}
  PROVE  /\ tnum_and(s, t)[i + 1] = X => BitTaken("AND", s, t, i, c)
         /\ tnum_or(s, t)[i + 1] = X => BitTaken("OR", s, t, i, c)
         /\ tnum_xor(s, t)[i + 1] = X => BitTaken("XOR", s, t, i, c)
<1>1. /\ i + 1 \in 1 .. W /\ Len(s) = W
      /\ s[i + 1] \in Trit /\ t[i + 1] \in Trit
  <2>1. i + 1 \in 1 .. W
    BY WAssumption
  <2> QED
    BY <2>1, TnumParts
<1>2. /\ tnum_and(s, t)[i + 1] = trit_and(s[i + 1], t[i + 1])
      /\ tnum_or(s, t)[i + 1] = trit_or(s[i + 1], t[i + 1])
      /\ tnum_xor(s, t)[i + 1] = trit_xor(s[i + 1], t[i + 1])
  BY <1>1 DEF tnum_and, tnum_or, tnum_xor, Map2
<1>3. ASSUME NEW p \in trit_gamma(s[i + 1]), NEW q \in trit_gamma(t[i + 1])
      PROVE  \E v \in tnum_gamma(s), w \in tnum_gamma(t) :
               v \in Word /\ w \in Word /\ Bit(v, i) = p /\ Bit(w, i) = q
  <2>1. PICK x : x \in tnum_gamma(s)
    BY GammaNonempty
  <2>2. PICK y : y \in tnum_gamma(t)
    BY GammaNonempty
  <2>3. PICK v \in tnum_gamma(s) : Bit(v, i) = p
    BY <2>1, GammaBit
  <2>4. PICK w \in tnum_gamma(t) : Bit(w, i) = q
    BY <2>2, GammaBit
  <2> QED
    BY <2>3, <2>4, GammaWords
<1>4. ASSUME tnum_and(s, t)[i + 1] = X PROVE BitTaken("AND", s, t, i, c)
  <2>1. PICK p \in trit_gamma(s[i + 1]), q \in trit_gamma(t[i + 1]) : p * q = c
    BY <1>1, <1>2, <1>4, TritWitness
  <2>2. PICK v \in tnum_gamma(s), w \in tnum_gamma(t) :
          v \in Word /\ w \in Word /\ Bit(v, i) = p /\ Bit(w, i) = q
    BY <1>3
  <2>3. Bit(bv_and(v, w), i) = c
    BY <2>1, <2>2, AndBits
  <2>4. Bit(doALU64_scalar("AND", v, w), i) = c
    BY <2>3, ConcreteCases
  <2> QED
    BY <2>4 DEF BitTaken
<1>5. ASSUME tnum_or(s, t)[i + 1] = X PROVE BitTaken("OR", s, t, i, c)
  <2>1. PICK p \in trit_gamma(s[i + 1]), q \in trit_gamma(t[i + 1]) :
          1 - (1 - p) * (1 - q) = c
    BY <1>1, <1>2, <1>5, TritWitness
  <2>2. PICK v \in tnum_gamma(s), w \in tnum_gamma(t) :
          v \in Word /\ w \in Word /\ Bit(v, i) = p /\ Bit(w, i) = q
    BY <1>3
  <2>3. Bit(bv_or(v, w), i) = c
    BY <2>1, <2>2, OrBits
  <2>4. Bit(doALU64_scalar("OR", v, w), i) = c
    BY <2>3, ConcreteCases
  <2> QED
    BY <2>4 DEF BitTaken
<1>6. ASSUME tnum_xor(s, t)[i + 1] = X PROVE BitTaken("XOR", s, t, i, c)
  <2>1. PICK p \in trit_gamma(s[i + 1]), q \in trit_gamma(t[i + 1]) :
          (p + q) % 2 = c
    BY <1>1, <1>2, <1>6, TritWitness
  <2>2. PICK v \in tnum_gamma(s), w \in tnum_gamma(t) :
          v \in Word /\ w \in Word /\ Bit(v, i) = p /\ Bit(w, i) = q
    BY <1>3
  <2>3. Bit(bv_xor(v, w), i) = c
    BY <2>1, <2>2, XorBits
  <2>4. Bit(doALU64_scalar("XOR", v, w), i) = c
    BY <2>3, ConcreteCases
  <2> QED
    BY <2>4 DEF BitTaken
<1> QED
  BY <1>4, <1>5, <1>6

\* nor, therefore, any of the six operations,
LEMMA ScalarOptimal ==
  ASSUME NEW op \in {"ADD", "SUB", "AND", "OR", "XOR", "NEG"},
         NEW s \in Tnum, NEW t \in Tnum, NEW i \in 0 .. W - 1,
         doALU_scalar(op, s, t)[i + 1] = X, NEW c \in {0, 1}
  PROVE  BitTaken(op, s, t, i, c)
<1>1. CASE op = "ADD"
  BY <1>1, AbstractCases, AddOptimal
<1>2. CASE op = "SUB"
  BY <1>2, AbstractCases, SubOptimal
<1>3. CASE op = "NEG"
  BY <1>3, AbstractCases, NegOptimal
<1>4. CASE op \in {"AND", "OR", "XOR"}
  BY <1>4, AbstractCases, BitwiseOptimal
<1> QED
  BY <1>1, <1>2, <1>3, <1>4

\* The unknown bits of one result take both values.
OptimalAt(op, s, t) ==
  LET results == {doALU64_scalar(op, x, y) :
                    x \in tnum_gamma(s), y \in tnum_gamma(t)}
      r == doALU_scalar(op, s, t)
  IN  \A i \in 1 .. W : r[i] = X => {Bit(z, i - 1) : z \in results} = {0, 1}

\* which is what the property says of a pair of tnums.
LEMMA OptimalScalars ==
  ASSUME NEW op \in {"ADD", "SUB", "AND", "OR", "XOR", "NEG"},
         NEW s \in Tnum, NEW t \in Tnum
  PROVE  OptimalAt(op, s, t)
<1> DEFINE results == {doALU64_scalar(op, x, y) :
                         x \in tnum_gamma(s), y \in tnum_gamma(t)}
<1>1. ASSUME NEW i \in 1 .. W, doALU_scalar(op, s, t)[i] = X
      PROVE  {Bit(z, i - 1) : z \in results} = {0, 1}
  <2>1. i - 1 \in 0 .. W - 1 /\ (i - 1) + 1 = i /\ op \in ALU
    BY WAssumption DEF ALU
  <2>2. ASSUME NEW c \in {0, 1} PROVE BitTaken(op, s, t, i - 1, c)
    BY <1>1, <2>1, ScalarOptimal
  <2>3. \A c \in {0, 1} : \E x \in tnum_gamma(s), y \in tnum_gamma(t) :
          Bit(doALU64_scalar(op, x, y), i - 1) = c
    BY <2>2 DEF BitTaken
  <2>4. \A x \in tnum_gamma(s), y \in tnum_gamma(t) :
          Bit(doALU64_scalar(op, x, y), i - 1) \in {0, 1}
    <3>1. \A x \in tnum_gamma(s), y \in tnum_gamma(t) :
            doALU64_scalar(op, x, y) \in Word
      BY <2>1, GammaWords, ScalarWords
    <3> QED
      BY <2>1, <3>1, WordBitType
  <2> QED
    BY <2>3, <2>4
<1> QED
  BY <1>1 DEF OptimalAt

(***************************************************************************)
(* Addition, subtraction, negation and the bitwise operations of tnum.lean *)
(* lose nothing: every unknown bit of a result is unknown.                 *)
(***************************************************************************)
THEOREM WalkOptimal == WalkSpec => []Optimal
<1>1. WalkInv /\ HasTnum(abs) => abs.t \in Tnum
  BY AbstractShapes DEF WalkInv, HasTnum
<1>2. Optimal <=> (HasTnum(abs) =>
        \A op \in {"ADD", "SUB", "AND", "OR", "XOR", "NEG"}, t \in Tnum :
          OptimalAt(op, abs.t, t))
  BY DEF Optimal, OptimalAt
<1>3. WalkInv => Optimal
  BY <1>1, <1>2, OptimalScalars
<1> QED
  BY <1>3, WalkInvariant, PTL

-----------------------------------------------------------------------------
(* The left shift, call by call.                                           *)

\* u holds the trits of s moved up by n positions.
Moved(u, s, n) == \A i \in 1 .. W : u[i] = IF i > n THEN s[i - n] ELSE 0

\* Shifts add up.
LEMMA MovedFurther ==
  ASSUME NEW s \in Tnum, NEW u \in Tnum, NEW n \in Nat, NEW d \in Nat,
         Moved(u, s, n)
  PROVE  Moved(shiftl(u, d), s, n + d)
<1>1. W \in Nat
  BY WAssumption
<1>2. ASSUME NEW i \in 1 .. W
      PROVE  shiftl(u, d)[i] = IF i > n + d THEN s[i - (n + d)] ELSE 0
  <2>1. shiftl(u, d)[i] = IF i <= d THEN 0 ELSE u[i - d]
    BY ShiftlTrits
  <2>2. CASE i <= d
    BY <1>1, <2>1, <2>2
  <2>3. CASE i > d
    <3>1. i - d \in 1 .. W /\ (i - d) - n = i - (n + d) /\ (i - d > n <=> i > n + d)
      BY <1>1, <2>3
    <3>2. u[i - d] = IF i - d > n THEN s[(i - d) - n] ELSE 0
      BY <3>1 DEF Moved
    <3>3. shiftl(u, d)[i] = u[i - d]
      BY <1>1, <2>1, <2>3
    <3> QED
      BY <3>1, <3>2, <3>3
  <2> QED
    BY <1>1, <2>2, <2>3
<1> QED
  BY <1>2 DEF Moved

\* After the trits of a known amount, the shift by k times that amount.
LEMMA KnownShift ==
  ASSUME NEW k \in Nat, NEW s \in Tnum, NEW m \in Nat, NEW t \in TnumOf(m),
         \A i \in 1 .. m : t[i] # X, NEW y \in tnum_gamma(t)
  PROVE  Moved(shl_aux(k, s, t), s, y * k)
<1>1. PICK f \in Shifts(k, s, t, m) : shl_aux(k, s, t) = f[m]
  BY ShlUnfold
<1> DEFINE S == {j \in Nat : j <= m => Moved(f[j], s, k * (y % 2^j))}
<1>2. /\ y \in Int /\ y \in 0 .. 2^m - 1
      /\ \A j \in 0 .. m - 1 : Bit(y, j) \in trit_gamma(t[j + 1])
  <2>1. 2^m \in Nat \ {0}
    BY PowerFacts
  <2> QED
    BY <2>1, GammaMember
<1>3. 0 \in S
  <2>1. y % 2^0 = 0
    <3>1. \A v \in Int : v % 1 = 0
      OBVIOUS
    <3> QED
      BY <1>2, <3>1, PowerZero
  <2>2. k * (y % 2^0) = 0 /\ f[0] = s
    BY <2>1 DEF Shifts
  <2>3. Moved(s, s, 0)
    BY WAssumption DEF Moved
  <2> QED
    BY <2>2, <2>3
<1>4. ASSUME NEW j \in Nat, j \in S PROVE j + 1 \in S
  <2>1. SUFFICES ASSUME j + 1 <= m
                 PROVE  Moved(f[j + 1], s, k * (y % 2^(j + 1)))
    OBVIOUS
  <2> DEFINE n == k * (y % 2^j)
             d == k * 2^j
             c == Bit(y, j)
  <2>2. j \in 0 .. m - 1 /\ j + 1 \in 1 .. m /\ (j + 1) - 1 = j /\ j \in 0 .. m
    BY <2>1
  <2>3. f[j] \in Tnum /\ f[j + 1] = shl_step(d, f[j], t[j + 1])
    BY <2>2 DEF Shifts
  <2>4. Moved(f[j], s, n)
    BY <1>4, <2>1
  <2>5. t[j + 1] \in {0, 1} /\ c = t[j + 1]
    <3>1. t[j + 1] \in Trit /\ t[j + 1] # X /\ c \in trit_gamma(t[j + 1])
      BY <1>2, <2>2, TnumLen
    <3> QED
      BY <3>1 DEF trit_gamma, Trit, X
  <2>6. y % 2^j \in Nat /\ 2^j \in Nat /\ d \in Nat /\ n \in Nat
    <3> DEFINE e == 2^j
               l == y % e
    <3>1. e \in Nat \ {0}
      BY PowerFacts
    <3>2. l \in 0 .. e - 1
      <4> HIDE DEF e
      <4> QED
        BY <1>2, <3>1, DivMod
    <3>3. l \in Nat
      <4> HIDE DEF l, e
      <4> QED
        BY <3>1, <3>2
    <3>4. k * l \in Nat /\ k * e \in Nat
      <4> HIDE DEF l, e
      <4> QED
        BY <3>1, <3>3
    <3> QED
      BY <3>1, <3>3, <3>4
  <2>7. y % 2^(j + 1) = (y % 2^j) + 2^j * c
    BY <1>2, BitStep
  <2>8. CASE c = 0
    <3>1. k * (y % 2^(j + 1)) = n
      BY <2>6, <2>7, <2>8
    <3>2. f[j + 1] = f[j]
      BY <2>3, <2>5, <2>8 DEF shl_step, X
    <3> QED
      BY <2>4, <3>1, <3>2
  <2>9. CASE c = 1
    <3>1. k * (y % 2^(j + 1)) = n + d
      <4> DEFINE e == 2^j
                 l == y % 2^j
      <4>1. e \in Nat /\ l \in Nat /\ y % 2^(j + 1) = l + e
        BY <2>6, <2>7, <2>9
      <4>2. k * (l + e) = k * l + k * e
        <5> HIDE DEF e, l
        <5> QED
          BY <4>1
      <4> QED
        BY <4>1, <4>2
    <3>2. f[j + 1] = shiftl(f[j], d)
      BY <2>3, <2>5, <2>9 DEF shl_step, X
    <3> HIDE DEF n, d
    <3> QED
      BY <2>3, <2>4, <2>6, <3>1, <3>2, MovedFurther
  <2> QED
    BY <2>5, <2>8, <2>9
<1>5. m \in S
  <2> HIDE DEF S
  <2> QED
    BY <1>3, <1>4, SetInduction
<1>6. y % 2^m = y /\ k * y = y * k
  BY <1>2, LowSelf
<1> QED
  BY <1>1, <1>5, <1>6

\* The arguments of every call: a multiple, a tnum and the trits still to read.
ShlInv ==
  /\ amt \in Nat
  /\ a \in Tnum
  /\ \E m \in Nat : b \in TnumOf(m)

\* The first call of the loop satisfies the invariant,
LEMMA ShlInvInit == ShlInit => ShlInv
  BY WAssumption DEF ShlInit, ShlInv, Tnum

\* each call keeps it,
LEMMA ShlInvNext == ShlInv /\ [ShlCall \/ ShlDone]_shlVars => ShlInv'
<1> SUFFICES ASSUME ShlInv, [ShlCall \/ ShlDone]_shlVars PROVE ShlInv'
  OBVIOUS
<1>1. PICK m \in Nat : b \in TnumOf(m)
  BY DEF ShlInv
<1>2. CASE ShlCall
  <2>1. m # 0
    <3>1. Len(b) = m /\ b \in Seq(Trit) /\ b # << >>
      BY <1>1, <1>2, TnumLen DEF ShlCall
    <3> QED
      BY <3>1
  <2>2. m - 1 \in Nat /\ (m - 1) + 1 = m
    BY <2>1
  <2>3. Tail(b) \in TnumOf(m - 1) /\ b[1] \in Trit
    BY <1>1, <2>2, TailTrits
  <2>4. shl_step(amt, a, b[1]) \in Tnum
    BY <2>3, ShlStepType DEF ShlInv
  <2>5. Head(b) = b[1] /\ 2 * amt \in Nat
    BY DEF ShlInv
  <2> QED
    BY <1>2, <2>2, <2>3, <2>4, <2>5 DEF ShlCall, ShlInv
<1>3. CASE ShlDone \/ UNCHANGED shlVars
  BY <1>3 DEF ShlDone, shlVars, ShlInv
<1> QED
  BY <1>2, <1>3

\* so it always holds.
LEMMA ShlInvariant == ShlSpec => []ShlInv
  BY ShlInvInit, ShlInvNext, PTL DEF ShlSpec

(***************************************************************************)
(* For words of every width, every call of shl_aux that tnum.shl makes     *)
(* covers the shift of each word by each amount.  This is the fact that    *)
(* shl_correct needs and that the source obtains from the axiom bogus.     *)
(***************************************************************************)
THEOREM ShlCallsCover == ShlSpec => []ShlAuxCovers
<1>1. ShlInv => ShlAuxCovers
  <2> SUFFICES ASSUME ShlInv PROVE ShlAuxCovers
    OBVIOUS
  <2>1. PICK m \in Nat : b \in TnumOf(m)
    BY DEF ShlInv
  <2> QED
    BY <2>1, ShlAuxCorrect DEF ShlInv, ShlAuxCovers
<1> QED
  BY <1>1, ShlInvariant, PTL

(***************************************************************************)
(* For words of every width, a call of shl_aux with a known amount moves   *)
(* every trit up by that amount and loses none that stays in the word.     *)
(***************************************************************************)
THEOREM ShlKnownIsExact == ShlSpec => []KnownAmountIsExact
<1>1. ShlInv => KnownAmountIsExact
  <2> SUFFICES ASSUME ShlInv, \A i \in 1 .. Len(b) : b[i] # X,
                      NEW y \in tnum_gamma(b), NEW i \in 1 .. W
               PROVE  shl_aux(amt, a, b)[i]
                        = IF i > y * amt THEN a[i - y * amt] ELSE 0
    BY DEF KnownAmountIsExact
  <2>1. PICK m \in Nat : b \in TnumOf(m)
    BY DEF ShlInv
  <2>2. \A j \in 1 .. m : b[j] # X
    BY <2>1, TnumLen
  <2>3. Moved(shl_aux(amt, a, b), a, y * amt)
    BY <2>1, <2>2, KnownShift DEF ShlInv
  <2> QED
    BY <2>3 DEF Moved
<1> QED
  BY <1>1, ShlInvariant, PTL

-----------------------------------------------------------------------------
(* The values are an instance of the class the verifier is parameterised   *)
(* on.                                                                     *)

\* with_bot's bottom, anything that is no abstract value.
NoValue == CHOOSE v : v \notin avalues

Class ==
  INSTANCE ValueAbstr WITH
    AValue <- avalues,
    Bot <- NoValue,
    v_gamma <- avalue_gamma,
    v_le <- avalue_le,
    v_join <- avalue_join,
    v_const <- avalue_const,
    v_unknown_scalar <- avalue_unknown_scalar,
    v_doALU64 <- avalue_doALU64,
    v_doALU64_check <- avalue_doALU64_check,
    v_doJMP64_check <- avalue_doJMP64_check,
    v_doJMP64_tt <- avalue_doJMP64_tt,
    v_is_scalar <- avalue_is_scalar

(***************************************************************************)
(* The operations on words and values that module ValueAbstr extends are   *)
(* those of this module, by their definitions.                             *)
(***************************************************************************)
LEMMA SameWords ==
  /\ Class!Word = Word /\ Class!AllOnes = AllOnes
  /\ \A x, i : Class!Bit(x, i) = Bit(x, i)
  /\ \A x : Class!msb(x) <=> msb(x)
  /\ \A f : Class!FromBits(f) = FromBits(f)
<1>1. \A x, i : Class!Bit(x, i) = Bit(x, i)
  BY Zenon DEF Class!Bit, Bit
<1>2. \A f : Class!FromBits(f) = FromBits(f)
  BY DEF Class!FromBits, FromBits
<1> QED
  BY <1>1, <1>2 DEF Class!Word, Word, Class!AllOnes, AllOnes, Class!msb, msb

\* the operations on words,
LEMMA SameOperations ==
  ASSUME NEW x, NEW y
  PROVE  /\ Class!bv_not(x) = bv_not(x)
         /\ Class!bv_and(x, y) = bv_and(x, y)
         /\ Class!bv_xor(x, y) = bv_xor(x, y)
         /\ Class!bv_or(x, y) = bv_or(x, y)
         /\ Class!bv_add(x, y) = bv_add(x, y)
         /\ Class!bv_neg(x) = bv_neg(x)
         /\ Class!bv_sub(x, y) = bv_sub(x, y)
         /\ Class!bv_mul(x, y) = bv_mul(x, y)
         /\ Class!udiv(x, y) = udiv(x, y)
         /\ Class!urem(x, y) = urem(x, y)
         /\ Class!shl(x, y) = shl(x, y)
         /\ Class!lshr(x, y) = lshr(x, y)
         /\ Class!ashr(x, y) = ashr(x, y)
<1>1. \A z : Class!bv_not(z) = bv_not(z)
  BY SameWords DEF Class!bv_not, bv_not
<1>2. \A u, v : Class!bv_and(u, v) = bv_and(u, v)
  BY SameWords DEF Class!bv_and, bv_and
<1>3. Class!bv_xor(x, y) = bv_xor(x, y)
  BY SameWords DEF Class!bv_xor, bv_xor
<1>4. Class!bv_or(x, y) = bv_or(x, y)
  BY <1>1, <1>2 DEF Class!bv_or, bv_or
<1>5. /\ Class!bv_add(x, y) = bv_add(x, y)
      /\ Class!bv_neg(x) = bv_neg(x)
      /\ Class!bv_sub(x, y) = bv_sub(x, y)
      /\ Class!bv_mul(x, y) = bv_mul(x, y)
      /\ Class!shl(x, y) = shl(x, y)
  BY DEF Class!bv_add, bv_add, Class!bv_neg, bv_neg, Class!bv_sub, bv_sub,
         Class!bv_mul, bv_mul, Class!shl, shl
<1>6. Class!udiv(x, y) = udiv(x, y) /\ Class!urem(x, y) = urem(x, y)
  BY SameWords DEF Class!udiv, udiv, Class!urem, urem
<1>7. \A u, v : Class!lshr(u, v) = lshr(u, v)
  BY DEF Class!lshr, lshr
<1>8. Class!ashr(x, y) = ashr(x, y)
  BY <1>1, <1>7, SameWords DEF Class!ashr, ashr
<1> QED
  BY <1>1, <1>2, <1>3, <1>4, <1>5, <1>6, <1>7, <1>8

\* the values,
LEMMA SameValues ==
  /\ Class!Value = Value /\ Class!ALU = ALU /\ Class!JMP = JMP
  /\ \A x : Class!scalar(x) = scalar(x)
  /\ \A m, x : Class!pointer(m, x) = pointer(m, x)
  /\ \A v : /\ Class!is_scalar(v) <=> is_scalar(v)
            /\ Class!is_pointer(v) <=> is_pointer(v)
  /\ Class!uninitialized = uninitialized
<1>1. /\ \A x : Class!scalar(x) = scalar(x)
      /\ \A m, x : Class!pointer(m, x) = pointer(m, x)
      /\ Class!uninitialized = uninitialized
  BY DEF Class!scalar, scalar, Class!pointer, pointer,
         Class!uninitialized, uninitialized
<1>2. Class!Value = Value
  BY <1>1, SameWords DEF Class!Value, Value
<1>3. Class!ALU = ALU /\ Class!JMP = JMP
  BY DEF Class!ALU, ALU, Class!JMP, JMP
<1>4. ASSUME NEW v
      PROVE  /\ Class!is_scalar(v) <=> is_scalar(v)
             /\ Class!is_pointer(v) <=> is_pointer(v)
  BY DEF Class!is_scalar, is_scalar, Class!is_pointer, is_pointer
<1> QED
  BY <1>1, <1>2, <1>3, <1>4

\* the operations on values,
LEMMA SameALU ==
  ASSUME NEW op, NEW v, NEW w
  PROVE  /\ Class!doALU64(op, v, w) = doALU64(op, v, w)
         /\ Class!doALU64_check(op, v, w) <=> doALU64_check(op, v, w)
<1>1. ASSUME NEW x, NEW y
      PROVE  Class!doALU64_scalar(op, x, y) = doALU64_scalar(op, x, y)
  BY SameOperations DEF Class!doALU64_scalar, doALU64_scalar
<1>2. ASSUME NEW m, NEW x, NEW y
      PROVE  Class!doALU_pointer_scalar(op, m, x, y) = doALU_pointer_scalar(op, m, x, y)
  BY SameOperations, SameValues
     DEF Class!doALU_pointer_scalar, doALU_pointer_scalar
<1>3. Class!doALU64(op, v, w) = doALU64(op, v, w)
  BY <1>1, <1>2, SameValues DEF Class!doALU64, doALU64
<1>4. Class!doALU64_check(op, v, w) <=> doALU64_check(op, v, w)
  BY SameValues
     DEF Class!doALU64_check, doALU64_check, Class!doALU64_scalar_check,
         doALU64_scalar_check, Class!doALU_pointer_scalar_check,
         doALU_pointer_scalar_check
<1> QED
  BY <1>3, <1>4

\* and the tests.
LEMMA SameJMPCheck ==
  ASSUME NEW op, NEW v, NEW w
  PROVE  Class!doJMP64_check(op, v, w) <=> doJMP64_check(op, v, w)
  BY SameValues DEF Class!doJMP64_check, doJMP64_check

\* The bottom that with_bot adds is no abstract value.
LEMMA NoValueOutside == NoValue \notin avalues
<1>1. \E v : v \notin avalues
  <2> DEFINE R == {u \in avalues : u \notin u}
  <2>1. R \notin avalues
    OBVIOUS
  <2> QED
    BY <2>1
<1> QED
  BY <1>1, Zenon DEF NoValue

\* unknown_scalar stands for every scalar.
LEMMA UnknownScalar ==
  /\ avalue_unknown_scalar \in avalues
  /\ \A x \in Word : scalar(x) \in avalue_gamma(avalue_unknown_scalar)
<1>1. tnum_top \in Tnum /\ \A x \in Word : x \in tnum_gamma(tnum_top)
  BY TopCovers
<1>2. /\ avalue_unknown_scalar \in avalues
      /\ avalue_unknown_scalar.tag = "scalar"
      /\ avalue_unknown_scalar.t = tnum_top
  BY <1>1, AbstractShapes DEF avalue_unknown_scalar
<1> QED
  BY <1>1, <1>2, GammaShapes

LEMMA ClassTypes == Class!FieldTypes
<1>1. \A d \in avalues : avalue_gamma(d) \subseteq Value
  BY GammaShapes
<1>2. \A d, e \in avalues : /\ avalue_join(d, e) \in avalues
                            /\ \A op \in ALU : avalue_doALU64(op, d, e) \in avalues
                            /\ \A op \in JMP : \A k \in {1, 2} :
                                 avalue_doJMP64_tt(op, d, e)[k]
                                   \in avalues \cup {NoValue}
  <2> SUFFICES ASSUME NEW d \in avalues, NEW e \in avalues
               PROVE  /\ avalue_join(d, e) \in avalues
                      /\ \A op \in ALU : avalue_doALU64(op, d, e) \in avalues
                      /\ \A op \in JMP : \A k \in {1, 2} :
                           avalue_doJMP64_tt(op, d, e)[k] \in avalues \cup {NoValue}
    OBVIOUS
  <2>1. avalue_join(d, e) \in avalues
    BY JoinValues
  <2>2. \A op \in ALU : avalue_doALU64(op, d, e) \in avalues
    BY ALU64Covers
  <2>3. \A op \in JMP : \A k \in {1, 2} :
          avalue_doJMP64_tt(op, d, e)[k] \in avalues \cup {NoValue}
    BY DEF avalue_doJMP64_tt
  <2> QED
    BY <2>1, <2>2, <2>3
<1> QED
  BY <1>1, <1>2, ConstValues, UnknownScalar, SameValues DEF Class!FieldTypes

LEMMA ClassOrder == Class!le_correct /\ Class!join_correct
<1>1. Class!le_correct
  BY ValueOrder DEF Class!le_correct
<1>2. ASSUME NEW d \in avalues, NEW e \in avalues
      PROVE  avalue_gamma(d) \cup avalue_gamma(e)
               \subseteq avalue_gamma(avalue_join(d, e))
  BY JoinValues, JoinLeast, ValueOrder
<1>3. Class!join_correct
  BY <1>2 DEF Class!join_correct
<1> QED
  BY <1>1, <1>3

LEMMA ClassALU == Class!doALU64_correct
  BY ALU64Covers, ALUTestSound, SameALU, SameValues DEF Class!doALU64_correct

LEMMA ClassJMP == Class!doJMP64_correct
<1> SUFFICES ASSUME NEW op \in JMP, NEW d \in avalues, NEW e \in avalues,
                    NEW v \in avalue_gamma(d), NEW w \in avalue_gamma(e)
             PROVE  /\ avalue_doJMP64_check(op, d, e) => doJMP64_check(op, v, w)
                    /\ LET z == avalue_doJMP64_tt(op, d, e)
                       IN  /\ z[1] # NoValue /\ v \in avalue_gamma(z[1])
                           /\ z[2] # NoValue /\ w \in avalue_gamma(z[2])
  BY SameJMPCheck, SameValues DEF Class!doJMP64_correct
<1>1. avalue_doJMP64_check(op, d, e) => doJMP64_check(op, v, w)
  BY GammaShapes, ValueShapes
     DEF avalue_doJMP64_check, doJMP64_check, is_scalar
<1>2. avalue_doJMP64_tt(op, d, e)[1] = d /\ avalue_doJMP64_tt(op, d, e)[2] = e
  BY DEF avalue_doJMP64_tt
<1> QED
  BY <1>1, <1>2, NoValueOutside

LEMMA ClassScalar == Class!is_scalar_sound
<1>1. ASSUME NEW d \in avalues, avalue_is_scalar(d), NEW v \in avalue_gamma(d)
      PROVE  is_scalar(v)
  BY <1>1, GammaShapes, ValueShapes DEF avalue_is_scalar, is_scalar
<1> QED
  BY <1>1, SameValues DEF Class!is_scalar_sound

(***************************************************************************)
(* The instance of value_abstr that the verifier runs with (value.lean)    *)
(* obeys every law of the class, for words of every width.  These laws are *)
(* all that VerifierProofs assumes of a domain.                            *)
(***************************************************************************)
THEOREM ValueLawful == Class!Lawful
<1>1. Class!const_correct
  BY ConstValues, SameValues DEF Class!const_correct
<1>2. Class!unknown_scalar_correct
  BY UnknownScalar, SameValues, SameWords DEF Class!unknown_scalar_correct
<1> QED
  BY <1>1, <1>2, ClassTypes, ClassOrder, ClassALU, ClassJMP, ClassScalar
     DEF Class!Lawful

(***************************************************************************)
(* Its joins are above their operands in the decidable order, which the    *)
(* class does not ask for and the solver's ascent rests on.                *)
(***************************************************************************)
THEOREM ValueAscends == Class!JoinAscends
<1>1. \A d \in avalues : avalue_le(d, d)
  BY ValueOrder
<1> QED
  BY <1>1, JoinLeast DEF Class!JoinAscends

-----------------------------------------------------------------------------
(* How often a value can rise.                                             *)

\* The bits of a tnum that are not known.
Unknowns(t) == {i \in 1 .. W : t[i] = X}

\* There are at most W of them, and more in a tnum that is above another.
LEMMA UnknownsGrow ==
  ASSUME NEW s \in Tnum
  PROVE  /\ Cardinality(Unknowns(s)) \in 0 .. W
         /\ \A t \in Tnum : tnum_le(s, t) /\ s # t
                              => Cardinality(Unknowns(s)) < Cardinality(Unknowns(t))
<1>1. W \in Nat /\ s \in TnumOf(W)
  BY WAssumption DEF Tnum
<1>2. /\ IsFiniteSet(1 .. W) /\ Cardinality(1 .. W) = W
  <2>1. 1 \in Int /\ W \in Int /\ (1 > W => W = 0) /\ W - 1 + 1 = W
    BY <1>1
  <2> QED
    BY <2>1, FS_Interval
<1>3. ASSUME NEW t
      PROVE  /\ IsFiniteSet(Unknowns(t)) /\ Cardinality(Unknowns(t)) \in Nat
             /\ Cardinality(Unknowns(t)) <= W
  <2>1. Unknowns(t) \in SUBSET (1 .. W)
    BY DEF Unknowns
  <2> QED
    BY <1>2, <2>1, FS_Subset, FS_CardinalityType
<1>4. ASSUME NEW t \in Tnum, tnum_le(s, t), s # t
      PROVE  Cardinality(Unknowns(s)) < Cardinality(Unknowns(t))
  <2>1. t \in TnumOf(W)
    BY DEF Tnum
  <2>2. Unknowns(s) \in SUBSET Unknowns(t)
    BY <1>4 DEF tnum_le, trit_le, Unknowns
  <2>3. PICK i \in 1 .. W : s[i] # t[i]
    BY <1>1, <1>4, <2>1 DEF TnumOf
  <2>4. i \in Unknowns(t) /\ i \notin Unknowns(s)
    BY <1>4, <2>3 DEF tnum_le, trit_le, Unknowns
  <2> QED
    BY <1>3, <2>2, <2>4, FS_Subset
<1> QED
  BY <1>1, <1>3, <1>4

\* The rank of a value: a scalar or a pointer by what is unknown of it, and
\* top above all.
Rank(d) ==
  IF HasTnum(d) THEN Cardinality(Unknowns(d.t))
  ELSE IF d = top THEN W + 1
  ELSE 0

\* Only top has the largest rank.
LEMMA RankBelowTop ==
  ASSUME NEW d \in avalues
  PROVE  /\ Rank(d) \in 0 .. W + 1
         /\ d # top => Rank(d) < W + 1
         /\ Rank(top) = W + 1
<1>1. W \in Nat
  BY WAssumption
<1>2. Rank(top) = W + 1
  BY AbstractShapes DEF Rank, HasTnum
<1>3. CASE HasTnum(d)
  <2>1. d.t \in Tnum
    BY <1>3, AbstractShapes DEF HasTnum
  <2>2. Cardinality(Unknowns(d.t)) \in 0 .. W
    BY <2>1, UnknownsGrow
  <2>3. Rank(d) \in 0 .. W
    BY <1>3, <2>2 DEF Rank
  <2> QED
    BY <1>1, <1>2, <2>3
<1>4. CASE ~HasTnum(d)
  BY <1>1, <1>2, <1>4 DEF Rank
<1> QED
  BY <1>3, <1>4

(***************************************************************************)
(* The values of the repository rise at most W + 1 times: a bit that is    *)
(* known becomes unknown, or the value becomes top.  With this             *)
(* VerifierProofs!EnoughFuelSuffices counts the rounds of the solver.      *)
(***************************************************************************)
THEOREM ValueHeight == \E rank : Class!Ranked(rank, W + 1)
<1> DEFINE rank == [d \in avalues |-> Rank(d)]
<1>1. rank \in [avalues -> 0 .. W + 1]
  BY RankBelowTop
<1>2. \A d \in avalues, e \in avalues : avalue_le(d, avalue_join(d, e))
  BY JoinLeast
<1>3. ASSUME NEW d \in avalues, NEW e \in avalues, avalue_le(d, e), d # e
      PROVE  Rank(d) < Rank(e)
  <2>1. CASE e = top
    BY <1>3, <2>1, RankBelowTop
  <2>2. CASE e # top
    <3>1. SameShape(d, e) /\ (HasTnum(d) => tnum_le(d.t, e.t))
      BY <1>3, <2>2 DEF avalue_le
    <3>2. HasTnum(d) /\ HasTnum(e)
      BY <1>3, <2>2, <3>1, AbstractShapes DEF SameShape, HasTnum
    <3>3. d.t \in Tnum /\ e.t \in Tnum
      BY <3>2, AbstractShapes DEF HasTnum
    <3>4. d.t # e.t
      BY <1>3, <3>1, <3>2, AbstractShapes DEF SameShape, HasTnum
    <3>5. Cardinality(Unknowns(d.t)) < Cardinality(Unknowns(e.t))
      BY <3>1, <3>2, <3>3, <3>4, UnknownsGrow
    <3> QED
      BY <3>2, <3>5 DEF Rank
  <2> QED
    BY <2>1, <2>2
<1>4. \A d \in avalues, e \in avalues :
        avalue_le(d, e) /\ d # e => rank[d] < rank[e]
  BY <1>3
<1> HIDE DEF rank
<1>5. Class!Ranked(rank, W + 1)
  BY <1>1, <1>2, <1>4, ValueAscends DEF Class!Ranked
<1> QED
  BY <1>5
=============================================================================
