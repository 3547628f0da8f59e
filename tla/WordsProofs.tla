----------------------------- MODULE WordsProofs -----------------------------
(***************************************************************************)
(* Facts about machine words of every width: powers of two, division with  *)
(* remainder, the bits of a word, and what FromBits, the bitwise           *)
(* operations and the sums of module Words do to bits.  Induction is over  *)
(* sets of naturals, and a recursive function is first shown to exist.     *)
(***************************************************************************)
EXTENDS Words, FiniteSetTheorems, TLAPS

-----------------------------------------------------------------------------
(* Induction.                                                              *)

\* A set that holds 0 and is closed under successor holds every natural.
LEMMA SetInduction ==
  ASSUME NEW S, 0 \in S, \A n \in Nat : n \in S => n + 1 \in S
  PROVE  \A n \in Nat : n \in S
<1> DEFINE T == Nat \ S
           R == OpToRel(<, Nat)
<1>1. SUFFICES ASSUME T # {} PROVE FALSE
  OBVIOUS
<1>2. IsWellFoundedOn(R, Nat)
  BY NatLessThanWellFounded, Zenon
<1>3. PICK n \in T : \A m \in T : ~ (<<m, n>> \in R)
  <2> HIDE DEF R
  <2> QED
    BY <1>1, <1>2, WFMin, Zenon
<1>4. n # 0 /\ n - 1 \in T
  OBVIOUS
<1>5. \A ss \in Nat \X Nat : ss[1] < ss[2] => ss \in R
  BY Zenon DEF OpToRel
<1>6. <<n - 1, n>> \in Nat \X Nat /\ <<n - 1, n>>[1] < <<n - 1, n>>[2]
  BY <1>4
<1>7. <<n - 1, n>> \in R
  <2> HIDE DEF R
  <2> QED
    BY <1>5, <1>6, Zenon
<1> QED
  BY <1>3, <1>4, <1>7, Zenon

\* g is defined on 0 .. m by primitive recursion, from d0 with the steps G.
Recursive(g, m, d0, G) == g[0] = d0 /\ \A n \in 1 .. m : g[n] = G[n][g[n - 1]]

\* A recursion over 0 .. m has a solution: the induction that gives the
\* recursive functions of the models their values.
LEMMA RecursionExists ==
  ASSUME NEW m \in Nat, NEW D, NEW d0 \in D, NEW G \in [1 .. m -> [D -> D]]
  PROVE  \E g \in [0 .. m -> D] : Recursive(g, m, d0, G)
<1> DEFINE Upto(k, g) == Recursive(g, k, d0, G)
           S == {k \in Nat : k <= m => \E g \in [0 .. k -> D] : Upto(k, g)}
<1> USE DEF Recursive
<1>1. 0 \in S
  <2> DEFINE g0 == [n \in 0 .. 0 |-> d0]
  <2>1. g0 \in [0 .. 0 -> D] /\ Upto(0, g0)
    OBVIOUS
  <2> QED
    BY <2>1
<1>2. ASSUME NEW k \in Nat, k \in S PROVE k + 1 \in S
  <2>1. SUFFICES ASSUME k + 1 <= m
                 PROVE  \E g \in [0 .. k + 1 -> D] : Upto(k + 1, g)
    OBVIOUS
  <2>2. PICK g \in [0 .. k -> D] : Upto(k, g)
    BY <1>2, <2>1
  <2> DEFINE h == [n \in 0 .. k + 1 |-> IF n = k + 1 THEN G[k + 1][g[k]] ELSE g[n]]
  <2>3. G[k + 1][g[k]] \in D
    BY <2>1
  <2>4. h \in [0 .. k + 1 -> D]
    BY <2>3
  <2>5. \A n \in 0 .. k : h[n] = g[n]
    OBVIOUS
  <2>6. h[k + 1] = G[k + 1][h[k]]
    BY <2>5
  <2>7. ASSUME NEW n \in 1 .. k PROVE h[n] = G[n][h[n - 1]]
    BY <2>2, <2>5
  <2>8. Upto(k + 1, h)
    <3>1. h[0] = d0
      BY <2>2, <2>5
    <3>2. ASSUME NEW n \in 1 .. k + 1 PROVE h[n] = G[n][h[n - 1]]
      <4>1. CASE n = k + 1
        <5>1. n - 1 = k
          BY <4>1
        <5> HIDE DEF h
        <5> QED
          BY <4>1, <5>1, <2>6
      <4>2. CASE n \in 1 .. k
        BY <4>2, <2>7
      <4> QED
        BY <4>1, <4>2
    <3> QED
      BY <3>1, <3>2
  <2> QED
    BY <2>4, <2>8
<1>3. m \in S
  <2> HIDE DEF S
  <2> QED
    BY <1>1, <1>2, SetInduction
<1> QED
  BY <1>3

-----------------------------------------------------------------------------
(* Powers of two.                                                          *)

\* The subsets of 1 .. n + 1 are those of 1 .. n, without and with n + 1.
LEMMA PowerFacts ==
  ASSUME NEW n \in Nat
  PROVE  2^n \in Nat \ {0} /\ 2^(n + 1) = 2 * 2^n
<1> DEFINE A == SUBSET (1 .. n)
           B == SUBSET (1 .. n + 1)
           C == {s \cup {n + 1} : s \in A}
<1>1. IsFiniteSet(A) /\ Cardinality(A) = 2^n
  <2>1. IsFiniteSet(1 .. n) /\ Cardinality(1 .. n) = n
    BY FS_Interval
  <2> QED
    BY <2>1, FS_SUBSET
<1>2. Cardinality(B) = 2^(n + 1)
  <2>1. IsFiniteSet(1 .. n + 1) /\ Cardinality(1 .. n + 1) = n + 1
    <3>1. n + 1 \in Int /\ 1 \in Int /\ ~ (1 > n + 1) /\ n + 1 - 1 + 1 = n + 1
      OBVIOUS
    <3> QED
      BY <3>1, FS_Interval
  <2> QED
    BY <2>1, FS_SUBSET
<1>3. B = A \cup C
  <2>1. ASSUME NEW s \in B PROVE s \in A \cup C
    <3>1. CASE n + 1 \in s
      <4>1. s \ {n + 1} \in A /\ s = (s \ {n + 1}) \cup {n + 1}
        BY <3>1
      <4> QED
        BY <4>1
    <3>2. CASE n + 1 \notin s
      BY <3>2
    <3> QED
      BY <3>1, <3>2
  <2>2. ASSUME NEW s \in A PROVE s \in B /\ s \cup {n + 1} \in B
    OBVIOUS
  <2>3. \A t \in C : \E s \in A : t = s \cup {n + 1}
    OBVIOUS
  <2> HIDE DEF A, B, C
  <2>4. \A t \in C : t \in B
    BY <2>2, <2>3
  <2>5. \A t : t \in B <=> t \in A \cup C
    BY <2>1, <2>2, <2>4, Zenon
  <2> QED
    BY <2>5, Zenon
<1>4. A \cap C = {}
  OBVIOUS
<1>5. IsFiniteSet(C) /\ Cardinality(C) = Cardinality(A)
  <2> DEFINE f == [s \in A |-> s \cup {n + 1}]
  <2>1. f \in [A -> C]
    OBVIOUS
  <2>2. ASSUME NEW s \in A, NEW t \in A, f[s] = f[t] PROVE s = t
    <3>1. s \cup {n + 1} = t \cup {n + 1} /\ n + 1 \notin s /\ n + 1 \notin t
      BY <2>2
    <3> QED
      BY <3>1
  <2>3. \A t \in C : \E s \in A : f[s] = t
    OBVIOUS
  <2>4. f \in Bijection(A, C)
    <3> HIDE DEF f, A, C
    <3> QED
      BY <2>1, <2>2, <2>3 DEF Bijection, Injection, Surjection, IsInjective
  <2> HIDE DEF f, A, C
  <2> QED
    BY <1>1, <2>4, FS_Bijection DEF ExistsBijection
<1>6. Cardinality(B) = Cardinality(A) + Cardinality(C)
  <2> HIDE DEF A, B, C
  <2>1. Cardinality(A \cap C) = 0
    BY <1>4, FS_EmptySet
  <2>2. Cardinality(A) \in Nat
    BY <1>1, FS_CardinalityType
  <2> QED
    BY <1>1, <1>3, <1>5, <2>1, <2>2, FS_Union
<1>7. Cardinality(A) \in Nat \ {0}
  <2>1. {} \in A
    OBVIOUS
  <2> HIDE DEF A
  <2> QED
    BY <1>1, <2>1, FS_CardinalityType, FS_EmptySet
<1> QED
  <2> HIDE DEF A, B, C
  <2> QED
    BY <1>1, <1>2, <1>5, <1>6, <1>7

\* The first powers of two.
LEMMA PowerZero == 2^0 = 1 /\ 2^1 = 2
  OBVIOUS

\* Powers of two add up in the exponent.
LEMMA PowerSum ==
  ASSUME NEW m \in Nat, NEW n \in Nat
  PROVE  2^(m + n) = 2^m * 2^n
<1> DEFINE S == {k \in Nat : 2^(m + k) = 2^m * 2^k}
<1>1. 0 \in S
  <2>1. 2^m \in Nat /\ m + 0 = m
    BY PowerFacts
  <2> QED
    BY <2>1, PowerZero
<1>2. ASSUME NEW k \in Nat, k \in S PROVE k + 1 \in S
  <2>1. 2^(m + k + 1) = 2 * 2^(m + k) /\ 2^(k + 1) = 2 * 2^k
    BY PowerFacts
  <2>2. m + (k + 1) = m + k + 1
    OBVIOUS
  <2> DEFINE p == 2^m
             q == 2^k
  <2>3. p \in Nat /\ q \in Nat
    BY PowerFacts
  <2>4. 2 * (p * q) = p * (2 * q)
    <3> HIDE DEF p, q
    <3> QED
      BY <2>3
  <2>5. 2^(m + k) = 2^m * 2^k
    BY <1>2
  <2> QED
    BY <2>1, <2>2, <2>4, <2>5
<1>3. n \in S
  <2> HIDE DEF S
  <2> QED
    BY <1>1, <1>2, SetInduction
<1> QED
  BY <1>3

\* Powers grow with the exponent, and are never below it.
LEMMA PowerOrder ==
  ASSUME NEW m \in Nat, NEW n \in Nat, m <= n
  PROVE  2^m <= 2^n /\ 2^n = 2^m * 2^(n - m)
<1>1. n - m \in Nat /\ m + (n - m) = n
  OBVIOUS
<1>2. 2^n = 2^m * 2^(n - m)
  BY <1>1, PowerSum
<1>3. 2^m \in Nat /\ 2^(n - m) \in Nat \ {0}
  BY <1>1, PowerFacts
<1> DEFINE p == 2^m
           q == 2^(n - m)
<1>4. p * q >= p
  <2>1. p \in Nat /\ q - 1 \in Nat /\ q \in Int
    BY <1>3
  <2> HIDE DEF p, q
  <2>2. p * (q - 1) >= 0 /\ p * (q - 1) = p * q - p /\ p * q \in Int
    BY <2>1
  <2> QED
    BY <2>1, <2>2
<1>5. 2^n \in Nat
  BY PowerFacts
<1> QED
  BY <1>2, <1>3, <1>4, <1>5

\* A power of two is above its exponent.
LEMMA PowerAbove ==
  ASSUME NEW n \in Nat
  PROVE  n < 2^n
<1> DEFINE S == {k \in Nat : k < 2^k}
<1>1. 0 \in S
  BY PowerZero
<1>2. ASSUME NEW k \in Nat, k \in S PROVE k + 1 \in S
  BY <1>2, PowerFacts
<1>3. n \in S
  <2> HIDE DEF S
  <2> QED
    BY <1>1, <1>2, SetInduction
<1> QED
  BY <1>3

-----------------------------------------------------------------------------
(* Division with remainder.                                                *)

\* Quotients, remainders and what they add up to.
LEMMA DivMod ==
  ASSUME NEW x \in Int, NEW d \in Nat \ {0}
  PROVE  /\ x \div d \in Int /\ x % d \in 0 .. d - 1
         /\ x = d * (x \div d) + (x % d)
         /\ x >= 0 => x \div d \in 0 .. x
  OBVIOUS

\* The quotient and the remainder are the only ones.
LEMMA DivModUnique ==
  ASSUME NEW d \in Nat \ {0}, NEW q \in Int, NEW r \in 0 .. d - 1
  PROVE  (d * q + r) \div d = q /\ (d * q + r) % d = r
<1> DEFINE x == d * q + r
           p == x \div d
<1>1. x \in Int /\ p \in Int /\ x % d \in 0 .. d - 1 /\ x = d * p + (x % d)
  BY DivMod
<1>2. ASSUME NEW u \in Int, NEW v \in Int, u < v PROVE d * v >= d * u + d
  <2>1. v - u >= 1 /\ d >= 1
    BY <1>2
  <2>2. d * (v - u) >= d
    BY <2>1
  <2>3. d * (v - u) = d * v - d * u
    OBVIOUS
  <2> QED
    BY <2>2, <2>3
<1>3. p = q
  <2>1. d * p \in Int /\ d * q \in Int /\ d * p + (x % d) = d * q + r
    BY <1>1
  <2>2. ~ (p < q)
    <3> HIDE DEF p, x
    <3>1. ASSUME p < q PROVE FALSE
      <4>1. d * q >= d * p + d
        BY <1>1, <1>2, <3>1
      <4> QED
        BY <1>1, <2>1, <4>1
    <3> QED
      BY <3>1
  <2>3. ~ (q < p)
    <3> HIDE DEF p, x
    <3>1. ASSUME q < p PROVE FALSE
      <4>1. d * p >= d * q + d
        BY <1>1, <1>2, <3>1
      <4> QED
        BY <1>1, <2>1, <4>1
    <3> QED
      BY <3>1
  <2> HIDE DEF p, x
  <2> QED
    BY <1>1, <2>2, <2>3
<1>4. x % d = r
  <2>1. d * p = d * q /\ d * q \in Int
    BY <1>3
  <2> HIDE DEF p
  <2> QED
    BY <1>1, <2>1
<1> QED
  BY <1>3, <1>4

-----------------------------------------------------------------------------
(* The bits of a number.                                                   *)

\* Bit n is the parity of the quotient by 2^n: it is the step from the
\* remainder modulo 2^n to that modulo 2^(n + 1).
LEMMA BitStep ==
  ASSUME NEW x \in Int, NEW n \in Nat
  PROVE  /\ Bit(x, n) \in {0, 1}
         /\ x \div 2^n = 2 * (x \div 2^(n + 1)) + Bit(x, n)
         /\ x % 2^(n + 1) = (x % 2^n) + 2^n * Bit(x, n)
<1> DEFINE d == 2^n
           q == x \div d
           r == x % d
           c == q % 2
           h == q \div 2
<1>1. d \in Nat \ {0} /\ 2^(n + 1) = 2 * d
  BY PowerFacts
<1>2. q \in Int /\ r \in 0 .. d - 1 /\ x = d * q + r
  <2> HIDE DEF d
  <2> QED
    BY <1>1, DivMod
<1>3. c \in {0, 1} /\ h \in Int /\ q = 2 * h + c
  <2> HIDE DEF q
  <2> QED
    BY <1>2
<1>4. d * c + r \in 0 .. 2 * d - 1
  <2> HIDE DEF d, r, c
  <2>1. CASE c = 0
    BY <1>1, <1>2, <2>1
  <2>2. CASE c = 1
    BY <1>1, <1>2, <2>2
  <2> QED
    BY <1>3, <2>1, <2>2
<1>5. x = 2 * d * h + (d * c + r)
  <2>1. d * (2 * h + c) = 2 * d * h + d * c
    <3> HIDE DEF d, h, c
    <3> QED
      BY <1>1, <1>3
  <2>2. d * q = d * (2 * h + c) /\ 2 * d * h \in Int /\ d * c \in Int
    <3> HIDE DEF d, h, c, q
    <3> QED
      BY <1>1, <1>3
  <2> HIDE DEF d, h, c, q, r
  <2> QED
    BY <1>2, <2>1, <2>2
<1>6. x \div (2 * d) = h /\ x % (2 * d) = d * c + r
  <2>1. 2 * d \in Nat \ {0}
    BY <1>1
  <2> HIDE DEF d, h, c, q, r
  <2> QED
    BY <1>3, <1>4, <1>5, <2>1, DivModUnique
<1>7. Bit(x, n) = c
  BY DEF Bit
<1>8. d * c + r = r + d * c
  <2> HIDE DEF d, r, c
  <2> QED
    BY <1>1, <1>2, <1>3
<1> QED
  <2> HIDE DEF h, c
  <2> QED
    BY <1>1, <1>3, <1>6, <1>7, <1>8

\* Numbers below 2^n are their own remainders.
LEMMA LowSelf ==
  ASSUME NEW n \in Nat, NEW x \in 0 .. 2^n - 1
  PROVE  x % 2^n = x /\ x \div 2^n = 0
<1> DEFINE d == 2^n
<1>1. d \in Nat \ {0} /\ x \in 0 .. d - 1 /\ d * 0 + x = x
  BY PowerFacts
<1> HIDE DEF d
<1>2. x \div d = 0 /\ x % d = x
  BY <1>1, DivModUnique
<1> QED
  BY <1>2 DEF d

\* Equal low bits, equal remainders.
LEMMA BitsDetermine ==
  ASSUME NEW n \in Nat, NEW x \in Int, NEW y \in Int,
         \A i \in 0 .. n - 1 : Bit(x, i) = Bit(y, i)
  PROVE  x % 2^n = y % 2^n
<1> DEFINE S == {k \in Nat : k <= n => x % 2^k = y % 2^k}
<1>1. 0 \in S
  BY PowerZero
<1>2. ASSUME NEW k \in Nat, k \in S PROVE k + 1 \in S
  <2>1. SUFFICES ASSUME k + 1 <= n PROVE x % 2^(k + 1) = y % 2^(k + 1)
    OBVIOUS
  <2>2. x % 2^k = y % 2^k /\ Bit(x, k) = Bit(y, k)
    BY <1>2, <2>1
  <2>3. /\ x % 2^(k + 1) = (x % 2^k) + 2^k * Bit(x, k)
        /\ y % 2^(k + 1) = (y % 2^k) + 2^k * Bit(y, k)
    BY BitStep
  <2> QED
    BY <2>2, <2>3
<1>3. n \in S
  <2> HIDE DEF S
  <2> QED
    BY <1>1, <1>2, SetInduction
<1> QED
  BY <1>3

\* Multiples of a higher power do not reach a bit.
LEMMA BitBelow ==
  ASSUME NEW n \in Nat, NEW i \in 0 .. n - 1, NEW k \in Int, NEW r \in Int
  PROVE  Bit(2^n * k + r, i) = Bit(r, i)
<1> DEFINE d == 2^i
           e == 2^(n - i - 1)
           q == r \div d
           m == r % d
<1>1. d \in Nat \ {0} /\ e \in Nat \ {0} /\ 2^n = d * (2 * e)
  <2>1. n - i - 1 \in Nat /\ n - i = n - i - 1 + 1 /\ i <= n /\ i \in Nat
    OBVIOUS
  <2>2. 2^n = 2^i * 2^(n - i)
    BY <2>1, PowerOrder
  <2>3. 2^(n - i) = 2 * e
    BY <2>1, PowerFacts
  <2> QED
    BY <2>1, <2>2, <2>3, PowerFacts
<1>2. q \in Int /\ m \in 0 .. d - 1 /\ r = d * q + m
  <2> HIDE DEF d
  <2> QED
    BY <1>1, DivMod
<1>3. 2^n * k + r = d * (2 * (e * k) + q) + m
  <2>1. d * (2 * e) * k = d * (2 * (e * k)) /\ d * (2 * e) * k \in Int
    <3> HIDE DEF d, e
    <3> QED
      BY <1>1
  <2>2. d * (2 * (e * k) + q) = d * (2 * (e * k)) + d * q
    <3> HIDE DEF d, e, q
    <3>1. e * k \in Int
      BY <1>1
    <3> QED
      BY <1>1, <1>2, <3>1
  <2>3. d * q \in Int /\ 2^n * k = d * (2 * e) * k
    <3> HIDE DEF e, q
    <3> QED
      BY <1>1, <1>2
  <2> HIDE DEF d, e, q, m
  <2> QED
    BY <1>2, <2>1, <2>2, <2>3
<1>4. 2 * (e * k) + q \in Int /\ e * k \in Int
  <2> HIDE DEF d, e, q
  <2>1. e * k \in Int
    BY <1>1
  <2> QED
    BY <1>2, <2>1
<1>5. (2^n * k + r) \div d = 2 * (e * k) + q
  <2> HIDE DEF d, e, q, m
  <2> QED
    BY <1>1, <1>2, <1>3, <1>4, DivModUnique
<1>6. (2 * (e * k) + q) % 2 = q % 2
  <2> DEFINE u == e * k
  <2> HIDE DEF d, u, q
  <2> QED
    BY <1>2, <1>4 DEF u
<1> QED
  BY <1>5, <1>6 DEF Bit

\* Reduction modulo 2^n keeps the n low bits.
LEMMA BitOfLow ==
  ASSUME NEW n \in Nat, NEW i \in 0 .. n - 1, NEW x \in Int
  PROVE  Bit(x % 2^n, i) = Bit(x, i)
<1> DEFINE d == 2^n
<1>1. d \in Nat \ {0}
  BY PowerFacts
<1>2. x \div d \in Int /\ x % d \in Int /\ x = d * (x \div d) + (x % d)
  <2> HIDE DEF d
  <2> QED
    BY <1>1, DivMod
<1>3. Bit(d * (x \div d) + (x % d), i) = Bit(x % d, i)
  <2>1. \A k \in Int, r \in Int : Bit(d * k + r, i) = Bit(r, i)
    BY BitBelow
  <2> HIDE DEF d
  <2> QED
    BY <1>2, <2>1
<1> QED
  BY <1>2, <1>3

\* A word has the bits its digits give it: the first n terms of the sum.
LEMMA BitTop ==
  ASSUME NEW n \in Nat, NEW c \in {0, 1}, NEW r \in 0 .. 2^n - 1
  PROVE  Bit(2^n * c + r, n) = c
<1> DEFINE d == 2^n
<1>1. d \in Nat \ {0}
  BY PowerFacts
<1>2. (d * c + r) \div d = c
  <2> HIDE DEF d
  <2> QED
    BY <1>1, DivModUnique DEF d
<1> QED
  BY <1>2 DEF Bit

\* FromBits is the word with the given bits.
LEMMA FromBitsDigits ==
  ASSUME NEW f \in [0 .. W - 1 -> {0, 1}]
  PROVE  /\ FromBits(f) \in Word
         /\ \A i \in 0 .. W - 1 : Bit(FromBits(f), i) = f[i]
<1> DEFINE upto[n \in 0 .. W] ==
             IF n = 0 THEN 0 ELSE upto[n - 1] + f[n - 1] * 2^(n - 1)
           G == [n \in 1 .. W |-> [v \in Int |-> v + f[n - 1] * 2^(n - 1)]]
           Digits(n) == /\ upto[n] \in 0 .. 2^n - 1
                        /\ \A i \in 0 .. n - 1 : Bit(upto[n], i) = f[i]
           S == {n \in Nat : n <= W => Digits(n)}
<1>1. upto = [n \in 0 .. W |->
                IF n = 0 THEN 0 ELSE upto[n - 1] + f[n - 1] * 2^(n - 1)]
  <2>1. \E g : g = [n \in 0 .. W |->
                IF n = 0 THEN 0 ELSE g[n - 1] + f[n - 1] * 2^(n - 1)]
    <3>1. G \in [1 .. W -> [Int -> Int]]
      BY WAssumption, PowerFacts
    <3>2. PICK g \in [0 .. W -> Int] :
            g[0] = 0 /\ \A n \in 1 .. W : g[n] = G[n][g[n - 1]]
      <4>1. W \in Nat /\ 0 \in Int
        BY WAssumption
      <4>2. \E g \in [0 .. W -> Int] : Recursive(g, W, 0, G)
        <5> HIDE DEF G
        <5> QED
          BY <3>1, <4>1, RecursionExists, Zenon
      <4> QED
        BY <4>2 DEF Recursive
    <3>3. ASSUME NEW n \in 0 .. W
          PROVE  g[n] = IF n = 0 THEN 0 ELSE g[n - 1] + f[n - 1] * 2^(n - 1)
      <4>1. CASE n = 0
        BY <3>2, <4>1
      <4>2. CASE n \in 1 .. W
        <5>1. n - 1 \in 0 .. W /\ g[n - 1] \in Int
          BY <4>2, WAssumption
        <5> QED
          BY <3>2, <4>2, <5>1
      <4> QED
        BY <4>1, <4>2, WAssumption
    <3> QED
      BY <3>3
  <2> QED
    BY <2>1
<1> HIDE DEF upto
<1>2. 0 \in S
  BY <1>1, PowerZero, WAssumption
<1>3. ASSUME NEW n \in Nat, n \in S PROVE n + 1 \in S
  <2>1. SUFFICES ASSUME n + 1 <= W PROVE Digits(n + 1)
    OBVIOUS
  <2> DEFINE u == upto[n]
             c == f[n]
             d == 2^n
  <2>2. u \in 0 .. d - 1 /\ \A i \in 0 .. n - 1 : Bit(u, i) = f[i]
    BY <1>3, <2>1, WAssumption
  <2>3. c \in {0, 1} /\ d \in Nat \ {0} /\ 2^(n + 1) = 2 * d
    BY <2>1, PowerFacts, WAssumption
  <2>4. upto[n + 1] = d * c + u
    <3>1. upto[n + 1] = u + c * d
      BY <1>1, <2>1, WAssumption
    <3> HIDE DEF u, c, d
    <3> QED
      BY <2>2, <2>3, <3>1
  <2>5. d * c + u \in 0 .. 2 * d - 1
    <3> HIDE DEF u, c, d
    <3>1. CASE c = 0
      BY <2>2, <2>3, <3>1
    <3>2. CASE c = 1
      BY <2>2, <2>3, <3>2
    <3> QED
      BY <2>3, <3>1, <3>2
  <2>6. ASSUME NEW i \in 0 .. n PROVE Bit(d * c + u, i) = f[i]
    <3>1. CASE i = n
      BY <2>2, <2>3, <3>1, BitTop
    <3>2. CASE i \in 0 .. n - 1
      <4>1. c \in Int /\ u \in Int
        BY <2>2, <2>3
      <4>2. \A k \in Int, r \in Int : Bit(2^n * k + r, i) = Bit(r, i)
        BY <3>2, BitBelow
      <4>3. Bit(d * c + u, i) = Bit(u, i)
        BY <4>1, <4>2
      <4> QED
        BY <2>2, <3>2, <4>3
    <3> QED
      BY <3>1, <3>2
  <2> QED
    BY <2>3, <2>4, <2>5, <2>6
<1>4. W \in S
  <2> HIDE DEF S
  <2> QED
    BY <1>2, <1>3, SetInduction, WAssumption
<1>5. FromBits(f) = upto[W]
  BY DEF FromBits, upto
<1> QED
  BY <1>4, <1>5, WAssumption DEF Word

-----------------------------------------------------------------------------
(* Words and their operations.                                             *)

\* Words are the residues modulo 2^W.
LEMMA WordFacts ==
  /\ 2^W \in Nat \ {0} /\ 2^0 = 1
  /\ Word = 0 .. 2^W - 1 /\ Word \subseteq Nat
  /\ 0 \in Word /\ AllOnes \in Word
  /\ \A x \in Int : x % 2^W \in Word
  /\ \A x \in Word : x % 2^W = x
<1>1. 2^W \in Nat \ {0} /\ W \in Nat
  BY WAssumption, PowerFacts
<1>2. \A x \in Int : x % 2^W \in 0 .. 2^W - 1
  <2> DEFINE d == 2^W
  <2> HIDE DEF d
  <2>1. d \in Nat \ {0} => \A x \in Int : x % d \in 0 .. d - 1
    BY DivMod
  <2> QED
    BY <1>1, <2>1 DEF d
<1>3. \A x \in 0 .. 2^W - 1 : x % 2^W = x
  BY <1>1, LowSelf
<1> QED
  BY <1>1, <1>2, <1>3, PowerZero DEF Word, AllOnes

\* Bits are bits.
LEMMA BitType ==
  ASSUME NEW x \in Int, NEW i \in Nat
  PROVE  Bit(x, i) \in {0, 1}
  BY BitStep

\* Bits are bits, for words.
LEMMA WordBitType ==
  ASSUME NEW x \in Word, NEW i \in 0 .. W - 1
  PROVE  Bit(x, i) \in {0, 1}
<1>1. x \in Int /\ i \in Nat
  BY WordFacts, WAssumption
<1> QED
  BY <1>1, BitType

\* Words with the same bits are the same.
LEMMA WordExtensionality ==
  ASSUME NEW x \in Word, NEW y \in Word,
         \A i \in 0 .. W - 1 : Bit(x, i) = Bit(y, i)
  PROVE  x = y
<1>1. x \in Int /\ y \in Int /\ x % 2^W = x /\ y % 2^W = y /\ W \in Nat
  BY WordFacts, WAssumption
<1>2. x % 2^W = y % 2^W
  BY <1>1, BitsDetermine
<1> QED
  BY <1>1, <1>2

\* Complement, 2^n - 1 - x, flips the low n bits.
LEMMA ComplementBits ==
  ASSUME NEW n \in Nat, NEW x \in Int, NEW i \in 0 .. n - 1
  PROVE  Bit(2^n - 1 - x, i) = 1 - Bit(x, i)
<1> DEFINE d == 2^i
           q == x \div d
           r == x % d
<1>1. d \in Nat \ {0} /\ q \in Int /\ r \in 0 .. d - 1 /\ x = d * q + r
  <2>1. d \in Nat \ {0}
    BY PowerFacts
  <2> HIDE DEF d
  <2> QED
    BY <2>1, DivMod
<1>2. 2^n - 1 - x = 2^n * 1 + (d * (-1 - q) + (d - 1 - r))
  <2>1. d * (-1 - q) = - d - d * q /\ d * q \in Int
    <3> HIDE DEF d, q
    <3> QED
      BY <1>1
  <2>2. 2^n \in Int
    BY PowerFacts
  <2> HIDE DEF d, q, r
  <2> QED
    BY <1>1, <2>1, <2>2
<1>3. Bit(2^n - 1 - x, i) = Bit(d * (-1 - q) + (d - 1 - r), i)
  <2>1. \A k \in Int, v \in Int : Bit(2^n * k + v, i) = Bit(v, i)
    BY BitBelow
  <2>2. d * (-1 - q) + (d - 1 - r) \in Int
    <3>1. d * (-1 - q) \in Int
      <4> HIDE DEF d, q
      <4> QED
        BY <1>1
    <3> HIDE DEF d, q, r
    <3> QED
      BY <1>1, <3>1
  <2> HIDE DEF d, q, r
  <2> QED
    BY <1>2, <2>1, <2>2
<1>4. (d * (-1 - q) + (d - 1 - r)) \div d = -1 - q
  <2>1. -1 - q \in Int /\ d - 1 - r \in 0 .. d - 1
    <3> HIDE DEF d, q, r
    <3> QED
      BY <1>1
  <2> HIDE DEF d, q, r
  <2> QED
    BY <1>1, <2>1, DivModUnique
<1>5. (-1 - q) % 2 = 1 - (q % 2)
  <2> HIDE DEF q
  <2> QED
    BY <1>1
<1>6. Bit(d * (-1 - q) + (d - 1 - r), i) = (-1 - q) % 2 /\ Bit(x, i) = q % 2
  BY <1>4 DEF Bit
<1> QED
  BY <1>3, <1>5, <1>6

\* The bitwise operations of Words, which are defined by arithmetic, do
\* bit by bit what their names say: complement,
LEMMA NotBits ==
  ASSUME NEW x \in Word
  PROVE  /\ bv_not(x) \in Word
         /\ \A i \in 0 .. W - 1 : Bit(bv_not(x), i) = 1 - Bit(x, i)
<1>1. x \in Int /\ W \in Nat
  BY WordFacts, WAssumption
<1>2. bv_not(x) \in Word
  <2>1. 2^W \in Int /\ x \in 0 .. 2^W - 1
    BY WordFacts
  <2>2. 2^W - 1 - x \in 0 .. 2^W - 1
    BY <2>1
  <2> QED
    BY <2>2 DEF bv_not, AllOnes, Word
<1>3. \A i \in 0 .. W - 1 : Bit(2^W - 1 - x, i) = 1 - Bit(x, i)
  BY <1>1, ComplementBits
<1> QED
  BY <1>2, <1>3 DEF bv_not, AllOnes

\* conjunction,
LEMMA AndBits ==
  ASSUME NEW x \in Word, NEW y \in Word
  PROVE  /\ bv_and(x, y) \in Word
         /\ \A i \in 0 .. W - 1 : Bit(bv_and(x, y), i) = Bit(x, i) * Bit(y, i)
<1> DEFINE f == [i \in 0 .. W - 1 |-> Bit(x, i) * Bit(y, i)]
<1>1. f \in [0 .. W - 1 -> {0, 1}]
  <2>1. ASSUME NEW i \in 0 .. W - 1 PROVE Bit(x, i) * Bit(y, i) \in {0, 1}
    <3>1. Bit(x, i) \in {0, 1} /\ Bit(y, i) \in {0, 1}
      BY WordBitType
    <3> QED
      BY <3>1
  <2> QED
    BY <2>1
<1> QED
  BY <1>1, FromBitsDigits DEF bv_and

\* exclusive or,
LEMMA XorBits ==
  ASSUME NEW x \in Word, NEW y \in Word
  PROVE  /\ bv_xor(x, y) \in Word
         /\ \A i \in 0 .. W - 1 :
              Bit(bv_xor(x, y), i) = (Bit(x, i) + Bit(y, i)) % 2
<1> DEFINE f == [i \in 0 .. W - 1 |-> (Bit(x, i) + Bit(y, i)) % 2]
<1>1. f \in [0 .. W - 1 -> {0, 1}]
  <2>1. ASSUME NEW i \in 0 .. W - 1 PROVE (Bit(x, i) + Bit(y, i)) % 2 \in {0, 1}
    <3>1. Bit(x, i) \in {0, 1} /\ Bit(y, i) \in {0, 1}
      BY WordBitType
    <3> QED
      BY <3>1
  <2> QED
    BY <2>1
<1> QED
  BY <1>1, FromBitsDigits DEF bv_xor

\* disjunction.
LEMMA OrBits ==
  ASSUME NEW x \in Word, NEW y \in Word
  PROVE  /\ bv_or(x, y) \in Word
         /\ \A i \in 0 .. W - 1 :
              Bit(bv_or(x, y), i) = 1 - (1 - Bit(x, i)) * (1 - Bit(y, i))
<1> DEFINE m == bv_not(x)
           n == bv_not(y)
           k == bv_and(m, n)
<1>1. /\ m \in Word /\ \A i \in 0 .. W - 1 : Bit(m, i) = 1 - Bit(x, i)
      /\ n \in Word /\ \A i \in 0 .. W - 1 : Bit(n, i) = 1 - Bit(y, i)
  BY NotBits
<1>2. k \in Word /\ \A i \in 0 .. W - 1 : Bit(k, i) = Bit(m, i) * Bit(n, i)
  <2> HIDE DEF m, n
  <2> QED
    BY <1>1, AndBits
<1>3. /\ bv_not(k) \in Word
      /\ \A i \in 0 .. W - 1 : Bit(bv_not(k), i) = 1 - Bit(k, i)
  <2> HIDE DEF k
  <2> QED
    BY <1>2, NotBits
<1>4. bv_or(x, y) = bv_not(k)
  BY DEF bv_or
<1> HIDE DEF m, n, k
<1> QED
  BY <1>1, <1>2, <1>3, <1>4

\* Multiplying by 2^k moves the bits up by k, dividing moves them down.
LEMMA ShiftedBits ==
  ASSUME NEW x \in Int, NEW k \in Nat, NEW i \in Nat
  PROVE  Bit(x * 2^k, i) = IF i < k THEN 0 ELSE Bit(x, i - k)
<1>1. CASE i < k
  <2>1. i \in 0 .. k - 1 /\ 0 \in Int
    BY <1>1
  <2>2. \A m \in Int, r \in Int : Bit(2^k * m + r, i) = Bit(r, i)
    BY <2>1, BitBelow
  <2>3. x * 2^k = 2^k * x + 0
    <3>1. 2^k \in Int
      BY PowerFacts
    <3> QED
      BY <3>1
  <2>4. Bit(0, i) = 0
    <3>1. 2^i \in Nat \ {0}
      BY PowerFacts
    <3>2. 0 \div 2^i = 0
      <4>1. 0 \in 0 .. 2^i - 1
        BY <3>1
      <4> QED
        BY <4>1, LowSelf
    <3>3. 0 % 2 = 0
      OBVIOUS
    <3>4. Bit(0, i) = (0 \div 2^i) % 2
      BY DEF Bit
    <3> QED
      BY <3>2, <3>3, <3>4, Zenon
  <2> QED
    BY <1>1, <2>1, <2>2, <2>3, <2>4
<1>2. CASE ~ (i < k)
  <2> DEFINE c == 2^k
             d == 2^(i - k)
             q == x \div d
             r == x % d
  <2>1. c \in Nat \ {0} /\ d \in Nat \ {0} /\ 2^i = c * d
    <3>1. i - k \in Nat /\ k <= i
      BY <1>2
    <3> QED
      BY <3>1, PowerFacts, PowerOrder
  <2>2. q \in Int /\ r \in 0 .. d - 1 /\ x = d * q + r
    <3> HIDE DEF d
    <3> QED
      BY <2>1, DivMod
  <2>3. x * c = c * d * q + c * r
    <3>1. (d * q + r) * c = c * d * q + c * r
      <4>1. r \in Int
        BY <2>1, <2>2
      <4> HIDE DEF c, d, q, r
      <4> QED
        BY <2>1, <2>2, <4>1
    <3> HIDE DEF c, d, q, r
    <3> QED
      BY <2>2, <3>1
  <2>4. c * d \in Nat \ {0} /\ c * r \in 0 .. c * d - 1
    <3>1. d - 1 - r \in Nat /\ r \in Nat
      <4> HIDE DEF c, d, q, r
      <4> QED
        BY <2>1, <2>2
    <3>2. c * (d - 1 - r) >= 0 /\ c * r >= 0 /\ c * r \in Int
      <4> HIDE DEF c, d, q, r
      <4> QED
        BY <2>1, <3>1
    <3>3. c * (d - 1 - r) = c * d - c - c * r /\ c * d \in Int
      <4> HIDE DEF c, d, q, r
      <4> QED
        BY <2>1, <3>1
    <3> HIDE DEF c, d, q, r
    <3> QED
      BY <2>1, <3>2, <3>3
  <2>5. (x * c) \div (c * d) = q
    <3> HIDE DEF c, d, q, r
    <3> QED
      BY <2>2, <2>3, <2>4, DivModUnique
  <2>6. Bit(x * 2^k, i) = q % 2 /\ Bit(x, i - k) = q % 2
    BY <2>1, <2>5 DEF Bit
  <2> QED
    BY <1>2, <2>6
<1> QED
  BY <1>1, <1>2

\* A shifted word, at the width of words.
LEMMA ShlBits ==
  ASSUME NEW x \in Int, NEW k \in Nat, NEW i \in 0 .. W - 1
  PROVE  Bit((x * 2^k) % 2^W, i) = IF i < k THEN 0 ELSE Bit(x, i - k)
<1>1. W \in Nat /\ i \in Nat
  BY WAssumption
<1>2. x * 2^k \in Int
  BY PowerFacts
<1>3. Bit((x * 2^k) % 2^W, i) = Bit(x * 2^k, i)
  BY <1>1, <1>2, BitOfLow
<1> QED
  BY <1>1, <1>3, ShiftedBits

\* The arithmetic of one position: d is its power of two, t the digits' sum.
LEMMA CarryArithmetic ==
  ASSUME NEW d \in Nat \ {0}, NEW bx \in {0, 1}, NEW by \in {0, 1},
         NEW c \in {0, 1}, NEW xl \in Int, NEW yl \in Int, NEW r \in 0 .. d - 1,
         NEW xh \in Int, NEW yh \in Int, NEW z \in Int, xl + yl + z = r + d * c,
         NEW m \in {0, 1}, NEW h \in {0, 1}, bx + by + c = 2 * h + m
  PROVE  /\ r + d * m \in 0 .. 2 * d - 1
         /\ (xl + d * bx) + (yl + d * by) + z = (r + d * m) + (2 * d) * h
         /\ (2 * d * xh + (xl + d * bx)) + (2 * d * yh + (yl + d * by)) + z
              = 2 * d * (xh + yh + h) + (r + d * m)
<1> DEFINE dbx == d * bx
           dby == d * by
           dc == d * c
           dm == d * m
           dh == d * h
<1>1. /\ dbx \in Int /\ dby \in Int /\ dc \in Int /\ dm \in {0, d} /\ dh \in Int
      /\ dbx + dby + dc = 2 * dh + dm
  <2>1. d * (bx + by + c) = dbx + dby + dc /\ d * (2 * h + m) = 2 * dh + dm
    OBVIOUS
  <2>2. d * m \in {0, d}
    OBVIOUS
  <2> QED
    BY <2>1, <2>2
<1>2. (2 * d) * h = 2 * dh
  OBVIOUS
<1>3. (xl + dbx) + (yl + dby) + z = (r + dm) + 2 * dh
  <2>1. xl + yl + z = r + dc
    OBVIOUS
  <2> HIDE DEF dbx, dby, dc, dm, dh
  <2> QED
    BY <1>1, <2>1
<1>4. r + dm \in 0 .. 2 * d - 1
  <2> HIDE DEF dm
  <2> QED
    BY <1>1
<1>5. 2 * d * (xh + yh + h) = 2 * d * xh + 2 * d * yh + 2 * dh
  OBVIOUS
<1>6. 2 * d * xh \in Int /\ 2 * d * yh \in Int
  OBVIOUS
<1> DEFINE u == 2 * d * xh
           v == 2 * d * yh
<1>7. (u + (xl + dbx)) + (v + (yl + dby)) + z = (u + v + 2 * dh) + (r + dm)
  <2>1. u \in Int /\ v \in Int
    BY <1>6
  <2> HIDE DEF u, v, dbx, dby, dm, dh
  <2> QED
    BY <1>1, <1>3, <2>1
<1> QED
  BY <1>2, <1>3, <1>4, <1>5, <1>7

(***************************************************************************)
(* One position of an addition: c is the carry into position n if the low  *)
(* n bits of x and y and the first carry z add up to those of the sum and  *)
(* c * 2^n.  Then bit n of the sum and the next carry are the digits of    *)
(* the sum of the bits and c.                                              *)
(***************************************************************************)
Carried(x, y, z, n, c) == (x % 2^n) + (y % 2^n) + z = ((x + y + z) % 2^n) + 2^n * c

\* What a full adder does to the bits and the carry of its position.
LEMMA CarryStep ==
  ASSUME NEW x \in Int, NEW y \in Int, NEW z \in Int, NEW n \in Nat,
         NEW c \in {0, 1}, Carried(x, y, z, n, c),
         NEW t, t = Bit(x, n) + Bit(y, n) + c
  PROVE  /\ Bit(x + y + z, n) = t % 2
         /\ t \div 2 \in {0, 1}
         /\ Carried(x, y, z, n + 1, t \div 2)
<1> DEFINE s == x + y + z
           d == 2^n
           e == 2^(n + 1)
           bx == Bit(x, n)
           by == Bit(y, n)
           bs == Bit(s, n)
           r == s % d
<1>1. d \in Nat \ {0} /\ e = 2 * d
  BY PowerFacts
<1>2. /\ bx \in {0, 1} /\ by \in {0, 1} /\ bs \in {0, 1}
      /\ x % e = (x % d) + d * bx
      /\ y % e = (y % d) + d * by
      /\ s % e = r + d * bs
      /\ t = bx + by + c
  BY BitStep
<1>3. /\ x % d \in Int /\ y % d \in Int /\ r \in 0 .. d - 1
      /\ x \div e \in Int /\ y \div e \in Int /\ s \div e \in Int
      /\ x = e * (x \div e) + (x % e)
      /\ y = e * (y \div e) + (y % e)
      /\ x % e \in Int /\ y % e \in Int
  <2>1. d \in Nat \ {0} /\ e \in Nat \ {0}
    BY <1>1
  <2> HIDE DEF d, e
  <2> QED
    BY <2>1, DivMod
<1> DEFINE m == t % 2
           h == t \div 2
<1>4. m \in {0, 1} /\ h \in {0, 1} /\ t = 2 * h + m
  <2> HIDE DEF bx, by
  <2> QED
    BY <1>2
<1>5. (x % d) + (y % d) + z = r + d * c
  BY DEF Carried
<1> DEFINE xl == x % d
           yl == y % d
           xh == x \div e
           yh == y \div e
           w == r + d * m
           q == xh + yh + h
<1>6. /\ w \in 0 .. e - 1
      /\ (x % e) + (y % e) + z = w + e * h
      /\ s = e * q + w
  <2>1. /\ d \in Nat \ {0} /\ e = 2 * d /\ r \in 0 .. d - 1
        /\ xl \in Int /\ yl \in Int /\ xh \in Int /\ yh \in Int
        /\ bx \in {0, 1} /\ by \in {0, 1} /\ xl + yl + z = r + d * c
        /\ m \in {0, 1} /\ h \in {0, 1} /\ bx + by + c = 2 * h + m
    BY <1>1, <1>2, <1>3, <1>4, <1>5
  <2>2. /\ x = e * xh + (x % e) /\ y = e * yh + (y % e)
        /\ x % e = xl + d * bx /\ y % e = yl + d * by
    BY <1>2, <1>3
  <2> HIDE DEF d, e, r, bx, by, m, h, xl, yl, xh, yh
  <2>3. /\ r + d * m \in 0 .. 2 * d - 1
        /\ (xl + d * bx) + (yl + d * by) + z = (r + d * m) + (2 * d) * h
        /\ (2 * d * xh + (xl + d * bx)) + (2 * d * yh + (yl + d * by)) + z
             = 2 * d * (xh + yh + h) + (r + d * m)
    BY <2>1, CarryArithmetic
  <2>4. s = (2 * d * xh + (xl + d * bx)) + (2 * d * yh + (yl + d * by)) + z
    BY <2>1, <2>2
  <2>5. s = e * (xh + yh + h) + (r + d * m)
    BY <2>1, <2>3, <2>4
  <2> QED
    BY <2>1, <2>2, <2>3, <2>5
<1>7. s % e = w
  <2>1. q \in Int /\ e \in Nat \ {0}
    <3> HIDE DEF d, e, h
    <3> QED
      BY <1>1, <1>3, <1>4
  <2>2. s = e * q + w /\ w \in 0 .. e - 1
    BY <1>6
  <2> HIDE DEF e, q, w
  <2> QED
    BY <2>1, <2>2, DivModUnique
<1>8. bs = m
  <2> HIDE DEF d, e, r, m, bs, h
  <2> QED
    BY <1>1, <1>2, <1>3, <1>4, <1>7
<1>9. (x % e) + (y % e) + z = (s % e) + e * h
  BY <1>6, <1>7
<1> QED
  BY <1>4, <1>8, <1>9 DEF Carried

\* Multiples of the modulus do not count.
LEMMA ModShift ==
  ASSUME NEW d \in Nat \ {0}, NEW x \in Int, NEW k \in Int
  PROVE  (x + d * k) % d = x % d
<1> DEFINE q == x \div d
           r == x % d
<1>1. q \in Int /\ r \in 0 .. d - 1 /\ x = d * q + r
  BY DivMod
<1>2. x + d * k = d * (q + k) + r
  <2>1. d * (q + k) = d * q + d * k /\ d * q \in Int /\ d * k \in Int
    <3> HIDE DEF q
    <3> QED
      BY <1>1
  <2> HIDE DEF q, r
  <2> QED
    BY <1>1, <2>1
<1>3. q + k \in Int
  BY <1>1
<1> HIDE DEF q, r
<1>4. (d * (q + k) + r) % d = r
  BY <1>1, <1>3, DivModUnique
<1> QED
  BY <1>2, <1>4 DEF r

\* A factor may be reduced first.
LEMMA ModFactor ==
  ASSUME NEW d \in Nat \ {0}, NEW x \in Int, NEW k \in Int
  PROVE  ((x % d) * k) % d = (x * k) % d
<1> DEFINE q == x \div d
           r == x % d
<1>1. q \in Int /\ r \in Int /\ x = d * q + r
  BY DivMod
<1>2. x * k = r * k + d * (q * k)
  <2>1. (d * q + r) * k = r * k + d * (q * k)
    <3> HIDE DEF q, r
    <3> QED
      BY <1>1
  <2> HIDE DEF q, r
  <2> QED
    BY <1>1, <2>1
<1>3. r * k \in Int /\ q * k \in Int
  <2> HIDE DEF q, r
  <2> QED
    BY <1>1
<1> DEFINE u == r * k
           v == q * k
<1>4. (u + d * v) % d = u % d
  <2>1. u \in Int /\ v \in Int
    BY <1>3
  <2> HIDE DEF u, v
  <2> QED
    BY <2>1, ModShift
<1> QED
  BY <1>2, <1>4

\* Division and remainder of words are words, also by zero.
LEMMA DivWords ==
  ASSUME NEW x \in Word, NEW y \in Word
  PROVE  udiv(x, y) \in Word /\ urem(x, y) \in Word
<1>1. CASE y = 0
  BY <1>1, WordFacts DEF udiv, urem
<1>2. CASE y # 0
  <2> DEFINE N == 2^W
  <2>1. N \in Nat /\ x \in 0 .. N - 1 /\ y \in 1 .. N - 1
    BY <1>2, WordFacts
  <2> HIDE DEF N
  <2>2. x \div y \in 0 .. x /\ x % y \in 0 .. y - 1
    BY <2>1, DivMod
  <2>3. x \div y \in 0 .. N - 1 /\ x % y \in 0 .. N - 1
    BY <2>1, <2>2
  <2> QED
    BY <1>2, <2>3 DEF udiv, urem, Word, N
<1> QED
  BY <1>1, <1>2

\* Shifting right gives words.
LEMMA LshrWords ==
  ASSUME NEW x \in Word, NEW k \in Nat
  PROVE  lshr(x, k) \in Word
<1>1. 2^k \in Nat \ {0} /\ x \in Nat
  BY PowerFacts, WordFacts
<1>2. x \div 2^k \in 0 .. x
  <2> DEFINE d == 2^k
  <2>1. d \in Nat \ {0}
    BY <1>1
  <2> HIDE DEF d
  <2>2. \A u \in Int : u >= 0 => u \div d \in 0 .. u
    BY <2>1, DivMod
  <2>3. x \in Int /\ x >= 0
    BY <1>1
  <2> QED
    BY <2>2, <2>3 DEF d
<1> QED
  BY <1>1, <1>2, WordFacts DEF lshr, Word

\* Every operation on words returns a word.
LEMMA WordOperations ==
  ASSUME NEW x \in Word, NEW y \in Word
  PROVE  /\ bv_add(x, y) \in Word /\ bv_sub(x, y) \in Word
         /\ bv_mul(x, y) \in Word /\ bv_neg(x) \in Word
         /\ shl(x, y) \in Word /\ ashr(x, y) \in Word
<1>1. x \in Int /\ y \in Nat /\ 2^W \in Int /\ 2^y \in Int
  BY WordFacts, PowerFacts
<1>2. x + y \in Int /\ x - y \in Int /\ x * y \in Int /\ 2^W - x \in Int
      /\ x * 2^y \in Int
  BY <1>1
<1>3. ashr(x, y) \in Word
  BY <1>1, LshrWords, NotBits DEF ashr
<1> QED
  BY <1>2, <1>3, WordFacts DEF bv_add, bv_sub, bv_mul, bv_neg, shl

-----------------------------------------------------------------------------
(* Bits of quotients, remainders and sums, by the arithmetic alone.        *)

\* Zero has no bits.
LEMMA ZeroBit ==
  ASSUME NEW i \in Nat
  PROVE  Bit(0, i) = 0
<1>1. 2^i \in Nat \ {0}
  BY PowerFacts
<1>2. 0 \in 0 .. 2^i - 1
  BY <1>1
<1>3. 0 \div 2^i = 0
  BY <1>2, LowSelf
<1>4. 0 % 2 = 0
  OBVIOUS
<1>5. Bit(0, i) = (0 \div 2^i) % 2
  BY DEF Bit
<1> QED
  BY <1>3, <1>4, <1>5, Zenon

\* A number of n bits has none above them.
LEMMA BitsAbove ==
  ASSUME NEW n \in Nat, NEW x \in 0 .. 2^n - 1, NEW i \in Nat, n <= i
  PROVE  Bit(x, i) = 0
<1>1. 2^n \in Nat /\ 2^i \in Nat /\ 2^n <= 2^i
  BY PowerFacts, PowerOrder
<1>2. x \in 0 .. 2^i - 1
  BY <1>1
<1>3. x \div 2^i = 0
  BY <1>2, LowSelf
<1>4. 0 % 2 = 0
  OBVIOUS
<1>5. Bit(x, i) = (x \div 2^i) % 2
  BY DEF Bit
<1> QED
  BY <1>3, <1>4, <1>5, Zenon

\* The remainder by 2^n keeps the n low bits and no other.
LEMMA RemainderBits ==
  ASSUME NEW n \in Nat, NEW x \in Int, NEW i \in Nat
  PROVE  /\ x % 2^n \in 0 .. 2^n - 1
         /\ Bit(x % 2^n, i) = IF i < n THEN Bit(x, i) ELSE 0
<1>1. x % 2^n \in 0 .. 2^n - 1
  <2> DEFINE d == 2^n
  <2>1. d \in Nat \ {0}
    BY PowerFacts
  <2> HIDE DEF d
  <2>2. x % d \in 0 .. d - 1
    BY <2>1, DivMod
  <2> QED
    BY <2>2 DEF d
<1>2. CASE i < n
  <2>1. i \in 0 .. n - 1
    BY <1>2
  <2> QED
    BY <1>1, <1>2, <2>1, BitOfLow
<1>3. CASE ~ (i < n)
  <2>1. n <= i
    BY <1>3
  <2>2. \A v \in 0 .. 2^n - 1 : Bit(v, i) = 0
    BY <2>1, BitsAbove
  <2> QED
    BY <1>1, <1>3, <2>2
<1> QED
  BY <1>2, <1>3

\* 2^n - 1 has the n low bits.
LEMMA OnesBits ==
  ASSUME NEW n \in Nat, NEW i \in Nat
  PROVE  /\ 2^n - 1 \in 0 .. 2^n - 1
         /\ Bit(2^n - 1, i) = IF i < n THEN 1 ELSE 0
<1>1. 2^n \in Nat \ {0}
  BY PowerFacts
<1>2. 2^n - 1 \in 0 .. 2^n - 1
  BY <1>1
<1>3. CASE i < n
  <2>1. i \in 0 .. n - 1 /\ 0 \in Int
    BY <1>3
  <2>2. Bit(2^n - 1 - 0, i) = 1 - Bit(0, i)
    BY <2>1, ComplementBits
  <2>3. 2^n - 1 - 0 = 2^n - 1 /\ Bit(0, i) = 0
    BY <1>1, ZeroBit
  <2> QED
    BY <1>2, <1>3, <2>2, <2>3
<1>4. CASE ~ (i < n)
  <2>1. n <= i
    BY <1>4
  <2>2. \A v \in 0 .. 2^n - 1 : Bit(v, i) = 0
    BY <2>1, BitsAbove
  <2> QED
    BY <1>2, <1>4, <2>2
<1> QED
  BY <1>3, <1>4

\* Dividing twice is dividing by the product.
LEMMA DivTwice ==
  ASSUME NEW x \in Int, NEW c \in Nat \ {0}, NEW d \in Nat \ {0}
  PROVE  (x \div c) \div d = x \div (c * d)
<1> DEFINE q == x \div c
           r == x % c
           p == q \div d
           s == q % d
<1>1. q \in Int /\ r \in 0 .. c - 1 /\ x = c * q + r
  BY DivMod
<1>2. p \in Int /\ s \in 0 .. d - 1 /\ q = d * p + s
  <2> HIDE DEF q
  <2> QED
    BY <1>1, DivMod
<1>3. x = c * d * p + (c * s + r)
  <2>1. c * (d * p + s) = c * d * p + c * s
    <3> HIDE DEF p, s
    <3> QED
      BY <1>2
  <2>2. c * d * p \in Int /\ c * s \in Int
    <3> HIDE DEF p, s
    <3> QED
      BY <1>2
  <2> HIDE DEF q, r, p, s
  <2> QED
    BY <1>1, <1>2, <2>1, <2>2
<1>4. c * d \in Nat \ {0} /\ c * s + r \in 0 .. c * d - 1
  <2>1. d - 1 - s \in Nat /\ s \in Nat
    <3> HIDE DEF s
    <3> QED
      BY <1>2
  <2>2. c * (d - 1 - s) >= 0 /\ c * s >= 0 /\ c * s \in Int /\ c * d \in Nat \ {0}
    <3> HIDE DEF s
    <3> QED
      BY <2>1
  <2>3. c * (d - 1 - s) = c * d - c - c * s
    <3> HIDE DEF s
    <3> QED
      BY <2>1
  <2> HIDE DEF s, r
  <2> QED
    BY <1>1, <2>2, <2>3
<1>5. (c * d * p + (c * s + r)) \div (c * d) = p
  <2> HIDE DEF p, s, r
  <2> QED
    BY <1>2, <1>4, DivModUnique
<1> QED
  BY <1>3, <1>5

\* Division by 2^k moves the bits down.
LEMMA ShiftedDown ==
  ASSUME NEW x \in Int, NEW k \in Nat, NEW i \in Nat
  PROVE  Bit(x \div 2^k, i) = Bit(x, k + i)
<1>1. 2^k \in Nat \ {0} /\ 2^i \in Nat \ {0} /\ 2^(k + i) = 2^k * 2^i
  BY PowerFacts, PowerSum
<1>2. (x \div 2^k) \div 2^i = x \div (2^k * 2^i)
  BY <1>1, DivTwice
<1> QED
  BY <1>1, <1>2 DEF Bit

\* The carry into position n.
CarryInto(n, x, y, z) == ((x % 2^n) + (y % 2^n) + z) \div 2^n

\* It is a bit, and decides the bit of the sum there.
LEMMA SumBit ==
  ASSUME NEW n \in Nat, NEW x \in Int, NEW y \in Int, NEW z \in {0, 1}
  PROVE  /\ CarryInto(n, x, y, z) \in {0, 1}
         /\ Bit(x + y + z, n) = (Bit(x, n) + Bit(y, n) + CarryInto(n, x, y, z)) % 2
<1> DEFINE d == 2^n
           s == (x % d) + (y % d) + z
           c == s \div d
           qx == x \div d
           qy == y \div d
<1>1. d \in Nat \ {0}
  BY PowerFacts
<1>2. /\ qx \in Int /\ x % d \in 0 .. d - 1 /\ x = d * qx + (x % d)
      /\ qy \in Int /\ y % d \in 0 .. d - 1 /\ y = d * qy + (y % d)
  <2> HIDE DEF d
  <2> QED
    BY <1>1, DivMod
<1>3. s \in 0 .. 2 * d - 1
  <2> HIDE DEF d
  <2> QED
    BY <1>1, <1>2
<1>4. c \in Int /\ s % d \in 0 .. d - 1 /\ s = d * c + (s % d) /\ c >= 0
  <2>1. s \in Int /\ s >= 0
    <3> HIDE DEF d, s
    <3> QED
      BY <1>1, <1>3
  <2> HIDE DEF d, s
  <2>2. \A u \in Int : /\ u \div d \in Int /\ u % d \in 0 .. d - 1
                       /\ u = d * (u \div d) + (u % d)
                       /\ u >= 0 => u \div d \in 0 .. u
    BY <1>1, DivMod
  <2> QED
    BY <2>1, <2>2
<1>5. c \in {0, 1}
  <2>1. c >= 2 => d * c >= 2 * d
    <3> HIDE DEF d, c
    <3> QED
      BY <1>1, <1>4
  <2>2. d * c \in Int
    <3> HIDE DEF d, c
    <3> QED
      BY <1>1, <1>4
  <2> HIDE DEF d, c, s
  <2> QED
    BY <1>1, <1>3, <1>4, <2>1, <2>2
<1>6. (x + y + z) % d = s % d
  <2>1. x + y + z = s + d * (qx + qy)
    <3>1. d * (qx + qy) = d * qx + d * qy /\ d * qx \in Int /\ d * qy \in Int
      <4> HIDE DEF d, qx, qy
      <4> QED
        BY <1>1, <1>2
    <3> HIDE DEF d, qx, qy
    <3> QED
      BY <1>1, <1>2, <3>1
  <2>2. s \in Int /\ qx + qy \in Int
    <3> HIDE DEF d, qx, qy, s
    <3> QED
      BY <1>2, <1>3
  <2>3. \A u \in Int, k \in Int : (u + d * k) % d = u % d
    <3> HIDE DEF d
    <3> QED
      BY <1>1, ModShift
  <2> HIDE DEF d, s, qx, qy
  <2> QED
    BY <2>1, <2>2, <2>3
<1>7. Carried(x, y, z, n, c)
  <2> HIDE DEF c
  <2> QED
    BY <1>4, <1>6 DEF Carried
<1>8. z \in Int
  OBVIOUS
<1>9. Bit(x + y + z, n) = (Bit(x, n) + Bit(y, n) + c) % 2
  <2> HIDE DEF c
  <2> QED
    BY <1>5, <1>7, <1>8, CarryStep
<1>10. CarryInto(n, x, y, z) = c
  BY DEF CarryInto
<1> QED
  BY <1>5, <1>9, <1>10

\* Fewer low bits, a smaller remainder.
LEMMA LowMonotone ==
  ASSUME NEW n \in Nat, NEW x \in Int, NEW y \in Int,
         \A i \in 0 .. n - 1 : Bit(x, i) <= Bit(y, i)
  PROVE  x % 2^n <= y % 2^n
<1> DEFINE S == {k \in Nat : k <= n => x % 2^k <= y % 2^k}
<1>1. 0 \in S
  <2>1. x % 1 = 0 /\ y % 1 = 0
    OBVIOUS
  <2> QED
    BY <2>1, PowerZero
<1>2. ASSUME NEW k \in Nat, k \in S PROVE k + 1 \in S
  <2> SUFFICES ASSUME k + 1 <= n PROVE x % 2^(k + 1) <= y % 2^(k + 1)
    OBVIOUS
  <2>1. k \in 0 .. n - 1 /\ x % 2^k <= y % 2^k
    BY <1>2
  <2>2. /\ x % 2^(k + 1) = (x % 2^k) + 2^k * Bit(x, k) /\ Bit(x, k) \in {0, 1}
        /\ y % 2^(k + 1) = (y % 2^k) + 2^k * Bit(y, k) /\ Bit(y, k) \in {0, 1}
    BY BitStep
  <2>3. Bit(x, k) <= Bit(y, k)
    BY <2>1
  <2>4. 2^k \in Nat \ {0} /\ x % 2^k \in Int /\ y % 2^k \in Int
    <3> DEFINE d == 2^k
    <3>1. d \in Nat \ {0}
      BY PowerFacts
    <3> HIDE DEF d
    <3>2. x % d \in Int /\ y % d \in Int
      BY <3>1, DivMod
    <3> QED
      BY <3>1, <3>2 DEF d
  <2> DEFINE d == 2^k
             u == x % d
             v == y % d
  <2>5. d * 0 = 0 /\ d * 1 = d
    BY <2>4
  <2> HIDE DEF d, u, v
  <2>6. d \in Nat \ {0} /\ u \in Int /\ v \in Int /\ u <= v
    BY <2>1, <2>4 DEF d, u, v
  <2>7. x % 2^(k + 1) = u + d * Bit(x, k) /\ y % 2^(k + 1) = v + d * Bit(y, k)
    BY <2>2 DEF d, u, v
  <2>8. d * Bit(x, k) <= d * Bit(y, k) /\ d * Bit(x, k) \in Int /\ d * Bit(y, k) \in Int
    BY <2>2, <2>3, <2>5, <2>6
  <2> QED
    BY <2>6, <2>7, <2>8
<1>3. n \in S
  <2> HIDE DEF S
  <2> QED
    BY <1>1, <1>2, SetInduction
<1> QED
  BY <1>3

\* Words without a common bit add up without a carry.
LEMMA DisjointSum ==
  ASSUME NEW x \in Word, NEW y \in Word,
         \A i \in 0 .. W - 1 : Bit(x, i) = 0 \/ Bit(y, i) = 0
  PROVE  /\ x + y \in Word
         /\ \A i \in 0 .. W - 1 : Bit(x + y, i) = Bit(x, i) + Bit(y, i)
<1> DEFINE S == {n \in Nat : n <= W => (x % 2^n) + (y % 2^n) < 2^n}
<1>0. x \in Int /\ y \in Int /\ W \in Nat
  BY WordFacts, WAssumption
<1>1. 0 \in S
  <2>1. x % 1 = 0 /\ y % 1 = 0
    BY <1>0
  <2> QED
    BY <2>1, PowerZero
<1>2. ASSUME NEW k \in Nat, k \in S PROVE k + 1 \in S
  <2> SUFFICES ASSUME k + 1 <= W PROVE (x % 2^(k + 1)) + (y % 2^(k + 1)) < 2^(k + 1)
    OBVIOUS
  <2>1. k \in 0 .. W - 1 /\ (x % 2^k) + (y % 2^k) < 2^k
    BY <1>0, <1>2
  <2>2. /\ x % 2^(k + 1) = (x % 2^k) + 2^k * Bit(x, k) /\ Bit(x, k) \in {0, 1}
        /\ y % 2^(k + 1) = (y % 2^k) + 2^k * Bit(y, k) /\ Bit(y, k) \in {0, 1}
    BY <1>0, BitStep
  <2>3. Bit(x, k) = 0 \/ Bit(y, k) = 0
    BY <2>1
  <2> DEFINE d == 2^k
             u == x % d
             v == y % d
  <2>4. d \in Nat \ {0} /\ 2^(k + 1) = 2 * d
    BY PowerFacts
  <2>5. u \in Int /\ v \in Int
    <3> HIDE DEF d
    <3> QED
      BY <1>0, <2>4, DivMod
  <2> HIDE DEF d, u, v
  <2>6. u + v < d
    BY <2>1 DEF d, u, v
  <2>7. x % 2^(k + 1) = u + d * Bit(x, k) /\ y % 2^(k + 1) = v + d * Bit(y, k)
    BY <2>2 DEF d, u, v
  <2>8. d * 0 = 0 /\ d * 1 = d
    BY <2>4
  <2>9. d * Bit(x, k) + d * Bit(y, k) <= d /\ d * Bit(x, k) \in Int /\ d * Bit(y, k) \in Int
    BY <2>2, <2>3, <2>4, <2>8
  <2> QED
    BY <2>4, <2>5, <2>6, <2>7, <2>9
<1>3. \A n \in Nat : n <= W => (x % 2^n) + (y % 2^n) < 2^n
  <2>1. \A n \in Nat : n \in S
    <3> HIDE DEF S
    <3> QED
      BY <1>1, <1>2, SetInduction
  <2> QED
    BY <2>1
<1>4. x + y \in Word
  <2>1. x % 2^W = x /\ y % 2^W = y
    BY WordFacts
  <2>2. W \in Nat /\ W <= W
    BY <1>0
  <2>3. (x % 2^W) + (y % 2^W) < 2^W
    BY <1>3, <2>2
  <2>4. x + y < 2^W
    BY <2>1, <2>3
  <2>5. x \in 0 .. 2^W - 1 /\ y \in 0 .. 2^W - 1 /\ 2^W \in Nat
    BY WordFacts
  <2>6. x + y \in 0 .. 2^W - 1
    BY <2>4, <2>5
  <2> QED
    BY <2>6, WordFacts
<1>5. ASSUME NEW i \in 0 .. W - 1 PROVE Bit(x + y, i) = Bit(x, i) + Bit(y, i)
  <2> DEFINE d == 2^i
             s == (x % d) + (y % d)
  <2>1. i \in Nat /\ s < d
    BY <1>0, <1>3
  <2>2. d \in Nat \ {0} /\ x % d \in Nat /\ y % d \in Nat
    <3>1. d \in Nat \ {0}
      BY <2>1, PowerFacts
    <3> HIDE DEF d
    <3>2. x % d \in 0 .. d - 1 /\ y % d \in 0 .. d - 1
      BY <1>0, <3>1, DivMod
    <3> QED
      BY <3>1, <3>2
  <2>3. s + 0 = s /\ x + y + 0 = x + y /\ s \in 0 .. d - 1
    <3> HIDE DEF d
    <3> QED
      BY <1>0, <2>1, <2>2
  <2>4. s \div d = 0
    <3> HIDE DEF s
    <3> QED
      BY <2>1, <2>3, LowSelf
  <2>5. Bit(x + y + 0, i) = (Bit(x, i) + Bit(y, i) + ((s + 0) \div d)) % 2
    <3>1. 0 \in {0, 1}
      OBVIOUS
    <3>2. Bit(x + y + 0, i) = (Bit(x, i) + Bit(y, i) + CarryInto(i, x, y, 0)) % 2
      BY <1>0, <2>1, <3>1, SumBit
    <3> QED
      BY <3>2 DEF CarryInto
  <2>6. Bit(x, i) \in {0, 1} /\ Bit(y, i) \in {0, 1} /\ (Bit(x, i) = 0 \/ Bit(y, i) = 0)
    BY <1>0, <2>1, BitType
  <2>7. Bit(x + y, i) = (Bit(x, i) + Bit(y, i) + 0) % 2
    <3> HIDE DEF s, d
    <3> QED
      BY <2>3, <2>4, <2>5
  <2> QED
    BY <2>6, <2>7
<1> QED
  BY <1>4, <1>5

SumBitAt(n, x, y, z) ==
  /\ CarryInto(n, x, y, z) \in {0, 1}
  /\ Bit(x + y + z, n) = (Bit(x, n) + Bit(y, n) + CarryInto(n, x, y, z)) % 2

\* SumBit for all summands at once.
LEMMA SumBits ==
  \A n \in Nat, z \in {0, 1} : \A x \in Int, y \in Int : SumBitAt(n, x, y, z)
  BY SumBit DEF SumBitAt

(***************************************************************************)
(* The carries of a sum, one from the other: into position 0 goes z, into  *)
(* the next position the carry of the digits of this one.                  *)
(***************************************************************************)
LEMMA CarryChain ==
  ASSUME NEW x \in Int, NEW y \in Int, NEW z \in {0, 1}
  PROVE  /\ CarryInto(0, x, y, z) = z
         /\ \A n \in Nat :
              /\ CarryInto(n, x, y, z) \in {0, 1}
              /\ CarryInto(n + 1, x, y, z)
                   = (Bit(x, n) + Bit(y, n) + CarryInto(n, x, y, z)) \div 2
<1> DEFINE c(n) == CarryInto(n, x, y, z)
           S == {n \in Nat : Carried(x, y, z, n, c(n))}
<1>1. \A n \in Nat : c(n) \in {0, 1}
  BY SumBits, Zenon DEF SumBitAt
<1>2. ASSUME NEW n \in Nat, NEW k \in {0, 1}, Carried(x, y, z, n, k) PROVE c(n) = k
  <2> DEFINE d == 2^n
             s == (x % d) + (y % d) + z
             r == (x + y + z) % d
  <2>1. d \in Nat \ {0}
    BY PowerFacts
  <2>2. \A u \in Int : u % d \in 0 .. d - 1
    <3> HIDE DEF d
    <3> QED
      BY <2>1, DivMod
  <2>3. s = r + d * k
    BY <1>2 DEF Carried
  <2>4. x + y + z \in Int
    OBVIOUS
  <2>5. s \in Int /\ r \in 0 .. d - 1
    <3> HIDE DEF d
    <3> QED
      BY <2>1, <2>2, <2>4
  <2>6. c(n) = s \div d
    BY DEF CarryInto
  <2> HIDE DEF s, r, d, c
  <2>7. s = d * k + r
    BY <2>1, <2>3, <2>5
  <2>8. s \div d = k
    BY <2>1, <2>5, <2>7, DivModUnique
  <2> QED
    BY <2>6, <2>8
<1>3. c(0) = z /\ 0 \in S
  <2>1. 2^0 = 1 /\ x % 1 = 0 /\ y % 1 = 0 /\ (x + y + z) % 1 = 0
    BY PowerZero
  <2>2. Carried(x, y, z, 0, z)
    BY <2>1 DEF Carried
  <2>3. c(0) = z
    BY <1>2, <2>2
  <2> HIDE DEF c
  <2> QED
    BY <2>2, <2>3
<1>4. ASSUME NEW n \in Nat, n \in S
      PROVE  c(n + 1) = (Bit(x, n) + Bit(y, n) + c(n)) \div 2 /\ n + 1 \in S
  <2> DEFINE t == Bit(x, n) + Bit(y, n) + c(n)
  <2>1. c(n) \in {0, 1} /\ Carried(x, y, z, n, c(n))
    BY <1>1, <1>4
  <2> HIDE DEF c
  <2>2. t \div 2 \in {0, 1} /\ Carried(x, y, z, n + 1, t \div 2)
    BY <2>1, CarryStep
  <2>3. c(n + 1) = t \div 2
    BY <1>2, <2>2
  <2> QED
    BY <2>2, <2>3
<1> HIDE DEF c
<1>5. \A n \in Nat : n \in S
  <2> HIDE DEF S
  <2> QED
    BY <1>3, <1>4, SetInduction
<1> QED
  BY <1>1, <1>3, <1>4, <1>5 DEF c

(***************************************************************************)
(* Sums between two sums: if at a position the summands have equal bits    *)
(* and the least and the greatest sum agree, so does every sum between.    *)
(***************************************************************************)
SumsAgree(n, z, x1, y1, x2, y2, x3, y3) ==
  /\ n \in Nat /\ z \in {0, 1}
  /\ x1 \in Int /\ x2 \in Int /\ x3 \in Int /\ y1 \in Int /\ y2 \in Int /\ y3 \in Int
  /\ \A i \in 0 .. n - 1 : /\ Bit(x1, i) <= Bit(x2, i) /\ Bit(x2, i) <= Bit(x3, i)
                           /\ Bit(y1, i) <= Bit(y2, i) /\ Bit(y2, i) <= Bit(y3, i)
  /\ Bit(x1, n) = Bit(x2, n) /\ Bit(x2, n) = Bit(x3, n)
  /\ Bit(y1, n) = Bit(y2, n) /\ Bit(y2, n) = Bit(y3, n)
  /\ Bit(x1 + y1 + z, n) = Bit(x3 + y3 + z, n)

\* The sum between has the bit the least and the greatest share.
LEMMA SumBetween ==
  ASSUME NEW n, NEW z, NEW x1, NEW x2, NEW x3, NEW y1, NEW y2, NEW y3,
         SumsAgree(n, z, x1, y1, x2, y2, x3, y3)
  PROVE  Bit(x2 + y2 + z, n) = Bit(x1 + y1 + z, n)
<1> /\ n \in Nat /\ z \in {0, 1}
    /\ x1 \in Int /\ x2 \in Int /\ x3 \in Int /\ y1 \in Int /\ y2 \in Int /\ y3 \in Int
  BY DEF SumsAgree
<1>0. /\ \A i \in 0 .. n - 1 :
           /\ Bit(x1, i) <= Bit(x2, i) /\ Bit(x2, i) <= Bit(x3, i)
           /\ Bit(y1, i) <= Bit(y2, i) /\ Bit(y2, i) <= Bit(y3, i)
      /\ Bit(x1, n) = Bit(x2, n) /\ Bit(x2, n) = Bit(x3, n)
      /\ Bit(y1, n) = Bit(y2, n) /\ Bit(y2, n) = Bit(y3, n)
      /\ Bit(x1 + y1 + z, n) = Bit(x3 + y3 + z, n)
  BY DEF SumsAgree
<1> DEFINE d == 2^n
           c1 == ((x1 % d) + (y1 % d) + z) \div d
           c2 == ((x2 % d) + (y2 % d) + z) \div d
           c3 == ((x3 % d) + (y3 % d) + z) \div d
<1>1. d \in Nat \ {0}
  BY PowerFacts
<1>2. /\ x1 % d <= x2 % d /\ x2 % d <= x3 % d
      /\ y1 % d <= y2 % d /\ y2 % d <= y3 % d
  BY <1>0, LowMonotone
<1>3. /\ x1 % d \in Int /\ x2 % d \in Int /\ x3 % d \in Int
      /\ y1 % d \in Int /\ y2 % d \in Int /\ y3 % d \in Int
  <2> HIDE DEF d
  <2> QED
    BY <1>1, DivMod
<1>4. ASSUME NEW u \in Int, NEW v \in Int, u <= v PROVE u \div d <= v \div d
  <2> HIDE DEF d
  <2> DEFINE p == u \div d
             q == v \div d
  <2>1. /\ p \in Int /\ u % d \in 0 .. d - 1 /\ u = d * p + (u % d)
        /\ q \in Int /\ v % d \in 0 .. d - 1 /\ v = d * q + (v % d)
    BY <1>1, DivMod
  <2> HIDE DEF p, q
  <2>2. p > q => d * p >= d * q + d
    <3>1. p > q => p - q - 1 >= 0 /\ p - q - 1 \in Int
      BY <2>1
    <3>2. p > q => d * (p - q - 1) >= 0
      BY <1>1, <3>1
    <3>3. d * (p - q - 1) = d * p - d * q - d /\ d * p \in Int /\ d * q \in Int
      BY <1>1, <2>1
    <3> QED
      BY <1>1, <3>2, <3>3
  <2>3. d * p \in Int /\ d * q \in Int
    BY <1>1, <2>1
  <2>4. p <= q
    BY <1>1, <1>4, <2>1, <2>2, <2>3
  <2> QED
    BY <2>4 DEF p, q
<1>5. c1 <= c2 /\ c2 <= c3
  <2>1. /\ (x1 % d) + (y1 % d) + z \in Int /\ (x2 % d) + (y2 % d) + z \in Int
        /\ (x3 % d) + (y3 % d) + z \in Int
        /\ (x1 % d) + (y1 % d) + z <= (x2 % d) + (y2 % d) + z
        /\ (x2 % d) + (y2 % d) + z <= (x3 % d) + (y3 % d) + z
    <3> HIDE DEF d
    <3> QED
      BY <1>2, <1>3
  <2> HIDE DEF d
  <2> QED
    BY <1>4, <2>1
<1>6. /\ c1 \in {0, 1} /\ Bit(x1 + y1 + z, n) = (Bit(x1, n) + Bit(y1, n) + c1) % 2
      /\ c2 \in {0, 1} /\ Bit(x2 + y2 + z, n) = (Bit(x2, n) + Bit(y2, n) + c2) % 2
      /\ c3 \in {0, 1} /\ Bit(x3 + y3 + z, n) = (Bit(x3, n) + Bit(y3, n) + c3) % 2
  <2>1. /\ c1 = CarryInto(n, x1, y1, z) /\ c2 = CarryInto(n, x2, y2, z)
        /\ c3 = CarryInto(n, x3, y3, z)
    BY DEF CarryInto
  <2> HIDE DEF c1, c2, c3
  <2>2. SumBitAt(n, x1, y1, z) /\ SumBitAt(n, x2, y2, z) /\ SumBitAt(n, x3, y3, z)
    BY SumBits, Zenon
  <2> QED
    BY <2>1, <2>2 DEF SumBitAt
<1>7. Bit(x1, n) \in {0, 1} /\ Bit(y1, n) \in {0, 1}
  BY BitType
<1> HIDE DEF c1, c2, c3
<1>8. c1 = c3
  BY <1>0, <1>6, <1>7
<1>9. c1 = c2
  BY <1>5, <1>6, <1>8
<1> QED
  BY <1>0, <1>6, <1>9

\* The remainder of a sum or a difference is that of the remainders.
LEMMA ModSum ==
  ASSUME NEW d \in Nat \ {0}, NEW x \in Int, NEW y \in Int
  PROVE  /\ ((x % d) + y) % d = (x + y) % d
         /\ ((x % d) - y) % d = (x - y) % d
         /\ (y + (x % d)) % d = (y + x) % d
<1> DEFINE q == x \div d
           r == x % d
<1>1. q \in Int /\ r \in Int /\ x = d * q + r
  BY DivMod
<1>2. \A u \in Int : (u + d * q) % d = u % d
  <2> HIDE DEF q
  <2> QED
    BY <1>1, ModShift
<1>3. d * q \in Int
  <2> HIDE DEF q
  <2> QED
    BY <1>1
<1> HIDE DEF q, r
<1>4. /\ r + y \in Int /\ x + y = (r + y) + d * q
      /\ r - y \in Int /\ x - y = (r - y) + d * q
      /\ y + r = r + y /\ y + x = x + y
  BY <1>1, <1>3
<1> QED
  BY <1>2, <1>4 DEF r
=============================================================================
