------------------------------ MODULE BlastWalk ------------------------------
(***************************************************************************)
(* A caller of the bit-blaster who builds circuits from the words a and b, *)
(* from constants and from what was built before.  Every vector is held    *)
(* with the word it stands for in each interpretation, computed by the     *)
(* operations of lean/src/data/bv (module Words): smt.factory.sat.         *)
(***************************************************************************)
EXTENDS Bitblast, Integers, FiniteSets, TLC

CONSTANTS Width,                \* of the words a and b
          MaxOps                \* bound: no more operations than these

ASSUME BoundAssumption == Width \in Nat \ {0} /\ MaxOps \in Nat

\* The bits of a and b are the inputs of the graph.
ASSUME InputAssumption == Input = {"a", "b"} \X (1 .. Width)

Wd(n) == INSTANCE Words WITH W <- n

VARIABLES g,                    \* the factory
          sem,                  \* node.sat of every node
          held                  \* the vectors and their words, oldest first

vars == <<g, sem, held>>

\* The word of an input, and the interpretations in which its bits are set.
InputWord(s) ==
  [w \in S!World |->
     FoldLeft(LAMBDA n, i : n + (IF <<s, i>> \in w THEN 2^(i - 1) ELSE 0),
              0, [i \in 1 .. Width |-> i])]

BitsOf(d, n) ==
  [i \in 1 .. n |-> {w \in S!World : (d[w] \div 2^(i - 1)) % 2 = 1}]

\* node.sat of the new nodes, each after its children.
extend(s, N) ==
  FoldLeft(LAMBDA t, i : t @@ (i :> S!NodeSat(t, N[i])),
           s, [i \in 1 .. Cardinality(DOMAIN N) |-> i])

Init ==
  LET p == mk_var(S!init, BitsOf(InputWord("a"), Width))
      q == mk_var(p[2], BitsOf(InputWord("b"), Width))
  IN  /\ g = q[2]
      /\ sem = extend([i \in {0} |-> S!World], q[2].nodes)
      /\ held = << [v |-> p[1], d |-> InputWord("a")],
                   [v |-> q[1], d |-> InputWord("b")] >>

Return(p, d) ==
  /\ g' = p[2]
  /\ sem' = extend(sem, p[2].nodes)
  /\ held' = Append(held, [v |-> p[1], d |-> d])

\* What the word operation f or the test f gives in every interpretation.
Lift(x, f(_)) == [w \in S!World |-> f(x.d[w])]
Lift2(x, y, f(_, _)) == [w \in S!World |-> f(x.d[w], y.d[w])]
Test2(x, y, f(_, _)) == Lift2(x, y, LAMBDA m, n : IF f(m, n) THEN 1 ELSE 0)

Const(n) ==
  \E c \in [1 .. n -> {0, 1}] :
    Return(mk_const(g, c),
           [w \in S!World |-> Wd(n)!FromBits([i \in 0 .. n - 1 |-> c[i + 1]])])

Unary(x) ==
  LET n == Len(x.v)
  IN  \/ Return(mk_not(g, x.v), Lift(x, LAMBDA m : Wd(n)!bv_not(m)))
      \/ Return(mk_neg(g, x.v), Lift(x, LAMBDA m : Wd(n)!bv_neg(m)))
      \/ Return(mk_redor(g, x.v), Lift(x, LAMBDA m : IF m = 0 THEN 0 ELSE 1))
      \/ Return(mk_redand(g, x.v),
                Lift(x, LAMBDA m : IF m = 2^n - 1 THEN 1 ELSE 0))

Extract(x) ==
  \E l \in 0 .. Len(x.v) - 1 : \E u \in l .. Len(x.v) - 1 :
    /\ u - l + 1 < Len(x.v)
    /\ Return(mk_extract(g, u, l, x.v),
              Lift(x, LAMBDA m : (m \div 2^l) % 2^(u - l + 1)))

Concat(x, y) ==
  Return(mk_concat(g, x.v, y.v), Lift2(x, y, LAMBDA m, k : m * 2^Len(y.v) + k))

Bitwise(x, y) ==
  LET n == Len(x.v)
  IN  \/ Return(mk_and(g, x.v, y.v),
                Lift2(x, y, LAMBDA m, k : Wd(n)!bv_and(m, k)))
      \/ Return(mk_or(g, x.v, y.v),
                Lift2(x, y, LAMBDA m, k : Wd(n)!bv_or(m, k)))
      \/ Return(mk_xor(g, x.v, y.v),
                Lift2(x, y, LAMBDA m, k : Wd(n)!bv_xor(m, k)))
      \/ Return(mk_implies(g, x.v, y.v),
                Lift2(x, y, LAMBDA m, k : Wd(n)!bv_or(Wd(n)!bv_not(m), k)))

\* Bound: on words no wider than the inputs.
Arithmetic(x, y) ==
  LET n == Len(x.v)
      quotient == Lift2(x, y, LAMBDA m, k : Wd(n)!udiv(m, k))
  IN  /\ n <= Width
      /\ \/ Return(mk_add(g, x.v, y.v),
                   Lift2(x, y, LAMBDA m, k : Wd(n)!bv_add(m, k)))
         \/ Return(mk_sub(g, x.v, y.v),
                   Lift2(x, y, LAMBDA m, k : Wd(n)!bv_sub(m, k)))
         \/ Return(mk_mul(g, x.v, y.v),
                   Lift2(x, y, LAMBDA m, k : Wd(n)!bv_mul(m, k)))
         \/ Return(mk_urem(g, x.v, y.v),
                   Lift2(x, y, LAMBDA m, k : Wd(n)!urem(m, k)))
         \/ Return(mk_udiv_circuit(g, x.v, y.v), quotient)
         \/ Return(mk_udiv(g, BitsOf(quotient, n)), quotient)

\* The amount may have another width than the word.
Shift(x, y) ==
  LET n == Len(x.v)
  IN  \/ Return(mk_shl(g, x.v, y.v),
                Lift2(x, y, LAMBDA m, k : Wd(n)!shl(m, k)))
      \/ Return(mk_lshr(g, x.v, y.v),
                Lift2(x, y, LAMBDA m, k : Wd(n)!lshr(m, k)))
      \/ Return(mk_ashr(g, x.v, y.v),
                Lift2(x, y, LAMBDA m, k : Wd(n)!ashr(m, k)))

Compare(x, y) ==
  LET n == Len(x.v)
  IN  \/ Return(mk_eq(g, x.v, y.v), Test2(x, y, LAMBDA m, k : m = k))
      \/ Return(mk_ult(g, x.v, y.v), Test2(x, y, LAMBDA m, k : m < k))
      \/ Return(mk_ule(g, x.v, y.v), Test2(x, y, LAMBDA m, k : m <= k))
      \/ Return(mk_slt(g, x.v, y.v), Test2(x, y, LAMBDA m, k : Wd(n)!slt(m, k)))
      \/ Return(mk_sle(g, x.v, y.v), Test2(x, y, LAMBDA m, k : Wd(n)!sle(m, k)))

Ite(c, x, y) ==
  Return(mk_ite(g, Head(c.v), x.v, y.v),
         [w \in S!World |-> IF c.d[w] = 1 THEN x.d[w] ELSE y.d[w]])

(***************************************************************************)
(* The newest vector is an operand of every operation, so that MaxOps      *)
(* operations are a circuit of that depth.                                 *)
(***************************************************************************)
Next ==
  /\ Len(held) < MaxOps + 2
  /\ LET x == held[Len(held)]
     IN  \/ Const(Width)
         \/ Unary(x)
         \/ Extract(x)
         \/ \E i \in DOMAIN held :
              LET y == held[i]
              IN  \/ Concat(x, y)
                  \/ Len(x.v) = Len(y.v) /\ Bitwise(x, y)
                  \/ \E p \in {<<x, y>>, <<y, x>>} :
                       \/ Shift(p[1], p[2])
                       \/ /\ Len(x.v) = Len(y.v)
                          /\ Arithmetic(p[1], p[2]) \/ Compare(p[1], p[2])
                  \/ \E j \in DOMAIN held :
                       /\ Len(x.v) = 1
                       /\ Len(y.v) = Len(held[j].v)
                       /\ Ite(x, y, held[j])

Spec == Init /\ [][Next]_vars

-----------------------------------------------------------------------------
(***************************************************************************)
(* sat_mk_add and its like, for compositions of operations: in every       *)
(* interpretation the bits of a vector are those of the word it stands     *)
(* for, whatever nodes the rewriting of the graph let it share.            *)
(***************************************************************************)
BlastDenotes ==
  \A i \in DOMAIN held :
    LET b == BitsOf(held[i].d, Len(held[i].v))
    IN  \A j \in DOMAIN b : S!EdgeSat(sem, held[i].v[j]) = b[j]
=============================================================================
