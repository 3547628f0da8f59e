----------------------------- MODULE MCBlastWalk -----------------------------
(***************************************************************************)
(* Two words of two bits, and the decision procedure on every test.        *)
(***************************************************************************)
EXTENDS BlastWalk

MCInput == {"a", "b"} \X (1 .. 2)

Dec == INSTANCE Decide

\* A variable that is no bit of a or b: a quotient.
Opaque == \E i \in DOMAIN g.nodes : i > 2 * Width /\ ~S!IsAnd(g.nodes[i])

(***************************************************************************)
(* What symbolic evaluation asks of the solver: a condition on words, as a *)
(* vector of one bit, is refuted only if no words satisfy it; and if none  *)
(* do it is refuted, unless it was made of an opaque quotient, of which    *)
(* the solver knows nothing.                                               *)
(***************************************************************************)
BlastDecides ==
  LET x == held[Len(held)]
      refuted == Dec!Decides(g.nodes, x.v[1])
      impossible == \A w \in S!World : x.d[w] = 0
  IN  Len(x.v) = 1 => /\ refuted => impossible
                      /\ impossible /\ ~Opaque => refuted
=============================================================================
