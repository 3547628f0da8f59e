----------------------------- MODULE SatFactory -----------------------------
(***************************************************************************)
(* Boolean operations over and-inverter graphs that the graphs do not      *)
(* have: the default instances of lean/src/sat/factory.lean.  As in module *)
(* Aig an operation takes a factory and returns a result and a factory.    *)
(***************************************************************************)
EXTENDS Aig, Sequences

\* Bind of the state monad: an operation, then one on its result and factory.
bind(p, f(_, _)) == f(p[1], p[2])

mk_implies(g, x, y) == mk_or(g, neg(x), y)

mk_nimplies(g, x, y) == mk_and(g, x, neg(y))

mk_iff(g, x, y) ==
  bind(mk_implies(g, x, y), LAMBDA s, g1 :
  bind(mk_implies(g1, y, x), LAMBDA t, g2 : mk_and(g2, s, t)))

mk_xor(g, x, y) == bind(mk_iff(g, x, y), LAMBDA r, g1 : mk_not(g1, r))

\* From the last to the first: of an empty list, true and false.
RECURSIVE mk_all(_, _)
mk_all(g, bs) ==
  IF bs = << >> THEN <<top, g>>
  ELSE bind(mk_all(g, Tail(bs)), LAMBDA r, g1 : mk_and(g1, Head(bs), r))

RECURSIVE mk_any(_, _)
mk_any(g, bs) ==
  IF bs = << >> THEN <<bot, g>>
  ELSE bind(mk_any(g, Tail(bs)), LAMBDA r, g1 : mk_or(g1, Head(bs), r))

\* The sum and the carry.
mk_full_add(g, x, y, c) ==
  bind(mk_xor(g, x, y), LAMBDA xy, g1 :
  bind(mk_xor(g1, xy, c), LAMBDA sum, g2 :
  bind(mk_and(g2, x, y), LAMBDA l, g3 :
  bind(mk_and(g3, c, xy), LAMBDA r, g4 :
  bind(mk_or(g4, l, r), LAMBDA cout, g5 : <<<<sum, cout>>, g5>>)))))

\* x < y, or else not y < x and c.
mk_ult(g, x, y, c) ==
  bind(mk_implies(g, x, y), LAMBDA xy, g1 :
  bind(mk_and(g1, c, xy), LAMBDA t, g2 :
  bind(mk_nimplies(g2, y, x), LAMBDA yx, g3 : mk_or(g3, t, yx))))

mk_ite(g, c, x, y) ==
  bind(mk_and(g, c, x), LAMBDA cx, g1 :
  bind(mk_and(g1, neg(c), y), LAMBDA ncy, g2 : mk_or(g2, cx, ncy)))
=============================================================================
