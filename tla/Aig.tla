--------------------------------- MODULE Aig ---------------------------------
(***************************************************************************)
(* And-inverter graphs: lean/src/aig/basic.lean, rewrite.lean and          *)
(* factory.lean.  An edge is a node's identifier with TRUE for an inverted *)
(* edge; a ref is an edge or a constant.  Identifiers start at 1, the      *)
(* first pos_num, so the constants are edges of a node 0 that is in no     *)
(* graph.  A graph is a function from identifiers to nodes.                *)
(***************************************************************************)
EXTENDS Naturals

CONSTANT Input                  \* names of the variables a caller asks for

World == SUBSET Input           \* an interpretation: the inputs that are true

top == <<0, FALSE>>
bot == <<0, TRUE>>

neg(r) == <<r[1], ~r[2]>>

Id == Nat \ {0}
Edge == Id \X BOOLEAN
Ref == Edge \cup {top, bot}

\* The erased bool of a variable is its value in every interpretation.
var(b) == [op |-> "var", b |-> b]
and(l, r) == [op |-> "and", l |-> l, r |-> r]

IsAnd(n) == n.op = "and"

Node == [op : {"var"}, b : SUBSET World] \cup [op : {"and"}, l : Edge, r : Edge]

Children(n) == {n.l, n.r}

\* The children differ and come before their node, the larger one first.
valid(i, n) == IsAnd(n) => n.l[1] < i /\ n.r[1] < n.l[1]

(***************************************************************************)
(* node.sat and ref.sat: s gives every node the interpretations it holds   *)
(* in, node 0 all of them.                                                 *)
(***************************************************************************)
EdgeSat(s, r) == IF r[2] THEN World \ s[r[1]] ELSE s[r[1]]

NodeSat(s, n) ==
  IF IsAnd(n) THEN EdgeSat(s, n.l) \cap EdgeSat(s, n.r) ELSE n.b

-----------------------------------------------------------------------------
(***************************************************************************)
(* Rewriting of the conjunction of the edges x and y of the graph N.  A    *)
(* rule at level 2 returns a ref, one at level 3 or 4 a pair of edges, and *)
(* a rule that does not apply returns None.                                *)
(***************************************************************************)
None == << >>

When(applies, result) == IF applies THEN result ELSE None

OrElse(first, second) == IF first # None THEN first ELSE second

\* A regular edge, or an inverted one, to a conjunction.
Plain(N, x) == ~x[2] /\ IsAnd(N[x[1]])
Inverted(N, x) == x[2] /\ IsAnd(N[x[1]])

\* (a /\ b) /\ c, where c is a, or b, or the negation of one.
contradiction_and_idempotence_2a(N, x, y) ==
  LET n == N[x[1]]
      On(c) == When(c[1] = y[1], IF c = y THEN x ELSE bot)
  IN  When(Plain(N, x), OrElse(On(n.l), On(n.r)))

\* A child of x is the negation of a child of y.
Opposed(N, x, y) ==
  \E c \in Children(N[x[1]]), d \in Children(N[y[1]]) : c = neg(d)

\* (a /\ b) /\ (c /\ d), a child on the left the negation of one on the right.
contradiction_2s(N, x, y) ==
  When(Plain(N, x) /\ Plain(N, y) /\ Opposed(N, x, y), bot)

fault_subsumption_2a(N, x, y) ==       \* compares the identifiers only
  When(Inverted(N, x) /\ \E c \in Children(N[x[1]]) : c[1] = y[1], y)

\* ~(a /\ b) /\ c, where c is the negation of a or b.
subsumption_2a(N, x, y) ==
  When(Inverted(N, x) /\ neg(y) \in Children(N[x[1]]), y)

\* ~(a /\ b) /\ (c /\ d), a child on the left the negation of one on the right.
subsumption_2s(N, x, y) ==
  When(Inverted(N, x) /\ Plain(N, y) /\ Opposed(N, x, y), y)

\* ~(a /\ b) /\ ~(a /\ ~b), in any order.
resolution(N, x, y) ==
  LET m == N[x[1]]
      n == N[y[1]]
      On(a, b, c, d) == When(a = c /\ b = neg(d), neg(a))
  IN  When(Inverted(N, x) /\ Inverted(N, y),
           OrElse(On(m.l, m.r, n.l, n.r), OrElse(On(m.l, m.r, n.r, n.l),
           OrElse(On(m.r, m.l, n.l, n.r), On(m.r, m.l, n.r, n.l)))))

\* The first rule that applies; the asymmetric ones are tried both ways.
subrules(N, x, y) ==
  OrElse(contradiction_and_idempotence_2a(N, x, y),
  OrElse(contradiction_and_idempotence_2a(N, y, x),
  OrElse(contradiction_2s(N, x, y),
  OrElse(subsumption_2a(N, x, y),
  OrElse(subsumption_2a(N, y, x),
  OrElse(subsumption_2s(N, x, y),
  OrElse(subsumption_2s(N, y, x),
         resolution(N, x, y))))))))

\* ~(a /\ b) /\ b becomes ~a /\ b.
substitution_3a(N, x, y) ==
  LET n == N[x[1]]
  IN  When(Inverted(N, x),
           OrElse(When(n.r = y, <<neg(n.l), y>>), When(n.l = y, <<neg(n.r), y>>)))

\* ~(a /\ b) /\ (b /\ d) becomes ~a /\ (b /\ d).
substitution_3s(N, x, y) ==
  LET m == N[x[1]]
      n == N[y[1]]
  IN  When(Inverted(N, x) /\ Plain(N, y),
           OrElse(When(m.r \in Children(n), <<neg(m.l), y>>),
                  When(m.l \in Children(n), <<neg(m.r), y>>)))

\* (a /\ b) /\ (a /\ d) becomes (a /\ b) /\ d.
idempotence_4s(N, x, y) ==
  LET m == N[x[1]]
      n == N[y[1]]
  IN  When(Plain(N, x) /\ Plain(N, y),
           OrElse(When(n.l \in Children(m), <<x, n.r>>),
                  When(n.r \in Children(m), <<x, n.l>>)))

newrules(N, x, y) ==
  OrElse(idempotence_4s(N, x, y),
  OrElse(substitution_3a(N, x, y),
  OrElse(substitution_3a(N, y, x),
  OrElse(substitution_3s(N, x, y),
         substitution_3s(N, y, x)))))

(***************************************************************************)
(* optimize, whose depth is 1: an existing ref, or the two edges of which  *)
(* a conjunction remains.  The edges of a new rule are not rewritten again.*)
(***************************************************************************)
result(r, e) ==
  IF r # None THEN [sub |-> TRUE, res |-> r] ELSE [sub |-> FALSE, res |-> e]

optimize(N, x, y) ==
  result(subrules(N, x, y), OrElse(newrules(N, x, y), <<x, y>>))

-----------------------------------------------------------------------------
(***************************************************************************)
(* The factory: the next identifier, the graph, and the node cached for    *)
(* every ordered pair of children.  An operation returns a ref and the     *)
(* factory it leaves.                                                      *)
(***************************************************************************)
init == [nextid |-> 1, nodes |-> << >>, cache |-> << >>]

\* kinsert of the map of nodes, update of the cache.
kinsert(N, i, n) ==
  [j \in DOMAIN N \cup {i} |-> IF j \in DOMAIN N THEN N[j] ELSE n]

update(C, k, i) == [j \in DOMAIN C \cup {k} |-> IF j = k THEN i ELSE C[j]]

mk_var(g, b) ==
  <<<<g.nextid, FALSE>>,
    [nextid |-> g.nextid + 1,
     nodes  |-> kinsert(g.nodes, g.nextid, var(b)),
     cache  |-> g.cache]>>

fault_mk_and_raw(g, x, y) ==           \* the counter stays
  <<<<g.nextid, FALSE>>,
    [nextid |-> g.nextid,
     nodes  |-> kinsert(g.nodes, g.nextid, and(x, y)),
     cache  |-> update(g.cache, <<x, y>>, g.nextid)]>>

mk_and_raw(g, x, y) ==
  <<<<g.nextid, FALSE>>,
    [nextid |-> g.nextid + 1,
     nodes  |-> kinsert(g.nodes, g.nextid, and(x, y)),
     cache  |-> update(g.cache, <<x, y>>, g.nextid)]>>

fault_mk_and_nocache(g, x, y) == mk_and_raw(g, x, y)

mk_and_cache(g, x, y) ==
  IF <<x, y>> \in DOMAIN g.cache THEN <<<<g.cache[<<x, y>>], FALSE>>, g>>
  ELSE mk_and_raw(g, x, y)

fault_mk_and_normorder(g, x, y) == mk_and_cache(g, x, y)

\* The larger identifier first.
mk_and_normorder(g, x, y) ==
  IF y[1] <= x[1] THEN mk_and_cache(g, x, y) ELSE mk_and_cache(g, y, x)

mk_and_optimized(g, o) ==
  IF o.sub THEN <<o.res, g>> ELSE mk_and_normorder(g, o.res[1], o.res[2])

mk_and_aux(g, x, y) ==
  IF {x[1], y[1]} \subseteq DOMAIN g.nodes
    THEN mk_and_optimized(g, optimize(g.nodes, x, y))
    ELSE mk_and_normorder(g, x, y)

mk_and(g, x, y) ==
  IF bot \in {x, y} THEN <<bot, g>>
  ELSE IF x = top THEN <<y, g>>
  ELSE IF y = top THEN <<x, g>>
  ELSE IF x[1] = y[1] THEN <<IF x = y THEN x ELSE bot, g>>
  ELSE mk_and_aux(g, x, y)

mk_not(g, x) == <<neg(x), g>>

mk_or(g, x, y) ==
  LET r == mk_and(g, neg(x), neg(y))
  IN  <<neg(r[1]), r[2]>>
=============================================================================
