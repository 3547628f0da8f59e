------------------------------ MODULE AigProofs ------------------------------
(***************************************************************************)
(* Proofs about the factory of and-inverter graphs, for every set of       *)
(* inputs and every bound on the nodes.  An operation may allocate a node, *)
(* find one in the cache, or rewrite the conjunction it is asked for into  *)
(* others; the heart of the argument is one lemma per rewriting rule, and  *)
(* that a rule is only reached when those before it do not apply.  The     *)
(* formula of a ref is satisfied by the assignments that respect every     *)
(* node, and those are the interpretations of the graph.                   *)
(***************************************************************************)
EXTENDS AigCnf, TLAPS

Refs(n) == (0 .. n) \X BOOLEAN
Edges(n) == (1 .. n) \X BOOLEAN

\* s is node.sat of the graph N of n nodes, which are all valid.
Graph(N, s, n) ==
  /\ n \in Nat
  /\ N \in [1 .. n -> Node]
  /\ s \in [0 .. n -> SUBSET World]
  /\ s[0] = World
  /\ \A i \in 1 .. n : valid(i, N[i]) /\ s[i] = NodeSat(s, N[i])

\* The ref r holds in the interpretation w.
In(s, r, w) == w \in EdgeSat(s, r)

\* What a rule of level 2 may return for the edges x and y ...
Sound(s, n, r, x, y) ==
  r = None \/ /\ r \in Refs(n)
              /\ \A w \in World : In(s, r, w) <=> In(s, x, w) /\ In(s, y, w)

\* ... and what one of level 3 or 4 may.
Reduces(s, n, e, x, y) ==
  \/ e = None
  \/ \E a, b \in Edges(n) :
       /\ e = <<a, b>>
       /\ a[1] # b[1]
       /\ \A w \in World :
            In(s, a, w) /\ In(s, b, w) <=> In(s, x, w) /\ In(s, y, w)

-----------------------------------------------------------------------------
(***************************************************************************)
(* Refs and their negations.                                               *)
(***************************************************************************)
LEMMA PairIsSome == ASSUME NEW a, NEW b PROVE <<a, b>> # None
  BY DEF None

LEMMA RefFacts ==
  ASSUME NEW n \in Nat, NEW r \in Refs(n), NEW s \in [0 .. n -> SUBSET World]
  PROVE  /\ r # None
         /\ r = <<r[1], r[2]>>
         /\ r[1] \in 0 .. n
         /\ r[2] \in BOOLEAN
         /\ neg(r) \in Refs(n)
         /\ neg(r)[1] = r[1]
         /\ neg(neg(r)) = r
         /\ EdgeSat(s, r) \in SUBSET World
         /\ \A w \in World : In(s, neg(r), w) <=> ~In(s, r, w)
<1>1. /\ r = <<r[1], r[2]>> /\ r[1] \in 0 .. n /\ r[2] \in BOOLEAN
  BY DEF Refs
<1>2. r # None
  BY <1>1, PairIsSome
<1>3. /\ neg(r) \in Refs(n) /\ neg(r)[1] = r[1] /\ neg(r)[2] = ~r[2]
      /\ neg(neg(r)) = r
  BY <1>1 DEF neg, Refs
<1>4. s[r[1]] \in SUBSET World
  BY <1>1
<1>5. EdgeSat(s, r) \in SUBSET World
  BY <1>4 DEF EdgeSat
<1>6. \A w \in World : In(s, neg(r), w) <=> ~In(s, r, w)
  BY <1>1, <1>3, <1>4 DEF In, EdgeSat
<1> QED
  BY <1>1, <1>2, <1>3, <1>5, <1>6

LEMMA EdgeIsRef == ASSUME NEW n \in Nat PROVE Edges(n) \subseteq Refs(n)
  BY DEF Edges, Refs

\* Two refs of one node are equal or each other's negations.
LEMMA SameNode ==
  ASSUME NEW n \in Nat, NEW r \in Refs(n), NEW q \in Refs(n),
         r[1] = q[1], r # q
  PROVE  r = neg(q)
  BY DEF Refs, neg

LEMMA Constants ==
  ASSUME NEW n \in Nat, NEW s \in [0 .. n -> SUBSET World], s[0] = World
  PROVE  /\ top \in Refs(n)
         /\ bot \in Refs(n)
         /\ \A w \in World : In(s, top, w) /\ ~In(s, bot, w)
<1>1. top[1] = 0 /\ ~top[2] /\ bot[1] = 0 /\ bot[2]
  BY DEF top, bot
<1>2. top \in Refs(n) /\ bot \in Refs(n)
  <2>1. 0 \in 0 .. n
    OBVIOUS
  <2> QED
    BY <2>1 DEF top, bot, Refs
<1>3. EdgeSat(s, top) = World /\ EdgeSat(s, bot) = World \ World
  BY <1>1, s[0] = World DEF EdgeSat
<1> QED
  BY <1>2, <1>3 DEF In

\* What is known of an edge to a conjunction.
LEMMA AndFacts ==
  ASSUME NEW n, NEW N, NEW s, Graph(N, s, n), NEW x \in Edges(n),
         IsAnd(N[x[1]])
  PROVE  LET m == N[x[1]]
         IN  /\ m.l \in Edges(n) /\ m.r \in Edges(n)
             /\ m.l[1] < x[1] /\ m.r[1] < m.l[1]
             /\ Plain(N, x) => \A w \in World :
                                 In(s, x, w) <=> In(s, m.l, w) /\ In(s, m.r, w)
             /\ Inverted(N, x) => \A w \in World :
                                 In(s, x, w) <=> ~(In(s, m.l, w) /\ In(s, m.r, w))
<1> DEFINE i == x[1]
           m == N[i]
<1>1. n \in Nat /\ i \in 1 .. n /\ x[2] \in BOOLEAN
  BY DEF Edges, Graph
<1>2. m \in Node /\ m.op = "and"
  BY <1>1 DEF Graph, IsAnd
<1>3. m.l \in Edge /\ m.r \in Edge
  BY <1>2 DEF Node
<1>4. m.l[1] < i /\ m.r[1] < m.l[1]
  BY <1>1, <1>2 DEF Graph, valid, IsAnd
<1>5. m.l[1] \in 1 .. n /\ m.r[1] \in 1 .. n
  BY <1>1, <1>3, <1>4 DEF Edge, Id
<1>6. m.l \in Edges(n) /\ m.r \in Edges(n)
  BY <1>3, <1>5 DEF Edge, Edges
<1>7. s[i] = EdgeSat(s, m.l) \cap EdgeSat(s, m.r)
  BY <1>1, <1>2 DEF Graph, NodeSat, IsAnd
<1>8. s[i] \in SUBSET World
  BY <1>1 DEF Graph
<1>9. ASSUME NEW w \in World
      PROVE  /\ ~x[2] => (In(s, x, w) <=> In(s, m.l, w) /\ In(s, m.r, w))
             /\ x[2] => (In(s, x, w) <=> ~(In(s, m.l, w) /\ In(s, m.r, w)))
  BY <1>1, <1>7, <1>8 DEF In, EdgeSat
<1> QED
  BY <1>4, <1>6, <1>9 DEF Plain, Inverted

-----------------------------------------------------------------------------
(***************************************************************************)
(* The rules of level 2.                                                   *)
(***************************************************************************)
LEMMA Sound_contradiction_and_idempotence_2a ==
  ASSUME NEW n, NEW N, NEW s, Graph(N, s, n),
         NEW x \in Edges(n), NEW y \in Edges(n)
  PROVE  Sound(s, n, contradiction_and_idempotence_2a(N, x, y), x, y)
<1> DEFINE m == N[x[1]]
           r == contradiction_and_idempotence_2a(N, x, y)
<1>1. CASE ~Plain(N, x)
  <2>1. r = None
    BY <1>1 DEF contradiction_and_idempotence_2a, When
  <2> QED
    BY <2>1 DEF Sound
<1>2. CASE Plain(N, x)
  <2>1. n \in Nat /\ s \in [0 .. n -> SUBSET World] /\ s[0] = World
    BY DEF Graph
  <2>2. x \in Refs(n) /\ y \in Refs(n) /\ bot \in Refs(n)
    BY <2>1, EdgeIsRef, Constants
  <2>3. /\ m.l \in Refs(n) /\ m.r \in Refs(n)
        /\ \A w \in World : In(s, x, w) <=> In(s, m.l, w) /\ In(s, m.r, w)
    BY <1>2, <2>1, AndFacts, EdgeIsRef DEF Plain
  <2>4. \A w \in World : ~In(s, bot, w)
    BY <2>1, Constants
  <2>5. \A c \in {m.l, m.r} : c[1] = y[1] /\ c # y =>
           \A w \in World : In(s, c, w) <=> ~In(s, y, w)
    <3> SUFFICES ASSUME NEW c \in {m.l, m.r}, c[1] = y[1], c # y
                 PROVE  \A w \in World : In(s, c, w) <=> ~In(s, y, w)
      OBVIOUS
    <3>1. c = neg(y)
      BY <2>1, <2>2, <2>3, SameNode
    <3> QED
      BY <3>1, <2>1, <2>2, RefFacts
  <2>6. \/ r = None
        \/ \E c \in {m.l, m.r} : c[1] = y[1] /\ r = (IF c = y THEN x ELSE bot)
    BY <1>2 DEF contradiction_and_idempotence_2a, When, OrElse
  <2> QED
    BY <2>2, <2>3, <2>4, <2>5, <2>6 DEF Sound
<1> QED
  BY <1>1, <1>2

\* In worlds where both edges hold, no child of x negates one of y.
LEMMA OpposedFacts ==
  ASSUME NEW n, NEW N, NEW s, Graph(N, s, n),
         NEW x \in Edges(n), NEW y \in Edges(n),
         IsAnd(N[x[1]]), IsAnd(N[y[1]]), Opposed(N, x, y), NEW w \in World
  PROVE  ~(/\ In(s, N[x[1]].l, w) /\ In(s, N[x[1]].r, w)
           /\ In(s, N[y[1]].l, w) /\ In(s, N[y[1]].r, w))
<1>1. PICK c \in Children(N[x[1]]), d \in Children(N[y[1]]) : c = neg(d)
  BY DEF Opposed
<1>2. n \in Nat /\ s \in [0 .. n -> SUBSET World]
  BY DEF Graph
<1>3. d \in Refs(n)
  BY <1>1, <1>2, AndFacts, EdgeIsRef DEF Children
<1>4. In(s, c, w) <=> ~In(s, d, w)
  BY <1>1, <1>2, <1>3, RefFacts
<1> QED
  BY <1>1, <1>4 DEF Children

LEMMA Sound_contradiction_2s ==
  ASSUME NEW n, NEW N, NEW s, Graph(N, s, n),
         NEW x \in Edges(n), NEW y \in Edges(n)
  PROVE  Sound(s, n, contradiction_2s(N, x, y), x, y)
<1>1. CASE Plain(N, x) /\ Plain(N, y) /\ Opposed(N, x, y)
  <2>1. bot \in Refs(n) /\ \A w \in World : ~In(s, bot, w)
    BY Constants DEF Graph
  <2>2. IsAnd(N[x[1]]) /\ IsAnd(N[y[1]])
    BY <1>1 DEF Plain
  <2>3. \A w \in World : ~(In(s, x, w) /\ In(s, y, w))
    BY <1>1, <2>2, AndFacts, OpposedFacts
  <2> QED
    BY <1>1, <2>1, <2>3 DEF Sound, contradiction_2s, When
<1> QED
  BY <1>1 DEF Sound, contradiction_2s, When

LEMMA Sound_subsumption_2a ==
  ASSUME NEW n, NEW N, NEW s, Graph(N, s, n),
         NEW x \in Edges(n), NEW y \in Edges(n)
  PROVE  Sound(s, n, subsumption_2a(N, x, y), x, y)
<1>1. CASE Inverted(N, x) /\ neg(y) \in Children(N[x[1]])
  <2>1. n \in Nat /\ s \in [0 .. n -> SUBSET World] /\ y \in Refs(n)
    BY EdgeIsRef DEF Graph
  <2>2. IsAnd(N[x[1]])
    BY <1>1 DEF Inverted
  <2>3. \A w \in World : In(s, neg(y), w) <=> ~In(s, y, w)
    BY <2>1, RefFacts
  <2>4. \A w \in World : In(s, y, w) => In(s, x, w)
    BY <1>1, <2>2, <2>3, AndFacts DEF Children
  <2> QED
    BY <1>1, <2>1, <2>4 DEF Sound, subsumption_2a, When
<1> QED
  BY <1>1 DEF Sound, subsumption_2a, When

LEMMA Sound_subsumption_2s ==
  ASSUME NEW n, NEW N, NEW s, Graph(N, s, n),
         NEW x \in Edges(n), NEW y \in Edges(n)
  PROVE  Sound(s, n, subsumption_2s(N, x, y), x, y)
<1>1. CASE Inverted(N, x) /\ Plain(N, y) /\ Opposed(N, x, y)
  <2>1. y \in Refs(n)
    BY EdgeIsRef DEF Graph
  <2>2. IsAnd(N[x[1]]) /\ IsAnd(N[y[1]])
    BY <1>1 DEF Plain, Inverted
  <2>3. \A w \in World : In(s, y, w) => In(s, x, w)
    BY <1>1, <2>2, AndFacts, OpposedFacts
  <2> QED
    BY <1>1, <2>1, <2>3 DEF Sound, subsumption_2s, When
<1> QED
  BY <1>1 DEF Sound, subsumption_2s, When

LEMMA Sound_resolution ==
  ASSUME NEW n, NEW N, NEW s, Graph(N, s, n),
         NEW x \in Edges(n), NEW y \in Edges(n)
  PROVE  Sound(s, n, resolution(N, x, y), x, y)
<1> DEFINE m == N[x[1]]
           k == N[y[1]]
           r == resolution(N, x, y)
<1>1. CASE ~(Inverted(N, x) /\ Inverted(N, y))
  <2>1. r = None
    BY <1>1 DEF resolution, When
  <2> QED
    BY <2>1 DEF Sound
<1>2. CASE Inverted(N, x) /\ Inverted(N, y)
  <2>1. n \in Nat /\ s \in [0 .. n -> SUBSET World]
    BY DEF Graph
  <2>2. \A c \in {m.l, m.r, k.l, k.r} :
           /\ c \in Refs(n) /\ neg(c) \in Refs(n)
           /\ \A w \in World : In(s, neg(c), w) <=> ~In(s, c, w)
    BY <1>2, <2>1, AndFacts, EdgeIsRef, RefFacts DEF Inverted
  <2>3. \A w \in World :
           /\ In(s, x, w) <=> ~(In(s, m.l, w) /\ In(s, m.r, w))
           /\ In(s, y, w) <=> ~(In(s, k.l, w) /\ In(s, k.r, w))
    BY <1>2, AndFacts DEF Inverted
  <2>4. \/ r = None
        \/ m.l = k.l /\ m.r = neg(k.r) /\ r = neg(m.l)
        \/ m.l = k.r /\ m.r = neg(k.l) /\ r = neg(m.l)
        \/ m.r = k.l /\ m.l = neg(k.r) /\ r = neg(m.r)
        \/ m.r = k.r /\ m.l = neg(k.l) /\ r = neg(m.r)
    BY <1>2 DEF resolution, When, OrElse
  <2> HIDE DEF m, k, r
  <2>5. Sound(s, n, r, x, y)
    BY <2>2, <2>3, <2>4 DEF Sound
  <2> QED
    BY <2>5 DEF r
<1> QED
  BY <1>1, <1>2

LEMMA SoundSymmetric ==
  ASSUME NEW n, NEW s, NEW r, NEW x, NEW y, Sound(s, n, r, y, x)
  PROVE  Sound(s, n, r, x, y)
  BY DEF Sound

LEMMA Sound_subrules ==
  ASSUME NEW n, NEW N, NEW s, Graph(N, s, n),
         NEW x \in Edges(n), NEW y \in Edges(n)
  PROVE  Sound(s, n, subrules(N, x, y), x, y)
<1>1. /\ Sound(s, n, contradiction_and_idempotence_2a(N, x, y), x, y)
      /\ Sound(s, n, contradiction_and_idempotence_2a(N, y, x), x, y)
  BY Sound_contradiction_and_idempotence_2a, SoundSymmetric
<1>2. Sound(s, n, contradiction_2s(N, x, y), x, y)
  BY Sound_contradiction_2s
<1>3. /\ Sound(s, n, subsumption_2a(N, x, y), x, y)
      /\ Sound(s, n, subsumption_2a(N, y, x), x, y)
  BY Sound_subsumption_2a, SoundSymmetric
<1>4. /\ Sound(s, n, subsumption_2s(N, x, y), x, y)
      /\ Sound(s, n, subsumption_2s(N, y, x), x, y)
  BY Sound_subsumption_2s, SoundSymmetric
<1>5. Sound(s, n, resolution(N, x, y), x, y)
  BY Sound_resolution
<1> QED
  BY <1>1, <1>2, <1>3, <1>4, <1>5 DEF subrules, OrElse

-----------------------------------------------------------------------------
(***************************************************************************)
(* The rules of levels 3 and 4.  Their edges keep away from each other     *)
(* because of the rules tried before them.                                 *)
(***************************************************************************)
LEMMA NegEdge ==
  ASSUME NEW n, NEW r \in Edges(n)
  PROVE  neg(r) \in Edges(n) /\ neg(r)[1] = r[1]
  BY DEF Edges, neg

LEMMA ReducesSymmetric ==
  ASSUME NEW n, NEW s, NEW e, NEW x, NEW y, Reduces(s, n, e, y, x)
  PROVE  Reduces(s, n, e, x, y)
  BY DEF Reduces

LEMMA ReducesTo ==
  ASSUME NEW n, NEW s, NEW x, NEW y, NEW a \in Edges(n), NEW b \in Edges(n),
         a[1] # b[1],
         \A w \in World : In(s, a, w) /\ In(s, b, w) <=> In(s, x, w) /\ In(s, y, w)
  PROVE  Reduces(s, n, <<a, b>>, x, y)
  BY DEF Reduces

LEMMA NoneReduces ==
  ASSUME NEW n, NEW s, NEW x, NEW y PROVE Reduces(s, n, None, x, y)
  BY DEF Reduces

LEMMA Reduces_substitution_3a ==
  ASSUME NEW n, NEW N, NEW s, Graph(N, s, n),
         NEW x \in Edges(n), NEW y \in Edges(n)
  PROVE  Reduces(s, n, substitution_3a(N, x, y), x, y)
<1> DEFINE m == N[x[1]]
           e == substitution_3a(N, x, y)
<1>1. CASE ~Inverted(N, x)
  <2>1. e = None
    BY <1>1 DEF substitution_3a, When
  <2> QED
    BY <2>1, NoneReduces
<1>2. CASE Inverted(N, x)
  <2>1. n \in Nat /\ s \in [0 .. n -> SUBSET World]
    BY DEF Graph
  <2>2. /\ m.l \in Edges(n) /\ m.r \in Edges(n)
        /\ m.l[1] < x[1] /\ m.r[1] < m.l[1]
        /\ \A w \in World : In(s, x, w) <=> ~(In(s, m.l, w) /\ In(s, m.r, w))
    BY <1>2, AndFacts DEF Inverted
  <2>3. \A c \in {m.l, m.r} :
           /\ neg(c) \in Edges(n) /\ neg(c)[1] = c[1]
           /\ \A w \in World : In(s, neg(c), w) <=> ~In(s, c, w)
    BY <2>1, <2>2, NegEdge, RefFacts, EdgeIsRef
  <2>4. m.l[1] # m.r[1]
    BY <2>2 DEF Edges
  <2>5. \/ e = None
        \/ m.r = y /\ e = <<neg(m.l), y>>
        \/ m.l = y /\ e = <<neg(m.r), y>>
    BY <1>2 DEF substitution_3a, When, OrElse
  <2>6. CASE m.r = y /\ e = <<neg(m.l), y>>
    BY <2>2, <2>3, <2>4, <2>6, ReducesTo
  <2>7. CASE m.l = y /\ e = <<neg(m.r), y>>
    BY <2>2, <2>3, <2>4, <2>7, ReducesTo
  <2> QED
    BY <2>5, <2>6, <2>7, NoneReduces
<1> QED
  BY <1>1, <1>2

LEMMA Reduces_substitution_3s ==
  ASSUME NEW n, NEW N, NEW s, Graph(N, s, n),
         NEW x \in Edges(n), NEW y \in Edges(n),
         subsumption_2a(N, x, y) = None, substitution_3a(N, x, y) = None
  PROVE  Reduces(s, n, substitution_3s(N, x, y), x, y)
<1> DEFINE m == N[x[1]]
           k == N[y[1]]
           e == substitution_3s(N, x, y)
<1>1. CASE ~(Inverted(N, x) /\ Plain(N, y))
  <2>1. e = None
    BY <1>1 DEF substitution_3s, When
  <2> QED
    BY <2>1, NoneReduces
<1>2. CASE Inverted(N, x) /\ Plain(N, y)
  <2>1. n \in Nat /\ s \in [0 .. n -> SUBSET World]
    BY DEF Graph
  <2>2. /\ m.l \in Edges(n) /\ m.r \in Edges(n)
        /\ m.l[1] < x[1] /\ m.r[1] < m.l[1]
        /\ \A w \in World : In(s, x, w) <=> ~(In(s, m.l, w) /\ In(s, m.r, w))
    BY <1>2, AndFacts DEF Inverted
  <2>3. /\ k.l \in Edges(n) /\ k.r \in Edges(n)
        /\ k.l[1] < y[1] /\ k.r[1] < k.l[1]
        /\ \A w \in World : In(s, y, w) <=> In(s, k.l, w) /\ In(s, k.r, w)
    BY <1>2, AndFacts DEF Plain
  <2>4. \A c \in {m.l, m.r} :
           /\ neg(c) \in Edges(n) /\ neg(c)[1] = c[1]
           /\ \A w \in World : In(s, neg(c), w) <=> ~In(s, c, w)
    BY <2>1, <2>2, NegEdge, RefFacts, EdgeIsRef
  <2>5. m.l[1] # y[1]
    <3> SUFFICES ASSUME m.l[1] = y[1] PROVE FALSE
      OBVIOUS
    <3>1. m.l = y \/ m.l = neg(y)
      BY <2>1, <2>2, EdgeIsRef, SameNode
    <3>2. CASE m.l = neg(y)
      BY <1>2, <3>2, <2>1, EdgeIsRef, RefFacts DEF subsumption_2a, When, Children
    <3>3. CASE m.l = y
      BY <1>2, <3>3, PairIsSome DEF substitution_3a, When, OrElse
    <3> QED
      BY <3>1, <3>2, <3>3
  <2>6. \/ e = None
        \/ m.r \in {k.l, k.r} /\ e = <<neg(m.l), y>>
        \/ m.l \in {k.l, k.r} /\ e = <<neg(m.r), y>>
    BY <1>2 DEF substitution_3s, When, OrElse, Children
  <2>7. CASE m.r \in {k.l, k.r} /\ e = <<neg(m.l), y>>
    BY <2>2, <2>3, <2>4, <2>5, <2>7, ReducesTo
  <2>8. CASE m.l \in {k.l, k.r} /\ e = <<neg(m.r), y>>
    <3>1. m.r[1] # y[1]
      BY <2>2, <2>3, <2>8 DEF Edges
    <3> QED
      BY <2>2, <2>3, <2>4, <2>8, <3>1, ReducesTo
  <2> QED
    BY <2>6, <2>7, <2>8, NoneReduces
<1> QED
  BY <1>1, <1>2

LEMMA Reduces_idempotence_4s ==
  ASSUME NEW n, NEW N, NEW s, Graph(N, s, n),
         NEW x \in Edges(n), NEW y \in Edges(n),
         contradiction_and_idempotence_2a(N, y, x) = None
  PROVE  Reduces(s, n, idempotence_4s(N, x, y), x, y)
<1> DEFINE m == N[x[1]]
           k == N[y[1]]
           e == idempotence_4s(N, x, y)
<1>1. CASE ~(Plain(N, x) /\ Plain(N, y))
  <2>1. e = None
    BY <1>1 DEF idempotence_4s, When
  <2> QED
    BY <2>1, NoneReduces
<1>2. CASE Plain(N, x) /\ Plain(N, y)
  <2>1. n \in Nat /\ x # None /\ bot # None
    BY EdgeIsRef, RefFacts, PairIsSome DEF Graph, bot
  <2>2. \A w \in World : In(s, x, w) <=> In(s, m.l, w) /\ In(s, m.r, w)
    BY <1>2, AndFacts DEF Plain
  <2>3. /\ k.l \in Edges(n) /\ k.r \in Edges(n)
        /\ \A w \in World : In(s, y, w) <=> In(s, k.l, w) /\ In(s, k.r, w)
    BY <1>2, AndFacts DEF Plain
  <2>4. k.l[1] # x[1] /\ k.r[1] # x[1]
    <3>1. bot # None /\ y # None
      BY EdgeIsRef, RefFacts, PairIsSome DEF Graph, bot
    <3> QED
      BY <1>2, <3>1 DEF contradiction_and_idempotence_2a, When, OrElse
  <2>5. \/ e = None
        \/ k.l \in {m.l, m.r} /\ e = <<x, k.r>>
        \/ k.r \in {m.l, m.r} /\ e = <<x, k.l>>
    BY <1>2 DEF idempotence_4s, When, OrElse, Children
  <2>6. CASE k.l \in {m.l, m.r} /\ e = <<x, k.r>>
    BY <2>2, <2>3, <2>4, <2>6, ReducesTo
  <2>7. CASE k.r \in {m.l, m.r} /\ e = <<x, k.l>>
    BY <2>2, <2>3, <2>4, <2>7, ReducesTo
  <2> QED
    BY <2>5, <2>6, <2>7, NoneReduces
<1> QED
  BY <1>1, <1>2

LEMMA Reduces_newrules ==
  ASSUME NEW n, NEW N, NEW s, Graph(N, s, n),
         NEW x \in Edges(n), NEW y \in Edges(n), subrules(N, x, y) = None
  PROVE  Reduces(s, n, newrules(N, x, y), x, y)
<1>1. /\ contradiction_and_idempotence_2a(N, y, x) = None
      /\ subsumption_2a(N, x, y) = None
      /\ subsumption_2a(N, y, x) = None
  BY DEF subrules, OrElse
<1>2. Reduces(s, n, idempotence_4s(N, x, y), x, y)
  BY <1>1, Reduces_idempotence_4s
<1>3. /\ Reduces(s, n, substitution_3a(N, x, y), x, y)
      /\ Reduces(s, n, substitution_3a(N, y, x), x, y)
  BY Reduces_substitution_3a, ReducesSymmetric
<1>4. substitution_3a(N, x, y) = None =>
         Reduces(s, n, substitution_3s(N, x, y), x, y)
  BY <1>1, Reduces_substitution_3s
<1>5. substitution_3a(N, y, x) = None =>
         Reduces(s, n, substitution_3s(N, y, x), x, y)
  BY <1>1, Reduces_substitution_3s, ReducesSymmetric
<1> QED
  BY <1>2, <1>3, <1>4, <1>5 DEF newrules, OrElse

LEMMA OptimizeFacts ==
  ASSUME NEW n, NEW N, NEW s, Graph(N, s, n),
         NEW x \in Edges(n), NEW y \in Edges(n), x[1] # y[1]
  PROVE  LET o == optimize(N, x, y)
         IN  \/ /\ o.sub
                /\ o.res \in Refs(n)
                /\ \A w \in World : In(s, o.res, w) <=> In(s, x, w) /\ In(s, y, w)
             \/ /\ ~o.sub
                /\ \E a, b \in Edges(n) :
                     /\ o.res = <<a, b>>
                     /\ a[1] # b[1]
                     /\ \A w \in World : In(s, a, w) /\ In(s, b, w)
                                           <=> In(s, x, w) /\ In(s, y, w)
<1> DEFINE r == subrules(N, x, y)
           e == newrules(N, x, y)
           o == optimize(N, x, y)
<1>1. CASE r # None
  <2>1. o.sub /\ o.res = r
    BY <1>1 DEF optimize, result
  <2> QED
    BY <1>1, <2>1, Sound_subrules DEF Sound
<1>2. CASE r = None /\ e = None
  <2>1. ~o.sub /\ o.res = <<x, y>>
    BY <1>2 DEF optimize, result, OrElse
  <2> QED
    BY <2>1
<1>3. CASE r = None /\ e # None
  <2>1. ~o.sub /\ o.res = e
    BY <1>3 DEF optimize, result, OrElse
  <2> QED
    BY <1>3, <2>1, Reduces_newrules DEF Reduces
<1> QED
  BY <1>1, <1>2, <1>3

-----------------------------------------------------------------------------
(***************************************************************************)
(* Factories.                                                              *)
(***************************************************************************)
Consistent(f) ==
  /\ f.nextid \in Id
  /\ f.cache \in [DOMAIN f.cache -> 1 .. f.nextid - 1]
  /\ DOMAIN f.cache \subseteq Edge \X Edge
  /\ \A k \in DOMAIN f.cache : f.nodes[f.cache[k]] = and(k[1], k[2])
  /\ \A i \in 1 .. f.nextid - 1 :
       IsAnd(f.nodes[i]) => /\ <<f.nodes[i].l, f.nodes[i].r>> \in DOMAIN f.cache
                            /\ f.cache[<<f.nodes[i].l, f.nodes[i].r>>] = i

Factory(f, s) == Consistent(f) /\ Graph(f.nodes, s, f.nextid - 1)

Agree(s, t, n) == \A i \in 0 .. n : t[i] = s[i]

\* What an operation on the factory f leaves in p: a factory that agrees
\* with f, and a ref that holds where B says.
Yields(f, s, p, B) ==
  LET t == extend(s, p[2].nodes)
  IN  /\ Factory(p[2], t)
      /\ f.nextid <= p[2].nextid
      /\ Agree(s, t, f.nextid - 1)
      /\ p[1] \in Refs(p[2].nextid - 1)
      /\ EdgeSat(t, p[1]) = B

LEMMA AgreeSat ==
  ASSUME NEW n, NEW s, NEW t, Agree(s, t, n), NEW r \in Refs(n)
  PROVE  EdgeSat(t, r) = EdgeSat(s, r)
  BY DEF Agree, Refs, EdgeSat

\* An operation that returns a ref of the factory as it is.
LEMMA SameFactory ==
  ASSUME NEW f, NEW s, Factory(f, s), NEW r \in Refs(f.nextid - 1)
  PROVE  Yields(f, s, <<r, f>>, EdgeSat(s, r))
<1> DEFINE n == f.nextid - 1
           t == extend(s, f.nodes)
<1>1. n \in Nat /\ f.nextid \in Nat
  BY DEF Factory, Graph, Consistent, Id
<1>2. DOMAIN f.nodes = 1 .. n /\ s \in [0 .. n -> SUBSET World]
  BY DEF Factory, Graph
<1>3. {0} \cup DOMAIN f.nodes = 0 .. n
  BY <1>1, <1>2
<1>4. t = s
  BY <1>2, <1>3 DEF extend
<1> QED
  BY <1>1, <1>4 DEF Yields, Agree

\* An operation that allocates a node.
LEMMA NewNode ==
  ASSUME NEW f, NEW s, Factory(f, s),
         NEW nd \in Node, valid(f.nextid, nd)
  PROVE  LET N == kinsert(f.nodes, f.nextid, nd)
             t == extend(s, N)
         IN  /\ N \in [1 .. f.nextid -> Node]
             /\ N[f.nextid] = nd
             /\ \A i \in 1 .. f.nextid - 1 : N[i] = f.nodes[i]
             /\ Graph(N, t, f.nextid)
             /\ Agree(s, t, f.nextid - 1)
             /\ t[f.nextid] = NodeSat(s, nd)
<1> DEFINE n == f.nextid - 1
           m == f.nextid
           N == kinsert(f.nodes, m, nd)
           t == extend(s, N)
<1>1. n \in Nat /\ m \in Nat /\ m = n + 1 /\ m \in 1 .. m /\ 1 .. n \subseteq 1 .. m
  BY DEF Factory, Graph, Consistent, Id
<1>2. DOMAIN f.nodes = 1 .. n /\ s \in [0 .. n -> SUBSET World] /\ s[0] = World
      /\ f.nodes \in [1 .. n -> Node]
  BY DEF Factory, Graph
<1>3. 1 .. n \cup {m} = 1 .. m /\ {0} \cup 1 .. m = 0 .. m /\ m \notin 1 .. n
      /\ m \notin 0 .. n /\ 0 .. n \subseteq 0 .. m
  BY <1>1
<1>4. N = [j \in 1 .. m |-> IF j \in 1 .. n THEN f.nodes[j] ELSE nd]
  BY <1>2, <1>3 DEF kinsert
<1>5. N \in [1 .. m -> Node] /\ N[m] = nd /\ \A i \in 1 .. n : N[i] = f.nodes[i]
  BY <1>1, <1>2, <1>3, <1>4
<1>6. t = [i \in 0 .. m |-> IF i \in 0 .. n THEN s[i] ELSE NodeSat(s, N[i])]
  BY <1>2, <1>3, <1>5 DEF extend
<1>7. Agree(s, t, n) /\ t[m] = NodeSat(s, nd)
  BY <1>1, <1>3, <1>5, <1>6 DEF Agree
<1>8. \A i \in 1 .. m : NodeSat(t, N[i]) = NodeSat(s, N[i]) /\ valid(i, N[i])
  <2> SUFFICES ASSUME NEW i \in 1 .. m
               PROVE  NodeSat(t, N[i]) = NodeSat(s, N[i]) /\ valid(i, N[i])
    OBVIOUS
  <2>1. valid(i, N[i])
    <3>1. CASE i = m
      BY <3>1, <1>5
    <3>2. CASE i \in 1 .. n
      BY <3>2, <1>5 DEF Factory, Graph
    <3> QED
      BY <3>1, <3>2, <1>3
  <2>2. CASE ~IsAnd(N[i])
    BY <2>1, <2>2 DEF NodeSat
  <2>3. CASE IsAnd(N[i])
    <3>1. N[i].l \in Edge /\ N[i].r \in Edge
      BY <1>5, <2>3 DEF Node, IsAnd
    <3>2. N[i].l[1] < i /\ N[i].r[1] < N[i].l[1]
      BY <2>1, <2>3 DEF valid
    <3>3. N[i].l[1] \in 0 .. n /\ N[i].r[1] \in 0 .. n
      BY <1>1, <3>1, <3>2 DEF Edge, Id
    <3>4. N[i].l \in Refs(n) /\ N[i].r \in Refs(n)
      BY <3>1, <3>3 DEF Refs, Edge
    <3>5. EdgeSat(t, N[i].l) = EdgeSat(s, N[i].l)
          /\ EdgeSat(t, N[i].r) = EdgeSat(s, N[i].r)
      BY <3>4, <1>7, AgreeSat
    <3> QED
      BY <2>1, <2>3, <3>5 DEF NodeSat
  <2> QED
    BY <2>2, <2>3
<1>9. \A i \in 1 .. m : t[i] = NodeSat(s, N[i])
  <2> SUFFICES ASSUME NEW i \in 1 .. m PROVE t[i] = NodeSat(s, N[i])
    OBVIOUS
  <2>1. CASE i = m
    BY <2>1, <1>5, <1>7
  <2>2. CASE i \in 1 .. n
    <3>1. i \in 0 .. n
      BY <2>2, <1>1
    <3>2. t[i] = s[i] /\ s[i] = NodeSat(s, f.nodes[i])
      BY <3>1, <2>2, <1>7 DEF Agree, Factory, Graph
    <3> QED
      BY <3>2, <2>2, <1>5
  <2> QED
    BY <2>1, <2>2, <1>3
<1>10. t \in [0 .. m -> SUBSET World] /\ t[0] = World
  <2>1. t[0] = s[0]
    BY <1>1, <1>7 DEF Agree
  <2>2. DOMAIN t = 0 .. m
    BY <1>6
  <2>3. \A i \in 0 .. n : t[i] \in SUBSET World
    <3> HIDE DEF t, N
    <3> QED
      BY <1>2, <1>7 DEF Agree
  <2>4. NodeSat(s, nd) \in SUBSET World
    <3>1. CASE ~IsAnd(nd)
      BY <3>1 DEF NodeSat, Node, IsAnd
    <3>2. CASE IsAnd(nd)
      <4>1. nd.l \in Edge /\ nd.l[1] < m
        <5>1. nd.l \in Edge
          BY <3>2 DEF Node, IsAnd
        <5> QED
          BY <3>2, <5>1 DEF valid
      <4>2. nd.l \in Refs(n)
        BY <4>1, <1>1 DEF Refs, Edge, Id
      <4>3. EdgeSat(s, nd.l) \in SUBSET World
        BY <4>2, <1>1, <1>2, RefFacts
      <4> QED
        BY <3>2, <4>3 DEF NodeSat
    <3> QED
      BY <3>1, <3>2
  <2>5. \A i \in 0 .. m : t[i] \in SUBSET World
    <3>1. 0 .. m = 0 .. n \cup {m}
      BY <1>1
    <3> HIDE DEF t, N
    <3> QED
      BY <2>3, <2>4, <3>1, <1>7
  <2> QED
    BY <2>1, <2>2, <2>5, <1>2, <1>6
<1> QED
  BY <1>1, <1>5, <1>7, <1>8, <1>9, <1>10 DEF Graph

LEMMA MkVarYields ==
  ASSUME NEW f, NEW s, Factory(f, s), NEW b \in SUBSET World
  PROVE  Yields(f, s, mk_var(f, b), b)
<1> DEFINE n == f.nextid - 1
           N == kinsert(f.nodes, f.nextid, var(b))
           h == mk_var(f, b)[2]
           t == extend(s, N)
<1>1. n \in Nat /\ f.nextid = n + 1 /\ f.nextid \in 1 .. f.nextid
      /\ f.nextid + 1 \in Id /\ 1 .. n \subseteq 1 .. f.nextid
  BY DEF Factory, Graph, Consistent, Id
<1>2. var(b) \in Node /\ ~IsAnd(var(b))
  BY DEF var, Node, IsAnd
<1>3. valid(f.nextid, var(b))
  BY <1>2 DEF valid
<1>4. /\ N[f.nextid] = var(b)
      /\ \A i \in 1 .. n : N[i] = f.nodes[i]
      /\ Graph(N, t, f.nextid)
      /\ Agree(s, t, n)
      /\ t[f.nextid] = NodeSat(s, var(b))
  BY <1>2, <1>3, NewNode
<1>5. /\ h.nextid = f.nextid + 1 /\ h.nodes = N /\ h.cache = f.cache
      /\ mk_var(f, b)[1] = <<f.nextid, FALSE>>
  BY DEF mk_var
<1>6. t[f.nextid] = b
  BY <1>2, <1>4 DEF NodeSat, var
<1>7. h.nextid - 1 = f.nextid
  BY <1>1, <1>5
<1> HIDE DEF N, t, h
<1>8. Consistent(h)
  <2>1. f.cache \in [DOMAIN f.cache -> 1 .. n] /\ DOMAIN f.cache \subseteq Edge \X Edge
    BY DEF Factory, Consistent
  <2>2. \A k \in DOMAIN f.cache : N[f.cache[k]] = and(k[1], k[2])
    BY <1>4, <2>1 DEF Factory, Consistent
  <2>3. \A i \in 1 .. f.nextid : IsAnd(N[i]) => i \in 1 .. n
    BY <1>1, <1>2, <1>4
  <2>4. h.cache \in [DOMAIN h.cache -> 1 .. f.nextid]
    BY <1>1, <1>5, <2>1
  <2> QED
    BY <1>1, <1>4, <1>5, <1>7, <2>1, <2>2, <2>3, <2>4 DEF Consistent, Factory
<1>9. EdgeSat(t, <<f.nextid, FALSE>>) = b
  BY <1>6 DEF EdgeSat
<1>10. <<f.nextid, FALSE>> \in Refs(f.nextid)
  <2>1. f.nextid \in 0 .. f.nextid
    BY <1>1
  <2> QED
    BY <2>1 DEF Refs
<1>11. f.nextid <= h.nextid
  BY <1>1, <1>5
<1> QED
  BY <1>4, <1>5, <1>7, <1>8, <1>9, <1>10, <1>11 DEF Yields, Factory, t, h

\* The children of a new conjunction: edges in use, the larger node first.
Ordered(f, x, y) ==
  x \in Edges(f.nextid - 1) /\ y \in Edges(f.nextid - 1) /\ y[1] < x[1]

LEMMA MkAndRawYields ==
  ASSUME NEW f, NEW s, Factory(f, s), NEW x, NEW y, Ordered(f, x, y),
         <<x, y>> \notin DOMAIN f.cache
  PROVE  Yields(f, s, mk_and_raw(f, x, y), EdgeSat(s, x) \cap EdgeSat(s, y))
<1> DEFINE n == f.nextid - 1
           nd == and(x, y)
           N == kinsert(f.nodes, f.nextid, nd)
           h == mk_and_raw(f, x, y)[2]
           t == extend(s, N)
<1>1. n \in Nat /\ f.nextid = n + 1 /\ f.nextid \in 1 .. f.nextid
      /\ f.nextid + 1 \in Id /\ 1 .. n \subseteq 1 .. f.nextid
  BY DEF Factory, Graph, Consistent, Id
<1>2. x \in Edge /\ y \in Edge /\ x[1] < f.nextid
  BY <1>1 DEF Ordered, Edges, Edge, Id
<1>3. nd \in Node /\ IsAnd(nd) /\ nd.l = x /\ nd.r = y
  BY <1>2 DEF and, Node, IsAnd
<1>4. valid(f.nextid, nd)
  BY <1>2, <1>3 DEF valid, Ordered
<1>5. /\ N[f.nextid] = nd
      /\ \A i \in 1 .. n : N[i] = f.nodes[i]
      /\ Graph(N, t, f.nextid)
      /\ Agree(s, t, n)
      /\ t[f.nextid] = NodeSat(s, nd)
  BY <1>3, <1>4, NewNode
<1>6. /\ h.nextid = f.nextid + 1 /\ h.nodes = N
      /\ h.cache = update(f.cache, <<x, y>>, f.nextid)
      /\ mk_and_raw(f, x, y)[1] = <<f.nextid, FALSE>>
  BY DEF mk_and_raw
<1>7. t[f.nextid] = EdgeSat(s, x) \cap EdgeSat(s, y)
  BY <1>3, <1>5 DEF NodeSat
<1>8. h.nextid - 1 = f.nextid
  BY <1>1, <1>6
<1> HIDE DEF N, t, h
<1>9. Consistent(h)
  <2> DEFINE c == f.cache
             d == h.cache
  <2>1. /\ c \in [DOMAIN c -> 1 .. n] /\ DOMAIN c \subseteq Edge \X Edge
        /\ \A k \in DOMAIN c : f.nodes[c[k]] = and(k[1], k[2])
        /\ \A i \in 1 .. n :
             IsAnd(f.nodes[i]) => /\ <<f.nodes[i].l, f.nodes[i].r>> \in DOMAIN c
                                  /\ c[<<f.nodes[i].l, f.nodes[i].r>>] = i
    BY DEF Factory, Consistent
  <2>2. d = [k \in DOMAIN c \cup {<<x, y>>} |->
               IF k = <<x, y>> THEN f.nextid ELSE c[k]]
    BY <1>6 DEF update
  <2>3. DOMAIN d = DOMAIN c \cup {<<x, y>>}
    BY <2>2
  <2>4. d[<<x, y>>] = f.nextid /\ \A k \in DOMAIN c : d[k] = c[k] /\ k # <<x, y>>
    BY <2>2
  <2> HIDE DEF c, d
  <2>5. d \in [DOMAIN d -> 1 .. f.nextid] /\ DOMAIN d \subseteq Edge \X Edge
    BY <1>1, <1>2, <2>1, <2>2, <2>3, <2>4
  <2>6. \A k \in DOMAIN d : N[d[k]] = and(k[1], k[2])
    <3>1. N[d[<<x, y>>]] = and(x, y)
      BY <1>5, <2>4
    <3>2. \A k \in DOMAIN c : N[d[k]] = and(k[1], k[2])
      BY <1>5, <2>1, <2>4
    <3> QED
      BY <3>1, <3>2, <2>3
  <2>7. \A i \in 1 .. f.nextid :
          IsAnd(N[i]) => <<N[i].l, N[i].r>> \in DOMAIN d /\ d[<<N[i].l, N[i].r>>] = i
    <3> SUFFICES ASSUME NEW i \in 1 .. f.nextid, IsAnd(N[i])
                 PROVE  <<N[i].l, N[i].r>> \in DOMAIN d /\ d[<<N[i].l, N[i].r>>] = i
      OBVIOUS
    <3>1. CASE i = f.nextid
      BY <3>1, <1>3, <1>5, <2>3, <2>4
    <3>2. CASE i \in 1 .. n
      BY <3>2, <1>5, <2>1, <2>3, <2>4
    <3> QED
      BY <3>1, <3>2, <1>1
  <2> QED
    BY <1>1, <1>6, <1>8, <2>5, <2>6, <2>7 DEF Consistent, d
<1>10. EdgeSat(t, <<f.nextid, FALSE>>) = EdgeSat(s, x) \cap EdgeSat(s, y)
  BY <1>7 DEF EdgeSat
<1>11. <<f.nextid, FALSE>> \in Refs(f.nextid)
  <2>1. f.nextid \in 0 .. f.nextid
    BY <1>1
  <2> QED
    BY <2>1 DEF Refs
<1>12. f.nextid <= h.nextid
  BY <1>1, <1>6
<1> QED
  BY <1>5, <1>6, <1>8, <1>9, <1>10, <1>11, <1>12 DEF Yields, Factory, t, h

LEMMA MkAndCacheYields ==
  ASSUME NEW f, NEW s, Factory(f, s), NEW x, NEW y, Ordered(f, x, y)
  PROVE  Yields(f, s, mk_and_cache(f, x, y), EdgeSat(s, x) \cap EdgeSat(s, y))
<1>1. CASE <<x, y>> \notin DOMAIN f.cache
  BY <1>1, MkAndRawYields DEF mk_and_cache
<1>2. CASE <<x, y>> \in DOMAIN f.cache
  <2> DEFINE n == f.nextid - 1
             i == f.cache[<<x, y>>]
             r == <<i, FALSE>>
  <2>1. n \in Nat /\ i \in 1 .. n /\ f.nodes[i] = and(x, y)
    BY <1>2 DEF Factory, Graph, Consistent
  <2>2. i \in 0 .. n
    BY <2>1
  <2>3. r \in Refs(n) /\ r[1] = i /\ ~r[2]
    BY <2>2 DEF Refs
  <2>4. s[i] = EdgeSat(s, x) \cap EdgeSat(s, y)
    <3> HIDE DEF i
    <3>1. s[i] = NodeSat(s, and(x, y))
      BY <2>1 DEF Factory, Graph
    <3>2. IsAnd(and(x, y)) /\ and(x, y).l = x /\ and(x, y).r = y
      BY DEF IsAnd, and
    <3> QED
      BY <3>1, <3>2 DEF NodeSat
  <2>5. EdgeSat(s, r) = EdgeSat(s, x) \cap EdgeSat(s, y)
    BY <2>3, <2>4 DEF EdgeSat
  <2>6. mk_and_cache(f, x, y) = <<r, f>>
    BY <1>2 DEF mk_and_cache
  <2> QED
    BY <2>3, <2>5, <2>6, SameFactory
<1> QED
  BY <1>1, <1>2

LEMMA MkAndNormorderYields ==
  ASSUME NEW f, NEW s, Factory(f, s),
         NEW x \in Edges(f.nextid - 1), NEW y \in Edges(f.nextid - 1), x[1] # y[1]
  PROVE  Yields(f, s, mk_and_normorder(f, x, y), EdgeSat(s, x) \cap EdgeSat(s, y))
<1>1. CASE y[1] <= x[1]
  <2>1. Ordered(f, x, y)
    BY <1>1 DEF Ordered, Edges
  <2> QED
    BY <1>1, <2>1, MkAndCacheYields DEF mk_and_normorder
<1>2. CASE ~(y[1] <= x[1])
  <2>1. Ordered(f, y, x)
    BY <1>2 DEF Ordered, Edges
  <2>2. EdgeSat(s, x) \cap EdgeSat(s, y) = EdgeSat(s, y) \cap EdgeSat(s, x)
    OBVIOUS
  <2> QED
    BY <1>2, <2>1, <2>2, MkAndCacheYields DEF mk_and_normorder
<1> QED
  BY <1>1, <1>2

\* Refs with the same meaning in every interpretation have the same sat.
LEMMA SameMeaning ==
  ASSUME NEW B \in SUBSET World, NEW D \in SUBSET World,
         \A w \in World : w \in B <=> w \in D
  PROVE  B = D
  OBVIOUS

LEMMA MkAndYields ==
  ASSUME NEW f, NEW s, Factory(f, s),
         NEW x \in Refs(f.nextid - 1), NEW y \in Refs(f.nextid - 1)
  PROVE  Yields(f, s, mk_and(f, x, y), EdgeSat(s, x) \cap EdgeSat(s, y))
<1> DEFINE n == f.nextid - 1
           B == EdgeSat(s, x) \cap EdgeSat(s, y)
<1>1. n \in Nat /\ s \in [0 .. n -> SUBSET World] /\ s[0] = World
      /\ Graph(f.nodes, s, n)
  BY DEF Factory, Graph
<1>2. EdgeSat(s, x) \in SUBSET World /\ EdgeSat(s, y) \in SUBSET World
  BY <1>1, RefFacts
<1>3. top \in Refs(n) /\ bot \in Refs(n) /\ EdgeSat(s, bot) = {} /\ EdgeSat(s, top) = World
  <2>1. top[1] = 0 /\ ~top[2] /\ bot[1] = 0 /\ bot[2]
    BY DEF top, bot
  <2> QED
    BY <2>1, <1>1, Constants DEF EdgeSat
<1>4. CASE bot \in {x, y}
  <2>1. mk_and(f, x, y) = <<bot, f>> /\ B = EdgeSat(s, bot)
    BY <1>3, <1>4 DEF mk_and
  <2> QED
    BY <2>1, <1>3, SameFactory
<1>5. CASE bot \notin {x, y} /\ x = top
  <2>1. mk_and(f, x, y) = <<y, f>> /\ B = EdgeSat(s, y)
    BY <1>2, <1>3, <1>5 DEF mk_and
  <2> QED
    BY <2>1, SameFactory
<1>6. CASE bot \notin {x, y} /\ x # top /\ y = top
  <2>1. mk_and(f, x, y) = <<x, f>> /\ B = EdgeSat(s, x)
    BY <1>2, <1>3, <1>6 DEF mk_and
  <2> QED
    BY <2>1, SameFactory
<1>7. CASE bot \notin {x, y} /\ x # top /\ y # top /\ x[1] = y[1]
  <2>1. CASE x = y
    BY <1>7, <2>1, SameFactory DEF mk_and
  <2>2. CASE x # y
    <3>1. x = neg(y)
      BY <1>1, <1>7, <2>2, SameNode
    <3>2. \A w \in World : In(s, x, w) <=> ~In(s, y, w)
      BY <1>1, <3>1, RefFacts
    <3>3. B = EdgeSat(s, bot)
      BY <1>2, <1>3, <3>2 DEF In
    <3>4. mk_and(f, x, y) = <<bot, f>>
      BY <1>7, <2>2 DEF mk_and
    <3> QED
      BY <3>3, <3>4, <1>3, SameFactory
  <2> QED
    BY <2>1, <2>2
<1>8. CASE bot \notin {x, y} /\ x # top /\ y # top /\ x[1] # y[1]
  <2>1. mk_and(f, x, y) = mk_and_aux(f, x, y)
    BY <1>8 DEF mk_and
  <2>2. x \in Edges(n) /\ y \in Edges(n)
    <3>1. \A r \in Refs(n) : r \notin {top, bot} => r \in Edges(n)
      <4> SUFFICES ASSUME NEW r \in Refs(n), r \notin {top, bot}
                   PROVE  r \in Edges(n)
        OBVIOUS
      <4>1. r = <<r[1], r[2]>> /\ r[1] \in 0 .. n /\ r[2] \in BOOLEAN
        BY DEF Refs
      <4>2. r[1] # 0
        BY <4>1 DEF top, bot
      <4>3. r[1] \in 1 .. n
        BY <4>1, <4>2, <1>1
      <4> QED
        BY <4>1, <4>3 DEF Edges
    <3> QED
      BY <3>1, <1>8
  <2>3. {x[1], y[1]} \subseteq DOMAIN f.nodes
    BY <1>1, <2>2 DEF Graph, Edges
  <2> DEFINE o == optimize(f.nodes, x, y)
  <2>4. CASE /\ o.sub
             /\ o.res \in Refs(n)
             /\ \A w \in World : In(s, o.res, w) <=> In(s, x, w) /\ In(s, y, w)
    <3>1. EdgeSat(s, o.res) \in SUBSET World
      <4>1. \A q \in Refs(n) : EdgeSat(s, q) \in SUBSET World
        BY <1>1, RefFacts
      <4> QED
        BY <2>4, <4>1
    <3>2. EdgeSat(s, o.res) = B
      <4> HIDE DEF o
      <4> QED
        BY <3>1, <1>2, <2>4, SameMeaning DEF In
    <3>3. mk_and_aux(f, x, y) = <<o.res, f>>
      BY <2>3, <2>4 DEF mk_and_aux, mk_and_optimized
    <3> HIDE DEF o
    <3> QED
      BY <2>1, <2>4, <3>2, <3>3, SameFactory
  <2>5. ASSUME ~o.sub, NEW a \in Edges(n), NEW b \in Edges(n),
               o.res = <<a, b>>, a[1] # b[1],
               \A w \in World : In(s, a, w) /\ In(s, b, w)
                                  <=> In(s, x, w) /\ In(s, y, w)
        PROVE  Yields(f, s, mk_and(f, x, y), B)
    <3>1. EdgeSat(s, a) \in SUBSET World /\ EdgeSat(s, b) \in SUBSET World
      BY <1>1, RefFacts, EdgeIsRef
    <3>2. EdgeSat(s, a) \cap EdgeSat(s, b) = B
      BY <3>1, <1>2, <2>5, SameMeaning DEF In
    <3>3. mk_and_aux(f, x, y) = mk_and_normorder(f, a, b)
      BY <2>3, <2>5 DEF mk_and_aux, mk_and_optimized
    <3>4. Yields(f, s, mk_and_normorder(f, a, b), EdgeSat(s, a) \cap EdgeSat(s, b))
      BY <2>5, MkAndNormorderYields
    <3> QED
      BY <2>1, <3>2, <3>3, <3>4
  <2>6. \/ /\ o.sub
           /\ o.res \in Refs(n)
           /\ \A w \in World : In(s, o.res, w) <=> In(s, x, w) /\ In(s, y, w)
        \/ /\ ~o.sub
           /\ \E a, b \in Edges(n) :
                /\ o.res = <<a, b>>
                /\ a[1] # b[1]
                /\ \A w \in World : In(s, a, w) /\ In(s, b, w)
                                      <=> In(s, x, w) /\ In(s, y, w)
    BY <1>1, <1>8, <2>2, OptimizeFacts
  <2> QED
    BY <2>4, <2>5, <2>6
<1> QED
  BY <1>4, <1>5, <1>6, <1>7, <1>8

LEMMA MkOrYields ==
  ASSUME NEW f, NEW s, Factory(f, s),
         NEW x \in Refs(f.nextid - 1), NEW y \in Refs(f.nextid - 1)
  PROVE  Yields(f, s, mk_or(f, x, y), EdgeSat(s, x) \cup EdgeSat(s, y))
<1> DEFINE n == f.nextid - 1
           p == mk_and(f, neg(x), neg(y))
           t == extend(s, p[2].nodes)
<1>1. n \in Nat /\ s \in [0 .. n -> SUBSET World]
  BY DEF Factory, Graph
<1>2. neg(x) \in Refs(n) /\ neg(y) \in Refs(n)
  BY <1>1, RefFacts
<1>3. Yields(f, s, p, EdgeSat(s, neg(x)) \cap EdgeSat(s, neg(y)))
  BY <1>2, MkAndYields
<1>4. mk_or(f, x, y)[1] = neg(p[1]) /\ mk_or(f, x, y)[2] = p[2]
  BY DEF mk_or
<1> HIDE DEF p
<1>5. LET m == p[2].nextid - 1
      IN  m \in Nat /\ t \in [0 .. m -> SUBSET World] /\ p[1] \in Refs(m)
  BY <1>3 DEF Yields, Factory, Graph
<1> HIDE DEF t
<1>6. EdgeSat(t, p[1]) = EdgeSat(s, neg(x)) \cap EdgeSat(s, neg(y))
  BY <1>3 DEF Yields, t
<1>7. /\ neg(p[1]) \in Refs(p[2].nextid - 1)
      /\ EdgeSat(t, neg(p[1])) \in SUBSET World
      /\ \A w \in World : In(t, neg(p[1]), w) <=> ~In(t, p[1], w)
  <2>1. ASSUME NEW q \in Refs(p[2].nextid - 1)
        PROVE  /\ neg(q) \in Refs(p[2].nextid - 1)
               /\ EdgeSat(t, neg(q)) \in SUBSET World
               /\ \A w \in World : In(t, neg(q), w) <=> ~In(t, q, w)
    BY <1>5, RefFacts
  <2> QED
    BY <1>5, <2>1
<1>8. /\ EdgeSat(s, x) \in SUBSET World /\ EdgeSat(s, y) \in SUBSET World
      /\ \A w \in World : /\ In(s, neg(x), w) <=> ~In(s, x, w)
                          /\ In(s, neg(y), w) <=> ~In(s, y, w)
  BY <1>1, RefFacts
<1>9. EdgeSat(t, neg(p[1])) = EdgeSat(s, x) \cup EdgeSat(s, y)
  BY <1>6, <1>7, <1>8, SameMeaning DEF In
<1> QED
  BY <1>3, <1>4, <1>7, <1>9 DEF Yields, t

-----------------------------------------------------------------------------
(***************************************************************************)
(* The clauses of a graph, for assignments of its identifiers.             *)
(***************************************************************************)

\* Induction over numbers does not depend on the width of words.
Induction == INSTANCE WordsProofs WITH W <- 1

\* A set that holds 0 and is closed under successor holds every natural.
LEMMA InductionOverNat ==
  ASSUME NEW S, 0 \in S, \A n \in Nat : n \in S => n + 1 \in S
  PROVE  \A n \in Nat : n \in S
  BY Induction!SetInduction

\* c has x among its elements.
Occurs(x, c) == \E i \in 1 .. Len(c) : c[i] = x

\* The elements of two lists, one after the other.
LEMMA OccursBoth ==
  ASSUME NEW D, NEW c \in Seq(D), NEW d \in Seq(D), NEW x
  PROVE  Occurs(x, c \o d) <=> Occurs(x, c) \/ Occurs(x, d)
<1> DEFINE e == c \o d
<1>1. /\ Len(c) \in Nat /\ Len(d) \in Nat /\ Len(e) = Len(c) + Len(d)
      /\ \A i \in 1 .. Len(c) : e[i] = c[i]
      /\ \A i \in 1 .. Len(d) : e[Len(c) + i] = d[i]
  OBVIOUS
<1>2. \A i \in 1 .. Len(e) : i \in 1 .. Len(c) \/ i - Len(c) \in 1 .. Len(d)
  BY <1>1
<1>3. \A i \in 1 .. Len(e) : i = Len(c) + (i - Len(c))
  BY <1>1
<1> HIDE DEF e
<1>4. Occurs(x, c) => Occurs(x, e)
  BY <1>1 DEF Occurs
<1>5. ASSUME NEW i \in 1 .. Len(d), d[i] = x PROVE Occurs(x, e)
  <2>1. Len(c) + i \in 1 .. Len(e)
    BY <1>1
  <2> QED
    BY <1>1, <1>5, <2>1 DEF Occurs
<1>6. ASSUME NEW i \in 1 .. Len(e), e[i] = x PROVE Occurs(x, c) \/ Occurs(x, d)
  <2>1. CASE i \in 1 .. Len(c)
    BY <1>1, <1>6, <2>1 DEF Occurs
  <2>2. CASE i - Len(c) \in 1 .. Len(d)
    BY <1>1, <1>3, <1>6, <2>2 DEF Occurs
  <2> QED
    BY <1>2, <2>1, <2>2
<1> QED
  BY <1>4, <1>5, <1>6 DEF Occurs, e

\* A list of lists made one, as a recursion over its prefixes.
Flattens(f, ss) ==
  f = [i \in 1 .. Len(ss) |-> IF i = 1 THEN ss[i] ELSE f[i - 1] \o ss[i]]

LEMMA FlattenUnfolds ==
  ASSUME NEW D, NEW ss \in Seq(Seq(D)), Len(ss) # 0
  PROVE  \E f : Flattens(f, ss) /\ FlattenSeq(ss) = f[Len(ss)]
<1> DEFINE m == Len(ss)
           Unfolds(e, k) == \A i \in 1 .. k : e[i] = IF i = 1 THEN ss[i]
                                                     ELSE e[i - 1] \o ss[i]
           T == {k \in Nat : \E e : Unfolds(e, k)}
<1>1. m \in Nat \ {0}
  OBVIOUS
<1>2. 0 \in T
  OBVIOUS
<1>3. ASSUME NEW k \in Nat, k \in T PROVE k + 1 \in T
  <2>1. PICK e : Unfolds(e, k)
    BY <1>3
  <2> DEFINE h == [i \in 1 .. k + 1 |-> IF i \in 1 .. k THEN e[i]
                                        ELSE IF i = 1 THEN ss[i]
                                        ELSE e[i - 1] \o ss[i]]
  <2>2. \A i \in 1 .. k : h[i] = e[i]
    OBVIOUS
  <2>3. h[k + 1] = IF k + 1 = 1 THEN ss[k + 1] ELSE e[(k + 1) - 1] \o ss[k + 1]
    OBVIOUS
  <2> HIDE DEF h
  <2>4. ASSUME NEW i \in 1 .. k + 1
        PROVE  h[i] = IF i = 1 THEN ss[i] ELSE h[i - 1] \o ss[i]
    <3>1. i # 1 => i - 1 \in 1 .. k
      OBVIOUS
    <3>2. CASE i = k + 1
      BY <2>2, <2>3, <3>1, <3>2
    <3>3. CASE i \in 1 .. k
      BY <2>1, <2>2, <3>1, <3>3
    <3> QED
      BY <3>2, <3>3
  <2>5. Unfolds(h, k + 1)
    BY <2>4, Zenon
  <2> QED
    BY <2>5, k + 1 \in Nat
<1>4. PICK e : Unfolds(e, m)
  <2> HIDE DEF T
  <2>1. m \in T
    BY <1>1, <1>2, <1>3, InductionOverNat
  <2> QED
    BY <2>1 DEF T
<1> DEFINE h == [i \in 1 .. m |-> e[i]]
<1>5. ASSUME NEW i \in 1 .. m
      PROVE  e[i] = IF i = 1 THEN ss[i] ELSE h[i - 1] \o ss[i]
  <2>1. i # 1 => i - 1 \in 1 .. m
    BY <1>1
  <2> QED
    BY <1>4, <2>1
<1>6. Flattens(h, ss)
  BY <1>5, Zenon DEF Flattens
<1> DEFINE flatten[i \in 1 .. m] == IF i = 1 THEN ss[i] ELSE flatten[i - 1] \o ss[i]
<1>7. flatten = CHOOSE f : Flattens(f, ss)
  BY DEF Flattens
<1>8. Flattens(flatten, ss)
  <2> HIDE DEF h, flatten
  <2> QED
    BY <1>6, <1>7, Zenon
<1>9. FlattenSeq(ss) = flatten[m]
  BY <1>1 DEF FlattenSeq
<1> HIDE DEF flatten
<1> QED
  BY <1>8, <1>9

\* The elements of the list made are those of the lists it is made of.
LEMMA FlattenOccurs ==
  ASSUME NEW D, NEW ss \in Seq(Seq(D)), NEW x
  PROVE  /\ FlattenSeq(ss) \in Seq(D)
         /\ Occurs(x, FlattenSeq(ss)) <=> \E j \in 1 .. Len(ss) : Occurs(x, ss[j])
<1>1. CASE Len(ss) = 0
  <2>1. FlattenSeq(ss) = ss /\ ss = << >>
    BY <1>1 DEF FlattenSeq
  <2> QED
    BY <1>1, <2>1 DEF Occurs
<1>2. CASE Len(ss) # 0
  <2>1. PICK f : Flattens(f, ss) /\ FlattenSeq(ss) = f[Len(ss)]
    BY <1>2, FlattenUnfolds
  <2> DEFINE m == Len(ss)
             E == Seq(D)
             T == {k \in Nat : k + 1 <= m =>
                     /\ f[k + 1] \in E
                     /\ Occurs(x, f[k + 1])
                          <=> \E j \in 1 .. k + 1 : Occurs(x, ss[j])}
  <2>2. m \in Nat \ {0} /\ \A i \in 1 .. m : ss[i] \in E
    BY <1>2
  <2>3. \A i \in 1 .. m : f[i] = IF i = 1 THEN ss[i] ELSE f[i - 1] \o ss[i]
    BY <2>1 DEF Flattens
  <2> HIDE DEF m, E
  <2>4. 0 \in T
    <3>1. 1 \in 1 .. m /\ 0 + 1 = 1 /\ 1 .. 1 = {1}
      BY <2>2
    <3> QED
      BY <2>2, <2>3, <3>1
  <2>5. ASSUME NEW k \in Nat, k \in T PROVE k + 1 \in T
    <3> DEFINE i == k + 1
    <3> SUFFICES ASSUME i + 1 <= m
                 PROVE  /\ f[i + 1] \in E
                        /\ Occurs(x, f[i + 1])
                             <=> \E j \in 1 .. i + 1 : Occurs(x, ss[j])
      OBVIOUS
    <3>1. /\ i + 1 \in 1 .. m /\ i + 1 # 1 /\ (i + 1) - 1 = i /\ i <= m
          /\ 1 .. i + 1 = (1 .. i) \cup {i + 1}
      BY <2>2
    <3>2. f[i] \in E /\ (Occurs(x, f[i]) <=> \E j \in 1 .. i : Occurs(x, ss[j]))
      BY <2>5, <3>1
    <3> HIDE DEF i, T
    <3>3. f[i + 1] = f[i] \o ss[i + 1]
      BY <2>3, <3>1
    <3>4. ss[i + 1] \in E
      BY <2>2, <3>1
    <3>5. f[i] \o ss[i + 1] \in E
      BY <3>2, <3>4 DEF E
    <3>6. Occurs(x, f[i] \o ss[i + 1]) <=> Occurs(x, f[i]) \/ Occurs(x, ss[i + 1])
      BY <3>2, <3>4, OccursBoth DEF E
    <3> QED
      BY <3>1, <3>2, <3>3, <3>5, <3>6
  <2>6. \A k \in Nat : k \in T
    <3> HIDE DEF T
    <3>1. \A k \in Nat : k \in T => k + 1 \in T
      BY <2>5
    <3> QED
      BY <2>4, <3>1, InductionOverNat, Zenon
  <2>7. m - 1 \in Nat /\ (m - 1) + 1 = m
    BY <2>2
  <2>8. f[m] \in E /\ (Occurs(x, f[m]) <=> \E j \in 1 .. m : Occurs(x, ss[j]))
    <3> DEFINE k == m - 1
    <3>1. k \in T
      <4> HIDE DEF T
      <4> QED
        BY <2>6, <2>7
    <3>2. k + 1 = m /\ m <= m
      BY <2>2, <2>7
    <3> HIDE DEF k
    <3> QED
      BY <3>1, <3>2
  <2> QED
    BY <2>1, <2>8 DEF m, E
<1> QED
  BY <1>1, <1>2


\* A clause keeps all of its literals when they are of different variables.
LEMMA ClauseMeans ==
  ASSUME NEW p, NEW ls, DOMAIN ls \subseteq Nat,
         \A i, j \in DOMAIN ls : i # j => ls[i][1] # ls[j][1]
  PROVE  C!sat_clause(p, C!clause_of_list(ls))
           <=> \E i \in DOMAIN ls : C!sat_literal(p, ls[i])
<1>1. \A i, k \in DOMAIN ls : k > i => ls[k][1] # ls[i][1]
  <2>1. \A i, k \in DOMAIN ls : k > i => k # i
    OBVIOUS
  <2> QED
    BY <2>1
<1>2. C!clause_of_list(ls) = {ls[i] : i \in DOMAIN ls}
  BY <1>1 DEF C!clause_of_list
<1> QED
  BY <1>2 DEF C!sat_clause

\* Every clause of the list holds.
AllSat(p, cs) == \A c : Occurs(c, cs) => C!sat_clause(p, c)

\* A formula has all the clauses of the list it is made of.
LEMMA FormulaMeans ==
  ASSUME NEW D, NEW cs \in Seq(D), NEW p
  PROVE  C!sat_formula(p, C!formula_of_list(cs)) <=> AllSat(p, cs)
<1>1. Len(cs) \in Nat /\ DOMAIN cs = 1 .. Len(cs)
  OBVIOUS
<1> DEFINE f == C!formula_of_list(cs)
<1>2. f = {<<Len(cs) + 1 - i, cs[i]>> : i \in 1 .. Len(cs)}
  BY <1>1 DEF C!formula_of_list
<1>3. C!sat_formula(p, f) <=> \A i \in 1 .. Len(cs) : C!sat_clause(p, cs[i])
  <2>1. \A z \in f : \E i \in 1 .. Len(cs) : z[2] = cs[i]
    BY <1>2
  <2>2. ASSUME NEW i \in 1 .. Len(cs) PROVE \E z \in f : z[2] = cs[i]
    <3> DEFINE z == <<Len(cs) + 1 - i, cs[i]>>
    <3>1. z \in f
      BY <1>2
    <3>2. z[2] = cs[i]
      OBVIOUS
    <3> HIDE DEF z
    <3> QED
      BY <3>1, <3>2
  <2> HIDE DEF f
  <2> QED
    BY <2>1, <2>2 DEF C!sat_formula
<1> HIDE DEF f
<1> QED
  BY <1>3 DEF AllSat, Occurs, f

\* Of two literals, and of three, one holds.
LEMMA TwoLiterals ==
  ASSUME NEW p, NEW a, NEW b, a[1] # b[1]
  PROVE  C!sat_clause(p, C!clause_of_list(<<a, b>>))
           <=> C!sat_literal(p, a) \/ C!sat_literal(p, b)
<1> DEFINE ls == <<a, b>>
<1>1. DOMAIN ls = {1, 2} /\ ls[1] = a /\ ls[2] = b
  OBVIOUS
<1> HIDE DEF ls
<1>2. /\ DOMAIN ls \subseteq Nat
      /\ \A i, j \in DOMAIN ls : i # j => ls[i][1] # ls[j][1]
  BY <1>1
<1>3. C!sat_clause(p, C!clause_of_list(ls))
           <=> \E i \in DOMAIN ls : C!sat_literal(p, ls[i])
  BY <1>2, ClauseMeans
<1> QED
  BY <1>1, <1>3 DEF ls

LEMMA ThreeLiterals ==
  ASSUME NEW p, NEW a, NEW b, NEW c, a[1] # b[1], a[1] # c[1], b[1] # c[1]
  PROVE  C!sat_clause(p, C!clause_of_list(<<a, b, c>>))
           <=> \/ C!sat_literal(p, a)
               \/ C!sat_literal(p, b)
               \/ C!sat_literal(p, c)
<1> DEFINE ls == <<a, b, c>>
<1>1. DOMAIN ls = {1, 2, 3} /\ ls[1] = a /\ ls[2] = b /\ ls[3] = c
  OBVIOUS
<1> HIDE DEF ls
<1>2. /\ DOMAIN ls \subseteq Nat
      /\ \A i, j \in DOMAIN ls : i # j => ls[i][1] # ls[j][1]
  BY <1>1
<1>3. C!sat_clause(p, C!clause_of_list(ls))
           <=> \E i \in DOMAIN ls : C!sat_literal(p, ls[i])
  BY <1>2, ClauseMeans
<1> QED
  BY <1>1, <1>3 DEF ls

\* p gives the conjunction i the value that it gives its children.
Respects(p, i, nd) ==
  IsAnd(nd) => (p[i] <=> C!sat_literal(p, nd.l) /\ C!sat_literal(p, nd.r))

\* A clause of a graph is a set of edges.
LEMMA ClauseOfEdges ==
  ASSUME NEW ls \in Seq(Edge) PROVE C!clause_of_list(ls) \in SUBSET Edge
  BY DEF C!clause_of_list

\* The three clauses of a valid conjunction say that p respects it.
LEMMA SubformulaMeans ==
  ASSUME NEW n \in Nat, NEW p \in [1 .. n -> BOOLEAN], NEW i \in 1 .. n,
         NEW nd \in Node, valid(i, nd)
  PROVE  /\ to_subformula(i, nd) \in Seq(SUBSET Edge)
         /\ AllSat(p, to_subformula(i, nd)) <=> Respects(p, i, nd)
<1>1. CASE ~IsAnd(nd)
  <2>1. to_subformula(i, nd) = << >>
    BY <1>1 DEF to_subformula
  <2> QED
    BY <1>1, <2>1 DEF AllSat, Occurs, Respects
<1>2. CASE IsAnd(nd)
  <2> DEFINE x == nd.l
             y == nd.r
             a == C!clause_of_list(<< <<i, TRUE>>, x >>)
             b == C!clause_of_list(<< <<i, TRUE>>, y >>)
             c == C!clause_of_list(<< <<i, FALSE>>, neg(x), neg(y) >>)
             cs == <<a, b, c>>
  <2>1. /\ x \in Edge /\ y \in Edge /\ x[1] < i /\ y[1] < x[1] /\ i \in Id
    <3>1. x \in Edge /\ y \in Edge
      BY <1>2 DEF IsAnd, Node
    <3> QED
      BY <1>2, <3>1 DEF valid, Id
  <2>2. x[1] \in 1 .. n /\ y[1] \in 1 .. n /\ x[2] \in BOOLEAN /\ y[2] \in BOOLEAN
    BY <2>1 DEF Edge, Id
  <2>3. /\ neg(x)[1] = x[1] /\ neg(y)[1] = y[1]
        /\ neg(x)[2] = ~x[2] /\ neg(y)[2] = ~y[2]
        /\ neg(x) \in Edge /\ neg(y) \in Edge
    BY <2>1, <2>2 DEF neg, Edge
  <2>4. i # x[1] /\ i # y[1] /\ x[1] # y[1]
    BY <2>1, <2>2
  <2> HIDE DEF x, y
  <2>5. /\ p[i] \in BOOLEAN /\ p[x[1]] \in BOOLEAN /\ p[y[1]] \in BOOLEAN
    BY <2>2
  <2>6. C!sat_clause(p, a) <=> (p[i] => C!sat_literal(p, x))
    <3>1. C!sat_clause(p, a) <=> C!sat_literal(p, <<i, TRUE>>) \/ C!sat_literal(p, x)
      BY <2>4, TwoLiterals
    <3> QED
      BY <3>1, <2>5 DEF C!sat_literal
  <2>7. C!sat_clause(p, b) <=> (p[i] => C!sat_literal(p, y))
    <3>1. C!sat_clause(p, b) <=> C!sat_literal(p, <<i, TRUE>>) \/ C!sat_literal(p, y)
      BY <2>4, TwoLiterals
    <3> QED
      BY <3>1, <2>5 DEF C!sat_literal
  <2>8. C!sat_clause(p, c) <=> (C!sat_literal(p, x) /\ C!sat_literal(p, y) => p[i])
    <3>1. C!sat_clause(p, c) <=> \/ C!sat_literal(p, <<i, FALSE>>)
                                 \/ C!sat_literal(p, neg(x))
                                 \/ C!sat_literal(p, neg(y))
      BY <2>3, <2>4, ThreeLiterals
    <3> QED
      BY <3>1, <2>2, <2>3, <2>5 DEF C!sat_literal
  <2>9. a \in SUBSET Edge /\ b \in SUBSET Edge /\ c \in SUBSET Edge
    <3>1. <<i, TRUE>> \in Edge /\ <<i, FALSE>> \in Edge
      BY <2>1 DEF Edge
    <3>2. /\ << <<i, TRUE>>, x >> \in Seq(Edge) /\ << <<i, TRUE>>, y >> \in Seq(Edge)
          /\ << <<i, FALSE>>, neg(x), neg(y) >> \in Seq(Edge)
      BY <2>1, <2>3, <3>1
    <3> QED
      BY <3>2, ClauseOfEdges
  <2>10. to_subformula(i, nd) = cs
    BY <1>2 DEF to_subformula, x, y
  <2> HIDE DEF a, b, c
  <2>11. cs \in Seq(SUBSET Edge) /\ Len(cs) = 3 /\ cs[1] = a /\ cs[2] = b /\ cs[3] = c
    BY <2>9
  <2> HIDE DEF cs
  <2>12. AllSat(p, cs) <=> C!sat_clause(p, a) /\ C!sat_clause(p, b) /\ C!sat_clause(p, c)
    <3>1. 1 .. 3 = {1, 2, 3}
      OBVIOUS
    <3> QED
      BY <2>11, <3>1 DEF AllSat, Occurs
  <2>13. Respects(p, i, nd) <=> (p[i] <=> C!sat_literal(p, x) /\ C!sat_literal(p, y))
    BY <1>2 DEF Respects, x, y
  <2> QED
    BY <2>5, <2>6, <2>7, <2>8, <2>10, <2>11, <2>12, <2>13
<1> QED
  BY <1>1, <1>2

\* p respects every node of N.
AllRespected(p, N, n) == \A i \in 1 .. n : Respects(p, i, N[i])

\* The clauses of all nodes together.
LEMMA SubformulasMean ==
  ASSUME NEW n \in Nat, NEW N \in [1 .. n -> Node],
         \A i \in 1 .. n : valid(i, N[i]), NEW p \in [1 .. n -> BOOLEAN]
  PROVE  /\ list_to_subformulas(N) \in Seq(SUBSET Edge)
         /\ AllSat(p, list_to_subformulas(N)) <=> AllRespected(p, N, n)
<1> DEFINE D == SUBSET Edge
           ss == [i \in 1 .. n |-> to_subformula(i, N[i])]
<1>1. \A i \in 1 .. n : /\ ss[i] \in Seq(D)
                        /\ AllSat(p, ss[i]) <=> Respects(p, i, N[i])
  BY SubformulaMeans
<1>2. ss \in Seq(Seq(D)) /\ Len(ss) = n
  <2>1. \A i \in 1 .. n : to_subformula(i, N[i]) \in Seq(D)
    BY <1>1
  <2> HIDE DEF D
  <2> QED
    BY <2>1
<1>3. list_to_subformulas(N) = FlattenSeq(ss)
  BY DEF list_to_subformulas
<1> HIDE DEF ss, D
<1>4. FlattenSeq(ss) \in Seq(D)
  BY <1>2, FlattenOccurs
<1>5. \A c : Occurs(c, FlattenSeq(ss)) <=> \E j \in 1 .. n : Occurs(c, ss[j])
  BY <1>2, FlattenOccurs
<1>6. AllSat(p, FlattenSeq(ss)) <=> \A i \in 1 .. n : AllSat(p, ss[i])
  BY <1>5 DEF AllSat
<1> QED
  BY <1>1, <1>3, <1>4, <1>6 DEF AllRespected, D

\* The formula of an edge of a valid graph: p satisfies it if and only if p
\* gives the edge TRUE and respects every node.
LEMMA EdgeCnfMeans ==
  ASSUME NEW n \in Nat, NEW N \in [1 .. n -> Node],
         \A i \in 1 .. n : valid(i, N[i]), NEW r \in Edges(n)
  PROVE  \E f : /\ to_cnf(N, r) = {f}
                /\ \A p \in [1 .. n -> BOOLEAN] :
                     C!sat_formula(p, f)
                       <=> C!sat_literal(p, r) /\ AllRespected(p, N, n)
<1> DEFINE c == C!clause_of_list(<<r>>)
           ls == list_to_subformulas(N)
           cs == <<c>> \o ls
           f == C!formula_of_list(cs)
<1>1. r \notin {top, bot} /\ DOMAIN N = 1 .. n
  <2>1. r[1] \in 1 .. n /\ top[1] = 0 /\ bot[1] = 0
    BY DEF Edges, top, bot
  <2> QED
    BY <2>1
<1>2. to_cnf(N, r) = {f}
  BY <1>1 DEF to_cnf
<1>3. c = {r}
  BY DEF C!clause_of_list
<1>4. r \in Edge
  BY DEF Edges, Edge, Id
<1>5. c \in SUBSET Edge
  BY <1>3, <1>4
<1> SUFFICES ASSUME NEW p \in [1 .. n -> BOOLEAN]
             PROVE  C!sat_formula(p, f)
                      <=> C!sat_literal(p, r) /\ AllRespected(p, N, n)
  BY <1>2
<1>6. ls \in Seq(SUBSET Edge) /\ (AllSat(p, ls) <=> AllRespected(p, N, n))
  BY SubformulasMean
<1>7. C!sat_clause(p, c) <=> C!sat_literal(p, r)
  BY <1>3 DEF C!sat_clause
<1> HIDE DEF c, ls
<1>8. <<c>> \in Seq(SUBSET Edge) /\ cs \in Seq(SUBSET Edge)
  BY <1>5, <1>6
<1>9. \A x : Occurs(x, <<c>>) <=> x = c
  <2>1. Len(<<c>>) = 1 /\ 1 .. 1 = {1} /\ <<c>>[1] = c
    OBVIOUS
  <2> QED
    BY <2>1 DEF Occurs
<1>10. \A x : Occurs(x, cs) <=> Occurs(x, <<c>>) \/ Occurs(x, ls)
  BY <1>6, <1>8, OccursBoth
<1> HIDE DEF cs
<1>11. AllSat(p, cs) <=> C!sat_clause(p, c) /\ AllSat(p, ls)
  BY <1>9, <1>10 DEF AllSat
<1>12. C!sat_formula(p, f) <=> AllSat(p, cs)
  BY <1>8, FormulaMeans
<1> QED
  BY <1>6, <1>7, <1>11, <1>12

\* The formulas of the constants.
LEMMA ConstantCnf ==
  ASSUME NEW N
  PROVE  /\ to_cnf(N, top) = {{}}
         /\ \A p : C!sat_formula(p, {})
         /\ \E f : /\ to_cnf(N, bot) = {f}
                   /\ \A p : ~C!sat_formula(p, f)
<1>1. top # bot
  BY DEF top, bot
<1>2. \A p : C!sat_formula(p, {})
  BY DEF C!sat_formula
<1> DEFINE cs == << {} >>
           f == C!formula_of_list(cs)
<1>3. to_cnf(N, top) = {{}} /\ to_cnf(N, bot) = {f}
  BY <1>1 DEF to_cnf
<1>4. \A p : ~C!sat_clause(p, {})
  BY DEF C!sat_clause
<1>5. <<1, {}>> \in f
  BY DEF C!formula_of_list
<1>6. \A p : ~C!sat_formula(p, f)
  <2> DEFINE z == <<1, {}>>
  <2>1. z \in f /\ z[2] = {}
    BY <1>5
  <2> HIDE DEF z, f
  <2> QED
    BY <1>4, <2>1 DEF C!sat_formula
<1> QED
  BY <1>2, <1>3, <1>6

\* The assignment that gives every node its value in the interpretation w.
ValuesIn(s, n, w) == [i \in 1 .. n |-> IF w \in s[i] THEN TRUE ELSE FALSE]

\* It satisfies the formula of every edge that holds in w.
LEMMA ValuesSatisfy ==
  ASSUME NEW n, NEW N, NEW s, Graph(N, s, n), NEW w \in World
  PROVE  LET p == ValuesIn(s, n, w)
         IN  /\ p \in [1 .. n -> BOOLEAN]
             /\ \A r \in Edges(n) : C!sat_literal(p, r) <=> In(s, r, w)
             /\ AllRespected(p, N, n)
<1> DEFINE p == ValuesIn(s, n, w)
<1>1. p \in [1 .. n -> BOOLEAN] /\ \A i \in 1 .. n : p[i] <=> w \in s[i]
  BY DEF ValuesIn
<1> HIDE DEF p
<1>2. ASSUME NEW r \in Edges(n) PROVE C!sat_literal(p, r) <=> In(s, r, w)
  <2>1. r[1] \in 1 .. n /\ r[2] \in BOOLEAN
    BY DEF Edges
  <2> QED
    BY <1>1, <2>1 DEF C!sat_literal, In, EdgeSat
<1>3. ASSUME NEW i \in 1 .. n, IsAnd(N[i])
      PROVE  p[i] <=> C!sat_literal(p, N[i].l) /\ C!sat_literal(p, N[i].r)
  <2> DEFINE x == <<i, FALSE>>
  <2>1. x \in Edges(n) /\ x[1] = i /\ Plain(N, x)
    BY <1>3 DEF Edges, Plain
  <2>2. N[i].l \in Edges(n) /\ N[i].r \in Edges(n)
    BY <1>3, <2>1, AndFacts
  <2>3. In(s, x, w) <=> In(s, N[i].l, w) /\ In(s, N[i].r, w)
    BY <1>3, <2>1, AndFacts
  <2>4. In(s, x, w) <=> p[i]
    BY <1>1 DEF In, EdgeSat
  <2> QED
    BY <1>2, <2>2, <2>3, <2>4
<1>4. AllRespected(p, N, n)
  BY <1>3 DEF AllRespected, Respects
<1> QED
  BY <1>1, <1>2, <1>4 DEF p

\* Every node that is no conjunction is one of the inputs, and no input is
\* two nodes.
Variables(N, n) ==
  \A i \in 1 .. n :
    ~IsAnd(N[i]) => /\ \E x \in Input : N[i] = var(InputSem(x))
                    /\ \A j \in 1 .. n : N[j] = N[i] => j = i

\* The interpretation that an assignment of the nodes describes.
WorldOf(N, n, p) ==
  {x \in Input : \E j \in 1 .. n : N[j] = var(InputSem(x)) /\ p[j]}

\* An assignment that respects every node is that of its interpretation, so
\* the edges it satisfies hold there.
LEMMA WorldSatisfies ==
  ASSUME NEW n, NEW N, NEW s, Graph(N, s, n), Variables(N, n),
         NEW p \in [1 .. n -> BOOLEAN], AllRespected(p, N, n)
  PROVE  LET w == WorldOf(N, n, p)
         IN  /\ w \in World
             /\ \A r \in Edges(n) : C!sat_literal(p, r) <=> In(s, r, w)
<1> DEFINE w == WorldOf(N, n, p)
           Right(i) == p[i] <=> w \in s[i]
           S == {k \in Nat : \A i \in 1 .. n : i <= k => Right(i)}
<1>1. w \in World
  BY DEF WorldOf, World
<1>2. \A x \in Input : x \in w <=> \E j \in 1 .. n : N[j] = var(InputSem(x)) /\ p[j]
  BY DEF WorldOf
<1> HIDE DEF w
<1>3. n \in Nat /\ \A i \in 1 .. n : s[i] = NodeSat(s, N[i]) /\ s[i] \in SUBSET World
  BY DEF Graph
<1>4. 0 \in S
  OBVIOUS
<1>5. ASSUME NEW k \in Nat, k \in S, k + 1 \in 1 .. n PROVE Right(k + 1)
  <2> DEFINE i == k + 1
             nd == N[i]
  <2>1. CASE ~IsAnd(nd)
    <3>1. PICK x \in Input : nd = var(InputSem(x))
      BY <1>5, <2>1 DEF Variables
    <3>2. x \in w <=> p[i]
      <4>1. \A j \in 1 .. n : N[j] = nd => j = i
        BY <1>5, <2>1 DEF Variables
      <4> HIDE DEF i
      <4> QED
        BY <1>2, <1>5, <3>1, <4>1 DEF i
    <3>3. s[i] = InputSem(x)
      <4>1. s[i] = NodeSat(s, nd)
        BY <1>3, <1>5
      <4>2. ~IsAnd(var(InputSem(x))) /\ var(InputSem(x)).b = InputSem(x)
        BY DEF IsAnd, var
      <4> HIDE DEF i
      <4> QED
        BY <3>1, <4>1, <4>2 DEF NodeSat
    <3> HIDE DEF i
    <3> QED
      BY <1>1, <3>2, <3>3 DEF InputSem, i
  <2>2. CASE IsAnd(nd)
    <3> DEFINE x == <<i, FALSE>>
    <3>1. x \in Edges(n) /\ x[1] = i /\ Plain(N, x) /\ IsAnd(N[x[1]])
      BY <1>5, <2>2 DEF Edges, Plain
    <3>2. /\ nd.l \in Edges(n) /\ nd.r \in Edges(n)
          /\ nd.l[1] < i /\ nd.r[1] < nd.l[1]
          /\ In(s, x, w) <=> In(s, nd.l, w) /\ In(s, nd.r, w)
      BY <1>1, <3>1, AndFacts
    <3>3. ASSUME NEW r \in Edges(n), r[1] < i
          PROVE  C!sat_literal(p, r) <=> In(s, r, w)
      <4>1. r[1] \in 1 .. n /\ r[2] \in BOOLEAN /\ r[1] <= k
        BY <3>3 DEF Edges
      <4>2. Right(r[1])
        BY <1>5, <4>1
      <4> QED
        BY <1>1, <1>3, <4>1, <4>2 DEF C!sat_literal, In, EdgeSat
    <3>4. nd.r[1] < i
      <4>1. nd.l[1] \in Int /\ nd.r[1] \in Int /\ i \in Int
        BY <3>2 DEF Edges
      <4> QED
        BY <3>2, <4>1
    <3>5. p[i] <=> C!sat_literal(p, nd.l) /\ C!sat_literal(p, nd.r)
      BY <1>5, <2>2 DEF AllRespected, Respects
    <3>6. In(s, x, w) <=> w \in s[i]
      BY DEF In, EdgeSat
    <3> HIDE DEF i, x
    <3> QED
      BY <3>2, <3>3, <3>4, <3>5, <3>6 DEF i
  <2> QED
    BY <2>1, <2>2
<1>6. ASSUME NEW k \in Nat, k \in S PROVE k + 1 \in S
  <2> SUFFICES ASSUME NEW i \in 1 .. n, i <= k + 1 PROVE Right(i)
    OBVIOUS
  <2>1. CASE i <= k
    BY <1>6, <2>1
  <2>2. CASE i = k + 1
    <3>1. k + 1 \in 1 .. n
      BY <2>2
    <3>2. Right(k + 1)
      BY <1>5, <1>6, <3>1
    <3> QED
      BY <2>2, <3>2
  <2> QED
    BY <2>1, <2>2
<1>7. n \in S
  <2> HIDE DEF S
  <2> QED
    BY <1>3, <1>4, <1>6, InductionOverNat
<1>8. ASSUME NEW r \in Edges(n) PROVE C!sat_literal(p, r) <=> In(s, r, w)
  <2>1. r[1] \in 1 .. n /\ r[2] \in BOOLEAN /\ r[1] <= n
    BY <1>3 DEF Edges
  <2>2. Right(r[1])
    BY <1>7, <2>1
  <2> QED
    BY <1>1, <1>3, <2>1, <2>2 DEF C!sat_literal, In, EdgeSat
<1> QED
  BY <1>1, <1>8 DEF w

\* Some assignment of n nodes satisfies f.
SatisfiableOver(n, f) == \E p \in [1 .. n -> BOOLEAN] : C!sat_formula(p, f)

\* The ref of a graph and the formula it is made into.
LEMMA RefSatisfiable ==
  ASSUME NEW n, NEW N, NEW s, Graph(N, s, n), Variables(N, n), NEW r \in Refs(n)
  PROVE  \E f : to_cnf(N, r) = {f} /\ (SatisfiableOver(n, f) <=> EdgeSat(s, r) # {})
<1> USE DEF SatisfiableOver
<1>1. n \in Nat /\ s \in [0 .. n -> SUBSET World] /\ s[0] = World
  BY DEF Graph
<1>2. CASE r = top
  <2>1. to_cnf(N, r) = {{}} /\ \A p : C!sat_formula(p, {})
    BY <1>2, ConstantCnf
  <2>2. [i \in 1 .. n |-> TRUE] \in [1 .. n -> BOOLEAN]
    OBVIOUS
  <2>3. {} \in World
    BY DEF World
  <2>4. In(s, r, {})
    BY <1>1, <1>2, <2>3, Constants
  <2> QED
    BY <2>1, <2>2, <2>4 DEF In
<1>3. CASE r = bot
  <2>1. PICK f : to_cnf(N, r) = {f} /\ \A p : ~C!sat_formula(p, f)
    BY <1>3, ConstantCnf
  <2>2. EdgeSat(s, r) \in SUBSET World
    BY <1>1, RefFacts
  <2>3. \A w \in World : ~In(s, r, w)
    BY <1>1, <1>3, Constants
  <2>4. EdgeSat(s, r) = {}
    BY <2>2, <2>3 DEF In
  <2> QED
    BY <2>1, <2>4
<1>4. CASE r \notin {top, bot}
  <2>1. r \in Edges(n)
    <3>1. r = <<r[1], r[2]>> /\ r[1] \in 0 .. n /\ r[2] \in BOOLEAN
      BY DEF Refs
    <3>2. r[1] # 0
      BY <1>4, <3>1 DEF top, bot
    <3> QED
      BY <1>1, <3>1, <3>2 DEF Edges
  <2>2. N \in [1 .. n -> Node] /\ \A i \in 1 .. n : valid(i, N[i])
    BY DEF Graph
  <2>3. PICK f : /\ to_cnf(N, r) = {f}
                 /\ \A p \in [1 .. n -> BOOLEAN] :
                      C!sat_formula(p, f)
                        <=> C!sat_literal(p, r) /\ AllRespected(p, N, n)
    BY <1>1, <2>1, <2>2, EdgeCnfMeans
  <2>4. ASSUME NEW p \in [1 .. n -> BOOLEAN], C!sat_formula(p, f)
        PROVE  EdgeSat(s, r) # {}
    <3>1. In(s, r, WorldOf(N, n, p))
      BY <2>1, <2>3, <2>4, WorldSatisfies
    <3> QED
      BY <3>1 DEF In
  <2>5. ASSUME NEW w, w \in EdgeSat(s, r)
        PROVE  \E p \in [1 .. n -> BOOLEAN] : C!sat_formula(p, f)
    <3>1. w \in World
      <4>1. EdgeSat(s, r) \in SUBSET World
        BY <1>1, RefFacts
      <4> QED
        BY <2>5, <4>1
    <3> DEFINE p == ValuesIn(s, n, w)
    <3>2. /\ p \in [1 .. n -> BOOLEAN]
          /\ C!sat_literal(p, r) <=> In(s, r, w)
          /\ AllRespected(p, N, n)
      BY <2>1, <3>1, ValuesSatisfy
    <3> HIDE DEF p
    <3> QED
      BY <2>3, <2>5, <3>2 DEF In
  <2> QED
    BY <2>3, <2>4, <2>5
<1> QED
  BY <1>2, <1>3, <1>4

-----------------------------------------------------------------------------
(***************************************************************************)
(* The invariant: the factory is consistent, sem is node.sat of its graph, *)
(* and every bref handed out is true to what was asked for.                *)
(***************************************************************************)
Inv ==
  /\ Factory(g, sem)
  /\ held \subseteq Ref \X SUBSET World
  /\ \A x \in held : x[1] \in Refs(g.nextid - 1) /\ EdgeSat(sem, x[1]) = x[2]

\* A step that returns what its caller meant preserves the invariant.
LEMMA ReturnPreserves ==
  ASSUME Inv, NEW p, NEW B \in SUBSET World, Yields(g, sem, p, B), Return(p, B)
  PROVE  Inv'
<1> DEFINE n == g.nextid - 1
           m == p[2].nextid - 1
           t == extend(sem, p[2].nodes)
<1>1. g' = p[2] /\ sem' = t /\ held' = held \cup both(p[1], B)
  BY DEF Return
<1>2. /\ Factory(p[2], t) /\ g.nextid <= p[2].nextid /\ Agree(sem, t, n)
      /\ p[1] \in Refs(m) /\ EdgeSat(t, p[1]) = B
  BY DEF Yields
<1>3. n \in Nat /\ m \in Nat /\ t \in [0 .. m -> SUBSET World] /\ n <= m
  BY <1>2 DEF Inv, Factory, Graph, Consistent, Id
<1> HIDE DEF t
<1>4. Factory(g', sem')
  BY <1>1, <1>2 DEF Factory, Consistent, Graph
<1>5. Refs(n) \subseteq Refs(m)
  BY <1>3 DEF Refs
<1>6. \A x \in held : x[1] \in Refs(m) /\ EdgeSat(t, x[1]) = x[2]
  BY <1>2, <1>5, AgreeSat DEF Inv
<1>7. /\ neg(p[1]) \in Refs(m)
      /\ EdgeSat(t, neg(p[1])) \in SUBSET World
      /\ \A w \in World : In(t, neg(p[1]), w) <=> ~In(t, p[1], w)
  <2>1. ASSUME NEW q \in Refs(m)
        PROVE  /\ neg(q) \in Refs(m)
               /\ EdgeSat(t, neg(q)) \in SUBSET World
               /\ \A w \in World : In(t, neg(q), w) <=> ~In(t, q, w)
    BY <1>3, RefFacts
  <2> QED
    BY <1>2, <2>1
<1>8. EdgeSat(t, neg(p[1])) = World \ B
  BY <1>2, <1>7, SameMeaning DEF In
<1>9. \A x \in both(p[1], B) : x[1] \in Refs(m) /\ EdgeSat(t, x[1]) = x[2]
  BY <1>2, <1>7, <1>8 DEF both
<1>10. Refs(m) \subseteq Ref
  <2> SUFFICES ASSUME NEW r \in Refs(m) PROVE r \in Ref
    OBVIOUS
  <2>1. r = <<r[1], r[2]>> /\ r[1] \in 0 .. m /\ r[2] \in BOOLEAN
    BY DEF Refs
  <2>2. CASE r[1] = 0
    BY <2>1, <2>2 DEF Ref, top, bot
  <2>3. CASE r[1] # 0
    BY <2>1, <2>3, <1>3 DEF Ref, Edge, Id
  <2> QED
    BY <2>2, <2>3
<1>11. held' \subseteq Ref \X SUBSET World
  BY <1>1, <1>2, <1>7, <1>10 DEF Inv, both
<1> QED
  BY <1>1, <1>4, <1>6, <1>9, <1>11 DEF Inv

LEMMA InvInit == Init => Inv
<1> SUFFICES ASSUME Init PROVE Inv
  OBVIOUS
<1>1. g.nextid = 1 /\ g.nodes = << >> /\ g.cache = << >> /\ g.nextid - 1 = 0
  BY DEF Init, init
<1>2. sem = [i \in {0} |-> World] /\ 0 .. 0 = {0} /\ 1 .. 0 = {}
  BY DEF Init
<1>3. Consistent(g)
  BY <1>1, <1>2 DEF Consistent, Id
<1>4. Graph(g.nodes, sem, 0)
  BY <1>1, <1>2 DEF Graph
<1>5. sem \in [0 .. 0 -> SUBSET World] /\ sem[0] = World
  BY <1>2
<1>6. /\ top \in Refs(0) /\ neg(top) \in Refs(0)
      /\ EdgeSat(sem, top) = World /\ EdgeSat(sem, neg(top)) = World \ World
  BY <1>2, <1>5 DEF top, neg, Refs, EdgeSat
<1>7. neg(top) = bot
  BY DEF neg, top, bot
<1> QED
  BY <1>1, <1>3, <1>4, <1>6, <1>7 DEF Inv, Factory, Init, both, Ref

LEMMA InvNext == Inv /\ [Next]_vars => Inv'
<1> SUFFICES ASSUME Inv, [Next]_vars PROVE Inv'
  OBVIOUS
<1>1. Factory(g, sem)
  BY DEF Inv
<1>2. \A x \in held : /\ x[1] \in Refs(g.nextid - 1)
                      /\ EdgeSat(sem, x[1]) = x[2]
                      /\ x[2] \in SUBSET World
  BY DEF Inv
<1>3. ASSUME NEW i \in Input, MkVar(i) PROVE Inv'
  <2>1. InputSem(i) \in SUBSET World
    BY DEF InputSem
  <2>2. Yields(g, sem, mk_var(g, InputSem(i)), InputSem(i))
    BY <1>1, <2>1, MkVarYields
  <2>3. Return(mk_var(g, InputSem(i)), InputSem(i))
    BY <1>3 DEF MkVar
  <2> QED
    BY <2>1, <2>2, <2>3, ReturnPreserves
<1>4. ASSUME NEW x \in held, NEW y \in held, MkAnd(x, y) PROVE Inv'
  <2>1. x[2] \cap y[2] \in SUBSET World
    BY <1>2
  <2>2. Yields(g, sem, mk_and(g, x[1], y[1]), x[2] \cap y[2])
    BY <1>1, <1>2, MkAndYields
  <2>3. Return(mk_and(g, x[1], y[1]), x[2] \cap y[2])
    BY <1>4 DEF MkAnd
  <2> QED
    BY <2>1, <2>2, <2>3, ReturnPreserves
<1>5. ASSUME NEW x \in held, NEW y \in held, MkOr(x, y) PROVE Inv'
  <2>1. x[2] \cup y[2] \in SUBSET World
    BY <1>2
  <2>2. Yields(g, sem, mk_or(g, x[1], y[1]), x[2] \cup y[2])
    BY <1>1, <1>2, MkOrYields
  <2>3. Return(mk_or(g, x[1], y[1]), x[2] \cup y[2])
    BY <1>5 DEF MkOr
  <2> QED
    BY <2>1, <2>2, <2>3, ReturnPreserves
<1>6. CASE UNCHANGED vars
  BY <1>6 DEF vars, Inv, Factory, Graph, Consistent
<1> QED
  BY <1>3, <1>4, <1>5, <1>6 DEF Next

LEMMA Invariance == Spec => []Inv
  BY InvInit, InvNext, PTL DEF Spec

\* The types hold, and identifiers in use are those below the next one.
THEOREM AigTypeCorrect == Spec => []TypeOK
<1>1. Inv => TypeOK
  BY DEF Inv, TypeOK, Factory, Graph, Consistent
<1> QED
  BY <1>1, Invariance, PTL

\* cache_ok: the cache and the conjunctions of the graph are each other's
\* inverse, so hash-consing never duplicates a node or returns a wrong one.
THEOREM AigCacheExact == Spec => []CacheExact
<1>1. Inv => CacheExact
  BY DEF Inv, CacheExact, Factory, Graph, Consistent
<1> QED
  BY <1>1, Invariance, PTL

\* node.valid: whatever rewriting did, children differ and come before their
\* node, the larger one first, so to_cnf never fails for want of a valid node.
THEOREM AigNodesValid == Spec => []NodesValid
<1>1. Inv => NodesValid
  BY DEF Inv, NodesValid, Factory, Graph
<1> QED
  BY <1>1, Invariance, PTL

\* sat_mk_and and its relatives: every ref ever handed out keeps the meaning
\* that its caller asked for.
THEOREM AigDenotes == Spec => []Denotes
<1>1. Inv => Denotes
  <2> SUFFICES ASSUME Inv, NEW x \in held
               PROVE  x[1][1] < g.nextid /\ EdgeSat(sem, x[1]) = x[2]
    BY DEF Denotes
  <2>1. x[1][1] \in 0 .. g.nextid - 1 /\ g.nextid \in Nat
    BY DEF Inv, Refs, Factory, Consistent, Id
  <2> QED
    BY <2>1 DEF Inv
<1> QED
  BY <1>1, Invariance, PTL

-----------------------------------------------------------------------------
(***************************************************************************)
(* No input becomes two nodes, whatever the factory is asked for.          *)
(***************************************************************************)

\* A conjunction is found in the factory as it is, or one node is added.
LEMMA MkAndShape ==
  ASSUME NEW f, NEW x, NEW y
  PROVE  \/ mk_and(f, x, y)[2] = f
         \/ \E u, v : mk_and(f, x, y)[2] = mk_and_raw(f, u, v)[2]
<1> DEFINE Small(q) == q[2] = f \/ \E u, v : q[2] = mk_and_raw(f, u, v)[2]
<1>1. \A r : Small(<<r, f>>)
  OBVIOUS
<1>2. \A u, v : Small(mk_and_raw(f, u, v))
  OBVIOUS
<1> HIDE DEF Small
<1>3. \A u, v : Small(mk_and_cache(f, u, v))
  BY <1>1, <1>2 DEF mk_and_cache
<1>4. \A u, v : Small(mk_and_normorder(f, u, v))
  BY <1>3 DEF mk_and_normorder
<1>5. \A o : Small(mk_and_optimized(f, o))
  BY <1>1, <1>4 DEF mk_and_optimized
<1>6. \A u, v : Small(mk_and_aux(f, u, v))
  BY <1>4, <1>5 DEF mk_and_aux
<1>7. Small(mk_and(f, x, y))
  BY <1>1, <1>6 DEF mk_and
<1> QED
  BY <1>7 DEF Small

\* The nodes of a factory are Variables.
VariablesOf(f) == Variables(f.nodes, f.nextid - 1)

\* A new node beside the nodes of f.
LEMMA KinsertFacts ==
  ASSUME NEW f, NEW s, Factory(f, s), NEW nd
  PROVE  LET N == kinsert(f.nodes, f.nextid, nd)
         IN  /\ N[f.nextid] = nd
             /\ \A i \in 1 .. f.nextid - 1 : N[i] = f.nodes[i]
             /\ (f.nextid + 1) - 1 = f.nextid
             /\ \A i \in 1 .. f.nextid : i \in 1 .. f.nextid - 1 \/ i = f.nextid
<1>1. f.nextid \in Nat \ {0} /\ DOMAIN f.nodes = 1 .. f.nextid - 1
  BY DEF Factory, Graph, Consistent, Id
<1>2. f.nextid \notin 1 .. f.nextid - 1
  BY <1>1
<1> QED
  BY <1>1, <1>2 DEF kinsert

\* mk_var, under the guard of MkVar.
LEMMA VariablesMkVar ==
  ASSUME NEW f, NEW s, Factory(f, s), VariablesOf(f), NEW x \in Input,
         \A j \in 1 .. f.nextid - 1 : f.nodes[j] # var(InputSem(x))
  PROVE  VariablesOf(mk_var(f, InputSem(x))[2])
<1> DEFINE nd == var(InputSem(x))
           N == kinsert(f.nodes, f.nextid, nd)
           h == mk_var(f, InputSem(x))[2]
<1>1. h.nextid = f.nextid + 1 /\ h.nodes = N
  BY DEF mk_var
<1>2. /\ N[f.nextid] = nd
      /\ \A i \in 1 .. f.nextid - 1 : N[i] = f.nodes[i]
      /\ (f.nextid + 1) - 1 = f.nextid
      /\ \A i \in 1 .. f.nextid : i \in 1 .. f.nextid - 1 \/ i = f.nextid
  BY KinsertFacts
<1> HIDE DEF N, h
<1>3. Variables(N, f.nextid)
  <2> SUFFICES ASSUME NEW i \in 1 .. f.nextid, ~IsAnd(N[i])
               PROVE  /\ \E z \in Input : N[i] = var(InputSem(z))
                      /\ \A j \in 1 .. f.nextid : N[j] = N[i] => j = i
    BY DEF Variables
  <2>1. CASE i = f.nextid
    BY <1>2, <2>1
  <2>2. CASE i \in 1 .. f.nextid - 1
    BY <1>2, <2>2 DEF VariablesOf, Variables
  <2> QED
    BY <1>2, <2>1, <2>2
<1> QED
  BY <1>1, <1>2, <1>3 DEF VariablesOf, h

\* A conjunction is no variable.
LEMMA VariablesMkAndRaw ==
  ASSUME NEW f, NEW s, Factory(f, s), VariablesOf(f), NEW u, NEW v
  PROVE  VariablesOf(mk_and_raw(f, u, v)[2])
<1> DEFINE nd == and(u, v)
           N == kinsert(f.nodes, f.nextid, nd)
           h == mk_and_raw(f, u, v)[2]
<1>1. h.nextid = f.nextid + 1 /\ h.nodes = N
  BY DEF mk_and_raw
<1>2. /\ N[f.nextid] = nd
      /\ \A i \in 1 .. f.nextid - 1 : N[i] = f.nodes[i]
      /\ (f.nextid + 1) - 1 = f.nextid
      /\ \A i \in 1 .. f.nextid : i \in 1 .. f.nextid - 1 \/ i = f.nextid
  BY KinsertFacts
<1>3. IsAnd(nd)
  BY DEF IsAnd, and
<1> HIDE DEF N, h, nd
<1>4. Variables(N, f.nextid)
  <2> SUFFICES ASSUME NEW i \in 1 .. f.nextid, ~IsAnd(N[i])
               PROVE  /\ \E z \in Input : N[i] = var(InputSem(z))
                      /\ \A j \in 1 .. f.nextid : N[j] = N[i] => j = i
    BY DEF Variables
  <2>1. i \in 1 .. f.nextid - 1
    BY <1>2, <1>3
  <2> QED
    BY <1>2, <1>3, <2>1 DEF VariablesOf, Variables
<1> QED
  BY <1>1, <1>2, <1>4 DEF VariablesOf, h

LEMMA VariablesMkAnd ==
  ASSUME NEW f, NEW s, Factory(f, s), VariablesOf(f), NEW x, NEW y
  PROVE  VariablesOf(mk_and(f, x, y)[2])
  BY MkAndShape, VariablesMkAndRaw

LEMMA VariablesNext == Inv /\ VariablesOf(g) /\ [Next]_vars => VariablesOf(g)'
<1> SUFFICES ASSUME Inv, VariablesOf(g), [Next]_vars PROVE VariablesOf(g')
  BY DEF VariablesOf, Variables
<1>1. Factory(g, sem) /\ DOMAIN g.nodes = 1 .. g.nextid - 1
  BY DEF Inv, Factory, Graph
<1>2. ASSUME NEW x \in Input, MkVar(x) PROVE VariablesOf(g')
  <2>1. g' = mk_var(g, InputSem(x))[2]
    BY <1>2 DEF MkVar, Return
  <2> QED
    BY <1>1, <1>2, <2>1, VariablesMkVar DEF MkVar
<1>3. ASSUME NEW x, NEW y, MkAnd(x, y) \/ MkOr(x, y) PROVE VariablesOf(g')
  <2>1. \E u, v : g' = mk_and(g, u, v)[2]
    BY <1>3 DEF MkAnd, MkOr, Return, mk_or
  <2> QED
    BY <1>1, <2>1, VariablesMkAnd
<1>4. CASE UNCHANGED vars
  BY <1>4 DEF vars
<1> QED
  BY <1>2, <1>3, <1>4 DEF Next

\* Equisatisfiable: the formula of a ref is satisfiable exactly when the ref
\* holds in some interpretation, so a solver that refutes the formula refutes
\* the ref, and one that satisfies it has a counterexample.
THEOREM AigEquisatisfiable == Spec => []Equisatisfiable
<1>1. Init => VariablesOf(g)
  <2> SUFFICES ASSUME Init PROVE VariablesOf(g)
    OBVIOUS
  <2>1. g.nextid - 1 = 0
    BY DEF Init, init
  <2> QED
    BY <2>1 DEF VariablesOf, Variables
<1>2. Inv /\ VariablesOf(g) => Equisatisfiable
  <2> SUFFICES ASSUME Inv, VariablesOf(g), NEW x \in held
               PROVE  /\ to_cnf(g.nodes, x[1]) # {}
                      /\ \A f \in to_cnf(g.nodes, x[1]) :
                           satisfiable(f) <=> x[2] # {}
    BY DEF Equisatisfiable
  <2> DEFINE n == g.nextid - 1
             N == g.nodes
             r == x[1]
  <2>1. /\ Graph(N, sem, n) /\ Variables(N, n)
        /\ r \in Refs(n) /\ EdgeSat(sem, r) = x[2]
    BY DEF Inv, Factory, VariablesOf
  <2>2. Assignments = [1 .. n -> BOOLEAN]
    BY <2>1 DEF Assignments, Graph
  <2> HIDE DEF n, N, r
  <2>3. PICK f : /\ to_cnf(N, r) = {f}
                 /\ SatisfiableOver(n, f) <=> EdgeSat(sem, r) # {}
    BY <2>1, RefSatisfiable
  <2> QED
    BY <2>1, <2>2, <2>3 DEF satisfiable, SatisfiableOver, N, r
<1> QED
  BY <1>1, <1>2, InvInit, InvNext, VariablesNext, PTL DEF Spec
=============================================================================
