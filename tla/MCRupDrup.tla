------------------------------ MODULE MCRupDrup ------------------------------
(***************************************************************************)
(* Two formulas of MCProofChecker and one that is refuted only by adding a *)
(* clause, with identifiers left for three additions to the smallest.      *)
(***************************************************************************)
EXTENDS RupDrup, FiniteSets, SequencesExt

x == <<1, FALSE>>
y == <<2, FALSE>>

Formulas == { {<<1, {x}>>, <<2, {neg(x), y}>>, <<3, {neg(y)}>>},
              {<<1, {x, y}>>, <<2, {neg(x), y}>>},
              {<<1, {x, y}>>, <<2, {x, neg(y)}>>,
               <<3, {neg(x), y}>>, <<4, {neg(x), neg(y)}>>} }

T == INSTANCE Trie

\* The tries the operations make of the maps m and n, and what they stand for.
Agree(m, n, k, a) ==
  LET t == T!of_map(m)
      u == T!of_map(n)
  IN  /\ T!kinsert(k, a, t) = T!of_map(kinsert(k, a, m))
      /\ T!insert2(k, a, t) = T!of_map(insert2(k, a, m))
      /\ T!kerase(t, k) = T!of_map(ksdiff(m, {<<k, a>>}))
      /\ T!erase2(t, k, a) = T!of_map(m \ {<<k, a>>})
      /\ T!ksdiff(t, u) = T!of_map(ksdiff(m, n))
      /\ T!sdiff2(t, u) = T!of_map(sdiff2(m, n))
      /\ T!union2(t, u) = {T!of_map(p) : p \in {q \in {m \cup n} : nodupkeys(q)}}
      /\ T!lookup(k, t) = lookup(k, m)
      /\ T!unsingleton(t) = {s \in m : m = {s}}
      /\ T!null(t) <=> null(m)
      /\ T!card(t) = Cardinality(m)
      /\ Len(T!to_list(t)) = Cardinality(m) /\ ToSet(T!to_list(t)) = m

(***************************************************************************)
(* On the clauses and the databases that the checkers come to, and without *)
(* the empty branches that erasing could leave, the operations of tries    *)
(* are those the checkers are modelled with.  That a map has one trie,     *)
(* however it came about, is used by the equality of clauses in erase2,    *)
(* insert2 and sdiff2, and proved nowhere.                                 *)
(***************************************************************************)
TriesImplement ==
  /\ Agree(rdb, ddb, rid, rnew)
  /\ \A l \in Literal : Agree(rcur, rnew, l[1], l[2])
=============================================================================
