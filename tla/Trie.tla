-------------------------------- MODULE Trie --------------------------------
(***************************************************************************)
(* Binary tries, lean/src/data/trie/basic.lean: the maps of which clauses  *)
(* and formulas are made by default.  A key is a positive number, whose    *)
(* digits lead from the root to its value, the least significant first,    *)
(* and whose leading 1 ends the way.  A trie is nil or a node of an option *)
(* and two tries; an option is a set of one value or of none.              *)
(***************************************************************************)
EXTENDS Naturals, Sequences

nil == << >>

node(o, l, r) == <<o, l, r>>

\* A node for nil too: the cases of the source that insert into nil.
open(t) == IF t = nil THEN node({}, nil, nil) ELSE t

fault_mk(o, l, r) == node(o, l, r)     \* leaves empty branches behind

mk(o, l, r) == IF o = {} /\ l = nil /\ r = nil THEN nil ELSE node(o, l, r)

Even(k) == k % 2 = 0

map_bit(b, ns) == [i \in DOMAIN ns |-> <<2 * ns[i][1] + b, ns[i][2]>>]

\* Not sorted by keys: 1, then the even keys, then the others.
RECURSIVE to_list(_)
to_list(t) ==
  IF t = nil THEN << >>
  ELSE (IF t[1] = {} THEN << >> ELSE << <<1, CHOOSE a \in t[1] : TRUE>> >>)
         \o map_bit(0, to_list(t[2])) \o map_bit(1, to_list(t[3]))

elems(t) == LET ps == to_list(t) IN [i \in DOMAIN ps |-> ps[i][2]]

RECURSIVE null(_)
null(t) == t = nil \/ (t[1] = {} /\ null(t[2]) /\ null(t[3]))

\* The only pair of the trie.
RECURSIVE unsingleton(_)
unsingleton(t) ==
  IF t = nil THEN {}
  ELSE IF t[1] # {}
    THEN IF null(t[2]) /\ null(t[3]) THEN {<<1, a>> : a \in t[1]} ELSE {}
  ELSE IF null(t[2]) THEN {<<2 * s[1] + 1, s[2]>> : s \in unsingleton(t[3])}
  ELSE IF null(t[3]) THEN {<<2 * s[1], s[2]>> : s \in unsingleton(t[2])}
  ELSE {}

RECURSIVE card(_)
card(t) ==
  IF t = nil THEN 0
  ELSE card(t[2]) + card(t[3]) + (IF t[1] = {} THEN 0 ELSE 1)

RECURSIVE lookup(_, _)
lookup(k, t) ==
  IF t = nil THEN {}
  ELSE IF k = 1 THEN t[1]
  ELSE lookup(k \div 2, IF Even(k) THEN t[2] ELSE t[3])

\* insert_with, which keeps the old value.
RECURSIVE kinsert(_, _, _)
kinsert(k, a, t) ==
  LET n == open(t)
  IN  IF k = 1 THEN node(IF n[1] = {} THEN {a} ELSE n[1], n[2], n[3])
      ELSE IF Even(k) THEN node(n[1], kinsert(k \div 2, a, n[2]), n[3])
      ELSE node(n[1], n[2], kinsert(k \div 2, a, n[3]))

\* A conflict makes every trie on the way nil, up to the root (mk_if_l, mk_if_r).
RECURSIVE insert2(_, _, _)
insert2(k, a, t) ==
  LET n == open(t)
      new == insert2(k \div 2, a, IF Even(k) THEN n[2] ELSE n[3])
  IN  IF k = 1 THEN IF n[1] \subseteq {a} THEN node({a}, n[2], n[3]) ELSE nil
      ELSE IF new = nil THEN nil
      ELSE IF Even(k) THEN node(n[1], new, n[3]) ELSE node(n[1], n[2], new)

\* The trie that the pairs of the map m come to, inserted in any order.
RECURSIVE of_map(_)
of_map(m) ==
  LET below(b) == {<<s[1] \div 2, s[2]>> : s \in {t \in m : t[1] # 1 /\ t[1] % 2 = b}}
  IN  IF m = {} THEN nil
      ELSE node({s[2] : s \in {t \in m : t[1] = 1}}, of_map(below(0)), of_map(below(1)))

RECURSIVE kerase(_, _)
kerase(t, k) ==
  IF t = nil THEN nil
  ELSE IF k = 1 THEN mk({}, t[2], t[3])
  ELSE IF Even(k) THEN mk(t[1], kerase(t[2], k \div 2), t[3])
  ELSE mk(t[1], t[2], kerase(t[3], k \div 2))

RECURSIVE erase2(_, _, _)
erase2(t, k, a) ==
  IF t = nil THEN nil
  ELSE IF k = 1 THEN IF t[1] = {a} THEN mk({}, t[2], t[3]) ELSE t
  ELSE IF Even(k) THEN mk(t[1], erase2(t[2], k \div 2, a), t[3])
  ELSE mk(t[1], t[2], erase2(t[3], k \div 2, a))

RECURSIVE ksdiff(_, _)
ksdiff(t1, t2) ==
  IF t1 = nil \/ t2 = nil THEN t1
  ELSE mk(IF t2[1] = {} THEN t1[1] ELSE {},
          ksdiff(t1[2], t2[2]), ksdiff(t1[3], t2[3]))

RECURSIVE sdiff2(_, _)
sdiff2(t1, t2) ==
  IF t1 = nil \/ t2 = nil THEN t1
  ELSE mk(t1[1] \ t2[1], sdiff2(t1[2], t2[2]), sdiff2(t1[3], t2[3]))

\* An option: none if the tries disagree on a key.
RECURSIVE union2(_, _)
union2(t1, t2) ==
  IF t2 = nil THEN {t1}
  ELSE IF t1 = nil THEN {t2}
  ELSE IF t1[1] # {} /\ t2[1] # {} /\ t1[1] # t2[1] THEN {}
  ELSE {node(t1[1] \cup t2[1], l, r) :
          l \in union2(t1[2], t2[2]), r \in union2(t1[3], t2[3])}
=============================================================================
