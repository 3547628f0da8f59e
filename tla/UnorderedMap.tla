---------------------------- MODULE UnorderedMap ----------------------------
(***************************************************************************)
(* The class unordered_map of lean/src/data/unordered_map/basic.lean: the  *)
(* finite maps of which clauses and formulas are made.  A map is the set   *)
(* of pairs of its to_list, no two with one key; every operation is what   *)
(* its law in the class, mem_..._iff, says of membership.                  *)
(***************************************************************************)

keys(m) == {s[1] : s \in m}

nodupkeys(m) == \A s \in m, t \in m : s[1] = t[1] => s = t

null(m) == m = {}

\* The option of the source: no element, or the value found.
lookup(a, m) == {s[2] : s \in {t \in m : t[1] = a}}

fault_kinsert(a, b, m) == m \cup {<<a, b>>}    \* a second value for the key

\* A key already there keeps its value.
kinsert(a, b, m) == IF a \in keys(m) THEN m ELSE m \cup {<<a, b>>}

\* A key already there with another value leaves nothing.
insert2(a, b, m) ==
  {s \in m \cup {<<a, b>>} : a \in keys(m) => <<a, b>> \in m}

\* Erases the pairs whose keys are those of m2.
ksdiff(m1, m2) == {s \in m1 : s[1] \notin keys(m2)}

fault_sdiff2(m1, m2) == ksdiff(m1, m2)         \* compares the keys only

sdiff2(m1, m2) == m1 \ m2
=============================================================================
