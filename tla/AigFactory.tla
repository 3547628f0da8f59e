------------------------------ MODULE AigFactory ------------------------------
(***************************************************************************)
(* A factory of and-inverter graphs and the caller that builds circuits    *)
(* with it (lean/src/aig/factory.lean).  A bref pairs a ref with what the  *)
(* caller means by it, the interpretations it should hold in.              *)
(***************************************************************************)
EXTENDS Aig

CONSTANT MaxNode                \* bound: no more nodes than these

ASSUME MaxNodeAssumption == MaxNode \in Nat

VARIABLES g,                    \* the factory
          held,                 \* the brefs handed to the caller
          sem                   \* node.sat of every node, see EdgeSat

vars == <<g, held, sem>>

\* mk_not of a bref is free of the factory: a caller has both of them.
both(r, b) == {<<r, b>>, <<neg(r), World \ b>>}

Init ==
  /\ g = init
  /\ held = both(top, World)
  /\ sem = [i \in {0} |-> World]

Room == g.nextid <= MaxNode

\* node.sat of the nodes N, of which all but those of s are new.
extend(s, N) ==
  [i \in {0} \cup DOMAIN N |-> IF i \in DOMAIN s THEN s[i] ELSE NodeSat(s, N[i])]

\* The factory and the ref it returned, and what the caller means by that.
Return(p, b) ==
  /\ g' = p[2]
  /\ held' = held \cup both(p[1], b)
  /\ sem' = extend(sem, p[2].nodes)

InputSem(i) == {w \in World : i \in w}

\* Every input becomes a variable once.
MkVar(i) ==
  /\ Room
  /\ \A j \in DOMAIN g.nodes : g.nodes[j] # var(InputSem(i))
  /\ Return(mk_var(g, InputSem(i)), InputSem(i))

MkAnd(x, y) ==
  /\ Room
  /\ Return(mk_and(g, x[1], y[1]), x[2] \cap y[2])

MkOr(x, y) ==
  /\ Room
  /\ Return(mk_or(g, x[1], y[1]), x[2] \cup y[2])

Next ==
  \/ \E i \in Input : MkVar(i)
  \/ \E x, y \in held : MkAnd(x, y) \/ MkOr(x, y)

Spec == Init /\ [][Next]_vars

-----------------------------------------------------------------------------
(***************************************************************************)
(* The types of the variables and complete (aig/basic.lean): the           *)
(* identifiers in use are those below the next one, so a fresh one is.     *)
(***************************************************************************)
TypeOK ==
  /\ g.nextid \in Id
  /\ g.nodes \in [1 .. g.nextid - 1 -> Node]
  /\ g.cache \in [DOMAIN g.cache -> 1 .. g.nextid - 1]
  /\ DOMAIN g.cache \subseteq Edge \X Edge
  /\ held \subseteq Ref \X SUBSET World
  /\ sem \in [0 .. g.nextid - 1 -> SUBSET World]

(***************************************************************************)
(* cache_ok, with its converse, which the source does not state: the cache *)
(* holds every conjunction under its children, so a conjunction is never   *)
(* built twice.                                                            *)
(***************************************************************************)
CacheExact ==
  /\ \A k \in DOMAIN g.cache : g.nodes[g.cache[k]] = and(k[1], k[2])
  /\ \A i \in DOMAIN g.nodes :
       IsAnd(g.nodes[i]) => /\ <<g.nodes[i].l, g.nodes[i].r>> \in DOMAIN g.cache
                            /\ g.cache[<<g.nodes[i].l, g.nodes[i].r>>] = i

(***************************************************************************)
(* node.valid: the children come before their node, the larger identifier  *)
(* first, and differ.  to_cnf fails for the whole graph if one node        *)
(* violates this; nothing in the factory checks it, and the rewriting      *)
(* rules, which are applied once and not again to their results, choose    *)
(* the children.                                                           *)
(***************************************************************************)
NodesValid == \A i \in DOMAIN g.nodes : valid(i, g.nodes[i])

(***************************************************************************)
(* sat_mk_and, sat_mk_or: every ref the caller was ever given still means  *)
(* what the caller asked for, whatever rules and cached nodes it came      *)
(* from.                                                                   *)
(***************************************************************************)
Denotes ==
  \A x \in held : x[1][1] < g.nextid /\ EdgeSat(sem, x[1]) = x[2]
=============================================================================
