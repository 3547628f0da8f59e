# A verification development for Exoverifier

Exoverifier (`lean/src`) is a proof-carrying-code framework for BPF programs,
written in Lean 3.  It defines what a BPF program does and when it is safe, and
it has two generators of safety proofs: one by abstract interpretation, with a
solver of constraints over tristate numbers, and one by symbolic execution,
whose verification condition goes through bit-blasting to a SAT solver and
comes back as a clausal proof that Lean checks.

Lean proves much of this code correct, but not all of it (one file derives
lemmas from `axiom bogus : false`, several definitions are "trusted" by a
comment), and it says little about what the parts do together over time: what
happens when fuel runs out, in which order constraints are refined, whether the
solver's answer is complete, what a running program may rely on.  This
directory models that as TLA+ state machines, model-checks them with TLC on
small instances and proves the main results with TLAPS for all instances.

All paths below are relative to `lean/src/` unless they start with `lean/`.


## 1. Inventory

### Components, their state and their operations

| component | source | state | operations |
|---|---|---|---|
| BPF values and instructions | `bpf/basic.lean`, `data/bv/basic.lean` | none (pure) | ALU and jump operations with their checks, helper calls |
| loader | `bpf/cfg.lean` 120-200 | the list of instructions, the position, the map from labels to instructions | `decode_from_flat` |
| operational semantics | `bpf/cfg.lean` 200-300, `bpf/spec.lean` | running (pc, registers) or exited (value) | one constructor of `step` per kind of instruction |
| tristate numbers | `data/domain/trit.lean`, `data/domain/tnum.lean` | none; carry chains and recursions inside | order, join, meet, add, sub, shifts, bitwise operations, division, tests |
| abstract values | `bpf/absint/value.lean` | one abstract value | `doALU`, `doALU_check`, `doJMP_check`, `doJMP_tt`, join, order |
| register files | `bpf/absint/regs.lean`, `data/domain/basic.lean` | one abstract value per register, or bottom | transfer functions, tests, inversion of jumps, calls |
| abstract interpreter | `bpf/absint/basic.lean` | the solution (label -> state), the constraints left in a round, fuel | `gen_constraints`, `solve`, `approximates`, `secure` |
| symbolic evaluation | `bpf/se/basic.lean`, `bpf/se/symbolic_value.lean`, `bpf/decision.lean` | the paths to be evaluated (a continuation), the verification condition | `step_*`, `assert`, `assume_`, `die`, `symeval`, `vcgen` |
| SMT factory, bit-blasting | `smt/` | a term or circuit factory | `mk_*` for each operator |
| and-inverter graphs | `aig/` | nodes, cache, counter | `mk_and`, rewriting, conversion to CNF, AIGER writer |
| BTOR back end | `btor/` | nodes, counter | `mk_*`, compilation to bit-vector circuits |
| CNF, maps | `sat/cnf.lean`, `data/unordered_map/`, `data/trie/` | clauses, formulas | `of_list`, DIMACS writer, `kinsert`, `insert₂`, `ksdiff`, `sdiff₂` |
| SAT proof checker | `sat/proof.lean` | the clauses at hand, the clause being propagated, what is left of the proof | `refute`, `rup`, `rup_check`, `drup_check` |
| DPLL | `sat/dpll.lean` | a formula, fuel | `bcp`, `dpll` |
| tnums of the kernel | `cbmc/tnum.c` (top level) | none | the C operations the Lean tnums are patterned on |
| oracles, tactics, parsers | `sat/`, `misc/semidecision.lean` | none, or external processes | call a solver, parse a proof, decide |
| decoder | `bpf/decode.lean` | none | bytes to instructions |

### How they interact

```
 bytes --decode--> list --loader--> graph ---+--> abstract interpreter --+
                                             |     (regs, value, tnum)   |
                                             |                           +--> verdict --> the program runs
                                             +--> symbolic evaluation ---+               (operational semantics)
                                                    | condition    ^
                                                    v              | unsat
                                                  SMT -> AIG -> CNF -> external solver -> proof checker
```

Everything is called synchronously; there are no threads.  The parts meet in
*data that one produces and another must read in the same way*: labels of the
graph, the solution, clause identifiers, oracle words.  Two producers are not
trusted: the solver of constraints, whose solution is computed in meta Lean,
written out and read back (`lean/test/bpf/absint_harness.lean`), and the
external SAT solver.  What they return is only checked.

### Behaviours that are hard

* **Order.**  The constraints come in the order of a map's `to_list`, which its
  specification leaves open; transfer functions are not all monotone (MOV
  returns its source when the destination is top, `value.lean:333`), so the
  solution can depend on the order.  Assertions and assumptions of a symbolic
  state are relative to each other and their order matters.
* **Bounds.**  `solve` returns whatever it has when its fuel is used up;
  `symeval` gives up a path, and drops its assertions, when its fuel is.
* **Untrusted answers.**  Solutions and clausal proofs can be anything: proofs
  that use an identifier twice, delete clauses they later refer to, or stop
  early.
* **Bottom.**  Tests on bottom are trivially true; a label that is wrongly
  thought unreachable is never checked.  Conversely, a constraint that makes a
  state out of bottom, or leads where control does not go, has dead code judged
  by states it never has.
* **Boundaries of numbers.**  Jump targets modulo 2^32, labels from 1 and
  positions from 0, sign extension, oversized shifts, division by zero,
  carries through unknown bits.
* **Two readings of one thing.**  Verifier and semantics read the same graph;
  `rup_check` and `drup_check` read the same proof; the Lean and the C tnums
  claim to be the same numbers.
* **Sharing.**  The graph factory hands out old nodes for new requests, through
  its cache and through rewriting rules that look at the children of a node and
  are applied once, not to their own results.  Counter, nodes and cache must
  agree at every call, and what a caller holds must keep its meaning.
* **Total functions that fail.**  The conversion to clauses fails for the whole
  graph if one node is out of order; `dpll` gives up when its fuel, which calls
  and rounds of propagation share, is used up;
  an ill-typed circuit is an empty vector.  Each of these only costs an answer,
  so no soundness theorem notices it.
* **Canonical form.**  Clauses and formulas are tries, compared with decidable
  equality: two tries of one map must be equal, also after erasures.

`PROJECT.json` lists these as hazards, each at its line, with the properties
that would catch it going wrong.

### What makes each component correct

* loader: control goes where the offsets say, immediates keep their sign;
* tnums and values: an abstract result stands for every concrete one, tests let
  nothing through, order is inclusion, join is least, meet is intersection;
* abstract interpreter: an accepted program never gets stuck, the solution
  stands for the registers at every step, rounds ascend and reach a fixed point,
  nothing is said about unreachable code;
* symbolic evaluation: an accepted program never gets stuck and returns, every
  state of a run is an instance of a state evaluated, paths are disjoint, a
  condition that fails fails for a reason;
* graph factory: the cache holds the conjunctions of the graph and nothing
  else, children come before their node and in order, every ref keeps the
  meaning it was asked for; a ref is refuted exactly if it is false everywhere;
* bit-blasting: a vector has the bits of the word it stands for under every
  interpretation, after any composition; an impossible condition is refuted;
* proof checker: what is refuted has no model, additions keep the models,
  deletions are optional;
* tries: they are the maps the checkers are modelled with;
* tnums of the kernel: sound, and equal to the Lean ones;
* verifier with program: a refinement of "give one verdict; after acceptance,
  never get stuck".


## 2. Modules

| module | models | role |
|---|---|---|
| `Words` | `data/bv/basic.lean` | words as numbers, bit operations by their arithmetic |
| `Bpf` | `bpf/basic.lean` | values, ALU, jumps, calls and their checks |
| `Loader` | `bpf/cfg.lean` | decoding of a list into a graph, one instruction a step |
| `Machine` | `bpf/cfg.lean` | the step relation, one action per constructor; `CanStep` |
| `SafeProgram` | `bpf/spec.lean`, `bpf/cfg.lean` | abstract specification: verdict, then never stuck |
| `Tnum` | `data/domain/trit.lean`, `tnum.lean` | tristate numbers |
| `KernelTnum`, `KernelWalk` | `cbmc/tnum.c` (top level) | the C tnums; a register executed concretely and with them |
| `ShlLoop` | `tnum.lean` `shl_aux` | its recursion, one call a step |
| `ValueDomain` | `bpf/absint/value.lean` | `avalue` with top |
| `RegisterWalk` | `value.lean`, `tnum.lean` laws | one register, run concretely and abstractly at once |
| `ValueAbstr` | `bpf/absint/value.lean` 16-40, `data/domain/basic.lean` | the class `value_abstr`: its fields as constants, its laws |
| `RegsDomain` | `bpf/absint/regs.lean`, `data/domain/basic.lean` | register files over *any* lawful domain of values |
| `Verifier` | `bpf/absint/basic.lean` | loader + constraint solver + check + running program |
| `SymEval` | `bpf/se/*.lean`, `bpf/decision.lean` | loader + symbolic evaluation + verdict + running program |
| `UnorderedMap`, `Cnf` | `data/unordered_map/basic.lean`, `sat/cnf.lean` | finite maps by their laws; clauses, formulas, satisfaction |
| `Problem` | `sat/proof.lean` | the formula that is to be refuted |
| `ProofChecker` | `sat/proof.lean` | `refute` and `rup_core`, hint by hint |
| `RupDrup` | `sat/proof.lean` | the two checkers on one proof, side by side |
| `Trie` | `data/trie/basic.lean` | the implementation of those maps |
| `Aig` | `aig/basic.lean`, `rewrite.lean`, `factory.lean` | nodes, rewriting rules, `mk_and` with its cache |
| `AigFactory` | `aig/factory.lean` | the factory as a state machine, one action per operation |
| `AigCnf` | `aig/to_cnf.lean` (`sat_eq_ff_of_unsat_to_cnf` and its converse) | the clauses of a ref against its meaning |
| `ToCnf`, `Dpll`, `Decide` | `aig/to_cnf.lean`, `sat/dpll.lean` | clauses of a graph, the solver, the two composed |
| `SatFactory`, `Bitblast` | `smt/`, `sat/factory.lean` | operations on refs; circuits of words |
| `BlastWalk` | `smt/bitblast/`, `data/bv/` | a caller that composes circuits, against the words they stand for |
| `WordsProofs` | | facts about words of every width, and the induction they rest on |
| `LoaderProofs`, `RegisterWalkProofs`, `KernelProofs`, `VerifierProofs`, `SymEvalProofs`, `ProofCheckerProofs`, `AigProofs` | | theorems |
| `MC...` | | instances for TLC |

### Correspondence with the code

*Loader.*  `prog` is the list, `cur` the position, `code` the map.
`DecodeInstr` is one round of `decode_from_flat_aux`: `decode_instr` builds the
instruction with its labels (`succ` is `num.succ'`) and `kinsert` stores it,
keeping what is there.  Widths of immediates, offsets and the program counter
are constants; a jump target is computed as the source does it, from the
unsigned offset, modulo `2^PcW`.

*Machine.*  `phase`, `pc`, `regs`, `ret` are the two constructors of `state`.
Each constructor of `step` is an action with its check as guard.  The oracle's
word for a helper call is chosen freely, because an oracle is an arbitrary
function of the call's number.  A running state in which no action applies is
stuck; TLC would report it as a deadlock too.  Deadlock checking is on in every
run but `aig` and `bitblast`, whose callers stop when the bound on nodes or
operations is reached.

*Verifier.*  Phases: `decode`, `iterate` (the head of `iterate`), `refine`
(inside `refine_all`), `check` (the decision procedure), then `rejected`,
`running`, `exited`.  `Round` starts a round and uses one unit of fuel;
`Refine(c)` is one step of `refine_all`, in any order except that the entry's
constraint, which the source puts at the head of the list, is first; `Return`
is the end of `iterate`, for lack of fuel or because every constraint holds;
`Accept`/`Reject` evaluate `approximates` and `secure` on the result.
`RegsDomain` takes the domain of values as constant operators, the fields of
the class `value_abstr` declared in `ValueAbstr`, and assumes its laws
(`Lawful`), which in the source an instance must prove.  `MCVerifier` gives the
fields their values from `ValueDomain`, and TLC evaluates the laws for them;
`RegisterWalkProofs` proves the same laws of the same operators at every width.

*SymEval.*  Terms are denoted: a bit-vector term is the function from oracles
to words that the `sat` relation of the factory gives it, a Boolean term the
set of oracles where it is true.  The continuation-passing style of `symeval`
becomes a stack `paths` of symbolic states; the condition `vc` is the
conjunction of what the paths contribute when they end: `infeasible` out of
fuel, the assertions at an exit, false at an instruction without semantics.
`seen` (states evaluated) and `drawn` (words the oracle has returned at run
time) are history.  `Accept` needs a valid condition; `Reject` is always
possible, because the solver may give up.  `Draws` bounds the calls on a path
(an oracle is a function from `0 .. Draws - 1`); a path with more of them ends
like one with an unsupported instruction, so that the bound can cause a
rejection and never an acceptance.

*ProofChecker.*  `db` is `f`, `cur` the clause of `rup_core`, `new` and `id`
the addition under way, `last` says whether the list of actions is empty.  The
source looks at a list only through its head and whether anything is left, so
choosing action, hint and end of list when they are read covers every proof of
every length.  Both deletion handlers are there (`Deletes`).  `RupDrup` runs
both on one proof and assumes that no addition uses an identifier again;
nothing in the code checks this, solvers do it, and without it the two
checkers really can differ (`kinsert` keeps the clause that `drup_check` has
deleted and `rup_check` has not).

*Trie.*  The recursions of the source on tries, one operator each; a key is a
positive number read from its least significant digit.  Its operators are
recursive, so the module is for TLC.  `of_map` is the canonical trie of a map;
`MCRupDrup` compares every operation on it with the operation of
`UnorderedMap` on the clauses and databases that the checkers meet.

*AigFactory.*  `g` is the factory record of `factory.lean`: `nextid`, `nodes`,
`cache`.  A ref is a pair of an identifier and a sign, the constants being edges
of a node 0 that no graph holds.  A bref carries in the source an erased value;
here that is the set of interpretations of the inputs in which it is true.
`held` has every bref ever handed out, with its negation, which costs no node,
and `sem` is `node.sat` of every node.  The nested trie of the cache is a
function of ordered pairs of edges, and the hash by which it is indexed is
injective.  The rules of `rewrite.lean` are operators that return a ref, a pair
of edges or `None`, tried in the order of the source; `optimize` runs at the
depth 1 it is called with.  `MaxNode` bounds the nodes.

*Decide.* `dimacs` is the order of the lines a solver is given. In the source an
external solver refutes the clauses of a ref and `rup_check` checks its proof;
here the repository's own `dpll` stands in for both, on the default tries.
`ProofChecker` covers the checking of arbitrary proofs.

*SatFactory, Bitblast.*  Operations are in the state monad, as in the source: each
takes a factory and returns a result and a factory, and `bind` is the arrow of
the source's `do` blocks.

*BlastWalk.*  `held` has every vector built, with the word that it must stand
for in each interpretation, computed by `Words`.  The newest vector is an operand
of each operation, so that a behaviour is a circuit as deep as it is long.
There are two instances for unsigned division: the default, a fresh variable
that is the quotient by its erased value only, has the higher priority (20
against 10), so the solver knows nothing of a quotient; both are modelled.

*KernelWalk.*  `x` is a register and `a` its tnum under `cbmc/tnum.c`.  64-bit
words become words of `W = 2^LogW` bits, the 32-bit halves half of that.


## 3. Runs

| run | question | instance | distinct states |
|---|---|---|---|
| `walk` | are the laws of the value domain true? | 3-bit tnums, all pairs of operands, two regions | 218 |
| `kernel` | are the C tnums sound after any sequence of operations, and are they the Lean ones? | 4-bit, all operands, half words of 2 bits | 256 |
| `shl` | is `shl_aux` right, which Lean derives from a false axiom? | 3-bit, all value/amount pairs | 1 080 |
| `shl_lemma` | is the lemma stated about it true? (no) | same | |
| `loader` | do labels, targets and immediates come out right? | lists up to 3, all 2-bit offsets and immediates, 3-bit counter | 38 410 |
| `load_imm` | does `LD_IMM` fall through to the next instruction? (no) | same | |
| `verifier` | solver, check and accepted program together | 2 744 programs of 4 instructions, every order of constraints | 272 855 |
| `symeval` | symbolic evaluation, verdict and accepted program | 2 366 programs up to 5 instructions, depth 6, 2 calls | 40 354 |
| `aig` | nodes, cache and meanings under rewriting; are the clauses of a ref satisfiable just when it can hold; is every false ref refuted? | 2 inputs, up to 7 nodes | 1 439 |
| `bitblast` | do circuits compute words, and are impossible conditions refuted? | two 2-bit words, two operations in sequence | 3 378 |
| `proof_checker` | soundness of `refute` for any proof | 2 variables, 3 identifiers, 3 formulas, deletions | 196 740 |
| `rup_drup` | are deletions optional? do tries implement maps? | 2 variables, 5 identifiers, 3 formulas | 190 870 |

What the properties say:

* `walk`: `Simulates` (after any sequence of operations and joins the abstract
  value stands for the concrete one), `TestsSound` (tests that pass abstractly
  pass concretely), `LatticeLaws` (order is inclusion, join is least, meet is
  intersection), `Optimal` (no precision lost in add, sub, and, or, xor, neg), `Monotone`.
* `kernel`: `KernelSound` (the tnum is valid, contains the value, and says
  aligned only of what is); `KernelAgrees` (the carries the C code finds by
  exclusive or and the trit recursion of the Lean code give equal tnums, for
  every operation but multiplication, where the two differ from five bits on
  and neither is always the more precise, and the right shifts, which the Lean
  code does not compute; and for meets that are not empty).
* `shl`: `ShlAuxCovers` is the induction hypothesis that the source's proof
  needs and does not establish; `KnownAmountIsExact`.
* `loader`: `JumpsAreRelative` (modular arithmetic on unsigned offsets agrees
  with signed offsets, and a target outside the program is a label that holds
  nothing), `ImmediatesKeepSign`, and the type invariant, which says that
  labels are consecutive and hold the instructions of their positions.
* `verifier`: `NeverStuck`; `RegsApproximated`; `FuelSuffices` (the solver
  stops at a fixed point, in every order); `OnlyReachable` (states other than
  bottom only where the graph can go); `SolverAscends` (a round never drops or
  lowers a state); `ImplementsSafeProgram` (refinement, with the liveness of
  the verdict).
* `symeval`: `NeverStuck`; `SymbolicTracks` (the soundness proof's
  `concretizes`); `PathsDisjoint`; `Precise` (a failed condition names an oracle
  under which the program gets stuck or is still running at the end of the
  fuel, or an instruction that has no symbolic semantics); `AcceptedReturns`
  (accepted programs return); `ImplementsSafeProgram`.
* `aig`: `CacheExact` (every cache entry is a conjunction under its own children,
  and every conjunction is cached, so none is built twice); `NodesValid` (what
  `to_cnf` requires of every node, and nothing in the factory checks);
  `Denotes`; `Equisatisfiable` (every ref converts to a formula, and the formula
  is satisfiable if and only if the ref holds somewhere; the source proves that
  an unsatisfiable formula makes the ref false and nowhere the converse, without
  which a false ref might not be refutable); `DecidesExactly` (a ref is refuted if and only if it is false
  everywhere: no fuel runs out, no conversion fails, no literal is lost);
  `LinesAreIdentifiers` (a clause's line in the file for the solver is the number
  under which the checker looks it up, although of_list numbers from the end of
  its list and tries list their keys in an order of their own).
* `bitblast`: `BlastDenotes`; `BlastDecides` (a condition is refuted only if it
  is impossible, and whenever it is, unless it rests on an opaque quotient).
* `proof_checker`, `rup_drup`: `Sound`, `Equivalent` (its first half, that no model
  is lost; the second half is about `Deletes = FALSE`, says nothing in a run with
  deletions, and is covered by the theorem only), `NeverEmptied` (the
  insertion of a literal never meets its dual), `DeletionOptional`, `Lockstep`,
  `TriesImplement` (every operation of tries gives the trie of the map that the
  operation of maps gives, so that equal maps are equal tries).

### Why the bounds are enough

Three bits make every carry chain and every shift up to, at and beyond the
width; two bits, used with whole programs, still distinguish signed from
unsigned comparisons, zero from other divisors, and shifts below and beyond the
width.  Programs of four or five instructions include loops, branches over an
instruction, jumps out of the program at either end, dead code, divisions
guarded by a branch, and uses of a register after a call; registers are one that
returns a result, one that a call clobbers, and one it keeps.  `Fuel = 8` in
`verifier` is more than any of those programs needs (that is `FuelSuffices`);
that less fuel cannot make an unsafe program accepted is part of theorem
`Safety`, which holds for every fuel.  `Fuel = 6` in `symeval` is
enough for all paths of straight-line programs, and too little for loops, which
is the case the rule for exhausted paths is about (the harness has 24).  Two
variables make clauses that propagate, conflict and contain the dual of a
literal; three identifiers leave additions that find their identifier in use,
five leave room for additions of their own.

Two inputs and five conjunctions over them reach every rewriting rule, with
nodes shared between the two operands of each; the inputs are interchangeable,
which is the symmetry of run `aig`.  Two bits make circuits with carries,
borrows, a sign and amounts of shifts beyond the width, and two operations in
sequence put each circuit on top of each, wider concatenations and one-bit
results included; arithmetic is kept to words no wider than the inputs, because
the divider of a wider word is out of TLC's reach.  Four bits give the C shifts
two rounds and half words that are more than a bit.

### Fairness

`Verifier` has weak fairness on the verifier's steps and `SymEval` also on the
program's.  The verifier is a composition of total Lean functions (recursion is
on fuel, on lists, or on finite maps), so it goes on until its verdict.
Nothing makes a program accepted by the abstract interpreter return, and no
fairness of its steps is needed for what is claimed of it.  `AcceptedReturns`
assumes only that the machine running the program goes on.


## 4. Findings

* `load_imm`: `cfg.lean:167` gives `LD_IMM` the successor two labels on, with
  the comment that it is two instructions wide.  The decoder has made one
  element of the list out of both halves already, and the next element is stored
  at the next label; so control skips an instruction or leaves the program.
* `shl_lemma`: the lemma `shl_aux_correct` (`tnum.lean:468`) is false as stated;
  it reduces the shift amount to the width of the remaining trits.  It is
  accepted by Lean through `axiom bogus : false` (`tnum.lean:35`).  The function
  itself is right (`ShlAuxCovers`).

Not findings, but observations that shaped the models: MOV is not monotone, so
the solution may depend on the order of constraints (never its soundness); the
class `unordered_map` has no law for `insert_with`, which is modelled as its
definition; deletions are optional only if identifiers are not used again.


## 5. Proofs

TLAPS proves the following for every value of the constants: every program of
any length, every width, every fuel, every set of registers, variables and
identifiers.

| module | theorem | says |
|---|---|---|
| `LoaderProofs` | `LoaderTypeCorrect`, `RelativeJumps` | types of the graph; jumps go where their offset says |
| | `SignExtension` | an immediate keeps its sign and value, whatever the widths |
| `RegisterWalkProofs` | `WalkSimulates`, `WalkTestsSound` | the abstract value stands for the concrete one after any operations and joins; tests are sound |
| | `WalkLatticeLaws`, `WalkMonotone`, `WalkOptimal` | order, join and meet are what they should be; transfer functions but MOV are monotone; six of them lose nothing |
| | `ShlCallsCover`, `ShlKnownIsExact` | what the source derives about shifts from `axiom bogus : false` |
| | `ValueLawful`, `ValueAscends` | the values obey every law of their class; their joins ascend |
| | `ValueHeight` | a value of W bits rises at most W + 1 times |
| `KernelProofs` | `KernelWalkSound` | the C tnums stay valid, contain the value and say aligned only of what is, after any operations |
| | `KernelWalkAgrees` | what the C code computes of them, the Lean code computes too (multiplication and the right shifts aside) |
| `VerifierProofs` | `TypeCorrect` | types (proved, and not among the properties of run `verifier`) |
| | `Safety`, `Approximation` | accepted programs never get stuck; the solution stands for the registers |
| | `Reachability` | the solution claims nothing about unreachable labels |
| | `Ascent`, `Growth` | rounds of the solver never drop or lower a state (given joins that ascend); a state never loses a register file (given the laws of the class only) |
| | `EnoughFuelSuffices` | with fuel for (2n+1)·\|Reg\|·(H+1) rounds the solver stops at a fixed point, in every order (H is the height of the domain: W + 1) |
| | `Implementation` | `Spec => Abstract!Spec`, the refinement without fairness |
| `SymEvalProofs` | `TypeCorrect` | types |
| | `Safety`, `Tracking` | accepted programs never get stuck; each state of a run is an instance of a state evaluated |
| | `Disjointness`, `Precision` | paths are disjoint; a failed condition has a reason |
| | `Implementation` | the same refinement |
| `ProofCheckerProofs` | `TypeCorrect`, `Soundness`, `Equivalence`, `ClauseGrows` | what is refuted has no model, for any proof |
| | `DeletionsOptional`, `InStep` | deletions never decide |
| `AigProofs` | `AigTypeCorrect`, `AigCacheExact` | types, the counter above all identifiers; cache and graph agree |
| | `AigNodesValid` | the conversion to clauses never fails |
| | `AigDenotes` | rewriting and sharing keep every meaning, for any inputs and any number of nodes |
| | `AigEquisatisfiable` | every ref converts, and its clauses are satisfiable exactly when it holds somewhere |

Together, `VerifierProofs` and `RegisterWalkProofs` cover the abstract
interpreter from end to end: the first proves an accepted program safe over
every domain that obeys the class, the second that the domain the verifier runs
with, tristate numbers with their shifts, multiplication and carries, obeys it,
for words of 64 bits as of any number.

### The inductive invariants and why they are needed

*WordsProofs and RegisterWalkProofs.*  Words and tristate numbers are recursions
over bits.  The provers cannot instantiate the library's induction theorems,
but a *set* that holds 0 and is closed under successor holds every natural
(`SetInduction`), and a recursive function is any function that obeys its
equations, one of which exists (`RecursionExists`).  So each recursion is
unfolded once (`AdcUnfold`, `MulUnfold`, `ShlUnfold`: the value is the last one
of a member of a set of functions that obey the equations) and what holds of
its values is proved by `SetInduction` over the set of indices where it holds.
Soundness of addition is that of the carry chain (`CarryStep` for words,
`FullAddCovers` for trits); its optimality goes down the chain instead, choosing
at each position bits that make the carry wanted (`FullAddWitness`,
`AddOptimal`).  Multiplication keeps the product of one operand with the high
bits of the other, one bit longer in each round (`MulStepCovers`).  The invariants are small: `WalkInv` adds
the type of the abstract value to `Simulates`, and `ShlInv` types the arguments
of a call of `shl_aux`.  What the source lacks is not an invariant but the right
induction hypothesis: a call shifts by its amount times the number it still has
to read, taken as a natural number and not modulo anything (`ShlStepCovers`,
`ShlPrefix`; `Moved` for known amounts).

*KernelProofs.*  `KernelSound` says of a tnum that it contains the value, by one
bitwise operation on words; what can be followed through an operation is the
single position.  `KernelIInv` is that each position fits (`Represents`): a known
bit is the word's, an unknown one has value 0.  Masks and bitwise operations keep
it position by position.  The C code finds the bits of a sum that may vary as the
exclusive or of the least and the greatest sum, which is right because the carry
into a position lies between theirs: where their bits agree, so does every sum
between (`SumBetween`, from `SumBits`, the bits of a sum as bits and carries).
Multiplication adds a tnum per bit to `acc_m`; `MulStepRepresents` says what it
collects, the product less that of the values (`Surplus`).  The shifts take one
round per bit of the amount, by 2^i places each, and the rounds add up to the
amount.
`KernelAgrees` follows from the same invariant.  A trit is read as the pair of
its least and its greatest bit: an adder on trits adds the least bits with the
least carry and the greatest with the greatest (`FullAddBetween`), so the carries
of the Lean chain are those of the two sums the C code compares (`RippleAgrees`),
and a trit of the sum is known exactly when both operands are and both sums have
the same bit there, which is the mask `tnum_add` builds.  Subtraction is the sum
with the complement, whose greatest word comes from the least one
(`ComplementBetween`, `DifferencesAgree`).  A left shift goes through the Lean
rounds (`ShlRoundAgrees`), and the rounds that the C code does not take have a
trit 0 and change nothing (`ShlAgrees`).

*VerifierProofs.* `IInv == TypeOK /\ InOrder /\ Verified`. `NeverStuck` is not
inductive: that the program can step now says nothing about the next state.
`Verified` carries the verdict along: the solution still approximates the graph
and is secure, the program counter is inside the code and the registers are
among those the solution allows there. `SecureSound` turns it into `CanStep`;
one lemma per kind of instruction (`ALUApproximated`, `JMPApproximated`,
`CallApproximated`) shows that the constraint between an instruction and its
successor keeps it. `InOrder` says that the solution of an undecoded program is
empty and that nothing runs before the verdict. `Ascent` follows a step of the
solver (`SolSteps`: it changes one state, to its join with another): `JoinAbove`
needs joins of values that are above both operands in the *decided* order, which
the class does not ask for; hence the hypothesis `JoinAscends`, which
`ValueAscends` proves of the values. `Growth` is what remains of it when only
the laws of the class are given. `EnoughFuelSuffices` counts rounds. That no
monotone function is iterated here (MOV) rules out the textbook argument; what
bounds the rounds is that joins ascend. `Ranked` gives every value a rank in `0
.. H` that rises strictly in the order, and `Gained` is the set of triples of a
label that a constraint can reach, a register and a rank the solution has come
up to. It never shrinks, and grows whenever a constraint that fails is refined
(`RefineGains`). `FuelSuffices` is not inductive, nor is "each round has gained
something": in the middle of a round the gain may still be to come. `Progress`
therefore says that the gains are as many as the rounds made, or one fewer with
a failing constraint still in `todo`; refining any other constraint either gains
something or changes no state and leaves it failing. `Gained` has no more
members than `Rounds`, so the solver cannot run out of fuel with a constraint
failing (`ProgressStep`).

*SymEvalProofs.*  `IInv == TypeOK /\ Started /\ Explored /\ Blamed /\ Bounded /\
Running`.  `Explored`: every continuation of an evaluated state has been
evaluated or waits, and the condition implies the contribution of each.
`Blamed`: a check that failed on the way to a state, under an oracle that takes
this way, has made the condition false or is among the assertions of a state
that waits.  This is what makes it safe that assertions reach the condition only
at the end of a path, and that a path out of fuel drops them: `Ends` and
`ContinuationsCover` show that an oracle that takes a path either goes on in a
continuation or meets a contribution that excludes it.  `Running`: the program
is at an evaluated state, under every oracle that would have returned the words
drawn so far.  `RunningFacts` derives from these that the program can step.
The agreement of symbolic and concrete operations (`ALUDenotes`, `JMPDenotes`,
`OperandDenotes`) and what each kind of instruction does to a state
(`ALUContinues`, `JMPContinues`, `CallContinues`) are lemmas of their own.

*ProofCheckerProofs.*  `Implied` is the invariant of unit propagation: the
clause under way implies, given the clauses at hand, the one to be added.
`NeverEmptied` is part of it because `insert₂` erases a literal whose dual is
there.  `BothIInv`, for the two checkers on one proof: the clauses of `drup_check` are among those of
`rup_check`, and the identifier being added is free in both.

*AigProofs.* `Inv` is the conjunction of the four invariants with the equation
of `sem`: the value of a node is what `NodeSat` makes of its children's. None of
them is inductive alone: a cached node is a right answer only if the cache is
exact, the rules read the children of nodes, which are edges of the graph only
because nodes are valid, and they keep meanings only if `sem` obeys its
equation. There is one lemma for each rewriting rule (`Sound_...` for those that
return a ref, `Reduces_...` for those that return two edges and must also leave
them different, which is what makes the new node valid), and one for each layer
of `mk_and` (`MkAndRawYields` up to `MkAndYields`), as in the source.
`AigEquisatisfiable` adds to `Inv` that no input is two nodes (`VariablesOf`):
two variables for one input could be assigned differently, and a formula
satisfied that no interpretation satisfies. The clauses of the nodes are
flattened by a recursion, unfolded by induction over a set (`FlattenUnfolds`);
the clauses of a valid node say exactly that it is the conjunction of its edges,
which takes that the two edges differ, since a clause that names a literal and
its dual loses one (`ClauseMeans`, `SubformulaMeans`). The values of the nodes
under an interpretation satisfy the formula (`ValuesSatisfy`), and an assignment
that satisfies it is the values under the interpretation it gives the inputs
(`WorldSatisfies`), by induction over identifiers, children being smaller than
their node.

### Assumptions

* `WAssumption`, `WidthAssumption`: widths are positive, immediates no wider
  than words.  `RegAssumption`: there is an `R0`.
* `FuelAssumption`, `DrawsAssumption`, `ProgramsAssumption`, `InputAssumption`,
  `DeletesAssumption`, `MaxNodeAssumption`, `BoundAssumption`: the types of the
  parameters.  `LogWAssumption`: the kernel's words are as long as its shifts
  have rounds.
* `NoTnumAssumption`, `BotAssumption`: the bottoms that the source adds to a
  domain are none of its values.
* The hypotheses of `EnoughFuelSuffices` and `Ascent`, not assumed elsewhere: `Reg`
  is finite, values are `Ranked` (`JoinAscends` for `Ascent`), which `ValueHeight`
  and `ValueAscends` prove of the values of the repository, and `EnoughFuel`.
* `LawfulAssumption` (`RegsDomain`): the laws of class `value_abstr`, the proof
  obligations of `abstr_le`, `abstr_join`, `abstr_binary_transfer`, ..., which
  every instance discharges in the source.  `ValueLawful` proves them of the
  instance of the repository at every width; TLC evaluates them at two bits (run
  `verifier`).

Of two facts that were assumptions once nothing is left: that powers of two are
positive and that the scalar operations return words are lemmas now.  The proofs
use the library's modules `FiniteSetTheorems` and `WellFoundedInduction`, whose
own proofs are not checked here; of `FS_SUBSET` (a set of n elements has 2^n
subsets), from which `WordsProofs` takes the arithmetic of powers, the library
leaves a step about powers of two unproved.

TLC evaluates each of these assumptions in the runs of the modules that declare
them.

### What is model-checked only

* `FuelSuffices` with less fuel than `EnoughFuelSuffices` asks for: the 8 rounds
  of run `verifier`, and the 5000 of the harness (`test/bpf/absint_harness.lean`).
  The theorem's bound is (2n + 1) · 11 · 66 at 64 bits and 11 registers, below
  5000 only for programs of one or two instructions; that real programs need far fewer
  rounds than the bound is not proved, and safety does not depend on it.
* `BlastDenotes`, `BlastDecides`, `DecidesExactly`, `LinesAreIdentifiers`,
  `TriesImplement`: recursive operators (circuits and tries are trees, the
  solver branches on its clauses), which `tlapm` cannot reason about.
* The liveness part of `ImplementsSafeProgram`, and `AcceptedReturns`.


## 6. Not modelled

* The byte decoder and the parsers of proof files: pure functions on bits and
  text.
* The text of DIMACS and AIGER files and the external solver, whose answer is
  only checked (`proof_checker` takes every answer).
* BTOR: `compile.lean` compiles addition and left shift only, and no leaf, so it
  returns `none` for every term and the procedure built on it always answers
  "unknown".  That is sound, and there is no behaviour to check.
* Association lists, the other implementation of maps; `filter_map` of tries;
  the hashing of the factory's cache.
* 32-bit ALU operations and memory accesses, which have no rule in `cfg.lean`;
  wrapped intervals, which no verifier uses.
* The Racket models, which restate the tnums for another tool; harnesses and
  scripts.
* The vendored packages under `lean/pkgs` (`lingeling`, `picosat`, `aiger`,
  `drat-trim`).  They hold nearly all of the C in this repository and are other
  projects' programs; of them the verifier uses the proof they print, which is
  an arbitrary input of the proof checker here.  `cbmc/tnum.c` is the C file
  that belongs to Exoverifier.


## 7. Plan

Done: loader, semantics, the domains down to trits, abstract interpreter,
the kernel's tnums, symbolic evaluation, proof checker, graph factory and
conversion to clauses, with their proofs; DPLL, bit-blasting and tries,
model-checked.  What is left: BTOR, once its compiler handles leaves.
