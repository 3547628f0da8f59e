------------------------------ MODULE Verifier ------------------------------
(***************************************************************************)
(* The verifier by abstract interpretation: constraint generation, safety  *)
(* conditions, the fixpoint solver and the final check of                  *)
(* lean/src/bpf/absint/basic.lean, between the loader (module Loader) and  *)
(* the program's execution (module Machine).                               *)
(*                                                                         *)
(* The solver starts from the empty solution and goes round by round over  *)
(* all constraints, at most Fuel rounds, whatever it then has found; the   *)
(* verdict comes from the independent check of "approximates" and          *)
(* "secure", which safe_program_of_correct_approximation turns into a      *)
(* proof of safety.                                                        *)
(***************************************************************************)
EXTENDS RegsDomain

CONSTANT Fuel                   \* rounds the solver may make, 5000

ASSUME FuelAssumption == Fuel \in Nat

VARIABLES sol,                  \* SOLUTION: a map from labels to states
          todo,                 \* the constraints left in the current round
          fuel                  \* the rounds left

solverVars == <<sol, todo, fuel>>
vars == <<loaderVars, phase, runVars, solverVars>>

-----------------------------------------------------------------------------
(* Constraints.  The field compute names the function of the source.       *)

interpret(s, l) == IF l \in DOMAIN s THEN s[l] ELSE Bot

constraint(target, source, compute) ==
  [target |-> target, source |-> source, compute |-> compute]

fault_gen_one_constraint(l, i) ==      \* forgets the branch not taken
  CASE i.kind \in {"ALU64_X", "ALU64_K"} -> {constraint(i.next, l, "do_alu64")}
    [] i.kind = "JMP64_X" -> {constraint(i.if_true, l, "invert_jmp64_tt")}
    [] i.kind = "JMP64_K" -> {constraint(i.if_true, l, "id")}
    [] i.kind = "CALL" -> {constraint(i.next, l, "do_call")}
    [] OTHER -> {}

fault_flow_past_exit(l, i) ==          \* an Exit leads to what follows it
  IF i.kind = "Exit" THEN {constraint(l + 1, l, "id")}
  ELSE UNION {{constraint(k, l, "id")} : k \in Successors(i)}

gen_one_constraint(l, i) ==
  CASE i.kind \in {"ALU64_X", "ALU64_K"} -> {constraint(i.next, l, "do_alu64")}
    [] i.kind = "JMP64_X" -> {constraint(i.if_true, l, "invert_jmp64_tt"),
                              constraint(i.if_false, l, "id")}
    [] i.kind = "JMP64_K" -> {constraint(i.if_true, l, "id"),
                              constraint(i.if_false, l, "id")}
    [] i.kind = "CALL" -> {constraint(i.next, l, "do_call")}
    [] OTHER -> {}

entry_constraint == constraint(entry, entry, "const")

gen_constraints(p) ==
  {entry_constraint} \cup UNION {gen_one_constraint(l, p[l]) : l \in DOMAIN p}

\* The state a constraint of program p computes from its source's state s.
compute(p, c, s) ==
  CASE c.compute = "const"    -> const([r \in Reg |-> uninitialized])
    [] c.compute = "id"       -> s
    [] c.compute = "do_alu64" -> lift(s, do_alu64(p[c.source], s))
    [] c.compute = "do_call"  -> lift(s, a_do_call(s))
    [] c.compute = "invert_jmp64_tt" ->
         lift(s, invert_jmp64_tt(p[c.source], s))

constraint_holds(p, c, s) ==
  state_le(compute(p, c, interpret(s, c.source)), interpret(s, c.target))

approximates(p, s) == \A c \in gen_constraints(p) : constraint_holds(p, c, s)

-----------------------------------------------------------------------------
(* Safety conditions.                                                      *)

fault_gen_one_safety(p, i, s) ==       \* does not look up the successors
  CASE i.kind \in {"ALU64_X", "ALU64_K"} -> lift_test(s, do_alu64_check(i, s))
    [] i.kind \in {"JMP64_X", "JMP64_K"} -> lift_test(s, do_jmp64_check(i, s))
    [] i.kind = "CALL" -> TRUE
    [] i.kind = "Exit" -> lift_test(s, v_is_scalar(s["R0"]))
    [] OTHER -> FALSE

gen_one_safety(p, i, s) ==
  /\ Successors(i) \subseteq DOMAIN p
  /\ CASE i.kind \in {"ALU64_X", "ALU64_K"} -> lift_test(s, do_alu64_check(i, s))
       [] i.kind \in {"JMP64_X", "JMP64_K"} -> lift_test(s, do_jmp64_check(i, s))
       [] i.kind = "CALL" -> lift_test(s, TRUE)    \* do_call_check
       [] i.kind = "Exit" -> lift_test(s, v_is_scalar(s["R0"]))
       [] OTHER -> FALSE

secure(p, s) ==
  /\ entry \in DOMAIN p
  /\ \A l \in DOMAIN p : gen_one_safety(p, p[l], interpret(s, l))

-----------------------------------------------------------------------------
(* The solver.                                                             *)

fault_insert_with(k, v, m) ==          \* overwrites instead of joining
  [l \in DOMAIN m \cup {k} |-> IF l = k THEN v ELSE m[l]]

\* unordered_map.insert_with abstr_join.join.
insert_with(k, v, m) ==
  [l \in DOMAIN m \cup {k} |->
     IF l # k THEN m[l] ELSE IF k \in DOMAIN m THEN state_join(v, m[k]) ELSE v]

refine(s, c) ==
  insert_with(c.target, compute(code, c, interpret(s, c.source)), s)

VerifierInit ==
  /\ LoaderInit
  /\ initial_state
  /\ phase = "decode"
  /\ sol = EmptyMap
  /\ todo = {}
  /\ fuel = Fuel

Decode ==
  /\ phase = "decode"
  /\ DecodeInstr
  /\ UNCHANGED <<phase, runVars, solverVars>>

\* solve(gen_constraints(p), fuel) starts from the empty map.
Solve ==
  /\ phase = "decode" /\ Decoded
  /\ phase' = "iterate"
  /\ UNCHANGED <<loaderVars, runVars, solverVars>>

\* iterate: out of fuel, or every constraint holds.
Return ==
  /\ phase = "iterate"
  /\ fuel = 0 \/ approximates(code, sol)
  /\ phase' = "check"
  /\ UNCHANGED <<loaderVars, runVars, solverVars>>

\* iterate: some constraint fails, another round.
Round ==
  /\ phase = "iterate"
  /\ fuel > 0 /\ ~approximates(code, sol)
  /\ phase' = "refine"
  /\ todo' = gen_constraints(code)
  /\ fuel' = fuel - 1
  /\ UNCHANGED <<loaderVars, runVars, sol>>

(***************************************************************************)
(* refine_all: the constraint of the entry is first in the list; the order *)
(* of the others is that of unordered_map.to_list, which its specification *)
(* leaves open.                                                            *)
(***************************************************************************)
Refine(c) ==
  /\ phase = "refine"
  /\ c \in todo
  /\ entry_constraint \in todo => c = entry_constraint
  /\ sol' = refine(sol, c)
  /\ todo' = todo \ {c}
  /\ phase' = IF todo' = {} THEN "iterate" ELSE "refine"
  /\ UNCHANGED <<loaderVars, runVars, fuel>>

accepts(p, s) == approximates(p, s) /\ secure(p, s)

Accept ==
  /\ phase = "check" /\ accepts(code, sol)
  /\ phase' = "running"
  /\ UNCHANGED <<loaderVars, runVars, solverVars>>

Reject ==
  /\ phase = "check" /\ ~accepts(code, sol)
  /\ phase' = "rejected"
  /\ UNCHANGED <<loaderVars, runVars, solverVars>>

VerifierStep == \/ Decode \/ Solve
                \/ Return \/ Round \/ (\E c \in todo : Refine(c))
                \/ Accept \/ Reject

ProgramStep == step /\ UNCHANGED <<loaderVars, solverVars>>

\* A program rejected or exited has no further step.
Done == phase \in {"rejected", "exited"} /\ UNCHANGED vars

Next == VerifierStep \/ ProgramStep \/ Done

Spec == VerifierInit /\ [][Next]_vars

\* The verifier's functions are total, so its steps go on until a verdict;
\* nothing makes the program itself terminate.
FairSpec == Spec /\ WF_vars(VerifierStep)

-----------------------------------------------------------------------------
(* Properties.                                                             *)

Constraint == [target : Label, source : Label,
               compute : {"const", "id", "do_alu64", "do_call",
                          "invert_jmp64_tt"}]

\* The types of the variables; a constraint still to do belongs to the program.
TypeOK ==
  /\ prog \in Seq(FlatInstr) /\ cur \in 0 .. Len(prog)
  /\ DOMAIN code \subseteq Label
  /\ \A l \in DOMAIN code : code[l] \in Instr
  /\ phase \in {"decode", "iterate", "refine", "check", "rejected", "running",
                "exited"}
  /\ pc \in Label /\ regs \in [Reg -> Value] /\ ret \in Word
  /\ DOMAIN sol \subseteq Label
  /\ \A l \in DOMAIN sol : sol[l] \in State
  /\ todo \subseteq gen_constraints(code)
  /\ fuel \in 0 .. Fuel

(***************************************************************************)
(* bpf.cfg.safe: an accepted program never reaches a state in which no     *)
(* step applies.  It never leaves its code, by falling off the end or by a *)
(* jump, never uses an operand the operation is not defined for (an        *)
(* uninitialized register, a zero divisor, an oversized shift), and        *)
(* returns only with a scalar in R0.                                       *)
(***************************************************************************)
NeverStuck == phase = "running" => CanStep(code, pc, regs)

(***************************************************************************)
(* correct_approximation: at every step of an accepted program the         *)
(* solution's state at the program counter stands for the registers.       *)
(***************************************************************************)
RegsApproximated == phase = "running" => gamma(interpret(sol, pc), regs)

(***************************************************************************)
(* Rounds only add to the solution (refine): a label is never dropped and  *)
(* no state becomes smaller.                                               *)
(***************************************************************************)
SolverAscends ==
  [][\A l \in DOMAIN sol : l \in DOMAIN sol' /\ state_le(sol[l], sol'[l])]_sol

(***************************************************************************)
(* With the fuel given, the solver stops because every constraint holds    *)
(* and not because it has run out, whatever the order of the constraints:  *)
(* no program is rejected for want of fuel.                                *)
(***************************************************************************)
FuelSuffices == phase = "check" => approximates(code, sol)

(***************************************************************************)
(* The solution is not bottom only at labels that control can reach, in    *)
(* the graph, from the entry: code that cannot run is judged by its shape  *)
(* alone (lift_unary_test), never by states the solver made up.            *)
(***************************************************************************)
ReachableLabel(l) ==
  LET labels == DOMAIN code \cup UNION {Successors(code[k]) : k \in DOMAIN code}
  IN  \A S \in SUBSET (labels \cup {entry}) :
        (entry \in S /\ \A k \in S \cap DOMAIN code : Successors(code[k]) \subseteq S)
          => l \in S

OnlyReachable ==
  phase = "check" =>
    \A l \in DOMAIN sol : sol[l] # Bot => ReachableLabel(l)

(***************************************************************************)
(* The verifier and the program it lets run implement SafeProgram: one     *)
(* verdict, given eventually, and after acceptance no stuck state.         *)
(***************************************************************************)
abstract_status ==
  IF phase = "running"
    THEN IF CanStep(code, pc, regs) THEN "running" ELSE "stuck"
    ELSE IF phase \in {"rejected", "exited"} THEN phase ELSE "pending"

Abstract ==
  INSTANCE SafeProgram WITH
    Result <- Word, result <- ret, status <- abstract_status

ImplementsSafeProgram == Abstract!FairSpec
=============================================================================
