------------------------------- MODULE SymEval -------------------------------
(***************************************************************************)
(* The verifier by symbolic evaluation, lean/src/bpf/se/basic.lean and     *)
(* symbolic_value.lean: every path of the program, to a depth of Fuel      *)
(* instructions, contributes to one verification condition, and a program  *)
(* whose condition is valid is accepted (bpf/decision.lean) and run.       *)
(*                                                                         *)
(* Expressions are what the SMT factory's sat relation makes of them: a    *)
(* bitvector is a function of the oracle, a Boolean the set of oracles for *)
(* which it is true.  The continuation of the source is a stack of paths;  *)
(* the condition is the conjunction of what their ends contribute.         *)
(***************************************************************************)
EXTENDS Machine

CONSTANTS Fuel,                 \* instructions on a path, 24 in the harness
          Draws                 \* bound: helper calls on a path

ASSUME FuelAssumption == Fuel \in Nat
ASSUME DrawsAssumption == Draws \in Nat

VARIABLES paths,                \* the paths still to be evaluated
          vc,                   \* the verification condition so far
          seen,                 \* history: the symbolic states evaluated
          drawn                 \* history: the words the oracle has returned

symVars == <<paths, vc, seen, drawn>>
vars == <<loaderVars, phase, runVars, symVars>>

-----------------------------------------------------------------------------
(* Expressions.                                                            *)

Oracle == [0 .. Draws - 1 -> Word]

Term == [Oracle -> Word]

mk_const(n) == [o \in Oracle |-> n]
mk_var(i) == [o \in Oracle |-> o[i]]
mk_true == Oracle
mk_false == {}
mk_not(a) == Oracle \ a
mk_bool(b) == IF b THEN mk_true ELSE mk_false

sym_scalar(t) == [tag |-> "scalar", t |-> t]
sym_pointer(m, t) == [tag |-> "pointer", m |-> m, t |-> t]

SymValue == [tag : {"scalar"}, t : Term]
              \cup [tag : {"pointer"}, m : Region, t : Term]
              \cup {uninitialized}

\* symvalue.sat: the value an expression has under oracle o.
denote(v, o) ==
  CASE is_scalar(v)  -> scalar(v.t[o])
    [] is_pointer(v) -> pointer(v.m, v.t[o])
    [] OTHER         -> uninitialized

-----------------------------------------------------------------------------
(* symbolic_value.lean.                                                    *)

fault_doALU64_scalar_check(op, y) ==   \* no check of the divisor
  {o \in Oracle : /\ op \in {"LSH", "RSH", "ARSH"} => y[o] < W
                  /\ op # "END"}

sym_doALU64_scalar_check(op, y) ==
  {o \in Oracle : /\ op \in {"DIV", "MOD"} => y[o] # 0
                  /\ op \in {"LSH", "RSH", "ARSH"} => y[o] < W
                  /\ op # "END"}

sym_doALU_check(op, a, b) ==
  CASE is_scalar(a) /\ is_scalar(b)  -> sym_doALU64_scalar_check(op, b.t)
    [] is_pointer(a) /\ is_scalar(b) -> mk_bool(doALU_pointer_scalar_check(op))
    [] OTHER -> mk_bool(op = "MOV" /\ b # uninitialized)

sym_doALU_pointer_scalar(op, m, off, val) ==
  CASE op = "ADD" -> sym_pointer(m, [o \in Oracle |-> bv_add(off[o], val[o])])
    [] op = "SUB" -> sym_pointer(m, [o \in Oracle |-> bv_sub(off[o], val[o])])
    [] op = "MOV" -> sym_scalar(val)
    [] OTHER      -> sym_pointer(m, off)

sym_doALU(op, a, b) ==
  CASE is_scalar(a) /\ is_scalar(b) ->
         sym_scalar([o \in Oracle |-> doALU64_scalar(op, a.t[o], b.t[o])])
    [] is_pointer(a) /\ is_scalar(b) ->
         sym_doALU_pointer_scalar(op, a.m, a.t, b.t)
    [] OTHER -> IF op = "MOV" THEN b ELSE a

sym_doJMP64_check(a, b) == mk_bool(is_scalar(a) /\ is_scalar(b))

sym_doJMP64(op, a, b) ==
  IF is_scalar(a) /\ is_scalar(b)
    THEN {o \in Oracle : doJMP_scalar(op, a.t[o], b.t[o])}
    ELSE mk_false

-----------------------------------------------------------------------------
(* Symbolic states.                                                        *)

SymState == [assumptions : SUBSET Oracle, assertions : SUBSET Oracle,
             current : Label, regs : [Reg -> SymValue], next_rng : Nat,
             fuel : 0 .. Fuel]

initial_symstate ==
  [assumptions |-> mk_true, assertions |-> mk_true, current |-> entry,
   regs |-> [r \in Reg |-> uninitialized], next_rng |-> 0, fuel |-> Fuel]

fault_assert(c, s) == [s EXCEPT !.assertions = @ \cap c]   \* on all paths

assert(c, s) == [s EXCEPT !.assertions = @ \cap (mk_not(s.assumptions) \cup c)]

assume_(c, s) == [s EXCEPT !.assumptions = c \cap @]

fault_infeasible(s) == s.assertions    \* what was checked so far was right

infeasible(s) == mk_not(s.assumptions)

\* Control passes to label l, with one instruction less to go.
goto(l, s) == [s EXCEPT !.current = l, !.fuel = @ - 1]

sym_operand(i, rs) ==
  IF i.kind \in {"ALU64_X", "JMP64_X"} THEN rs[i.src]
  ELSE sym_scalar(mk_const(i.imm))

step_alu64(i, s) ==
  LET x == s.regs[i.dst]
      y == sym_operand(i, s.regs)
  IN  goto(i.next, [assert(sym_doALU_check(i.op, x, y), s) EXCEPT
                      !.regs[i.dst] = sym_doALU(i.op, x, y)])

fault_step_jmp64(i, s, taken) ==       \* both branches assume the condition
  LET x == s.regs[i.dst]
      y == sym_operand(i, s.regs)
      t == assert(sym_doJMP64_check(x, y), s)
  IN  goto(IF taken THEN i.if_true ELSE i.if_false,
           assume_(sym_doJMP64(i.op, x, y), t))

step_jmp64(i, s, taken) ==
  LET x == s.regs[i.dst]
      y == sym_operand(i, s.regs)
      t == assert(sym_doJMP64_check(x, y), s)
      cond == sym_doJMP64(i.op, x, y)
  IN  IF taken THEN goto(i.if_true, assume_(cond, t))
      ELSE goto(i.if_false, assume_(mk_not(cond), t))

fault_step_call(i, s) ==               \* forgets to count the call
  goto(i.next, [s EXCEPT
    !.regs = [r \in Reg |-> IF r = "R0" THEN sym_scalar(mk_var(s.next_rng))
                            ELSE IF r \in caller_saved THEN uninitialized
                            ELSE s.regs[r]]])

\* do_call_check is mk_true.
step_call(i, s) ==
  goto(i.next, [assert(mk_true, s) EXCEPT
    !.regs = [r \in Reg |-> IF r = "R0" THEN sym_scalar(mk_var(s.next_rng))
                            ELSE IF r \in caller_saved THEN uninitialized
                            ELSE s.regs[r]],
    !.next_rng = s.next_rng + 1])

fault_step_exit(s) == s.assertions     \* any register may be returned

step_exit(s) == assert(mk_bool(is_scalar(s.regs["R0"])), s).assertions

-----------------------------------------------------------------------------
(* symeval, one symbolic state at a time.                                  *)

SymInit ==
  /\ LoaderInit
  /\ initial_state
  /\ phase = "decode"
  /\ paths = <<>> /\ vc = mk_true
  /\ seen = {} /\ drawn = <<>>

Decode ==
  /\ phase = "decode"
  /\ DecodeInstr
  /\ UNCHANGED <<phase, runVars, symVars>>

vcgen ==
  /\ phase = "decode" /\ Decoded
  /\ phase' = "symeval"
  /\ paths' = <<initial_symstate>>
  /\ UNCHANGED <<loaderVars, runVars, vc, seen, drawn>>

\* The state on top gives way to its continuations, and contributes c.
Evaluate(next, c) ==
  /\ paths' = next \o Tail(paths)
  /\ vc' = vc \cap c
  /\ seen' = seen \cup {Head(paths)}
  /\ UNCHANGED <<loaderVars, phase, runVars, drawn>>

OutOfFuel ==
  /\ phase = "symeval" /\ paths # <<>>
  /\ Head(paths).fuel = 0
  /\ Evaluate(<<>>, infeasible(Head(paths)))

\* The instruction of symbolic state s, if there is one and fuel for it.
Fetches(kinds, s) ==
  /\ s.fuel > 0
  /\ s.current \in DOMAIN code
  /\ code[s.current].kind \in kinds
  /\ code[s.current].kind = "CALL" => s.next_rng < Draws

step_symeval(kinds) ==
  phase = "symeval" /\ paths # <<>> /\ Fetches(kinds, Head(paths))

EvalALU64 ==
  /\ step_symeval({"ALU64_X", "ALU64_K"})
  /\ LET s == Head(paths)
     IN  Evaluate(<<step_alu64(code[s.current], s)>>, mk_true)

EvalJMP64 ==
  /\ step_symeval({"JMP64_X", "JMP64_K"})
  /\ LET s == Head(paths)
         i == code[s.current]
     IN  Evaluate(<<step_jmp64(i, s, TRUE), step_jmp64(i, s, FALSE)>>, mk_true)

EvalCALL ==
  /\ step_symeval({"CALL"})
  /\ LET s == Head(paths)
     IN  Evaluate(<<step_call(code[s.current], s)>>, mk_true)

EvalExit ==
  /\ step_symeval({"Exit"})
  /\ Evaluate(<<>>, step_exit(Head(paths)))

\* die: no instruction, or one that symbolic evaluation does not support.
Dies(s) ==
  s.fuel > 0 /\ ~Fetches({"ALU64_X", "ALU64_K", "JMP64_X", "JMP64_K", "CALL",
                          "Exit"}, s)

Die ==
  /\ phase = "symeval" /\ paths # <<>> /\ Dies(Head(paths))
  /\ Evaluate(<<>>, mk_false)

Accept ==
  /\ phase = "symeval" /\ paths = <<>>
  /\ vc = mk_true
  /\ phase' = "running"
  /\ UNCHANGED <<loaderVars, runVars, symVars>>

\* The condition is not valid, or the solver gives no proof that it is.
Reject ==
  /\ phase = "symeval" /\ paths = <<>>
  /\ phase' = "rejected"
  /\ UNCHANGED <<loaderVars, runVars, symVars>>

VerifierStep == \/ Decode \/ vcgen
                \/ OutOfFuel \/ EvalALU64 \/ EvalJMP64 \/ EvalCALL \/ EvalExit
                \/ Die
                \/ Accept \/ Reject

ProgramStep ==
  /\ step
  /\ drawn' = IF code[pc].kind = "CALL" THEN Append(drawn, regs'["R0"].n)
              ELSE drawn
  /\ UNCHANGED <<loaderVars, paths, vc, seen>>

Done == phase \in {"rejected", "exited"} /\ UNCHANGED vars

Next == VerifierStep \/ ProgramStep \/ Done

Spec == SymInit /\ [][Next]_vars

\* Evaluation is a total function; the machine that runs a program goes on.
FairSpec == Spec /\ WF_vars(VerifierStep) /\ WF_vars(ProgramStep)

-----------------------------------------------------------------------------
(* Properties.                                                             *)

\* The types of the variables.
TypeOK ==
  /\ prog \in Seq(FlatInstr) /\ cur \in 0 .. Len(prog)
  /\ DOMAIN code \subseteq Label
  /\ \A l \in DOMAIN code : code[l] \in Instr
  /\ phase \in {"decode", "symeval", "rejected", "running", "exited"}
  /\ pc \in Label /\ regs \in [Reg -> Value] /\ ret \in Word
  /\ paths \in Seq(SymState) /\ seen \subseteq SymState
  /\ vc \subseteq Oracle
  /\ drawn \in Seq(Word)

(***************************************************************************)
(* vcgen_spec: a program whose condition is valid is never stuck.  What is *)
(* asserted along a path counts only at the path's end, and a path that    *)
(* runs out of fuel drops it: that must not lose a failed check.           *)
(***************************************************************************)
NeverStuck == phase = "running" => CanStep(code, pc, regs)

\* The oracles that have returned the words drawn so far.
Possible == {o \in Oracle : \A n \in 1 .. Len(drawn) : o[n - 1] = drawn[n]}

Concretizes(s) ==
  /\ s.current = pc
  /\ s.next_rng = Len(drawn)
  /\ \A o \in Possible : /\ o \in s.assumptions
                         /\ \A r \in Reg : denote(s.regs[r], o) = regs[r]

(***************************************************************************)
(* concretizes: every state of the running program is an instance of a     *)
(* symbolic state that was evaluated, under every oracle that could have   *)
(* returned what the program has drawn.                                    *)
(***************************************************************************)
SymbolicTracks == phase = "running" => \E s \in seen : Concretizes(s)

(***************************************************************************)
(* No oracle can take two of the paths that are still to be evaluated:     *)
(* assumptions tell the branches of a jump apart.                          *)
(***************************************************************************)
PathsDisjoint ==
  \A m, n \in DOMAIN paths :
    m # n => paths[m].assumptions \cap paths[n].assumptions = {}

(***************************************************************************)
(* A condition that is false is false for a reason: under that oracle the  *)
(* program gets stuck or is still running when the fuel is used up.  The   *)
(* one exception is an instruction without symbolic semantics, which       *)
(* spoils the condition for all oracles, those that do not reach it too.   *)
(***************************************************************************)
Precise ==
  \A o \in mk_not(vc) :
    \E s \in seen :
      \/ Dies(s)
      \/ /\ o \in s.assumptions
         /\ \/ s.fuel = 0
            \/ ~CanStep(code, s.current, [r \in Reg |-> denote(s.regs[r], o)])

(***************************************************************************)
(* Unlike the abstract interpreter, which accepts loops, this verifier     *)
(* accepts only programs that return.                                      *)
(***************************************************************************)
AcceptedReturns == phase = "running" ~> phase = "exited"

\* Verifier and program implement SafeProgram, as those of Verifier do.
abstract_status ==
  IF phase = "running"
    THEN IF CanStep(code, pc, regs) THEN "running" ELSE "stuck"
    ELSE IF phase \in {"rejected", "exited"} THEN phase ELSE "pending"

Abstract ==
  INSTANCE SafeProgram WITH
    Result <- Word, result <- ret, status <- abstract_status

ImplementsSafeProgram == Abstract!FairSpec
=============================================================================
