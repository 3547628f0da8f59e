--------------------------- MODULE VerifierProofs ---------------------------
(***************************************************************************)
(* Proofs about module Verifier, for every program, every width and every  *)
(* domain of values that meets the assumptions of RegsDomain.              *)
(***************************************************************************)
EXTENDS Verifier, LoaderProofs, FiniteSetTheorems, TLAPS

-----------------------------------------------------------------------------
(* Solutions.                                                              *)

\* The join of two states is a state.
LEMMA JoinTypes ==
  ASSUME NEW s \in State, NEW t \in State
  PROVE  state_join(s, t) \in State
  BY LawfulAssumption DEF State, ARegs, state_join, Lawful, FieldTypes

\* Joining a state into a solution keeps it a map from labels to states.
LEMMA RefineTypes ==
  ASSUME NEW m, NEW k \in Label, NEW v \in State,
         DOMAIN m \subseteq Label, \A l \in DOMAIN m : m[l] \in State
  PROVE  LET n == insert_with(k, v, m)
         IN  DOMAIN n \subseteq Label /\ \A l \in DOMAIN n : n[l] \in State
  BY JoinTypes DEF insert_with

-----------------------------------------------------------------------------
(* Abstract operations: their types, and what regs.lean proves of them.    *)

\* interpret and value_abstr.const stand for the operands.
LEMMA OperandAbstracted ==
  ASSUME NEW i \in Instr, i.kind \in Operation,
         NEW a \in ARegs
  PROVE  /\ a[i.dst] \in AValue /\ a_operand(i, a) \in AValue
         /\ \A rs : gamma(a, rs) =>
              /\ rs[i.dst] \in v_gamma(a[i.dst])
              /\ operand(i, rs) \in v_gamma(a_operand(i, a))
<1>1. a_operand(i, a) \in AValue
  BY OperationTypes, LawfulAssumption
     DEF a_operand, ARegs, Operation, Lawful, FieldTypes
<1>2. ASSUME NEW rs, gamma(a, rs)
      PROVE  operand(i, rs) \in v_gamma(a_operand(i, a))
  BY <1>2, OperationTypes, LawfulAssumption
     DEF operand, a_operand, gamma, Operation, Lawful, const_correct
<1> QED
  BY <1>1, <1>2, OperationTypes DEF ARegs, gamma

\* An abstract ALU operation gives an abstract register file.
LEMMA ALUTypes ==
  ASSUME NEW i \in Instr, i.kind \in {"ALU64_X", "ALU64_K"}, NEW a \in ARegs
  PROVE  do_alu64(i, a) \in ARegs
<1>1. v_doALU64(i.op, a[i.dst], a_operand(i, a)) \in AValue
  BY OperandAbstracted, OperationTypes, LawfulAssumption
     DEF Operation, Lawful, FieldTypes
<1> QED
  BY <1>1 DEF do_alu64, ARegs

\* Inverting a jump gives an abstract register file or bottom.
LEMMA InversionTypes ==
  ASSUME NEW i \in Instr, i.kind = "JMP64_X", NEW a \in ARegs
  PROVE  invert_jmp64_tt(i, a) \in State
<1> DEFINE z == v_doJMP64_tt(i.op, a[i.dst], a[i.src])
<1>1. /\ i.op \in JMP /\ i.dst \in Reg /\ i.src \in Reg
  BY OperationTypes DEF Operation
<1>2. z[1] \in AValue \cup {Bot} /\ z[2] \in AValue \cup {Bot}
  BY <1>1, LawfulAssumption DEF ARegs, Lawful, FieldTypes
<1>3. CASE z[1] = Bot \/ z[2] = Bot
  BY <1>3 DEF invert_jmp64_tt, State
<1>4. CASE z[1] # Bot /\ z[2] # Bot
  BY <1>2, <1>4 DEF invert_jmp64_tt, State, ARegs
<1> QED
  BY <1>3, <1>4

\* An abstract helper call gives an abstract register file.
LEMMA CallTypes ==
  ASSUME NEW a \in ARegs
  PROVE  a_do_call(a) \in ARegs
  BY LawfulAssumption DEF a_do_call, ARegs, Value, Lawful, FieldTypes

\* The state at the entry is an abstract register file.
LEMMA ConstTypes == const([r \in Reg |-> uninitialized]) \in ARegs
  BY LawfulAssumption DEF const, ARegs, Value, Lawful, FieldTypes

-----------------------------------------------------------------------------
(* Constraints.                                                            *)

\* Every constraint but the entry's belongs to an instruction.
LEMMA ConstraintOrigin ==
  ASSUME NEW p, Program(p), NEW c \in gen_constraints(p)
  PROVE  \/ c = entry_constraint
         \/ /\ c.source \in DOMAIN p
            /\ c \in gen_one_constraint(c.source, p[c.source])
<1> SUFFICES ASSUME c # entry_constraint
             PROVE  /\ c.source \in DOMAIN p
                    /\ c \in gen_one_constraint(c.source, p[c.source])
  OBVIOUS
<1>1. PICK l \in DOMAIN p : c \in gen_one_constraint(l, p[l])
  BY DEF gen_constraints
<1>2. c.source = l
  BY <1>1 DEF gen_one_constraint, constraint
<1> QED
  BY <1>1, <1>2

\* The constraints of a program are constraints between labels.
LEMMA ConstraintTypes ==
  ASSUME NEW p, Program(p), NEW c \in gen_constraints(p)
  PROVE  c \in Constraint
<1>1. CASE c = entry_constraint
  BY <1>1 DEF entry_constraint, constraint, Constraint, entry, Label
<1>2. CASE /\ c.source \in DOMAIN p
           /\ c \in gen_one_constraint(c.source, p[c.source])
  <2> DEFINE l == c.source
  <2>1. l \in Label /\ p[l] \in Instr
    BY <1>2 DEF Program
  <2>2. Successors(p[l]) \subseteq Label
    BY <2>1, SuccessorTypes
  <2>3. CASE p[l].kind \in {"ALU64_X", "ALU64_K", "CALL"}
    BY <1>2, <2>1, <2>2, <2>3, SuccessorTypes
       DEF gen_one_constraint, constraint, Constraint
  <2>4. CASE p[l].kind \in {"JMP64_X", "JMP64_K"}
    BY <1>2, <2>1, <2>2, <2>4, SuccessorTypes
       DEF gen_one_constraint, constraint, Constraint
  <2>5. CASE p[l].kind \in Unsupported \cup {"Exit"}
    BY <1>2, <2>5 DEF gen_one_constraint, Unsupported
  <2> QED
    BY <2>1, <2>3, <2>4, <2>5 DEF Instr
<1> QED
  BY <1>1, <1>2, ConstraintOrigin

\* The kinds of instruction that the functions of constraints come from.
LEMMA ConstraintKinds ==
  ASSUME NEW p, Program(p), NEW c \in gen_constraints(p)
  PROVE  /\ c.compute \in {"do_alu64", "do_call", "invert_jmp64_tt"}
              => c.source \in DOMAIN p /\ p[c.source] \in Instr
         /\ c.compute = "do_alu64"
              => p[c.source].kind \in {"ALU64_X", "ALU64_K"}
         /\ c.compute = "invert_jmp64_tt" => p[c.source].kind = "JMP64_X"
<1>1. CASE c = entry_constraint
  BY <1>1 DEF entry_constraint, constraint
<1>2. CASE /\ c.source \in DOMAIN p
           /\ c \in gen_one_constraint(c.source, p[c.source])
  BY <1>2 DEF gen_one_constraint, constraint, Program
<1> QED
  BY <1>1, <1>2, ConstraintOrigin

\* What a constraint computes from a state is a state.
LEMMA ComputeTypes ==
  ASSUME NEW p, Program(p), NEW c \in gen_constraints(p), NEW s \in State
  PROVE  compute(p, c, s) \in State
<1> DEFINE i == p[c.source]
<1>1. CASE c.compute = "const"
  BY <1>1, ConstTypes DEF compute, State
<1>2. CASE c.compute = "id"
  BY <1>2 DEF compute
<1>3. CASE c.compute = "do_alu64"
  <2>1. i \in Instr /\ i.kind \in {"ALU64_X", "ALU64_K"}
    BY <1>3, ConstraintKinds
  <2>2. compute(p, c, s) = IF s = Bot THEN Bot ELSE do_alu64(i, s)
    BY <1>3 DEF compute, lift
  <2> QED
    BY <2>1, <2>2, ALUTypes DEF State
<1>4. CASE c.compute = "do_call"
  <2>1. compute(p, c, s) = IF s = Bot THEN Bot ELSE a_do_call(s)
    BY <1>4 DEF compute, lift
  <2> QED
    BY <2>1, CallTypes DEF State
<1>5. CASE c.compute = "invert_jmp64_tt"
  <2>1. i \in Instr /\ i.kind = "JMP64_X"
    BY <1>5, ConstraintKinds
  <2>2. compute(p, c, s) = IF s = Bot THEN Bot ELSE invert_jmp64_tt(i, s)
    BY <1>5 DEF compute, lift
  <2> QED
    BY <2>1, <2>2, InversionTypes DEF State
<1>6. c.compute \in {"const", "id", "do_alu64", "do_call", "invert_jmp64_tt"}
  BY ConstraintTypes DEF Constraint
<1> QED
  BY <1>1, <1>2, <1>3, <1>4, <1>5, <1>6

-----------------------------------------------------------------------------
(* Soundness of the abstract operations (regs.lean).                       *)

\* abstr_le: a larger state stands for all that a smaller one does.
LEMMA LeSound ==
  ASSUME NEW s \in State, NEW t \in State, state_le(s, t),
         NEW rs, gamma(s, rs)
  PROVE  gamma(t, rs)
<1>1. s # Bot /\ t # Bot /\ s \in ARegs /\ t \in ARegs
  BY DEF gamma, state_le, State
<1>2. ASSUME NEW r \in Reg
      PROVE  rs[r] \in v_gamma(t[r])
  BY <1>1, <1>2, LawfulAssumption
     DEF ARegs, gamma, state_le, Lawful, le_correct
<1> QED
  BY <1>1, <1>2 DEF gamma

\* The state at the entry stands for the initial registers.
LEMMA ConstSound ==
  LET rs == [r \in Reg |-> uninitialized] IN gamma(const(rs), rs)
<1>1. uninitialized \in Value
  BY DEF Value
<1>2. const([r \in Reg |-> uninitialized]) # Bot
  BY ConstTypes, BotAssumption
<1> QED
  BY <1>1, <1>2, LawfulAssumption DEF gamma, const, Lawful, const_correct

\* do_alu and do_alu_check (regs.lean) cover what the instruction does, and
\* a test that passes lets every instance step; dst and src may be the same.
LEMMA ALUSound ==
  ASSUME NEW i \in Instr, i.kind \in {"ALU64_X", "ALU64_K"},
         NEW a \in ARegs, NEW rs \in [Reg -> Value], gamma(a, rs)
  PROVE  LET v == doALU64(i.op, rs[i.dst], operand(i, rs))
         IN  /\ gamma(do_alu64(i, a), [rs EXCEPT ![i.dst] = v])
             /\ do_alu64_check(i, a)
                  => doALU64_check(i.op, rs[i.dst], operand(i, rs))
<1> DEFINE v == doALU64(i.op, rs[i.dst], operand(i, rs))
           w == v_doALU64(i.op, a[i.dst], a_operand(i, a))
<1>1. /\ i.dst \in Reg /\ i.op \in ALU
      /\ a[i.dst] \in AValue /\ a_operand(i, a) \in AValue
      /\ rs[i.dst] \in v_gamma(a[i.dst])
      /\ operand(i, rs) \in v_gamma(a_operand(i, a))
  BY OperandAbstracted, OperationTypes DEF Operation
<1>2. /\ v \in v_gamma(w)
      /\ do_alu64_check(i, a)
           => doALU64_check(i.op, rs[i.dst], operand(i, rs))
  BY <1>1, LawfulAssumption DEF do_alu64_check, Lawful, doALU64_correct
<1>3. do_alu64(i, a) # Bot
  BY ALUTypes, BotAssumption
<1>4. do_alu64(i, a) = [a EXCEPT ![i.dst] = w]
  BY DEF do_alu64
<1>5. ASSUME NEW r \in Reg
      PROVE  [rs EXCEPT ![i.dst] = v][r] \in v_gamma(do_alu64(i, a)[r])
  <2>1. CASE r = i.dst
    BY <2>1, <1>2, <1>4 DEF ARegs
  <2>2. CASE r # i.dst
    BY <2>2, <1>4 DEF ARegs, gamma
  <2> QED
    BY <2>1, <2>2
<1> QED
  BY <1>2, <1>3, <1>5 DEF gamma

\* do_jmp_check (regs.lean): a test that passes lets every instance step.
LEMMA JMPCheckSound ==
  ASSUME NEW i \in Instr, i.kind \in {"JMP64_X", "JMP64_K"},
         NEW a \in ARegs, NEW rs, gamma(a, rs), do_jmp64_check(i, a)
  PROVE  doJMP64_check(i.op, rs[i.dst], operand(i, rs))
<1>1. /\ i.op \in JMP
      /\ a[i.dst] \in AValue /\ a_operand(i, a) \in AValue
      /\ rs[i.dst] \in v_gamma(a[i.dst])
      /\ operand(i, rs) \in v_gamma(a_operand(i, a))
  BY OperandAbstracted, OperationTypes DEF Operation
<1> QED
  BY <1>1, LawfulAssumption DEF do_jmp64_check, Lawful, doJMP64_correct

(***************************************************************************)
(* invert_jmp64_tt_correct: also if both operands are the same register,   *)
(* when the second update replaces the first.                              *)
(***************************************************************************)
LEMMA InversionSound ==
  ASSUME NEW i \in Instr, i.kind = "JMP64_X",
         NEW a \in ARegs, NEW rs, gamma(a, rs),
         doJMP64(i.op, rs[i.dst], rs[i.src])
  PROVE  gamma(invert_jmp64_tt(i, a), rs)
<1> DEFINE z == v_doJMP64_tt(i.op, a[i.dst], a[i.src])
<1>1. /\ i.op \in JMP /\ i.dst \in Reg /\ i.src \in Reg
      /\ a[i.dst] \in AValue /\ a[i.src] \in AValue
      /\ rs[i.dst] \in v_gamma(a[i.dst])
      /\ rs[i.src] \in v_gamma(a[i.src])
  BY OperationTypes DEF Operation, ARegs, gamma
<1>2. /\ z[1] # Bot /\ rs[i.dst] \in v_gamma(z[1])
      /\ z[2] # Bot /\ rs[i.src] \in v_gamma(z[2])
  BY <1>1, LawfulAssumption DEF Lawful, doJMP64_correct
<1>3. invert_jmp64_tt(i, a)
        = [[a EXCEPT ![i.dst] = z[1]] EXCEPT ![i.src] = z[2]]
  BY <1>2 DEF invert_jmp64_tt
<1>4. invert_jmp64_tt(i, a) # Bot
  <2>1. z[1] \in AValue /\ z[2] \in AValue
    BY <1>1, <1>2, LawfulAssumption DEF Lawful, FieldTypes
  <2> QED
    BY <1>3, <2>1, BotAssumption DEF ARegs
<1>5. ASSUME NEW r \in Reg
      PROVE  rs[r] \in v_gamma(invert_jmp64_tt(i, a)[r])
  <2>1. CASE r = i.src
    BY <2>1, <1>2, <1>3 DEF ARegs
  <2>2. CASE r # i.src /\ r = i.dst
    BY <2>2, <1>2, <1>3 DEF ARegs
  <2>3. CASE r # i.src /\ r # i.dst
    BY <2>3, <1>3 DEF ARegs, gamma
  <2> QED
    BY <2>1, <2>2, <2>3
<1> QED
  BY <1>4, <1>5 DEF gamma

\* do_call (regs.lean) covers what a helper may return.
LEMMA CallSound ==
  ASSUME NEW a \in ARegs, NEW rs, gamma(a, rs), NEW f, NEW n \in Word
  PROVE  gamma(a_do_call(a), do_call(f, n, rs))
<1>1. a_do_call(a) # Bot
  BY CallTypes, BotAssumption
<1>2. uninitialized \in v_gamma(v_const(uninitialized))
  BY LawfulAssumption DEF Value, Lawful, const_correct
<1>3. scalar(n) \in v_gamma(v_unknown_scalar)
  BY LawfulAssumption DEF Lawful, unknown_scalar_correct
<1> QED
  BY <1>1, <1>2, <1>3 DEF gamma, a_do_call, do_call

\* The registers a state stands for hold values.
LEMMA GammaTypes ==
  ASSUME NEW a \in ARegs, NEW rs, gamma(a, rs), NEW r \in Reg
  PROVE  rs[r] \in Value
  BY LawfulAssumption DEF gamma, ARegs, Lawful, FieldTypes

-----------------------------------------------------------------------------
(* What an accepted solution says of the program (basic.lean, the section  *)
(* of correct_approximation and of safety).                                *)

\* A solution: a map from labels to states.
Solution(s) == DOMAIN s \subseteq Label /\ \A l \in DOMAIN s : s[l] \in State

\* A label with no state in the solution has bottom.
LEMMA InterpretTypes ==
  ASSUME NEW s, Solution(s), NEW l
  PROVE  interpret(s, l) \in State
  BY DEF Solution, interpret, State

\* approximates: what satisfies the source of a constraint and its transfer
\* function satisfies its target.
LEMMA ConstraintSound ==
  ASSUME NEW p, Program(p), NEW s, Solution(s), approximates(p, s),
         NEW c \in gen_constraints(p), NEW rs,
         gamma(compute(p, c, interpret(s, c.source)), rs)
  PROVE  gamma(interpret(s, c.target), rs)
<1>1. /\ interpret(s, c.source) \in State
      /\ interpret(s, c.target) \in State
  BY InterpretTypes
<1>2. compute(p, c, interpret(s, c.source)) \in State
  BY <1>1, ComputeTypes
<1> QED
  BY <1>1, <1>2, LeSound DEF approximates, constraint_holds

\* init_approximation.
LEMMA EntryApproximated ==
  ASSUME NEW p, Program(p), NEW s, Solution(s), approximates(p, s)
  PROVE  gamma(interpret(s, entry), [r \in Reg |-> uninitialized])
<1>1. entry_constraint \in gen_constraints(p)
  BY DEF gen_constraints
<1>2. /\ entry_constraint.target = entry
      /\ compute(p, entry_constraint, interpret(s, entry_constraint.source))
           = const([r \in Reg |-> uninitialized])
  BY DEF entry_constraint, constraint, compute
<1> QED
  BY <1>1, <1>2, ConstSound, ConstraintSound

\* A solution that approximates the program survives an ALU instruction.
LEMMA ALUApproximated ==
  ASSUME NEW p, Program(p), NEW s, Solution(s), approximates(p, s),
         NEW l \in DOMAIN p, p[l].kind \in {"ALU64_X", "ALU64_K"},
         NEW rs \in [Reg -> Value], gamma(interpret(s, l), rs)
  PROVE  LET i == p[l]
             v == doALU64(i.op, rs[i.dst], operand(i, rs))
         IN  gamma(interpret(s, i.next), [rs EXCEPT ![i.dst] = v])
<1> DEFINE i == p[l]
           a == interpret(s, l)
           c == constraint(i.next, l, "do_alu64")
           v == doALU64(i.op, rs[i.dst], operand(i, rs))
<1>1. i \in Instr /\ a \in ARegs /\ a # Bot
  BY InterpretTypes DEF Program, State, gamma
<1>2. c \in gen_constraints(p)
  BY DEF gen_constraints, gen_one_constraint
<1>3. c.source = l /\ c.target = i.next /\ compute(p, c, a) = do_alu64(i, a)
  BY <1>1 DEF constraint, compute, lift
<1>4. gamma(do_alu64(i, a), [rs EXCEPT ![i.dst] = v])
  BY <1>1, ALUSound
<1> HIDE DEF c
<1>5. gamma(interpret(s, i.next), [rs EXCEPT ![i.dst] = v])
  BY <1>2, <1>3, <1>4, ConstraintSound
<1> QED
  BY <1>5

\* Whichever way the jump goes: correct_approximation's JMP cases.
LEMMA JMPApproximated ==
  ASSUME NEW p, Program(p), NEW s, Solution(s), approximates(p, s),
         NEW l \in DOMAIN p, p[l].kind \in {"JMP64_X", "JMP64_K"},
         NEW rs, gamma(interpret(s, l), rs)
  PROVE  LET i == p[l]
         IN  gamma(interpret(s, IF doJMP64(i.op, rs[i.dst], operand(i, rs))
                                  THEN i.if_true ELSE i.if_false), rs)
<1> DEFINE i == p[l]
           a == interpret(s, l)
           t == constraint(i.if_true, l, "id")
           f == constraint(i.if_false, l, "id")
           x == constraint(i.if_true, l, "invert_jmp64_tt")
<1>1. i \in Instr /\ a \in ARegs /\ a # Bot
  BY InterpretTypes DEF Program, State, gamma
<1>2. gamma(interpret(s, i.if_false), rs)
  <2>1. f \in gen_constraints(p)
    BY DEF gen_constraints, gen_one_constraint
  <2>2. f.source = l /\ f.target = i.if_false /\ compute(p, f, a) = a
    BY DEF constraint, compute
  <2> HIDE DEF f
  <2> QED
    BY <2>1, <2>2, ConstraintSound
<1>3. CASE i.kind = "JMP64_K"
  <2>1. t \in gen_constraints(p)
    BY <1>3 DEF gen_constraints, gen_one_constraint
  <2>2. t.source = l /\ t.target = i.if_true /\ compute(p, t, a) = a
    BY DEF constraint, compute
  <2>3. gamma(interpret(s, i.if_true), rs)
    <3> HIDE DEF t
    <3> QED
      BY <2>1, <2>2, ConstraintSound
  <2> QED
    BY <1>2, <2>3
<1>4. CASE /\ i.kind = "JMP64_X"
           /\ doJMP64(i.op, rs[i.dst], operand(i, rs))
  <2>1. x \in gen_constraints(p)
    BY <1>4 DEF gen_constraints, gen_one_constraint
  <2>2. /\ x.source = l /\ x.target = i.if_true
        /\ compute(p, x, a) = invert_jmp64_tt(i, a)
    BY <1>1 DEF constraint, compute, lift
  <2>3. gamma(invert_jmp64_tt(i, a), rs)
    BY <1>1, <1>4, InversionSound DEF operand
  <2>4. gamma(interpret(s, i.if_true), rs)
    <3> HIDE DEF x
    <3> QED
      BY <2>1, <2>2, <2>3, ConstraintSound
  <2> QED
    BY <1>4, <2>4
<1>5. CASE /\ i.kind = "JMP64_X"
           /\ ~doJMP64(i.op, rs[i.dst], operand(i, rs))
  BY <1>2, <1>5
<1> QED
  BY <1>3, <1>4, <1>5

\* A solution that approximates the program survives a helper call.
LEMMA CallApproximated ==
  ASSUME NEW p, Program(p), NEW s, Solution(s), approximates(p, s),
         NEW l \in DOMAIN p, p[l].kind = "CALL",
         NEW rs, gamma(interpret(s, l), rs), NEW n \in Word
  PROVE  gamma(interpret(s, p[l].next), do_call(p[l].func, n, rs))
<1> DEFINE a == interpret(s, l)
           c == constraint(p[l].next, l, "do_call")
<1>1. a \in ARegs /\ a # Bot
  BY InterpretTypes DEF State, gamma
<1>2. c \in gen_constraints(p)
  BY DEF gen_constraints, gen_one_constraint
<1>3. c.source = l /\ c.target = p[l].next /\ compute(p, c, a) = a_do_call(a)
  BY <1>1 DEF constraint, compute, lift
<1> HIDE DEF c
<1> QED
  BY <1>1, <1>2, <1>3, CallSound, ConstraintSound

(***************************************************************************)
(* can_step_of_safety: at a label where the solution stands for the        *)
(* registers, some step applies, and where it leads there is code.         *)
(***************************************************************************)
LEMMA SecureSound ==
  ASSUME NEW p, Program(p), NEW s, Solution(s), secure(p, s),
         NEW l \in DOMAIN p,
         NEW rs \in [Reg -> Value], gamma(interpret(s, l), rs)
  PROVE  CanStep(p, l, rs) /\ Successors(p[l]) \subseteq DOMAIN p
<1> DEFINE i == p[l]
           a == interpret(s, l)
<1>1. i \in Instr /\ a \in ARegs /\ a # Bot
  BY InterpretTypes DEF Program, State, gamma
<1>2. gen_one_safety(p, i, a)
  BY DEF secure
<1>3. ASSUME i.kind \in {"ALU64_X", "ALU64_K"} PROVE CanStep(p, l, rs)
  <2>1. do_alu64_check(i, a)
    BY <1>1, <1>2, <1>3 DEF gen_one_safety, lift_test
  <2>2. doALU64_check(i.op, rs[i.dst], operand(i, rs))
    BY <1>1, <1>3, <2>1, ALUSound
  <2> QED
    BY <1>3, <2>2 DEF CanStep
<1>4. ASSUME i.kind \in {"JMP64_X", "JMP64_K"} PROVE CanStep(p, l, rs)
  <2>1. do_jmp64_check(i, a)
    BY <1>1, <1>2, <1>4 DEF gen_one_safety, lift_test
  <2>2. doJMP64_check(i.op, rs[i.dst], operand(i, rs))
    BY <1>1, <1>4, <2>1, JMPCheckSound
  <2> QED
    BY <1>4, <2>2 DEF CanStep
<1>5. ASSUME i.kind = "CALL" PROVE CanStep(p, l, rs)
  BY <1>5 DEF CanStep, do_call_check
<1>6. ASSUME i.kind = "Exit" PROVE CanStep(p, l, rs)
  <2>1. v_is_scalar(a["R0"])
    BY <1>1, <1>2, <1>6 DEF gen_one_safety, lift_test
  <2>2. is_scalar(rs["R0"])
    BY <1>1, <2>1, RegAssumption, LawfulAssumption
       DEF ARegs, gamma, Lawful, is_scalar_sound
  <2> QED
    BY <1>6, <2>2 DEF CanStep
<1>7. i.kind \notin Unsupported
  BY <1>2 DEF gen_one_safety, Unsupported
<1>8. CanStep(p, l, rs)
  BY <1>1, <1>3, <1>4, <1>5, <1>6, <1>7 DEF Instr
<1> QED
  BY <1>2, <1>8 DEF gen_one_safety

-----------------------------------------------------------------------------
(* The inductive invariant.                                                *)

\* Nothing has been constrained while the program is being decoded, and
\* nothing has been executed before the verdict.
InOrder ==
  /\ phase = "decode" => todo = {} /\ sol = EmptyMap
  /\ phase \in {"decode", "iterate", "refine", "check"} => initial_state

\* A running program was accepted, is inside its code, and its registers are
\* among those that the solution says are possible there.
Verified ==
  phase = "running" => /\ accepts(code, sol)
                       /\ pc \in DOMAIN code
                       /\ gamma(interpret(sol, pc), regs)

IInv == TypeOK /\ InOrder /\ Verified

\* The invariant holds initially.
LEMMA InitIInv == VerifierInit => IInv
<1> SUFFICES ASSUME VerifierInit PROVE IInv
  OBVIOUS
<1> USE DEF VerifierInit
<1>1. prog \in Seq(FlatInstr) /\ cur = 0 /\ DOMAIN code = {} /\ DOMAIN sol = {}
  BY ProgramsAssumption DEF LoaderInit, EmptyMap
<1>2. prog \in Seq(FlatInstr) /\ cur \in 0 .. Len(prog)
  BY <1>1 DEF LoaderInit
<1>3. pc \in Label /\ ret \in Word
  BY PowerTypes DEF initial_state, entry, Label, Word
<1>4. regs \in [Reg -> Value]
  BY DEF initial_state, Value
<1>5. fuel \in 0 .. Fuel
  BY FuelAssumption
<1>6. TypeOK
  BY <1>1, <1>2, <1>3, <1>4, <1>5 DEF TypeOK
<1> QED
  BY <1>6 DEF IInv, InOrder, Verified

\* Decoding keeps the invariant.
LEMMA DecodeIInv == IInv /\ Decode => IInv'
<1> SUFFICES ASSUME IInv, Decode PROVE IInv'
  OBVIOUS
<1>1. /\ phase = "decode" /\ phase' = phase
      /\ UNCHANGED <<prog, pc, regs, ret, sol, todo, fuel>>
      /\ cur' = cur + 1 /\ cur # Len(prog)
      /\ code' = kinsert(code, succ(cur), decode_instr(cur, prog[cur + 1]))
  BY DEF Decode, DecodeInstr, Decoded, runVars, solverVars
<1>2. prog \in Seq(FlatInstr) /\ cur \in 0 .. Len(prog)
  BY ProgramsAssumption DEF IInv, TypeOK
<1>3. cur \in Nat /\ cur + 1 \in 1 .. Len(prog) /\ Len(prog) \in Nat
  BY <1>1, <1>2
<1>4. succ(cur) \in Label /\ decode_instr(cur, prog[cur + 1]) \in Instr
  BY <1>2, <1>3, DecodeTypes DEF succ, Label
<1>5. DOMAIN code' \subseteq Label /\ \A l \in DOMAIN code' : code'[l] \in Instr
  BY <1>1, <1>4, KinsertTypes DEF IInv, TypeOK
<1>6. cur' \in 0 .. Len(prog')
  BY <1>1, <1>3
<1>7. todo' \subseteq gen_constraints(code')
  BY <1>1 DEF IInv, InOrder
<1>8. TypeOK'
  BY <1>1, <1>5, <1>6, <1>7 DEF IInv, TypeOK
<1>9. InOrder' /\ Verified'
  BY <1>1 DEF IInv, InOrder, Verified, initial_state
<1> QED
  BY <1>8, <1>9 DEF IInv

\* So does starting to solve, giving up or ending, and starting a round.
LEMMA RoundIInv == IInv /\ (Solve \/ Return \/ Round) => IInv'
<1> SUFFICES ASSUME IInv, Solve \/ Return \/ Round PROVE IInv'
  OBVIOUS
<1>1. CASE Solve
  BY <1>1 DEF Solve, IInv, TypeOK, InOrder, Verified, initial_state,
              loaderVars, runVars, solverVars
<1>2. CASE Return
  BY <1>2 DEF Return, IInv, TypeOK, InOrder, Verified, initial_state,
              loaderVars, runVars, solverVars
<1>3. CASE Round
  <2>1. fuel' \in 0 .. Fuel
    BY <1>3, FuelAssumption DEF Round, IInv, TypeOK
  <2> QED
    BY <1>3, <2>1 DEF Round, IInv, TypeOK, InOrder, Verified, initial_state,
                      loaderVars, runVars
<1> QED
  BY <1>1, <1>2, <1>3

\* Refining the solution by a constraint keeps the invariant.
LEMMA RefineIInv == IInv /\ (\E c \in todo : Refine(c)) => IInv'
<1> SUFFICES ASSUME IInv, NEW c \in todo, Refine(c) PROVE IInv'
  OBVIOUS
<1>1. /\ phase = "refine" /\ phase' \in {"iterate", "refine"}
      /\ sol' = refine(sol, c) /\ todo' = todo \ {c}
      /\ UNCHANGED <<prog, cur, code, pc, regs, ret, fuel>>
  BY DEF Refine, loaderVars, runVars
<1>2. Program(code) /\ Solution(sol) /\ c \in gen_constraints(code)
  BY DEF IInv, TypeOK, Program, Solution
<1>3. compute(code, c, interpret(sol, c.source)) \in State
  BY <1>2, InterpretTypes, ComputeTypes
<1>4. c.target \in Label
  BY <1>2, ConstraintTypes DEF Constraint
<1>5. Solution(sol')
  BY <1>1, <1>2, <1>3, <1>4, RefineTypes DEF refine, Solution
<1>6. TypeOK'
  BY <1>1, <1>5 DEF IInv, TypeOK, Solution
<1>7. InOrder' /\ Verified'
  BY <1>1 DEF IInv, InOrder, Verified, initial_state
<1> QED
  BY <1>6, <1>7 DEF IInv

\* A verdict keeps it: acceptance is where the solution is checked.
LEMMA VerdictIInv == IInv /\ (Accept \/ Reject) => IInv'
<1> SUFFICES ASSUME IInv, Accept \/ Reject PROVE IInv'
  OBVIOUS
<1>1. /\ phase = "check" /\ phase' \in {"running", "rejected"}
      /\ phase' = "running" => accepts(code, sol)
      /\ UNCHANGED <<prog, cur, code, pc, regs, ret, sol, todo, fuel>>
  BY DEF Accept, Reject, loaderVars, runVars, solverVars
<1>2. Program(code) /\ Solution(sol) /\ initial_state
  BY <1>1 DEF IInv, TypeOK, InOrder, Program, Solution
<1>3. ASSUME phase' = "running"
      PROVE  pc \in DOMAIN code /\ gamma(interpret(sol, pc), regs)
  <2>1. pc = entry /\ regs = [r \in Reg |-> uninitialized]
    BY <1>2 DEF initial_state
  <2>2. approximates(code, sol) /\ secure(code, sol)
    BY <1>1, <1>3 DEF accepts
  <2> QED
    BY <1>2, <2>1, <2>2, EntryApproximated DEF secure
<1>4. TypeOK'
  BY <1>1 DEF IInv, TypeOK
<1>5. InOrder'
  BY <1>1 DEF InOrder
<1>6. Verified'
  BY <1>1, <1>3 DEF Verified
<1> QED
  BY <1>4, <1>5, <1>6 DEF IInv

(***************************************************************************)
(* A step that keeps the program running keeps the invariant if it leads   *)
(* to a label that holds code and to registers the solution expects there: *)
(* their types are those of the abstract values.                           *)
(***************************************************************************)
LEMMA RunningIInv ==
  ASSUME IInv, phase = "running", phase' = "running",
         UNCHANGED <<loaderVars, solverVars, ret>>,
         pc' \in DOMAIN code, regs' = [r \in Reg |-> regs'[r]],
         gamma(interpret(sol, pc'), regs')
  PROVE  IInv'
<1>1. UNCHANGED <<prog, cur, code, sol, todo, fuel, ret>>
  BY DEF loaderVars, solverVars
<1>2. interpret(sol, pc') \in ARegs
  BY InterpretTypes DEF IInv, TypeOK, Solution, State, gamma
<1>3. \A r \in Reg : regs'[r] \in Value
  BY <1>2, GammaTypes
<1>4. regs' \in [Reg -> Value]
  BY <1>3
<1>5. TypeOK'
  BY <1>1, <1>4 DEF IInv, TypeOK
<1>6. InOrder' /\ Verified'
  BY <1>1 DEF IInv, InOrder, Verified
<1> QED
  BY <1>5, <1>6 DEF IInv

\* What the invariant says of a running program.
LEMMA RunningFacts ==
  ASSUME IInv, phase = "running"
  PROVE  /\ Program(code) /\ Solution(sol)
         /\ approximates(code, sol) /\ secure(code, sol)
         /\ pc \in DOMAIN code /\ code[pc] \in Instr
         /\ regs \in [Reg -> Value] /\ gamma(interpret(sol, pc), regs)
         /\ CanStep(code, pc, regs) /\ Successors(code[pc]) \subseteq DOMAIN code
<1>1. /\ Program(code) /\ Solution(sol)
      /\ approximates(code, sol) /\ secure(code, sol)
      /\ pc \in DOMAIN code /\ code[pc] \in Instr
      /\ regs \in [Reg -> Value] /\ gamma(interpret(sol, pc), regs)
  BY DEF IInv, TypeOK, Verified, accepts, Program, Solution
<1> QED
  BY <1>1, SecureSound

\* An ALU instruction of the accepted program keeps the invariant.
LEMMA ALUIInv == IInv /\ ProgramStep /\ (ALU64_X \/ ALU64_K) => IInv'
<1> SUFFICES ASSUME IInv, ProgramStep, ALU64_X \/ ALU64_K PROVE IInv'
  OBVIOUS
<1> DEFINE i == code[pc]
           v == doALU64(i.op, regs[i.dst], operand(i, regs))
<1>1. /\ phase = "running" /\ phase' = phase /\ ret' = ret
      /\ i.kind \in {"ALU64_X", "ALU64_K"}
      /\ regs' = [regs EXCEPT ![i.dst] = v] /\ pc' = i.next
  BY DEF ALU64_X, ALU64_K, ALU64, Fetched
<1>2. UNCHANGED <<loaderVars, solverVars>>
  BY DEF ProgramStep
<1>3. gamma(interpret(sol, pc'), regs')
  BY <1>1, RunningFacts, ALUApproximated
<1>4. pc' \in DOMAIN code
  BY <1>1, RunningFacts, SuccessorTypes
<1>5. regs' = [r \in Reg |-> regs'[r]]
  BY <1>1, RunningFacts
<1> QED
  BY <1>1, <1>2, <1>3, <1>4, <1>5, RunningIInv

\* A jump of the accepted program keeps the invariant.
LEMMA JMPIInv == IInv /\ ProgramStep /\ (JMP64_X \/ JMP64_K) => IInv'
<1> SUFFICES ASSUME IInv, ProgramStep, JMP64_X \/ JMP64_K PROVE IInv'
  OBVIOUS
<1> DEFINE i == code[pc]
<1>1. /\ phase = "running" /\ phase' = phase /\ ret' = ret /\ regs' = regs
      /\ i.kind \in {"JMP64_X", "JMP64_K"}
      /\ pc' = IF doJMP64(i.op, regs[i.dst], operand(i, regs))
                 THEN i.if_true ELSE i.if_false
  BY DEF JMP64_X, JMP64_K, JMP64, Fetched
<1>2. UNCHANGED <<loaderVars, solverVars>>
  BY DEF ProgramStep
<1>3. gamma(interpret(sol, pc'), regs')
  BY <1>1, RunningFacts, JMPApproximated
<1>4. pc' \in DOMAIN code
  BY <1>1, RunningFacts, SuccessorTypes
<1>5. regs' = [r \in Reg |-> regs'[r]]
  BY <1>1, RunningFacts
<1> QED
  BY <1>1, <1>2, <1>3, <1>4, <1>5, RunningIInv

\* A helper call of the accepted program keeps the invariant.
LEMMA CallIInv == IInv /\ ProgramStep /\ CALL => IInv'
<1> SUFFICES ASSUME IInv, ProgramStep, CALL PROVE IInv'
  OBVIOUS
<1> DEFINE i == code[pc]
<1>1. PICK n \in Word : regs' = do_call(i.func, n, regs)
  BY DEF CALL
<1>2. /\ phase = "running" /\ phase' = phase /\ ret' = ret
      /\ i.kind = "CALL" /\ pc' = i.next
  BY DEF CALL, Fetched
<1>3. UNCHANGED <<loaderVars, solverVars>>
  BY DEF ProgramStep
<1>4. gamma(interpret(sol, pc'), regs')
  BY <1>1, <1>2, RunningFacts, CallApproximated
<1>5. pc' \in DOMAIN code
  BY <1>2, RunningFacts, SuccessorTypes
<1>6. regs' = [r \in Reg |-> regs'[r]]
  BY <1>1 DEF do_call
<1> QED
  BY <1>2, <1>3, <1>4, <1>5, <1>6, RunningIInv

\* The exit of the accepted program keeps the invariant.
LEMMA ExitIInv == IInv /\ ProgramStep /\ Exit => IInv'
<1> SUFFICES ASSUME IInv, ProgramStep, Exit PROVE IInv'
  OBVIOUS
<1>1. /\ phase = "running" /\ phase' = "exited" /\ ret' = regs["R0"].n
      /\ UNCHANGED <<prog, cur, code, sol, todo, fuel, pc, regs>>
      /\ is_scalar(regs["R0"])
  BY DEF ProgramStep, Exit, Fetched, loaderVars, solverVars
<1>2. regs["R0"] \in Value
  BY RegAssumption DEF IInv, TypeOK
<1>3. ret' \in Word
  BY <1>1, <1>2 DEF Value, is_scalar, scalar, pointer, uninitialized
<1>4. TypeOK'
  BY <1>1, <1>3 DEF IInv, TypeOK
<1>5. InOrder' /\ Verified'
  BY <1>1 DEF IInv, InOrder, Verified
<1> QED
  BY <1>4, <1>5 DEF IInv

\* Every step keeps the invariant.
LEMMA NextIInv == IInv /\ [Next]_vars => IInv'
<1> SUFFICES ASSUME IInv, [Next]_vars PROVE IInv'
  OBVIOUS
<1>1. CASE VerifierStep
  BY <1>1, DecodeIInv, RoundIInv, RefineIInv, VerdictIInv DEF VerifierStep
<1>2. CASE ProgramStep
  BY <1>2, ALUIInv, JMPIInv, CallIInv, ExitIInv DEF ProgramStep, step
<1>3. CASE Done \/ UNCHANGED vars
  BY <1>3 DEF Done, vars, loaderVars, runVars, solverVars, IInv, TypeOK,
              InOrder, Verified, initial_state
<1> QED
  BY <1>1, <1>2, <1>3 DEF Next

-----------------------------------------------------------------------------
(* Theorems.                                                               *)

\* The invariant holds: the solver and the interpreter, in every order of the
\* constraints, keep it.
THEOREM Invariant == Spec => []IInv
  BY InitIInv, NextIInv, PTL DEF Spec

\* The variables of loader, solver and interpreter keep their types.
THEOREM TypeCorrect == Spec => []TypeOK
<1>1. IInv => TypeOK
  BY DEF IInv
<1> QED
  BY <1>1, Invariant, PTL

(***************************************************************************)
(* correct_approximation (basic.lean): the solution that was checked       *)
(* stands for the registers at every step of the program's run.            *)
(***************************************************************************)
THEOREM Approximation == Spec => []RegsApproximated
<1>1. IInv => RegsApproximated
  BY DEF IInv, Verified, RegsApproximated
<1> QED
  BY <1>1, Invariant, PTL

(***************************************************************************)
(* safe_program_of_correct_approximation (basic.lean): a program that the  *)
(* verifier accepts never gets stuck, whatever the fuel and whatever the   *)
(* solver made of it.                                                      *)
(***************************************************************************)
THEOREM Safety == Spec => []NeverStuck
<1>1. IInv => NeverStuck
  BY RunningFacts DEF NeverStuck
<1> QED
  BY <1>1, Invariant, PTL

\* Neither end of the step is stuck: the abstract status is the phase's.
LEMMA StepImplements ==
  ASSUME NeverStuck, NeverStuck', TypeOK, TypeOK', [Next]_vars
  PROVE  [Abstract!Next]_(Abstract!vars)
<1>1. /\ phase \in {"decode", "iterate", "refine", "check"}
           => abstract_status = "pending"
      /\ phase \in {"running", "rejected", "exited"}
           => abstract_status = phase
  BY DEF NeverStuck, abstract_status
<1>2. /\ phase' \in {"decode", "iterate", "refine", "check"}
           => abstract_status' = "pending"
      /\ phase' \in {"running", "rejected", "exited"}
           => abstract_status' = phase'
  BY DEF NeverStuck, abstract_status
<1> USE DEF Abstract!Next, Abstract!vars
<1>3. CASE Decode \/ Solve \/ Return \/ Round \/ \E c \in todo : Refine(c)
  <2>1. /\ phase \in {"decode", "iterate", "refine", "check"}
        /\ phase' \in {"decode", "iterate", "refine", "check"}
        /\ ret' = ret
    BY <1>3 DEF Decode, Solve, Return, Round, Refine, runVars
  <2> QED
    BY <1>1, <1>2, <2>1
<1>4. CASE Accept
  <2>1. phase = "check" /\ phase' = "running" /\ ret' = ret
    BY <1>4 DEF Accept, runVars
  <2> QED
    BY <1>1, <1>2, <2>1 DEF Abstract!Accept
<1>5. CASE Reject
  <2>1. phase = "check" /\ phase' = "rejected" /\ ret' = ret
    BY <1>5 DEF Reject, runVars
  <2> QED
    BY <1>1, <1>2, <2>1 DEF Abstract!Reject
<1>6. CASE ALU64_X \/ ALU64_K \/ JMP64_X \/ JMP64_K \/ CALL
  <2>1. phase = "running" /\ phase' = "running" /\ ret' = ret
    BY <1>6 DEF ALU64_X, ALU64_K, ALU64, JMP64_X, JMP64_K, JMP64, CALL, Fetched
  <2> QED
    BY <1>1, <1>2, <2>1
<1>7. CASE Exit
  <2>1. phase = "running" /\ phase' = "exited" /\ ret' \in Word
    BY <1>7 DEF Exit, Fetched, TypeOK
  <2> QED
    BY <1>1, <1>2, <2>1 DEF Abstract!Return
<1>8. CASE Done \/ UNCHANGED vars
  <2>1. UNCHANGED <<phase, ret, code, pc, regs>>
    BY <1>8 DEF Done, vars, loaderVars, runVars
  <2> QED
    BY <2>1 DEF abstract_status
<1> QED
  BY <1>3, <1>4, <1>5, <1>6, <1>7, <1>8
     DEF Next, VerifierStep, ProgramStep, step

(***************************************************************************)
(* The verifier and the program it lets run implement SafeProgram, but for *)
(* fairness: a verdict is given once, and the states that are mapped to    *)
(* "stuck" are never reached.                                              *)
(***************************************************************************)
THEOREM Implementation == Spec => Abstract!Spec
<1>1. VerifierInit => Abstract!Init
  BY PowerTypes
     DEF VerifierInit, initial_state, abstract_status, Abstract!Init, Word
<1>2. /\ NeverStuck /\ NeverStuck' /\ TypeOK /\ TypeOK' /\ [Next]_vars
        => [Abstract!Next]_(Abstract!vars)
  BY StepImplements
<1> QED
  BY <1>1, <1>2, TypeCorrect, Safety, PTL DEF Spec, Abstract!Spec

-----------------------------------------------------------------------------
(* The solver says nothing of code that cannot run.                        *)

\* Every label the solution has a state for can be reached.
SolReachable ==
  phase # "decode" => \A l \in DOMAIN sol : sol[l] # Bot => ReachableLabel(l)

\* Labels are reachable along the edges of the graph.
LEMMA ReachableClosed ==
  ASSUME NEW k \in DOMAIN code, ReachableLabel(k), NEW l \in Successors(code[k])
  PROVE  ReachableLabel(l)
  BY DEF ReachableLabel

\* A constraint that computes a state leads from a reachable label, or to the
\* entry, to its target.
LEMMA TargetReachable ==
  ASSUME Program(code), SolReachable, phase # "decode",
         NEW c \in gen_constraints(code),
         compute(code, c, interpret(sol, c.source)) # Bot
  PROVE  ReachableLabel(c.target)
<1>1. CASE c = entry_constraint
  BY <1>1 DEF entry_constraint, constraint, ReachableLabel
<1>2. CASE /\ c.source \in DOMAIN code
           /\ c \in gen_one_constraint(c.source, code[c.source])
  <2>1. code[c.source] \in Instr
    BY <1>2 DEF Program
  <2>2. c.target \in Successors(code[c.source]) /\ c.compute # "const"
    BY <1>2, <2>1, SuccessorTypes DEF gen_one_constraint, constraint
  <2>3. c.compute \in {"id", "do_alu64", "do_call", "invert_jmp64_tt"}
    BY <2>2, ConstraintTypes DEF Constraint
  <2>4. interpret(sol, c.source) # Bot
    BY <2>3 DEF compute, lift
  <2>5. ReachableLabel(c.source)
    BY <2>4 DEF interpret, SolReachable
  <2> QED
    BY <1>2, <2>2, <2>5, ReachableClosed
<1> QED
  BY <1>1, <1>2, ConstraintOrigin

\* No step gives a state to a label that cannot be reached.
LEMMA SolReachableStep ==
  IInv /\ SolReachable /\ [Next]_vars => SolReachable'
<1> SUFFICES ASSUME IInv, SolReachable, [Next]_vars PROVE SolReachable'
  OBVIOUS
<1>1. CASE \E c \in todo : Refine(c)
  <2>1. PICK c \in todo : Refine(c)
    BY <1>1
  <2>2. /\ phase = "refine" /\ code' = code /\ sol' = refine(sol, c)
    BY <2>1 DEF Refine, loaderVars
  <2>3. Program(code) /\ c \in gen_constraints(code)
    BY DEF IInv, TypeOK, Program
  <2> DEFINE v == compute(code, c, interpret(sol, c.source))
  <2>4. ASSUME NEW l \in DOMAIN sol', sol'[l] # Bot
        PROVE  ReachableLabel(l)
    <3>1. CASE l # c.target
      BY <2>2, <2>4, <3>1 DEF refine, insert_with, SolReachable
    <3>2. CASE l = c.target /\ v # Bot
      BY <2>2, <2>3, <3>2, TargetReachable
    <3>3. CASE l = c.target /\ v = Bot
      <4>1. l \in DOMAIN sol /\ sol[l] # Bot
        BY <2>2, <2>4, <3>3 DEF refine, insert_with, state_join
      <4> QED
        BY <2>2, <4>1 DEF SolReachable
    <3> QED
      BY <3>1, <3>2, <3>3
  <2> QED
    BY <2>2, <2>4 DEF SolReachable, ReachableLabel
<1>2. CASE Solve
  <2>1. sol = EmptyMap /\ sol' = sol
    BY <1>2 DEF Solve, solverVars, IInv, InOrder
  <2> QED
    BY <2>1 DEF EmptyMap, SolReachable
<1>3. CASE Decode
  BY <1>3 DEF Decode, SolReachable
<1>4. CASE \/ Return \/ Round \/ Accept \/ Reject
           \/ ProgramStep \/ Done \/ UNCHANGED vars
  <2>1. /\ UNCHANGED <<code, sol>>
        /\ phase = "decode" => phase' = "decode"
    BY <1>4 DEF Return, Round, Accept, Reject, ProgramStep, step, ALU64_X,
       ALU64_K, ALU64, JMP64_X, JMP64_K, JMP64, CALL, Exit, Fetched, Done,
       vars, loaderVars, solverVars
  <2> QED
    BY <2>1 DEF SolReachable, ReachableLabel
<1> QED
  BY <1>1, <1>2, <1>3, <1>4 DEF Next, VerifierStep

(***************************************************************************)
(* initial_state, refine_all (basic.lean): the states of the solution come *)
(* from the entry along the edges of the graph, in whatever order the      *)
(* constraints are refined.                                                *)
(***************************************************************************)
THEOREM Reachability == Spec => []OnlyReachable
<1>1. VerifierInit => SolReachable
  BY DEF VerifierInit, SolReachable
<1>2. SolReachable => OnlyReachable
  BY DEF SolReachable, OnlyReachable
<1> QED
  BY <1>1, <1>2, SolReachableStep, Invariant, PTL DEF Spec

-----------------------------------------------------------------------------
(* The rounds of the solver.                                               *)

\* A join is above its second operand, bottom included.
LEMMA JoinAbove ==
  ASSUME JoinAscends, NEW s \in State, NEW t \in State
  PROVE  state_le(t, t) /\ state_le(t, state_join(s, t))
<1>1. CASE t = Bot
  BY <1>1 DEF state_le
<1>2. CASE t # Bot /\ s = Bot
  BY <1>2 DEF JoinAscends, State, ARegs, state_le, state_join
<1>3. CASE t # Bot /\ s # Bot
  <2> DEFINE j == [r \in Reg |-> v_join(s[r], t[r])]
  <2>1. s \in ARegs /\ t \in ARegs
    BY <1>3 DEF State
  <2>2. state_join(s, t) = j
    BY <1>3 DEF state_join
  <2>3. j \in ARegs
    BY <2>1, LawfulAssumption DEF ARegs, Lawful, FieldTypes
  <2>4. j # Bot
    BY <2>3, BotAssumption
  <2>5. \A r \in Reg : v_le(t[r], t[r]) /\ v_le(t[r], j[r])
    BY <2>1 DEF JoinAscends, ARegs
  <2> QED
    BY <1>3, <2>2, <2>4, <2>5 DEF state_le
<1> QED
  BY <1>1, <1>2, <1>3

\* A join stands for what its second operand stands for.
LEMMA JoinCoversSecond ==
  ASSUME NEW s \in State, NEW t \in State, NEW rs, gamma(t, rs)
  PROVE  gamma(state_join(s, t), rs)
<1>1. t # Bot /\ t \in ARegs /\ \A r \in Reg : rs[r] \in v_gamma(t[r])
  BY DEF gamma, State
<1>2. CASE s = Bot
  BY <1>2 DEF state_join
<1>3. CASE s # Bot
  <2> DEFINE j == [r \in Reg |-> v_join(s[r], t[r])]
  <2>1. s \in ARegs
    BY <1>3 DEF State
  <2>2. state_join(s, t) = j
    BY <1>1, <1>3 DEF state_join
  <2>3. j \in ARegs
    BY <1>1, <2>1, LawfulAssumption DEF ARegs, Lawful, FieldTypes
  <2>4. j # Bot
    BY <2>3, BotAssumption
  <2>5. \A r \in Reg : rs[r] \in v_gamma(j[r])
    BY <1>1, <2>1, LawfulAssumption DEF ARegs, Lawful, join_correct
  <2> QED
    BY <2>2, <2>4, <2>5 DEF gamma
<1> QED
  BY <1>2, <1>3

\* A step leaves the state of a label as it is or joins another state to it.
LEMMA SolSteps ==
  ASSUME IInv, [Next]_vars, NEW l \in DOMAIN sol
  PROVE  /\ l \in DOMAIN sol' /\ sol[l] \in State
         /\ sol'[l] = sol[l] \/ \E s \in State : sol'[l] = state_join(s, sol[l])
<1>1. sol[l] \in State
  BY DEF IInv, TypeOK
<1>2. ASSUME NEW c \in todo, Refine(c)
      PROVE  /\ l \in DOMAIN sol'
             /\ sol'[l] = sol[l] \/ \E s \in State : sol'[l] = state_join(s, sol[l])
  <2> DEFINE s == compute(code, c, interpret(sol, c.source))
  <2>1. Program(code) /\ Solution(sol) /\ c \in gen_constraints(code)
    BY DEF IInv, TypeOK, Program, Solution
  <2>2. s \in State
    BY <2>1, InterpretTypes, ComputeTypes
  <2>3. sol' = insert_with(c.target, s, sol)
    BY <1>2 DEF Refine, refine
  <2> HIDE DEF s
  <2> QED
    BY <2>2, <2>3 DEF insert_with
<1>3. CASE UNCHANGED sol
  BY <1>1, <1>3
<1>4. (\E c \in todo : Refine(c)) \/ UNCHANGED sol
  BY DEF Next, VerifierStep, ProgramStep, Done, Decode, Solve, Return, Round,
         Accept, Reject, vars, solverVars
<1> QED
  BY <1>1, <1>2, <1>3, <1>4

(***************************************************************************)
(* refine (basic.lean), for every program and every order of constraints:  *)
(* if joins are above their operands in the order of values, a round never *)
(* drops a label and never lowers its state.  Module RegisterWalkProofs    *)
(* shows this of the values of the repository (ValueAscends).              *)
(***************************************************************************)
THEOREM Ascent ==
  ASSUME JoinAscends
  PROVE  Spec => SolverAscends
<1>1. IInv /\ [Next]_vars =>
        [\A l \in DOMAIN sol : l \in DOMAIN sol' /\ state_le(sol[l], sol'[l])]_sol
  BY SolSteps, JoinAbove
<1> QED
  BY <1>1, Invariant, PTL DEF Spec, SolverAscends

(***************************************************************************)
(* With the laws of the class alone: whatever registers a state of the     *)
(* solution stands for, it goes on to stand for in every later round.      *)
(***************************************************************************)
THEOREM Growth ==
  Spec => [][\A l \in DOMAIN sol :
               /\ l \in DOMAIN sol'
               /\ \A rs : gamma(sol[l], rs) => gamma(sol'[l], rs)]_sol
<1>1. IInv /\ [Next]_vars =>
        [\A l \in DOMAIN sol :
           /\ l \in DOMAIN sol'
           /\ \A rs : gamma(sol[l], rs) => gamma(sol'[l], rs)]_sol
  BY SolSteps, JoinCoversSecond
<1> QED
  BY <1>1, Invariant, PTL DEF Spec

-----------------------------------------------------------------------------
(***************************************************************************)
(* How many rounds the solver needs.  Every round but the last raises the  *)
(* state of some label; ranks of values bound how often that can happen.   *)
(***************************************************************************)

\* The labels that constraints constrain: the entry, and for every
\* instruction its successor, or its two.
Slot(k) ==
  IF k = 0 THEN entry
  ELSE IF k > cur THEN code[k - cur].if_false
  ELSE IF code[k].kind \in {"JMP64_X", "JMP64_K"} THEN code[k].if_true
  ELSE code[k].next

\* What a solution can have gained: a rank of a register at a label.
Gains(H) == (0 .. 2 * cur) \X (Reg \X (0 .. H))

\* What the solution s has gained.
Gained(rank, H, s) ==
  {z \in Gains(H) : /\ interpret(s, Slot(z[1])) # Bot
                    /\ z[2][2] <= rank[interpret(s, Slot(z[1]))[z[2][1]]]}

\* The gains are those of a map of 2 * n + 1 labels.
Rounds(n, H) == (2 * n + 1) * (Cardinality(Reg) * (H + 1))

\* The decoded part of the program, as the loader leaves it.
Loaded ==
  /\ prog \in Programs /\ cur \in 0 .. Len(prog) /\ DOMAIN code = 1 .. cur
  /\ phase # "decode" => cur = Len(prog)

\* Decoding inserts the labels in order; no other action touches the code.
LEMMA LoadedStep == IInv /\ Loaded /\ [Next]_vars => Loaded'
<1> SUFFICES ASSUME IInv, Loaded, [Next]_vars PROVE Loaded'
  OBVIOUS
<1>1. CASE Decode
  <2>1. /\ phase = "decode" /\ phase' = phase /\ prog' = prog
        /\ cur' = cur + 1 /\ cur # Len(prog)
        /\ code' = kinsert(code, cur + 1, decode_instr(cur, prog[cur + 1]))
    BY <1>1 DEF Decode, DecodeInstr, Decoded, succ
  <2>2. cur \in 0 .. Len(prog) /\ Len(prog) \in Nat /\ cur \in Nat
    BY ProgramsAssumption DEF Loaded
  <2>3. cur + 1 \in 0 .. Len(prog) /\ 1 .. cur + 1 = (1 .. cur) \cup {cur + 1}
        /\ cur + 1 \notin 1 .. cur
    BY <2>1, <2>2
  <2>4. DOMAIN code' = 1 .. cur'
    BY <2>1, <2>3 DEF kinsert, Loaded
  <2> QED
    BY <2>1, <2>3, <2>4 DEF Loaded
<1>2. CASE Solve
  BY <1>2 DEF Solve, Decoded, loaderVars, Loaded
<1>3. CASE \/ Return \/ Round \/ (\E c \in todo : Refine(c)) \/ Accept \/ Reject
           \/ ProgramStep \/ Done \/ UNCHANGED vars
  <2>1. /\ UNCHANGED <<prog, cur, code>>
        /\ phase = "decode" => phase' = "decode"
    BY <1>3 DEF Return, Round, Refine, Accept, Reject, ProgramStep, step, ALU64_X,
       ALU64_K, ALU64, JMP64_X, JMP64_K, JMP64, CALL, Exit, Fetched, Done,
       vars, loaderVars, solverVars
  <2> QED
    BY <2>1 DEF Loaded
<1> QED
  BY <1>1, <1>2, <1>3 DEF Next, VerifierStep

\* Every constraint constrains one of the labels.
LEMMA TargetSlot ==
  ASSUME IInv, Loaded, NEW c \in gen_constraints(code)
  PROVE  \E k \in 0 .. 2 * cur : c.target = Slot(k)
<1>1. cur \in Nat /\ DOMAIN code = 1 .. cur /\ Program(code)
  BY ProgramsAssumption DEF Loaded, IInv, TypeOK, Program
<1>2. CASE c = entry_constraint
  <2>1. 0 \in 0 .. 2 * cur /\ c.target = entry
    BY <1>1, <1>2 DEF entry_constraint, constraint
  <2> QED
    BY <2>1 DEF Slot
<1>3. CASE /\ c.source \in DOMAIN code
           /\ c \in gen_one_constraint(c.source, code[c.source])
  <2> DEFINE l == c.source
             i == code[l]
  <2>1. /\ l \in 0 .. 2 * cur /\ l # 0 /\ ~(l > cur)
        /\ l + cur \in 0 .. 2 * cur /\ l + cur # 0 /\ l + cur > cur
        /\ (l + cur) - cur = l
    BY <1>1, <1>3
  <2>2. CASE i.kind \in {"ALU64_X", "ALU64_K", "CALL"}
    <3>1. c.target = i.next
      BY <1>3, <2>2 DEF gen_one_constraint, constraint
    <3>2. Slot(l) = i.next
      BY <2>1, <2>2 DEF Slot
    <3> QED
      BY <2>1, <3>1, <3>2
  <2>3. CASE i.kind \in {"JMP64_X", "JMP64_K"}
    <3>1. c.target = i.if_true \/ c.target = i.if_false
      BY <1>3, <2>3 DEF gen_one_constraint, constraint
    <3>2. Slot(l) = i.if_true /\ Slot(l + cur) = i.if_false
      BY <2>1, <2>3 DEF Slot
    <3> QED
      BY <2>1, <3>1, <3>2
  <2>4. CASE i.kind \notin {"ALU64_X", "ALU64_K", "CALL", "JMP64_X", "JMP64_K"}
    BY <1>3, <2>4 DEF gen_one_constraint
  <2> QED
    BY <2>2, <2>3, <2>4
<1> QED
  BY <1>1, <1>2, <1>3, ConstraintOrigin

\* Refining leaves the state of every label as it is or raises it; it leaves
\* all as they are only if the constraint holds.
LEMMA RefineRaises ==
  ASSUME IInv, Loaded, NEW H \in Nat, NEW rank, Ranked(rank, H),
         NEW c \in gen_constraints(code)
  PROVE  LET new == refine(sol, c)
         IN  /\ Gained(rank, H, sol) \subseteq Gained(rank, H, new)
             /\ \/ \E z \in Gains(H) :
                     z \in Gained(rank, H, new) /\ z \notin Gained(rank, H, sol)
                \/ /\ \A l : interpret(new, l) = interpret(sol, l)
                   /\ constraint_holds(code, c, sol)
<1> DEFINE new == refine(sol, c)
           k == c.target
           old == interpret(sol, k)
           v == compute(code, c, interpret(sol, c.source))
           j == state_join(v, old)
<1>1. Program(code) /\ Solution(sol)
  BY DEF IInv, TypeOK, Program, Solution
<1>2. old \in State /\ v \in State
  BY <1>1, InterpretTypes, ComputeTypes
<1>3. \A l : interpret(new, l) = IF l = k THEN j ELSE interpret(sol, l)
  <2> SUFFICES ASSUME NEW l
               PROVE  interpret(new, l) = IF l = k THEN j ELSE interpret(sol, l)
    OBVIOUS
  <2>1. CASE l # k
    BY <2>1 DEF refine, insert_with, interpret
  <2>2. CASE l = k /\ k \in DOMAIN sol
    BY <2>2 DEF refine, insert_with, interpret
  <2>3. CASE l = k /\ k \notin DOMAIN sol
    <3>1. old = Bot
      BY <2>3 DEF interpret
    <3>2. j = v
      BY <3>1 DEF state_join
    <3>3. interpret(new, l) = v
      BY <2>3 DEF refine, insert_with, interpret
    <3> QED
      BY <2>3, <3>2, <3>3
  <2> QED
    BY <2>1, <2>2, <2>3
<1> HIDE DEF new
<1>4. old # Bot => /\ j # Bot
                   /\ \A r \in Reg : /\ old[r] \in AValue /\ j[r] \in AValue
                                     /\ v_le(old[r], j[r])
  <2> SUFFICES ASSUME old # Bot
               PROVE  /\ j # Bot
                      /\ \A r \in Reg : /\ old[r] \in AValue /\ j[r] \in AValue
                                        /\ v_le(old[r], j[r])
    OBVIOUS
  <2>1. old \in ARegs /\ j \in State
    BY <1>2, JoinTypes DEF State
  <2>2. state_le(old, old) /\ state_le(old, j)
    BY <1>2, JoinAbove DEF Ranked
  <2>3. j # Bot /\ \A r \in Reg : v_le(old[r], j[r])
    BY <2>2 DEF state_le
  <2> HIDE DEF j, old
  <2>4. j \in ARegs
    BY <2>1, <2>3 DEF State
  <2> QED
    BY <2>1, <2>3, <2>4 DEF ARegs
<1>5. \A r \in Reg : old # Bot =>
         /\ rank[old[r]] \in 0 .. H /\ rank[j[r]] \in 0 .. H
         /\ rank[old[r]] <= rank[j[r]]
         /\ old[r] # j[r] => rank[old[r]] < rank[j[r]]
  <2> SUFFICES ASSUME NEW r \in Reg, old # Bot
               PROVE  /\ rank[old[r]] \in 0 .. H /\ rank[j[r]] \in 0 .. H
                      /\ rank[old[r]] <= rank[j[r]]
                      /\ old[r] # j[r] => rank[old[r]] < rank[j[r]]
    OBVIOUS
  <2>1. old[r] \in AValue /\ j[r] \in AValue /\ v_le(old[r], j[r])
    BY <1>4
  <2> HIDE DEF j, old
  <2>2. rank[old[r]] \in 0 .. H /\ rank[j[r]] \in 0 .. H
    BY <2>1 DEF Ranked
  <2>3. old[r] # j[r] => rank[old[r]] < rank[j[r]]
    BY <2>1 DEF Ranked
  <2> QED
    BY <2>2, <2>3
<1>6. Gained(rank, H, sol) \subseteq Gained(rank, H, new)
  <2> SUFFICES ASSUME NEW z \in Gained(rank, H, sol) PROVE z \in Gained(rank, H, new)
    OBVIOUS
  <2> DEFINE l == Slot(z[1])
             r == z[2][1]
  <2>1. /\ z \in Gains(H) /\ interpret(sol, l) # Bot
        /\ z[2][2] <= rank[interpret(sol, l)[r]]
    BY DEF Gained
  <2>2. r \in Reg /\ z[2][2] \in 0 .. H
    BY <2>1 DEF Gains
  <2>3. CASE l # k
    BY <1>3, <2>1, <2>3 DEF Gained
  <2>4. CASE l = k
    <3>1. old # Bot /\ z[2][2] <= rank[old[r]]
      BY <2>1, <2>4
    <3>2. interpret(new, l) = j /\ j # Bot
      BY <1>3, <1>4, <2>4, <3>1
    <3>3. z[2][2] <= rank[j[r]]
      <4> HIDE DEF j, old, l, r
      <4> QED
        BY <1>5, <2>2, <3>1
    <3> QED
      BY <2>1, <3>2, <3>3 DEF Gained
  <2> QED
    BY <2>3, <2>4
<1>7. PICK q \in 0 .. 2 * cur : Slot(q) = k
  BY TargetSlot
<1>8. CASE j # old
  <2> SUFFICES \E z \in Gains(H) :
                 z \in Gained(rank, H, new) /\ z \notin Gained(rank, H, sol)
    BY <1>6 DEF new
  <2>1. CASE old = Bot
    <3> DEFINE z == <<q, <<"R0", 0>>>>
    <3>1. /\ z[1] = q /\ z[2][1] = "R0" /\ z[2][2] = 0
      OBVIOUS
    <3>2. z \in Gains(H)
      BY <1>7, RegAssumption DEF Gains
    <3>3. j \in ARegs /\ j # Bot
      BY <1>2, <1>8, <2>1, JoinTypes DEF State
    <3> HIDE DEF z, j, old
    <3>4. rank[j["R0"]] \in 0 .. H
      BY <3>3, RegAssumption DEF ARegs, Ranked
    <3>5. z \in Gained(rank, H, new)
      BY <1>3, <1>7, <3>1, <3>2, <3>3, <3>4 DEF Gained
    <3>6. z \notin Gained(rank, H, sol)
      BY <1>7, <2>1, <3>1 DEF Gained, old
    <3> QED
      BY <3>2, <3>5, <3>6
  <2>2. CASE old # Bot
    <3>1. old \in ARegs /\ j \in ARegs
      BY <1>2, <1>4, <2>2, JoinTypes DEF State
    <3> HIDE DEF j, old
    <3>2. PICK r \in Reg : old[r] # j[r]
      BY <1>8, <3>1 DEF ARegs
    <3> DEFINE h == rank[j[r]]
               z == <<q, <<r, h>>>>
    <3>3. /\ h \in 0 .. H /\ rank[old[r]] \in 0 .. H /\ rank[old[r]] < h
      BY <1>5, <2>2, <3>2
    <3> HIDE DEF h
    <3>4. /\ z[1] = q /\ z[2][1] = r /\ z[2][2] = h
      OBVIOUS
    <3>5. z \in Gains(H)
      BY <1>7, <3>3 DEF Gains
    <3> HIDE DEF z
    <3>6. z \in Gained(rank, H, new)
      BY <1>3, <1>4, <1>7, <2>2, <3>3, <3>4, <3>5 DEF Gained, h
    <3>7. ~(h <= rank[old[r]])
      BY <3>3
    <3>8. z \notin Gained(rank, H, sol)
      BY <1>7, <3>4, <3>7 DEF Gained, old
    <3> QED
      BY <3>5, <3>6, <3>8
  <2> QED
    BY <2>1, <2>2
<1>9. CASE j = old
  <2>1. \A l : interpret(new, l) = interpret(sol, l)
    BY <1>3, <1>9
  <2>2. state_le(v, old)
    <3>1. CASE v = Bot
      BY <3>1 DEF state_le
    <3>2. CASE v # Bot
      <4>1. old # Bot
        BY <1>9, <3>2 DEF state_join
      <4>2. v \in ARegs /\ old \in ARegs
        BY <1>2, <3>2, <4>1 DEF State
      <4>3. j = [r \in Reg |-> v_join(v[r], old[r])]
        BY <3>2, <4>1 DEF state_join
      <4> HIDE DEF j, old, v
      <4>4. \A r \in Reg : v_le(v[r], v_join(v[r], old[r]))
        BY <4>2 DEF ARegs, Ranked
      <4>5. \A r \in Reg : v_le(v[r], old[r])
        BY <1>9, <4>3, <4>4
      <4> QED
        BY <3>2, <4>1, <4>5 DEF state_le
    <3> QED
      BY <3>1, <3>2
  <2> QED
    BY <1>6, <2>1, <2>2 DEF constraint_holds, new
<1> QED
  BY <1>8, <1>9

\* The gains of a solution are at most all gains.
LEMMA GainedBound ==
  ASSUME Loaded, IsFiniteSet(Reg), NEW H \in Nat, NEW rank, NEW s
  PROVE  LET m == Cardinality(Gained(rank, H, s))
         IN  /\ IsFiniteSet(Gained(rank, H, s)) /\ m \in Nat
             /\ Rounds(cur, H) \in Nat /\ m <= Rounds(cur, H)
<1>1. cur \in Nat
  BY ProgramsAssumption DEF Loaded
<1>2. IsFiniteSet(0 .. H) /\ Cardinality(0 .. H) = H + 1
  <2>1. 0 \in Int /\ H \in Int /\ ~(0 > H) /\ H - 0 + 1 = H + 1
    OBVIOUS
  <2> QED
    BY <2>1, FS_Interval
<1>3. IsFiniteSet(0 .. 2 * cur) /\ Cardinality(0 .. 2 * cur) = 2 * cur + 1
  <2> DEFINE b == 2 * cur
  <2>1. 0 \in Int /\ b \in Int /\ ~(0 > b) /\ b - 0 + 1 = b + 1
    BY <1>1
  <2> HIDE DEF b
  <2>2. IsFiniteSet(0 .. b) /\ Cardinality(0 .. b) = b + 1
    BY <2>1, FS_Interval
  <2> QED
    BY <2>2 DEF b
<1>4. /\ IsFiniteSet(Reg \X (0 .. H))
      /\ Cardinality(Reg \X (0 .. H)) = Cardinality(Reg) * (H + 1)
  BY <1>2, FS_Product
<1>5. IsFiniteSet(Gains(H)) /\ Cardinality(Gains(H)) = Rounds(cur, H)
  <2> DEFINE A == 0 .. 2 * cur
             B == Reg \X (0 .. H)
             a == 2 * cur + 1
             b == Cardinality(Reg) * (H + 1)
  <2>1. IsFiniteSet(A) /\ IsFiniteSet(B) /\ Cardinality(A) = a /\ Cardinality(B) = b
    BY <1>3, <1>4
  <2> HIDE DEF A, B, a, b
  <2>2. /\ IsFiniteSet(A \X B)
        /\ Cardinality(A \X B) = Cardinality(A) * Cardinality(B)
    BY <2>1, FS_Product
  <2>3. Cardinality(A \X B) = a * b
    BY <2>1, <2>2
  <2>4. Gains(H) = A \X B /\ Rounds(cur, H) = a * b
    BY DEF Gains, Rounds, A, B, a, b
  <2> QED
    BY <2>2, <2>3, <2>4
<1>6. Gained(rank, H, s) \in SUBSET Gains(H)
  BY DEF Gained
<1> QED
  BY <1>5, <1>6, FS_Subset, FS_CardinalityType

\* A constraint that fails is one that raises a state.
LEMMA RefineGains ==
  ASSUME IInv, Loaded, IsFiniteSet(Reg), NEW H \in Nat, NEW rank, Ranked(rank, H),
         NEW c \in gen_constraints(code)
  PROVE  LET G == Gained(rank, H, sol)
             F == Gained(rank, H, refine(sol, c))
         IN  /\ Cardinality(G) <= Cardinality(F)
             /\ \/ Cardinality(G) < Cardinality(F)
                \/ /\ \A l : interpret(refine(sol, c), l) = interpret(sol, l)
                   /\ constraint_holds(code, c, sol)
<1> DEFINE G == Gained(rank, H, sol)
           F == Gained(rank, H, refine(sol, c))
<1>1. /\ G \subseteq F
      /\ \/ \E z : z \in F /\ z \notin G
         \/ /\ \A l : interpret(refine(sol, c), l) = interpret(sol, l)
            /\ constraint_holds(code, c, sol)
  BY RefineRaises
<1>2. /\ IsFiniteSet(F) /\ Cardinality(F) \in Nat /\ Cardinality(G) \in Nat
  BY GainedBound
<1> HIDE DEF F, G
<1>3. /\ Cardinality(G) <= Cardinality(F)
      /\ Cardinality(F) = Cardinality(G) => F = G
  BY <1>1, <1>2, FS_Subset
<1>4. (\E z : z \in F /\ z \notin G) => Cardinality(G) < Cardinality(F)
  BY <1>2, <1>3
<1> QED
  BY <1>1, <1>3, <1>4 DEF F, G

\* Every round but the last gains something: by its end, if not before, the
\* gains are as many as the rounds made, or a constraint yet to be refined
\* fails.
Progress(rank, H) ==
  LET m == Cardinality(Gained(rank, H, sol))
  IN  /\ phase = "decode" => fuel = Fuel
      /\ phase = "iterate" => m >= Fuel - fuel
      /\ phase = "refine" =>
           /\ m >= Fuel - fuel - 1
           /\ m >= Fuel - fuel \/ \E c \in todo : ~constraint_holds(code, c, sol)
      /\ phase = "check" => approximates(code, sol)

\* Fuel for as many rounds as there can be gains.
EnoughFuel(H) == \A p \in Programs : Fuel >= Rounds(Len(p), H)

\* With that fuel, running out of it means that nothing is left to gain.
LEMMA ProgressStep ==
  ASSUME IsFiniteSet(Reg), NEW H \in Nat, NEW rank, Ranked(rank, H), EnoughFuel(H)
  PROVE  IInv /\ Loaded /\ Progress(rank, H) /\ [Next]_vars => Progress(rank, H)'
<1> SUFFICES ASSUME IInv, Loaded, Progress(rank, H), [Next]_vars
             PROVE  Progress(rank, H)'
  OBVIOUS
<1> DEFINE m == Cardinality(Gained(rank, H, sol))
<1>1. m \in Nat /\ Rounds(cur, H) \in Nat /\ m <= Rounds(cur, H)
  BY GainedBound
<1>2. fuel \in 0 .. Fuel /\ Fuel \in Nat
  BY FuelAssumption DEF IInv, TypeOK
<1>3. CASE Decode
  BY <1>3 DEF Decode, solverVars, Progress
<1>4. CASE Solve
  <2>1. phase' = "iterate" /\ fuel' = fuel /\ fuel = Fuel
    BY <1>4 DEF Solve, solverVars, Progress
  <2>2. m' = m
    BY <1>4 DEF Solve, solverVars, loaderVars, Gained, Gains, Slot
  <2> HIDE DEF m
  <2>3. m' >= Fuel - fuel'
    BY <1>1, <1>2, <2>1, <2>2
  <2> QED
    BY <2>1, <2>3 DEF Progress, m
<1>5. CASE Return
  <2>1. /\ phase = "iterate" /\ phase' = "check" /\ UNCHANGED <<code, sol>>
        /\ fuel = 0 \/ approximates(code, sol)
    BY <1>5 DEF Return, loaderVars, solverVars
  <2>2. approximates(code, sol)
    <3> SUFFICES ASSUME fuel = 0,
                        NEW c \in gen_constraints(code),
                        ~constraint_holds(code, c, sol)
                 PROVE  FALSE
      BY <2>1 DEF approximates
    <3>1. m >= Fuel
      <4>1. m >= Fuel - fuel
        BY <2>1 DEF Progress
      <4> QED
        BY <1>1, <1>2, <4>1
    <3>2. Fuel >= Rounds(cur, H)
      <4>1. cur = Len(prog) /\ prog \in Programs
        BY <2>1 DEF Loaded
      <4> QED
        BY <4>1 DEF EnoughFuel
    <3> DEFINE f == Cardinality(Gained(rank, H, refine(sol, c)))
    <3>3. f \in Nat /\ f <= Rounds(cur, H)
      BY GainedBound
    <3>4. m < f
      BY RefineGains
    <3> HIDE DEF m, f
    <3> QED
      BY <1>1, <1>2, <3>1, <3>2, <3>3, <3>4
  <2> QED
    BY <2>1, <2>2 DEF Progress
<1>6. CASE Round
  <2>1. /\ phase = "iterate" /\ phase' = "refine" /\ UNCHANGED <<code, cur, sol>>
        /\ fuel > 0 /\ fuel' = fuel - 1 /\ todo' = gen_constraints(code)
        /\ ~approximates(code, sol)
    BY <1>6 DEF Round, loaderVars
  <2>2. m' = m
    BY <2>1 DEF Gained, Gains, Slot
  <2>3. m >= Fuel - fuel
    BY <2>1 DEF Progress
  <2>4. m' >= Fuel - fuel' - 1
    <3> HIDE DEF m
    <3> QED
      BY <1>1, <1>2, <2>1, <2>2, <2>3
  <2>5. \E c \in todo' : ~constraint_holds(code, c, sol)
    BY <2>1 DEF approximates
  <2> QED
    BY <2>1, <2>4, <2>5 DEF Progress
<1>7. ASSUME NEW c \in todo, Refine(c) PROVE Progress(rank, H)'
  <2>1. /\ phase = "refine" /\ sol' = refine(sol, c) /\ todo' = todo \ {c}
        /\ phase' = (IF todo' = {} THEN "iterate" ELSE "refine")
        /\ UNCHANGED <<code, cur, fuel>>
    BY <1>7 DEF Refine, loaderVars
  <2>2. c \in gen_constraints(code)
    BY DEF IInv, TypeOK
  <2> DEFINE f == Cardinality(Gained(rank, H, refine(sol, c)))
  <2>3. m' = f /\ f \in Nat
    <3>1. f \in Nat
      BY GainedBound
    <3> QED
      BY <2>1, <3>1 DEF Gained, Gains, Slot
  <2>4. /\ m <= f
        /\ \/ m < f
           \/ /\ \A l : interpret(refine(sol, c), l) = interpret(sol, l)
              /\ constraint_holds(code, c, sol)
    BY <2>2, RefineGains
  <2>5. /\ m >= Fuel - fuel - 1
        /\ m >= Fuel - fuel \/ \E d \in todo : ~constraint_holds(code, d, sol)
    BY <2>1 DEF Progress
  <2> HIDE DEF m, f
  <2>6. f >= Fuel - fuel - 1
    BY <1>1, <1>2, <2>3, <2>4, <2>5
  <2>7. CASE m >= Fuel - fuel \/ m < f
    <3>1. f >= Fuel - fuel
      BY <1>1, <1>2, <2>3, <2>4, <2>5, <2>7
    <3> QED
      BY <2>1, <2>3, <2>6, <3>1 DEF Progress, m
  <2>8. CASE ~(m >= Fuel - fuel) /\ ~(m < f)
    <3>1. PICK d \in todo : ~constraint_holds(code, d, sol)
      BY <2>5, <2>8
    <3>2. /\ \A l : interpret(refine(sol, c), l) = interpret(sol, l)
          /\ constraint_holds(code, c, sol)
      BY <2>4, <2>8
    <3>3. d \in todo' /\ todo' # {}
      BY <2>1, <3>1, <3>2
    <3>4. ~constraint_holds(code, d, sol')
      BY <2>1, <3>1, <3>2 DEF constraint_holds
    <3> QED
      BY <2>1, <2>3, <2>6, <3>3, <3>4 DEF Progress, m
  <2> QED
    BY <2>7, <2>8
<1>8. CASE Accept \/ Reject \/ ProgramStep
  <2>1. phase' \in {"running", "rejected", "exited"}
    BY <1>8 DEF Accept, Reject, ProgramStep, step, ALU64_X,
       ALU64_K, ALU64, JMP64_X, JMP64_K, JMP64, CALL, Exit, Fetched
  <2> QED
    BY <2>1 DEF Progress
<1>9. CASE Done \/ UNCHANGED vars
  <2>1. UNCHANGED <<phase, code, cur, sol, todo, fuel>>
    BY <1>9 DEF Done, vars, loaderVars, solverVars
  <2>2. m' = m
    BY <2>1 DEF Gained, Gains, Slot
  <2> HIDE DEF m
  <2> QED
    BY <2>1, <2>2 DEF Progress, m
<1> QED
  BY <1>3, <1>4, <1>5, <1>6, <1>7, <1>8, <1>9 DEF Next, VerifierStep

(***************************************************************************)
(* iterate (basic.lean): with fuel for (2 n + 1) |Reg| (H + 1) rounds, n   *)
(* the length of the program and H the rank of the largest value, the      *)
(* solver stops because every constraint holds, in whatever order it       *)
(* refines them.  Module RegisterWalkProofs shows that H is W + 1 for the  *)
(* values of the repository (ValueHeight).                                 *)
(***************************************************************************)
THEOREM EnoughFuelSuffices ==
  ASSUME IsFiniteSet(Reg), NEW H \in Nat, NEW rank, Ranked(rank, H), EnoughFuel(H)
  PROVE  Spec => []FuelSuffices
<1>1. VerifierInit => Loaded
  <2> SUFFICES ASSUME VerifierInit PROVE Loaded
    OBVIOUS
  <2>1. /\ prog \in Programs /\ cur = 0 /\ DOMAIN code = {} /\ phase = "decode"
    BY DEF VerifierInit, LoaderInit, EmptyMap
  <2>2. 0 \in 0 .. Len(prog) /\ 1 .. 0 = {}
    BY <2>1, ProgramsAssumption
  <2> QED
    BY <2>1, <2>2 DEF Loaded
<1>2. VerifierInit => Progress(rank, H)
  BY DEF VerifierInit, Progress
<1>3. Progress(rank, H) => FuelSuffices
  BY DEF Progress, FuelSuffices
<1>4. IInv /\ Loaded /\ Progress(rank, H) /\ [Next]_vars => Progress(rank, H)'
  BY ProgressStep
<1> QED
  BY <1>1, <1>2, <1>3, <1>4, LoadedStep, Invariant, PTL DEF Spec
=============================================================================
