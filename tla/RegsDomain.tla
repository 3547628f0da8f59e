----------------------------- MODULE RegsDomain -----------------------------
(***************************************************************************)
(* The abstract domain of register files over any domain of values, that   *)
(* is, any instance of module ValueAbstr: lean/src/bpf/absint/regs.lean.   *)
(* Bot is also the bottom that with_bot (data/domain/basic.lean) adds to   *)
(* the register files.                                                     *)
(***************************************************************************)
EXTENDS Machine, ValueAbstr

ARegs == [Reg -> AValue]

ASSUME BotAssumption == Bot \notin AValue /\ Bot \notin ARegs

ASSUME LawfulAssumption == Lawful

-----------------------------------------------------------------------------
(* The domain of register files, lifted to with_bot: "states".             *)

State == ARegs \cup {Bot}

\* rs is one of the register files s stands for.
gamma(s, rs) == s # Bot /\ \A r \in Reg : rs[r] \in v_gamma(s[r])

fault_state_le(s, t) ==                \* forgets bottom
  s # Bot /\ t # Bot /\ \A r \in Reg : v_le(s[r], t[r])

state_le(s, t) ==
  \/ s = Bot
  \/ s # Bot /\ t # Bot /\ \A r \in Reg : v_le(s[r], t[r])

state_join(s, t) ==
  CASE s = Bot -> t
    [] t = Bot -> s
    [] OTHER   -> [r \in Reg |-> v_join(s[r], t[r])]

const(rs) == [r \in Reg |-> v_const(rs[r])]

\* interpret or value_abstr.const: the abstract second operand.
a_operand(i, a) ==
  IF i.kind \in {"ALU64_X", "JMP64_X"} THEN a[i.src]
  ELSE v_const(scalar(i.imm))

do_alu64(i, a) ==
  [a EXCEPT ![i.dst] = v_doALU64(i.op, a[i.dst], a_operand(i, a))]

do_alu64_check(i, a) == v_doALU64_check(i.op, a[i.dst], a_operand(i, a))

do_jmp64_check(i, a) == v_doJMP64_check(i.op, a[i.dst], a_operand(i, a))

\* The destination is updated first: it may be the source as well.
invert_jmp64_tt(i, a) ==
  LET z == v_doJMP64_tt(i.op, a[i.dst], a[i.src])
  IN  IF z[1] = Bot \/ z[2] = Bot THEN Bot
      ELSE [[a EXCEPT ![i.dst] = z[1]] EXCEPT ![i.src] = z[2]]

fault_a_do_call(a) ==                  \* keeps the caller-saved registers
  [a EXCEPT !["R0"] = v_unknown_scalar]

a_do_call(a) ==
  [r \in Reg |-> IF r = "R0" THEN v_unknown_scalar
                 ELSE IF r \in caller_saved THEN v_const(uninitialized)
                 ELSE a[r]]

\* with_bot.lift_unary_test is trivially satisfied by bottom.
lift_test(s, test) == s # Bot => test

\* with_bot.lift_unary_relation keeps bottom.
lift(s, image) == IF s = Bot THEN Bot ELSE image
=============================================================================
