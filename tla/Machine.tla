------------------------------- MODULE Machine -------------------------------
(***************************************************************************)
(* The semantics of control flow graphs: the step relation of              *)
(* lean/src/bpf/cfg.lean, one action per constructor.  A state of the      *)
(* source is running (pc, regs) or exited (ret); before the program is     *)
(* started phase has neither value.  A running state in which no           *)
(* constructor applies is stuck: that is what the verifier must exclude.   *)
(***************************************************************************)
EXTENDS Loader

VARIABLES phase,                \* "running", "exited", or a verifier's phase
          pc, regs,             \* the runstate
          ret                   \* the value returned, once exited

runVars == <<pc, regs, ret>>

-----------------------------------------------------------------------------

\* The second operand of an instruction: a register or an immediate.
operand(i, rs) ==
  IF i.kind \in {"ALU64_X", "JMP64_X"} THEN rs[i.src] ELSE scalar(i.imm)

initial_state ==
  /\ pc = entry
  /\ regs = [r \in Reg |-> uninitialized]
  /\ ret = 0

Fetched(kind) == phase = "running" /\ pc \in DOMAIN code /\ code[pc].kind = kind

ALU64(kind) ==
  /\ Fetched(kind)
  /\ LET i == code[pc]
         x == regs[i.dst]
         y == operand(i, regs)
     IN  /\ doALU64_check(i.op, x, y)
         /\ regs' = [regs EXCEPT ![i.dst] = doALU64(i.op, x, y)]
         /\ pc' = i.next
  /\ UNCHANGED <<phase, ret>>

JMP64(kind) ==
  /\ Fetched(kind)
  /\ LET i == code[pc]
         x == regs[i.dst]
         y == operand(i, regs)
     IN  /\ doJMP64_check(i.op, x, y)
         /\ pc' = IF doJMP64(i.op, x, y) THEN i.if_true ELSE i.if_false
  /\ UNCHANGED <<phase, regs, ret>>

ALU64_X == ALU64("ALU64_X")
ALU64_K == ALU64("ALU64_K")
JMP64_X == JMP64("JMP64_X")
JMP64_K == JMP64("JMP64_K")

CALL ==
  /\ Fetched("CALL")
  /\ do_call_check(code[pc].func, regs)
  /\ \E r \in Word : regs' = do_call(code[pc].func, r, regs)
  /\ pc' = code[pc].next
  /\ UNCHANGED <<phase, ret>>

Exit ==
  /\ Fetched("Exit")
  /\ is_scalar(regs["R0"])
  /\ ret' = regs["R0"].n
  /\ phase' = "exited"
  /\ UNCHANGED <<pc, regs>>

step == \/ ALU64_X \/ ALU64_K
        \/ JMP64_X \/ JMP64_K
        \/ CALL
        \/ Exit

-----------------------------------------------------------------------------

(***************************************************************************)
(* Whether some constructor of step applies: the first alternative of      *)
(* safe_state, as a predicate of the program, the label and the registers. *)
(***************************************************************************)
CanStep(c, l, rs) ==
  /\ l \in DOMAIN c
  /\ LET i == c[l] IN
       \/ /\ i.kind \in {"ALU64_X", "ALU64_K"}
          /\ doALU64_check(i.op, rs[i.dst], operand(i, rs))
       \/ /\ i.kind \in {"JMP64_X", "JMP64_K"}
          /\ doJMP64_check(i.op, rs[i.dst], operand(i, rs))
       \/ i.kind = "CALL" /\ do_call_check(i.func, rs)
       \/ i.kind = "Exit" /\ is_scalar(rs["R0"])
=============================================================================
