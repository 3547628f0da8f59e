--------------------------------- MODULE Bpf ---------------------------------
(***************************************************************************)
(* The values of BPF registers and the meaning of single operations:       *)
(* lean/src/bpf/basic.lean.                                                *)
(***************************************************************************)
EXTENDS Words

CONSTANTS Reg,                  \* the registers modelled, with R0 among them
          Region                \* memregion, an opaque type of memory regions

ASSUME RegAssumption == "R0" \in Reg

caller_saved == {"R0", "R1", "R2", "R3", "R4", "R5"} \cap Reg

ALU == {"ADD", "SUB", "MUL", "DIV", "OR", "AND", "LSH", "RSH", "NEG", "MOD",
        "XOR", "MOV", "ARSH", "END"}

JMP == {"JEQ", "JNE", "JLE", "JLT", "JGE", "JGT", "JSLE", "JSLT", "JSGE",
        "JSGT", "JSET"}

BPF_FUNC == {"get_prandom_u32"}

-----------------------------------------------------------------------------

scalar(x) == [tag |-> "scalar", n |-> x]
pointer(m, x) == [tag |-> "pointer", m |-> m, n |-> x]
uninitialized == [tag |-> "uninitialized"]

Value == {scalar(x) : x \in Word}
           \cup {pointer(m, x) : m \in Region, x \in Word}
           \cup {uninitialized}

is_scalar(v) == v.tag = "scalar"
is_pointer(v) == v.tag = "pointer"

-----------------------------------------------------------------------------
(* 64-bit ALU operations.                                                  *)

doALU64_scalar_check(op, x, y) ==
  /\ op \in {"DIV", "MOD"} => y # 0
  /\ op \in {"LSH", "RSH", "ARSH"} => y < W
  /\ op # "END"

doALU_pointer_scalar_check(op) == op \in {"ADD", "SUB", "MOV"}

doALU64_check(op, a, b) ==
  \/ is_scalar(a) /\ is_scalar(b) /\ doALU64_scalar_check(op, a.n, b.n)
  \/ is_pointer(a) /\ is_scalar(b) /\ doALU_pointer_scalar_check(op)
  \/ op = "MOV" /\ b # uninitialized

doALU64_scalar(op, x, y) ==
  CASE op = "ADD"  -> bv_add(x, y)
    [] op = "SUB"  -> bv_sub(x, y)
    [] op = "MUL"  -> bv_mul(x, y)
    [] op = "DIV"  -> udiv(x, y)
    [] op = "OR"   -> bv_or(x, y)
    [] op = "AND"  -> bv_and(x, y)
    [] op = "LSH"  -> shl(x, y)
    [] op = "RSH"  -> lshr(x, y)
    [] op = "NEG"  -> bv_neg(x)
    [] op = "MOD"  -> urem(x, y)
    [] op = "XOR"  -> bv_xor(x, y)
    [] op = "MOV"  -> y
    [] op = "ARSH" -> ashr(x, y)
    [] op = "END"  -> x

doALU_pointer_scalar(op, m, off, val) ==
  CASE op = "ADD" -> pointer(m, bv_add(off, val))
    [] op = "SUB" -> pointer(m, bv_sub(off, val))
    [] op = "MOV" -> scalar(val)
    [] OTHER      -> pointer(m, off)

\* Operations the check forbids leave the destination as it is.
doALU64(op, a, b) ==
  CASE is_scalar(a) /\ is_scalar(b)  -> scalar(doALU64_scalar(op, a.n, b.n))
    [] is_pointer(a) /\ is_scalar(b) -> doALU_pointer_scalar(op, a.m, a.n, b.n)
    [] OTHER                         -> IF op = "MOV" THEN b ELSE a

-----------------------------------------------------------------------------
(* 64-bit conditional jumps.                                               *)

doJMP64_check(op, a, b) == is_scalar(a) /\ is_scalar(b)

doJMP_scalar(op, x, y) ==
  CASE op = "JEQ"  -> x = y
    [] op = "JNE"  -> x # y
    [] op = "JLE"  -> x <= y
    [] op = "JLT"  -> x < y
    [] op = "JGE"  -> x >= y
    [] op = "JGT"  -> x > y
    [] op = "JSLE" -> sle(x, y)
    [] op = "JSLT" -> slt(x, y)
    [] op = "JSGE" -> sle(y, x)
    [] op = "JSGT" -> slt(y, x)
    [] op = "JSET" -> bv_and(x, y) # 0

doJMP64(op, a, b) == is_scalar(a) /\ is_scalar(b) /\ doJMP_scalar(op, a.n, b.n)

-----------------------------------------------------------------------------
(* Helper calls.  r is the word the oracle returns to this call: o.rng may *)
(* be any function of the call's number, and no number is used twice, so   *)
(* the counter next_rng is not part of the state and r is free.            *)

do_call_check(func, regs) == TRUE

do_call(func, r, regs) ==
  [q \in Reg |-> IF q = "R0" THEN scalar(r)
                 ELSE IF q \in caller_saved THEN uninitialized
                 ELSE regs[q]]
=============================================================================
