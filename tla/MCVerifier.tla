----------------------------- MODULE MCVerifier -----------------------------
(***************************************************************************)
(* Instances of Verifier for TLC, over the abstract values of ValueDomain. *)
(***************************************************************************)
EXTENDS Verifier, ValueDomain

mcReg == {"R0", "R1", "R6"}     \* two that a call clobbers, one it keeps

alu_x(op, dst, src) == [kind |-> "ALU64_X", op |-> op, dst |-> dst, src |-> src]
alu_k(op, dst, imm) == [kind |-> "ALU64_K", op |-> op, dst |-> dst, imm |-> imm]
jmp_x(op, dst, src, off) ==
  [kind |-> "JMP64_X", op |-> op, dst |-> dst, src |-> src, off |-> off % 2^OffW]
jmp_k(op, dst, imm, off) ==
  [kind |-> "JMP64_K", op |-> op, dst |-> dst, imm |-> imm, off |-> off % 2^OffW]
call == [kind |-> "CALL", func |-> "get_prandom_u32"]
exit == [kind |-> "Exit"]
plain(kind) == [kind |-> kind]

\* Definitions, a division that needs a bit of its divisor, loops, branches
\* forward, into the instruction itself and out of the program.
mcBody ==
  {alu_k("MOV", "R0", 1), alu_k("MOV", "R1", 2), alu_x("MOV", "R6", "R0"),
   alu_k("OR", "R0", 1), alu_k("ADD", "R0", 2), alu_x("DIV", "R6", "R0"),
   jmp_k("JEQ", "R0", 0, 1), jmp_k("JNE", "R0", 1, -2),
   jmp_x("JLT", "R0", "R1", -2), jmp_x("JSGT", "R0", "R0", 1),
   jmp_k("JSET", "R0", 1, 3),
   call, exit, plain("STX")}

mcPrograms == {<<a, b, c, exit>> : a, b, c \in mcBody}
mcSmall == {<<a, b, exit>> : a, b \in mcBody}
=============================================================================
