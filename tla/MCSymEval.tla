------------------------------ MODULE MCSymEval ------------------------------
(***************************************************************************)
(* An instance of SymEval for TLC.                                         *)
(***************************************************************************)
EXTENDS SymEval

mcReg == {"R0", "R1", "R6"}     \* two that a call clobbers, one it keeps

alu_x(op, dst, src) == [kind |-> "ALU64_X", op |-> op, dst |-> dst, src |-> src]
alu_k(op, dst, imm) == [kind |-> "ALU64_K", op |-> op, dst |-> dst, imm |-> imm]
jmp_x(op, dst, src, off) ==
  [kind |-> "JMP64_X", op |-> op, dst |-> dst, src |-> src, off |-> off % 2^OffW]
jmp_k(op, dst, imm, off) ==
  [kind |-> "JMP64_K", op |-> op, dst |-> dst, imm |-> imm, off |-> off % 2^OffW]
call == [kind |-> "CALL", func |-> "get_prandom_u32"]
exit == [kind |-> "Exit"]
stx == [kind |-> "STX"]

\* A division by a word drawn, guarded or not, loops that end with some
\* oracles only or with all, dead code, and jumps out of the program.
mcBody ==
  {alu_x("MOV", "R6", "R0"), alu_k("MOV", "R0", 1), alu_x("DIV", "R6", "R0"),
   alu_x("ADD", "R0", "R0"), alu_x("LSH", "R0", "R6"),
   jmp_k("JEQ", "R0", 0, 1), jmp_k("JNE", "R0", 0, -2),
   jmp_x("JGT", "R6", "R0", 1), jmp_x("JEQ", "R6", "R6", 1),
   jmp_k("JSET", "R0", 1, 3),
   call, exit, stx}

mcPrograms == {<<call, a, b, c, exit>> : a, b, c \in mcBody}
                \cup {<<a, b, exit>> : a, b \in mcBody}
=============================================================================
