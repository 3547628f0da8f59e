------------------------------ MODULE MCLoader ------------------------------
(***************************************************************************)
(* An instance of Loader for TLC: every immediate and every jump offset of *)
(* two bits, extended to words and counters of three.                      *)
(***************************************************************************)
EXTENDS Loader, SequencesExt

mcReg == {"R0", "R1"}

mcFlat ==
       [kind : {"ALU64_K"}, op : {"MOV"}, dst : {"R0"}, imm : Imm]
  \cup [kind : {"JMP64_X"}, op : {"JEQ"}, dst : {"R0"}, src : {"R1"}, off : Off]
  \cup [kind : {"JMP64_K"}, op : {"JSLT"}, dst : {"R0"}, imm : {1, 2}, off : Off]
  \cup [kind : {"ALU64_X"}, op : {"ADD"}, dst : {"R0"}, src : {"R1"}]
  \cup [kind : {"CALL"}, func : BPF_FUNC]
  \cup [kind : {"LD_IMM", "STX", "Exit"}]

mcPrograms == BoundedSeq(mcFlat, 3)
=============================================================================
