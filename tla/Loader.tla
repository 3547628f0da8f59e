------------------------------- MODULE Loader -------------------------------
(***************************************************************************)
(* trie_program.decode_from_flat of lean/src/bpf/cfg.lean: a flat list of  *)
(* low-level instructions, whose jumps are relative, becomes a control     *)
(* flow graph, a map from labels to instructions that name the labels of   *)
(* their successors.  The instruction of index i is stored at label i + 1  *)
(* (num.succ').  One action decodes one element of the list.               *)
(*                                                                         *)
(* Here and in the modules that extend this one, operators named fault_... *)
(* are faulty variants of the definition that follows them, with which the *)
(* properties are tested.                                                  *)
(***************************************************************************)
EXTENDS Bpf, Sequences

CONSTANTS ImmW,                 \* width of an immediate operand, 32
          OffW,                 \* width of a jump offset, 16
          PcW,                  \* width of the program counter, 32
          Programs              \* the flat programs considered

ASSUME WidthAssumption == /\ ImmW \in 1 .. W
                          /\ OffW \in Nat \ {0}
                          /\ PcW \in Nat \ {0}

VARIABLES prog,                 \* the flat program
          cur,                  \* the index of the next instruction to decode
          code                  \* the map built so far

loaderVars == <<prog, cur, code>>

-----------------------------------------------------------------------------
(* Instructions.  ALU32, STX and LD_IMM instructions have no step and no   *)
(* constraint, so their operands are left out.                             *)

Unsupported == {"ALU32_X", "ALU32_K", "STX", "LD_IMM"}

Imm == 0 .. 2^ImmW - 1
Off == 0 .. 2^OffW - 1
Label == Nat \ {0}

FlatInstr ==
       [kind : {"ALU64_X"}, op : ALU, dst : Reg, src : Reg]
  \cup [kind : {"ALU64_K"}, op : ALU, dst : Reg, imm : Imm]
  \cup [kind : {"JMP64_X"}, op : JMP, dst : Reg, src : Reg, off : Off]
  \cup [kind : {"JMP64_K"}, op : JMP, dst : Reg, imm : Imm, off : Off]
  \cup [kind : {"CALL"}, func : BPF_FUNC]
  \cup [kind : Unsupported \cup {"Exit"}]

ASSUME ProgramsAssumption == Programs \subseteq Seq(FlatInstr)

Instr ==
       [kind : {"ALU64_X"}, op : ALU, dst : Reg, src : Reg, next : Label]
  \cup [kind : {"ALU64_K"}, op : ALU, dst : Reg, imm : Word, next : Label]
  \cup [kind : {"JMP64_X"}, op : JMP, dst : Reg, src : Reg,
        if_true : Label, if_false : Label]
  \cup [kind : {"JMP64_K"}, op : JMP, dst : Reg, imm : Word,
        if_true : Label, if_false : Label]
  \cup [kind : {"CALL"}, func : BPF_FUNC, next : Label]
  \cup [kind : Unsupported, next : Label]
  \cup [kind : {"Exit"}]

\* The labels an instruction may pass control to.
Successors(i) ==
  CASE i.kind \in {"JMP64_X", "JMP64_K"} -> {i.if_true, i.if_false}
    [] i.kind = "Exit"                   -> {}
    [] OTHER                             -> {i.next}

-----------------------------------------------------------------------------
(* Decoding one instruction.                                               *)

\* The signed number a bit pattern of width w stands for.
Signed(v, w) == IF v < 2^(w - 1) THEN v ELSE v - 2^w

fault_imm_zext(imm) == imm % 2^W       \* extends with zeros

msb_imm_sext_to_lsb(imm) == Signed(imm, ImmW) % 2^W

(***************************************************************************)
(* Offsets count from the next instruction; the program counter wraps.     *)
(* The remainder is never negative, so the absolute value the source takes *)
(* of it to change its type changes nothing.                               *)
(***************************************************************************)
fault_nowrap_target(c, off) ==
  LET t == Signed(off, OffW) + 1 + c IN IF t < 0 THEN -t ELSE t

jump_off_to_jump_target(c, off) == (Signed(off, OffW) + 1 + c) % 2^PcW

fault_succ(n) == n                     \* labels from 0

\* num.succ', from indexes to labels.
succ(n) == n + 1

decode_instr(c, i) ==
  CASE i.kind = "ALU64_X" ->
         [kind |-> i.kind, op |-> i.op, dst |-> i.dst, src |-> i.src,
          next |-> succ(c + 1)]
    [] i.kind = "ALU64_K" ->
         [kind |-> i.kind, op |-> i.op, dst |-> i.dst,
          imm |-> msb_imm_sext_to_lsb(i.imm), next |-> succ(c + 1)]
    [] i.kind = "JMP64_X" ->
         [kind |-> i.kind, op |-> i.op, dst |-> i.dst, src |-> i.src,
          if_true |-> succ(jump_off_to_jump_target(c, i.off)),
          if_false |-> succ(c + 1)]
    [] i.kind = "JMP64_K" ->
         [kind |-> i.kind, op |-> i.op, dst |-> i.dst,
          imm |-> msb_imm_sext_to_lsb(i.imm),
          if_true |-> succ(jump_off_to_jump_target(c, i.off)),
          if_false |-> succ(c + 1)]
    [] i.kind = "CALL" ->
         [kind |-> i.kind, func |-> i.func, next |-> succ(c + 1)]
    [] i.kind = "LD_IMM" ->
         [kind |-> i.kind, next |-> succ(c + 2)]
    [] i.kind = "Exit" ->
         [kind |-> i.kind]
    [] OTHER ->
         [kind |-> i.kind, next |-> succ(c + 1)]

\* Insertion into an unordered_map keeps the value of a key it holds.
kinsert(m, k, v) ==
  IF k \in DOMAIN m THEN m
  ELSE [l \in DOMAIN m \cup {k} |-> IF l = k THEN v ELSE m[l]]

EmptyMap == [l \in {} |-> 0]

entry == 1

-----------------------------------------------------------------------------

LoaderInit ==
  /\ prog \in Programs
  /\ cur = 0
  /\ code = EmptyMap

Decoded == cur = Len(prog)

DecodeInstr ==
  /\ ~Decoded
  /\ code' = kinsert(code, succ(cur), decode_instr(cur, prog[cur + 1]))
  /\ cur' = cur + 1
  /\ UNCHANGED prog

LoaderDone == Decoded /\ UNCHANGED loaderVars

LoaderSpec == LoaderInit /\ [][DecodeInstr \/ LoaderDone]_loaderVars

-----------------------------------------------------------------------------
(* Properties.                                                             *)

\* The map holds the instructions decoded so far at consecutive labels, with
\* the kinds of the flat program, and every successor is a label.
LoaderTypeOK ==
  /\ prog \in Seq(FlatInstr)
  /\ cur \in 0 .. Len(prog)
  /\ DOMAIN code = 1 .. cur
  /\ \A l \in DOMAIN code : code[l] \in Instr /\ code[l].kind = prog[l].kind

(***************************************************************************)
(* The unsigned modular arithmetic of jump_off_to_jump_target (cfg.lean,   *)
(* "trusted" by its TODO) agrees with signed offsets: the jump at position *)
(* p of a decoded program shorter than the counter's range goes to         *)
(* position p + 1 + offset if the program has that position, and to a      *)
(* label that holds no instruction otherwise; it never wraps around into   *)
(* the program.                                                            *)
(***************************************************************************)
JumpsAreRelative ==
  Decoded /\ Len(prog) + 2^OffW <= 2^PcW =>
    \A p \in 1 .. Len(prog) :
      prog[p].kind \in {"JMP64_X", "JMP64_K"} =>
        LET t == p + 1 + Signed(prog[p].off, OffW)
        IN  IF t \in 1 .. Len(prog)
              THEN code[p].if_true = t
              ELSE code[p].if_true \notin DOMAIN code

(***************************************************************************)
(* Sign extension preserves order: immediates compare as signed words the  *)
(* way their 32-bit patterns do, so JSLT and its kin mean on K-form        *)
(* instructions what the instruction set says.                             *)
(***************************************************************************)
ImmediatesKeepSign ==
  \A l \in DOMAIN code :
    code[l].kind \in {"ALU64_K", "JMP64_K"} =>
      Signed(code[l].imm, W) = Signed(prog[l].imm, ImmW)

(***************************************************************************)
(* cfg.lean:166 says that LD_IMM "is two instructiosn (16 bytes) wide":    *)
(* its successor is the instruction listed after it, which must then be    *)
(* stored two labels further on.                                           *)
(***************************************************************************)
LdImmFallsThrough ==
  Decoded =>
    \A p \in 1 .. Len(prog) - 1 :
      prog[p].kind = "LD_IMM" =>
        /\ code[p].next \in DOMAIN code
        /\ code[code[p].next] = decode_instr(code[p].next - 1, prog[p + 1])
=============================================================================
