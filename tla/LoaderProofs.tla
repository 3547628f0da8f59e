---------------------------- MODULE LoaderProofs ----------------------------
(***************************************************************************)
(* Proofs about module Loader, and facts about instructions and decoded    *)
(* programs on which the proofs about both verifiers rest.                 *)
(***************************************************************************)
EXTENDS Loader, WordsProofs, TLAPS

-----------------------------------------------------------------------------
(* Words and labels.                                                       *)

\* The powers of two of the model are positive numbers.
LEMMA PowerTypes ==
  /\ 2^W \in Nat \ {0}
  /\ 2^PcW \in Nat \ {0}
  /\ 2^OffW \in Nat \ {0} /\ 2^(OffW - 1) \in Nat \ {0}
  /\ 2^ImmW \in Nat \ {0} /\ 2^(ImmW - 1) \in Nat \ {0}
<1>1. /\ W \in Nat /\ PcW \in Nat
      /\ OffW \in Nat /\ OffW - 1 \in Nat
      /\ ImmW \in Nat /\ ImmW - 1 \in Nat
  BY WAssumption, WidthAssumption
<1> QED
  BY <1>1, PowerFacts

\* A sign-extended immediate is a word.
LEMMA ImmediateTypes ==
  ASSUME NEW imm \in Imm
  PROVE  msb_imm_sext_to_lsb(imm) \in Word
  BY PowerTypes DEF Imm, msb_imm_sext_to_lsb, Signed, Word

\* The target of a jump is a label, wherever the offset points.
LEMMA TargetTypes ==
  ASSUME NEW c \in Nat, NEW off \in Off
  PROVE  succ(jump_off_to_jump_target(c, off)) \in Label
  BY PowerTypes DEF Off, jump_off_to_jump_target, Signed, succ, Label

\* So are the successors of the other instructions.
LEMMA NextTypes ==
  ASSUME NEW c \in Nat
  PROVE  succ(c + 1) \in Label /\ succ(c + 2) \in Label
  BY DEF succ, Label

\* Decoding gives well-formed instructions.
LEMMA DecodeTypes ==
  ASSUME NEW c \in Nat, NEW i \in FlatInstr
  PROVE  decode_instr(c, i) \in Instr
<1>1. CASE i.kind = "ALU64_X"
  BY <1>1, NextTypes DEF FlatInstr, Instr, decode_instr, Unsupported
<1>2. CASE i.kind = "ALU64_K"
  BY <1>2, NextTypes, ImmediateTypes
     DEF FlatInstr, Instr, decode_instr, Unsupported
<1>3. CASE i.kind = "JMP64_X"
  BY <1>3, NextTypes, TargetTypes DEF FlatInstr, Instr, decode_instr, Unsupported
<1>4. CASE i.kind = "JMP64_K"
  BY <1>4, NextTypes, TargetTypes, ImmediateTypes
     DEF FlatInstr, Instr, decode_instr, Unsupported
<1>5. CASE i.kind = "CALL"
  BY <1>5, NextTypes DEF FlatInstr, Instr, decode_instr, Unsupported
<1>6. CASE i.kind \in Unsupported
  BY <1>6, NextTypes DEF Instr, decode_instr, Unsupported
<1>7. CASE i.kind = "Exit"
  BY <1>7 DEF Instr, decode_instr
<1> QED
  BY <1>1, <1>2, <1>3, <1>4, <1>5, <1>6, <1>7 DEF FlatInstr

\* The successors of an instruction are labels, those of its fields.
LEMMA SuccessorTypes ==
  ASSUME NEW i \in Instr
  PROVE  /\ Successors(i) \subseteq Label
         /\ i.kind \in {"ALU64_X", "ALU64_K", "CALL"}
              => Successors(i) = {i.next}
         /\ i.kind \in {"JMP64_X", "JMP64_K"}
              => Successors(i) = {i.if_true, i.if_false}
  BY DEF Instr, Successors, Unsupported

-----------------------------------------------------------------------------
(* Maps.                                                                   *)

\* Insertion into a program gives a program.
LEMMA KinsertTypes ==
  ASSUME NEW m, NEW k \in Label, NEW v \in Instr,
         DOMAIN m \subseteq Label, \A l \in DOMAIN m : m[l] \in Instr
  PROVE  /\ DOMAIN kinsert(m, k, v) \subseteq Label
         /\ \A l \in DOMAIN kinsert(m, k, v) : kinsert(m, k, v)[l] \in Instr
  BY DEF kinsert

\* A program: a map from labels to instructions.
Program(p) == DOMAIN p \subseteq Label /\ \A l \in DOMAIN p : p[l] \in Instr

Operation == {"ALU64_X", "ALU64_K", "JMP64_X", "JMP64_K"}

\* The fields of ALU and jump instructions have their types.
LEMMA OperationTypes ==
  ASSUME NEW i \in Instr, i.kind \in Operation
  PROVE  /\ i.dst \in Reg
         /\ i.kind \in {"ALU64_X", "ALU64_K"} => i.op \in ALU
         /\ i.kind \in {"JMP64_X", "JMP64_K"} => i.op \in JMP
         /\ i.kind \in {"ALU64_X", "JMP64_X"} => i.src \in Reg
         /\ i.kind \in {"ALU64_K", "JMP64_K"} => scalar(i.imm) \in Value
<1>1. i.kind \in {"ALU64_K", "JMP64_K"} => i.imm \in Word
  BY DEF Instr, Operation, Unsupported
<1>2. i.kind \in {"ALU64_K", "JMP64_K"} => scalar(i.imm) \in Value
  BY <1>1 DEF Value
<1> QED
  BY <1>2 DEF Instr, Operation, Unsupported

\* The types of the loader's variables.
Loading == /\ prog \in Seq(FlatInstr)
           /\ cur \in 0 .. Len(prog)
           /\ Program(code)

\* The loader starts with the types of its variables.
LEMMA InitLoading == LoaderInit => Loading
  BY ProgramsAssumption DEF LoaderInit, Loading, Program, EmptyMap

\* Decoding one instruction keeps them.
LEMMA DecodeLoading ==
  ASSUME Loading, DecodeInstr
  PROVE  /\ Loading'
         /\ cur \in Nat /\ cur < Len(prog) /\ prog[cur + 1] \in FlatInstr
         /\ succ(cur) = cur + 1
<1>1. cur # Len(prog) /\ cur' = cur + 1 /\ prog' = prog
  BY DEF DecodeInstr, Decoded
<1>2. cur \in Nat /\ Len(prog) \in Nat /\ cur < Len(prog)
  BY <1>1 DEF Loading
<1>3. cur + 1 \in 1 .. Len(prog) /\ prog[cur + 1] \in FlatInstr
  BY <1>2 DEF Loading
<1>4. succ(cur) \in Label /\ decode_instr(cur, prog[cur + 1]) \in Instr
  BY <1>2, <1>3, DecodeTypes DEF succ, Label
<1>5. Program(code')
  BY <1>4, KinsertTypes DEF Loading, Program, DecodeInstr
<1> QED
  BY <1>1, <1>2, <1>3, <1>5 DEF Loading, succ

-----------------------------------------------------------------------------
(* The graph mirrors the list.                                             *)

\* The instruction at label l is that of position l of the list, decoded.
Mirrors == /\ DOMAIN code = 1 .. cur
           /\ \A l \in DOMAIN code : code[l] = decode_instr(l - 1, prog[l])

\* The loader's invariant holds initially.
LEMMA InitMirrors == LoaderInit => Loading /\ Mirrors
  BY InitLoading DEF LoaderInit, Mirrors, EmptyMap

\* Every step of the loader keeps it.
LEMMA NextMirrors ==
  Loading /\ Mirrors /\ [DecodeInstr \/ LoaderDone]_loaderVars
    => Loading' /\ Mirrors'
<1> SUFFICES ASSUME Loading, Mirrors, [DecodeInstr \/ LoaderDone]_loaderVars
             PROVE  Loading' /\ Mirrors'
  OBVIOUS
<1>1. CASE DecodeInstr
  <2>1. Loading' /\ cur \in Nat /\ succ(cur) = cur + 1
    BY <1>1, DecodeLoading
  <2>2. /\ cur' = cur + 1 /\ prog' = prog
        /\ code' = kinsert(code, cur + 1, decode_instr(cur, prog[cur + 1]))
    BY <1>1, <2>1 DEF DecodeInstr
  <2>3. cur + 1 \notin DOMAIN code
    BY <2>1 DEF Mirrors
  <2>4. /\ DOMAIN code' = DOMAIN code \cup {cur + 1}
        /\ code'[cur + 1] = decode_instr(cur, prog[cur + 1])
        /\ \A l \in DOMAIN code : code'[l] = code[l]
    BY <2>2, <2>3 DEF kinsert
  <2>5. DOMAIN code' = 1 .. cur'
    <3>1. 1 .. (cur + 1) = (1 .. cur) \cup {cur + 1}
      BY <2>1
    <3> QED
      BY <2>2, <2>4, <3>1 DEF Mirrors
  <2>6. \A l \in DOMAIN code' : code'[l] = decode_instr(l - 1, prog'[l])
    BY <2>1, <2>2, <2>4 DEF Mirrors
  <2> QED
    BY <2>1, <2>5, <2>6 DEF Mirrors
<1>2. CASE UNCHANGED loaderVars
  BY <1>2 DEF loaderVars, Loading, Program, Mirrors
<1> QED
  BY <1>1, <1>2 DEF LoaderDone

\* An invariant of the loader alone.
LEMMA LoaderInvariant == LoaderSpec => [](Loading /\ Mirrors)
<1>1. LoaderInit => Loading /\ Mirrors
  BY InitMirrors
<1>2. Loading /\ Mirrors /\ [DecodeInstr \/ LoaderDone]_loaderVars
        => Loading' /\ Mirrors'
  BY NextMirrors
<1> QED
  BY <1>1, <1>2, PTL DEF LoaderSpec

(***************************************************************************)
(* decode_from_flat: labels are consecutive from the entry, every label    *)
(* holds the instruction of the list at its position, and every successor  *)
(* is a label.                                                             *)
(***************************************************************************)
THEOREM LoaderTypeCorrect == LoaderSpec => []LoaderTypeOK
<1>1. Loading /\ Mirrors => LoaderTypeOK
  <2> SUFFICES ASSUME Loading, Mirrors PROVE LoaderTypeOK
    OBVIOUS
  <2>1. ASSUME NEW l \in DOMAIN code PROVE code[l].kind = prog[l].kind
    <3>1. l \in 1 .. Len(prog) /\ code[l] = decode_instr(l - 1, prog[l])
      BY DEF Loading, Mirrors
    <3>2. prog[l] \in FlatInstr
      BY <3>1 DEF Loading
    <3> QED
      BY <3>1, <3>2 DEF FlatInstr, decode_instr, Unsupported
  <2> QED
    BY <2>1 DEF Loading, Mirrors, Program, LoaderTypeOK
<1> QED
  BY <1>1, LoaderInvariant, PTL

-----------------------------------------------------------------------------
(* Jumps.                                                                  *)

\* A number in the counter's range is its own remainder, and one below
\* zero comes out near the range's end.
LEMMA Wraps ==
  ASSUME NEW m \in Nat \ {0}, NEW a \in Int, -m <= a, a < m
  PROVE  a % m = IF a < 0 THEN a + m ELSE a
  OBVIOUS

(***************************************************************************)
(* jump_off_to_jump_target: in a program shorter than the counter's range  *)
(* modular arithmetic on offsets is signed arithmetic, or leaves the       *)
(* program.                                                                *)
(***************************************************************************)
THEOREM RelativeJumps == LoaderSpec => []JumpsAreRelative
<1>1. Loading /\ Mirrors => JumpsAreRelative
  <2> DEFINE n == Len(prog)
             m == 2^PcW
  <2> SUFFICES ASSUME Loading, Mirrors, Decoded, n + 2^OffW <= m,
                      NEW p \in 1 .. n,
                      prog[p].kind \in {"JMP64_X", "JMP64_K"}
               PROVE  LET t == p + 1 + Signed(prog[p].off, OffW)
                      IN  IF t \in 1 .. n THEN code[p].if_true = t
                          ELSE code[p].if_true \notin DOMAIN code
    BY DEF JumpsAreRelative
  <2> DEFINE S == Signed(prog[p].off, OffW)
  <2>1. DOMAIN code = 1 .. n /\ n \in Nat
    BY DEF Decoded, Loading, Mirrors
  <2>2. prog[p] \in FlatInstr
    BY DEF Loading
  <2>3. prog[p].off \in Off
    BY <2>2 DEF FlatInstr, Unsupported
  <2>4. m \in Nat \ {0} /\ 2^OffW \in Nat \ {0} /\ S \in Int
        /\ -(2^OffW) <= S /\ S < 2^OffW
    BY <2>3, PowerTypes DEF Off, Signed
  <2>5. code[p].if_true = ((p + S) % m) + 1
    <3>1. code[p] = decode_instr(p - 1, prog[p])
      BY <2>1 DEF Mirrors
    <3>2. code[p].if_true = succ(jump_off_to_jump_target(p - 1, prog[p].off))
      BY <3>1 DEF decode_instr
    <3>3. S + 1 + (p - 1) = p + S
      BY <2>4
    <3> QED
      BY <3>2, <3>3 DEF succ, jump_off_to_jump_target
  <2>6. (p + S) % m = IF p + S < 0 THEN p + S + m ELSE p + S
    <3>1. p + S \in Int /\ -m <= p + S /\ p + S < m
      BY <2>1, <2>4
    <3> HIDE DEF S, m
    <3> QED
      BY <2>4, <3>1, Wraps
  <2>7. p + 1 + S = (p + S) + 1 /\ p \in Int
    BY <2>1, <2>4
  <2> HIDE DEF S, m
  <2>8. CASE p + S < 0
    <3>1. code[p].if_true > n /\ code[p].if_true \in Int
      BY <2>1, <2>4, <2>5, <2>6, <2>7, <2>8
    <3>2. p + 1 + S \notin 1 .. n
      BY <2>1, <2>4, <2>7, <2>8
    <3> QED
      BY <2>1, <3>1, <3>2 DEF S
  <2>9. CASE ~(p + S < 0)
    <3>1. code[p].if_true = p + 1 + S
      BY <2>4, <2>5, <2>6, <2>7, <2>9
    <3> QED
      BY <2>1, <3>1 DEF S
  <2> QED
    BY <2>8, <2>9
<1> QED
  BY <1>1, LoaderInvariant, PTL

-----------------------------------------------------------------------------
(* Immediates.                                                             *)

\* Sign extension to a wider word keeps the signed number.
LEMMA SignKept ==
  ASSUME NEW imm \in Imm
  PROVE  Signed(msb_imm_sext_to_lsb(imm), W) = Signed(imm, ImmW)
<1> DEFINE h == 2^(ImmW - 1)
           H == 2^(W - 1)
           N == 2^W
           S == Signed(imm, ImmW)
<1>1. /\ W - 1 \in Nat /\ (W - 1) + 1 = W
      /\ ImmW - 1 \in Nat /\ (ImmW - 1) + 1 = ImmW /\ ImmW - 1 <= W - 1
  BY WAssumption, WidthAssumption
<1>2. /\ h \in Nat \ {0} /\ 2^ImmW = 2 * h
      /\ H \in Nat \ {0} /\ N = 2 * H /\ N \in Nat \ {0}
  <2>1. \A n \in Nat : 2^n \in Nat \ {0} /\ 2^(n + 1) = 2 * 2^n
    BY PowerFacts
  <2>2. 2^((ImmW - 1) + 1) = 2 * 2^(ImmW - 1) /\ 2^((W - 1) + 1) = 2 * 2^(W - 1)
    BY <1>1, <2>1
  <2>3. h \in Nat \ {0} /\ H \in Nat \ {0}
    BY <1>1, <2>1
  <2> QED
    BY <1>1, <2>2, <2>3
<1>3. h <= H
  BY <1>1, PowerOrder
<1>4. S \in -h .. h - 1
  <2>1. imm \in 0 .. 2 * h - 1
    BY <1>2 DEF Imm
  <2>2. S = IF imm < h THEN imm ELSE imm - 2 * h
    BY <1>2 DEF Signed
  <2> HIDE DEF h, S
  <2> QED
    BY <1>2, <2>1, <2>2
<1>5. S % N = IF S < 0 THEN S + N ELSE S
  <2>1. -N <= S /\ S < N /\ S \in Int
    <3> HIDE DEF h, H, N, S
    <3> QED
      BY <1>2, <1>3, <1>4
  <2> HIDE DEF N, S
  <2> QED
    BY <1>2, <2>1, Wraps
<1>6. (IF S % N < H THEN S % N ELSE (S % N) - N) = S
  <2> HIDE DEF h, H, N, S
  <2> QED
    BY <1>2, <1>3, <1>4, <1>5
<1>7. Signed(msb_imm_sext_to_lsb(imm), W)
        = IF S % N < H THEN S % N ELSE (S % N) - N
  BY DEF msb_imm_sext_to_lsb, Signed
<1> QED
  BY <1>6, <1>7

(***************************************************************************)
(* msb_imm_sext_to_lsb: for every width of words and of immediates, the    *)
(* immediate of a decoded instruction is, as a signed word, the signed     *)
(* immediate of the instruction it was decoded from.                       *)
(***************************************************************************)
THEOREM SignExtension == LoaderSpec => []ImmediatesKeepSign
<1>1. Loading /\ Mirrors => ImmediatesKeepSign
  <2> SUFFICES ASSUME Loading, Mirrors, NEW l \in DOMAIN code,
                      code[l].kind \in {"ALU64_K", "JMP64_K"}
               PROVE  Signed(code[l].imm, W) = Signed(prog[l].imm, ImmW)
    BY DEF ImmediatesKeepSign
  <2>1. /\ l \in 1 .. Len(prog) /\ prog[l] \in FlatInstr
        /\ code[l] = decode_instr(l - 1, prog[l])
    BY DEF Loading, Mirrors
  <2>2. prog[l].kind \in {"ALU64_K", "JMP64_K"}
    BY <2>1 DEF FlatInstr, decode_instr, Unsupported
  <2>3. prog[l].imm \in Imm
    BY <2>1, <2>2 DEF FlatInstr, Unsupported
  <2>4. code[l].imm = msb_imm_sext_to_lsb(prog[l].imm)
    BY <2>1, <2>2 DEF decode_instr
  <2> QED
    BY <2>3, <2>4, SignKept
<1> QED
  BY <1>1, LoaderInvariant, PTL
=============================================================================
