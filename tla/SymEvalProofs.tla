---------------------------- MODULE SymEvalProofs ----------------------------
(***************************************************************************)
(* Proofs about module SymEval, for every program, every width, every      *)
(* depth of evaluation and every number of helper calls.                   *)
(***************************************************************************)
EXTENDS SymEval, LoaderProofs, TLAPS

-----------------------------------------------------------------------------
(* Operations by the kinds of their operands.                              *)

\* The operations on scalars return words (the type of doALU64_scalar).
LEMMA ALUClosed ==
  \A op \in ALU : \A x, y \in Word : doALU64_scalar(op, x, y) \in Word
<1> SUFFICES ASSUME NEW op \in ALU, NEW x \in Word, NEW y \in Word
             PROVE  doALU64_scalar(op, x, y) \in Word
  OBVIOUS
<1>1. CASE op \in {"ADD", "SUB", "MUL", "NEG", "LSH", "ARSH"}
  BY <1>1, WordOperations DEF doALU64_scalar
<1>2. CASE op \in {"DIV", "MOD"}
  BY <1>2, DivWords DEF doALU64_scalar
<1>3. CASE op \in {"AND", "OR", "XOR"}
  BY <1>3, AndBits, OrBits, XorBits DEF doALU64_scalar
<1>4. CASE op = "RSH"
  <2>1. y \in Nat
    BY WordFacts
  <2> QED
    BY <1>4, <2>1, LshrWords DEF doALU64_scalar
<1>5. CASE op \in {"MOV", "END"}
  BY <1>5 DEF doALU64_scalar
<1> QED
  BY <1>1, <1>2, <1>3, <1>4, <1>5 DEF ALU

\* The three branches of doALU64.
LEMMA ALUBranches ==
  ASSUME NEW op, NEW a, NEW b
  PROVE  /\ is_scalar(a) /\ is_scalar(b)
              => doALU64(op, a, b) = scalar(doALU64_scalar(op, a.n, b.n))
         /\ ~is_scalar(a) /\ is_pointer(a) /\ is_scalar(b)
              => doALU64(op, a, b) = doALU_pointer_scalar(op, a.m, a.n, b.n)
         /\ ~is_scalar(b) \/ (~is_scalar(a) /\ ~is_pointer(a))
              => doALU64(op, a, b) = IF op = "MOV" THEN b ELSE a
<1>1. is_scalar(a) => ~is_pointer(a)
  BY DEF is_scalar, is_pointer
<1>2. ASSUME is_scalar(a) /\ is_scalar(b)
      PROVE  doALU64(op, a, b) = scalar(doALU64_scalar(op, a.n, b.n))
  BY <1>1, <1>2, Zenon DEF doALU64
<1>3. ASSUME ~is_scalar(a) /\ is_pointer(a) /\ is_scalar(b)
      PROVE  doALU64(op, a, b) = doALU_pointer_scalar(op, a.m, a.n, b.n)
  BY <1>1, <1>3, Zenon DEF doALU64
<1>4. ASSUME ~is_scalar(b) \/ (~is_scalar(a) /\ ~is_pointer(a))
      PROVE  doALU64(op, a, b) = IF op = "MOV" THEN b ELSE a
  BY <1>1, <1>4, Zenon DEF doALU64
<1> QED
  BY <1>2, <1>3, <1>4

\* The three branches of symbolic doALU.
LEMMA SymALUBranches ==
  ASSUME NEW op, NEW a, NEW b
  PROVE  /\ is_scalar(a) /\ is_scalar(b)
              => sym_doALU(op, a, b)
                   = sym_scalar([o \in Oracle |->
                                   doALU64_scalar(op, a.t[o], b.t[o])])
         /\ ~is_scalar(a) /\ is_pointer(a) /\ is_scalar(b)
              => sym_doALU(op, a, b)
                   = sym_doALU_pointer_scalar(op, a.m, a.t, b.t)
         /\ ~is_scalar(b) \/ (~is_scalar(a) /\ ~is_pointer(a))
              => sym_doALU(op, a, b) = IF op = "MOV" THEN b ELSE a
<1>1. is_scalar(a) => ~is_pointer(a)
  BY DEF is_scalar, is_pointer
<1>2. ASSUME is_scalar(a) /\ is_scalar(b)
      PROVE  sym_doALU(op, a, b)
          = sym_scalar([o \in Oracle |->
                          doALU64_scalar(op, a.t[o], b.t[o])])
  BY <1>1, <1>2, Zenon DEF sym_doALU
<1>3. ASSUME ~is_scalar(a) /\ is_pointer(a) /\ is_scalar(b)
      PROVE  sym_doALU(op, a, b)
          = sym_doALU_pointer_scalar(op, a.m, a.t, b.t)
  BY <1>1, <1>3, Zenon DEF sym_doALU
<1>4. ASSUME ~is_scalar(b) \/ (~is_scalar(a) /\ ~is_pointer(a))
      PROVE  sym_doALU(op, a, b) = IF op = "MOV" THEN b ELSE a
  BY <1>1, <1>4, Zenon DEF sym_doALU
<1> QED
  BY <1>2, <1>3, <1>4

\* The three branches of symbolic doALU_check.
LEMMA SymCheckBranches ==
  ASSUME NEW op, NEW a, NEW b
  PROVE  /\ is_scalar(a) /\ is_scalar(b)
              => sym_doALU_check(op, a, b) = sym_doALU64_scalar_check(op, b.t)
         /\ ~is_scalar(a) /\ is_pointer(a) /\ is_scalar(b)
              => sym_doALU_check(op, a, b)
                   = mk_bool(doALU_pointer_scalar_check(op))
         /\ ~is_scalar(b) \/ (~is_scalar(a) /\ ~is_pointer(a))
              => sym_doALU_check(op, a, b)
                   = mk_bool(op = "MOV" /\ b # uninitialized)
<1>1. is_scalar(a) => ~is_pointer(a)
  BY DEF is_scalar, is_pointer
<1>2. ASSUME is_scalar(a) /\ is_scalar(b)
      PROVE  sym_doALU_check(op, a, b) = sym_doALU64_scalar_check(op, b.t)
  BY <1>1, <1>2, Zenon DEF sym_doALU_check
<1>3. ASSUME ~is_scalar(a) /\ is_pointer(a) /\ is_scalar(b)
      PROVE  sym_doALU_check(op, a, b)
          = mk_bool(doALU_pointer_scalar_check(op))
  BY <1>1, <1>3, Zenon DEF sym_doALU_check
<1>4. ASSUME ~is_scalar(b) \/ (~is_scalar(a) /\ ~is_pointer(a))
      PROVE  sym_doALU_check(op, a, b)
          = mk_bool(op = "MOV" /\ b # uninitialized)
  BY <1>1, <1>4, Zenon DEF sym_doALU_check
<1> QED
  BY <1>2, <1>3, <1>4

\* The three branches of denote.
LEMMA DenoteBranches ==
  ASSUME NEW v, NEW o
  PROVE  /\ is_scalar(v)
              => denote(v, o) = scalar(v.t[o])
         /\ ~is_scalar(v) /\ is_pointer(v)
              => denote(v, o) = pointer(v.m, v.t[o])
         /\ ~is_scalar(v) /\ ~is_pointer(v)
              => denote(v, o) = uninitialized
<1>1. is_scalar(v) => ~is_pointer(v)
  BY DEF is_scalar, is_pointer
<1>2. ASSUME is_scalar(v)
      PROVE  denote(v, o) = scalar(v.t[o])
  BY <1>1, <1>2, Zenon DEF denote
<1>3. ASSUME ~is_scalar(v) /\ is_pointer(v)
      PROVE  denote(v, o) = pointer(v.m, v.t[o])
  BY <1>1, <1>3, Zenon DEF denote
<1>4. ASSUME ~is_scalar(v) /\ ~is_pointer(v)
      PROVE  denote(v, o) = uninitialized
  BY <1>1, <1>4, Zenon DEF denote
<1> QED
  BY <1>2, <1>3, <1>4

-----------------------------------------------------------------------------
(* Symbolic values (symbolic_value.lean).                                  *)

\* The three kinds of symbolic value and what they denote.
LEMMA SymCases ==
  ASSUME NEW v \in SymValue, NEW o \in Oracle
  PROVE  \/ /\ is_scalar(v) /\ ~is_pointer(v) /\ v.t \in Term
            /\ denote(v, o) = scalar(v.t[o]) /\ v.t[o] \in Word
         \/ /\ is_pointer(v) /\ ~is_scalar(v) /\ v.t \in Term /\ v.m \in Region
            /\ denote(v, o) = pointer(v.m, v.t[o]) /\ v.t[o] \in Word
         \/ /\ v = uninitialized /\ ~is_scalar(v) /\ ~is_pointer(v)
            /\ denote(v, o) = uninitialized
<1>1. CASE v \in [tag : {"scalar"}, t : Term]
  BY <1>1, DenoteBranches DEF is_scalar, is_pointer, Term
<1>2. CASE v \in [tag : {"pointer"}, m : Region, t : Term]
  BY <1>2, DenoteBranches DEF is_scalar, is_pointer, Term
<1>3. CASE v = uninitialized
  BY <1>3, DenoteBranches DEF is_scalar, is_pointer, uninitialized
<1> QED
  BY <1>1, <1>2, <1>3 DEF SymValue

\* What a symbolic value denotes is a value of its kind.
LEMMA DenoteKind ==
  ASSUME NEW v \in SymValue, NEW o \in Oracle
  PROVE  /\ denote(v, o) \in Value
         /\ is_scalar(denote(v, o)) <=> is_scalar(v)
         /\ is_pointer(denote(v, o)) <=> is_pointer(v)
         /\ denote(v, o) = uninitialized <=> v = uninitialized
<1>1. CASE is_scalar(v)
  BY <1>1, SymCases
     DEF Value, scalar, is_scalar, is_pointer, uninitialized
<1>2. CASE is_pointer(v)
  BY <1>2, SymCases
     DEF Value, pointer, is_scalar, is_pointer, uninitialized
<1>3. CASE v = uninitialized
  BY <1>3, SymCases DEF Value, is_scalar, is_pointer, uninitialized
<1> QED
  BY <1>1, <1>2, <1>3, SymCases

\* doALU and doALU_check: the operations are closed, and denote the concrete
\* ones (sat_doALU, sat_doALU_check).
LEMMA ALUDenotes ==
  ASSUME NEW op \in ALU, NEW a \in SymValue, NEW b \in SymValue
  PROVE  /\ sym_doALU(op, a, b) \in SymValue
         /\ sym_doALU_check(op, a, b) \subseteq Oracle
         /\ \A o \in Oracle :
              /\ denote(sym_doALU(op, a, b), o)
                   = doALU64(op, denote(a, o), denote(b, o))
              /\ o \in sym_doALU_check(op, a, b)
                   <=> doALU64_check(op, denote(a, o), denote(b, o))
<1> USE DEF mk_bool, mk_true, mk_false
<1>1. CASE is_scalar(a) /\ is_scalar(b)
  <2> DEFINE t == [o \in Oracle |-> doALU64_scalar(op, a.t[o], b.t[o])]
  <2>1. \A o \in Oracle : /\ a.t[o] \in Word /\ b.t[o] \in Word
                          /\ denote(a, o) = scalar(a.t[o])
                          /\ denote(b, o) = scalar(b.t[o])
    BY <1>1, SymCases
  <2>2. t \in Term
    BY <2>1, ALUClosed DEF Term
  <2>3. sym_doALU(op, a, b) = sym_scalar(t)
    BY <1>1, SymALUBranches
  <2>4. sym_scalar(t) \in SymValue
    BY <2>2 DEF SymValue, sym_scalar
  <2>5. ASSUME NEW o \in Oracle
        PROVE  /\ denote(sym_scalar(t), o) = scalar(t[o])
               /\ doALU64(op, denote(a, o), denote(b, o)) = scalar(t[o])
    <3>1. is_scalar(sym_scalar(t)) /\ sym_scalar(t).t = t
      BY DEF is_scalar, sym_scalar
    <3>2. denote(sym_scalar(t), o) = scalar(t[o])
      BY <3>1, DenoteBranches
    <3>3. /\ is_scalar(denote(a, o)) /\ is_scalar(denote(b, o))
          /\ denote(a, o).n = a.t[o] /\ denote(b, o).n = b.t[o]
      BY <2>1 DEF is_scalar, scalar
    <3>4. doALU64(op, denote(a, o), denote(b, o))
            = scalar(doALU64_scalar(op, a.t[o], b.t[o]))
      BY <3>3, ALUBranches
    <3> QED
      BY <3>2, <3>4
  <2>6. ASSUME NEW o \in Oracle
        PROVE  o \in sym_doALU_check(op, a, b)
                 <=> doALU64_check(op, denote(a, o), denote(b, o))
    <3>1. /\ is_scalar(denote(a, o)) /\ is_scalar(denote(b, o))
          /\ ~is_pointer(denote(a, o))
          /\ denote(a, o).n = a.t[o] /\ denote(b, o).n = b.t[o]
      BY <2>1 DEF is_scalar, is_pointer, scalar
    <3>2. o \in sym_doALU_check(op, a, b)
            <=> doALU64_scalar_check(op, a.t[o], b.t[o])
      BY <1>1, SymCheckBranches
         DEF sym_doALU64_scalar_check, doALU64_scalar_check
    <3>3. op = "MOV" => doALU64_scalar_check(op, a.t[o], b.t[o])
      BY DEF doALU64_scalar_check
    <3> QED
      BY <3>1, <3>2, <3>3 DEF doALU64_check
  <2>7. sym_doALU_check(op, a, b) \subseteq Oracle
    BY <1>1, SymCheckBranches DEF sym_doALU64_scalar_check
  <2> HIDE DEF t
  <2> QED
    BY <2>3, <2>4, <2>5, <2>6, <2>7
<1>2. CASE is_pointer(a) /\ is_scalar(b)
  <2>1. \A o \in Oracle : /\ a.t[o] \in Word /\ b.t[o] \in Word
                          /\ denote(a, o) = pointer(a.m, a.t[o])
                          /\ denote(b, o) = scalar(b.t[o])
    BY <1>2, SymCases
  <2>2. /\ ~is_scalar(a)
        /\ \A o \in Oracle : /\ is_pointer(denote(a, o))
                             /\ ~is_scalar(denote(a, o))
                             /\ is_scalar(denote(b, o))
                             /\ denote(b, o) # uninitialized
                             /\ denote(a, o).m = a.m
                             /\ denote(a, o).n = a.t[o]
                             /\ denote(b, o).n = b.t[o]
    BY <1>2, <2>1 DEF is_pointer, is_scalar, pointer, scalar, uninitialized
  <2>3. /\ sym_doALU_check(op, a, b) \subseteq Oracle
        /\ \A o \in Oracle : o \in sym_doALU_check(op, a, b)
             <=> doALU64_check(op, denote(a, o), denote(b, o))
    BY <1>2, <2>2, SymCheckBranches
       DEF doALU64_check, doALU_pointer_scalar_check
  <2>4. \A o \in Oracle : doALU64(op, denote(a, o), denote(b, o))
                            = doALU_pointer_scalar(op, a.m, a.t[o], b.t[o])
    BY <1>2, <2>2, ALUBranches
  <2>5. ASSUME NEW t \in Term
        PROVE  /\ sym_pointer(a.m, t) \in SymValue
               /\ \A o \in Oracle :
                    denote(sym_pointer(a.m, t), o) = pointer(a.m, t[o])
    <3>1. a.m \in Region
      BY <1>2 DEF SymValue, is_pointer, uninitialized
    <3>2. sym_pointer(a.m, t) \in SymValue
      BY <3>1 DEF SymValue, sym_pointer
    <3>3. /\ is_pointer(sym_pointer(a.m, t)) /\ ~is_scalar(sym_pointer(a.m, t))
          /\ sym_pointer(a.m, t).m = a.m /\ sym_pointer(a.m, t).t = t
      BY DEF is_pointer, is_scalar, sym_pointer
    <3> QED
      BY <3>2, <3>3, DenoteBranches
  <2>6. sym_doALU(op, a, b) = sym_doALU_pointer_scalar(op, a.m, a.t, b.t)
    <3>1. ~is_scalar(a) /\ is_pointer(a) /\ is_scalar(b)
      BY <1>2, <2>2
    <3> QED
      BY <3>1, Zenon DEF sym_doALU
  <2>7. CASE op = "ADD"
    <3> DEFINE t == [o \in Oracle |-> bv_add(a.t[o], b.t[o])]
    <3>1. t \in Term
      BY <2>1, <2>7, ALUClosed DEF Term, doALU64_scalar, ALU
    <3>2. sym_doALU_pointer_scalar(op, a.m, a.t, b.t) = sym_pointer(a.m, t)
      BY <2>7 DEF sym_doALU_pointer_scalar
    <3>3. \A o \in Oracle : doALU_pointer_scalar(op, a.m, a.t[o], b.t[o])
                              = pointer(a.m, t[o])
      BY <2>7 DEF doALU_pointer_scalar
    <3> HIDE DEF t
    <3> QED
      BY <2>3, <2>4, <2>5, <2>6, <3>1, <3>2, <3>3
  <2>8. CASE op = "SUB"
    <3> DEFINE t == [o \in Oracle |-> bv_sub(a.t[o], b.t[o])]
    <3>1. t \in Term
      BY <2>1, <2>8, ALUClosed DEF Term, doALU64_scalar, ALU
    <3>2. sym_doALU_pointer_scalar(op, a.m, a.t, b.t) = sym_pointer(a.m, t)
      BY <2>8 DEF sym_doALU_pointer_scalar
    <3>3. \A o \in Oracle : doALU_pointer_scalar(op, a.m, a.t[o], b.t[o])
                              = pointer(a.m, t[o])
      BY <2>8 DEF doALU_pointer_scalar
    <3> HIDE DEF t
    <3> QED
      BY <2>3, <2>4, <2>5, <2>6, <3>1, <3>2, <3>3
  <2>9. CASE op = "MOV"
    <3>1. sym_doALU_pointer_scalar(op, a.m, a.t, b.t) = sym_scalar(b.t)
      BY <2>9 DEF sym_doALU_pointer_scalar
    <3>2. b.t \in Term
      BY <1>2 DEF SymValue, is_scalar, uninitialized
    <3>3. /\ sym_scalar(b.t) \in SymValue /\ is_scalar(sym_scalar(b.t))
          /\ sym_scalar(b.t).t = b.t
      BY <3>2 DEF SymValue, sym_scalar, is_scalar
    <3>4. \A o \in Oracle : doALU_pointer_scalar(op, a.m, a.t[o], b.t[o])
                              = scalar(b.t[o])
      BY <2>9 DEF doALU_pointer_scalar
    <3>5. \A o \in Oracle : denote(sym_scalar(b.t), o) = scalar(b.t[o])
      BY <3>3, DenoteBranches
    <3> QED
      BY <2>3, <2>4, <2>6, <3>1, <3>3, <3>4, <3>5
  <2>10. CASE op \notin {"ADD", "SUB", "MOV"}
    <3>1. sym_doALU_pointer_scalar(op, a.m, a.t, b.t) = sym_pointer(a.m, a.t)
      BY <2>10 DEF sym_doALU_pointer_scalar
    <3>2. a.t \in Term
      BY <1>2 DEF SymValue, is_pointer, uninitialized
    <3>3. \A o \in Oracle : doALU_pointer_scalar(op, a.m, a.t[o], b.t[o])
                              = pointer(a.m, a.t[o])
      BY <2>10 DEF doALU_pointer_scalar
    <3> QED
      BY <2>3, <2>4, <2>5, <2>6, <3>1, <3>2, <3>3
  <2> QED
    BY <2>7, <2>8, <2>9, <2>10
<1>3. CASE ~is_scalar(b) \/ ~(is_scalar(a) \/ is_pointer(a))
  <2>1. \A o \in Oracle :
          \/ ~is_scalar(denote(b, o))
          \/ ~is_scalar(denote(a, o)) /\ ~is_pointer(denote(a, o))
    BY <1>3, DenoteKind
  <2>2. \A o \in Oracle : b = uninitialized <=> denote(b, o) = uninitialized
    BY DenoteKind
  <2>3. /\ sym_doALU(op, a, b) = IF op = "MOV" THEN b ELSE a
        /\ sym_doALU_check(op, a, b) = mk_bool(op = "MOV" /\ b # uninitialized)
    <3>1. ~is_scalar(b) \/ (~is_scalar(a) /\ ~is_pointer(a))
      BY <1>3
    <3>2. is_scalar(a) => ~is_pointer(a)
      BY DEF is_scalar, is_pointer
    <3>3. sym_doALU(op, a, b) = IF op = "MOV" THEN b ELSE a
      BY <3>1, <3>2, Zenon DEF sym_doALU
    <3>4. sym_doALU_check(op, a, b) = mk_bool(op = "MOV" /\ b # uninitialized)
      BY <3>1, <3>2, Zenon DEF sym_doALU_check
    <3> QED
      BY <3>3, <3>4
  <2>4. \A o \in Oracle :
          /\ doALU64(op, denote(a, o), denote(b, o))
               = IF op = "MOV" THEN denote(b, o) ELSE denote(a, o)
          /\ doALU64_check(op, denote(a, o), denote(b, o))
               <=> op = "MOV" /\ b # uninitialized
    BY <2>1, <2>2, ALUBranches DEF doALU64_check
  <2> QED
    BY <2>3, <2>4
<1> QED
  BY <1>1, <1>2, <1>3

\* doJMP64 and doJMP64_check denote the concrete tests (sat_doJMP64).
LEMMA JMPDenotes ==
  ASSUME NEW op \in JMP, NEW a \in SymValue, NEW b \in SymValue
  PROVE  /\ sym_doJMP64(op, a, b) \subseteq Oracle
         /\ sym_doJMP64_check(a, b) \subseteq Oracle
         /\ \A o \in Oracle :
              /\ o \in sym_doJMP64(op, a, b)
                   <=> doJMP64(op, denote(a, o), denote(b, o))
              /\ o \in sym_doJMP64_check(a, b)
                   <=> doJMP64_check(op, denote(a, o), denote(b, o))
<1> USE DEF mk_bool, mk_true, mk_false
<1>1. CASE is_scalar(a) /\ is_scalar(b)
  <2>1. \A o \in Oracle : /\ denote(a, o) = scalar(a.t[o])
                          /\ denote(b, o) = scalar(b.t[o])
    BY <1>1, SymCases
  <2>2. \A o \in Oracle : /\ is_scalar(denote(a, o)) /\ is_scalar(denote(b, o))
                          /\ denote(a, o).n = a.t[o] /\ denote(b, o).n = b.t[o]
    BY <2>1 DEF is_scalar, scalar
  <2>3. sym_doJMP64(op, a, b)
          = {o \in Oracle : doJMP_scalar(op, a.t[o], b.t[o])}
    BY <1>1 DEF sym_doJMP64
  <2> QED
    BY <1>1, <2>2, <2>3 DEF sym_doJMP64_check, doJMP64, doJMP64_check
<1>2. CASE ~(is_scalar(a) /\ is_scalar(b))
  <2>1. \A o \in Oracle : ~(is_scalar(denote(a, o)) /\ is_scalar(denote(b, o)))
    BY <1>2, DenoteKind
  <2> QED
    BY <1>2, <2>1 DEF sym_doJMP64, sym_doJMP64_check, doJMP64, doJMP64_check
<1> QED
  BY <1>1, <1>2

-----------------------------------------------------------------------------
(* Symbolic states.                                                        *)

\* The registers that a symbolic state stands for under oracle o.
Denoted(s, o) == [r \in Reg |-> denote(s.regs[r], o)]

ALUKinds == {"ALU64_X", "ALU64_K"}
JMPKinds == {"JMP64_X", "JMP64_K"}

\* The states that evaluation of s goes on with.
Continuations(s) ==
  IF Fetches(ALUKinds, s) THEN {step_alu64(code[s.current], s)}
  ELSE IF Fetches(JMPKinds, s)
    THEN {step_jmp64(code[s.current], s, taken) : taken \in BOOLEAN}
  ELSE IF Fetches({"CALL"}, s) THEN {step_call(code[s.current], s)}
  ELSE {}

\* What s adds to the verification condition when it is evaluated.
Contribution(s) ==
  IF s.fuel = 0 THEN infeasible(s)
  ELSE IF Fetches({"Exit"}, s) THEN step_exit(s)
  ELSE IF Dies(s) THEN mk_false
  ELSE mk_true

\* The fields of a symbolic state.
LEMMA SymStateFields ==
  ASSUME NEW s \in SymState
  PROVE  /\ s.assumptions \subseteq Oracle /\ s.assertions \subseteq Oracle
         /\ s.current \in Label /\ s.regs \in [Reg -> SymValue]
         /\ s.next_rng \in Nat /\ s.fuel \in 0 .. Fuel
  BY DEF SymState

\* What a symbolic state denotes is a register file.
LEMMA DenotedTypes ==
  ASSUME NEW s \in SymState, NEW o \in Oracle
  PROVE  /\ Denoted(s, o) \in [Reg -> Value]
         /\ \A r \in Reg : Denoted(s, o)[r] = denote(s.regs[r], o)
  BY SymStateFields, DenoteKind DEF Denoted

\* The second operand of an instruction, symbolic and concrete.
LEMMA OperandDenotes ==
  ASSUME NEW i \in Instr, i.kind \in Operation, NEW s \in SymState
  PROVE  /\ sym_operand(i, s.regs) \in SymValue
         /\ \A o \in Oracle :
              denote(sym_operand(i, s.regs), o) = operand(i, Denoted(s, o))
<1>1. CASE i.kind \in {"ALU64_X", "JMP64_X"}
  <2>1. i.src \in Reg
    BY <1>1, OperationTypes
  <2> QED
    BY <1>1, <2>1, SymStateFields, DenotedTypes DEF sym_operand, operand
<1>2. CASE i.kind \in {"ALU64_K", "JMP64_K"}
  <2>1. i.imm \in Word
    BY <1>2 DEF Instr, Unsupported
  <2> DEFINE c == mk_const(i.imm)
  <2>2. c \in Term /\ \A o \in Oracle : c[o] = i.imm
    BY <2>1 DEF mk_const, Term
  <2>3. sym_operand(i, s.regs) = sym_scalar(c) /\ operand(i, s.regs) = scalar(i.imm)
    BY <1>2 DEF sym_operand, operand
  <2>4. /\ sym_scalar(c) \in SymValue /\ is_scalar(sym_scalar(c))
        /\ sym_scalar(c).t = c
    BY <2>2 DEF SymValue, sym_scalar, is_scalar
  <2>5. \A o \in Oracle : operand(i, Denoted(s, o)) = scalar(i.imm)
    BY <1>2 DEF operand
  <2>6. \A o \in Oracle : denote(sym_scalar(c), o) = scalar(c[o])
    BY <2>4, DenoteBranches
  <2> QED
    BY <2>2, <2>3, <2>4, <2>5, <2>6
<1> QED
  BY <1>1, <1>2 DEF Operation

\* An instruction that is fetched is one of the program, of the kinds asked.
LEMMA FetchedTypes ==
  ASSUME Program(code), NEW s \in SymState, NEW K, Fetches(K, s)
  PROVE  /\ s.current \in DOMAIN code /\ code[s.current] \in Instr
         /\ code[s.current].kind \in K /\ s.fuel - 1 \in 0 .. Fuel
         /\ code[s.current].kind = "CALL" => s.next_rng < Draws
  BY FuelAssumption, SymStateFields DEF Fetches, Program

\* assert and assume_ change one field.
LEMMA AssertFields ==
  ASSUME NEW s \in SymState, NEW c \in SUBSET Oracle
  PROVE  /\ assert(c, s) \in SymState
         /\ assert(c, s).assumptions = s.assumptions
         /\ assert(c, s).current = s.current
         /\ assert(c, s).regs = s.regs
         /\ assert(c, s).next_rng = s.next_rng
         /\ assert(c, s).fuel = s.fuel
         /\ \A o \in Oracle : o \in assert(c, s).assertions
              <=> o \in s.assertions /\ (o \in s.assumptions => o \in c)
<1>1. assert(c, s).assertions
        = s.assertions \cap ((Oracle \ s.assumptions) \cup c)
  BY DEF assert, mk_not, SymState
<1> QED
  BY <1>1 DEF assert, SymState

\* An ALU instruction: one continuation, under the same assumptions.
LEMMA ALUContinues ==
  ASSUME Program(code), NEW s \in SymState, Fetches(ALUKinds, s)
  PROVE  LET i == code[s.current]
             t == step_alu64(i, s)
         IN  /\ t \in SymState
             /\ t.assumptions = s.assumptions
             /\ t.next_rng = s.next_rng
             /\ t.current = i.next
             /\ \A o \in Oracle :
                  LET d == Denoted(s, o)
                  IN  /\ o \in t.assertions
                           <=> /\ o \in s.assertions
                               /\ o \in s.assumptions
                                    => doALU64_check(i.op, d[i.dst], operand(i, d))
                      /\ Denoted(t, o)
                           = [d EXCEPT ![i.dst] =
                                doALU64(i.op, d[i.dst], operand(i, d))]
<1> DEFINE i == code[s.current]
           x == s.regs[i.dst]
           y == sym_operand(i, s.regs)
           c == sym_doALU_check(i.op, x, y)
           v == sym_doALU(i.op, x, y)
           a == assert(c, s)
           t == step_alu64(i, s)
<1>1. /\ i \in Instr /\ i.kind \in ALUKinds /\ s.fuel - 1 \in 0 .. Fuel
      /\ i.kind \in Operation
  BY FetchedTypes DEF ALUKinds, Operation
<1>2. i.op \in ALU /\ i.dst \in Reg /\ i.next \in Label
  <2>1. i.next \in Label
    BY <1>1 DEF ALUKinds, Instr, Unsupported
  <2> QED
    BY <1>1, <2>1, OperationTypes DEF ALUKinds
<1>3. x \in SymValue /\ y \in SymValue
  BY <1>1, <1>2, SymStateFields, OperandDenotes
<1>4. v \in SymValue /\ c \in SUBSET Oracle
  BY <1>2, <1>3, ALUDenotes
<1>5. t = [a EXCEPT !.regs[i.dst] = v, !.current = i.next, !.fuel = @ - 1]
  BY DEF step_alu64, goto
<1> HIDE DEF c, v
<1>6. /\ t \in SymState
      /\ t.assumptions = s.assumptions
      /\ t.assertions = a.assertions
      /\ t.next_rng = s.next_rng
      /\ t.current = i.next
      /\ t.regs = [s.regs EXCEPT ![i.dst] = v]
  <2>1. /\ a \in SymState /\ a.assumptions = s.assumptions
        /\ a.regs = s.regs /\ a.next_rng = s.next_rng /\ a.fuel = s.fuel
    BY <1>4, AssertFields
  <2> HIDE DEF a, t
  <2>2. /\ t.assumptions = s.assumptions
        /\ t.assertions = a.assertions
        /\ t.next_rng = s.next_rng
        /\ t.current = i.next
        /\ t.regs = [s.regs EXCEPT ![i.dst] = v]
        /\ t.fuel = s.fuel - 1
    BY <1>5, <2>1 DEF SymState
  <2>3. [s.regs EXCEPT ![i.dst] = v] \in [Reg -> SymValue]
    BY <1>4, SymStateFields
  <2>4. t = [assumptions |-> t.assumptions, assertions |-> t.assertions,
             current |-> t.current, regs |-> t.regs,
             next_rng |-> t.next_rng, fuel |-> t.fuel]
    BY <1>5, <2>1 DEF SymState
  <2>5. /\ t.assumptions \in SUBSET Oracle /\ t.assertions \in SUBSET Oracle
        /\ t.current \in Label /\ t.regs \in [Reg -> SymValue]
        /\ t.next_rng \in Nat /\ t.fuel \in 0 .. Fuel
    BY <1>1, <1>2, <2>1, <2>2, <2>3, SymStateFields
  <2>6. t \in SymState
    BY <2>4, <2>5 DEF SymState
  <2> QED
    BY <2>2, <2>6
<1>7. ASSUME NEW o \in Oracle
      PROVE  LET d == Denoted(s, o)
             IN  /\ o \in t.assertions
                      <=> /\ o \in s.assertions
                          /\ o \in s.assumptions
                               => doALU64_check(i.op, d[i.dst], operand(i, d))
                 /\ Denoted(t, o)
                      = [d EXCEPT ![i.dst] =
                           doALU64(i.op, d[i.dst], operand(i, d))]
  <2> DEFINE d == Denoted(s, o)
  <2>1. d[i.dst] = denote(x, o) /\ operand(i, d) = denote(y, o)
    BY <1>1, <1>2, DenotedTypes, OperandDenotes
  <2>2. /\ o \in c <=> doALU64_check(i.op, d[i.dst], operand(i, d))
        /\ denote(v, o) = doALU64(i.op, d[i.dst], operand(i, d))
    BY <1>2, <1>3, <2>1, ALUDenotes DEF c, v
  <2>3. o \in t.assertions
          <=> o \in s.assertions /\ (o \in s.assumptions => o \in c)
    BY <1>4, <1>6, AssertFields
  <2>4. Denoted(t, o) = [d EXCEPT ![i.dst] = denote(v, o)]
    BY <1>2, <1>6, SymStateFields DEF Denoted
  <2> QED
    BY <2>2, <2>3, <2>4
<1> QED
  BY <1>2, <1>6, <1>7

\* A jump: two continuations, whose assumptions share those of the state.
LEMMA JMPContinues ==
  ASSUME Program(code), NEW s \in SymState, Fetches(JMPKinds, s),
         NEW taken \in BOOLEAN
  PROVE  LET i == code[s.current]
             t == step_jmp64(i, s, taken)
         IN  /\ t \in SymState
             /\ t.assumptions \subseteq s.assumptions
             /\ t.next_rng = s.next_rng
             /\ t.current = IF taken THEN i.if_true ELSE i.if_false
             /\ \A o \in Oracle :
                  LET d == Denoted(s, o)
                  IN  /\ o \in t.assertions
                           <=> /\ o \in s.assertions
                               /\ o \in s.assumptions
                                    => doJMP64_check(i.op, d[i.dst], operand(i, d))
                      /\ o \in t.assumptions
                           <=> /\ o \in s.assumptions
                               /\ taken <=> doJMP64(i.op, d[i.dst], operand(i, d))
                      /\ Denoted(t, o) = d
<1> DEFINE i == code[s.current]
           x == s.regs[i.dst]
           y == sym_operand(i, s.regs)
           c == sym_doJMP64_check(x, y)
           b == sym_doJMP64(i.op, x, y)
           a == assert(c, s)
           t == step_jmp64(i, s, taken)
           e == IF taken THEN b ELSE Oracle \ b
           l == IF taken THEN i.if_true ELSE i.if_false
<1>1. /\ i \in Instr /\ i.kind \in JMPKinds /\ s.fuel - 1 \in 0 .. Fuel
      /\ i.kind \in Operation
  BY FetchedTypes DEF JMPKinds, Operation
<1>2. i.op \in JMP /\ i.dst \in Reg /\ l \in Label
  <2>1. i.if_true \in Label /\ i.if_false \in Label
    BY <1>1 DEF JMPKinds, Instr, Unsupported
  <2> QED
    BY <1>1, <2>1, OperationTypes DEF JMPKinds
<1>3. x \in SymValue /\ y \in SymValue
  BY <1>1, <1>2, SymStateFields, OperandDenotes
<1>4. b \subseteq Oracle /\ c \in SUBSET Oracle /\ e \subseteq Oracle
  BY <1>2, <1>3, JMPDenotes
<1>5. t = [a EXCEPT !.assumptions = e \cap @, !.current = l, !.fuel = @ - 1]
  BY DEF step_jmp64, goto, assume_, mk_not
<1> HIDE DEF b, c, e, l
<1>6. /\ t \in SymState
      /\ t.assumptions = e \cap s.assumptions
      /\ t.assertions = a.assertions
      /\ t.next_rng = s.next_rng
      /\ t.current = l
      /\ t.regs = s.regs
  <2>1. /\ a \in SymState /\ a.assumptions = s.assumptions
        /\ a.regs = s.regs /\ a.next_rng = s.next_rng /\ a.fuel = s.fuel
    BY <1>4, AssertFields
  <2> HIDE DEF a, t
  <2>2. /\ t.assumptions = e \cap s.assumptions
        /\ t.assertions = a.assertions
        /\ t.next_rng = s.next_rng
        /\ t.current = l
        /\ t.regs = s.regs
        /\ t.fuel = s.fuel - 1
    BY <1>5, <2>1 DEF SymState
  <2>3. s.regs \in [Reg -> SymValue]
    BY SymStateFields
  <2>4. t = [assumptions |-> t.assumptions, assertions |-> t.assertions,
             current |-> t.current, regs |-> t.regs,
             next_rng |-> t.next_rng, fuel |-> t.fuel]
    BY <1>5, <2>1 DEF SymState
  <2>5. /\ t.assumptions \in SUBSET Oracle /\ t.assertions \in SUBSET Oracle
        /\ t.current \in Label /\ t.regs \in [Reg -> SymValue]
        /\ t.next_rng \in Nat /\ t.fuel \in 0 .. Fuel
    BY <1>1, <1>2, <2>1, <2>2, <2>3, SymStateFields
  <2>6. t \in SymState
    BY <2>4, <2>5 DEF SymState
  <2> QED
    BY <2>2, <2>6
<1>7. ASSUME NEW o \in Oracle
      PROVE  LET d == Denoted(s, o)
             IN  /\ o \in t.assertions
                      <=> /\ o \in s.assertions
                          /\ o \in s.assumptions
                               => doJMP64_check(i.op, d[i.dst], operand(i, d))
                 /\ o \in t.assumptions
                      <=> /\ o \in s.assumptions
                          /\ taken <=> doJMP64(i.op, d[i.dst], operand(i, d))
                 /\ Denoted(t, o) = d
  <2> DEFINE d == Denoted(s, o)
  <2>1. d[i.dst] = denote(x, o) /\ operand(i, d) = denote(y, o)
    BY <1>1, <1>2, DenotedTypes, OperandDenotes
  <2>2. /\ o \in c <=> doJMP64_check(i.op, d[i.dst], operand(i, d))
        /\ o \in b <=> doJMP64(i.op, d[i.dst], operand(i, d))
    BY <1>2, <1>3, <2>1, JMPDenotes DEF b, c
  <2>3. o \in t.assertions
          <=> o \in s.assertions /\ (o \in s.assumptions => o \in c)
    BY <1>4, <1>6, AssertFields
  <2>4. o \in e <=> (taken <=> o \in b)
    BY DEF e
  <2>5. Denoted(t, o) = d
    BY <1>6 DEF Denoted
  <2> QED
    BY <1>6, <2>2, <2>3, <2>4, <2>5
<1> QED
  BY <1>6, <1>7 DEF l

\* A helper call: one continuation, whose R0 is the word the oracle returns.
LEMMA CallContinues ==
  ASSUME Program(code), NEW s \in SymState, Fetches({"CALL"}, s)
  PROVE  LET i == code[s.current]
             t == step_call(i, s)
         IN  /\ t \in SymState
             /\ t.assumptions = s.assumptions
             /\ t.next_rng = s.next_rng + 1
             /\ t.current = i.next
             /\ \A o \in Oracle :
                  /\ o \in t.assertions <=> o \in s.assertions
                  /\ Denoted(t, o)
                       = do_call(i.func, o[s.next_rng], Denoted(s, o))
<1> DEFINE i == code[s.current]
           c == mk_var(s.next_rng)
           a == assert(mk_true, s)
           t == step_call(i, s)
           rs == [r \in Reg |-> IF r = "R0" THEN sym_scalar(c)
                                ELSE IF r \in caller_saved THEN uninitialized
                                ELSE s.regs[r]]
<1>1. /\ i \in Instr /\ i.kind = "CALL" /\ s.fuel - 1 \in 0 .. Fuel
      /\ s.next_rng < Draws
  BY FetchedTypes
<1>2. i.next \in Label
  BY <1>1 DEF Instr, Unsupported
<1>3. c \in Term /\ \A o \in Oracle : c[o] = o[s.next_rng]
  <2>1. s.next_rng \in 0 .. Draws - 1
    BY <1>1, SymStateFields, DrawsAssumption
  <2> QED
    BY <2>1 DEF mk_var, Term, Oracle
<1>4. /\ sym_scalar(c) \in SymValue /\ is_scalar(sym_scalar(c))
      /\ sym_scalar(c).t = c
  BY <1>3 DEF SymValue, sym_scalar, is_scalar
<1>5. rs \in [Reg -> SymValue]
  BY <1>4, SymStateFields DEF SymValue
<1>6. t = [a EXCEPT !.regs = rs, !.next_rng = s.next_rng + 1,
                    !.current = i.next, !.fuel = @ - 1]
  BY DEF step_call, goto
<1> HIDE DEF c, rs
<1>7. /\ t \in SymState
      /\ t.assumptions = s.assumptions
      /\ t.assertions = a.assertions
      /\ t.next_rng = s.next_rng + 1
      /\ t.current = i.next
      /\ t.regs = rs
  <2>1. /\ a \in SymState /\ a.assumptions = s.assumptions
        /\ a.regs = s.regs /\ a.next_rng = s.next_rng /\ a.fuel = s.fuel
    BY AssertFields DEF mk_true
  <2> HIDE DEF a, t
  <2>2. /\ t.assumptions = s.assumptions
        /\ t.assertions = a.assertions
        /\ t.next_rng = s.next_rng + 1
        /\ t.current = i.next
        /\ t.regs = rs
        /\ t.fuel = s.fuel - 1
    BY <1>6, <2>1 DEF SymState
  <2>3. rs \in [Reg -> SymValue]
    BY <1>5
  <2>4. t = [assumptions |-> t.assumptions, assertions |-> t.assertions,
             current |-> t.current, regs |-> t.regs,
             next_rng |-> t.next_rng, fuel |-> t.fuel]
    BY <1>6, <2>1 DEF SymState
  <2>5. /\ t.assumptions \in SUBSET Oracle /\ t.assertions \in SUBSET Oracle
        /\ t.current \in Label /\ t.regs \in [Reg -> SymValue]
        /\ t.next_rng \in Nat /\ t.fuel \in 0 .. Fuel
    BY <1>1, <1>2, <2>1, <2>2, <2>3, SymStateFields
  <2>6. t \in SymState
    BY <2>4, <2>5 DEF SymState
  <2> QED
    BY <2>2, <2>6
<1>8. ASSUME NEW o \in Oracle
      PROVE  /\ o \in t.assertions <=> o \in s.assertions
             /\ Denoted(t, o) = do_call(i.func, o[s.next_rng], Denoted(s, o))
  <2>1. o \in t.assertions <=> o \in s.assertions
    BY <1>7, AssertFields DEF mk_true
  <2>2. denote(sym_scalar(c), o) = scalar(o[s.next_rng])
    BY <1>3, <1>4, DenoteBranches
  <2>3. denote(uninitialized, o) = uninitialized
    BY DenoteBranches DEF uninitialized, is_scalar, is_pointer
  <2> QED
    BY <1>7, <2>1, <2>2, <2>3 DEF Denoted, do_call, rs
<1> QED
  BY <1>7, <1>8

-----------------------------------------------------------------------------
(* One step of evaluation.                                                 *)

\* Every continuation is a state, covers no new oracles, and has what its
\* instruction needs to step among its assertions.
LEMMA ContinuationSound ==
  ASSUME Program(code), NEW s \in SymState, NEW t \in Continuations(s)
  PROVE  /\ t \in SymState
         /\ t.assumptions \subseteq s.assumptions
         /\ s.next_rng <= Draws => t.next_rng <= Draws
         /\ \A o \in Oracle : o \in t.assertions
              <=> /\ o \in s.assertions
                  /\ o \in s.assumptions
                       => CanStep(code, s.current, Denoted(s, o))
<1> DEFINE i == code[s.current]
<1>1. CASE Fetches(ALUKinds, s)
  <2>1. t = step_alu64(i, s)
    BY <1>1 DEF Continuations
  <2>2. s.current \in DOMAIN code /\ i.kind \in ALUKinds
    BY <1>1, FetchedTypes
  <2>3. \A rs : CanStep(code, s.current, rs)
                  <=> doALU64_check(i.op, rs[i.dst], operand(i, rs))
    BY <2>2 DEF CanStep, ALUKinds
  <2> QED
    BY <1>1, <2>1, <2>3, ALUContinues
<1>2. CASE Fetches(JMPKinds, s) /\ ~Fetches(ALUKinds, s)
  <2>1. PICK taken \in BOOLEAN : t = step_jmp64(i, s, taken)
    BY <1>2 DEF Continuations
  <2>2. s.current \in DOMAIN code /\ i.kind \in JMPKinds
    BY <1>2, FetchedTypes
  <2>3. \A rs : CanStep(code, s.current, rs)
                  <=> doJMP64_check(i.op, rs[i.dst], operand(i, rs))
    BY <2>2 DEF CanStep, JMPKinds
  <2> QED
    BY <1>2, <2>1, <2>3, JMPContinues
<1>3. CASE Fetches({"CALL"}, s) /\ ~Fetches(ALUKinds, s) /\ ~Fetches(JMPKinds, s)
  <2>1. t = step_call(i, s)
    BY <1>3 DEF Continuations
  <2>2. s.current \in DOMAIN code /\ i.kind = "CALL" /\ s.next_rng < Draws
    BY <1>3, FetchedTypes
  <2>3. \A rs : CanStep(code, s.current, rs)
    BY <2>2 DEF CanStep, do_call_check
  <2>4. s.next_rng + 1 <= Draws
    BY <2>2, SymStateFields, DrawsAssumption
  <2> QED
    BY <1>3, <2>1, <2>3, <2>4, CallContinues
<1> QED
  BY <1>1, <1>2, <1>3 DEF Continuations

\* Between them the continuations cover the oracles of the state.
LEMMA ContinuationsCover ==
  ASSUME Program(code), NEW s \in SymState, Continuations(s) # {},
         NEW o \in s.assumptions
  PROVE  \E t \in Continuations(s) : o \in t.assumptions
<1> DEFINE i == code[s.current]
<1>1. o \in Oracle
  BY SymStateFields
<1>2. CASE Fetches(ALUKinds, s)
  BY <1>2, ALUContinues DEF Continuations
<1>3. CASE Fetches(JMPKinds, s) /\ ~Fetches(ALUKinds, s)
  <2> DEFINE d == Denoted(s, o)
             taken == doJMP64(i.op, d[i.dst], operand(i, d))
  <2>1. taken \in BOOLEAN
    BY DEF doJMP64
  <2>2. step_jmp64(i, s, taken) \in Continuations(s)
    BY <1>3, <2>1 DEF Continuations
  <2>3. o \in step_jmp64(i, s, taken).assumptions
    BY <1>1, <1>3, <2>1, JMPContinues
  <2> QED
    BY <2>2, <2>3
<1>4. CASE Fetches({"CALL"}, s) /\ ~Fetches(ALUKinds, s) /\ ~Fetches(JMPKinds, s)
  BY <1>4, CallContinues DEF Continuations
<1> QED
  BY <1>2, <1>3, <1>4 DEF Continuations

\* Where the instruction of a state with fuel belongs.
LEMMA FetchCases ==
  ASSUME Program(code), NEW s \in SymState
  PROVE  \/ s.fuel = 0
         \/ s.fuel > 0 /\ Fetches(ALUKinds, s)
         \/ s.fuel > 0 /\ Fetches(JMPKinds, s)
         \/ s.fuel > 0 /\ Fetches({"CALL"}, s)
         \/ s.fuel > 0 /\ Fetches({"Exit"}, s)
         \/ s.fuel > 0 /\ Dies(s)
  BY SymStateFields, FuelAssumption DEF Dies, Fetches, ALUKinds, JMPKinds

\* A path that ends does so for lack of fuel, at an exit, or by dying.
LEMMA Ends ==
  ASSUME Program(code), NEW s \in SymState
  PROVE  \/ s.fuel = 0 /\ Continuations(s) = {}
              /\ Contribution(s) = Oracle \ s.assumptions
         \/ /\ Fetches({"Exit"}, s) /\ Continuations(s) = {}
            /\ \A o \in Oracle : o \in Contribution(s)
                 <=> /\ o \in s.assertions
                     /\ o \in s.assumptions
                          => CanStep(code, s.current, Denoted(s, o))
         \/ Dies(s) /\ Continuations(s) = {} /\ Contribution(s) = {}
         \/ s.fuel > 0 /\ ~Dies(s) /\ Continuations(s) # {}
              /\ Contribution(s) = Oracle
<1>1. CASE s.fuel = 0
  BY <1>1 DEF Continuations, Contribution, Fetches, infeasible, mk_not
<1>2. CASE s.fuel > 0 /\ Fetches(ALUKinds, s)
  BY <1>2, SymStateFields
     DEF Continuations, Contribution, Dies, Fetches, ALUKinds, mk_true
<1>3. CASE s.fuel > 0 /\ Fetches(JMPKinds, s)
  <2>1. /\ ~Fetches(ALUKinds, s) /\ ~Fetches({"Exit"}, s) /\ ~Dies(s)
        /\ s.fuel # 0
    BY <1>3, SymStateFields DEF Fetches, Dies, ALUKinds, JMPKinds
  <2>2. Contribution(s) = Oracle
    BY <2>1 DEF Contribution, mk_true
  <2>3. Continuations(s)
          = {step_jmp64(code[s.current], s, taken) : taken \in BOOLEAN}
    BY <1>3, <2>1 DEF Continuations
  <2>4. step_jmp64(code[s.current], s, TRUE) \in Continuations(s)
    BY <2>3
  <2> QED
    BY <1>3, <2>1, <2>2, <2>4
<1>4. CASE s.fuel > 0 /\ Fetches({"CALL"}, s)
  BY <1>4, SymStateFields
     DEF Continuations, Contribution, Dies, Fetches, ALUKinds, JMPKinds, mk_true
<1>5. CASE s.fuel > 0 /\ Fetches({"Exit"}, s)
  <2>1. s.current \in DOMAIN code /\ code[s.current].kind = "Exit"
    BY <1>5, FetchedTypes
  <2>2. Continuations(s) = {}
    BY <2>1 DEF Continuations, Fetches, ALUKinds, JMPKinds
  <2>3. Contribution(s) = step_exit(s)
    BY <1>5 DEF Contribution
  <2> DEFINE c == mk_bool(is_scalar(s.regs["R0"]))
  <2>4. c \in SUBSET Oracle
    BY DEF mk_bool, mk_true, mk_false
  <2>5. \A o \in Oracle : o \in step_exit(s)
          <=> o \in s.assertions /\ (o \in s.assumptions => o \in c)
    BY <2>4, AssertFields DEF step_exit
  <2>6. \A o \in Oracle : o \in c <=> is_scalar(Denoted(s, o)["R0"])
    BY RegAssumption, SymStateFields, DenotedTypes, DenoteKind
       DEF mk_bool, mk_true, mk_false
  <2>7. \A rs : CanStep(code, s.current, rs) <=> is_scalar(rs["R0"])
    BY <2>1 DEF CanStep
  <2> QED
    BY <1>5, <2>2, <2>3, <2>5, <2>6, <2>7
<1>6. CASE s.fuel > 0 /\ Dies(s)
  <2>1. ~Fetches({"Exit"}, s) /\ ~Fetches(ALUKinds, s) /\ ~Fetches(JMPKinds, s)
        /\ ~Fetches({"CALL"}, s)
    BY <1>6 DEF Dies, Fetches, ALUKinds, JMPKinds
  <2> QED
    BY <1>6, <2>1, SymStateFields DEF Continuations, Contribution, mk_false
<1> QED
  BY <1>1, <1>2, <1>3, <1>4, <1>5, <1>6, FetchCases

\* The states waiting to be evaluated.
Pending == {paths[n] : n \in DOMAIN paths}

\* No oracle is assumed by two of the states.
Disjoint(ss) ==
  \A m, n \in DOMAIN ss :
    m # n => ss[m].assumptions \cap ss[n].assumptions = {}

Evaluation ==
  OutOfFuel \/ EvalALU64 \/ EvalJMP64 \/ EvalCALL \/ EvalExit \/ Die

\* Evaluation replaces the first path by its continuations.
LEMMA EvaluationStep ==
  ASSUME Program(code), paths \in Seq(SymState), Evaluation
  PROVE  /\ phase = "symeval" /\ paths # <<>> /\ Head(paths) \in SymState
         /\ \E next \in Seq(SymState) :
              /\ paths' = next \o Tail(paths)
              /\ {next[n] : n \in DOMAIN next} = Continuations(Head(paths))
              /\ Disjoint(next)
         /\ vc' = vc \cap Contribution(Head(paths))
         /\ seen' = seen \cup {Head(paths)}
         /\ UNCHANGED <<loaderVars, phase, runVars, drawn>>
<1> DEFINE h == Head(paths)
           i == code[h.current]
<1>1. phase = "symeval" /\ paths # <<>>
  BY DEF Evaluation, OutOfFuel, EvalALU64, EvalJMP64, EvalCALL, EvalExit, Die,
         step_symeval
<1>2. h \in SymState
  BY <1>1
<1> SUFFICES \E next \in Seq(SymState) :
               /\ Evaluate(next, Contribution(h))
               /\ {next[n] : n \in DOMAIN next} = Continuations(h)
               /\ Disjoint(next)
  BY <1>1, <1>2 DEF Evaluate
<1>3. /\ <<>> \in Seq(SymState)
      /\ {(<<>>)[n] : n \in DOMAIN <<>>} = {}
      /\ Disjoint(<<>>)
  BY DEF Disjoint
<1>4. \A t \in SymState : /\ <<t>> \in Seq(SymState)
                          /\ {(<<t>>)[n] : n \in DOMAIN <<t>>} = {t}
                          /\ Disjoint(<<t>>)
  BY DEF Disjoint
<1>5. \A t, u \in SymState : /\ <<t, u>> \in Seq(SymState)
                             /\ {(<<t, u>>)[n] : n \in DOMAIN <<t, u>>} = {t, u}
  OBVIOUS
<1>6. CASE OutOfFuel
  <2>1. h.fuel = 0 /\ Evaluate(<<>>, infeasible(h))
    BY <1>6 DEF OutOfFuel
  <2>2. Continuations(h) = {} /\ Contribution(h) = infeasible(h)
    BY <2>1 DEF Continuations, Contribution, Fetches
  <2> QED
    BY <1>3, <2>1, <2>2
<1>7. CASE EvalALU64
  <2>1. Fetches(ALUKinds, h) /\ Evaluate(<<step_alu64(i, h)>>, mk_true)
    BY <1>7 DEF EvalALU64, step_symeval, ALUKinds
  <2>2. /\ Continuations(h) = {step_alu64(i, h)}
        /\ Contribution(h) = mk_true
    BY <1>2, <2>1, SymStateFields
       DEF Continuations, Contribution, Fetches, Dies, ALUKinds
  <2>3. step_alu64(i, h) \in SymState
    BY <1>2, <2>1, ALUContinues
  <2> QED
    BY <1>4, <2>1, <2>2, <2>3
<1>8. CASE EvalJMP64
  <2>1. /\ Fetches(JMPKinds, h)
        /\ Evaluate(<<step_jmp64(i, h, TRUE), step_jmp64(i, h, FALSE)>>, mk_true)
    BY <1>8 DEF EvalJMP64, step_symeval, JMPKinds
  <2>2. ~Fetches(ALUKinds, h) /\ ~Fetches({"Exit"}, h) /\ ~Dies(h) /\ h.fuel # 0
    BY <1>2, <2>1, SymStateFields DEF Fetches, Dies, ALUKinds, JMPKinds
  <2>3. Contribution(h) = mk_true
    BY <2>2 DEF Contribution
  <2>4. Continuations(h) = {step_jmp64(i, h, taken) : taken \in BOOLEAN}
    BY <2>1, <2>2 DEF Continuations
  <2>5. /\ step_jmp64(i, h, TRUE) \in SymState
        /\ step_jmp64(i, h, FALSE) \in SymState
    BY <1>2, <2>1, JMPContinues
  <2>6. Continuations(h) = {step_jmp64(i, h, TRUE), step_jmp64(i, h, FALSE)}
    <3>1. ASSUME NEW t \in Continuations(h)
          PROVE  t \in {step_jmp64(i, h, TRUE), step_jmp64(i, h, FALSE)}
      <4>1. PICK taken \in BOOLEAN : t = step_jmp64(i, h, taken)
        BY <2>4
      <4>2. taken = TRUE \/ taken = FALSE
        OBVIOUS
      <4> QED
        BY <4>1, <4>2
    <3>2. /\ step_jmp64(i, h, TRUE) \in Continuations(h)
          /\ step_jmp64(i, h, FALSE) \in Continuations(h)
      BY <2>4
    <3> QED
      BY <3>1, <3>2
  <2> DEFINE yes == step_jmp64(i, h, TRUE)
             no == step_jmp64(i, h, FALSE)
  <2>7. yes.assumptions \cap no.assumptions = {}
    <3>1. ASSUME NEW o \in yes.assumptions, o \in no.assumptions
          PROVE  FALSE
      <4>1. o \in Oracle
        BY <2>5, <3>1, SymStateFields
      <4> QED
        BY <1>2, <2>1, <3>1, <4>1, JMPContinues
    <3> QED
      BY <3>1
  <2>8. Disjoint(<<yes, no>>)
    <3>1. DOMAIN <<yes, no>> = {1, 2}
      OBVIOUS
    <3> HIDE DEF yes, no
    <3> QED
      BY <2>7, <3>1 DEF Disjoint
  <2>9. /\ <<yes, no>> \in Seq(SymState)
        /\ {(<<yes, no>>)[n] : n \in DOMAIN <<yes, no>>} = {yes, no}
    BY <1>5, <2>5
  <2> DEFINE next == <<yes, no>>
  <2>10. /\ next \in Seq(SymState)
        /\ {next[n] : n \in DOMAIN next} = Continuations(h)
        /\ Evaluate(next, Contribution(h))
        /\ Disjoint(next)
    BY <2>1, <2>3, <2>6, <2>9, <2>8
  <2> QED
    BY <2>10
<1>9. CASE EvalCALL
  <2>1. Fetches({"CALL"}, h) /\ Evaluate(<<step_call(i, h)>>, mk_true)
    BY <1>9 DEF EvalCALL, step_symeval
  <2>2. /\ Continuations(h) = {step_call(i, h)}
        /\ Contribution(h) = mk_true
    BY <1>2, <2>1, SymStateFields
       DEF Continuations, Contribution, Fetches, Dies, ALUKinds, JMPKinds
  <2>3. step_call(i, h) \in SymState
    BY <1>2, <2>1, CallContinues
  <2> QED
    BY <1>4, <2>1, <2>2, <2>3
<1>10. CASE EvalExit
  <2>1. Fetches({"Exit"}, h) /\ Evaluate(<<>>, step_exit(h))
    BY <1>10 DEF EvalExit, step_symeval
  <2>2. Continuations(h) = {} /\ Contribution(h) = step_exit(h)
    BY <1>2, <2>1, SymStateFields
       DEF Continuations, Contribution, Fetches, ALUKinds, JMPKinds
  <2> QED
    BY <1>3, <2>1, <2>2
<1>11. CASE Die
  <2>1. Dies(h) /\ Evaluate(<<>>, mk_false)
    BY <1>11 DEF Die
  <2>2. /\ ~Fetches({"Exit"}, h) /\ ~Fetches(ALUKinds, h) /\ ~Fetches(JMPKinds, h)
        /\ ~Fetches({"CALL"}, h) /\ h.fuel # 0
    BY <1>2, <2>1, SymStateFields DEF Dies, Fetches, ALUKinds, JMPKinds
  <2>3. Continuations(h) = {} /\ Contribution(h) = mk_false
    BY <2>1, <2>2 DEF Continuations, Contribution
  <2> QED
    BY <1>3, <2>1, <2>3
<1> QED
  BY <1>6, <1>7, <1>8, <1>9, <1>10, <1>11 DEF Evaluation

\* The states waiting, before and after.
LEMMA PendingStep ==
  ASSUME Program(code), paths \in Seq(SymState), Evaluation
  PROVE  /\ paths' \in Seq(SymState)
         /\ Head(paths) \in Pending
         /\ Pending' \subseteq Continuations(Head(paths)) \cup Pending
         /\ Continuations(Head(paths)) \subseteq Pending'
         /\ \A p \in Pending : p # Head(paths) => p \in Pending'
<1>1. paths # <<>> /\ Head(paths) \in SymState
  BY EvaluationStep
<1>2. PICK next \in Seq(SymState) :
        /\ paths' = next \o Tail(paths)
        /\ {next[n] : n \in DOMAIN next} = Continuations(Head(paths))
  BY EvaluationStep
<1> DEFINE rest == Tail(paths)
<1>3. /\ rest \in Seq(SymState)
      /\ Len(rest) = Len(paths) - 1 /\ Len(paths) \in Nat \ {0}
      /\ \A n \in 1 .. Len(rest) : rest[n] = paths[n + 1]
      /\ Head(paths) = paths[1]
  BY <1>1
<1>4. /\ paths' \in Seq(SymState)
      /\ Len(paths') = Len(next) + Len(rest)
      /\ Len(next) \in Nat /\ DOMAIN next = 1 .. Len(next)
      /\ DOMAIN paths' = 1 .. Len(next) + Len(rest)
      /\ \A n \in 1 .. Len(next) : paths'[n] = next[n]
      /\ \A n \in 1 .. Len(rest) : paths'[Len(next) + n] = rest[n]
  BY <1>2, <1>3
<1>5. DOMAIN paths = 1 .. Len(paths)
  OBVIOUS
<1>6. Head(paths) \in Pending
  BY <1>3, <1>5 DEF Pending
<1>7. ASSUME NEW q \in Pending'
      PROVE  q \in Continuations(Head(paths)) \cup Pending
  <2>1. PICK n \in DOMAIN paths' : q = paths'[n]
    BY DEF Pending
  <2>2. CASE n \in 1 .. Len(next)
    BY <1>2, <1>4, <2>1, <2>2
  <2>3. CASE n \notin 1 .. Len(next)
    <3>1. PICK m \in 1 .. Len(rest) : n = Len(next) + m
      <4>1. n - Len(next) \in 1 .. Len(rest) /\ n = Len(next) + (n - Len(next))
        BY <1>3, <1>4, <2>1, <2>3
      <4> QED
        BY <4>1
    <3>2. q = paths[m + 1] /\ m + 1 \in DOMAIN paths
      BY <1>3, <1>4, <1>5, <2>1, <3>1
    <3> QED
      BY <3>2 DEF Pending
  <2> QED
    BY <2>2, <2>3
<1>8. ASSUME NEW q \in Continuations(Head(paths))
      PROVE  q \in Pending'
  <2>1. PICK n \in DOMAIN next : q = next[n]
    BY <1>2
  <2>2. n \in DOMAIN paths' /\ paths'[n] = q
    BY <1>3, <1>4, <2>1
  <2> QED
    BY <2>2 DEF Pending
<1>9. ASSUME NEW q \in Pending, q # Head(paths)
      PROVE  q \in Pending'
  <2>1. PICK n \in 1 .. Len(paths) : q = paths[n]
    BY <1>5 DEF Pending
  <2>2. n - 1 \in 1 .. Len(rest) /\ (n - 1) + 1 = n
    BY <1>3, <1>9, <2>1
  <2>3. /\ Len(next) + (n - 1) \in DOMAIN paths'
        /\ paths'[Len(next) + (n - 1)] = q
    BY <1>3, <1>4, <2>1, <2>2
  <2> QED
    BY <2>3 DEF Pending
<1> QED
  BY <1>4, <1>6, <1>7, <1>8, <1>9

-----------------------------------------------------------------------------
(* The inductive invariant.                                                *)

\* What an assertion of s forbids: to get to s with a check that failed.
Bad(s, o) == o \in s.assumptions /\ o \notin s.assertions

\* Nothing is evaluated, nor run, before its time.
Started ==
  /\ phase = "decode" => paths = <<>> /\ seen = {} /\ vc = Oracle
  /\ phase \in {"decode", "symeval"} =>
       drawn = <<>> /\ pc = entry /\ regs = [r \in Reg |-> uninitialized]

\* No path gets lost: each state has been evaluated or waits to be.
Explored ==
  /\ phase # "decode" => initial_symstate \in seen \cup Pending
  /\ \A s \in seen : /\ Continuations(s) \subseteq seen \cup Pending
                     /\ vc \subseteq Contribution(s)

\* No failed check gets lost: it has made the condition false, or it is
\* among the assertions of a path that still waits.
Blamed ==
  \A s \in seen : \A o \in Oracle :
    Bad(s, o) => o \notin vc \/ \E p \in Pending : Bad(p, o)

\* No path has drawn more words than an oracle has.
Bounded == \A s \in seen \cup Pending : s.next_rng <= Draws

\* A running program was accepted, and has been evaluated symbolically.
Running ==
  phase = "running" =>
    /\ paths = <<>> /\ vc = Oracle
    /\ \E s \in seen : Concretizes(s)

IInv == TypeOK /\ Started /\ Explored /\ Blamed /\ Bounded /\ Running

\* The type invariant contains that of the loader.
LEMMA TypeLoading == TypeOK => Loading
  BY DEF TypeOK, Loading, Program

\* The states of the evaluation are symbolic states.
LEMMA PendingTypes ==
  ASSUME TypeOK
  PROVE  seen \cup Pending \subseteq SymState
<1>1. \A n \in DOMAIN paths : paths[n] \in SymState
  BY DEF TypeOK
<1> QED
  BY <1>1 DEF TypeOK, Pending

\* The state that evaluation starts with.
LEMMA InitialTypes ==
  /\ initial_symstate \in SymState
  /\ initial_symstate.assumptions = Oracle
  /\ initial_symstate.next_rng = 0
  /\ initial_symstate.current = entry
  /\ \A o \in Oracle :
       Denoted(initial_symstate, o) = [r \in Reg |-> uninitialized]
<1>1. Oracle \in SUBSET Oracle /\ entry \in Label /\ 0 \in Nat /\ Fuel \in 0 .. Fuel
  BY FuelAssumption DEF entry, Label
<1>2. [r \in Reg |-> uninitialized] \in [Reg -> SymValue]
  BY DEF SymValue
<1>3. initial_symstate \in SymState
  BY <1>1, <1>2 DEF SymState, initial_symstate, mk_true
<1>4. /\ initial_symstate.assumptions = Oracle
      /\ initial_symstate.next_rng = 0
      /\ initial_symstate.current = entry
      /\ initial_symstate.regs = [r \in Reg |-> uninitialized]
  BY DEF initial_symstate, mk_true
<1>5. \A o \in Oracle : denote(uninitialized, o) = uninitialized
  BY DenoteBranches DEF uninitialized, is_scalar, is_pointer
<1> QED
  BY <1>3, <1>4, <1>5 DEF Denoted

\* The invariant holds initially.
LEMMA InitIInv == SymInit => IInv
<1> SUFFICES ASSUME SymInit PROVE IInv
  OBVIOUS
<1>1. Loading
  BY InitLoading DEF SymInit
<1>2. /\ phase = "decode" /\ paths = <<>> /\ vc = Oracle /\ seen = {}
      /\ drawn = <<>> /\ pc = entry /\ ret = 0
      /\ regs = [r \in Reg |-> uninitialized]
  BY DEF SymInit, initial_state, mk_true
<1>3. Pending = {}
  BY <1>2 DEF Pending
<1>4. 0 \in Word /\ entry \in Label /\ regs \in [Reg -> Value]
  BY <1>2, PowerTypes DEF Word, entry, Label, Value
<1>5. TypeOK
  BY <1>1, <1>2, <1>4 DEF TypeOK, Loading, Program
<1> QED
  BY <1>2, <1>3, <1>5 DEF IInv, Started, Explored, Blamed, Bounded, Running

\* Decoding keeps the invariant.
LEMMA DecodeIInv == IInv /\ Decode => IInv'
<1> SUFFICES ASSUME IInv, Decode PROVE IInv'
  OBVIOUS
<1>1. /\ phase = "decode" /\ DecodeInstr
      /\ UNCHANGED <<phase, pc, regs, ret, paths, vc, seen, drawn>>
  BY DEF Decode, runVars, symVars
<1>2. paths = <<>> /\ seen = {} /\ Pending = {} /\ Pending' = {}
  BY <1>1 DEF IInv, Started, Pending
<1>3. Loading'
  BY <1>1, DecodeLoading, TypeLoading DEF IInv
<1>4. TypeOK'
  BY <1>1, <1>3 DEF IInv, TypeOK, Loading, Program
<1>5. Started'
  BY <1>1 DEF IInv, Started
<1>6. Explored' /\ Blamed' /\ Bounded' /\ Running'
  BY <1>1, <1>2 DEF Explored, Blamed, Bounded, Running
<1> QED
  BY <1>4, <1>5, <1>6 DEF IInv

\* vcgen puts the initial state in line.
LEMMA VcgenIInv == IInv /\ vcgen => IInv'
<1> SUFFICES ASSUME IInv, vcgen PROVE IInv'
  OBVIOUS
<1>1. /\ phase = "decode" /\ phase' = "symeval"
      /\ paths' = <<initial_symstate>>
      /\ UNCHANGED <<prog, cur, code, pc, regs, ret, vc, seen, drawn>>
  BY DEF vcgen, loaderVars, runVars
<1>2. seen = {} /\ vc = Oracle
  BY <1>1 DEF IInv, Started
<1>3. paths' \in Seq(SymState) /\ Pending' = {initial_symstate}
  BY <1>1, InitialTypes DEF Pending
<1>4. TypeOK'
  BY <1>1, <1>3 DEF IInv, TypeOK
<1>5. Started'
  BY <1>1 DEF IInv, Started
<1>6. Bounded'
  BY <1>1, <1>2, <1>3, InitialTypes, DrawsAssumption DEF Bounded
<1>7. Explored' /\ Blamed' /\ Running'
  BY <1>1, <1>2, <1>3 DEF Explored, Blamed, Running
<1> QED
  BY <1>4, <1>5, <1>6, <1>7 DEF IInv

\* Evaluating one symbolic state keeps the invariant.
LEMMA EvaluationIInv == IInv /\ Evaluation => IInv'
<1> SUFFICES ASSUME IInv, Evaluation PROVE IInv'
  OBVIOUS
<1> DEFINE h == Head(paths)
<1>1. Program(code) /\ paths \in Seq(SymState) /\ TypeOK
  BY DEF IInv, TypeOK, Program
<1>2. /\ phase = "symeval" /\ h \in SymState
      /\ vc' = vc \cap Contribution(h)
      /\ seen' = seen \cup {h}
      /\ UNCHANGED <<prog, cur, code, phase, pc, regs, ret, drawn>>
  BY <1>1, EvaluationStep DEF loaderVars, runVars
<1>3. /\ paths' \in Seq(SymState)
      /\ h \in Pending
      /\ Pending' \subseteq Continuations(h) \cup Pending
      /\ Continuations(h) \subseteq Pending'
      /\ \A p \in Pending : p # h => p \in Pending'
  BY <1>1, PendingStep
<1>4. \A s : Continuations(s)' = Continuations(s)
  BY <1>2 DEF Continuations, Fetches, step_alu64, step_jmp64, step_call
<1>5. \A s : Contribution(s)' = Contribution(s)
  BY <1>2 DEF Contribution, Fetches, Dies
<1> HIDE DEF h
<1>6. TypeOK'
  BY <1>1, <1>2, <1>3 DEF TypeOK
<1>7. Started'
  BY <1>2 DEF IInv, Started
<1>8. seen \cup Pending \subseteq seen' \cup Pending'
  BY <1>2, <1>3
<1>9. Explored'
  <2>1. initial_symstate \in seen' \cup Pending'
    BY <1>2, <1>8 DEF IInv, Explored
  <2>2. ASSUME NEW s \in seen'
        PROVE  /\ Continuations(s) \subseteq seen' \cup Pending'
               /\ vc' \subseteq Contribution(s)
    BY <1>2, <1>3, <1>8, <2>2 DEF IInv, Explored
  <2> QED
    BY <1>4, <1>5, <2>1, <2>2 DEF Explored
<1>10. Blamed'
  <2>1. ASSUME NEW o \in Oracle, Bad(h, o), o \in Contribution(h)
        PROVE  \E p \in Pending' : Bad(p, o)
    <3>1. Continuations(h) # {}
      BY <1>1, <1>2, <2>1, Ends DEF Bad
    <3>2. PICK p \in Continuations(h) : o \in p.assumptions
      BY <1>1, <1>2, <2>1, <3>1, ContinuationsCover DEF Bad
    <3>3. o \notin p.assertions
      BY <1>1, <1>2, <2>1, <3>2, ContinuationSound DEF Bad
    <3> QED
      BY <1>3, <3>2, <3>3 DEF Bad
  <2>2. ASSUME NEW s \in seen, NEW o \in Oracle, Bad(s, o), o \in vc'
        PROVE  \E p \in Pending' : Bad(p, o)
    <3>1. o \in vc /\ o \in Contribution(h)
      BY <1>2, <2>2
    <3>2. PICK p \in Pending : Bad(p, o)
      BY <2>2, <3>1 DEF IInv, Blamed
    <3>3. CASE p = h
      BY <2>1, <3>1, <3>2, <3>3
    <3>4. CASE p # h
      BY <1>3, <3>2, <3>4
    <3> QED
      BY <3>3, <3>4
  <2>3. ASSUME NEW s \in seen', NEW o \in Oracle, Bad(s, o), o \in vc'
        PROVE  \E p \in Pending' : Bad(p, o)
    BY <1>2, <2>1, <2>2, <2>3
  <2> QED
    BY <2>3 DEF Blamed, Bad
<1>11. Bounded'
  <2>1. h.next_rng <= Draws
    BY <1>3 DEF IInv, Bounded
  <2>2. \A s \in Continuations(h) : s.next_rng <= Draws
    BY <1>1, <1>2, <2>1, ContinuationSound
  <2> QED
    BY <1>2, <1>3, <2>1, <2>2 DEF IInv, Bounded
<1>12. Running'
  BY <1>2 DEF Running
<1> QED
  BY <1>6, <1>7, <1>9, <1>10, <1>11, <1>12 DEF IInv

\* Before it has drawn a word, the program is as initial_symstate says.
LEMMA InitialConcretizes ==
  ASSUME drawn = <<>>, pc = entry, regs = [r \in Reg |-> uninitialized]
  PROVE  Concretizes(initial_symstate)
<1>1. \A o \in Possible : o \in Oracle
  BY DEF Possible
<1>2. \A o \in Oracle : \A r \in Reg :
        denote(initial_symstate.regs[r], o) = uninitialized
  BY InitialTypes, DenotedTypes
<1> QED
  BY <1>1, <1>2, InitialTypes DEF Concretizes

\* A verdict keeps the invariant.
LEMMA VerdictIInv == IInv /\ (Accept \/ Reject) => IInv'
<1> SUFFICES ASSUME IInv, Accept \/ Reject PROVE IInv'
  OBVIOUS
<1>1. /\ phase = "symeval" /\ paths = <<>>
      /\ phase' \in {"running", "rejected"}
      /\ phase' = "running" => vc = Oracle
      /\ UNCHANGED <<prog, cur, code, pc, regs, ret, paths, vc, seen, drawn>>
  BY DEF Accept, Reject, loaderVars, runVars, symVars, mk_true
<1>2. Pending = {} /\ Pending' = Pending
  BY <1>1 DEF Pending
<1>3. \A s : /\ Continuations(s)' = Continuations(s)
             /\ Contribution(s)' = Contribution(s)
             /\ Concretizes(s)' = Concretizes(s)
  BY <1>1 DEF Continuations, Contribution, Fetches, Dies, Concretizes,
              Possible, step_alu64, step_jmp64, step_call
<1>4. TypeOK' /\ Started'
  BY <1>1 DEF IInv, TypeOK, Started
<1>5. initial_symstate \in seen
  BY <1>1, <1>2 DEF IInv, Explored
<1>6. Explored' /\ Blamed' /\ Bounded'
  BY <1>1, <1>2, <1>3, <1>5 DEF IInv, Explored, Blamed, Bounded
<1>7. Concretizes(initial_symstate)
  BY <1>1, InitialConcretizes DEF IInv, Started
<1>8. Running'
  BY <1>1, <1>3, <1>5, <1>7 DEF Running
<1> QED
  BY <1>4, <1>6, <1>8 DEF IInv

-----------------------------------------------------------------------------
(* The running program.                                                    *)

\* Some oracle returns the words drawn so far.
LEMMA PossibleOracle ==
  ASSUME drawn \in Seq(Word), Len(drawn) <= Draws
  PROVE  Possible # {} /\ Possible \subseteq Oracle
<1> DEFINE o == [n \in 0 .. Draws - 1 |->
                   IF n < Len(drawn) THEN drawn[n + 1] ELSE 0]
<1>1. 0 \in Word
  BY PowerTypes DEF Word
<1>2. o \in Oracle
  BY <1>1, DrawsAssumption DEF Oracle
<1>3. ASSUME NEW n \in 1 .. Len(drawn) PROVE o[n - 1] = drawn[n]
  BY <1>3, DrawsAssumption
<1> HIDE DEF o
<1> QED
  BY <1>2, <1>3 DEF Possible

\* A running program is at a state that was evaluated, with fuel left, an
\* instruction and the operands it needs, and all its continuations too.
LEMMA RunningFacts ==
  ASSUME IInv, phase = "running"
  PROVE  /\ Program(code)
         /\ \E s \in seen :
              /\ s \in SymState /\ s.current = pc /\ s.next_rng = Len(drawn)
              /\ Len(drawn) <= Draws
              /\ s.fuel > 0 /\ ~Dies(s)
              /\ Continuations(s) \subseteq seen
              /\ \A o \in Possible :
                   o \in Oracle /\ o \in s.assumptions /\ Denoted(s, o) = regs
         /\ Possible # {}
         /\ CanStep(code, pc, regs)
<1>1. PICK s \in seen : Concretizes(s)
  BY DEF IInv, Running
<1>2. TypeOK /\ s \in SymState /\ Program(code) /\ regs \in [Reg -> Value]
      /\ drawn \in Seq(Word)
  BY PendingTypes DEF IInv, TypeOK, Program
<1>3. s.current = pc /\ s.next_rng = Len(drawn) /\ Len(drawn) <= Draws
  BY <1>1 DEF Concretizes, IInv, Bounded
<1>4. Possible # {} /\ Possible \subseteq Oracle
  BY <1>2, <1>3, PossibleOracle
<1>5. ASSUME NEW o \in Possible
      PROVE  o \in Oracle /\ o \in s.assumptions /\ Denoted(s, o) = regs
  BY <1>1, <1>2, <1>4 DEF Concretizes, Denoted
<1>6. PICK o \in Possible : TRUE
  BY <1>4
<1>7. /\ Pending = {} /\ vc = Oracle
      /\ o \in Contribution(s)
      /\ Continuations(s) \subseteq seen
      /\ \A p \in seen : ~Bad(p, o)
  BY <1>5 DEF IInv, Running, Pending, Explored, Blamed
<1>8. s.fuel > 0 /\ ~Dies(s) /\ CanStep(code, pc, regs)
  <2>1. CASE Fetches({"Exit"}, s) /\ Continuations(s) = {}
               /\ (o \in Contribution(s)
                     <=> /\ o \in s.assertions
                         /\ o \in s.assumptions
                              => CanStep(code, s.current, Denoted(s, o)))
    <3>1. CanStep(code, pc, regs)
      BY <1>3, <1>5, <1>7, <2>1
    <3>2. s.fuel > 0 /\ ~Dies(s)
      BY <2>1, <1>2, SymStateFields DEF Fetches, Dies
    <3> QED
      BY <3>1, <3>2
  <2>2. CASE s.fuel > 0 /\ ~Dies(s) /\ Continuations(s) # {}
    <3>1. PICK t \in Continuations(s) : o \in t.assumptions
      BY <1>2, <1>5, <2>2, ContinuationsCover
    <3>2. o \in t.assertions
      BY <1>7, <3>1 DEF Bad
    <3> QED
      BY <1>2, <1>3, <1>5, <2>2, <3>2, ContinuationSound
  <2> QED
    BY <1>2, <1>5, <1>7, <2>1, <2>2, Ends
<1> QED
  BY <1>2, <1>3, <1>4, <1>5, <1>7, <1>8

\* What the invariant asks of a step of the program to an evaluated state t.
LEMMA StepsTo ==
  ASSUME IInv, phase = "running", ProgramStep,
         phase' = "running", ret' = ret,
         drawn' \in Seq(Word), regs' \in [Reg -> Value],
         NEW t \in seen, t \in SymState,
         t.current = pc', t.next_rng = Len(drawn'),
         \A o \in Possible' :
           o \in Oracle /\ o \in t.assumptions /\ Denoted(t, o) = regs'
  PROVE  IInv'
<1>1. UNCHANGED <<prog, cur, code, paths, vc, seen>>
  BY DEF ProgramStep, loaderVars
<1>2. \A s : /\ Continuations(s)' = Continuations(s)
             /\ Contribution(s)' = Contribution(s)
  BY <1>1 DEF Continuations, Contribution, Fetches, Dies, step_alu64,
              step_jmp64, step_call
<1>3. t.current \in Label
  BY SymStateFields
<1>4. TypeOK' /\ Started'
  BY <1>1, <1>3 DEF IInv, TypeOK, Started
<1>5. Explored' /\ Blamed' /\ Bounded'
  BY <1>1, <1>2 DEF IInv, Explored, Blamed, Bounded, Pending
<1>6. Concretizes(t)'
  <2>1. ASSUME NEW o \in Possible', NEW r \in Reg
        PROVE  denote(t.regs[r], o) = regs'[r]
    BY <2>1, DenotedTypes
  <2> QED
    BY <2>1 DEF Concretizes
<1>7. Running'
  BY <1>1, <1>6 DEF IInv, Running
<1> QED
  BY <1>4, <1>5, <1>7 DEF IInv

\* An ALU instruction runs as it was evaluated.
LEMMA ALUIInv == IInv /\ ProgramStep /\ (ALU64_X \/ ALU64_K) => IInv'
<1> SUFFICES ASSUME IInv, ProgramStep, ALU64_X \/ ALU64_K PROVE IInv'
  OBVIOUS
<1> DEFINE i == code[pc]
<1>1. /\ phase = "running" /\ phase' = "running" /\ ret' = ret
      /\ pc \in DOMAIN code /\ i.kind \in ALUKinds
      /\ regs' = [regs EXCEPT ![i.dst] =
                    doALU64(i.op, regs[i.dst], operand(i, regs))]
      /\ pc' = i.next
  BY DEF ALU64_X, ALU64_K, ALU64, Fetched, ALUKinds
<1>2. drawn' = drawn
  BY <1>1 DEF ProgramStep, ALUKinds
<1>3. PICK s \in seen :
        /\ s \in SymState /\ s.current = pc /\ s.next_rng = Len(drawn)
        /\ Len(drawn) <= Draws
        /\ s.fuel > 0 /\ ~Dies(s)
        /\ Continuations(s) \subseteq seen
        /\ \A o \in Possible :
             o \in Oracle /\ o \in s.assumptions /\ Denoted(s, o) = regs
  BY <1>1, RunningFacts
<1>4. Program(code) /\ Possible # {}
  BY <1>1, RunningFacts
<1>5. drawn \in Seq(Word) /\ regs \in [Reg -> Value]
  BY DEF IInv, TypeOK
<1>6. Fetches(ALUKinds, s)
  BY <1>1, <1>3, <1>4, FetchCases DEF Fetches, ALUKinds, JMPKinds
<1> DEFINE t == step_alu64(i, s)
<1>7. t \in seen
  BY <1>3, <1>6 DEF Continuations
<1>8. /\ t \in SymState /\ t.current = pc' /\ t.next_rng = Len(drawn)
      /\ \A o \in Possible :
           o \in Oracle /\ o \in t.assumptions /\ Denoted(t, o) = regs'
  BY <1>1, <1>3, <1>4, <1>6, ALUContinues
<1>9. regs' \in [Reg -> Value]
  BY <1>4, <1>8, DenotedTypes
<1>10. Possible' = Possible
  BY <1>2 DEF Possible
<1> HIDE DEF t
<1> QED
  BY <1>1, <1>2, <1>5, <1>7, <1>8, <1>9, <1>10, StepsTo

\* A jump runs as one of its branches was evaluated.
LEMMA JMPIInv == IInv /\ ProgramStep /\ (JMP64_X \/ JMP64_K) => IInv'
<1> SUFFICES ASSUME IInv, ProgramStep, JMP64_X \/ JMP64_K PROVE IInv'
  OBVIOUS
<1> DEFINE i == code[pc]
           taken == doJMP64(i.op, regs[i.dst], operand(i, regs))
<1>1. /\ phase = "running" /\ phase' = "running" /\ ret' = ret
      /\ pc \in DOMAIN code /\ i.kind \in JMPKinds
      /\ regs' = regs
      /\ pc' = IF taken THEN i.if_true ELSE i.if_false
  BY DEF JMP64_X, JMP64_K, JMP64, Fetched, JMPKinds
<1>2. drawn' = drawn
  BY <1>1 DEF ProgramStep, JMPKinds
<1>3. PICK s \in seen :
        /\ s \in SymState /\ s.current = pc /\ s.next_rng = Len(drawn)
        /\ Len(drawn) <= Draws
        /\ s.fuel > 0 /\ ~Dies(s)
        /\ Continuations(s) \subseteq seen
        /\ \A o \in Possible :
             o \in Oracle /\ o \in s.assumptions /\ Denoted(s, o) = regs
  BY <1>1, RunningFacts
<1>4. Program(code) /\ Possible # {}
  BY <1>1, RunningFacts
<1>5. drawn \in Seq(Word) /\ regs \in [Reg -> Value]
  BY DEF IInv, TypeOK
<1>6. Fetches(JMPKinds, s) /\ ~Fetches(ALUKinds, s)
  BY <1>1, <1>3, <1>4, FetchCases DEF Fetches, ALUKinds, JMPKinds
<1>7. taken \in BOOLEAN
  BY DEF doJMP64
<1> DEFINE t == step_jmp64(i, s, taken)
<1>8. t \in seen
  BY <1>3, <1>6, <1>7 DEF Continuations
<1>9. /\ t \in SymState /\ t.current = pc' /\ t.next_rng = Len(drawn)
      /\ \A o \in Possible :
           o \in Oracle /\ o \in t.assumptions /\ Denoted(t, o) = regs'
  BY <1>1, <1>3, <1>4, <1>6, <1>7, JMPContinues
<1>10. Possible' = Possible
  BY <1>2 DEF Possible
<1> HIDE DEF t
<1> QED
  BY <1>1, <1>2, <1>5, <1>8, <1>9, <1>10, StepsTo

\* A helper call returns what the oracles it does not rule out return.
LEMMA CallIInv == IInv /\ ProgramStep /\ CALL => IInv'
<1> SUFFICES ASSUME IInv, ProgramStep, CALL PROVE IInv'
  OBVIOUS
<1> DEFINE i == code[pc]
<1>1. /\ phase = "running" /\ phase' = "running" /\ ret' = ret
      /\ pc \in DOMAIN code /\ i.kind = "CALL"
      /\ pc' = i.next
  BY DEF CALL, Fetched
<1>2. PICK w \in Word : regs' = do_call(i.func, w, regs)
  BY DEF CALL
<1>3. PICK s \in seen :
        /\ s \in SymState /\ s.current = pc /\ s.next_rng = Len(drawn)
        /\ Len(drawn) <= Draws
        /\ s.fuel > 0 /\ ~Dies(s)
        /\ Continuations(s) \subseteq seen
        /\ \A o \in Possible :
             o \in Oracle /\ o \in s.assumptions /\ Denoted(s, o) = regs
  BY <1>1, RunningFacts
<1>4. Program(code) /\ Possible # {}
  BY <1>1, RunningFacts
<1>5. drawn \in Seq(Word) /\ regs \in [Reg -> Value]
  BY DEF IInv, TypeOK
<1>6. regs' \in [Reg -> Value] /\ regs'["R0"].n = w
  <2>1. scalar(w) \in Value /\ uninitialized \in Value /\ scalar(w).n = w
    BY DEF Value, scalar
  <2> QED
    BY <1>2, <1>5, <2>1, RegAssumption DEF do_call
<1>7. /\ drawn' = Append(drawn, w)
      /\ drawn' \in Seq(Word) /\ Len(drawn') = Len(drawn) + 1
      /\ \A n \in 1 .. Len(drawn) : drawn'[n] = drawn[n]
      /\ drawn'[Len(drawn) + 1] = w
  BY <1>1, <1>5, <1>6 DEF ProgramStep
<1>8. Fetches({"CALL"}, s) /\ ~Fetches(ALUKinds, s) /\ ~Fetches(JMPKinds, s)
  BY <1>1, <1>3, <1>4, FetchCases DEF Fetches, ALUKinds, JMPKinds
<1> DEFINE t == step_call(i, s)
<1>9. t \in seen
  BY <1>3, <1>8 DEF Continuations
<1>10. ASSUME NEW o \in Possible' PROVE o \in Possible /\ o[Len(drawn)] = w
  <2>1. o \in Oracle /\ \A n \in 1 .. Len(drawn) + 1 : o[n - 1] = drawn'[n]
    BY <1>7, <1>10 DEF Possible
  <2>2. Len(drawn) \in Nat
    BY <1>5
  <2>3. \A n \in 1 .. Len(drawn) : o[n - 1] = drawn[n]
    BY <1>7, <2>1, <2>2
  <2>4. o[(Len(drawn) + 1) - 1] = w /\ (Len(drawn) + 1) - 1 = Len(drawn)
    BY <1>7, <2>1, <2>2
  <2> QED
    BY <2>1, <2>3, <2>4 DEF Possible
<1>11. /\ t \in SymState /\ t.current = pc' /\ t.next_rng = Len(drawn')
       /\ t.assumptions = s.assumptions
       /\ \A o \in Oracle :
            Denoted(t, o) = do_call(i.func, o[Len(drawn)], Denoted(s, o))
  BY <1>1, <1>3, <1>4, <1>7, <1>8, CallContinues
<1> HIDE DEF t
<1>12. \A o \in Possible' :
         o \in Oracle /\ o \in t.assumptions /\ Denoted(t, o) = regs'
  BY <1>2, <1>3, <1>10, <1>11
<1> QED
  BY <1>1, <1>6, <1>7, <1>9, <1>11, <1>12, StepsTo

\* At an exit the program stops.
LEMMA ExitIInv == IInv /\ ProgramStep /\ Exit => IInv'
<1> SUFFICES ASSUME IInv, ProgramStep, Exit PROVE IInv'
  OBVIOUS
<1>1. /\ phase = "running" /\ phase' = "exited"
      /\ regs' = regs /\ pc' = pc
      /\ code[pc].kind = "Exit"
      /\ is_scalar(regs["R0"]) /\ ret' = regs["R0"].n
  BY DEF Exit, Fetched
<1>2. UNCHANGED <<prog, cur, code, paths, vc, seen, drawn>>
  BY <1>1 DEF ProgramStep, loaderVars
<1>3. \A s : /\ Continuations(s)' = Continuations(s)
             /\ Contribution(s)' = Contribution(s)
  BY <1>2 DEF Continuations, Contribution, Fetches, Dies, step_alu64,
              step_jmp64, step_call
<1>4. ret' \in Word
  <2>1. regs["R0"] \in Value
    BY RegAssumption DEF IInv, TypeOK
  <2> QED
    BY <1>1, <2>1 DEF Value, is_scalar, scalar, pointer, uninitialized
<1>5. TypeOK' /\ Started'
  BY <1>1, <1>2, <1>4 DEF IInv, TypeOK, Started
<1>6. Explored' /\ Blamed' /\ Bounded'
  BY <1>1, <1>2, <1>3 DEF IInv, Explored, Blamed, Bounded, Pending
<1>7. Running'
  BY <1>1 DEF Running
<1> QED
  BY <1>5, <1>6, <1>7 DEF IInv

\* Every step keeps the invariant.
LEMMA NextIInv == IInv /\ [Next]_vars => IInv'
<1> SUFFICES ASSUME IInv, [Next]_vars PROVE IInv'
  OBVIOUS
<1>1. CASE Done \/ UNCHANGED vars
  <2>1. UNCHANGED <<prog, cur, code, phase, pc, regs, ret, paths, vc, seen,
                    drawn>>
    BY <1>1 DEF Done, vars, loaderVars, runVars, symVars
  <2>2. \A s : /\ Continuations(s)' = Continuations(s)
               /\ Contribution(s)' = Contribution(s)
               /\ Concretizes(s)' = Concretizes(s)
    BY <2>1 DEF Continuations, Contribution, Fetches, Dies, Concretizes,
                Possible, step_alu64, step_jmp64, step_call
  <2>3. TypeOK' /\ Started'
    BY <2>1 DEF IInv, TypeOK, Started
  <2>4. Explored' /\ Blamed' /\ Bounded' /\ Running'
    BY <2>1, <2>2 DEF IInv, Explored, Blamed, Bounded, Running, Pending
  <2> QED
    BY <2>3, <2>4 DEF IInv
<1>2. CASE VerifierStep
  BY <1>2, DecodeIInv, VcgenIInv, EvaluationIInv, VerdictIInv
     DEF VerifierStep, Evaluation
<1>3. CASE ProgramStep
  BY <1>3, ALUIInv, JMPIInv, CallIInv, ExitIInv DEF ProgramStep, step
<1> QED
  BY <1>1, <1>2, <1>3 DEF Next

\* The invariant of symbolic evaluation and of the programs it accepts.
THEOREM Invariant == Spec => []IInv
  BY InitIInv, NextIInv, PTL DEF Spec

\* The types of the variables.
THEOREM TypeCorrect == Spec => []TypeOK
<1>1. IInv => TypeOK
  BY DEF IInv
<1> QED
  BY <1>1, Invariant, PTL

(***************************************************************************)
(* vcgen_spec: a program whose verification condition is valid is never    *)
(* stuck, whatever the depth to which its paths were evaluated.            *)
(***************************************************************************)
THEOREM Safety == Spec => []NeverStuck
<1>1. IInv => NeverStuck
  BY RunningFacts DEF NeverStuck
<1> QED
  BY <1>1, Invariant, PTL

(***************************************************************************)
(* concretizes: what the program does is an instance of a state that       *)
(* symeval went through, for all oracles that may have answered its calls. *)
(***************************************************************************)
THEOREM Tracking == Spec => []SymbolicTracks
<1>1. IInv => SymbolicTracks
  BY DEF IInv, Running, SymbolicTracks
<1> QED
  BY <1>1, Invariant, PTL

-----------------------------------------------------------------------------
(* The condition is no stronger than it has to be.                         *)

\* Under oracle o the program gets stuck or exhausts the fuel; or there is an
\* instruction that cannot be evaluated.
Excuse(o) ==
  \E s \in seen :
    \/ Dies(s)
    \/ /\ o \in s.assumptions
       /\ s.fuel = 0 \/ ~CanStep(code, s.current, Denoted(s, o))

\* A failed check has an excuse before it gets to the condition.
Excused ==
  /\ \A o \in Oracle : o \notin vc => Excuse(o)
  /\ \A p \in Pending : \A o \in Oracle : o \notin p.assertions => Excuse(o)

\* Evaluating one symbolic state keeps the excuses, and finds new ones.
LEMMA EvaluationExcused ==
  ASSUME IInv, Excused, Evaluation
  PROVE  Excused'
<1> PICK h : h = Head(paths)
  OBVIOUS
<1>1. Program(code) /\ paths \in Seq(SymState)
  BY DEF IInv, TypeOK, Program
<1>2. /\ h \in SymState /\ code' = code
      /\ vc' = vc \cap Contribution(h) /\ seen' = seen \cup {h}
  BY <1>1, EvaluationStep DEF loaderVars
<1>3. h \in Pending /\ Pending' \subseteq Continuations(h) \cup Pending
  BY <1>1, PendingStep
<1>4. \A o : Excuse(o) => Excuse(o)'
  BY <1>2 DEF Excuse, Dies, Fetches, Denoted
<1>5. ASSUME NEW o, \/ Dies(h)
                    \/ /\ o \in h.assumptions
                       /\ h.fuel = 0 \/ ~CanStep(code, h.current, Denoted(h, o))
      PROVE  Excuse(o)'
  <2>1. h \in seen' /\ Dies(h)' = Dies(h)
    BY <1>2 DEF Dies, Fetches
  <2> QED
    BY <1>2, <1>5, <2>1 DEF Excuse
<1>6. ASSUME NEW o \in Oracle, o \notin h.assertions
      PROVE  Excuse(o)'
  BY <1>3, <1>4, <1>6 DEF Excused
<1>7. ASSUME NEW p \in Continuations(h), NEW o \in Oracle,
             o \notin p.assertions
      PROVE  Excuse(o)'
  <2>1. \/ o \notin h.assertions
        \/ o \in h.assumptions /\ ~CanStep(code, h.current, Denoted(h, o))
    BY <1>1, <1>2, <1>7, ContinuationSound
  <2> QED
    BY <1>5, <1>6, <2>1
<1>8. ASSUME NEW o \in Oracle, o \notin Contribution(h)
      PROVE  Excuse(o)'
  <2>1. \/ Dies(h) \/ o \notin h.assertions
        \/ /\ o \in h.assumptions
           /\ h.fuel = 0 \/ ~CanStep(code, h.current, Denoted(h, o))
    BY <1>1, <1>2, <1>8, Ends
  <2> QED
    BY <1>5, <1>6, <2>1
<1> QED
  BY <1>2, <1>3, <1>4, <1>7, <1>8 DEF Excused

\* No step loses an excuse.
LEMMA NextExcused == IInv /\ Excused /\ [Next]_vars => Excused'
<1> SUFFICES ASSUME IInv, Excused, [Next]_vars PROVE Excused'
  OBVIOUS
<1>1. CASE Evaluation
  BY <1>1, EvaluationExcused
<1>2. CASE Decode
  <2>1. /\ paths = <<>> /\ vc = Oracle /\ paths' = paths /\ vc' = vc
    BY <1>2 DEF Decode, symVars, IInv, Started
  <2> QED
    BY <2>1 DEF Excused, Pending
<1>3. CASE vcgen
  <2>1. /\ vc = Oracle /\ vc' = vc /\ paths' = <<initial_symstate>>
    BY <1>3 DEF vcgen, IInv, Started
  <2>2. Pending' = {initial_symstate} /\ initial_symstate.assertions = Oracle
    BY <2>1 DEF Pending, initial_symstate, mk_true
  <2> QED
    BY <2>1, <2>2 DEF Excused
<1>4. CASE Accept \/ Reject \/ ProgramStep \/ Done \/ UNCHANGED vars
  <2>1. UNCHANGED <<code, paths, vc, seen>>
    BY <1>4 DEF Accept, Reject, ProgramStep, Done, vars, loaderVars, symVars
  <2>2. \A o : Excuse(o)' = Excuse(o)
    BY <2>1 DEF Excuse, Dies, Fetches
  <2> QED
    BY <2>1, <2>2 DEF Excused, Pending
<1> QED
  BY <1>1, <1>2, <1>3, <1>4 DEF Next, VerifierStep, Evaluation

(***************************************************************************)
(* symeval, step_symeval: a verification condition that is not valid names *)
(* an oracle under which the program gets stuck or outruns the fuel.       *)
(***************************************************************************)
THEOREM Precision == Spec => []Precise
<1>1. SymInit => Excused
  BY DEF SymInit, Excused, Pending, mk_true
<1>2. Excused => Precise
  BY DEF Excused, Excuse, Precise, Denoted, mk_not
<1> QED
  BY <1>1, <1>2, NextExcused, Invariant, PTL DEF Spec

-----------------------------------------------------------------------------
(* Paths exclude each other.                                               *)

\* The paths that replace one of several disjoint paths are disjoint.
LEMMA EvaluationDisjoint ==
  ASSUME IInv, PathsDisjoint, Evaluation
  PROVE  PathsDisjoint'
<1> PICK h : h = Head(paths)
  OBVIOUS
<1>1. /\ Program(code) /\ paths \in Seq(SymState) /\ paths # <<>>
      /\ h \in SymState
  BY EvaluationStep DEF IInv, TypeOK, Program
<1>2. PICK next \in Seq(SymState) :
        /\ paths' = next \o Tail(paths)
        /\ {next[n] : n \in DOMAIN next} = Continuations(h)
        /\ Disjoint(next)
  BY <1>1, EvaluationStep
<1> DEFINE rest == Tail(paths)
           N == Len(next)
<1>3. /\ rest \in Seq(SymState) /\ N \in Nat /\ Len(rest) \in Nat
      /\ \A n \in 1 .. Len(rest) :
           rest[n] = paths[n + 1] /\ n + 1 \in DOMAIN paths
      /\ h = paths[1] /\ 1 \in DOMAIN paths
  BY <1>1
<1>4. /\ DOMAIN next = 1 .. N
      /\ DOMAIN paths' = 1 .. (N + Len(rest))
      /\ \A n \in 1 .. N : paths'[n] = next[n]
      /\ \A n \in (N + 1) .. (N + Len(rest)) :
           /\ n - N \in 1 .. Len(rest)
           /\ paths'[n] = rest[n - N]
  BY <1>2, <1>3
<1>5. \A n \in 1 .. N : next[n].assumptions \subseteq h.assumptions
  BY <1>1, <1>2, <1>4, ContinuationSound
<1>6. \A m, n \in 1 .. Len(rest) :
        m # n => rest[m].assumptions \cap rest[n].assumptions = {}
  <2> SUFFICES ASSUME NEW m \in 1 .. Len(rest), NEW n \in 1 .. Len(rest), m # n
               PROVE  rest[m].assumptions \cap rest[n].assumptions = {}
    OBVIOUS
  <2>1. m + 1 # n + 1
    BY <1>3
  <2> QED
    BY <1>3, <2>1 DEF PathsDisjoint
<1>7. \A n \in 1 .. Len(rest) :
        h.assumptions \cap rest[n].assumptions = {}
  <2> SUFFICES ASSUME NEW n \in 1 .. Len(rest)
               PROVE  h.assumptions \cap rest[n].assumptions = {}
    OBVIOUS
  <2>1. n + 1 # 1
    BY <1>3
  <2> QED
    BY <1>3, <2>1 DEF PathsDisjoint
<1>8. ASSUME NEW m \in DOMAIN paths', NEW n \in DOMAIN paths', m < n
      PROVE  paths'[m].assumptions \cap paths'[n].assumptions = {}
  <2>1. CASE n \in 1 .. N
    <3>1. m \in 1 .. N /\ m # n
      BY <1>3, <1>4, <1>8, <2>1
    <3> QED
      BY <1>2, <1>4, <2>1, <3>1 DEF Disjoint
  <2>2. CASE n \notin 1 .. N /\ m \in 1 .. N
    <3>1. n \in (N + 1) .. (N + Len(rest))
      BY <1>3, <1>4, <2>2
    <3> QED
      BY <1>4, <1>5, <1>7, <2>2, <3>1
  <2>3. CASE n \notin 1 .. N /\ m \notin 1 .. N
    <3>1. /\ n \in (N + 1) .. (N + Len(rest))
          /\ m \in (N + 1) .. (N + Len(rest))
          /\ m - N # n - N
      BY <1>3, <1>4, <1>8, <2>3
    <3> QED
      BY <1>4, <1>6, <3>1
  <2> QED
    BY <2>1, <2>2, <2>3
<1>9. \A m, n \in DOMAIN paths' : m # n => m < n \/ n < m
  BY <1>3, <1>4
<1> QED
  BY <1>8, <1>9 DEF PathsDisjoint

(***************************************************************************)
(* step_jmp64: the branches of a jump assume opposite conditions, so that  *)
(* no two paths that wait to be evaluated share an oracle, in no order and *)
(* to no depth.                                                            *)
(***************************************************************************)
THEOREM Disjointness == Spec => []PathsDisjoint
<1>1. SymInit => PathsDisjoint
  BY DEF SymInit, PathsDisjoint
<1>2. IInv /\ PathsDisjoint /\ [Next]_vars => PathsDisjoint'
  <2> SUFFICES ASSUME IInv, PathsDisjoint, [Next]_vars PROVE PathsDisjoint'
    OBVIOUS
  <2>1. CASE Evaluation
    BY <2>1, EvaluationDisjoint
  <2>2. CASE vcgen
    <3>1. DOMAIN paths' = {1}
      BY <2>2 DEF vcgen
    <3> QED
      BY <3>1 DEF PathsDisjoint
  <2>3. CASE \/ Decode \/ Accept \/ Reject
             \/ ProgramStep \/ Done \/ UNCHANGED vars
    BY <2>3 DEF Decode, Accept, Reject, ProgramStep, Done, vars, symVars,
                PathsDisjoint
  <2> QED
    BY <2>1, <2>2, <2>3 DEF Next, VerifierStep, Evaluation
<1> QED
  BY <1>1, <1>2, Invariant, PTL DEF Spec

-----------------------------------------------------------------------------
(* The abstract specification.                                             *)

\* A step between states that are not stuck is one of SafeProgram's, or
\* changes nothing there.
LEMMA StepImplements ==
  ASSUME NeverStuck, NeverStuck', TypeOK, TypeOK', [Next]_vars
  PROVE  [Abstract!Next]_(Abstract!vars)
<1>1. /\ phase \in {"decode", "symeval"} => abstract_status = "pending"
      /\ phase \in {"running", "rejected", "exited"} => abstract_status = phase
  BY DEF NeverStuck, abstract_status
<1>2. /\ phase' \in {"decode", "symeval"} => abstract_status' = "pending"
      /\ phase' \in {"running", "rejected", "exited"}
           => abstract_status' = phase'
  BY DEF NeverStuck, abstract_status
<1> USE DEF Abstract!Next, Abstract!vars
<1>3. CASE Decode \/ vcgen \/ Evaluation
  <2>1. /\ phase \in {"decode", "symeval"} /\ phase' \in {"decode", "symeval"}
        /\ ret' = ret
    BY <1>3 DEF Decode, vcgen, Evaluation, OutOfFuel, EvalALU64, EvalJMP64,
       EvalCALL, EvalExit, Die, step_symeval, Evaluate, runVars
  <2> QED
    BY <1>1, <1>2, <2>1
<1>4. CASE Accept
  <2>1. phase = "symeval" /\ phase' = "running" /\ ret' = ret
    BY <1>4 DEF Accept, runVars
  <2> QED
    BY <1>1, <1>2, <2>1 DEF Abstract!Accept
<1>5. CASE Reject
  <2>1. phase = "symeval" /\ phase' = "rejected" /\ ret' = ret
    BY <1>5 DEF Reject, runVars
  <2> QED
    BY <1>1, <1>2, <2>1 DEF Abstract!Reject
<1>6. CASE ALU64_X \/ ALU64_K \/ JMP64_X \/ JMP64_K \/ CALL
  <2>1. phase = "running" /\ phase' = "running" /\ ret' = ret
    BY <1>6 DEF ALU64_X, ALU64_K, ALU64, JMP64_X, JMP64_K, JMP64, CALL, Fetched
  <2> QED
    BY <1>1, <1>2, <2>1
<1>7. CASE Exit
  <2>1. phase = "running" /\ phase' = "exited" /\ ret' \in Word
    BY <1>7 DEF Exit, Fetched, TypeOK
  <2> QED
    BY <1>1, <1>2, <2>1 DEF Abstract!Return
<1>8. CASE Done \/ UNCHANGED vars
  <2>1. UNCHANGED <<phase, ret, code, pc, regs>>
    BY <1>8 DEF Done, vars, loaderVars, runVars
  <2> QED
    BY <2>1 DEF abstract_status
<1> QED
  BY <1>3, <1>4, <1>5, <1>6, <1>7, <1>8
     DEF Next, VerifierStep, Evaluation, ProgramStep, step

(***************************************************************************)
(* binary_safe (spec.lean, decision.lean): like the abstract interpreter,  *)
(* this verifier with the program it lets run implements SafeProgram, but  *)
(* for fairness.                                                           *)
(***************************************************************************)
THEOREM Implementation == Spec => Abstract!Spec
<1>1. SymInit => Abstract!Init
  BY PowerTypes
     DEF SymInit, initial_state, abstract_status, Abstract!Init, Word
<1>2. /\ NeverStuck /\ NeverStuck' /\ TypeOK /\ TypeOK' /\ [Next]_vars
        => [Abstract!Next]_(Abstract!vars)
  BY StepImplements
<1> QED
  BY <1>1, <1>2, TypeCorrect, Safety, PTL DEF Spec, Abstract!Spec
=============================================================================
