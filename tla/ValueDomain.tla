----------------------------- MODULE ValueDomain -----------------------------
(***************************************************************************)
(* The abstract values of the verifier: the instance of value_abstr that   *)
(* lean/src/bpf/absint/value.lean gives, a scalar or a pointer whose       *)
(* offset is a tnum, an uninitialized value, or top.                       *)
(***************************************************************************)
EXTENDS Bpf, Tnum

avalue_scalar(t) == [tag |-> "scalar", t |-> t]
avalue_pointer(m, t) == [tag |-> "pointer", m |-> m, t |-> t]
avalue_uninitialized == [tag |-> "uninitialized"]
top == [tag |-> "top"]          \* added by with_top

avalues == {avalue_scalar(t) : t \in Tnum}
              \cup {avalue_pointer(m, t) : m \in Region, t \in Tnum}
              \cup {avalue_uninitialized, top}

avalue_gamma(a) ==
  CASE a.tag = "scalar"        -> {scalar(x) : x \in tnum_gamma(a.t)}
    [] a.tag = "pointer"       -> {pointer(a.m, x) : x \in tnum_gamma(a.t)}
    [] a.tag = "uninitialized" -> {uninitialized}
    [] a.tag = "top"           -> Value

avalue_const(v) ==
  CASE v.tag = "scalar"        -> avalue_scalar(tnum_const(v.n))
    [] v.tag = "pointer"       -> avalue_pointer(v.m, tnum_const(v.n))
    [] v.tag = "uninitialized" -> avalue_uninitialized

\* Two values that only their tnums may tell apart.
SameShape(a, b) == a.tag = b.tag /\ (a.tag = "pointer" => a.m = b.m)
HasTnum(a) == a.tag \in {"scalar", "pointer"}

avalue_le(a, b) ==
  \/ b = top
  \/ SameShape(a, b) /\ (HasTnum(a) => tnum_le(a.t, b.t))

avalue_join(a, b) ==
  IF ~SameShape(a, b) THEN top
  ELSE IF HasTnum(a) THEN [a EXCEPT !.t = tnum_join(a.t, b.t)]
  ELSE a

-----------------------------------------------------------------------------
(* ALU operations.                                                         *)

doALU_scalar(op, s, t) ==
  CASE op = "ADD"  -> tnum_add(s, t)
    [] op = "SUB"  -> tnum_sub(s, t)
    [] op = "NEG"  -> tnum_neg(s)
    [] op = "MUL"  -> tnum_mul(s, t)
    [] op = "LSH"  -> tnum_shl(s, t)
    [] op = "XOR"  -> tnum_xor(s, t)
    [] op = "AND"  -> tnum_and(s, t)
    [] op = "OR"   -> tnum_or(s, t)
    [] op = "DIV"  -> tnum_udiv(s, t)
    [] op = "MOD"  -> tnum_urem(s, t)
    [] op = "RSH"  -> tnum_lshr(s, t)
    [] op = "ARSH" -> tnum_ashr(s, t)
    [] OTHER       -> tnum_top         \* MOV and END

doALU_scalar_pointer(op, m, s, t) ==
  CASE op = "ADD" -> avalue_pointer(m, tnum_add(s, t))
    [] op = "SUB" -> avalue_pointer(m, tnum_sub(s, t))
    [] op = "MOV" -> avalue_scalar(t)
    [] OTHER      -> avalue_pointer(m, s)

\* MOV is the source operand even if either operand is top.
avalue_doALU64(op, a, b) ==
  CASE a.tag = "scalar" /\ b.tag = "scalar" ->
         avalue_scalar(doALU_scalar(op, a.t, b.t))
    [] a.tag = "pointer" /\ b.tag = "scalar" ->
         doALU_scalar_pointer(op, a.m, a.t, b.t)
    [] OTHER -> IF op = "MOV" THEN b ELSE top

\* Shifts are refused: no amount is known to be in range.
fault_doALU64_scalar_check(op, s, t) ==
  /\ op \notin {"LSH", "RSH", "ARSH", "END"}
  /\ op \in {"DIV", "MOD"} => t # tnum_const(0)

avalue_doALU64_scalar_check(op, s, t) ==
  /\ op \notin {"LSH", "RSH", "ARSH", "END"}
  /\ op \in {"DIV", "MOD"} => 0 \notin tnum_gamma(t)

avalue_doALU64_check(op, a, b) ==
  CASE a.tag = "scalar" /\ b.tag = "scalar" ->
         avalue_doALU64_scalar_check(op, a.t, b.t)
    [] a.tag = "pointer" /\ b.tag = "scalar" -> doALU_pointer_scalar_check(op)
    [] OTHER -> op = "MOV" /\ HasTnum(b)

-----------------------------------------------------------------------------
(* Jumps, and the rest of the class.                                       *)

avalue_doJMP64_check(op, a, b) == a.tag = "scalar" /\ b.tag = "scalar"

\* abstr_binary_inversion.trivial: nothing is learnt from the condition.
avalue_doJMP64_tt(op, a, b) == <<a, b>>

avalue_is_scalar(a) == a.tag = "scalar"

avalue_unknown_scalar == avalue_scalar(tnum_top)
=============================================================================
