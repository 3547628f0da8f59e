----------------------------- MODULE ValueAbstr -----------------------------
(***************************************************************************)
(* The class value_abstr of lean/src/bpf/absint/value.lean, on which the   *)
(* verifier is parameterised: the constants are the fields it uses, the    *)
(* definitions the laws of which an instance must hold a proof.  The laws  *)
(* are stated in the classes of lean/src/data/domain/basic.lean.           *)
(***************************************************************************)
EXTENDS Bpf

CONSTANTS AValue,               \* the abstract values
          Bot,                  \* bottom, which with_bot adds
          v_gamma(_),           \* the values an abstract value stands for
          v_le(_, _),
          v_join(_, _),
          v_const(_),
          v_unknown_scalar,
          v_doALU64(_, _, _),
          v_doALU64_check(_, _, _),
          v_doJMP64_check(_, _, _),
          v_doJMP64_tt(_, _, _), \* what two values can be if the jump is taken
          v_is_scalar(_)

\* The types of the fields: abstract operations give abstract values.
FieldTypes ==
  /\ \A a \in AValue : v_gamma(a) \subseteq Value
  /\ \A v \in Value : v_const(v) \in AValue
  /\ v_unknown_scalar \in AValue
  /\ \A a, b \in AValue :
       /\ v_join(a, b) \in AValue
       /\ \A op \in ALU : v_doALU64(op, a, b) \in AValue
       /\ \A op \in JMP : \A k \in {1, 2} :
            v_doJMP64_tt(op, a, b)[k] \in AValue \cup {Bot}

\* abstr_le
le_correct ==
  \A a, b \in AValue : v_le(a, b) => v_gamma(a) \subseteq v_gamma(b)

\* abstr_join
join_correct ==
  \A a, b \in AValue : v_gamma(a) \cup v_gamma(b) \subseteq v_gamma(v_join(a, b))

\* abstr_nullary_relation, for const and unknown_scalar.
const_correct == \A v \in Value : v \in v_gamma(v_const(v))
unknown_scalar_correct == \A x \in Word : scalar(x) \in v_gamma(v_unknown_scalar)

\* abstr_binary_transfer and abstr_binary_test, for the ALU operations.
doALU64_correct ==
  \A op \in ALU, a, b \in AValue : \A x \in v_gamma(a), y \in v_gamma(b) :
    /\ doALU64(op, x, y) \in v_gamma(v_doALU64(op, a, b))
    /\ v_doALU64_check(op, a, b) => doALU64_check(op, x, y)

\* abstr_binary_test and abstr_binary_inversion, for the jumps.
doJMP64_correct ==
  \A op \in JMP, a, b \in AValue : \A x \in v_gamma(a), y \in v_gamma(b) :
    /\ v_doJMP64_check(op, a, b) => doJMP64_check(op, x, y)
    /\ doJMP64(op, x, y) =>
         LET z == v_doJMP64_tt(op, a, b)
         IN  /\ z[1] # Bot /\ x \in v_gamma(z[1])
             /\ z[2] # Bot /\ y \in v_gamma(z[2])

\* abstr_unary_test
is_scalar_sound ==
  \A a \in AValue : v_is_scalar(a) => \A x \in v_gamma(a) : is_scalar(x)

Lawful ==
  /\ FieldTypes
  /\ le_correct /\ join_correct
  /\ const_correct /\ unknown_scalar_correct
  /\ doALU64_correct /\ doJMP64_correct
  /\ is_scalar_sound

(***************************************************************************)
(* Not among the laws of the class, which relate joins to sets of values   *)
(* and not to the order: order is reflexive and a join is above its        *)
(* second operand.                                                         *)
(***************************************************************************)
JoinAscends == \A a, b \in AValue : v_le(a, a) /\ v_le(b, v_join(a, b))

(***************************************************************************)
(* Nor is this: both operands are below their join, and H bounds how often *)
(* a value can rise, by the ranks it takes.                                *)
(***************************************************************************)
Ranked(rank, H) ==
  /\ JoinAscends
  /\ \A a, b \in AValue : v_le(a, v_join(a, b))
  /\ rank \in [AValue -> 0 .. H]
  /\ \A a, b \in AValue : v_le(a, b) /\ a # b => rank[a] < rank[b]
=============================================================================
