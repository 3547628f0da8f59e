---------------------------- MODULE RegisterWalk ----------------------------
(***************************************************************************)
(* One register, executed twice: val is its value in the concrete          *)
(* semantics (module Bpf), abs its value in the abstract one (module       *)
(* ValueDomain).  Operations are applied to both in any order, with any    *)
(* second operand, and abs may lose precision at any time in a join, as it *)
(* does where control flow meets.  The laws that the source proves of the  *)
(* instance of value_abstr, one lemma per operation, become invariants of  *)
(* this walk.                                                              *)
(***************************************************************************)
EXTENDS ValueDomain

VARIABLES val, abs

walkVars == <<val, abs>>

\* The pairs of an abstract and a concrete second operand.
Operand == {o \in avalues \X Value : o[2] \in avalue_gamma(o[1])}

WalkInit ==
  /\ val \in Value
  /\ abs = avalue_const(val)

\* Whether or not the concrete check allows the operation.
WalkALU(op, b, y) ==
  /\ val' = doALU64(op, val, y)
  /\ abs' = avalue_doALU64(op, abs, b)

WalkJoin(b) ==
  /\ abs' = avalue_join(abs, b)
  /\ UNCHANGED val

WalkNext == \/ \E op \in ALU, o \in Operand : WalkALU(op, o[1], o[2])
            \/ \E b \in avalues : WalkJoin(b)

WalkSpec == WalkInit /\ [][WalkNext]_walkVars

-----------------------------------------------------------------------------

(***************************************************************************)
(* The abstract value stands for the concrete one after any sequence of    *)
(* operations and joins: the correct fields of doALU64 (value.lean,        *)
(* tnum.lean, and shl_correct, which the source derives from an axiom that *)
(* is false) and of the joins.                                             *)
(***************************************************************************)
Simulates == val \in avalue_gamma(abs)

(***************************************************************************)
(* A test that passes on abstract values passes on every pair of values    *)
(* they stand for: in particular no division that can be by zero, and no   *)
(* operation on an uninitialized register, is let through.                 *)
(***************************************************************************)
TestsSound ==
  \A o \in Operand :
    /\ \A op \in ALU : avalue_doALU64_check(op, abs, o[1])
                         => doALU64_check(op, val, o[2])
    /\ \A op \in JMP : avalue_doJMP64_check(op, abs, o[1])
                         => doJMP64_check(op, val, o[2])

(***************************************************************************)
(* The laws the solver and its final check rely on.  The decidable order   *)
(* is inclusion of the sets stood for, exactly, so that a constraint is    *)
(* accepted if and only if it holds of those sets (le_correct states one   *)
(* direction); the join is the least upper bound, so that a round raises a *)
(* state as little as the constraints ask and never lowers one; the meet   *)
(* of two tnums stands for the words both stand for, and is bottom only    *)
(* when there are none.                                                    *)
(***************************************************************************)
OrderIsInclusion ==
  \A b \in avalues :
    avalue_le(abs, b) <=> avalue_gamma(abs) \subseteq avalue_gamma(b)

JoinIsLeast ==
  \A b \in avalues :
    LET j == avalue_join(abs, b)
    IN  /\ avalue_le(abs, j) /\ avalue_le(b, j)
        /\ \A c \in avalues : avalue_le(abs, c) /\ avalue_le(b, c)
                                => avalue_le(j, c)

MeetIsIntersection ==
  HasTnum(abs) =>
    \A t \in Tnum :
      LET m == tnum_meet(abs.t, t)
          both == tnum_gamma(abs.t) \cap tnum_gamma(t)
      IN  IF m = NoTnum THEN both = {} ELSE tnum_gamma(m) = both

LatticeLaws == OrderIsInclusion /\ JoinIsLeast /\ MeetIsIntersection

(***************************************************************************)
(* Tnum addition, subtraction and the bitwise operations are optimal       *)
(* (tnum.lean defines "optimal"; racket/test/test-tnum.rkt checks it of    *)
(* another implementation): a bit of the result is unknown only if two     *)
(* pairs of words that the operands stand for differ in it.                *)
(***************************************************************************)
Optimal ==
  HasTnum(abs) =>
    \A op \in {"ADD", "SUB", "AND", "OR", "XOR", "NEG"}, t \in Tnum :
      LET results == {doALU64_scalar(op, x, y) :
                        x \in tnum_gamma(abs.t), y \in tnum_gamma(t)}
          r == doALU_scalar(op, abs.t, t)
      IN  \A i \in 1 .. W :
            r[i] = X => {Bit(z, i - 1) : z \in results} = {0, 1}

(***************************************************************************)
(* Larger operands give larger results, except for MOV, which returns its  *)
(* source when the destination is top and forgets it when both are scalars *)
(* (doALU_scalar's last case).                                             *)
(***************************************************************************)
Monotone ==
  \A b \in avalues : avalue_le(abs, b) =>
    \A op \in ALU \ {"MOV"}, c \in avalues :
      avalue_le(avalue_doALU64(op, abs, c), avalue_doALU64(op, b, c))
=============================================================================
