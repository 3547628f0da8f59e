----------------------------- MODULE SafeProgram -----------------------------
(***************************************************************************)
(* What the verifier promises about a program, without saying how: the     *)
(* property bpf.cfg.safe of lean/src/bpf/cfg.lean (every reachable state   *)
(* can step or has exited) of every program that binary_safe accepts       *)
(* (lean/src/bpf/spec.lean).  A verdict is given once, and a program that  *)
(* was accepted may run forever or return a scalar, but never gets stuck.  *)
(***************************************************************************)
EXTENDS Naturals

CONSTANT Result                 \* the scalars a program may return

VARIABLES status,               \* "pending", "rejected", "running",
                                \* "stuck" or "exited"
          result                \* what an exited program returned

vars == <<status, result>>

Init == status = "pending" /\ result \in Result

Reject == status = "pending" /\ status' = "rejected" /\ UNCHANGED result

Accept == status = "pending" /\ status' = "running" /\ UNCHANGED result

Return ==
  /\ status = "running"
  /\ status' = "exited"
  /\ result' \in Result

Next == Reject \/ Accept \/ Return

Spec == Init /\ [][Next]_vars

\* The verifier is a total function: it gives some verdict.
FairSpec == Spec /\ WF_vars(Reject \/ Accept)
=============================================================================
