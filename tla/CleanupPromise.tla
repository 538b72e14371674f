---------------------------- MODULE CleanupPromise ---------------------------
(***************************************************************************)
(* What CleanupTestResource promises the spec that registered it, without  *)
(* saying how: the resource only moves towards "gone", the cleanup gives   *)
(* one verdict and keeps it, and a "clean" verdict is honest about what is *)
(* left behind.                                                            *)
(***************************************************************************)
EXTENDS Integers

CONSTANT
  Policies       (* records with the flags WaitForHardDelete, IgnoreConflict *)

VARIABLES
  policy,        \* the teardown policy of the resource
  phase,         \* the resource in the API: "live", "deleting" or "gone"
  verdict        \* of the cleanup: "pending", "clean" or "warning"

vars == <<policy, phase, verdict>>

Phases == {"live", "deleting", "gone"}

\* The phases a resource may be in after it was in phase p.
Onward(p) ==
  CASE p = "live"     -> Phases
    [] p = "deleting" -> {"deleting", "gone"}
    [] OTHER          -> {"gone"}

\* The phases a clean verdict may leave the resource in.
Acceptable ==
  {p \in Phases : \/ p = "gone"
                  \/ p = "deleting" /\ ~policy.WaitForHardDelete
                  \/ policy.IgnoreConflict}

Init ==
  /\ policy \in Policies
  /\ phase \in Phases
  /\ verdict = "pending"

\* The API moves the resource on, whatever the cleanup is doing.
Advance ==
  /\ phase' \in Onward(phase) \ {phase}
  /\ UNCHANGED <<policy, verdict>>

ReportClean ==
  /\ verdict = "pending"
  /\ verdict' = "clean"
  /\ phase' \in Onward(phase) \intersect Acceptable
  /\ UNCHANGED policy

ReportWarning ==
  /\ verdict = "pending"
  /\ verdict' = "warning"
  /\ phase' \in Onward(phase)
  /\ UNCHANGED policy

Next == Advance \/ ReportClean \/ ReportWarning

Spec == Init /\ [][Next]_vars
==============================================================================
