---------------------------- MODULE MCLifecycle ----------------------------
(* Lifecycle with three adapters: the one the spec looks at, one that misbehaves, one
   that does not. *)
EXTENDS Lifecycle

MCDefects == {"none", "deaf", "flapping", "premature", "hasty", "early"}
=============================================================================
