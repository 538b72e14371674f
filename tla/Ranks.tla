--------------------------------- MODULE Ranks ---------------------------------
(***************************************************************************)
(* Ranks: pairs of natural numbers, the more significant first, that say   *)
(* how far a component is from its end.  No sequence of ranks goes down    *)
(* forever (RanksRunOut in ResourceCleanupProofs): a component whose every *)
(* step lowers its rank takes finitely many.                               *)
(***************************************************************************)
EXTENDS Naturals

\* s is a rank, and lower than t.
Below(s, t) ==
  /\ s \in Nat \X Nat
  /\ s[1] < t[1] \/ (s[1] = t[1] /\ s[2] < t[2])
==============================================================================
