-------------------------- MODULE MCRequiredAdapters -------------------------
(* Specs on two kinds, one after the other.                                *)
EXTENDS RequiredAdapters

MCKinds == {"Cluster", "Parent"}
==============================================================================
