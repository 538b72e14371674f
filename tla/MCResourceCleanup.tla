-------------------------- MODULE MCResourceCleanup --------------------------
(* The cleanup of every kind of the table, with a few children below it.   *)
EXTENDS ResourceCleanup

MCEntities == {EntityDescriptors[i] : i \in DOMAIN EntityDescriptors}
==============================================================================
