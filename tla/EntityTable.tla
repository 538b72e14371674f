----------------------------- MODULE EntityTable -----------------------------
(***************************************************************************)
(* The descriptor table of pkg/config/descriptor.go: one row per kind of   *)
(* resource the suite exercises, with its routing, its required adapters   *)
(* and the teardown policy of its test cleanup.  Timeouts are in minutes;  *)
(* latency thresholds are left out, since no property is about them.       *)
(***************************************************************************)
EXTENDS Integers, Sequences

\* The EntityDescriptor of a row.
EntityDescriptor ==
  [Kind : STRING, Plural : STRING, ParentKind : STRING, ParentPlural : STRING,
   OnParentDelete : STRING, RequiredAdapters : SUBSET STRING,
   Cleanup : [ChildKinds : Seq(STRING), WaitForHardDelete : BOOLEAN,
              IgnoreNotFound : BOOLEAN, IgnoreConflict : BOOLEAN],
   Timeouts : [Reconciled : Int, Deleted : Int]]

\* A CleanupPolicy: the set of its flags that are true, and its ChildKinds.
CleanupPolicy(flags, childKinds) ==
  [ChildKinds        |-> childKinds,
   WaitForHardDelete |-> "WaitForHardDelete" \in flags,
   IgnoreNotFound    |-> "IgnoreNotFound" \in flags,
   IgnoreConflict    |-> "IgnoreConflict" \in flags]

\* A row as the table writes it: ParentPlural is left for NewCatalog to resolve,
\* and the reconciling kinds carry defaultEntityTimeouts.
NestedRow(kind, plural, parent, onParentDelete, adapters, cleanup) ==
  [Kind |-> kind, Plural |-> plural,
   ParentKind |-> parent, ParentPlural |-> "", OnParentDelete |-> onParentDelete,
   RequiredAdapters |-> adapters, Cleanup |-> cleanup,
   Timeouts |-> IF adapters = {} THEN [Reconciled |-> 0, Deleted |-> 0]
                                 ELSE [Reconciled |-> 2, Deleted |-> 2]]

RootRow(kind, plural, adapters, cleanup) ==
  NestedRow(kind, plural, "", "", adapters, cleanup)

EntityDescriptors ==
  LET Waits   == {"WaitForHardDelete"}
      Ignores == {"IgnoreNotFound"}
      Plain   == CleanupPolicy(Ignores, << >>)
      Waited  == CleanupPolicy(Waits \union Ignores, << >>)
  IN  <<RootRow("Parent", "parents", {"parents-success"}, Waited),
        NestedRow("CascadeChild", "cascadechildren", "Parent", "cascade",
                  {"cascadechildren-success"}, Waited),
        NestedRow("RestrictChild", "restrictchildren", "Parent", "restrict", {}, Plain),
        RootRow("Referencer", "referencers", {}, Plain),
        RootRow("Target", "targets", {}, Plain),
        RootRow("Cluster", "clusters",
                {"cl-namespace", "cl-job", "cl-deployment", "cl-desire"}, Waited),
        NestedRow("NodePool", "nodepools", "Cluster", "cascade", {"np-configmap"},
                  CleanupPolicy(Waits, << >>)),
        RootRow("Channel", "channels", {}, CleanupPolicy(Ignores, <<"Version">>)),
        NestedRow("Version", "versions", "Channel", "restrict", {}, Plain),
        RootRow("WifConfig", "wifconfigs", {},
                CleanupPolicy(Ignores \union {"IgnoreConflict"}, << >>))>>
==============================================================================
