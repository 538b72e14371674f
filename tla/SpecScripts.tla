----------------------------- MODULE SpecScripts -----------------------------
(***************************************************************************)
(* The specs of e2e/ that change something other specs share, or whose     *)
(* teardown has more than one step, as scripts for SpecTeardown: what they *)
(* do to the environment, what they assert and what they register, in the  *)
(* order of the source.  Assertions without effect on the environment are  *)
(* one "check".                                                            *)
(***************************************************************************)
EXTENDS Sequences

Op(verb, marks)   == [verb |-> verb, marks |-> marks]
Make(mark)        == Op("make", {mark})
Undo(mark)        == Op("undo", {mark})
CreateCluster     == Op("create", {})
DeleteCluster     == Op("delete", {})
CleanupCluster    == Op("cleanup", {})
AwaitReconciled   == Op("awaitReconciled", {})
AwaitGone         == Op("awaitGone", {})

Call(op)   == <<[kind |-> "try", ops |-> <<op>>]>>
Expect     == <<[kind |-> "expect", ops |-> << >>]>>
Must(op)   == Call(op) \o Expect
Defer(ops) == <<[kind |-> "defer", ops |-> ops]>>
Check      == Must(Op("check", {}))
Spec(body, after) == [body |-> body, after |-> after]

------------------------------------------------------------------------------
(* Steps several specs share                                               *)

CloneChart(chart) == Must(Make(chart)) \o Defer(<<Undo(chart)>>)

SetAdapterName == Must(Make("ADAPTER_NAME")) \o Defer(<<Undo("ADAPTER_NAME")>>)

DeployTempAdapter_LateCleanup ==
  Must(Make("release"))
    \o Defer(<<Op("undo", {"release", "adapter down"}), Undo("subscription")>>)

\* The uninstall is registered before the deployment's error is looked at.
DeployTempAdapter ==
  Call(Make("release"))
    \o Defer(<<Op("undo", {"release", "adapter down"}), Undo("subscription")>>)
    \o Expect

RequireTempAdapter_LateRestore == Must(Make("required")) \o Defer(<<Undo("required")>>)

\* The baseline's restore is registered before the API is touched.
RequireTempAdapter == Defer(<<Undo("required")>>) \o Must(Make("required"))

CreateWithCleanup == Must(CreateCluster) \o Defer(<<CleanupCluster>>)

------------------------------------------------------------------------------
(* The specs                                                               *)

StuckDeletion == Spec(
  CloneChart("adapter chart") \o CloneChart("api chart")
    \o SetAdapterName \o DeployTempAdapter \o RequireTempAdapter
    \o Check
    \o CreateWithCleanup \o Must(AwaitReconciled) \o Check
    \o Must(Make("adapter down")) \o Must(DeleteCluster) \o Check
    \o Must(Undo("adapter down")) \o Must(AwaitGone) \o Check,
  << >>)

CrashRecovery == Spec(
  CloneChart("adapter chart") \o CloneChart("api chart")
    \o SetAdapterName \o DeployTempAdapter \o RequireTempAdapter
    \o Check \o Must(Make("adapter down"))
    \o CreateWithCleanup \o Check
    \o Must(Undo("adapter down")) \o Check \o Must(AwaitReconciled),
  << >>)

ForceDelete == Spec(
  CreateWithCleanup \o Must(AwaitReconciled) \o Check
    \o Must(Make("cl-namespace down")) \o Defer(<<Undo("cl-namespace down")>>)
    \o Must(DeleteCluster) \o Check
    \o Must(Op("forceDelete", {})) \o Must(AwaitGone) \o Check,
  << >>)

ApplierUnavailability_PlainCleanup == Spec(
  Check \o Defer(<<Undo("applier down")>>) \o Must(Make("applier down")) \o Check
    \o CreateWithCleanup
    \o Check \o Must(Undo("applier down")) \o Must(AwaitReconciled) \o Check,
  << >>)

ApplierUnavailability == Spec(
  Check \o Defer(<<Undo("applier down")>>) \o Must(Make("applier down")) \o Check
    \o Must(CreateCluster) \o Defer(<<Undo("applier down"), CleanupCluster>>)
    \o Check \o Must(Undo("applier down")) \o Must(AwaitReconciled) \o Check,
  << >>)

RemoteDeleteReapply == Spec(
  CloneChart("adapter chart") \o CloneChart("api chart")
    \o Must(Make("store policy")) \o Defer(<<Undo("store policy")>>)
    \o SetAdapterName \o DeployTempAdapter \o RequireTempAdapter
    \o CreateWithCleanup \o Must(AwaitReconciled) \o Check
    \o Defer(<<Undo("finalizer")>>) \o Must(Make("finalizer")) \o Check
    \o Must(Undo("finalizer")) \o Check \o Must(AwaitReconciled) \o Check,
  << >>)

AdapterFailover == Spec(
  CloneChart("adapter chart") \o SetAdapterName \o DeployTempAdapter
    \o CreateWithCleanup \o Check \o Must(AwaitReconciled),
  << >>)

\* Its steps are those of AdapterFailover in another order of assertions.
AdapterFailure == Spec(
  CloneChart("adapter chart") \o SetAdapterName \o DeployTempAdapter
    \o CreateWithCleanup \o Must(AwaitReconciled) \o Check,
  << >>)

\* The AfterEach deletes a cluster nobody deleted, then cleans up.
AfterEachCleanup == <<DeleteCluster, CleanupCluster>>

ReDelete == Spec(
  Must(CreateCluster) \o Must(AwaitReconciled)
    \o Must(Make("sentinel down")) \o Defer(<<Undo("sentinel down")>>)
    \o Must(DeleteCluster) \o Must(DeleteCluster) \o Check,
  AfterEachCleanup)

DeleteDuringUpdate == Spec(
  Must(CreateCluster) \o Must(AwaitReconciled)
    \o Check \o Must(DeleteCluster) \o Must(AwaitGone) \o Check,
  AfterEachCleanup)

TokenRenewal == Spec(
  CreateWithCleanup \o Must(AwaitReconciled) \o Check
    \o Must(Make("sentinel down")) \o Must(Undo("sentinel down"))
    \o Check \o Must(AwaitReconciled),
  << >>)

DeletionProtection == Spec(
  Must(Make("wifconfig")) \o Must(CreateCluster)
    \o Defer(<<Undo("wifconfig")>>) \o Defer(<<CleanupCluster>>)
    \o Must(DeleteCluster) \o Must(AwaitGone) \o Must(Undo("wifconfig")),
  << >>)
==============================================================================
