--------------------------- MODULE MCSpecTeardown ---------------------------
(* The specs of SpecScripts, in the groups the runs check.                 *)
EXTENDS SpecTeardown

S == INSTANCE SpecScripts

\* Specs that hand back the environment wherever they fail.
Tidy == {S!StuckDeletion, S!CrashRecovery, S!ApplierUnavailability,
         S!AdapterFailover, S!AdapterFailure, S!DeleteDuringUpdate}

\* Specs whose outage, if any, is over before their cluster is cleaned up.
Prompt == {S!ApplierUnavailability, S!AdapterFailover, S!AdapterFailure,
           S!DeleteDuringUpdate, S!DeletionProtection,
           S!RemoteDeleteReapply}

\* Specs that clean up their cluster while their own outage still holds it.
CleanUpTooEarly == {S!StuckDeletion, S!ReDelete}

\* Specs that scale a shared deployment down with no restore registered yet, or ever.
LateOrNoRestore == {S!ForceDelete, S!TokenRenewal}

TidyAndPrompt == Tidy \union Prompt

\* The specs keep to the rules under which they are proved to hand back the environment,
\* to wait for no cluster that their own outage holds, and to uninstall no adapter the API
\* still requires: wherever each DeferCleanup stands, it is in time and in order.
RulesKept ==
  /\ script \in Tidy => Guarded(script)
  /\ script \in Prompt => Promptly(script)
  /\ RestoresFirst(script)
==============================================================================
