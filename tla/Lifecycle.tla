------------------------------ MODULE Lifecycle ------------------------------
(***************************************************************************)
(* The adapter-backed lifecycle spec (e2e/capability/lifecycle.go) for a   *)
(* kind without a parent: it creates a resource, waits for its adapters,   *)
(* updates it, waits again, deletes it, and waits until nothing is left.   *)
(* Its waits are Eventually over the pollers and matchers of pkg/helper;   *)
(* its other calls are made once, and what they read may have changed      *)
(* since the wait before.  The API and the adapters are not code of this   *)
(* repository; they run beside the spec, and may have one defect.          *)
(***************************************************************************)
EXTENDS Naturals

CONSTANTS
  Adapters,       (* entity.RequiredAdapters                         *)
  Success,        (* the one that names its namespace after the ID   *)
  Defects         (* the defects that the API or an adapter may have *)

ASSUME LifecycleAssumption ==
  /\ Success \in Adapters
  /\ Defects \subseteq {"none", "deaf", "flapping", "premature", "hasty", "early"}

VARIABLES
  pc,             \* the spec's step, or "passed" or "failed"
  expected,       \* expectedGen, the generation the PATCH makes
  res,            \* the resource: generation, whether soft-deleted, whether it exists
  report,         \* of each adapter: its last status report, of generation 0 if none
  reconciled,     \* the resource's Reconciled condition
  lastKnown,      \* its LastKnownReconciled condition
  work,           \* of each adapter: where it is, and the resource as it read it
  object,         \* of each adapter: its namespace and the generation annotated on it
  defect, faulty, \* the system's defect, and the adapter that has it
  lost            \* whether a call that is made once failed

spec == <<pc, expected>>
api == <<res, report, reconciled, lastKnown>>
world == <<work, object, defect, faulty>>
vars == <<spec, api, world, lost>>

------------------------------------------------------------------------------
(* What the spec asks: the client's answers, the matchers, the pollers     *)

NoError == 0
HandleHTTPResponse(status, want) == IF status = want THEN NoError ELSE status
IsHTTPStatus(err, status) == err = status

GetStatus == IF res.exists THEN 200 ELSE 404
GetResource == HandleHTTPResponse(GetStatus, 200)

HaveCondition(condition) == condition.status

HaveAllAdaptersAtGeneration_AnyGeneration(generation) ==
  \A a \in Adapters : report[a].gen # 0 /\ report[a].ok

HaveAllAdaptersAtGeneration(generation) ==
  \A a \in Adapters : report[a].gen = generation /\ report[a].ok

AllAdaptersFinalized == \A a \in Adapters : report[a].gen # 0 /\ report[a].finalized

\* A 404 ends the check: the report that finalizes the last adapter removes the resource.
FinalizedOrGone_SeesFinalized == GetResource = NoError /\ AllAdaptersFinalized

FinalizedOrGone ==
  \/ IsHTTPStatus(GetResource, 404)
  \/ GetResource = NoError /\ AllAdaptersFinalized

VerifyNamespaceActive == object[Success].phase = "active" /\ object[Success].gen = 1

NamespacesByPrefix_Active == {a \in Adapters : object[a].phase = "active"}

NamespacesByPrefix == {a \in Adapters : object[a].phase # "absent"}

ReconciledAt_Before(generation) ==
  /\ GetResource = NoError
  /\ res.gen = generation
  /\ HaveCondition(reconciled) /\ reconciled.gen = generation - 1

ReconciledAt(generation) ==
  /\ GetResource = NoError
  /\ res.gen = generation
  /\ HaveCondition(reconciled) /\ reconciled.gen = generation

------------------------------------------------------------------------------
(* The spec                                                                *)

Waits == {"executed", "reconciled", "active", "observed", "settled", "finalized", "gone", "swept"}
Calls == {"create", "reread", "patch", "delete"}

After == [create |-> "executed", executed |-> "reconciled", reconciled |-> "reread",
          reread |-> "active", active |-> "patch", patch |-> "observed",
          observed |-> "settled", settled |-> "delete", delete |-> "finalized",
          finalized |-> "gone", gone |-> "swept", swept |-> "passed"]

\* What the wait before the next step waits for.
Holds(wait) ==
  CASE wait = "executed"   -> GetResource = NoError /\ HaveAllAdaptersAtGeneration(1)
    [] wait = "reconciled" -> GetResource = NoError /\ HaveCondition(reconciled)
    [] wait = "active"     -> VerifyNamespaceActive
    [] wait = "observed"   -> GetResource = NoError /\ HaveAllAdaptersAtGeneration(expected)
    [] wait = "settled"    -> ReconciledAt(expected)
    [] wait = "finalized"  -> FinalizedOrGone
    [] wait = "gone"       -> GetStatus = 404
    [] wait = "swept"      -> NamespacesByPrefix = {}

\* Expect: the spec goes on if what it has read is right, and fails if it is not.
Expect(right) == pc' = IF right THEN After[pc] ELSE "failed"

\* A poll that finds what the wait is for. One that does not, or fails, is tried again.
Await ==
  /\ pc \in Waits /\ Holds(pc)
  /\ pc' = After[pc]
  /\ UNCHANGED <<expected, api, world, lost>>

Create ==
  /\ pc = "create"
  /\ res' = [gen |-> 1, deleting |-> FALSE, exists |-> TRUE]
  /\ Expect(res'.gen = 1)
  /\ UNCHANGED <<expected, report, reconciled, lastKnown, world, lost>>

\* The resource is read again, once, after the wait for Reconciled.
Reread ==
  /\ pc = "reread"
  /\ Expect(/\ GetResource = NoError
            /\ res.gen = 1 /\ HaveCondition(lastKnown)
            /\ reconciled.gen = 1 /\ lastKnown.gen = 1
            /\ \A a \in Adapters : report[a].ok)
  /\ expected' = res.gen + 1
  /\ UNCHANGED <<api, world, lost>>

\* A new generation leaves the Reconciled condition as it was, or makes it False.
NewGeneration ==
  /\ reconciled' \in {reconciled, [status |-> FALSE, gen |-> res.gen + 1]}
  /\ UNCHANGED <<report, lastKnown>>

Patch_CountsAgain ==
  /\ pc = "patch"
  /\ res' = [gen |-> res.gen + 1, deleting |-> res.deleting, exists |-> res.exists]
  /\ NewGeneration
  /\ expected' = expected + 1 /\ Expect(res'.gen = expected)
  /\ UNCHANGED <<world, lost>>

Patch ==
  /\ pc = "patch"
  /\ res' = [gen |-> res.gen + 1, deleting |-> res.deleting, exists |-> res.exists]
  /\ NewGeneration
  /\ Expect(res'.gen = expected)
  /\ UNCHANGED <<expected, world, lost>>

Delete ==
  /\ pc = "delete"
  /\ res' = [gen |-> res.gen + 1, deleting |-> TRUE, exists |-> res.exists]
  /\ NewGeneration
  /\ Expect(res'.gen = expected + 1)
  /\ UNCHANGED <<expected, world, lost>>

\* A call made once has no answer, or one of the wrong status. Whether the API did what it
\* was asked to makes no difference to a spec that has failed.
CallFails ==
  /\ pc \in Calls
  /\ pc' = "failed" /\ lost' = TRUE
  /\ UNCHANGED <<expected, api, world>>

------------------------------------------------------------------------------
(* The adapters and the API                                                *)

Has(d, a) == defect = d /\ faulty = a

\* The adapter reads the resource, again and again. A deaf one goes on with its first copy.
Read(a) ==
  /\ work[a].phase = "idle" /\ res.exists
  /\ work' = [work EXCEPT ![a] =
       IF Has("deaf", a) THEN [phase |-> "read", gen |-> 1, deleting |-> FALSE]
       ELSE [phase |-> "read", gen |-> res.gen, deleting |-> res.deleting]]
  /\ UNCHANGED <<spec, api, object, defect, faulty, lost>>

\* It makes its namespace follow: the manifest is applied, or the namespace is deleted.
Apply(a) ==
  /\ work[a].phase = "read"
  /\ object' = [object EXCEPT ![a] =
       IF work[a].deleting
       THEN [phase |-> IF @.phase = "absent" THEN "absent" ELSE "terminating", gen |-> @.gen]
       ELSE [phase |-> "active", gen |-> work[a].gen]]
  /\ work' = [work EXCEPT ![a] = [phase |-> "done", gen |-> work[a].gen,
                                  deleting |-> work[a].deleting]]
  /\ UNCHANGED <<spec, api, defect, faulty, lost>>

Terminated(a) ==
  /\ object[a].phase = "terminating"
  /\ object' = [object EXCEPT ![a] = [phase |-> "absent", gen |-> 0]]
  /\ UNCHANGED <<spec, api, work, defect, faulty, lost>>

\* A report says that the adapter is done with a generation, or in a deletion that its
\* namespace is gone. An early one says so while the namespace is terminating.
StatusOf(a, ok) ==
  [gen |-> work[a].gen, ok |-> ok,
   finalized |-> work[a].deleting /\ (object[a].phase = "absent" \/ Has("early", a))]

Done(reports, a) ==
  /\ reports[a].gen = res.gen
  /\ IF res.deleting THEN reports[a].finalized ELSE reports[a].ok

\* The API aggregates the reports with each of them, and removes a soft-deleted resource
\* with the one that finalizes its last adapter: a premature aggregate and a hasty
\* removal look at one adapter only.
Aggregate(reports) ==
  LET all == \A a \in Adapters : Done(reports, a)
      some == \E a \in Adapters : Done(reports, a)
      status == IF defect = "premature" THEN some ELSE all
  IN  /\ reconciled' = [status |-> status, gen |-> res.gen]
      /\ lastKnown' = IF status THEN reconciled' ELSE lastKnown
      /\ res' = [res EXCEPT !.exists = ~(res.deleting /\ (all \/ (defect = "hasty" /\ some)))]

Report(a) ==
  /\ work[a].phase = "done"
  /\ work' = [work EXCEPT ![a] = [phase |-> "idle", gen |-> 0, deleting |-> FALSE]]
  /\ \/ /\ res.exists
        /\ \E ok \in IF work[a].deleting THEN {FALSE}
                     ELSE IF Has("flapping", a) THEN BOOLEAN ELSE {TRUE} :
             /\ report' = [report EXCEPT ![a] = StatusOf(a, ok)]
             /\ Aggregate(report')
     \/ ~res.exists /\ UNCHANGED api
  /\ UNCHANGED <<spec, object, defect, faulty, lost>>

------------------------------------------------------------------------------
(* Timeouts are configured for a system that works: without a defect, a    *)
(* wait ends with its timeout only when no adapter has anything left to do *)

UpToDate(a) ==
  /\ work[a].phase = "idle"
  /\ object[a].phase # "terminating"
  /\ res.exists => /\ report[a].gen = res.gen
                   /\ res.deleting => report[a].finalized

TimeOut ==
  /\ pc \in Waits /\ ~Holds(pc)
  /\ defect = "none" => \A a \in Adapters : UpToDate(a)
  /\ pc' = "failed"
  /\ UNCHANGED <<expected, api, world, lost>>

------------------------------------------------------------------------------
(* The specification                                                       *)

Init ==
  /\ pc = "create" /\ expected = 0 /\ lost = FALSE
  /\ res = [gen |-> 0, deleting |-> FALSE, exists |-> FALSE]
  /\ report = [a \in Adapters |-> [gen |-> 0, ok |-> FALSE, finalized |-> FALSE]]
  /\ reconciled = [status |-> FALSE, gen |-> 1] /\ lastKnown = [status |-> FALSE, gen |-> 1]
  /\ work = [a \in Adapters |-> [phase |-> "idle", gen |-> 0, deleting |-> FALSE]]
  /\ object = [a \in Adapters |-> [phase |-> "absent", gen |-> 0]]
  /\ defect \in Defects /\ faulty \in Adapters

Proceed == Create \/ Await \/ Reread \/ Patch \/ Delete
Adapter(a) == Read(a) \/ Apply(a) \/ Report(a)

Next ==
  \/ Proceed \/ CallFails \/ TimeOut
  \/ \E a \in Adapters : Adapter(a) \/ Terminated(a)

Fairness == WF_vars(Proceed) /\ \A a \in Adapters : WF_vars(Adapter(a)) /\ WF_vars(Terminated(a))

Spec == Init /\ [][Next]_vars /\ Fairness

------------------------------------------------------------------------------
(* Properties                                                              *)

Generations == 0..3

TypeOK ==
  /\ pc \in Waits \union Calls \union {"passed", "failed"}
  /\ expected \in {0, 2}
  /\ res \in [gen : Generations, deleting : BOOLEAN, exists : BOOLEAN]
  /\ report \in [Adapters -> [gen : Generations, ok : BOOLEAN, finalized : BOOLEAN]]
  /\ reconciled \in [status : BOOLEAN, gen : Generations]
  /\ lastKnown \in [status : BOOLEAN, gen : Generations]
  /\ work \in [Adapters -> [phase : {"idle", "read", "done"}, gen : Generations,
                            deleting : BOOLEAN]]
  /\ object \in [Adapters -> [phase : {"absent", "active", "terminating"}, gen : Generations]]
  /\ defect \in Defects /\ faulty \in Adapters /\ lost \in BOOLEAN

\* Once the spec has seen every adapter at the new generation, each of them has applied
\* it: no report from before the PATCH, and no stale or premature condition, is taken for
\* the update (lifecycle.go, "waiting for every adapter to reconcile the new generation").
UpdateReached ==
  pc \in {"settled", "delete"} =>
    \A a \in Adapters : object[a].phase = "active" /\ object[a].gen = res.gen

\* A spec that passed leaves no namespace and none comes back, unless the API removed the
\* resource while an adapter was not finalized.
NothingLeft == pc = "passed" /\ defect # "hasty" => \A a \in Adapters : object[a].phase = "absent"

\* On a system that works, the spec fails only if a call it makes once fails: what it
\* reads once after a wait still is as the wait found it, and no wait is for something
\* that is already over.
NoFalseAlarm == pc = "failed" /\ ~lost => defect # "none"

\* And then it passes in the end.
HealthyPasses == defect = "none" => <>(pc = "passed" \/ lost)
==============================================================================
