------------------------------- MODULE SuiteRun -------------------------------
(***************************************************************************)
(* A run of the suite by several Ginkgo processes: the startup checks, the *)
(* specs with the adapters some of them deploy, each process's Pub/Sub     *)
(* sweep and, last, process 1's sweep of Helm releases and labeled         *)
(* resources (pkg/e2e/suite.go, pkg/helper/cleanup.go).  The processes     *)
(* share nothing but the deployment under test and Ginkgo's coordinator.   *)
(* A spec names its adapter, its release and its subscription, which the   *)
(* rules for parallel-safe specs keep unique.                              *)
(***************************************************************************)
EXTENDS Integers, FiniteSets, Ranks

CONSTANTS
  NumProcs,      (* --procs                                                 *)
  Specs,
  Serial,        (* the specs marked ginkgo.Serial                          *)
  Deployers,     (* the specs that deploy a temporary adapter               *)
  Unmarked,      (* those that docs/development.md:372 calls Serial and are not *)
  Leaky,         (* bound: the specs that may leave labeled resources behind *)
  FlakeAttempts, (* --flake-attempts                                        *)
  SweepTime,     (* the deadline of the whole sweep, in time units          *)
  PollTime       (* that of its wait for the labeled resources              *)

Procs == 1..NumProcs
None  == "none"

ASSUME SuiteAssumption ==
  /\ NumProcs \in Nat \ {0} /\ FlakeAttempts \in Nat \ {0}
  /\ IsFiniteSet(Specs) /\ None \notin Specs
  /\ Serial \subseteq Specs /\ Deployers \subseteq Specs /\ Leaky \subseteq Specs
  /\ Unmarked \subseteq Specs
  /\ SweepTime \in Nat /\ PollTime \in Nat

VARIABLES
  (* the deployment under test *)
  releases,      \* temporary adapters that are installed, and run
  subs,          \* their subscriptions
  leaked,        \* specs that left labeled resources behind
  dying,         \* the same once deleted, until Kubernetes has finished
  (* the processes *)
  pc,            \* where a process is: "start", "setup", "specs", "sweep" or "exited"
  ready,         \* its AdapterDeploymentList is there
  listed,        \* its AdapterDeploymentList
  run,           \* the spec it runs: its name, stage, attempt and whether it failed
  todo,          \* specs nobody has begun
  (* CleanupKubeResources *)
  kube,          \* "waiting", "list", "uninstall", "labels", "poll", "done", "skipped"
  left,          \* what is left of its deadline
  toUninstall,   \* what is left of its list of releases
  faults         \* history: <<what failed, on which spec's adapter or resources>>, for
                 \* a spec that is tried again what failed in its last attempt

world == <<releases, subs, leaked, dying>>
procs == <<pc, ready, listed, run, todo>>
sweep == <<kube, left, toUninstall>>
vars  == <<world, procs, sweep, faults>>

Stages == {"deploy", "body", "uninstall", "unsubscribe", "end"}
Resting == [spec |-> None, stage |-> "end", attempt |-> 1, failed |-> FALSE]

Fault(what, specs) == {what} \X specs
Failed(what) == {s \in Specs : <<what, s>> \in faults}

------------------------------------------------------------------------------
(* The deployment under test                                               *)

\* A running adapter creates its subscription whenever it is missing.
Subscribe(a) ==
  /\ a \in releases \ subs
  /\ subs' = subs \union {a}
  /\ UNCHANGED <<releases, leaked, dying, procs, sweep, faults>>

FinishDeletion(s) ==
  /\ s \in dying
  /\ dying' = dying \ {s}
  /\ UNCHANGED <<releases, subs, leaked, procs, sweep, faults>>

------------------------------------------------------------------------------
(* SynchronizedBeforeSuite                                                 *)

\* Process 1 compares the deployed API with the descriptor table, once for all.
GuardPasses ==
  /\ \A p \in Procs : pc[p] = "start"
  /\ pc' = [p \in Procs |-> "setup"]
  /\ UNCHANGED <<world, ready, listed, run, todo, sweep, faults>>

GuardFails ==
  /\ \A p \in Procs : pc[p] = "start"
  /\ pc' = [p \in Procs |-> "sweep"]
  /\ UNCHANGED <<world, ready, listed, run, todo, sweep, faults>>

SetUp(p) ==
  /\ pc[p] = "setup"
  /\ pc' = [pc EXCEPT ![p] = "specs"]
  /\ ready' = [ready EXCEPT ![p] = TRUE]
  /\ UNCHANGED <<world, listed, run, todo, sweep, faults>>

\* The default human's token is not minted, or not accepted: this process runs no spec
\* and never makes its deployment list.
SetUpFails(p) ==
  /\ pc[p] = "setup"
  /\ pc' = [pc EXCEPT ![p] = "sweep"]
  /\ UNCHANGED <<world, ready, listed, run, todo, sweep, faults>>

------------------------------------------------------------------------------
(* The specs.  A definition named after another one with a suffix is its   *)
(* mutated form: a bug the properties must catch.                          *)

AtStage(p, stage) == pc[p] = "specs" /\ run[p].spec # None /\ run[p].stage = stage
FirstStage(s) == IF s \in Deployers THEN "deploy" ELSE "body"
OthersExited == \A q \in Procs \ {1} : pc[q] = "exited"

\* Serial specs run on process 1 once every other process has exited.
Fetch(p) ==
  /\ pc[p] = "specs" /\ run[p].spec = None
  /\ \E s \in todo :
       /\ s \in Serial => p = 1 /\ todo \subseteq Serial /\ OthersExited
       /\ run' = [run EXCEPT ![p] = [Resting EXCEPT !.spec = s, !.stage = FirstStage(s)]]
       /\ todo' = todo \ {s}
  /\ UNCHANGED <<world, pc, ready, listed, sweep, faults>>

Deploy_Unlisted(p) ==
  /\ AtStage(p, "deploy")
  /\ releases' = releases \union {run[p].spec}
  /\ run' = [run EXCEPT ![p].stage = "body"]
  /\ UNCHANGED <<subs, leaked, dying, pc, ready, listed, todo, sweep, faults>>

Deploy(p) ==
  /\ AtStage(p, "deploy")
  /\ releases' = releases \union {run[p].spec}
  /\ listed' = [listed EXCEPT ![p] = @ \union {run[p].spec}]
  /\ run' = [run EXCEPT ![p].stage = "body"]
  /\ UNCHANGED <<subs, leaked, dying, pc, ready, todo, sweep, faults>>

DeployFails_NoCleanup(p) ==
  /\ AtStage(p, "deploy")
  /\ releases' \in {releases, releases \union {run[p].spec}}
  /\ run' = [run EXCEPT ![p].stage = "end", ![p].failed = TRUE]
  /\ faults' = faults \union Fault("deploy", {run[p].spec})
  /\ UNCHANGED <<subs, leaked, dying, pc, ready, listed, todo, sweep>>

\* helm fails or is killed, with or without a release; the cleanup is registered
\* before the spec looks at the error.
DeployFails(p) ==
  /\ AtStage(p, "deploy")
  /\ releases' \in {releases, releases \union {run[p].spec}}
  /\ run' = [run EXCEPT ![p].stage = "uninstall", ![p].failed = TRUE]
  /\ faults' = faults \union Fault("deploy", {run[p].spec})
  /\ UNCHANGED <<subs, leaked, dying, pc, ready, listed, todo, sweep>>

\* The body and the cleanup of what it created through the API.
Body(p) ==
  /\ AtStage(p, "body")
  /\ leaked' \in {leaked, leaked \union ({run[p].spec} \intersect Leaky)}
  /\ \E fails \in BOOLEAN :
       run' = [run EXCEPT
         ![p].stage = IF run[p].spec \in Deployers THEN "uninstall" ELSE "end",
         ![p].failed = fails]
  /\ UNCHANGED <<releases, subs, dying, pc, ready, listed, todo, sweep, faults>>

Uninstall(p) ==
  /\ AtStage(p, "uninstall")
  /\ releases' = releases \ {run[p].spec}
  /\ run' = [run EXCEPT ![p].stage = "unsubscribe"]
  /\ UNCHANGED <<subs, leaked, dying, pc, ready, listed, todo, sweep, faults>>

\* Only a warning.
UninstallFails(p) ==
  /\ AtStage(p, "uninstall")
  /\ releases' \in {releases, releases \ {run[p].spec}}
  /\ faults' = faults \union Fault("uninstall", {run[p].spec})
  /\ run' = [run EXCEPT ![p].stage = "unsubscribe"]
  /\ UNCHANGED <<subs, leaked, dying, pc, ready, listed, todo, sweep>>

Unsubscribe(p) ==
  /\ AtStage(p, "unsubscribe")
  /\ subs' = subs \ {run[p].spec}
  /\ run' = [run EXCEPT ![p].stage = "end"]
  /\ UNCHANGED <<releases, leaked, dying, pc, ready, listed, todo, sweep, faults>>

UnsubscribeFails(p) ==
  /\ AtStage(p, "unsubscribe")
  /\ faults' = faults \union Fault("unsubscribe", {run[p].spec})
  /\ run' = [run EXCEPT ![p].stage = "end"]
  /\ UNCHANGED <<world, pc, ready, listed, todo, sweep>>

Retried(p) == run[p].failed /\ run[p].attempt < FlakeAttempts

\* A failed spec is tried again on the same process.
EndAttempt(p) ==
  /\ AtStage(p, "end")
  /\ LET r == run[p] IN
     run' = [run EXCEPT ![p] =
       IF Retried(p) THEN [Resting EXCEPT !.spec = r.spec, !.stage = FirstStage(r.spec),
                                          !.attempt = r.attempt + 1]
                     ELSE Resting]
  /\ faults' = IF Retried(p) THEN {f \in faults : f[2] # run[p].spec} ELSE faults
  /\ UNCHANGED <<world, pc, ready, listed, todo, sweep>>

\* A process takes no more specs: process 1 also has the Serial ones.
NoMoreSpecs(p) ==
  /\ pc[p] = "specs" /\ run[p].spec = None
  /\ IF p = 1 THEN todo = {} ELSE todo \subseteq Serial
  /\ pc' = [pc EXCEPT ![p] = "sweep"]
  /\ UNCHANGED <<world, ready, listed, run, todo, sweep, faults>>

------------------------------------------------------------------------------
(* SynchronizedAfterSuite, every process: CleanupPubSubResources           *)

\* Any of the deletions may fail, all of them if there is no Kubernetes client.
SweepPubSub(p) ==
  /\ pc[p] = "sweep" /\ ready[p]
  /\ \E bad \in SUBSET listed[p] :
       /\ subs' = subs \ (listed[p] \ bad)
       /\ faults' = faults \union Fault("sweep", bad)
  /\ pc' = [pc EXCEPT ![p] = "exited"]
  /\ UNCHANGED <<releases, leaked, dying, ready, listed, run, todo, sweep>>

\* "adapter deployment list must be set"
SweepPubSubSkipped(p) ==
  /\ pc[p] = "sweep" /\ ~ready[p]
  /\ pc' = [pc EXCEPT ![p] = "exited"]
  /\ UNCHANGED <<world, ready, listed, run, todo, sweep, faults>>

------------------------------------------------------------------------------
(* SynchronizedAfterSuite, process 1: CleanupKubeResources                 *)

MaySweep_AnyProcess == kube = "waiting" /\ \E p \in Procs : pc[p] = "exited"

\* "after all processes finish"
MaySweep == kube = "waiting" /\ \A p \in Procs : pc[p] = "exited"

KubeStart ==
  /\ MaySweep /\ ready[1]
  /\ kube' = "list" /\ left' = SweepTime
  /\ UNCHANGED <<world, procs, toUninstall, faults>>

\* NewCleanupHelper fails: process 1 has no deployment list, which this sweep does not
\* use, or no Kubernetes client.
KubeSkipped ==
  /\ MaySweep
  /\ kube' = "skipped"
  /\ faults' = IF ready[1] THEN faults \union Fault("client", Specs) ELSE faults
  /\ UNCHANGED <<world, procs, left, toUninstall>>

ListReleases ==
  /\ kube = "list"
  /\ kube' = "uninstall" /\ toUninstall' = releases
  /\ UNCHANGED <<world, procs, left, faults>>

\* "Still proceeding with cleanup"
ListFails ==
  /\ kube = "list"
  /\ kube' = "uninstall"
  /\ faults' = faults \union Fault("list", Specs)
  /\ UNCHANGED <<world, procs, left, toUninstall>>

UninstallRelease ==
  /\ kube = "uninstall" /\ left > 0
  /\ \E a \in toUninstall, time \in 0..left :
       /\ releases' = releases \ {a}
       /\ toUninstall' = toUninstall \ {a}
       /\ left' = left - time
  /\ UNCHANGED <<subs, leaked, dying, procs, kube, faults>>

UninstallReleaseFails_Stops ==
  /\ kube = "uninstall"
  /\ \E a \in toUninstall, time \in 0..left :
       /\ faults' = faults \union Fault("refused", {a})
       /\ left' = left - time
  /\ toUninstall' = {}
  /\ UNCHANGED <<world, procs, kube>>

\* Once the shared deadline has passed, helm is not even started.
UninstallReleaseFails ==
  /\ kube = "uninstall"
  /\ \E a \in toUninstall, time \in 0..left :
       /\ releases' \in IF left > 0 THEN {releases, releases \ {a}} ELSE {releases}
       /\ faults' = faults \union Fault("refused", {a})
       /\ toUninstall' = toUninstall \ {a}
       /\ left' = left - time
  /\ UNCHANGED <<subs, leaked, dying, procs, kube>>

Uninstalled ==
  /\ kube = "uninstall" /\ toUninstall = {}
  /\ kube' = "labels"
  /\ UNCHANGED <<world, procs, left, toUninstall, faults>>

SmallerOf(a, b) == IF a < b THEN a ELSE b

\* Phase 1 of SweepLabeledResources.  Every list and every delete may fail, and does
\* once the deadline has passed.
SweepLabeled ==
  /\ kube = "labels"
  /\ \E bad \in (IF left > 0 THEN SUBSET leaked ELSE {leaked}), time \in 0..left :
       /\ leaked' = bad
       /\ dying' = dying \union (leaked \ bad)
       /\ faults' = faults \union Fault("refused", bad)
       /\ left' = SmallerOf(left - time, PollTime)
  /\ kube' = "poll"
  /\ UNCHANGED <<releases, subs, procs, toUninstall>>

\* Phase 2.
PollNoneLeft ==
  /\ kube = "poll" /\ left > 0 /\ leaked \union dying = {}
  /\ kube' = "done"
  /\ UNCHANGED <<world, procs, left, toUninstall, faults>>

PollSomeLeft_PastDeadline ==
  /\ kube = "poll"
  /\ left' = left - 1
  /\ UNCHANGED <<world, procs, kube, toUninstall, faults>>

PollSomeLeft_NoDeadline ==
  /\ kube = "poll" /\ left > 0
  /\ UNCHANGED vars

\* Something remains, or cannot be counted.
PollSomeLeft ==
  /\ kube = "poll" /\ left > 0
  /\ left' = left - 1
  /\ UNCHANGED <<world, procs, kube, toUninstall, faults>>

PollDeadline ==
  /\ kube = "poll" /\ left = 0
  /\ kube' = "done"
  /\ UNCHANGED <<world, procs, left, toUninstall, faults>>

------------------------------------------------------------------------------
(* The specification                                                       *)

Init ==
  /\ releases = {} /\ subs = {} /\ leaked = {} /\ dying = {}
  /\ pc = [p \in Procs |-> "start"]
  /\ ready = [p \in Procs |-> FALSE]
  /\ listed = [p \in Procs |-> {}]
  /\ run = [p \in Procs |-> Resting]
  /\ todo = Specs
  /\ kube = "waiting" /\ left = 0 /\ toUninstall = {}
  /\ faults = {}

RunSpec(p) ==
  \/ Fetch(p) \/ Deploy(p) \/ DeployFails(p) \/ Body(p)
  \/ Uninstall(p) \/ UninstallFails(p) \/ Unsubscribe(p) \/ UnsubscribeFails(p)
  \/ EndAttempt(p) \/ NoMoreSpecs(p)

Process(p) ==
  \/ SetUp(p) \/ SetUpFails(p) \/ RunSpec(p)
  \/ SweepPubSub(p) \/ SweepPubSubSkipped(p)

SweepKube ==
  \/ KubeStart \/ KubeSkipped \/ ListReleases \/ ListFails
  \/ UninstallRelease \/ UninstallReleaseFails \/ Uninstalled
  \/ SweepLabeled \/ PollNoneLeft \/ PollSomeLeft \/ PollDeadline

Guard == GuardPasses \/ GuardFails

Over == kube \in {"done", "skipped"}

Idle == Over /\ UNCHANGED vars

Next ==
  \/ Guard \/ SweepKube \/ Idle
  \/ \E p \in Procs : Process(p)
  \/ \E s \in Specs : Subscribe(s) \/ FinishDeletion(s)

\* Every call of the suite has a deadline; the deployment under test promises nothing.
Spec ==
  /\ Init /\ [][Next]_vars
  /\ WF_vars(Guard) /\ WF_vars(SweepKube)
  /\ \A p \in Procs : WF_vars(Process(p))

------------------------------------------------------------------------------
(* Properties                                                              *)

TypeOK ==
  /\ releases \subseteq Deployers /\ subs \subseteq Deployers
  /\ leaked \subseteq Specs /\ dying \subseteq Specs
  /\ pc \in [Procs -> {"start", "setup", "specs", "sweep", "exited"}]
  /\ ready \in [Procs -> BOOLEAN]
  /\ listed \in [Procs -> SUBSET Deployers]
  /\ run \in [Procs -> [spec : Specs \union {None}, stage : Stages,
                        attempt : 1..FlakeAttempts, failed : BOOLEAN]]
  /\ todo \subseteq Specs
  /\ kube \in {"waiting", "list", "uninstall", "labels", "poll", "done", "skipped"}
  /\ left \in 0..SweepTime
  /\ toUninstall \subseteq Deployers
  /\ faults \subseteq
       {"deploy", "uninstall", "unsubscribe", "sweep", "client", "list", "refused"} \X Specs

Running(s) == \E p \in Procs : run[p].spec = s
Uninstalling(s) == \E p \in Procs : run[p].spec = s /\ run[p].stage = "uninstall"
Unsubscribing(s) == \E p \in Procs : run[p].spec = s /\ run[p].stage = "unsubscribe"

\* "to avoid sweeping resources belonging to specs still running on other processes":
\* while a spec runs, nothing but its own cleanup removes its release or its
\* subscription, and nothing deletes its labeled resources.
SweepSparesRunning ==
  [][\A s \in Specs : Running(s) =>
       /\ s \in releases \ releases' => Uninstalling(s)
       /\ s \in subs \ subs' => Unsubscribing(s)
       /\ s \in leaked => s \in leaked']_vars

\* The run keeps what SuitePromise says of the deployment its specs share.
StateOf(s) == IF s \in todo THEN "waiting" ELSE IF Running(s) THEN "running" ELSE "over"

Promise == INSTANCE SuitePromise WITH
  state    <- [s \in Specs |-> StateOf(s)],
  sweeping <- kube # "waiting"

KeepsPromise == Promise!Spec

\* The sweep tries everything: when it is over, a release or a labeled resource
\* that survives is one whose own removal failed, or that could not be listed.
EverythingTried ==
  kube = "done" =>
    /\ releases \subseteq Failed("refused") \union Failed("list")
    /\ leaked \subseteq Failed("refused")

\* When the run is over, a subscription survives only if the sweep's deletion of it
\* failed, or its spec's own uninstall (the adapter ran on, and made it again), or both
\* its deployment, which is then not listed for the sweep, and the spec's own deletion.
SubscriptionsSwept ==
  Over =>
    subs \subseteq Failed("sweep") \union Failed("uninstall")
                  \union (Failed("deploy") \intersect Failed("unsubscribe"))

\* "MUST run exactly once, after all processes finish": nothing a process left behind
\* misses the sweep for a failure that is not the sweep's own.
SweepRuns == kube = "skipped" /\ releases \union leaked # {} => Failed("client") # {}

\* Adapters at work beside the spec a process runs that are not its own, but for those
\* that could not be uninstalled.
Intruders(p) == releases \ ({run[p].spec} \union Failed("uninstall"))

\* "Deploys temporary adapters that subscribe to all events, causing cross-talk with
\* concurrent specs" is a reason to mark a spec Serial (docs/development.md:368).  Of all the
\* specs that deploy one, only the adapter of one that lacks the mark it is said to have
\* (adapter-failover, :372 and adapter_failover.go:15) meets the body of another spec, and
\* never that of a Serial one, whatever fails and is tried again.
DeployersIsolated ==
  \A p \in Procs : AtStage(p, "body") =>
    /\ Intruders(p) \subseteq Unmarked
    /\ run[p].spec \in Serial => Intruders(p) = {}

\* What a process has before it, and what it has left of its spec: attempts, and the stages
\* of this one.
Ahead(p) ==
  CASE pc[p] = "start" -> 4 [] pc[p] = "setup" -> 3 [] pc[p] = "specs" -> 2
    [] pc[p] = "sweep" -> 1 [] OTHER -> 0

LeftOfSpec(r) ==
  IF r.spec = None THEN 0
  ELSE 5 * (FlakeAttempts - r.attempt) +
       (CASE r.stage = "deploy" -> 5 [] r.stage = "body" -> 4 [] r.stage = "uninstall" -> 3
          [] r.stage = "unsubscribe" -> 2 [] OTHER -> 1)

\* How far a process is from its exit: specs that nobody has begun count as before it.
ToExit(p) == <<Cardinality(todo) + Ahead(p), LeftOfSpec(run[p])>>

\* How far the Kubernetes sweep is from its end.
ToSwept ==
  CASE kube = "waiting"   -> <<5, 0>>
    [] kube = "list"      -> <<4, 0>>
    [] kube = "uninstall" -> <<3, Cardinality(toUninstall)>>
    [] kube = "labels"    -> <<2, 0>>
    [] kube = "poll"      -> <<1, left>>
    [] OTHER              -> <<0, 0>>

\* Whatever a process does brings it nearer to its exit, and whatever the sweep does
\* nearer to its end; nothing takes either further away, no spec another process takes,
\* no retry, no adapter that works on and no resource that does not go.
WorkRunsOut ==
  [][/\ \A p \in Procs :
          \/ UNCHANGED <<pc[p], ready[p], listed[p], run[p], todo>>
          \/ Below(ToExit(p)', ToExit(p))
     /\ UNCHANGED sweep \/ Below(ToSwept', ToSwept)]_vars

\* The run ends, whatever the deployment does.
RunEnds == <>Over
==============================================================================
