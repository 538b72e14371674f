---------------------------- MODULE SuiteRunProofs ----------------------------
(***************************************************************************)
(* Proofs about SuiteRun, for any number of processes, any set of specs,   *)
(* any marks on them, any retries and any deadlines: what the sweeps spare *)
(* and what they leave, that a run keeps SuitePromise, and that its work   *)
(* runs out.                                                               *)
(***************************************************************************)
EXTENDS SuiteRun, FiniteSetTheorems, TLAPS

\* A process runs a spec only while it is at the specs.
Resting1 == \A p \in Procs : pc[p] # "specs" => run[p].spec = None

\* A spec is begun once, on one process.
Exclusive ==
  /\ \A p \in Procs : run[p].spec \notin todo
  /\ \A p, q \in Procs : run[p].spec = run[q].spec /\ run[p].spec # None => p = q

\* The adapters on a process's list are those of specs it has begun itself.
OwnList ==
  \A p \in Procs : \A s \in listed[p] :
    s \notin todo /\ \A q \in Procs : run[q].spec = s => q = p

\* Only specs that deploy an adapter have one to clean up.
Deploying ==
  \A p \in Procs :
    run[p].spec # None /\ run[p].stage \in {"deploy", "uninstall", "unsubscribe"} =>
      run[p].spec \in Deployers

\* The Kubernetes sweep begins when every process has exited.
SweptLast == kube # "waiting" => \A p \in Procs : pc[p] = "exited"

Placed == Resting1 /\ Exclusive /\ OwnList /\ Deploying /\ SweptLast

Inv == TypeOK /\ Placed

\* The first process is one of the processes.
LEMMA FirstProcess == 1 \in Procs
  BY SuiteAssumption DEF Procs

\* A process with no spec is described by a record of the right type.
LEMMA RestingType ==
  Resting \in [spec : Specs \union {None}, stage : Stages,
               attempt : 1..FlakeAttempts, failed : BOOLEAN]
  BY SuiteAssumption DEF Resting, Stages

\* The initial state satisfies the invariant.
LEMMA InitInv == Init => Inv
<1> SUFFICES ASSUME Init PROVE Inv
  OBVIOUS
<1>1. TypeOK
  BY RestingType, SuiteAssumption DEF Init, TypeOK
<1>2. Placed
  BY SuiteAssumption
     DEF Init, Placed, Resting1, Exclusive, OwnList, Deploying, SweptLast, Resting
<1> QED BY <1>1, <1>2 DEF Inv

------------------------------------------------------------------------------
(* Steps that touch no process                                             *)

\* What happens in the deployment under test keeps the invariant.
LEMMA WorldKeeps ==
  ASSUME Inv, NEW s \in Specs, Subscribe(s) \/ FinishDeletion(s)
  PROVE  Inv'
<1>1. TypeOK'
  BY DEF Inv, TypeOK, Subscribe, FinishDeletion, procs, sweep, world
<1>2. Placed'
  BY DEF Inv, Placed, Resting1, Exclusive, OwnList, Deploying, SweptLast,
         Subscribe, FinishDeletion, procs, sweep
<1> QED BY <1>1, <1>2 DEF Inv

\* A step of the sweep's keeps what the processes are at.
LEMMA SweepPlaced ==
  ASSUME Placed, UNCHANGED procs, kube = "waiting" => MaySweep
  PROVE  Placed'
BY DEF Placed, Resting1, Exclusive, OwnList, Deploying, SweptLast, procs, MaySweep

\* Every step of the sweep's keeps the invariant.
LEMMA SweepKeeps ==
  ASSUME Inv, SweepKube
  PROVE  Inv'
<1> USE SuiteAssumption DEF Fault
<1>1. TypeOK'
  <2> USE DEF Inv, TypeOK, world, procs, sweep
  <2>1. CASE KubeStart
    BY <2>1 DEF KubeStart
  <2>2. CASE KubeSkipped
    BY <2>2 DEF KubeSkipped
  <2>3. CASE ListReleases
    BY <2>3 DEF ListReleases
  <2>4. CASE ListFails
    BY <2>4 DEF ListFails
  <2>5. CASE UninstallRelease
    BY <2>5 DEF UninstallRelease
  <2>6. CASE UninstallReleaseFails
    BY <2>6 DEF UninstallReleaseFails
  <2>7. CASE Uninstalled
    BY <2>7 DEF Uninstalled
  <2>8. CASE SweepLabeled
    BY <2>8 DEF SweepLabeled, SmallerOf
  <2>9. CASE PollNoneLeft \/ PollSomeLeft \/ PollDeadline
    BY <2>9 DEF PollNoneLeft, PollSomeLeft, PollDeadline
  <2> QED BY <2>1, <2>2, <2>3, <2>4, <2>5, <2>6, <2>7, <2>8, <2>9, SweepKube DEF SweepKube
<1>2. UNCHANGED procs /\ (kube = "waiting" => MaySweep)
  BY DEF SweepKube, KubeStart, KubeSkipped, ListReleases, ListFails, UninstallRelease,
         UninstallReleaseFails, Uninstalled, SweepLabeled, PollNoneLeft, PollSomeLeft,
         PollDeadline, world, procs, MaySweep
<1> QED BY <1>1, <1>2, SweepPlaced DEF Inv

------------------------------------------------------------------------------
(* Steps of a process                                                      *)

RunType == [spec : Specs \union {None}, stage : Stages,
            attempt : 1..FlakeAttempts, failed : BOOLEAN]

\* A step within a spec keeps every process where it belongs.
LEMMA StagePlaced ==
  ASSUME Inv, NEW p \in Procs, pc[p] = "specs", run[p].spec # None,
         UNCHANGED <<pc, todo, kube>>,
         NEW r \in RunType, run' = [run EXCEPT ![p] = r], r.spec = run[p].spec,
         r.stage \in {"deploy", "uninstall", "unsubscribe"} => r.spec \in Deployers,
         \/ listed' = listed
         \/ listed' = [listed EXCEPT ![p] = @ \union {run[p].spec}]
  PROVE  Placed'
<1> USE DEF Inv, TypeOK, Placed, RunType
<1>1. \A q \in Procs : run'[q].spec = run[q].spec
  OBVIOUS
<1>2. Resting1' /\ Exclusive' /\ SweptLast'
  BY <1>1 DEF Resting1, Exclusive, SweptLast
<1>3. OwnList'
  <2>1. CASE listed' = listed
    BY <1>1, <2>1 DEF OwnList
  <2>2. CASE listed' = [listed EXCEPT ![p] = @ \union {run[p].spec}]
    BY <1>1, <2>2 DEF OwnList, Exclusive
  <2> QED BY <2>1, <2>2
<1>4. Deploying'
  BY DEF Deploying
<1> QED BY <1>2, <1>3, <1>4

\* Every step of a spec that has begun, save its end, keeps the invariant.
LEMMA StageKeeps ==
  ASSUME Inv, NEW p \in Procs,
         Deploy(p) \/ DeployFails(p) \/ Body(p) \/ Uninstall(p) \/ UninstallFails(p)
           \/ Unsubscribe(p) \/ UnsubscribeFails(p)
  PROVE  Inv'
<1> USE DEF Inv, TypeOK, AtStage, RunType, world, sweep, Fault
<1> DEFINE At(stage, fails) == [run[p] EXCEPT !.stage = stage, !.failed = fails]
<1>0. /\ run[p] \in RunType
      /\ \A stage \in Stages, fails \in BOOLEAN :
           /\ At(stage, fails) \in RunType
           /\ At(stage, fails).spec = run[p].spec /\ At(stage, fails).stage = stage
  BY DEF Stages
<1>1. pc[p] = "specs" /\ run[p].spec # None /\ UNCHANGED <<pc, todo, kube>>
  BY DEF Deploy, DeployFails, Body, Uninstall, UninstallFails, Unsubscribe, UnsubscribeFails
<1>2. run[p].spec \in Specs
  BY <1>1
<1>3. run[p].stage \in {"deploy", "uninstall", "unsubscribe"} => run[p].spec \in Deployers
  BY <1>1 DEF Placed, Deploying
<1>4. ASSUME NEW stage \in Stages, NEW fails \in BOOLEAN,
             run' = [run EXCEPT ![p] = At(stage, fails)],
             stage \in {"deploy", "uninstall", "unsubscribe"} => run[p].spec \in Deployers,
             \/ listed' = listed
             \/ listed' = [listed EXCEPT ![p] = @ \union {run[p].spec}]
      PROVE  Placed' /\ run' \in [Procs -> RunType]
  BY <1>0, <1>1, <1>4, StagePlaced
<1>5. CASE Deploy(p)
  <2>1. run' = [run EXCEPT ![p] = At("body", run[p].failed)]
    BY <1>0, <1>5 DEF Deploy
  <2>2. Placed' /\ run' \in [Procs -> RunType]
    BY <1>0, <1>4, <1>5, <2>1 DEF Deploy, Stages
  <2> QED BY <1>3, <1>5, <2>2 DEF Deploy
<1>6. CASE DeployFails(p)
  <2>1. run' = [run EXCEPT ![p] = At("uninstall", TRUE)]
    BY <1>0, <1>6 DEF DeployFails
  <2>2. Placed' /\ run' \in [Procs -> RunType]
    BY <1>0, <1>3, <1>4, <1>6, <2>1 DEF DeployFails, Stages
  <2> QED BY <1>2, <1>3, <1>6, <2>2 DEF DeployFails
<1>7. CASE Body(p)
  <2>1. PICK fails \in BOOLEAN :
          run' = [run EXCEPT
            ![p].stage = IF run[p].spec \in Deployers THEN "uninstall" ELSE "end",
            ![p].failed = fails]
    BY <1>7 DEF Body
  <2>2. run' = [run EXCEPT
          ![p] = At(IF run[p].spec \in Deployers THEN "uninstall" ELSE "end", fails)]
    BY <1>0, <2>1
  <2>3. Placed' /\ run' \in [Procs -> RunType]
    BY <1>0, <1>4, <1>7, <2>2 DEF Body, Stages
  <2> QED BY <1>2, <1>7, <2>3 DEF Body
<1>8. CASE Uninstall(p) \/ UninstallFails(p)
  <2>1. run' = [run EXCEPT ![p] = At("unsubscribe", run[p].failed)]
    BY <1>0, <1>8 DEF Uninstall, UninstallFails
  <2>2. Placed' /\ run' \in [Procs -> RunType]
    BY <1>0, <1>3, <1>4, <1>8, <2>1 DEF Uninstall, UninstallFails, Stages
  <2> QED BY <1>2, <1>8, <2>2 DEF Uninstall, UninstallFails
<1>9. CASE Unsubscribe(p) \/ UnsubscribeFails(p)
  <2>1. run' = [run EXCEPT ![p] = At("end", run[p].failed)]
    BY <1>0, <1>9 DEF Unsubscribe, UnsubscribeFails
  <2>2. Placed' /\ run' \in [Procs -> RunType]
    BY <1>0, <1>4, <1>9, <2>1 DEF Unsubscribe, UnsubscribeFails, Stages
  <2> QED BY <1>2, <1>9, <2>2 DEF Unsubscribe, UnsubscribeFails
<1> QED BY <1>5, <1>6, <1>7, <1>8, <1>9

\* A spec is taken from todo, and belongs to its process from then on.
LEMMA FetchKeeps ==
  ASSUME Inv, NEW p \in Procs, Fetch(p)
  PROVE  Inv'
<1> USE DEF Inv, TypeOK, RunType, world, sweep
<1>1. PICK s \in todo :
        /\ run' = [run EXCEPT ![p] = [Resting EXCEPT !.spec = s, !.stage = FirstStage(s)]]
        /\ todo' = todo \ {s}
  BY DEF Fetch
<1> DEFINE r == [Resting EXCEPT !.spec = s, !.stage = FirstStage(s)]
<1>2. r \in RunType /\ r.spec = s /\ r.stage = FirstStage(s)
  BY RestingType DEF Resting, Stages, FirstStage
<1>3. TypeOK'
  BY <1>1, <1>2 DEF Fetch
<1>4. run[p].spec = None /\ pc[p] = "specs" /\ s # None
      /\ run'[p] = r /\ \A q \in Procs \ {p} : run'[q] = run[q]
  BY <1>1, SuiteAssumption DEF Fetch
<1>5. Resting1' /\ SweptLast'
  BY <1>4 DEF Fetch, Placed, Resting1, SweptLast
<1>6. Exclusive' /\ OwnList'
  BY <1>1, <1>2, <1>4 DEF Fetch, Placed, Exclusive, OwnList
<1>7. Deploying'
  BY <1>2, <1>4 DEF Fetch, Placed, Deploying, FirstStage
<1> QED BY <1>3, <1>5, <1>6, <1>7 DEF Placed

\* A spec that ends is forgotten, or begun again where it was.
LEMMA EndKeeps ==
  ASSUME Inv, NEW p \in Procs, EndAttempt(p)
  PROVE  Inv'
<1> USE DEF Inv, TypeOK, RunType, world, sweep
<1> DEFINE again == [Resting EXCEPT !.spec = run[p].spec, !.stage = FirstStage(run[p].spec),
                                    !.attempt = run[p].attempt + 1]
<1>1. faults' \subseteq faults /\ UNCHANGED <<world, pc, ready, listed, todo, sweep>>
  BY DEF EndAttempt
<1>2. CASE Retried(p)
  <2>1. run' = [run EXCEPT ![p] = again]
    BY <1>2 DEF EndAttempt
  <2>2. run[p] \in RunType /\ FirstStage(run[p].spec) \in Stages
    BY DEF Stages, FirstStage
  <2>3. run[p].attempt + 1 \in 1..FlakeAttempts
    BY <1>2, <2>2, SuiteAssumption DEF Retried
  <2>4. \A s \in Specs \union {None}, stage \in Stages, n \in 1..FlakeAttempts :
          LET r == [Resting EXCEPT !.spec = s, !.stage = stage, !.attempt = n]
          IN  r \in RunType /\ r.spec = s /\ r.stage = stage
    BY RestingType DEF Resting
  <2>5. again \in RunType /\ again.spec = run[p].spec
        /\ again.stage = FirstStage(run[p].spec)
    BY <2>2, <2>3, <2>4
  <2>6. Placed'
    BY <1>1, <2>1, <2>5, StagePlaced DEF EndAttempt, AtStage, FirstStage
  <2> QED BY <1>1, <2>1, <2>5, <2>6
<1>3. CASE ~Retried(p)
  <2>1. run' = [run EXCEPT ![p] = Resting]
    BY <1>3 DEF EndAttempt
  <2>2. Resting.spec = None /\ Resting \in RunType
    BY RestingType DEF Resting
  <2>3. \A s \in Specs : s # None
    BY SuiteAssumption
  <2>4. Resting1' /\ Exclusive' /\ OwnList' /\ SweptLast'
    BY <1>1, <2>1, <2>2, <2>3, SuiteAssumption
       DEF Placed, Resting1, Exclusive, OwnList, SweptLast
  <2>5. Deploying'
    BY <1>1, <2>1, <2>2 DEF Placed, Deploying
  <2> QED BY <1>1, <2>1, <2>2, <2>4, <2>5 DEF Placed
<1> QED BY <1>2, <1>3

\* Every step of a process keeps the invariant.
LEMMA ProcessKeeps ==
  ASSUME Inv, NEW p \in Procs, Process(p)
  PROVE  Inv'
<1> USE DEF Inv, TypeOK, world, sweep, Fault
<1>1. CASE SetUp(p) \/ SetUpFails(p)
  BY <1>1 DEF SetUp, SetUpFails, Placed, Resting1, Exclusive, OwnList, Deploying, SweptLast
<1>2. CASE NoMoreSpecs(p)
  BY <1>2 DEF NoMoreSpecs, Placed, Resting1, Exclusive, OwnList, Deploying, SweptLast
<1>3. CASE SweepPubSub(p)
  <2>1. Placed'
    BY <1>3 DEF SweepPubSub, Placed, Resting1, Exclusive, OwnList, Deploying, SweptLast
  <2>2. TypeOK'
    BY <1>3, SuiteAssumption DEF SweepPubSub
  <2> QED BY <2>1, <2>2
<1>4. CASE SweepPubSubSkipped(p)
  BY <1>4 DEF SweepPubSubSkipped, Placed, Resting1, Exclusive, OwnList, Deploying, SweptLast
<1>5. CASE Fetch(p)
  BY <1>5, FetchKeeps
<1>6. CASE EndAttempt(p)
  BY <1>6, EndKeeps
<1>7. CASE Deploy(p) \/ DeployFails(p) \/ Body(p) \/ Uninstall(p) \/ UninstallFails(p)
             \/ Unsubscribe(p) \/ UnsubscribeFails(p)
  BY <1>7, StageKeeps
<1> QED BY <1>1, <1>2, <1>3, <1>4, <1>5, <1>6, <1>7 DEF Process, RunSpec

\* The startup check sends every process on its way at once.
LEMMA GuardKeeps ==
  ASSUME Inv, Guard
  PROVE  Inv'
<1>1. TypeOK'
  BY DEF Inv, TypeOK, Guard, GuardPasses, GuardFails, world, sweep
<1>2. kube = "waiting"
  BY FirstProcess DEF Inv, TypeOK, Placed, SweptLast, Guard, GuardPasses, GuardFails
<1>3. Placed'
  BY <1>2 DEF Inv, TypeOK, Placed, Resting1, Exclusive, OwnList, Deploying, SweptLast,
              Guard, GuardPasses, GuardFails, sweep
<1> QED BY <1>1, <1>3 DEF Inv

\* Every step keeps the invariant.
LEMMA NextKeeps == Inv /\ [Next]_vars => Inv'
<1> SUFFICES ASSUME Inv, [Next]_vars PROVE Inv'
  OBVIOUS
<1>1. CASE UNCHANGED vars
  BY <1>1 DEF Inv, TypeOK, Placed, Resting1, Exclusive, OwnList, Deploying, SweptLast,
              vars, world, procs, sweep
<1>2. CASE \E p \in Procs : Process(p)
  BY <1>2, ProcessKeeps
<1>3. CASE \E s \in Specs : Subscribe(s) \/ FinishDeletion(s)
  BY <1>3, WorldKeeps
<1> QED BY <1>1, <1>2, <1>3, GuardKeeps, SweepKeeps DEF Next, Idle

------------------------------------------------------------------------------
(* Theorems                                                                *)

\* What the processes run and what is on their lists stay disjoint.
THEOREM SuiteInvariant == Spec => []Inv
BY InitInv, NextKeeps, PTL DEF Spec

\* Every variable keeps its type.
THEOREM TypeCorrect == Spec => []TypeOK
<1>1. Inv => TypeOK
  BY DEF Inv
<1> QED BY <1>1, SuiteInvariant, PTL

\* One step of a process takes down only what belongs to the spec at its own stage
\* of cleaning up, or to a spec that runs nowhere.
LEMMA ProcessSpares ==
  ASSUME Inv, NEW p \in Procs, Process(p), NEW s \in Specs, Running(s)
  PROVE  /\ s \in releases \ releases' => Uninstalling(s)
         /\ s \in subs \ subs' => Unsubscribing(s)
         /\ s \in leaked => s \in leaked'
<1> USE DEF Inv, TypeOK, AtStage, world
<1>1. CASE UNCHANGED <<releases, subs, leaked>>
  BY <1>1
<1>2. CASE Deploy(p) \/ DeployFails(p) \/ Body(p)
  BY <1>2 DEF Deploy, DeployFails, Body
<1>3. CASE Uninstall(p) \/ UninstallFails(p)
  BY <1>3 DEF Uninstall, UninstallFails, Uninstalling
<1>4. CASE Unsubscribe(p)
  BY <1>4 DEF Unsubscribe, Unsubscribing
<1>5. CASE SweepPubSub(p)
  <2>1. pc[p] = "sweep" /\ subs \ subs' \subseteq listed[p] /\ UNCHANGED <<releases, leaked>>
    BY <1>5 DEF SweepPubSub
  <2>2. s # None
    BY SuiteAssumption
  <2>3. s \notin listed[p]
    <3>1. PICK q \in Procs : run[q].spec = s
      BY DEF Running
    <3>2. run[p].spec = None
      BY <2>1 DEF Placed, Resting1
    <3> QED BY <2>2, <3>1, <3>2 DEF Placed, OwnList
  <2> QED BY <2>1, <2>3
<1>6. CASE SetUp(p) \/ SetUpFails(p) \/ Fetch(p) \/ UnsubscribeFails(p) \/ EndAttempt(p)
           \/ NoMoreSpecs(p) \/ SweepPubSubSkipped(p)
  BY <1>1, <1>6 DEF SetUp, SetUpFails, Fetch, UnsubscribeFails, EndAttempt, NoMoreSpecs,
                    SweepPubSubSkipped
<1> QED BY <1>2, <1>3, <1>4, <1>5, <1>6 DEF Process, RunSpec

\* While the Kubernetes sweep takes anything down, no spec runs.
LEMMA SweepFindsNoneRunning ==
  ASSUME Inv, SweepKube, ~UNCHANGED <<releases, subs, leaked>>
  PROVE  \A s \in Specs : ~Running(s)
<1>1. kube # "waiting"
  BY DEF SweepKube, KubeStart, KubeSkipped, ListReleases, ListFails, UninstallRelease,
         UninstallReleaseFails, Uninstalled, SweepLabeled, PollNoneLeft, PollSomeLeft,
         PollDeadline, world
<1>2. \A p \in Procs : run[p].spec = None
  BY <1>1 DEF Inv, Placed, SweptLast, Resting1
<1> QED BY <1>2, SuiteAssumption DEF Running

\* "to avoid sweeping resources belonging to specs still running on other processes"
\* (suite.go): while a spec runs, only its own cleanup removes its adapter's release and
\* subscription, and nothing deletes its labeled resources.
THEOREM SweepsSpareRunningSpecs == Spec => SweepSparesRunning
<1> DEFINE Spares(s) ==
      /\ s \in releases \ releases' => Uninstalling(s)
      /\ s \in subs \ subs' => Unsubscribing(s)
      /\ s \in leaked => s \in leaked'
    Untouched == UNCHANGED <<releases, subs, leaked>>
<1>1. ASSUME Inv, [Next]_vars, NEW s \in Specs, Running(s)
      PROVE  Spares(s)
  <2>1. CASE Untouched
    BY <2>1
  <2>2. CASE \E p \in Procs : Process(p)
    BY <1>1, <2>2, ProcessSpares
  <2>3. CASE SweepKube
    BY <1>1, <2>1, <2>3, SweepFindsNoneRunning
  <2>4. CASE \E a \in Specs : Subscribe(a) \/ FinishDeletion(a)
    BY <2>4 DEF Subscribe, FinishDeletion
  <2>5. CASE Guard \/ UNCHANGED vars
    BY <2>1, <2>5 DEF Guard, GuardPasses, GuardFails, vars, world
  <2> QED BY <1>1, <2>2, <2>3, <2>4, <2>5 DEF Next, Idle
<1>2. Inv /\ [Next]_vars => [\A s \in Specs : Running(s) => Spares(s)]_vars
  BY <1>1
<1> QED BY <1>2, SuiteInvariant, PTL DEF Spec, SweepSparesRunning
------------------------------------------------------------------------------
(* The Kubernetes sweep tries everything                                   *)

\* What the sweep's later stages have still to take down, or failed to.
Attempted ==
  /\ kube = "uninstall" =>
       releases \subseteq toUninstall \union Failed("refused") \union Failed("list")
  /\ kube \in {"labels", "poll", "done"} =>
       releases \subseteq Failed("refused") \union Failed("list")
  /\ kube \in {"poll", "done"} => leaked \subseteq Failed("refused")

\* A fault that has been noted is a failure, and stays one.
LEMMA FaultNoted ==
  ASSUME NEW what, NEW specs \in SUBSET Specs
  PROVE  /\ faults' = faults \union Fault(what, specs) => specs \subseteq Failed(what)'
         /\ faults \subseteq faults' => Failed(what) \subseteq Failed(what)'
BY DEF Fault, Failed

\* The sweep's own steps keep what it has attempted.
LEMMA SweepAttempts ==
  ASSUME Inv, Attempted, SweepKube
  PROVE  Attempted'
<1> USE DEF Attempted, world
<1>0. releases \subseteq Specs /\ leaked \subseteq Specs /\ toUninstall \subseteq Specs
  BY SuiteAssumption DEF Inv, TypeOK
<1>1. CASE KubeStart \/ KubeSkipped
  BY <1>1 DEF KubeStart, KubeSkipped
<1>2. CASE ListReleases
  BY <1>2 DEF ListReleases
<1>3. CASE ListFails
  BY <1>0, <1>3, FaultNoted DEF ListFails
<1>4. CASE UninstallRelease
  BY <1>4 DEF UninstallRelease, Failed
<1>5. CASE UninstallReleaseFails
  <2>1. PICK a \in toUninstall :
          /\ releases' \subseteq releases
          /\ faults' = faults \union Fault("refused", {a})
          /\ toUninstall' = toUninstall \ {a}
    BY <1>5 DEF UninstallReleaseFails
  <2>2. a \in Failed("refused")'
    BY <1>0, <2>1, FaultNoted
  <2>3. \A what : Failed(what) \subseteq Failed(what)'
    BY <2>1 DEF Failed
  <2> QED BY <1>5, <2>1, <2>2, <2>3 DEF UninstallReleaseFails
<1>6. CASE Uninstalled
  BY <1>6 DEF Uninstalled, Failed
<1>7. CASE SweepLabeled
  <2>1. PICK bad \in SUBSET leaked :
          leaked' = bad /\ faults' = faults \union Fault("refused", bad)
    BY <1>7 DEF SweepLabeled
  <2>2. bad \subseteq Failed("refused")'
    BY <1>0, <2>1, FaultNoted
  <2>3. \A what : Failed(what) \subseteq Failed(what)'
    BY <2>1 DEF Failed
  <2> QED BY <1>7, <2>1, <2>2, <2>3 DEF SweepLabeled
<1>8. CASE PollNoneLeft \/ PollSomeLeft \/ PollDeadline
  BY <1>8 DEF PollNoneLeft, PollSomeLeft, PollDeadline, Failed
<1> QED BY <1>1, <1>2, <1>3, <1>4, <1>5, <1>6, <1>7, <1>8 DEF SweepKube

\* No other step disturbs it: by the time the sweep has begun no process takes one.
LEMMA NextAttempts == Inv /\ Attempted /\ [Next]_vars => Attempted'
<1> SUFFICES ASSUME Inv, Attempted, [Next]_vars PROVE Attempted'
  OBVIOUS
<1>1. CASE UNCHANGED vars
  BY <1>1 DEF Attempted, Failed, vars, world, sweep
<1>2. CASE \E p \in Procs : Process(p)
  <2>1. PICK p \in Procs : Process(p)
    BY <1>2
  <2>2. pc[p] # "exited" /\ kube' = kube
    BY <2>1 DEF Process, RunSpec, SetUp, SetUpFails, Fetch, Deploy, DeployFails, Body,
                Uninstall, UninstallFails, Unsubscribe, UnsubscribeFails, EndAttempt,
                NoMoreSpecs, SweepPubSub, SweepPubSubSkipped, AtStage, sweep
  <2> QED BY <2>2 DEF Inv, Placed, SweptLast, Attempted
<1>3. CASE \E s \in Specs : Subscribe(s) \/ FinishDeletion(s)
  BY <1>3 DEF Attempted, Failed, Subscribe, FinishDeletion, sweep
<1>4. CASE Guard
  BY <1>4 DEF Attempted, Failed, Guard, GuardPasses, GuardFails, world, sweep
<1> QED BY <1>1, <1>2, <1>3, <1>4, SweepAttempts DEF Next, Idle

\* The sweep tries everything (CleanupKubeResources, "Still proceeding with cleanup"):
\* when it is over, a release or a labeled resource that survives is one whose own
\* removal failed, or one that could not be listed.
THEOREM SweepTriesEverything == Spec => []EverythingTried
<1>1. Init => Attempted
  BY DEF Init, Attempted
<1>2. Spec => []Attempted
  BY <1>1, NextAttempts, SuiteInvariant, PTL DEF Spec
<1>3. Attempted => EverythingTried
  BY DEF Attempted, EverythingTried
<1> QED BY <1>2, <1>3, PTL

------------------------------------------------------------------------------
(* Who answers for an adapter that is left                                 *)

\* Of a spec that runs nowhere, an adapter is left only if its own uninstall failed, and
\* a subscription only if that did, or if a process will still sweep it, could not, or
\* never heard of it.
Accounted(s) ==
  \/ s \in Failed("uninstall")
  \/ /\ s \notin releases
     /\ \/ s \notin subs
        \/ s \in Failed("sweep")
        \/ s \in Failed("deploy") /\ s \in Failed("unsubscribe")
        \/ \E q \in Procs : s \in listed[q] /\ pc[q] # "exited"

\* What the stages of a spec owe: a deployed adapter is on the process's list, or its
\* deployment failed.
Owed(p) ==
  LET s == run[p].spec
  IN  /\ run[p].stage = "body" /\ s \in Deployers => s \in listed[p]
      /\ run[p].stage = "uninstall" => s \in listed[p] \/ s \in Failed("deploy")
      /\ run[p].stage = "unsubscribe" =>
           \/ s \in Failed("uninstall")
           \/ s \notin releases /\ (s \in listed[p] \/ s \in Failed("deploy"))
      /\ run[p].stage = "end" => Accounted(s)

Ledger ==
  /\ \A s \in Specs : Running(s) \/ Accounted(s)
  /\ \A p \in Procs : run[p].spec # None => Owed(p)

\* A process lists adapters and runs specs only after its setup.
SetUpFirst == \A p \in Procs : ~ready[p] => listed[p] = {} /\ pc[p] # "specs"

\* A Serial spec runs on process 1, alone.
SerialAlone == \A p \in Procs : run[p].spec \in Serial => p = 1 /\ OthersExited

\* More failures, fewer adapters and subscriptions, and processes that have not exited
\* since, keep the ledger.
LEMMA LedgerGrows ==
  ASSUME Ledger, run' = run, listed' = listed,
         releases' \subseteq releases, subs' \subseteq subs, faults \subseteq faults',
         \A q \in Procs : pc'[q] = "exited" => pc[q] = "exited" \/ listed[q] = {}
  PROVE  Ledger'
<1>1. \A what : Failed(what) \subseteq Failed(what)'
  BY DEF Failed
<1>2. ASSUME NEW s, Accounted(s) PROVE Accounted(s)'
  <2>1. /\ Failed("uninstall") \subseteq Failed("uninstall")'
        /\ Failed("sweep") \subseteq Failed("sweep")'
        /\ Failed("deploy") \subseteq Failed("deploy")'
        /\ Failed("unsubscribe") \subseteq Failed("unsubscribe")'
    BY <1>1
  <2> QED BY <1>2, <2>1 DEF Accounted
<1>3. ASSUME NEW p \in Procs, Owed(p) PROVE Owed(p)'
  <2>1. /\ Failed("uninstall") \subseteq Failed("uninstall")'
        /\ Failed("deploy") \subseteq Failed("deploy")'
    BY <1>1
  <2> QED BY <1>2, <1>3, <2>1 DEF Owed
<1> QED BY <1>2, <1>3 DEF Ledger, Running

\* A step of a process that concerns its own spec only keeps what the others owe.
LEMMA OthersOwe ==
  ASSUME Inv, Ledger, NEW p \in Procs, run[p].spec # None,
         pc' = pc, \A q \in Procs : listed[q] \subseteq listed'[q],
         \A q \in Procs : q # p => run'[q] = run[q] /\ listed'[q] = listed[q],
         run'[p].spec \in {run[p].spec, None},
         \A s \in Specs : s # run[p].spec =>
           /\ s \in releases' <=> s \in releases
           /\ s \in subs' <=> s \in subs
           /\ \A what : <<what, s>> \in faults' <=> <<what, s>> \in faults
  PROVE  /\ \A s \in Specs : s # run[p].spec => Running(s)' \/ Accounted(s)'
         /\ \A q \in Procs : q # p /\ run'[q].spec # None => Owed(q)'
<1> DEFINE t == run[p].spec
<1>1. \A s \in Specs : \A what : s # t => (s \in Failed(what)' <=> s \in Failed(what))
  BY DEF Failed
<1>2. ASSUME NEW s \in Specs, s # t, Accounted(s) PROVE Accounted(s)'
  <2>1. /\ s \in Failed("uninstall")' <=> s \in Failed("uninstall")
        /\ s \in Failed("sweep")' <=> s \in Failed("sweep")
        /\ s \in Failed("deploy")' <=> s \in Failed("deploy")
        /\ s \in Failed("unsubscribe")' <=> s \in Failed("unsubscribe")
    BY <1>1, <1>2
  <2> QED BY <1>2, <2>1 DEF Accounted
<1>3. ASSUME NEW s \in Specs, s # t PROVE Running(s)' \/ Accounted(s)'
  <2>1. CASE Accounted(s)
    BY <1>2, <1>3, <2>1
  <2>2. CASE Running(s)
    <3>1. PICK q \in Procs : run[q].spec = s
      BY <2>2 DEF Running
    <3> QED BY <1>3, <3>1 DEF Running
  <2> QED BY <2>1, <2>2 DEF Ledger
<1>4. ASSUME NEW q \in Procs, q # p, run'[q].spec # None PROVE Owed(q)'
  <2>1. run'[q] = run[q] /\ listed'[q] = listed[q] /\ run[q].spec \in Specs
    BY <1>4 DEF Inv, TypeOK
  <2>2. run[q].spec # t
    BY <1>4, <2>1 DEF Inv, Placed, Exclusive
  <2>3. /\ run[q].spec \in Failed("uninstall")' <=> run[q].spec \in Failed("uninstall")
        /\ run[q].spec \in Failed("deploy")' <=> run[q].spec \in Failed("deploy")
    BY <1>1, <2>1, <2>2
  <2>4. Owed(q)
    BY <1>4, <2>1 DEF Ledger
  <2> QED BY <1>2, <2>1, <2>2, <2>3, <2>4 DEF Owed
<1> QED BY <1>3, <1>4

\* A stage of a spec passes on what it owes to the next.
LEMMA StageLedger ==
  ASSUME Inv, Ledger, NEW p \in Procs,
         Deploy(p) \/ DeployFails(p) \/ Body(p) \/ Uninstall(p) \/ UninstallFails(p)
           \/ Unsubscribe(p) \/ UnsubscribeFails(p)
  PROVE  Ledger'
<1>0. PICK t : t = run[p].spec
  OBVIOUS
<1> USE DEF AtStage, Fault, world
<1>1. t = run[p].spec /\ pc[p] = "specs" /\ t # None /\ t \in Specs /\ Owed(p)
  BY <1>0 DEF Inv, TypeOK, Ledger, Deploy, DeployFails, Body, Uninstall, UninstallFails,
         Unsubscribe, UnsubscribeFails
<1>b. ASSUME Body(p)
      PROVE  /\ UNCHANGED <<pc, listed, releases, subs>> /\ run[p].stage = "body"
             /\ \A q \in Procs : q # p => run'[q] = run[q]
             /\ run'[p].spec = t
             /\ run'[p].stage = IF t \in Deployers THEN "uninstall" ELSE "end"
  <2>1. PICK fails \in BOOLEAN :
          run' = [run EXCEPT
            ![p].stage = IF run[p].spec \in Deployers THEN "uninstall" ELSE "end",
            ![p].failed = fails]
    BY <1>b DEF Body
  <2>2. run \in [Procs -> RunType]
    BY DEF Inv, TypeOK, RunType
  <2>3. run'[p].spec = run[p].spec
        /\ run'[p].stage = (IF run[p].spec \in Deployers THEN "uninstall" ELSE "end")
        /\ \A q \in Procs : q # p => run'[q] = run[q]
    BY <2>1, <2>2 DEF RunType
  <2> QED BY <1>0, <1>b, <2>3 DEF Body
<1>2. /\ pc' = pc
      /\ \A q \in Procs : listed[q] \subseteq listed'[q]
      /\ \A q \in Procs : q # p => run'[q] = run[q] /\ listed'[q] = listed[q]
      /\ run'[p].spec = t
  BY <1>0, <1>b DEF Inv, TypeOK, Deploy, DeployFails, Uninstall, UninstallFails,
         Unsubscribe, UnsubscribeFails
<1>3. \A s \in Specs : s # t =>
        /\ s \in releases' <=> s \in releases
        /\ s \in subs' <=> s \in subs
        /\ \A what : <<what, s>> \in faults' <=> <<what, s>> \in faults
  BY <1>0 DEF Deploy, DeployFails, Body, Uninstall, UninstallFails, Unsubscribe, UnsubscribeFails
<1>4. /\ \A s \in Specs : s # t => Running(s)' \/ Accounted(s)'
      /\ \A q \in Procs : q # p /\ run'[q].spec # None => Owed(q)'
  BY <1>1, <1>2, <1>3, OthersOwe
<1>5. Running(t)'
  BY <1>2 DEF Running
<1>6. Owed(p)'
  <2> USE DEF Owed, Failed
  <2>0. \A stage \in Stages : [run EXCEPT ![p].stage = stage][p].stage = stage
    BY DEF Inv, TypeOK
  <2>1. CASE Deploy(p)
    <3>1. run'[p].stage = "body" /\ t \in listed'[p]
      BY <1>0, <2>1 DEF Inv, TypeOK, Deploy
    <3> QED BY <1>2, <3>1
  <2>2. CASE DeployFails(p)
    <3>1. run'[p].stage = "uninstall" /\ <<"deploy", t>> \in faults'
      BY <1>0, <2>2 DEF Inv, TypeOK, DeployFails
    <3> QED BY <1>1, <1>2, <3>1
  <2>3. CASE Body(p)
    <3>1. CASE t \in Deployers
      <4>1. run'[p].stage = "uninstall" /\ t \in listed'[p]
        BY <1>1, <1>b, <2>3, <3>1
      <4> QED BY <1>2, <4>1
    <3>2. CASE t \notin Deployers
      <4>1. run'[p].stage = "end" /\ t \notin releases' /\ t \notin subs'
        BY <1>b, <2>3, <3>2 DEF Inv, TypeOK
      <4> QED BY <1>2, <4>1 DEF Accounted
    <3> QED BY <3>1, <3>2
  <2>4. CASE Uninstall(p)
    <3>1. run'[p].stage = "unsubscribe" /\ t \notin releases'
          /\ listed' = listed /\ faults' = faults
      BY <1>0, <2>4 DEF Inv, TypeOK, Uninstall
    <3> QED BY <1>1, <1>2, <2>4, <3>1 DEF Uninstall
  <2>5. CASE UninstallFails(p)
    <3>1. run'[p].stage = "unsubscribe" /\ <<"uninstall", t>> \in faults'
      BY <1>0, <2>5 DEF Inv, TypeOK, UninstallFails
    <3> QED BY <1>1, <1>2, <3>1
  <2>6. CASE Unsubscribe(p)
    <3>1. /\ run'[p].stage = "end" /\ t \notin subs'
          /\ releases' = releases /\ faults' = faults
      BY <1>0, <2>6 DEF Inv, TypeOK, Unsubscribe
    <3>2. t \in Failed("uninstall") \/ t \notin releases
      BY <1>1, <2>6 DEF Unsubscribe
    <3>3. Accounted(t)'
      BY <3>1, <3>2 DEF Accounted
    <3> QED BY <1>2, <3>1, <3>3
  <2>7. CASE UnsubscribeFails(p)
    <3>1. /\ run'[p].stage = "end" /\ <<"unsubscribe", t>> \in faults'
          /\ releases' = releases /\ listed' = listed /\ faults \subseteq faults'
      BY <1>0, <2>7 DEF Inv, TypeOK, UnsubscribeFails
    <3>2. \/ t \in Failed("uninstall")
          \/ t \notin releases /\ (t \in listed[p] \/ t \in Failed("deploy"))
      BY <1>1, <2>7 DEF UnsubscribeFails
    <3>3. Accounted(t)'
      <4>1. CASE t \in Failed("uninstall")
        BY <1>1, <3>1, <4>1 DEF Accounted
      <4>2. CASE t \notin releases /\ t \in listed[p]
        <5>1. t \in listed'[p] /\ pc'[p] # "exited" /\ t \notin releases'
          BY <1>1, <1>2, <3>1, <4>2
        <5> QED BY <5>1 DEF Accounted
      <4>3. CASE t \notin releases /\ t \in Failed("deploy")
        <5>1. t \in Failed("deploy")' /\ t \in Failed("unsubscribe")' /\ t \notin releases'
          BY <1>1, <3>1, <4>3
        <5> QED BY <5>1 DEF Accounted
      <4> QED BY <3>2, <4>1, <4>2, <4>3
    <3> QED BY <1>2, <3>1, <3>3
  <2> QED BY <2>1, <2>2, <2>3, <2>4, <2>5, <2>6, <2>7
<1> QED BY <1>2, <1>4, <1>5, <1>6 DEF Ledger

\* A spec that begins owes nothing yet; one that ends has accounted for its adapter.
LEMMA FetchLedger ==
  ASSUME Inv, Ledger, NEW p \in Procs, Fetch(p)
  PROVE  Ledger'
<1> USE DEF world, sweep
<1>1. PICK s \in todo :
        run' = [run EXCEPT ![p] = [Resting EXCEPT !.spec = s, !.stage = FirstStage(s)]]
  BY DEF Fetch
<1>2. /\ run'[p].spec = s /\ run'[p].stage = FirstStage(s) /\ s \in Specs
      /\ run[p].spec = None /\ s # None
      /\ \A q \in Procs : q # p => run'[q] = run[q]
      /\ UNCHANGED <<releases, subs, pc, listed, faults>>
  BY <1>1, SuiteAssumption DEF Fetch, Inv, TypeOK, Resting
<1>3. \A u : Accounted(u)' <=> Accounted(u)
  BY <1>2 DEF Accounted, Failed
<1>4. ASSUME NEW q \in Procs, run'[q].spec # None PROVE Owed(q)'
  <2>1. CASE q = p
    BY <1>2, <2>1 DEF Owed, FirstStage
  <2>2. CASE q # p
    <3>1. Owed(q) /\ run'[q] = run[q]
      BY <1>2, <1>4, <2>2 DEF Ledger
    <3> QED BY <1>2, <1>3, <3>1 DEF Owed, Failed
  <2> QED BY <2>1, <2>2
<1>5. ASSUME NEW u \in Specs PROVE Running(u)' \/ Accounted(u)'
  <2>1. CASE Running(u)
    BY <1>2, <2>1, SuiteAssumption DEF Running
  <2> QED BY <1>3, <2>1 DEF Ledger
<1> QED BY <1>4, <1>5 DEF Ledger

LEMMA EndLedger ==
  ASSUME Inv, Ledger, NEW p \in Procs, EndAttempt(p)
  PROVE  Ledger'
<1>0. PICK t : t = run[p].spec
  OBVIOUS
<1> USE DEF AtStage, world, sweep
<1>1. /\ t = run[p].spec /\ t # None /\ t \in Specs /\ run[p].stage = "end" /\ Owed(p)
      /\ UNCHANGED <<releases, subs, pc, listed>>
      /\ \A q \in Procs : q # p => run'[q] = run[q]
  BY <1>0 DEF Inv, TypeOK, Ledger, EndAttempt
<1>2. \/ run'[p].spec = t /\ run'[p].stage = FirstStage(t)
      \/ run'[p].spec = None /\ faults' = faults
  BY <1>0 DEF Inv, TypeOK, EndAttempt, Resting
<1>3. \A s \in Specs : \A what : s # t => (<<what, s>> \in faults' <=> <<what, s>> \in faults)
  BY <1>0 DEF EndAttempt
<1>4. /\ \A s \in Specs : s # t => Running(s)' \/ Accounted(s)'
      /\ \A q \in Procs : q # p /\ run'[q].spec # None => Owed(q)'
  BY <1>1, <1>2, <1>3, OthersOwe
<1>5. CASE run'[p].spec = t /\ run'[p].stage = FirstStage(t)
  <2>1. Owed(p)'
    BY <1>5 DEF Owed, FirstStage
  <2>2. Running(t)'
    BY <1>5 DEF Running
  <2> QED BY <1>4, <2>1, <2>2 DEF Ledger
<1>6. CASE run'[p].spec = None /\ faults' = faults
  <2>1. Accounted(t)
    BY <1>1 DEF Owed
  <2>2. Accounted(t)'
    BY <1>1, <1>6, <2>1 DEF Accounted, Failed
  <2> QED BY <1>4, <1>6, <2>2 DEF Ledger
<1> QED BY <1>2, <1>5, <1>6

\* A process's sweep removes the subscriptions on its list, or notes that it could not.
LEMMA SweepLedger ==
  ASSUME Inv, Ledger, NEW p \in Procs, SweepPubSub(p)
  PROVE  Ledger'
<1> USE DEF Fault, world, sweep
<1>1. PICK bad \in SUBSET listed[p] :
        subs' = subs \ (listed[p] \ bad) /\ faults' = faults \union Fault("sweep", bad)
  BY DEF SweepPubSub
<1>2. /\ UNCHANGED <<releases, listed, run>>
      /\ faults \subseteq faults' /\ subs' \subseteq subs
      /\ pc[p] = "sweep" /\ pc' = [pc EXCEPT ![p] = "exited"]
  BY <1>1 DEF SweepPubSub
<1>3. \A what : Failed(what) \subseteq Failed(what)'
  BY <1>2 DEF Failed
<1>4. ASSUME NEW s \in Specs, Accounted(s) PROVE Accounted(s)'
  <2>1. /\ Failed("uninstall") \subseteq Failed("uninstall")'
        /\ Failed("sweep") \subseteq Failed("sweep")'
        /\ Failed("deploy") \subseteq Failed("deploy")'
        /\ Failed("unsubscribe") \subseteq Failed("unsubscribe")'
    BY <1>3
  <2>2. s \in listed[p] => s \notin subs' \/ s \in Failed("sweep")'
    BY <1>1 DEF Failed
  <2>3. \A q \in Procs : q # p => pc'[q] = pc[q]
    BY <1>2 DEF Inv, TypeOK
  <2> QED BY <1>2, <1>4, <2>1, <2>2, <2>3 DEF Accounted
<1>5. ASSUME NEW q \in Procs, run'[q].spec # None PROVE Owed(q)'
  <2>1. Owed(q) /\ run[q].spec \in Specs
    BY <1>2, <1>5 DEF Ledger, Inv, TypeOK
  <2>2. /\ Failed("uninstall") \subseteq Failed("uninstall")'
        /\ Failed("deploy") \subseteq Failed("deploy")'
    BY <1>3
  <2> QED BY <1>2, <1>4, <2>1, <2>2 DEF Owed
<1> QED BY <1>2, <1>4, <1>5 DEF Ledger, Running

\* An adapter that makes its subscription again runs, and is accounted for as such.
LEMMA SubscribeLedger ==
  ASSUME Inv, Ledger, NEW a \in Specs, Subscribe(a)
  PROVE  Ledger'
<1>1. /\ a \in releases /\ subs' = subs \union {a}
      /\ UNCHANGED <<releases, faults, run, listed, pc>>
  BY DEF Subscribe, procs
<1>2. \A s : Accounted(s) => Accounted(s)'
  BY <1>1 DEF Accounted, Failed
<1> QED BY <1>1, <1>2 DEF Ledger, Owed, Running, Failed

\* Every step keeps the ledger.
LEMMA NextLedger == Inv /\ SetUpFirst /\ Ledger /\ [Next]_vars => Ledger'
<1> SUFFICES ASSUME Inv, SetUpFirst, Ledger, [Next]_vars PROVE Ledger'
  OBVIOUS
<1> USE DEF world, procs, sweep
<1>1. ASSUME NEW p \in Procs, Process(p) PROVE Ledger'
  <2>1. CASE SetUp(p) \/ SetUpFails(p) \/ NoMoreSpecs(p) \/ SweepPubSubSkipped(p)
    <3>1. /\ UNCHANGED <<run, listed, releases, subs, faults>>
          /\ \A q \in Procs : pc'[q] = "exited" => pc[q] = "exited" \/ listed[q] = {}
      BY <2>1 DEF SetUp, SetUpFails, NoMoreSpecs, SweepPubSubSkipped, SetUpFirst, Inv, TypeOK
    <3> QED BY <3>1, LedgerGrows
  <2>2. CASE SweepPubSub(p)
    BY <2>2, SweepLedger
  <2>3. CASE Fetch(p)
    BY <2>3, FetchLedger
  <2>4. CASE EndAttempt(p)
    BY <2>4, EndLedger
  <2> QED BY <1>1, <2>1, <2>2, <2>3, <2>4, StageLedger DEF Process, RunSpec
<1>2. CASE SweepKube
  <2>1. /\ UNCHANGED <<run, listed, pc, subs>>
        /\ releases' \subseteq releases /\ faults \subseteq faults'
    BY <1>2 DEF SweepKube, KubeStart, KubeSkipped, ListReleases, ListFails, UninstallRelease,
                UninstallReleaseFails, Uninstalled, SweepLabeled, PollNoneLeft, PollSomeLeft,
                PollDeadline
  <2> QED BY <2>1, LedgerGrows
<1>3. CASE Guard
  <2>1. /\ UNCHANGED <<run, listed, releases, subs, faults>>
        /\ \A q \in Procs : pc'[q] # "exited"
    BY <1>3 DEF Guard, GuardPasses, GuardFails
  <2> QED BY <2>1, LedgerGrows
<1>4. CASE \E s \in Specs : FinishDeletion(s)
  <2>1. UNCHANGED <<run, listed, releases, subs, faults, pc>>
    BY <1>4 DEF FinishDeletion
  <2> QED BY <2>1, LedgerGrows
<1>5. CASE UNCHANGED vars
  <2>1. UNCHANGED <<run, listed, releases, subs, faults, pc>>
    BY <1>5 DEF vars
  <2> QED BY <2>1, LedgerGrows
<1> QED BY <1>1, <1>2, <1>3, <1>4, <1>5, SubscribeLedger DEF Next, Idle

\* Every step keeps a process that has not been set up from listing and running.
LEMMA NextSetUp == Inv /\ SetUpFirst /\ [Next]_vars => SetUpFirst'
<1> SUFFICES ASSUME Inv, SetUpFirst, [Next]_vars PROVE SetUpFirst'
  OBVIOUS
<1> USE DEF world, procs, sweep
<1>1. ASSUME NEW p \in Procs, Process(p) PROVE SetUpFirst'
  <2>1. CASE SetUp(p) \/ SetUpFails(p) \/ NoMoreSpecs(p) \/ SweepPubSubSkipped(p)
             \/ SweepPubSub(p)
    BY <2>1 DEF SetUp, SetUpFails, NoMoreSpecs, SweepPubSubSkipped, SweepPubSub,
                SetUpFirst, Inv, TypeOK
  <2>2. CASE Deploy(p)
    BY <2>2 DEF Deploy, AtStage, SetUpFirst, Inv, TypeOK
  <2> QED BY <1>1, <2>1, <2>2
          DEF Process, RunSpec, Fetch, DeployFails, Body, Uninstall, UninstallFails,
              Unsubscribe, UnsubscribeFails, EndAttempt, SetUpFirst
<1>2. CASE Guard
  BY <1>2 DEF Guard, GuardPasses, GuardFails, SetUpFirst
<1>3. CASE SweepKube \/ UNCHANGED vars \/ \E s \in Specs : Subscribe(s) \/ FinishDeletion(s)
  <2>1. UNCHANGED procs
    BY <1>3 DEF SweepKube, KubeStart, KubeSkipped, ListReleases, ListFails, UninstallRelease,
                UninstallReleaseFails, Uninstalled, SweepLabeled, PollNoneLeft, PollSomeLeft,
                PollDeadline, Subscribe, FinishDeletion, vars
  <2> QED BY <2>1 DEF SetUpFirst
<1> QED BY <1>1, <1>2, <1>3 DEF Next, Idle

\* Every step keeps a Serial spec by itself: no process that has exited runs again.
LEMMA NextSerial == Inv /\ SerialAlone /\ [Next]_vars => SerialAlone'
<1> SUFFICES ASSUME Inv, SerialAlone, [Next]_vars PROVE SerialAlone'
  OBVIOUS
<1> USE DEF world, procs, sweep, SerialAlone, OthersExited
<1>0. None \notin Serial
  BY SuiteAssumption
<1>1. ASSUME NEW p \in Procs, Process(p) PROVE SerialAlone'
  <2>1. pc[p] # "exited" /\ \A q \in Procs : q # p => pc'[q] = pc[q]
    BY <1>1 DEF Inv, TypeOK, Process, RunSpec, SetUp, SetUpFails, Fetch, Deploy, DeployFails,
                Body, Uninstall, UninstallFails, Unsubscribe, UnsubscribeFails, EndAttempt,
                NoMoreSpecs, SweepPubSub, SweepPubSubSkipped, AtStage
  <2>2. CASE Fetch(p)
    <3>1. PICK s \in todo :
            /\ s \in Serial => p = 1 /\ OthersExited
            /\ run' = [run EXCEPT ![p] = [Resting EXCEPT !.spec = s, !.stage = FirstStage(s)]]
      BY <2>2 DEF Fetch
    <3>2. run'[p].spec = s /\ pc' = pc /\ \A q \in Procs : q # p => run'[q] = run[q]
      BY <2>2, <3>1 DEF Inv, TypeOK, Fetch, Resting
    <3> QED BY <3>1, <3>2
  <2>3. CASE ~Fetch(p)
    <3>1. \A q \in Procs : run'[q].spec \in {run[q].spec, None}
      <4>1. CASE EndAttempt(p)
        BY <4>1 DEF Inv, TypeOK, EndAttempt, Resting
      <4>2. CASE Body(p)
        <5>1. PICK stage, fails :
                run' = [run EXCEPT ![p].stage = stage, ![p].failed = fails]
          BY <4>2 DEF Body
        <5> QED BY <5>1 DEF Inv, TypeOK
      <4>3. CASE Deploy(p) \/ Uninstall(p) \/ UninstallFails(p) \/ Unsubscribe(p)
                 \/ UnsubscribeFails(p)
        <5>1. PICK stage : run' = [run EXCEPT ![p].stage = stage]
          BY <4>3 DEF Deploy, Uninstall, UninstallFails, Unsubscribe, UnsubscribeFails
        <5> QED BY <5>1 DEF Inv, TypeOK
      <4>4. CASE DeployFails(p)
        BY <4>4 DEF Inv, TypeOK, DeployFails
      <4> QED BY <1>1, <2>3, <4>1, <4>2, <4>3, <4>4
              DEF Process, RunSpec, SetUp, SetUpFails, NoMoreSpecs, SweepPubSub,
                  SweepPubSubSkipped
    <3> QED BY <1>0, <2>1, <3>1
  <2> QED BY <2>2, <2>3
<1>2. CASE Guard
  <2>1. run' = run /\ \A p \in Procs : pc[p] = "start"
    BY <1>2 DEF Guard, GuardPasses, GuardFails
  <2>2. \A p \in Procs : run'[p].spec = None
    BY <2>1 DEF Inv, Placed, Resting1
  <2> QED BY <1>0, <2>2
<1>3. CASE SweepKube \/ UNCHANGED vars \/ \E s \in Specs : Subscribe(s) \/ FinishDeletion(s)
  <2>1. UNCHANGED procs
    BY <1>3 DEF SweepKube, KubeStart, KubeSkipped, ListReleases, ListFails, UninstallRelease,
                UninstallReleaseFails, Uninstalled, SweepLabeled, PollNoneLeft, PollSomeLeft,
                PollDeadline, Subscribe, FinishDeletion, vars
  <2> QED BY <2>1
<1> QED BY <1>1, <1>2, <1>3 DEF Next, Idle

Accounts == Ledger /\ SetUpFirst /\ SerialAlone

\* What is owed, and to whom, throughout a run.
LEMMA LedgerInvariant == Spec => [](Inv /\ Accounts)
<1>1. Init => Accounts
  BY SuiteAssumption
     DEF Init, Accounts, Ledger, Accounted, SetUpFirst, SerialAlone, Resting, Failed
<1>2. Inv /\ Accounts /\ [Next]_vars => Accounts'
  BY NextLedger, NextSetUp, NextSerial DEF Accounts
<1> QED BY <1>1, <1>2, SuiteInvariant, PTL DEF Spec

\* CleanupPubSubResources sweeps every subscription (cleanup.go), with the exceptions the
\* code has: what a sweep could not delete, what an adapter whose own uninstall failed
\* makes again, and what nothing lists because its deployment was reported as failed.
THEOREM SweepsSubscriptions == Spec => []SubscriptionsSwept
<1>1. Inv /\ Accounts => SubscriptionsSwept
  <2> SUFFICES ASSUME Inv, Accounts, Over, NEW s \in subs
               PROVE  s \in Failed("sweep") \union Failed("uninstall")
                              \union (Failed("deploy") \intersect Failed("unsubscribe"))
    BY DEF SubscriptionsSwept
  <2>1. \A p \in Procs : pc[p] = "exited" /\ run[p].spec = None
    BY DEF Inv, Placed, SweptLast, Resting1, Over
  <2>2. s \in Specs /\ s # None
    BY SuiteAssumption DEF Inv, TypeOK
  <2>3. Accounted(s)
    BY <2>1, <2>2 DEF Accounts, Ledger, Running
  <2> QED BY <2>1, <2>3 DEF Accounted
<1> QED BY <1>1, LedgerInvariant, PTL

\* An adapter at work whose uninstall did not fail is that of a spec that runs.
LEMMA IntrudersRun ==
  ASSUME Inv, Accounts, NEW p \in Procs, NEW a \in Intruders(p)
  PROVE  a \in Deployers /\ \E q \in Procs : q # p /\ run[q].spec = a
<1>1. a \in releases /\ a # run[p].spec /\ a \notin Failed("uninstall")
  BY DEF Intruders
<1>2. a \in Deployers /\ a \in Specs
  BY <1>1, SuiteAssumption DEF Inv, TypeOK
<1>3. PICK q \in Procs : run[q].spec = a
  BY <1>1, <1>2 DEF Accounts, Ledger, Accounted, Running
<1> QED BY <1>1, <1>2, <1>3

\* If every spec that deploys an adapter is marked Serial but those in Unmarked, the
\* adapters of these alone meet bodies of other specs, and none of a Serial one: for any
\* number of processes, any retries and failures (docs/development.md, Serial specs).
THEOREM DeployersAreIsolated ==
  ASSUME Deployers \subseteq Serial \union Unmarked
  PROVE  Spec => []DeployersIsolated
<1>1. Inv /\ Accounts => DeployersIsolated
  <2>1. ASSUME Inv, Accounts, NEW p \in Procs, AtStage(p, "body"), NEW a \in Intruders(p)
        PROVE  a \notin Serial /\ run[p].spec \notin Serial
    <3>1. PICK q \in Procs : q # p /\ run[q].spec = a
      BY <2>1, IntrudersRun
    <3>2. a # None
      BY <2>1, IntrudersRun, SuiteAssumption
    <3>3. pc[p] = "specs" /\ pc[q] = "specs"
      BY <2>1, <3>1, <3>2 DEF AtStage, Inv, Placed, Resting1
    <3>4. \A r \in Procs : run[r].spec \in Serial => r = 1 /\ OthersExited
      BY <2>1 DEF Accounts, SerialAlone
    <3> QED BY <3>1, <3>3, <3>4 DEF OthersExited
  <2>2. ASSUME Inv, Accounts, NEW p \in Procs, NEW a \in Intruders(p)
        PROVE  a \in Deployers
    BY <2>2, IntrudersRun
  <2> QED BY <2>1, <2>2 DEF DeployersIsolated
<1> QED BY <1>1, LedgerInvariant, PTL

------------------------------------------------------------------------------
(* The end of the run                                                      *)

\* How far every process is from its exit, and the sweep from its end, are ranks.
AreRanks ==
  /\ Cardinality(todo) \in Nat /\ Cardinality(toUninstall) \in Nat
  /\ \A p \in Procs : Ahead(p) \in Nat /\ LeftOfSpec(run[p]) \in Nat

LEMMA Ranked == TypeOK => AreRanks
<1> SUFFICES ASSUME TypeOK PROVE AreRanks
  OBVIOUS
<1>1. IsFiniteSet(todo) /\ IsFiniteSet(toUninstall)
  BY SuiteAssumption, FS_Subset DEF TypeOK
<1>2. Cardinality(todo) \in Nat /\ Cardinality(toUninstall) \in Nat
  BY <1>1, FS_CardinalityType
<1>3. ASSUME NEW p \in Procs PROVE Ahead(p) \in Nat /\ LeftOfSpec(run[p]) \in Nat
  <2>1. run[p].attempt \in 1..FlakeAttempts
    BY DEF TypeOK
  <2>2. 5 * (FlakeAttempts - run[p].attempt) \in Nat
    BY <2>1, SuiteAssumption
  <2> QED BY <2>2 DEF Ahead, LeftOfSpec
<1> QED BY <1>2, <1>3 DEF AreRanks

LEMMA RankedNext == TypeOK' => AreRanks'
BY Ranked, PTL

\* Taking away any of its members leaves less of a finite set.
LEMMA OneLess ==
  ASSUME NEW S, IsFiniteSet(S), NEW x \in S
  PROVE  Cardinality(S \ {x}) \in Nat /\ Cardinality(S \ {x}) < Cardinality(S)
<1>1. Cardinality(S) \in Nat /\ Cardinality(S \ {x}) = Cardinality(S) - 1
  BY FS_CardinalityType, FS_RemoveElement
<1>2. Cardinality(S \ {x}) \in Nat
  BY FS_Subset, FS_CardinalityType
<1> QED BY <1>1, <1>2

\* A process is nearer to its exit if it has less before it, or less left of its spec.
LEMMA Nearer ==
  ASSUME TypeOK, TypeOK', NEW p \in Procs,
         \/ Cardinality(todo)' + Ahead(p)' < Cardinality(todo) + Ahead(p)
         \/ /\ todo' = todo /\ Ahead(p)' = Ahead(p)
            /\ LeftOfSpec(run[p])' < LeftOfSpec(run[p])
  PROVE  Below(ToExit(p)', ToExit(p))
<1>1. /\ Cardinality(todo)' + Ahead(p)' \in Nat /\ LeftOfSpec(run[p])' \in Nat
      /\ todo' = todo => Cardinality(todo)' = Cardinality(todo)
  BY RankedNext DEF AreRanks
<1> QED BY <1>1 DEF Below, ToExit

\* What one process does at the specs brings it nearer to its exit.
LEMMA SpecsLower ==
  ASSUME TypeOK, TypeOK', NEW p \in Procs, RunSpec(p), ~Fetch(p), ~NoMoreSpecs(p)
  PROVE  Below(ToExit(p)', ToExit(p))
<1>1. todo' = todo /\ pc' = pc /\ AtStage(p, run[p].stage)
  BY DEF RunSpec, Deploy, DeployFails, Body, Uninstall, UninstallFails, Unsubscribe,
         UnsubscribeFails, EndAttempt, AtStage
<1>2. Ahead(p)' = Ahead(p)
  BY <1>1 DEF Ahead
<1>3. /\ run[p].attempt \in 1..FlakeAttempts /\ run[p].stage \in Stages /\ run[p].spec # None
      /\ run \in [Procs -> [spec : Specs \union {None}, stage : Stages,
                            attempt : 1..FlakeAttempts, failed : BOOLEAN]]
  BY <1>1 DEF TypeOK, AtStage
<1>4. LeftOfSpec(run'[p]) < LeftOfSpec(run[p])
  <2>1. CASE Deploy(p) \/ DeployFails(p) \/ Uninstall(p) \/ UninstallFails(p)
             \/ Unsubscribe(p) \/ UnsubscribeFails(p)
    <3>1. /\ run'[p].spec = run[p].spec /\ run'[p].attempt = run[p].attempt
          /\ \/ run[p].stage = "deploy" /\ run'[p].stage \in {"body", "uninstall"}
             \/ run[p].stage = "uninstall" /\ run'[p].stage = "unsubscribe"
             \/ run[p].stage = "unsubscribe" /\ run'[p].stage = "end"
      BY <1>3, <2>1 DEF AtStage, Deploy, DeployFails, Uninstall, UninstallFails,
                        Unsubscribe, UnsubscribeFails
    <3> QED BY <1>3, <3>1, SuiteAssumption DEF LeftOfSpec
  <2>2. CASE Body(p)
    <3>1. /\ run'[p].spec = run[p].spec /\ run'[p].attempt = run[p].attempt
          /\ run[p].stage = "body" /\ run'[p].stage \in {"uninstall", "end"}
      BY <1>3, <2>2 DEF AtStage, Body
    <3> QED BY <1>3, <3>1, SuiteAssumption DEF LeftOfSpec
  <2>3. CASE EndAttempt(p)
    <3>1. run[p].stage = "end" /\ LeftOfSpec(run[p]) = 5 * (FlakeAttempts - run[p].attempt) + 1
      BY <1>3, <2>3 DEF EndAttempt, AtStage, LeftOfSpec
    <3>2. CASE Retried(p)
      <4>1. run'[p] = [Resting EXCEPT !.spec = run[p].spec, !.stage = FirstStage(run[p].spec),
                                      !.attempt = run[p].attempt + 1]
        BY <1>3, <2>3, <3>2 DEF EndAttempt
      <4>2. /\ run'[p].spec = run[p].spec /\ run'[p].stage \in {"deploy", "body"}
            /\ run'[p].attempt = run[p].attempt + 1
        BY <4>1 DEF Resting, FirstStage
      <4>3. /\ LeftOfSpec(run'[p]) \in Int
            /\ LeftOfSpec(run'[p]) <= 5 * (FlakeAttempts - (run[p].attempt + 1)) + 5
        BY <1>3, <4>2, SuiteAssumption DEF LeftOfSpec
      <4> QED BY <1>3, <3>1, <4>3, SuiteAssumption
    <3>3. CASE ~Retried(p)
      <4>1. run'[p].spec = None
        BY <1>3, <2>3, <3>3 DEF EndAttempt, Resting
      <4> QED BY <1>3, <3>1, <4>1, SuiteAssumption DEF LeftOfSpec
    <3> QED BY <3>2, <3>3
  <2> QED BY <2>1, <2>2, <2>3 DEF RunSpec
<1> QED BY <1>1, <1>2, <1>4, Nearer

\* A step of a process changes what is its own, which brings it nearer to its exit, or
\* takes a spec from todo, which brings all of them nearer.
LEMMA ProcessNearer ==
  ASSUME TypeOK, TypeOK', NEW p \in Procs, Process(p), NEW q \in Procs
  PROVE  \/ UNCHANGED <<pc[q], ready[q], listed[q], run[q], todo>>
         \/ Below(ToExit(q)', ToExit(q))
<1>1. CASE Fetch(p)
  <2>1. PICK s \in todo : todo' = todo \ {s}
    BY <1>1 DEF Fetch
  <2>2. IsFiniteSet(todo)
    BY SuiteAssumption, FS_Subset DEF TypeOK
  <2>3. Cardinality(todo') < Cardinality(todo) /\ Cardinality(todo') \in Nat
    BY <2>1, <2>2, OneLess
  <2>4. Ahead(q)' = Ahead(q)
    BY <1>1 DEF Fetch, Ahead
  <2>5. Cardinality(todo)' + Ahead(q)' < Cardinality(todo) + Ahead(q)
    BY <2>3, <2>4, Ranked DEF AreRanks
  <2> QED BY <2>5, Nearer
<1>2. CASE q # p /\ ~Fetch(p)
  <2>1. /\ pc \in [Procs -> {"start", "setup", "specs", "sweep", "exited"}]
        /\ ready \in [Procs -> BOOLEAN] /\ listed \in [Procs -> SUBSET Deployers]
        /\ DOMAIN run = Procs
    BY DEF TypeOK
  <2>2. CASE SetUp(p) \/ SetUpFails(p) \/ NoMoreSpecs(p) \/ SweepPubSub(p) \/ SweepPubSubSkipped(p)
    BY <1>2, <2>1, <2>2 DEF SetUp, SetUpFails, NoMoreSpecs, SweepPubSub, SweepPubSubSkipped
  <2>3. CASE Body(p)
    <3>1. PICK stage, fails :
            run' = [run EXCEPT ![p].stage = stage, ![p].failed = fails]
      BY <2>3 DEF Body
    <3> QED BY <1>2, <2>1, <2>3, <3>1 DEF Body
  <2>4. CASE Deploy(p) \/ DeployFails(p) \/ Uninstall(p) \/ UninstallFails(p)
             \/ Unsubscribe(p) \/ UnsubscribeFails(p) \/ EndAttempt(p)
    BY <1>2, <2>1, <2>4 DEF Deploy, DeployFails, Uninstall, UninstallFails, Unsubscribe,
                            UnsubscribeFails, EndAttempt
  <2> QED BY <1>2, <2>2, <2>3, <2>4 DEF Process, RunSpec
<1>3. CASE q = p /\ ~Fetch(p)
  <2>1. CASE SetUp(p) \/ SetUpFails(p) \/ NoMoreSpecs(p) \/ SweepPubSub(p) \/ SweepPubSubSkipped(p)
    <3>1. /\ todo' = todo
          /\ \/ pc[p] = "setup" /\ pc'[p] \in {"specs", "sweep"}
             \/ pc[p] = "specs" /\ pc'[p] = "sweep"
             \/ pc[p] = "sweep" /\ pc'[p] = "exited"
      BY <2>1 DEF SetUp, SetUpFails, NoMoreSpecs, SweepPubSub, SweepPubSubSkipped, TypeOK
    <3>2. Ahead(p)' < Ahead(p) /\ Ahead(p) \in Nat /\ Ahead(p)' \in Nat
      BY <3>1 DEF Ahead
    <3>3. Cardinality(todo)' = Cardinality(todo) /\ Cardinality(todo) \in Nat
      BY <3>1, Ranked DEF AreRanks
    <3> QED BY <1>3, <3>2, <3>3, Nearer
  <2>2. CASE RunSpec(p) /\ ~NoMoreSpecs(p)
    BY <1>3, <2>2, SpecsLower
  <2> QED BY <1>3, <2>1, <2>2 DEF Process
<1> QED BY <1>1, <1>2, <1>3

\* The startup check sends every process on its way.
LEMMA GuardNearer ==
  ASSUME TypeOK, TypeOK', Guard, NEW p \in Procs
  PROVE  Below(ToExit(p)', ToExit(p))
<1>1. todo' = todo /\ pc[p] = "start" /\ pc'[p] \in {"setup", "sweep"}
  BY DEF Guard, GuardPasses, GuardFails
<1>2. Ahead(p)' < Ahead(p) /\ Ahead(p) \in Nat /\ Ahead(p)' \in Nat
  BY <1>1 DEF Ahead
<1>3. Cardinality(todo)' = Cardinality(todo) /\ Cardinality(todo) \in Nat
  BY <1>1, Ranked DEF AreRanks
<1> QED BY <1>2, <1>3, Nearer

\* Every step of the Kubernetes sweep brings it nearer to its end.
LEMMA SweepLower ==
  ASSUME TypeOK, TypeOK', SweepKube
  PROVE  Below(ToSwept', ToSwept)
<1> USE DEF Below, ToSwept
<1>0. /\ Cardinality(toUninstall) \in Nat /\ Cardinality(toUninstall') \in Nat
      /\ left \in Nat /\ left' \in Nat
  <2>1. left \in Nat /\ left' \in Nat
    BY SuiteAssumption DEF TypeOK
  <2> QED BY <2>1, Ranked, RankedNext DEF AreRanks
<1>1. CASE KubeStart \/ KubeSkipped
  BY <1>1 DEF KubeStart, KubeSkipped, MaySweep
<1>2. CASE ListReleases \/ ListFails
  BY <1>0, <1>2 DEF ListReleases, ListFails
<1>3. CASE UninstallRelease \/ UninstallReleaseFails
  <2>1. PICK a \in toUninstall : toUninstall' = toUninstall \ {a}
    BY <1>3 DEF UninstallRelease, UninstallReleaseFails
  <2>2. kube = "uninstall" /\ kube' = kube
    BY <1>3 DEF UninstallRelease, UninstallReleaseFails
  <2>3. IsFiniteSet(toUninstall)
    BY SuiteAssumption, FS_Subset DEF TypeOK
  <2>4. Cardinality(toUninstall') < Cardinality(toUninstall)
    BY <2>1, <2>3, OneLess
  <2> QED BY <1>0, <2>2, <2>4
<1>4. CASE Uninstalled
  BY <1>0, <1>4 DEF Uninstalled
<1>5. CASE SweepLabeled
  BY <1>0, <1>5 DEF SweepLabeled
<1>6. CASE PollSomeLeft
  BY <1>0, <1>6 DEF PollSomeLeft
<1>7. CASE PollNoneLeft \/ PollDeadline
  BY <1>0, <1>7 DEF PollNoneLeft, PollDeadline
<1> QED BY <1>1, <1>2, <1>3, <1>4, <1>5, <1>6, <1>7 DEF SweepKube

\* A run of the suite (suite.go, cleanup.go) runs out of work: whatever a process or the
\* Kubernetes sweep does, it is nearer to its end than before, and nobody else is further
\* from theirs.
THEOREM RunsOut == Spec => WorkRunsOut
<1> DEFINE Down ==
      /\ \A p \in Procs : \/ UNCHANGED <<pc[p], ready[p], listed[p], run[p], todo>>
                          \/ Below(ToExit(p)', ToExit(p))
      /\ UNCHANGED sweep \/ Below(ToSwept', ToSwept)
<1>1. TypeOK /\ TypeOK' /\ [Next]_vars => Down
  <2> SUFFICES ASSUME TypeOK, TypeOK', [Next]_vars PROVE Down
    OBVIOUS
  <2>1. CASE \E p \in Procs : Process(p)
    <3>1. PICK p \in Procs : Process(p)
      BY <2>1
    <3>2. UNCHANGED sweep
      BY <3>1 DEF Process, RunSpec, SetUp, SetUpFails, Fetch, Deploy, DeployFails, Body,
                  Uninstall, UninstallFails, Unsubscribe, UnsubscribeFails, EndAttempt,
                  NoMoreSpecs, SweepPubSub, SweepPubSubSkipped
    <3> QED BY <3>1, <3>2, ProcessNearer
  <2>2. CASE Guard
    <3>1. UNCHANGED sweep
      BY <2>2 DEF Guard, GuardPasses, GuardFails
    <3> QED BY <2>2, <3>1, GuardNearer
  <2>3. CASE SweepKube
    <3>1. UNCHANGED procs
      BY <2>3 DEF SweepKube, KubeStart, KubeSkipped, ListReleases, ListFails, UninstallRelease,
                  UninstallReleaseFails, Uninstalled, SweepLabeled, PollNoneLeft, PollSomeLeft,
                  PollDeadline
    <3> QED BY <2>3, <3>1, SweepLower DEF procs
  <2>4. CASE UNCHANGED vars \/ \E s \in Specs : Subscribe(s) \/ FinishDeletion(s)
    <3>1. UNCHANGED <<procs, sweep>>
      BY <2>4 DEF Subscribe, FinishDeletion, vars
    <3> QED BY <3>1 DEF procs
  <2> QED BY <2>1, <2>2, <2>3, <2>4 DEF Next, Idle
<1> QED BY <1>1, TypeCorrect, PTL DEF Spec, WorkRunsOut

------------------------------------------------------------------------------
(* The run implements SuitePromise                                         *)

\* A spec's state is that of the process that runs it, if any.
LEMMA StateKept ==
  ASSUME todo' = todo, \A q \in Procs : run'[q].spec = run[q].spec
  PROVE  UNCHANGED [s \in Specs |-> StateOf(s)]
<1>1. \A s : Running(s)' <=> Running(s)
  BY DEF Running
<1> QED BY <1>1 DEF StateOf

\* A step that begins and ends no spec, and neither gives nor takes what is a spec's own,
\* goes unnoticed.
LEMMA Stutters ==
  ASSUME todo' = todo, \A q \in Procs : run'[q].spec = run[q].spec,
         UNCHANGED <<releases, subs, leaked>>, (kube # "waiting")' = (kube # "waiting")
  PROVE  UNCHANGED Promise!vars
BY StateKept DEF Promise!vars

\* A spec runs when it has been taken from todo, and is over when its process let go.
LEMMA States ==
  ASSUME Inv
  PROVE  /\ Promise!In("running") = {s \in Specs : Running(s)}
         /\ Promise!In("waiting") = todo
         /\ Promise!In("over") = {s \in Specs : s \notin todo /\ ~Running(s)}
BY DEF Inv, TypeOK, Placed, Exclusive, Promise!In, StateOf, Running

\* A process that takes a spec begins it, alone with others like it if it is Serial.
LEMMA FetchBegins ==
  ASSUME Inv, SerialAlone, NEW p \in Procs, Fetch(p)
  PROVE  Promise!Next
<1> USE DEF world, sweep
<1>1. PICK s \in todo :
        /\ s \in Serial => p = 1 /\ todo \subseteq Serial /\ OthersExited
        /\ run' = [run EXCEPT ![p] = [Resting EXCEPT !.spec = s, !.stage = FirstStage(s)]]
        /\ todo' = todo \ {s}
  BY DEF Fetch
<1>2. /\ s \in Specs /\ s # None /\ pc[p] = "specs" /\ run[p].spec = None
      /\ run'[p].spec = s /\ \A q \in Procs : q # p => run'[q] = run[q]
      /\ UNCHANGED <<releases, subs, leaked, kube>>
  BY <1>1, SuiteAssumption DEF Fetch, Inv, TypeOK, Resting
<1>3. kube = "waiting"
  BY <1>2 DEF Inv, Placed, SweptLast
<1>4. {u \in Specs : Running(u)} \intersect Serial = {}
  <2> SUFFICES ASSUME NEW q \in Procs, run[q].spec \in Serial PROVE FALSE
    BY DEF Running
  <2>1. q = 1 /\ OthersExited
    BY DEF SerialAlone
  <2> QED BY <1>2, <2>1, SuiteAssumption DEF OthersExited
<1>5. s \in Serial => {u \in Specs : Running(u)} = {}
  <2> SUFFICES ASSUME s \in Serial, NEW q \in Procs, run[q].spec \in Specs PROVE FALSE
    BY DEF Running
  <2>1. run[q].spec = None
    BY <1>1, <1>2 DEF OthersExited, Inv, Placed, Resting1
  <2> QED BY <2>1, SuiteAssumption
<1>6. [u \in Specs |-> StateOf(u)]' = [[u \in Specs |-> StateOf(u)] EXCEPT ![s] = "running"]
  <2>1. Running(s)' /\ s \notin todo'
    BY <1>1, <1>2 DEF Running
  <2>2. ASSUME NEW u \in Specs, u # s PROVE StateOf(u)' = StateOf(u)
    <3>1. u # None
      BY SuiteAssumption
    <3>2. Running(u)' <=> Running(u)
      BY <1>2, <2>2, <3>1 DEF Running
    <3> QED BY <1>1, <2>2, <3>2 DEF StateOf
  <2>3. StateOf(s)' = "running"
    BY <2>1 DEF StateOf
  <2> QED BY <2>2, <2>3
<1>7. Promise!Begin(s)
  <2>1. StateOf(s) = "waiting"
    BY DEF StateOf
  <2>2. (kube # "waiting")' = (kube # "waiting")
    BY <1>2
  <2> QED BY <1>1, <1>2, <1>3, <1>4, <1>5, <1>6, <2>1, <2>2, States
          DEF Promise!Begin, Promise!world
<1> QED BY <1>2, <1>7 DEF Promise!Next

\* A stage of a spec works on what is the spec's own.
LEMMA StageWorks ==
  ASSUME Inv, NEW p \in Procs,
         Deploy(p) \/ DeployFails(p) \/ Body(p) \/ Uninstall(p) \/ UninstallFails(p)
           \/ Unsubscribe(p) \/ UnsubscribeFails(p)
  PROVE  Promise!Next
<1>0. PICK t : t = run[p].spec
  OBVIOUS
<1> USE DEF world, sweep, AtStage
<1>1. t \in Specs /\ UNCHANGED <<todo, kube>>
  BY <1>0 DEF Inv, TypeOK, Deploy, DeployFails, Body, Uninstall, UninstallFails, Unsubscribe,
         UnsubscribeFails
<1>2. \A q \in Procs : run'[q].spec = run[q].spec
  <2>1. CASE Body(p)
    <3>1. PICK stage, fails :
            run' = [run EXCEPT ![p].stage = stage, ![p].failed = fails]
      BY <2>1 DEF Body
    <3> QED BY <3>1 DEF Inv, TypeOK
  <2>2. CASE Deploy(p) \/ Uninstall(p) \/ UninstallFails(p) \/ Unsubscribe(p)
             \/ UnsubscribeFails(p)
    <3>1. PICK stage : run' = [run EXCEPT ![p].stage = stage]
      BY <2>2 DEF Deploy, Uninstall, UninstallFails, Unsubscribe, UnsubscribeFails
    <3> QED BY <3>1 DEF Inv, TypeOK
  <2>3. CASE DeployFails(p)
    BY <2>3 DEF Inv, TypeOK, DeployFails
  <2> QED BY <2>1, <2>2, <2>3
<1>3. /\ releases' \in {releases \union {t}, releases \ {t}}
      /\ subs' \in {subs, subs \ {t}}
      /\ leaked' \in {leaked, leaked \union {t}}
  <2>1. releases \in {releases \union {t}, releases \ {t}}
    BY <1>0
  <2>2. leaked' \in {leaked, leaked \union {t}}
    BY <1>0 DEF Deploy, DeployFails, Body, Uninstall, UninstallFails, Unsubscribe,
           UnsubscribeFails
  <2> QED BY <1>0, <2>1, <2>2
          DEF Deploy, DeployFails, Body, Uninstall, UninstallFails, Unsubscribe,
              UnsubscribeFails
<1>4. StateOf(t) = "running"
  BY <1>0 DEF StateOf, Running, Inv, Placed, Exclusive
<1>5. Promise!Work(t)
  <2>1. (kube # "waiting")' = (kube # "waiting")
    BY <1>1
  <2> QED BY <1>1, <1>2, <1>3, <1>4, <2>1, StateKept DEF Promise!Work
<1> QED BY <1>1, <1>5 DEF Promise!Next

\* A spec that ends is over, unless it is tried again.
LEMMA EndEnds ==
  ASSUME Inv, NEW p \in Procs, EndAttempt(p)
  PROVE  Promise!Next \/ UNCHANGED Promise!vars
<1>0. PICK t : t = run[p].spec
  OBVIOUS
<1> USE DEF world, sweep, AtStage
<1>1. /\ t \in Specs /\ t \notin todo /\ UNCHANGED <<releases, subs, leaked, todo, kube>>
      /\ \A q \in Procs : q # p => run'[q] = run[q] /\ run[q].spec # t
  BY <1>0 DEF EndAttempt, Inv, TypeOK, Placed, Exclusive
<1>2. run'[p].spec \in {t, None}
  BY <1>0 DEF EndAttempt, Inv, TypeOK, Resting
<1>3. CASE run'[p].spec = t
  BY <1>0, <1>1, <1>3, Stutters
<1>4. CASE run'[p].spec = None
  <2>1. ~Running(t)'
    BY <1>1, <1>4, SuiteAssumption DEF Running
  <2>2. ASSUME NEW u \in Specs, u # t PROVE StateOf(u)' = StateOf(u)
    <3>1. u # None
      BY SuiteAssumption
    <3>2. Running(u)' <=> Running(u)
      BY <1>0, <1>1, <1>4, <2>2, <3>1 DEF Running
    <3> QED BY <1>1, <3>2 DEF StateOf
  <2>3. StateOf(t) = "running"
    BY <1>0, <1>1 DEF StateOf, Running
  <2>4. StateOf(t)' = "over"
    BY <1>1, <2>1 DEF StateOf
  <2>5. [u \in Specs |-> StateOf(u)]' = [[u \in Specs |-> StateOf(u)] EXCEPT ![t] = "over"]
    BY <2>2, <2>4
  <2>6. (kube # "waiting")' = (kube # "waiting")
    BY <1>1
  <2>7. Promise!End(t)
    BY <1>1, <2>3, <2>5, <2>6 DEF Promise!End, Promise!world
  <2> QED BY <1>1, <2>7 DEF Promise!Next
<1> QED BY <1>2, <1>3, <1>4

\* A process sweeps the subscriptions of specs that are over.
LEMMA PubSubSwept ==
  ASSUME Inv, NEW p \in Procs, SweepPubSub(p)
  PROVE  Promise!Next
<1> USE DEF world, sweep
<1>1. /\ subs' \subseteq subs /\ subs \ subs' \subseteq listed[p] /\ pc[p] = "sweep"
      /\ UNCHANGED <<releases, leaked, run, todo, kube>>
  BY DEF SweepPubSub
<1>2. ASSUME NEW s \in listed[p] PROVE s \in Specs /\ s \notin todo /\ ~Running(s)
  <2>1. s \in Specs /\ s # None
    BY SuiteAssumption DEF Inv, TypeOK
  <2>2. run[p].spec = None
    BY <1>1 DEF Inv, Placed, Resting1
  <2> QED BY <2>1, <2>2 DEF Inv, Placed, OwnList, Running
<1>3. subs \ subs' \subseteq Promise!In("over")
  BY <1>1, <1>2, States
<1>4. (kube # "waiting")' = (kube # "waiting")
  BY <1>1
<1>5. Promise!SweepSubscriptions
  BY <1>1, <1>3, <1>4, StateKept DEF Promise!SweepSubscriptions
<1> QED BY <1>5 DEF Promise!Next

\* What a process does is a step of one spec, or a sweep of subscriptions.
LEMMA ProcessKeepsPromise ==
  ASSUME Inv, SerialAlone, NEW p \in Procs, Process(p)
  PROVE  Promise!Next \/ UNCHANGED Promise!vars
<1>1. CASE SetUp(p) \/ SetUpFails(p) \/ NoMoreSpecs(p) \/ SweepPubSubSkipped(p)
  <2>1. UNCHANGED <<run, todo, releases, subs, leaked, kube>>
    BY <1>1 DEF SetUp, SetUpFails, NoMoreSpecs, SweepPubSubSkipped, world, sweep
  <2>2. (kube # "waiting")' = (kube # "waiting")
    BY <2>1
  <2> QED BY <2>1, <2>2, Stutters
<1> QED BY <1>1, FetchBegins, StageWorks, EndEnds, PubSubSwept DEF Process, RunSpec

\* The Kubernetes sweep begins when no spec runs, and takes away only what it may.
LEMMA SweepKeepsPromise ==
  ASSUME Inv, SweepKube
  PROVE  Promise!Next \/ UNCHANGED Promise!vars
<1> USE DEF world, procs
<1>1. UNCHANGED <<run, todo, subs>> /\ UNCHANGED [s \in Specs |-> StateOf(s)]
  <2>1. UNCHANGED <<run, todo, subs>>
    BY DEF SweepKube, KubeStart, KubeSkipped, ListReleases, ListFails, UninstallRelease,
           UninstallReleaseFails, Uninstalled, SweepLabeled, PollNoneLeft, PollSomeLeft,
           PollDeadline
  <2> QED BY <2>1, StateKept
<1>2. CASE KubeStart \/ KubeSkipped
  <2>1. \A q \in Procs : run[q].spec = None
    BY <1>2 DEF KubeStart, KubeSkipped, MaySweep, Inv, Placed, Resting1
  <2>2. Promise!In("running") = {}
    BY <2>1, States, SuiteAssumption DEF Running
  <2>3. (kube # "waiting") = FALSE /\ (kube # "waiting")' = TRUE
        /\ UNCHANGED <<releases, leaked>>
    BY <1>2 DEF KubeStart, KubeSkipped, MaySweep
  <2>4. Promise!StartSweep
    BY <1>1, <2>2, <2>3 DEF Promise!StartSweep, Promise!world
  <2> QED BY <2>4 DEF Promise!Next
<1>3. CASE UninstallRelease \/ UninstallReleaseFails \/ SweepLabeled
  <2>1. /\ kube # "waiting" /\ (kube # "waiting")' = (kube # "waiting")
        /\ releases' \subseteq releases /\ leaked' \subseteq leaked
    BY <1>3 DEF UninstallRelease, UninstallReleaseFails, SweepLabeled
  <2>2. Promise!Sweep
    BY <1>1, <2>1 DEF Promise!Sweep
  <2> QED BY <2>2 DEF Promise!Next
<1>4. CASE ListReleases \/ ListFails \/ Uninstalled \/ PollNoneLeft \/ PollSomeLeft
           \/ PollDeadline
  <2>1. UNCHANGED <<releases, leaked>> /\ (kube # "waiting")' = (kube # "waiting")
    BY <1>4 DEF ListReleases, ListFails, Uninstalled, PollNoneLeft, PollSomeLeft,
                PollDeadline
  <2> QED BY <1>1, <2>1, Stutters
<1> QED BY <1>2, <1>3, <1>4 DEF SweepKube

\* The run keeps what it promises its specs about the deployment they share: each begins
\* at most once, a Serial one alone, only a spec takes away what is its own while it runs,
\* and the sweeps follow behind (suite.go, cleanup.go), for any processes and any failures.
THEOREM RunKeepsPromise == Spec => KeepsPromise
<1>1. Init => Promise!Init
  <2> SUFFICES ASSUME Init PROVE Promise!Init
    OBVIOUS
  <2>1. \A s \in Specs : StateOf(s) = "waiting"
    BY DEF Init, StateOf
  <2> QED BY <2>1 DEF Init, Promise!Init
<1>2. Inv /\ SerialAlone /\ [Next]_vars => [Promise!Next]_(Promise!vars)
  <2> SUFFICES ASSUME Inv, SerialAlone, [Next]_vars
               PROVE  Promise!Next \/ UNCHANGED Promise!vars
    OBVIOUS
  <2>1. CASE \E p \in Procs : Process(p)
    BY <2>1, ProcessKeepsPromise
  <2>2. CASE SweepKube
    BY <2>2, SweepKeepsPromise
  <2>3. CASE \E s \in Specs : Subscribe(s)
    <3>1. PICK s \in Specs : Subscribe(s)
      BY <2>3
    <3>2. /\ s \in releases /\ subs' = subs \union {s}
          /\ UNCHANGED <<releases, leaked, run, todo>>
          /\ (kube # "waiting")' = (kube # "waiting")
      BY <3>1 DEF Subscribe, procs, sweep
    <3>3. Promise!Subscribe(s)
      BY <3>2, StateKept DEF Promise!Subscribe
    <3> QED BY <3>3 DEF Promise!Next
  <2>4. CASE Guard \/ UNCHANGED vars \/ \E s \in Specs : FinishDeletion(s)
    <3>1. /\ UNCHANGED <<run, todo, releases, subs, leaked>>
          /\ (kube # "waiting")' = (kube # "waiting")
      BY <2>4 DEF Guard, GuardPasses, GuardFails, FinishDeletion, vars, world, procs, sweep
    <3> QED BY <3>1, Stutters
  <2> QED BY <2>1, <2>2, <2>3, <2>4 DEF Next, Idle
<1>3. Inv /\ Accounts => SerialAlone
  BY DEF Accounts
<1> QED BY <1>1, <1>2, <1>3, LedgerInvariant, PTL DEF Spec, KeepsPromise, Promise!Spec
===============================================================================
