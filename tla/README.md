# HyperFleet E2E: a formal model of the test framework

`hyperfleet-e2e` is a black-box end-to-end suite: a Go program built on Ginkgo that
drives a HyperFleet deployment through its REST API, deploys temporary adapters with
Helm, takes parts of the deployment down on purpose and puts everything back. Its own
correctness problem is not the assertions. It is the *environment*: every spec runs
against a deployment that other specs, other processes and later runs share, so the
framework must hand that deployment back whatever fails, and in whatever order. That is
what most of these modules are about; the others follow a run from its settings to its
first spec, a request from its token to the API, and one spec from its create to its end.

Everything is translated from the source. The HyperFleet API, its adapters, the Sentinel, the
token issuer, viper and Ginkgo itself are not part of the repository; what the models say
of them is what the source relies on, and `PROJECT.json` marks those definitions external.

## Inventory

| Component (source) | State | Operations | Hard behaviour | What makes it correct |
|---|---|---|---|---|
| Resource cleanup (`pkg/helper/resource.go`) | descriptor, page of children, first child error, deadline | `CleanupTestResource`, `cleanupChildren`, `pollHardDeletion`, `DeferCleanup` | races with adapters, late creates and deletes, lost answers, paging, 404/409 policy, deadline between requests | a nil verdict is honest; a child failure is never swallowed; it ends |
| Descriptor table (`pkg/config/descriptor.go`, `pkg/descriptor`) | one row per kind | `EntityDescriptors`, `NewCatalog`, `MustGet` | overrides from file and environment; rows that contradict each other (parents, cycles, child kinds, policies), checked in a random order | exactly the tables that can be routed, waited and cleaned up by are accepted |
| Spec teardown (`e2e/**`, `DeferCleanup`, `AfterEach`) | what the spec changed, what it registered | the body, one step at a time; cleanups, last registered first | any step fails halfway; cleanup order against the outage the spec made | environment restored; no wait for the impossible; adapter uninstalled after the API stops requiring it |
| API required adapters (`pkg/helper/api_config.go`) | Helm values of the API release | read, patch, upgrade, wait, restore with retry | one deadline for read and upgrade, helm killed halfway, retry over what failed attempts left, baseline left by a crashed run | nil means served; a successful restore leaves the baseline; other kinds untouched |
| Suite lifecycle (`pkg/e2e/suite.go`, `pkg/helper/cleanup.go`) | per-process deployment list, run id | `SynchronizedBeforeSuite`, per-process Pub/Sub sweep, process 1's Kubernetes sweep | parallel processes, Serial specs, one deadline for all uninstalls, sweep order | nothing of the run survives; nothing of others is swept |
| Adapter deployment (`pkg/helper/adapter.go`, `helm/`) | Helm release, subscription, list entry | `DeployAdapter`, `UninstallAdapter`, Pub/Sub cleanup | install that fails or times out, subscription made anew by a running adapter | a failed deploy is still swept |
| Identities and tokens (`pkg/identity`, `pkg/client/client.go`, `pkg/helper/human.go`) | a cached token per human, behind a lock | mint, reuse, refuse | goroutines that share the cache, a slow or failing mint ahead of others, expiry while a request is in flight | a token expires in a request only for the reasons named; a failed mint frees the lock; the wait is bounded |
| Configuration (`pkg/config/config.go`, `cmd/hyperfleet-e2e`) | settings in six layers, the resolved `Config` | read the file, bind flags and environment, unmarshal, defaults, `Validate` | three mechanisms look settings up; dry runs and `AUTH_MODE=NONE` skip checks | one order of precedence; what reaches the first spec fits together |
| Drift guard (`pkg/helper/api_entity_config.go`) | none | compare the table with the deployed API | duplicates and blanks that hide a difference | it reports drift exactly when there is some, before any spec |
| Lifecycle specs (`e2e/capability/lifecycle.go`, `pkg/helper/pollers.go`, `matchers.go`, `k8s.go`) | the step, the expected generation | create, wait, read again, patch, wait, delete, wait | adapters report between a wait and the call behind it, stale reports of an older generation, a resource that goes with its last report | no stale evidence passes, nothing is left, no false alarm |
| Chart cloning (`pkg/helper/git.go`) | a temporary directory | `CloneHelmChart` | failure halfway | directory removed |
| API client, Kubernetes client, validation | none | one request, one predicate | a scale that returns before pods are gone | - |
| Labels, performance specs, thresholds, shell scripts | none | - | - | not modelled, see below |

Interactions: a spec calls `helper.New()` and works through the API client, the
Kubernetes client and Helm; it registers cleanups with Ginkgo, which calls them after
the body. Processes share nothing in memory, only the deployment. The suite hooks call
the sweeps once per process, then once for all.

## Modules

| Module | Models | Correspondence |
|---|---|---|
| `Ranks` | none: the order of the pairs that say how far a component is from its end | used by `WorkRunsOut` in four modules |
| `EntityTable` | `entityDescriptors` | one record per row, same field names; a `CleanupPolicy` is built from the set of its true flags. Timeouts in minutes, latency thresholds left out |
| `CleanupPromise` | abstract: what a cleanup promises its spec | `phase` of the resource, one `verdict`; a clean verdict only over an acceptable phase |
| `ResourceCleanup` | `CleanupTestResource` against the API | `pc` is the place in the function, `todo` the rest of the listed page, `failed` stands for `deleteErr`, `timeLeft` for the deadline; each request is one action with its answers (404, 409, lost) |
| `MCResourceCleanup` | instance | the rows of `EntityTable` |
| `ResourceCleanupProofs` | theorems | see *Proofs* |
| `SpecTeardown` | one spec's life: body, failure, AfterEach, DeferCleanups | `script.body` is the list of calls, `Expect`s and registrations, `pending` Ginkgo's cleanup stack, `marks` how the environment differs from the one the suite was given |
| `SpecScripts` | eleven specs of `e2e/` | each definition lists the spec's steps in source order |
| `MCSpecTeardown` | instance | the groups of specs the runs check |
| `SpecTeardownProofs` | theorems | see *Proofs* |
| `AdaptersPromise` | abstract: what changes and restores of the required adapters promise the specs | `held` is, per kind, every list the API may go by (recorded, rolled out or still answering), `task` the kind and list of the job that runs; only the task's list is ever added, to its own kind |
| `RequiredAdapters` | `UpgradeAPIRequiredAdapters`, `RestoreAPIRequiredAdaptersWithRetry` and helm's view of the API release | `pc` is the place in the upgrade, `attempt` the restore's loop, `spent` what the read took of the shared deadline, `patched` the values file; `revision`, `applied` and `serving` are what Helm records, what is rolled out and what answers |
| `MCRequiredAdapters` | instance | two kinds, one after the other |
| `RequiredAdaptersProofs` | theorems | see *Proofs* |
| `SuiteRun` | a run of the suite by several processes (`suite.go`, `cleanup.go`, `helm.go`, `DeployAdapter`, `UninstallAdapter`) | `pc`, `ready`, `listed` are a process's place, whether it has an `AdapterDeploymentList`, and that list; `run` is the spec it runs; `kube`, `left`, `toUninstall` are `CleanupKubeResources` |
| `SuitePromise` | abstract: what a run promises its specs about the deployment they share | `state` of each spec (*waiting*, *running*, *over*), what it has in the deployment, and whether the Kubernetes sweep has begun; no processes, no failures |
| `SuiteRunProofs` | theorems | see *Proofs* |
| `MCSuiteRun` | instance | a parallel and a Serial spec with an adapter, a Serial one without, and two parallel ones for the violation |
| `EntityCatalog` | `NewCatalog`, `structuralEntityDiffs`, `apiEntityDiffs` as operators | rows are the records of `EntityTable`; `Usable` and `Serves` are the reference definitions they are checked against |
| `EntityCatalogProofs` | theorems | see *Proofs* |
| `Startup` | `run`, `LoadConfig`, `Load`, `loadEntityCatalog`, `applyDefaults`, `Validate`, the suite's first setup | one action per step of the command; `loaded` is the set of layers read so far, `cfg` the `Config`, `rows` the catalog, `refusal` the reason of the error that ended it |
| `MCStartup` | instance | 7,000 scenarios: settings, tables, deployments; two more for the violation |
| `StartupProofs` | theorems | see *Proofs* |
| `TokenCache` | `authTransport.RoundTrip` over one human's `ReuseTokenSourceWithExpiry` and `MockIssuer.mint` | `queue` is the source's lock with its waiters, `mint` the holder's call of the issuer, `cached` its token; `age` is how long a request has taken, against `DefaultHTTPTimeout` |
| `MCTokenCache` | instance | the symmetry of the callers |
| `TokenCacheProofs` | theorems | see *Proofs* |
| `Lifecycle` | the adapter-backed lifecycle spec with its pollers and matchers, beside adapters and the API | `pc` names the wait or call the spec is at, `Holds` the matcher of each wait; `report`, `reconciled`, `lastKnown` are what the API serves, `work` and `object` an adapter's copy and its namespace |
| `MCLifecycle` | instance | all the defects |
| `LifecycleProofs` | theorems | see *Proofs* |

### ResourceCleanup

The API's store holds one parent and a few children, each *none*, *live*, *deleting* or
*gone*. While the cleanup runs, adapters hard-delete what is deleting (a parent after its
children), requests a failed spec left in flight still create children or delete
resources, and references disappear: these are the environment's actions, always
enabled, never forced. The cleanup lists one page per child kind, deletes each listed
live child, deletes the parent and, where the row says so, polls for its hard deletion.
A request may fail before or after the API applied it.

`ListChildren` abstracts the page's order: the API may put any children on it. `Elapse`
is the request's time plus one polling interval against what is left: the code tests its
deadline between requests only, so an answer that comes late still counts.

### SpecTeardown

`marks` is the set of differences the spec has made: a scaled-down deployment, a
release, a required adapter, a policy, an environment variable, a chart directory.
A step of the body calls one operation and an `Expect` after it looks at its error;
registrations are steps of their own, because *where* they stand between call and
`Expect` is what decides whether a half-done operation is undone. An operation that
fails may have had its effect wholly, in part, or not at all; only the operations of
`Atomic` clean up after themselves. The spec's cluster is hard-deleted by the system
only while nothing *holds* it: no part is down, and no required adapter is missing.

`broken` records what a cleanup tried and failed to undo: nothing else may be left.

### RequiredAdapters

A list of required adapters is the *baseline* or *extended*: the specs add exactly one
adapter of their own, so no more is needed to tell whose list it is. helm records a
*pending* revision before it touches the cluster; an upgrade that ends any other way than
by helm's own hand leaves it pending, and helm refuses the next upgrade over it. Reads
take 0 to `SlowRead` units of a deadline that exceeds helm's timeout by `Headroom`:
`spent` decides whether helm times out or is killed; the time helm takes to apply before it
starts to wait is charged to its own timeout, not to the headroom. Contexts may be canceled
and the whole process killed at any place; the next run then starts over whatever is left,
which is why `Init` admits every set of values. `faults`, `unrestored` and `disturbed` are
history the properties read and the actions never do.

### SuiteRun

Ginkgo hands each process one spec at a time; Serial specs wait until every other process
has exited, and process 1 runs them. A spec with an adapter deploys, runs, uninstalls and
deletes its subscription; each of these may fail wholly or partly, and a failed spec is
retried in place. A running adapter makes its subscription anew whenever it is missing
(`Subscribe`, never forced). Every process sweeps the subscriptions on its own list, and
when all have exited process 1 uninstalls the run's releases and deletes its labeled
resources under one deadline. A setup that fails leaves its process without a list, which
is what decides whether it sweeps.

The model has Google Pub/Sub as its broker (with RabbitMQ there is nothing to sweep) and
takes release names to be unique per spec, as `docs/development.md` demands.

### EntityCatalog and Startup

A setting is a path of viper (`<<"timeouts", "Cluster", "Deleted">>`) in a layer: flag,
`HYPERFLEET_` variable, the unprefixed name `BindEnv` binds, config file, and the
unprefixed variables that only `applyDefaults` reads. A scenario is what a run is given in
each of them, with the table and what the deployed API serves. Strings are kept only as
far as a check tells them apart: a run id is the sequence of the classes of its
characters, a duration is a number of minutes or a bare number, a plural with a blank
stands for every plural that escaping would change.

`NewCatalog` walks a Go map, so the order of its second loop is random. No visit changes what
another one reads, so the order decides only whose fault is reported: the comment at
`RowFault` argues this, and no run explores the orders. `CatalogIsExact` and `DriftIsCaught`
compare with definitions that share nothing with the code's way of checking (a set of
kinds closed under parents for a cycle, where the code walks).

### TokenCache

Time is discrete. A token has a lifetime that the issuer counts from its making, and a
transit for which the source, which counts from the answer's arrival, believes it
younger. A request waits for the lock of the shared source, and its holder for the
issuer: both go on when the request's own timeout has passed, because neither looks at its
context. When the queue ends, a late request fails as soon as it is sent. The lock is first come,
first served; Go's mutex may let a newcomer in ahead of a waiter, which changes no bound
here, because each goroutine of `concurrent_creation.go` sends one request.

### Lifecycle

The spec's waits poll until their matcher holds, its calls are made once. Three adapters
read the resource, apply its manifest or delete it, and report, each at its own pace, so
that every report and every reading may be stale; the API aggregates reports, and removes a
soft-deleted resource with the report that finalizes its last adapter. Kubernetes takes
its time to end a terminating namespace. The system may have one defect: an adapter that is
*deaf* to updates, *flapping*, or finalizes *early*; an API that reports Reconciled
*premature*ly or removes a resource *hasty*. Without a defect it behaves as the specs
expect, which is what `NoFalseAlarm` and `HealthyPasses` are about; with one, `UpdateReached`
and `NothingLeft` say what the spec's waits still establish.

## Runs

| Run | Instance and bounds | Shows |
|---|---|---|
| `resource_cleanup` | all ten rows; 3 children, pages of 2, deadline of 3 intervals, requests of at most 1 interval; every consistent initial store | the cleanup ends (`CleanupEnds`), nil is honest (`NilMeansGone`), child failures surface (`ChildFailureReported`), 409 has an excuse (`ConflictIsExcused`), and it implements `CleanupPromise` (`KeepsPromise`) |
| `spec_teardown` | eight specs, every failure point, every partial effect | the six tidy ones hand back the environment because they keep to the rule `Guarded` under which any script does (`GuardedRestored`); the six prompt ones never wait for what their own outage prevents because they keep to the rule `Promptly` (`PromptNeverDoomed`); `RulesKept` is that each spec keeps to its rules; `UninstalledAfterRestore`, `ClusterNotLeaked`, `TeardownEnds` |
| `spec_teardown_stuck` | two specs | `NoDoomedWait` is violated, see *Findings* |
| `spec_teardown_unrestored` | two specs | `Restored` is violated, see *Findings* |
| `required_adapters` | two kinds, two specs on the same kind or not, 3 attempts, reads below, at and above the headroom | `NilMeansServed`, `BaselineBack`, `HelmReportsItsOwnError`, `RestoredIfUndisturbed`, `JobEnds`, and it implements `AdaptersPromise` (`OneKindAtATime`) |
| `required_adapters_pending` | one spec | `RestoredDespiteTransients` is violated, see *Findings* |
| `suite_run` | two processes, three specs (two parallel, one Serial; one of each with an adapter), one retry, a sweep of 2 time units, labeled leftovers of one spec | `EverythingTried`, `SubscriptionsSwept`, `DeployersIsolated`, `RunEnds`, and it implements `SuitePromise` (`KeepsPromise`): Serial specs run alone, nobody else takes what is a running spec's own, the sweeps come behind |
| `suite_run_unswept` | two processes, two parallel specs | `SweepRuns` is violated, see *Findings* |
| `startup` | the settings of a CI run with any two of eighty-five deviations, in any layer; tables with an arbitrary third row and a root that may close a cycle; deployments of up to three entities | `ReadyIsCoherent`, `ListingIsClusterFree`, `CatalogIsExact`, `DriftIsCaught`, `HighestLayerWins` |
| `token_cache` | three callers, a timeout of 2, lifetimes below and above it | `RefusedOnlyLate`, `QueueBounded` |
| `token_cache_timeout` | two callers | `TimeoutBounds` is violated, see *Findings* |
| `lifecycle` | three adapters, no defect or one of five | `UpdateReached`, `NothingLeft`, `NoFalseAlarm`, `HealthyPasses` |

Each run's `TypeOK` also bounds its counters: no attempt too many, no deadline below zero.

The bounds are enough. With three children and pages of two, one child can be off the
page, one can fail and one succeed; every row of the table is there. A deadline of three
leaves room for an answer before, at and after it. A script is finite, so the teardown
runs are bounded by nothing but the script: all failure points and all subsets of a
step's effects are explored. Two specs are enough for a restore to meet what another
kind's restore left and what its own kind's did; what follows a third is the state after a
second. Two processes are enough for one to sweep, or to fail its setup, while the other
runs, and two adapters for a slow uninstall to take the time of another.
Two deviations are enough for a setting to meet itself in another layer and for a skipped
check to meet the value it would have refused; three entities for one to hide another from
a third. With three callers a request waits behind a failing mint behind another; a
lifetime of 1 is below the timeout of 2 that is the margin, one of 4 survives a transit and
a request that take all of it. Three adapters leave one that is done, one that is stale and
one that is faulty.

**Fairness.** The cleanup is one goroutine whose requests return and whose sleeps end:
weak fairness on its next step. In `ResourceCleanup` the fair action is `Answered`, the
steps in which a request is answered or the deadline is seen; a failure is possible and
never forced. The same holds for the runner of a spec, the job of `RequiredAdapters` (all
of its waits have timeouts) and each process of `SuiteRun`. `HardDelete` is weakly fair in
`SpecTeardown` because the specs themselves are about a reconciler that finishes a deletion
nothing holds back, and in `Lifecycle`, for the same reason, every adapter reads, applies
and reports again and again and a terminating namespace ends; the spec itself polls for
ever. There `TimeOut` says what a timeout configured for a working system means: without a
defect, a wait is given up only when no adapter has anything left to do. `Startup` and
`TokenCache` state no fairness and only safety. Everywhere else nothing forces the system under
test to act: cleanups, restores and the suite must end without it. `Idle` is the only step
once everything is done, so deadlock is
checked, except in `lifecycle`, where the spec ends and the adapters may come to rest.

## Proofs

`ResourceCleanupProofs` proves, for every descriptor table, every finite set of
children, every page size and every timeout, what the run shows for one instance:
`TypeCorrect`, `NilCleanupIsHonest`, `ChildFailuresSurface`, `ConflictsAreExcused` and
the refinement `CleanupKeepsPromise`. They assume `ConstantsAssumption` and
`EntitiesAssumption` of `ResourceCleanup`, no more.

None of the invariants is inductive. That nil is honest needs what the code knew when it
returned, so the inductive invariant `CleanupInvariant` adds: nothing lives below a
deleting parent and nothing at all outlives a gone one; the polling starts only over a
parent that is at least deleting; a listed child that is no longer on the list was
deleted or is in `failed`; and what a result says of the parent. Every
change of the store only moves resources *onward* (`RequestSoftens`, `SoftensKeeps`),
which is why each of these facts survives the environment's steps and why the same lemma
carries the refinement.

`SpecTeardownProofs` is about any set of scripts, from `ScriptsAssumption` alone. The rule
`Guarded` can be checked by reading a spec: an undo of whatever a call makes is registered
before the call or right behind it, or behind the assertion on it if a failed call leaves
nothing, and an adapter's uninstall is followed by the deletion of its subscription.
`GuardedIsRestored` proves `GuardedRestored`, that such a script is `Restored`, so the
specs in `Tidy` owe it to where their `DeferCleanup`s stand and not to what they do. The
invariant behind it (`Tidied`) has, during the body, every mark covered by the cleanup stack or *due* from the
next registration, which no failure can keep from being reached, and afterwards every mark
covered or excused; a subscription that an adapter makes again stays covered because the
uninstall is. The converse does not hold, and a wifconfig, whose own cleanup the API may
refuse over a cluster that is still there, is outside the rule.

Two more rules are about the order in which cleanups run. `Promptly` says that the cleanups
of a spec end each outage it makes before they clean up a cluster, and either restore the
API's required adapters before that too or keep the required adapter running until then
(`KeepsAdapter`); `RestoresFirst`, that they restore the required adapters before they
uninstall an adapter. `PromptIsNeverDoomed` and `UninstallComesLast` prove that no script
which keeps to them waits for a hard-delete its own outage prevents, or uninstalls an adapter
the API still waits for, wherever its body fails. What makes these inductive (`InOrder`) is a
fact about the cleanup stack at every moment of the body: while a mark is there, or can still
be made, each operation that must come later has an undo of the mark before it on the stack,
or was registered by a function above which such an undo is still to be registered before the
mark is made. A failed undo is in `broken`, which both properties excuse. For the second way
of keeping `Promptly`, `AdapterKept` follows the adapter: it is up when the API comes to
require it, because the call that installs it was asserted on, and its uninstall stays behind
every cluster cleanup on the stack.

`RequiredAdaptersProofs` proves every safety property of `required_adapters` for any set of
kinds, any number of retries and specs, any headroom and any slowness of reads:
`TypeCorrect`, `NilIsServed`, `BaselineRestored`, `HeadroomSuffices` and
`RestoreIsPersistent`, from `RequiredAdaptersAssumption` alone. `BaselineBack` speaks of
what is applied and served, but a later spec on another kind starts from what Helm
*records*: the inductive invariant (`AdaptersInvariant`) therefore says of every kind that
is restored and not being worked on that it is at its baseline in the revision, in what is
applied and in what serves, and, for the stages of an upgrade, what has become of the
patched values. The refinement `OneKindIsWritten` is step by step: a read-modify-write of
the values of all kinds is a write of one kind only because nothing writes the release
between the read and the upgrade (`Fresh`), and what a crash or a timeout leaves to roll out
later is among what the API already went by, so a late rollout is invisible to the job that
runs by then. `faults` is tied to `attempt`, which is what makes the persistence of the
restore inductive.

`SuiteRunProofs` proves, for any number of processes, any specs however marked, any retries
and any deadlines, from `SuiteAssumption` alone, `TypeCorrect`, `SweepsSpareRunningSpecs`,
`SweepTriesEverything`, `SweepsSubscriptions`, `DeployersAreIsolated` and the refinement
`RunKeepsPromise`. That a sweep spares what a running spec owns rests on three
facts which only hold together, so the inductive invariant (`SuiteInvariant`) has them
all: a spec is begun once and stays on its process through its retries; the adapters on a
process's list are those of specs this process began, so that what it sweeps after its last
spec runs nowhere; and `CleanupKubeResources` starts only when every process has exited,
where no exited process runs a spec. That the sweep tries everything needs in addition what
each of its stages has still to do (`Attempted`). The last two rest on `Ledger`: of every
spec that does not run, an adapter or a subscription still there is accounted for, by the
list of a process that has yet to sweep or by the failure that left it; of a running spec,
each stage says what it still owes (`Owed`). `SerialAlone` adds that a Serial spec runs on
process 1 when every other process has exited, and an adapter at work belongs to a spec that
runs (`IntrudersRun`): `DeployersIsolated` follows, from the hypothesis that only specs in
`Unmarked` deploy an adapter without the mark. The refinement needs all of them: a spec that
is fetched begins alone if it must because no process that has exited comes back, a stage
works for one spec because no other process runs it, a list is swept behind its specs
because they ended on this process, and a retry, which the promise does not see, keeps the
spec where it is. `SweepsSpareRunningSpecs` states the promise's central point by itself
(`SweepSparesRunning`).

`StartupProofs` proves, for every set of scenarios and run ids, `TypeCorrect`,
`ReadyCoherent` and `ListingClusterFree`. Its invariant carries what one check establishes
to the step that relies on it: `Config.Validate`'s verdict to the suite's setup, the guard's
namespace and the validated human to the first spec. The heart of it is `LabelIsSafe`:
`LabelValueRegex` and the token issuer's character set, spelled apart in two packages, agree
that a run id which is a label value can be a tenant, so `Human.Validate` refuses nothing
that loaded.

`EntityCatalogProofs` takes `NewCatalog` and `apiEntityDiffs` for tables and deployments of
any size. `AcceptsExactlyTheUsable` shows that `NewCatalogFails` is the negation of `Usable`,
`DiffsAreExact` that the drift guard is silent exactly when the deployment `Serves` the
table. The hard part is the cycle check: the code walks from each kind to its parents,
`Usable` speaks of sets of kinds closed under parents (`Rooted`). `WalksFindCycles` equates
the two. A walk that meets a kind twice stays among the kinds it met, which are such a
set; conversely, a walk within such a set has more steps than the table has kinds, so two of
them meet. Neither needs an induction theorem with an operator parameter: that the walk is a
function on its steps, and what holds at each step, follows from the least element of the set
of steps where it would fail (`LeastNumber`, from the well-founded order of the naturals).

On these `StartupProofs` builds `CatalogExact` and `DriftCaught`: what reaches `NewCatalog`
is a table of the right shape in every scenario, whatever layers overlay it, and the rows the
guard compares are the resolved ones of an accepted table. `OneOrderOfLayers` proves
`HighestLayerWins` for any settings in which no layer sets a path to blank (`NoBlanks`):
viper's first setting in its own order of layers, or else what `applyDefaults` finds in the
shell, or else the default, is the first in one order of all of them, and that order is the
documented one but for `FileHidesVariable` (`DocumentedButTheFile`). The same holds of the
durations and of each row's adapters and timeouts, whatever the row's own are: a bare number
was refused, a zero left the default, and resolving the parents touched neither
(`CatalogOverlays`). The hypothesis is needed, see *Observations*; in every scenario of the
run what is not set is absent, never blank. `StartupProofs` assumes `StartupAssumption` (the
types of a scenario), `ShellAssumption` (the shell sets only the fields that `applyDefaults`
reads from it) and `LiteralsAreStrings`, which tells the provers what TLC knows, that a
literal is in `STRING`.

`TokenCacheProofs` proves, for any finite set of callers, any timeout and any bounded
lifetimes, from `TokenCacheAssumption`, `TypeCorrect`, `WaitIsBounded` and `RefusedLate`.
The bound on a request is the number of callers times the timeout; it is inductive as
`Patience`: a caller at place *i* of the queue has at most *i* deadlines of mints left to
wait, whatever it has waited so far, and the length of a queue without repetitions is the
cardinality of a subset of the callers (`QueueLength`). `Margin` says, for each place a
token can be, how much of the margin is left.

`LifecycleProofs` proves every safety property of the run for any set of adapters:
`TypeCorrect`, `UpdateIsReached`, `PassedLeavesNothing`, `FailsOnlyForCause`. None is
inductive. `Stage` ties the spec's step to the resource's generation; `Reached` an
adapter's report to what it has applied, which is why no report of the new generation can
come from before the update; `Removed` the end of the resource to its namespaces; and
`Sound`, for a system without a defect, the API's conditions to the reports.

**Running out of work.** That something ends is liveness, and TLC's; but most of what could
go wrong in it is safety, and proved. Each of `ResourceCleanup`, `SpecTeardown`,
`RequiredAdapters` and `SuiteRun` has a measure of what is left to do, a pair of numbers
(`Remaining`; in `SuiteRun` one for each process and one for the Kubernetes sweep), and a
property `WorkRunsOut`: whatever the component does, answered, refused or timed out, lowers
the measure, and nothing that goes on around it raises it. `CleanupWorkRunsOut`,
`SpecsRunOut`, `JobsRunOut` and `RunsOut` prove it, for any children, scripts, retries and
processes; `RanksRunOut` proves, from the well-foundedness of pairs of naturals, that no
measure is lowered for ever. So no listing is repeated, no retry is free, no cleanup
registers another, no poll forgets its deadline, and each of these components takes finitely
many steps. In `SpecTeardown` and `SuiteRun` the measures are what the bounded stacks, lists
and attempts of the code amount to; in `ResourceCleanup` the children that arrive while it
runs matter, because only those on the page that was listed count. What `CleanupEnds`,
`TeardownEnds`, `JobEnds` and `RunEnds` say beyond that, that such a component which has not
finished always has a step it can take and takes it, needs `ENABLED` and fairness and is
TLC's. `WorkRunsOut` is no property of a run: the runs check the stronger liveness.

Only model-checked: liveness (`CleanupEnds`, `TeardownEnds`, `ClusterNotLeaked`, `JobEnds`,
`RunEnds`, `HealthyPasses`), which is out of the prover's reach, and `RulesKept`, which says
of the specs of `e2e/` as they are written that they keep to the rules of `SpecTeardown`: a
fact about particular scripts, which TLC settles by evaluating it. Every other property of a
passing run is stated by a theorem.

## Findings

1. **Stuck deletion and crash recovery clean up in the wrong order**
   (`spec_teardown_stuck`). The API's restore is registered before the cluster's cleanup,
   hence runs after it: when the body fails with the adapter at zero replicas, the
   cluster's cleanup waits its whole deadline for a hard-delete the API withholds.
2. **Re-DELETE waits under its own outage** (the same run; either script alone violates the
   property). `AfterEach` runs before every `DeferCleanup`, so it waits while the Sentinel
   is still down.
3. **Force-delete registers its restore too late, token renewal none**
   (`spec_teardown_unrestored`). The wifconfig deletion-protection spec registers its
   first cleanup only after its second create, and a NetworkPolicy whose creation answers
   with an error is not undone: the same pattern, visible when `Scripts` is set to
   `{DeletionProtection}` or `{RemoteDeleteReapply}`.
4. **A pending revision defeats the retries of the restore** (`required_adapters_pending`).
   helm is killed when a context is canceled, or when a slow read has used up the headroom;
   every attempt of the restore is then refused.
5. **A setup failure of process 1 alone cancels the Kubernetes sweep** (`suite_run_unswept`):
   the sweep asks for a deployment list it never uses.
6. **The timeout does not bound a request** (`token_cache_timeout`). A request that queues
   at the shared token source is not ended by its own timeout; `QueueBounded` is what holds.

## Exceptions

Two passing properties state what a document says, for every case it is about, with one
exception each where the code does otherwise:

- **adapter-failover is not marked Serial.** `docs/development.md:368` wants a spec that
  deploys a temporary adapter marked, and `:372` lists this one among the marked;
  `adapter_failover.go:15` does not mark it, though it deploys an adapter (`:81`), which takes
  the events of the specs that run beside it. `DeployersIsolated` is about all deployers and
  excepts those in `Unmarked`, this spec alone; with `Unmarked <- Nothing` in `SuiteRun.cfg`
  TLC finds it violated, and `DeployersAreIsolated` proves that the mark would be enough.
- **The config file's namespace wins over `NAMESPACE`.** `docs/getting-started.md:142-146`
  puts environment variables above the file; `applyDefaults` (`config.go:477`, and in the same
  way for the other unprefixed variables) uses one only for a field that is still empty, as the
  comment at `:471` says. `HighestLayerWins` states the documented order and excepts exactly
  this case (`FileHidesVariable`); with that exception taken out TLC finds it violated.

## Observations

Noticed while modelling, without a run of their own:

- The Pub/Sub sweep of a process (`suite.go:106`) precedes the Helm sweep (`:112`): an adapter
  that an earlier failure left running makes its subscription again in between.
  `SubscriptionsSwept` names these failures.
- A flag that is given and blank hides the variables and the file below it from viper, while
  `applyDefaults` still fills the field from the unprefixed environment or the default: for
  such a setting the layers have no one order. (A blank variable is no setting at all.)
- `SUITE_TIMEOUT` (`e2e.go:57`) is read past the hook that refuses durations without a unit:
  `300` is 300 nanoseconds.
- Unknown keys are looked for in the config file's sections only; an unknown kind in a
  variable is ignored. A scalar where a section belongs is refused from any layer.
- The log level is looked at only after the guard has read the cluster, and with
  `AUTH_MODE=NONE` no startup step parses the API's URL.
- `ScaleDeployment` gives its pods about 13 s whatever the cluster's configured timeouts.
- The lifecycle spec does not look at the namespace's generation annotation again after its
  PATCH: that each adapter has applied the update rests on the adapters' reports. An API
  whose `Reconciled` is early, or which removes a resource before its last adapter is
  finalized, passes unless an adapter is late enough to be seen; a flapping adapter fails
  the reading that follows the wait for `Reconciled`, which is made once.

## Plan

What is left, most valuable first:

1. `SpecTeardown` - Ordered containers; a cleanup of a wifconfig inside the rule of `Guarded`.
2. `Lifecycle` for a kind with a parent, with the cascade of its deletion.
3. `AdapterDeployment` - release naming and its truncation, queue purging.

## Not modelled

Latency measurement, its statistics and thresholds (no state models a latency); the log's
format, reports and the printed configuration (pure output); git's checkout and the fetching
of logs (pure I/O); labels and focus filters (constants); the shell scripts that are run
outside the suite; the image settings, which only pass through. Of the lifecycle specs, the
adapter-backed one is modelled for a kind without a parent; the cascade, recreation and list
specs make calls and waits of the same kinds, and what they assert beyond them is the API's
behaviour, not this code's. Two hazards have no property: a create whose answer is lost
leaves a resource whose id the spec never learns (`resource.go:23`), which nothing in the
code removes and no property could hold over; and the unit of `SUITE_TIMEOUT`, a single
conversion without state.
