-------------------------- MODULE RequiredAdapters --------------------------
(***************************************************************************)
(* The required adapters of the API (pkg/helper/api_config.go).  Specs run *)
(* one after the other; each makes the API wait for one more adapter of a  *)
(* kind and restores the kind's baseline in its cleanup, by reading all    *)
(* values of the API's Helm release, patching one entity and upgrading the *)
(* release.  A list of required adapters is "baseline" or "extended".      *)
(***************************************************************************)
EXTENDS Integers, Ranks

CONSTANTS
  Kinds,         (* the kinds of config.entities                            *)
  MaxRetries,    (* attempts of a restore                                   *)
  SlowRead,      (* longest `helm get values`                               *)
  Headroom,      (* what helmContextTimeout adds to helm's own timeout      *)
  MaxSpecs       (* bound: specs that run                                   *)

ASSUME RequiredAdaptersAssumption ==
  /\ Kinds # {}
  /\ MaxRetries \in Nat \ {0} /\ MaxSpecs \in Nat
  /\ SlowRead \in Nat /\ Headroom \in Nat

VARIABLES
  revision,      \* Helm's latest revision: the values it records, its status
  applied,       \* the values the API's pods are rolled out with
  serving,       \* the values the answering pods run with
  specs,         \* specs started so far
  kind,          \* the entity the spec works on
  job,           \* "change" in the body, "restore" in its cleanup
  pc,            \* where UpgradeAPIRequiredAdapters is, "backoff" or "idle"
  attempt,       \* of the restore
  spent,         \* what the read has used up of the context's time
  patched,       \* the values read, patched: the file helm is given
  reply,         \* of the job: "none" (yet), "nil" or "error"
  faults,        \* history: attempts of this job that something made fail
  unrestored,    \* history: kinds whose last restore did not return nil
  disturbed      \* history: a read took the whole headroom, a context was canceled
                 \* or the process was killed

helmVars == <<revision, applied>>
jobVars  == <<specs, kind, job>>
callVars == <<attempt, spent, patched, reply, faults>>
vars == <<helmVars, serving, jobVars, pc, callVars, unrestored, disturbed>>

Lists  == {"baseline", "extended"}
Values == [Kinds -> Lists]

\* The body asks for the baseline and one adapter, the cleanup for the descriptor's
\* baseline, whatever the release holds.
Wanted == IF job = "change" THEN "extended" ELSE "baseline"

------------------------------------------------------------------------------
(* The rollout of the API's pods, which nothing the suite does can stop    *)

Rollout ==
  /\ serving # applied
  /\ serving' = applied
  /\ UNCHANGED <<helmVars, jobVars, pc, callVars, unrestored, disturbed>>

------------------------------------------------------------------------------
(* The job.  A definition named after another one with a suffix is its     *)
(* mutated form: a bug the properties must catch.                          *)

Reply(res) ==
  /\ pc' = "idle" /\ reply' = res
  /\ unrestored' = IF job = "restore" /\ res = "nil" THEN unrestored \ {kind}
                                                     ELSE unrestored \union {kind}

Return_Endless(isFault) ==
  /\ faults' = faults /\ attempt' = attempt
  /\ IF job = "restore" THEN pc' = "backoff" /\ UNCHANGED <<reply, unrestored>>
                        ELSE Reply("error")
  /\ UNCHANGED <<serving, jobVars, spent, patched, disturbed>>

Return_OneShort(isFault) ==
  /\ faults' = faults + (IF isFault THEN 1 ELSE 0)
  /\ IF job = "restore" /\ attempt + 1 < MaxRetries
     THEN pc' = "backoff" /\ attempt' = attempt + 1 /\ UNCHANGED <<reply, unrestored>>
     ELSE Reply("error") /\ UNCHANGED attempt
  /\ UNCHANGED <<serving, jobVars, spent, patched, disturbed>>

Return_OneMore(isFault) ==
  /\ faults' = faults + (IF isFault THEN 1 ELSE 0)
  /\ IF job = "restore" /\ attempt <= MaxRetries
     THEN pc' = "backoff" /\ attempt' = attempt + 1 /\ UNCHANGED <<reply, unrestored>>
     ELSE Reply("error") /\ UNCHANGED attempt
  /\ UNCHANGED <<serving, jobVars, spent, patched, disturbed>>

\* An upgrade that returns an error: the body gives up, the restore tries again.
Return(isFault) ==
  /\ faults' = faults + (IF isFault THEN 1 ELSE 0)
  /\ IF job = "restore" /\ attempt < MaxRetries
     THEN pc' = "backoff" /\ attempt' = attempt + 1 /\ UNCHANGED <<reply, unrestored>>
     ELSE Reply("error") /\ UNCHANGED attempt
  /\ UNCHANGED <<serving, jobVars, spent, patched, disturbed>>

Patched_ByIndex(values) ==
  LET first == CHOOSE k \in Kinds : TRUE IN [values EXCEPT ![first] = Wanted]

Patched_Resets(values) ==
  [k \in Kinds |-> IF k = kind THEN Wanted ELSE "baseline"]

\* "patches the correct entity by kind (not by array index)"
Patched(values) == [values EXCEPT ![kind] = Wanted]

Read ==
  /\ pc = "read"
  /\ patched' = Patched(revision.values)
  /\ spent' \in 0..SlowRead
  /\ disturbed' = (disturbed \/ spent' >= Headroom)
  /\ pc' = "upgrade"
  /\ UNCHANGED <<helmVars, serving, jobVars, attempt, reply, faults, unrestored>>

ReadFails ==
  /\ pc = "read"
  /\ Return(TRUE)
  /\ UNCHANGED helmVars

\* helm records the new revision before it touches the cluster, and refuses to start
\* over a revision whose upgrade never ended.
Upgrade ==
  /\ pc = "upgrade" /\ revision.status # "pending"
  /\ revision' = [values |-> patched, status |-> "pending"]
  /\ pc' = "apply"
  /\ UNCHANGED <<applied, serving, jobVars, callVars, unrestored, disturbed>>

UpgradeRefused ==
  /\ pc = "upgrade" /\ revision.status = "pending"
  /\ Return(FALSE)
  /\ UNCHANGED helmVars

UpgradeFails ==
  /\ pc = "upgrade"
  /\ Return(TRUE)
  /\ UNCHANGED helmVars

Apply ==
  /\ pc = "apply"
  /\ applied' = revision.values
  /\ pc' = "rollout"
  /\ UNCHANGED <<revision, serving, jobVars, callVars, unrestored, disturbed>>

ApplyFails ==
  /\ pc = "apply"
  /\ revision' = [revision EXCEPT !.status = "failed"]
  /\ applied' \in {applied, revision.values}
  /\ Return(TRUE)

RolledOut_NoWait ==
  /\ pc = "rollout"
  /\ revision' = [revision EXCEPT !.status = "deployed"]
  /\ pc' = "ready"
  /\ UNCHANGED <<applied, serving, jobVars, callVars, unrestored, disturbed>>

\* --wait
RolledOut ==
  /\ pc = "rollout" /\ serving = applied
  /\ revision' = [revision EXCEPT !.status = "deployed"]
  /\ pc' = "ready"
  /\ UNCHANGED <<applied, serving, jobVars, callVars, unrestored, disturbed>>

\* --timeout, which helm reports itself if the context it runs under lasts longer: the
\* context was made before the read.
TimesOut ==
  /\ pc = "rollout" /\ spent <= Headroom
  /\ revision' = [revision EXCEPT !.status = "failed"]
  /\ Return(TRUE)
  /\ UNCHANGED applied

KilledAfter_NoHeadroom(time) == time >= 0

\* The context is over when helm has taken its whole timeout.
KilledAfter(time) == time >= Headroom

\* helm is killed, and its revision stays as it is.
Killed ==
  /\ pc = "rollout" /\ KilledAfter(spent)
  /\ Return(TRUE)
  /\ UNCHANGED helmVars

Ready ==
  /\ pc = "ready"
  /\ Reply("nil")
  /\ UNCHANGED <<helmVars, serving, jobVars, attempt, spent, patched, faults, disturbed>>

ReadyFails ==
  /\ pc = "ready"
  /\ Return(TRUE)
  /\ UNCHANGED helmVars

Backoff ==
  /\ pc = "backoff"
  /\ pc' = "read"
  /\ UNCHANGED <<helmVars, serving, jobVars, callVars, unrestored, disturbed>>

\* Ginkgo cancels the node's context: the command that runs is killed, and a restore
\* that waits to try again gives up.
Canceled ==
  /\ pc # "idle"
  /\ Reply("error")
  /\ faults' = MaxRetries
  /\ disturbed' = TRUE
  /\ UNCHANGED <<helmVars, serving, jobVars, attempt, spent, patched>>

------------------------------------------------------------------------------
(* The specs                                                               *)

Start(what) ==
  /\ job' = what /\ pc' = "read" /\ attempt' = 1
  /\ reply' = "none" /\ faults' = 0
  /\ UNCHANGED <<helmVars, serving, spent, patched, disturbed>>

\* The restore is registered before the change, and runs whatever came of it.
Restore ==
  /\ pc = "idle" /\ job = "change"
  /\ Start("restore")
  /\ UNCHANGED <<specs, kind, unrestored>>

NextSpec ==
  /\ pc = "idle" /\ job = "restore" /\ specs < MaxSpecs
  /\ specs' = specs + 1
  /\ kind' \in Kinds
  /\ unrestored' = unrestored \union {kind'}
  /\ Start("change")

\* The suite's process is killed, helm with it, and no cleanup runs.
Crash ==
  /\ pc # "idle"
  /\ pc' = "idle" /\ job' = "restore" /\ reply' = "none"
  /\ disturbed' = TRUE
  /\ UNCHANGED <<helmVars, serving, specs, kind, attempt, spent, patched, faults, unrestored>>

Idle ==
  /\ pc = "idle" /\ job = "restore" /\ specs = MaxSpecs
  /\ UNCHANGED vars

------------------------------------------------------------------------------
(* The specification                                                       *)

\* An earlier run may have left a kind extended.
Init ==
  /\ serving \in Values
  /\ applied = serving /\ patched = serving
  /\ revision = [values |-> serving, status |-> "deployed"]
  /\ unrestored = {k \in Kinds : serving[k] = "extended"}
  /\ kind \in Kinds
  /\ specs = 0 /\ job = "restore" /\ pc = "idle"
  /\ attempt = 1 /\ spent = 0 /\ reply = "none" /\ faults = 0
  /\ disturbed = FALSE

Work ==
  \/ Read \/ ReadFails
  \/ Upgrade \/ UpgradeRefused \/ UpgradeFails
  \/ Apply \/ ApplyFails \/ RolledOut \/ TimesOut \/ Killed
  \/ Ready \/ ReadyFails \/ Backoff

Next == Work \/ Canceled \/ Rollout \/ Restore \/ NextSpec \/ Crash \/ Idle

\* Every wait of the job has a deadline.
Spec == Init /\ [][Next]_vars /\ WF_vars(Work) /\ WF_vars(Restore)

------------------------------------------------------------------------------
(* Properties                                                              *)

TypeOK ==
  /\ revision \in [values : Values, status : {"deployed", "pending", "failed"}]
  /\ applied \in Values /\ serving \in Values /\ patched \in Values
  /\ specs \in 0..MaxSpecs /\ kind \in Kinds /\ job \in {"change", "restore"}
  /\ pc \in {"read", "upgrade", "apply", "rollout", "ready", "backoff", "idle"}
  /\ attempt \in 1..MaxRetries
  /\ spent \in 0..SlowRead
  /\ reply \in {"none", "nil", "error"}
  /\ faults \in 0..MaxRetries
  /\ unrestored \subseteq Kinds
  /\ disturbed \in BOOLEAN

\* UpgradeAPIRequiredAdapters returns nil only when the API that answers waits for the
\* adapters it was asked for: neither the revision of an attempt before it nor a pod of
\* an earlier rollout decides what clusters are reconciled against.
NilMeansServed == reply = "nil" => serving[kind] = Wanted

\* Between specs the API waits for the baseline of every kind whose last restore
\* returned nil, whatever the specs on other kinds, the crashes and the failed restores
\* since then, and whatever an earlier run had left there.
BaselineBack ==
  pc = "idle" /\ job = "restore" =>
    \A k \in Kinds \ unrestored : applied[k] = "baseline" /\ serving[k] = "baseline"

\* "so helm can report its own error instead of being killed by context cancellation":
\* as long as reads stay within the headroom and nothing is canceled, no upgrade is
\* left pending behind a helm that is no longer there.
HelmReportsItsOwnError ==
  ~disturbed /\ revision.status = "pending" => pc \in {"apply", "rollout"}

\* "ensure API config is restored even on transient failures": the restore gives up only
\* if each of its attempts met a failure of its own.
RestoredDespiteTransients ==
  job = "restore" /\ reply = "error" => faults >= MaxRetries

\* The same, as long as nothing has ever disturbed an upgrade.
RestoredIfUndisturbed == ~disturbed => RestoredDespiteTransients

\* A job changes the list of one kind and of no other, though it writes the values of all:
\* the API keeps going by what each other kind had, through failures, kills, crashes and
\* rollouts that end under a later job; a nil reply means the job's list and nothing else.
Promise ==
  INSTANCE AdaptersPromise WITH
    held <- [k \in Kinds |-> {revision.values[k], applied[k], serving[k]}],
    task <- IF pc = "idle" THEN << >> ELSE <<kind, Wanted>>

OneKindAtATime == Promise!Spec

\* How much of a job is left: attempts, and what is left of the current one.
Remaining ==
  IF pc = "idle" THEN <<0, 0>>
  ELSE <<1 + MaxRetries - attempt,
         CASE pc = "backoff" -> 6 [] pc = "read" -> 5 [] pc = "upgrade" -> 4
           [] pc = "apply" -> 3 [] pc = "rollout" -> 2 [] OTHER -> 1>>

\* Every step of a job that has begun leaves less of it, whatever fails: going back to the
\* read costs an attempt, and a rollout, however late, gives none back.
WorkRunsOut ==
  [][pc # "idle" => UNCHANGED <<jobVars, pc, callVars>> \/ Below(Remaining', Remaining)]_vars

\* A change or a restore that was begun returns.
JobEnds == pc = "read" ~> pc = "idle"
==============================================================================
