----------------------- MODULE RequiredAdaptersProofs ------------------------
(***************************************************************************)
(* Proofs about RequiredAdapters, for any set of kinds, any number of      *)
(* retries and of specs, and any timing.                                   *)
(***************************************************************************)
EXTENDS RequiredAdapters, TLAPS

\* A kind nobody is working on, and whose restore succeeded.
Settled(k) == revision.values[k] = "baseline" /\ applied[k] = "baseline" /\ serving[k] = "baseline"

\* A failed attempt is counted once at most.
Counted == pc # "idle" => faults <= attempt - 1

\* The kind of the running spec counts as unrestored until its restore returns nil.
Marked == (pc # "idle" \/ job = "change") => kind \in unrestored

\* What each stage of an upgrade has achieved.
Staged ==
  /\ pc = "upgrade" =>
       /\ patched[kind] = Wanted
       /\ \A k \in Kinds \ unrestored : patched[k] = "baseline"
  /\ pc \in {"apply", "rollout", "ready"} => revision.values[kind] = Wanted
  /\ pc \in {"rollout", "ready"} => applied = revision.values
  /\ pc = "ready" => serving = applied
  /\ reply = "nil" => pc = "idle" /\ applied[kind] = Wanted /\ serving[kind] = Wanted

Inv ==
  /\ TypeOK
  /\ Counted
  /\ Marked
  /\ Staged
  /\ \A k \in Kinds \ unrestored : Settled(k)

\* The initial states satisfy the invariant.
LEMMA InitInv == Init => Inv
<1> SUFFICES ASSUME Init PROVE Inv
  OBVIOUS
<1>1. disturbed \in BOOLEAN
  BY DEF Init
<1>2. TypeOK
  BY <1>1, RequiredAdaptersAssumption DEF Init, TypeOK
<1>3. Counted /\ Marked /\ Staged
  BY DEF Init, Counted, Marked, Staged
<1>4. \A k \in Kinds \ unrestored : Settled(k)
  BY DEF Init, Settled, Values, Lists
<1> QED BY <1>2, <1>3, <1>4 DEF Inv

\* An attempt that returned an error disturbs nothing the invariant is about.
LEMMA ReturnKeeps ==
  ASSUME Inv, pc # "idle", pc' # pc, NEW isFault \in BOOLEAN, Return(isFault),
         revision' \in [values : Values, status : {"deployed", "pending", "failed"}],
         applied' \in Values,
         \A k \in Kinds \ unrestored :
            revision'.values[k] = "baseline" /\ applied'[k] = "baseline"
  PROVE  Inv'
<1> USE RequiredAdaptersAssumption
<1>1. TypeOK'
  BY DEF Inv, TypeOK, Counted, Return, Reply, jobVars
<1>2. Counted'
  BY DEF Inv, TypeOK, Counted, Return, Reply, jobVars
<1>3. Marked'
  BY DEF Inv, TypeOK, Marked, Return, Reply, jobVars
<1>4. unrestored' = unrestored
  BY DEF Inv, TypeOK, Marked, Return, Reply
<1>5. reply = "none" \/ reply = "error"
  BY DEF Inv, Staged, TypeOK
<1>6. Staged'
  BY <1>5 DEF Inv, Staged, Return, Reply
<1>7. \A k \in Kinds \ unrestored' : Settled(k)'
  BY <1>4 DEF Inv, Settled, Return
<1> QED BY <1>1, <1>2, <1>3, <1>6, <1>7 DEF Inv

\* One upgrade of the release, from the read to the rollout.
LEMMA UpgradeSteps ==
  ASSUME Inv,
         Read \/ Upgrade \/ Apply \/ RolledOut \/ Ready \/ Backoff
  PROVE  Inv'
<1> USE RequiredAdaptersAssumption DEF Inv, jobVars, helmVars, callVars
<1>1. CASE Read
  <2>1. patched' \in Values /\ patched'[kind] = Wanted
    BY <1>1 DEF Read, Patched, TypeOK, Values, Lists, Wanted
  <2>2. \A k \in Kinds \ unrestored : patched'[k] = "baseline"
    BY <1>1 DEF Read, Patched, Marked, Settled, TypeOK, Values
  <2>3. TypeOK' /\ Counted' /\ Marked'
    BY <1>1, <2>1 DEF Read, TypeOK, Counted, Marked
  <2>4. Staged'
    BY <1>1, <2>1, <2>2 DEF Read, Staged, Wanted
  <2> QED BY <1>1, <2>3, <2>4 DEF Read, Settled
<1>2. CASE Upgrade
  BY <1>2 DEF Upgrade, TypeOK, Counted, Marked, Staged, Settled, Wanted
<1>3. CASE Apply
  BY <1>3 DEF Apply, TypeOK, Counted, Marked, Staged, Settled, Wanted
<1>4. CASE RolledOut
  <2>1. revision' \in [values : Values, status : {"deployed", "pending", "failed"}]
        /\ revision'.values = revision.values
    BY <1>4 DEF RolledOut, TypeOK
  <2> QED BY <1>4, <2>1 DEF RolledOut, TypeOK, Counted, Marked, Staged, Settled, Wanted
<1>5. CASE Ready
  BY <1>5 DEF Ready, Reply, TypeOK, Counted, Marked, Staged, Settled, Wanted
<1>6. CASE Backoff
  BY <1>6 DEF Backoff, TypeOK, Counted, Marked, Staged, Settled, Wanted
<1> QED BY <1>1, <1>2, <1>3, <1>4, <1>5, <1>6

\* The ways an attempt fails.
LEMMA FailureSteps ==
  ASSUME Inv,
         \/ ReadFails \/ UpgradeRefused \/ UpgradeFails \/ ApplyFails
         \/ TimesOut \/ Killed \/ ReadyFails
  PROVE  Inv'
<1>1. CASE ReadFails \/ UpgradeRefused \/ UpgradeFails \/ Killed \/ ReadyFails
  <2>1. Return(TRUE) \/ Return(FALSE)
    BY <1>1 DEF ReadFails, UpgradeRefused, UpgradeFails, Killed, ReadyFails
  <2>2. UNCHANGED helmVars /\ pc \in {"read", "upgrade", "rollout", "ready"}
    BY <1>1 DEF ReadFails, UpgradeRefused, UpgradeFails, Killed, ReadyFails
  <2>3. pc' \in {"backoff", "idle"}
    BY <2>1 DEF Return, Reply
  <2>4. /\ revision' \in [values : Values, status : {"deployed", "pending", "failed"}]
        /\ applied' \in Values
    BY <2>2 DEF helmVars, Inv, TypeOK
  <2>5. \A k \in Kinds \ unrestored : revision'.values[k] = "baseline" /\ applied'[k] = "baseline"
    BY <2>2 DEF helmVars, Inv, Settled
  <2>6. pc # "idle" /\ pc' # pc
    BY <2>2, <2>3
  <2> QED BY <2>1, <2>4, <2>5, <2>6, ReturnKeeps
<1>2. CASE ApplyFails \/ TimesOut
  <2>1. Return(TRUE) /\ pc \in {"apply", "rollout"}
    BY <1>2 DEF ApplyFails, TimesOut
  <2>2. revision' \in [values : Values, status : {"deployed", "pending", "failed"}]
        /\ revision'.values = revision.values /\ applied' \in {applied, revision.values}
    BY <1>2 DEF ApplyFails, TimesOut, Inv, TypeOK
  <2>3. pc' \in {"backoff", "idle"}
    BY <2>1 DEF Return, Reply
  <2>4. applied' \in Values
    BY <2>2 DEF Inv, TypeOK
  <2>5. \A k \in Kinds \ unrestored : revision'.values[k] = "baseline" /\ applied'[k] = "baseline"
    BY <2>2 DEF Inv, Settled
  <2>6. pc # "idle" /\ pc' # pc
    BY <2>1, <2>3
  <2> QED BY <2>1, <2>2, <2>4, <2>5, <2>6, ReturnKeeps
<1> QED BY <1>1, <1>2

\* What happens around the upgrades: rollouts, cancellation, crashes, the next job.
LEMMA OtherSteps ==
  ASSUME Inv,
         Canceled \/ Rollout \/ Restore \/ NextSpec \/ Crash \/ UNCHANGED vars
  PROVE  Inv'
<1> USE RequiredAdaptersAssumption DEF Inv, jobVars, helmVars, callVars
<1>1. CASE Canceled
  BY <1>1 DEF Canceled, Reply, TypeOK, Counted, Marked, Staged, Settled
<1>2. CASE Rollout
  BY <1>2 DEF Rollout, TypeOK, Counted, Marked, Staged, Settled, Wanted
<1>3. CASE Restore
  BY <1>3 DEF Restore, Start, TypeOK, Counted, Marked, Staged, Settled
<1>4. CASE NextSpec
  BY <1>4 DEF NextSpec, Start, TypeOK, Counted, Marked, Staged, Settled
<1>5. CASE Crash
  BY <1>5 DEF Crash, TypeOK, Counted, Marked, Staged, Settled
<1>6. CASE UNCHANGED vars
  BY <1>6 DEF vars, TypeOK, Counted, Marked, Staged, Settled, Wanted
<1> QED BY <1>1, <1>2, <1>3, <1>4, <1>5, <1>6

\* Every step of the model keeps the invariant.
LEMMA NextInv == Inv /\ [Next]_vars => Inv'
  BY UpgradeSteps, FailureSteps, OtherSteps DEF Next, Work, Idle

\* The invariant the theorems below rest on.
THEOREM AdaptersInvariant == Spec => []Inv
  BY InitInv, NextInv, PTL DEF Spec

\* Every variable keeps its type; in particular no restore makes more attempts than
\* it was given.
THEOREM TypeCorrect == Spec => []TypeOK
<1>1. Inv => TypeOK
  BY DEF Inv
<1> QED BY <1>1, AdaptersInvariant, PTL

\* UpgradeAPIRequiredAdapters returns nil only over an API that waits for the adapters
\* it was asked for.
THEOREM NilIsServed == Spec => []NilMeansServed
<1>1. Inv => NilMeansServed
  BY DEF Inv, Staged, NilMeansServed
<1> QED BY <1>1, AdaptersInvariant, PTL

\* Successful restores leave the baseline, whatever happened around them.
THEOREM BaselineRestored == Spec => []BaselineBack
<1>1. Inv => BaselineBack
  BY DEF Inv, Settled, BaselineBack
<1> QED BY <1>1, AdaptersInvariant, PTL

------------------------------------------------------------------------------
(* As long as reads stay within the headroom and nothing is canceled       *)

\* Without refusals, the failures of a job are its attempts.
Exact ==
  ~disturbed =>
    /\ revision.status = "pending" => pc \in {"apply", "rollout"}
    /\ pc # "idle" => faults = attempt - 1
    /\ pc \in {"upgrade", "apply", "rollout"} => spent < Headroom
    /\ RestoredDespiteTransients

\* Helm never loses the race against its context, so no upgrade is refused.
LEMMA ExactSteps ==
  ASSUME Inv, Exact, ~disturbed', [Next]_vars
  PROVE  Exact'
<1> USE RequiredAdaptersAssumption DEF jobVars, helmVars, callVars, RestoredDespiteTransients
<1>1. ~disturbed
  BY DEF Inv, TypeOK, Next, Work, vars, Read, ReadFails, Upgrade, UpgradeRefused, UpgradeFails,
     Apply, ApplyFails, RolledOut, TimesOut, Killed, Ready, ReadyFails, Backoff, Return,
     Canceled, Rollout, Restore, NextSpec, Start, Crash, Idle
<1>2. ~Killed /\ ~Canceled /\ ~Crash /\ ~UpgradeRefused
  <2>1. pc = "rollout" => ~KilledAfter(spent)
    BY <1>1 DEF Exact, KilledAfter, Inv, TypeOK
  <2> QED BY <2>1, <1>1 DEF Killed, Canceled, Crash, Exact, UpgradeRefused
<1>3. CASE Read \/ Upgrade \/ Apply \/ RolledOut \/ Ready \/ Backoff
  <2>1. CASE Read
    <3>1. ~(spent' >= Headroom)
      BY <2>1, Zenon DEF Read
    <3>2. spent' < Headroom
      BY <2>1, <3>1 DEF Read
    <3> QED BY <1>1, <2>1, <3>2 DEF Exact, Read
  <2>2. CASE Upgrade \/ Apply \/ RolledOut
    BY <1>1, <2>2 DEF Inv, TypeOK, Exact, Upgrade, Apply, RolledOut
  <2>3. CASE Ready \/ Backoff
    BY <1>1, <2>3 DEF Exact, Ready, Backoff, Reply
  <2> QED BY <1>3, <2>1, <2>2, <2>3
<1>4. CASE ReadFails \/ UpgradeFails \/ ReadyFails
  BY <1>1, <1>4 DEF Inv, TypeOK, Exact, ReadFails, UpgradeFails, ReadyFails, Return, Reply
<1>5. CASE ApplyFails \/ TimesOut
  <2>1. revision'.status = "failed" /\ pc # "idle" /\ Return(TRUE)
    BY <1>5 DEF ApplyFails, TimesOut, Inv, TypeOK
  <2> QED BY <1>1, <2>1 DEF Inv, TypeOK, Exact, Return, Reply
<1>6. CASE Rollout \/ UNCHANGED vars
  BY <1>1, <1>6 DEF Exact, Rollout, vars
<1>7. CASE Restore \/ NextSpec
  BY <1>1, <1>7 DEF Exact, Restore, NextSpec, Start
<1> QED BY <1>2, <1>3, <1>4, <1>5, <1>6, <1>7 DEF Next, Work, Idle

\* The accounting is exact until something disturbs an upgrade.
LEMMA ExactInvariant == Spec => []Exact
<1>1. Init => Exact
  BY DEF Init, Exact, RestoredDespiteTransients
<1>2. Inv /\ Exact /\ [Next]_vars => Exact'
  BY ExactSteps DEF Exact
<1> QED BY <1>1, <1>2, AdaptersInvariant, PTL DEF Spec

\* The headroom does what its comment says as long as `helm get values` takes less than
\* it: helm is never killed in the middle of an upgrade.
THEOREM HeadroomSuffices == Spec => []HelmReportsItsOwnError
<1>1. Exact => HelmReportsItsOwnError
  BY DEF Exact, HelmReportsItsOwnError
<1> QED BY <1>1, ExactInvariant, PTL

\* Until then a restore gives up only after as many failures as it has attempts.
THEOREM RestoreIsPersistent == Spec => []RestoredIfUndisturbed
<1>1. Exact => RestoredIfUndisturbed
  BY DEF Exact, RestoredIfUndisturbed
<1> QED BY <1>1, ExactInvariant, PTL

------------------------------------------------------------------------------
(* The promise                                                             *)

\* The values helm is given are those it records, but for the kind of the job; and a job
\* replies when it ends.
Fresh ==
  /\ pc = "upgrade" => patched = Patched(revision.values)
  /\ pc # "idle" => reply = "none"

\* Nothing writes the release between the read and the upgrade.
LEMMA FreshSteps ==
  ASSUME Inv, Fresh, [Next]_vars
  PROVE  Fresh'
<1> USE DEF Fresh, jobVars, helmVars, callVars
<1>1. CASE Read
  <2>1. /\ patched' = Patched(revision.values)
        /\ UNCHANGED <<revision, kind, job, reply>> /\ pc = "read" /\ pc' = "upgrade"
    BY <1>1 DEF Read
  <2> QED BY <2>1 DEF Patched, Wanted
<1>2. CASE Upgrade \/ Apply \/ ApplyFails \/ RolledOut \/ Ready \/ Backoff
  BY <1>2 DEF Upgrade, Apply, ApplyFails, Return, Reply, RolledOut, Ready, Backoff
<1>3. CASE ReadFails \/ UpgradeRefused \/ UpgradeFails \/ TimesOut \/ Killed \/ ReadyFails
  BY <1>3 DEF ReadFails, UpgradeRefused, UpgradeFails, TimesOut, Killed, ReadyFails, Return, Reply
<1>4. CASE Canceled \/ Restore \/ NextSpec \/ Crash
  BY <1>4 DEF Canceled, Reply, Restore, NextSpec, Start, Crash
<1>5. CASE Rollout \/ UNCHANGED vars
  BY <1>5 DEF Rollout, vars, Patched, Wanted
<1> QED BY <1>1, <1>2, <1>3, <1>4, <1>5 DEF Next, Work, Idle

LEMMA FreshInvariant == Spec => []Fresh
<1>1. Init => Fresh
  BY DEF Init, Fresh
<1> QED BY <1>1, FreshSteps, AdaptersInvariant, PTL DEF Spec

\* What the API may go by for a kind, and what a job that runs works on.
Held(k) == {revision.values[k], applied[k], serving[k]}
Task    == IF pc = "idle" THEN << >> ELSE <<kind, Wanted>>

\* A step moves as promised if no list is new but the job's.
LEMMA Moves ==
  ASSUME TypeOK, TypeOK',
         \A k \in Kinds : Held(k)' \subseteq Held(k) \union {l \in Lists : Task = <<k, l>>}
  PROVE  Promise!Move
<1>1. ASSUME NEW k \in Kinds PROVE Held(k)' \in (SUBSET Lists) \ {{}}
  <2>1. revision'.values[k] \in Lists /\ applied'[k] \in Lists /\ serving'[k] \in Lists
    BY DEF TypeOK, Values
  <2> QED BY <2>1 DEF Held
<1> QED BY <1>1 DEF Promise!Move, Held, Task

\* Every write of the release is within what the job may do.
LEMMA WritesMove ==
  ASSUME Inv, Fresh, TypeOK', [Next]_vars
  PROVE  Promise!Move
<1>1. \/ revision'.values = revision.values
      \/ pc = "upgrade" /\ revision'.values = Patched(revision.values)
  <2>1. CASE Upgrade
    BY <2>1 DEF Upgrade, Fresh
  <2>2. CASE ApplyFails \/ RolledOut \/ TimesOut
    BY <2>2 DEF ApplyFails, RolledOut, TimesOut, Inv, TypeOK
  <2>3. CASE ~(Upgrade \/ ApplyFails \/ RolledOut \/ TimesOut)
    BY <2>3 DEF Next, Work, vars, helmVars, Read, ReadFails, UpgradeRefused, UpgradeFails,
       Apply, Killed, Ready, ReadyFails, Backoff, Canceled, Rollout, Restore, NextSpec,
       Start, Crash, Idle
  <2> QED BY <2>1, <2>2, <2>3
<1>2. applied' \in {applied, revision.values}
  BY DEF Next, Work, vars, helmVars, Read, ReadFails, Upgrade, UpgradeRefused, UpgradeFails,
     Apply, ApplyFails, RolledOut, TimesOut, Killed, Ready, ReadyFails, Backoff, Canceled,
     Rollout, Restore, NextSpec, Start, Crash, Idle
<1>3. serving' \in {serving, applied}
  BY DEF Next, Work, vars, helmVars, Read, ReadFails, Upgrade, UpgradeRefused, UpgradeFails,
     Apply, ApplyFails, RolledOut, TimesOut, Killed, Ready, ReadyFails, Backoff, Canceled,
     Return, Rollout, Restore, NextSpec, Start, Crash, Idle
<1>4. ASSUME NEW k \in Kinds
      PROVE  Held(k)' \subseteq Held(k) \union {l \in Lists : Task = <<k, l>>}
  <2>1. revision'.values[k] \in Held(k) \union {l \in Lists : Task = <<k, l>>}
    <3>1. CASE revision'.values[k] = revision.values[k]
      BY <3>1 DEF Held
    <3>2. CASE revision'.values[k] # revision.values[k]
      <4>1. /\ pc = "upgrade" /\ k = kind /\ revision'.values[k] = Wanted
        BY <1>1, <3>2 DEF Patched, Inv, TypeOK, Values
      <4>2. Task = <<k, Wanted>> /\ Wanted \in Lists
        BY <4>1 DEF Task, Wanted, Lists
      <4> QED BY <4>1, <4>2
    <3> QED BY <3>1, <3>2
  <2>2. applied'[k] \in Held(k) /\ serving'[k] \in Held(k)
    BY <1>2, <1>3 DEF Held
  <2> QED BY <2>1, <2>2 DEF Held
<1> QED BY <1>4, Moves DEF Inv

\* The release as a whole is written for the sake of one kind: every step of the upgrades,
\* the rollouts and the crashes is a step of AdaptersPromise or invisible to the specs.
THEOREM OneKindIsWritten == Spec => OneKindAtATime
<1>1. Init => Promise!Init
  <2> SUFFICES ASSUME Init PROVE Promise!Init
    OBVIOUS
  <2>1. [k \in Kinds |-> Held(k)] = [k \in Kinds |-> {serving[k]}] /\ serving \in Values
    BY DEF Init, Held
  <2>2. [k \in Kinds |-> Held(k)] \in [Kinds -> {{list} : list \in Lists}]
    BY <2>1 DEF Values
  <2> QED BY <2>2 DEF Init, Promise!Init, Promise!NoTask, Held
<1>2. ASSUME Inv, Fresh, Inv', [Next]_vars PROVE [Promise!Next]_(Promise!vars)
  <2> USE DEF Promise!Next, Promise!vars, Promise!NoTask
  <2>1. Promise!Move
    BY <1>2, WritesMove DEF Inv
  <2>2. CASE Task' = Task /\ reply' = reply
    BY <2>1, <2>2 DEF Promise!Work, Task
  <2>3. CASE Restore \/ NextSpec
    <3>1. /\ UNCHANGED <<revision, applied, serving>>
          /\ pc = "idle" /\ pc' = "read" /\ reply' = "none"
      BY <2>3 DEF Restore, NextSpec, Start, helmVars
    <3>2. <<kind', Wanted'>> \in Kinds \X Lists
      BY <1>2 DEF Inv, TypeOK, Wanted, Lists
    <3> QED BY <3>1, <3>2 DEF Promise!Begin
  <2>4. CASE Ready
    <3>1. /\ UNCHANGED <<revision, applied, serving>>
          /\ pc = "ready" /\ pc' = "idle" /\ reply' = "nil"
      BY <2>4 DEF Ready, Reply, helmVars
    <3>2. revision.values[kind] = Wanted /\ applied = revision.values /\ serving = applied
      BY <1>2, <3>1 DEF Inv, Staged
    <3>3. kind \in Kinds /\ Wanted \in Lists
      BY <1>2 DEF Inv, TypeOK, Wanted, Lists
    <3> QED BY <3>1, <3>2, <3>3 DEF Promise!Succeed
  <2>5. CASE pc # "idle" /\ pc' = "idle" /\ reply' = "error"
    BY <2>1, <2>5 DEF Promise!GiveUp
  <2>6. CASE Crash
    BY <2>6 DEF Crash, helmVars, Promise!Die
  <2>7. CASE Rollout \/ Idle \/ UNCHANGED vars
    BY <2>2, <2>7 DEF Rollout, Idle, vars, jobVars, callVars, Task, Wanted
  <2>8. CASE Read \/ Upgrade \/ Apply \/ RolledOut \/ Backoff
    <3>1. UNCHANGED <<kind, job, reply>> /\ pc # "idle" /\ pc' # "idle"
      BY <2>8 DEF Read, Upgrade, Apply, RolledOut, Backoff, jobVars, callVars
    <3> QED BY <2>2, <3>1 DEF Task, Wanted
  <2>9. CASE \/ ReadFails \/ UpgradeRefused \/ UpgradeFails \/ ApplyFails
             \/ TimesOut \/ Killed \/ ReadyFails
    <3>1. pc # "idle" /\ UNCHANGED <<kind, job>>
      BY <2>9 DEF ReadFails, UpgradeRefused, UpgradeFails, ApplyFails, TimesOut, Killed,
         ReadyFails, Return, jobVars
    <3>2. \/ pc' = "backoff" /\ reply' = reply
          \/ pc' = "idle" /\ reply' = "error"
      BY <2>9 DEF ReadFails, UpgradeRefused, UpgradeFails, ApplyFails, TimesOut, Killed,
         ReadyFails, Return, Reply
    <3> QED BY <2>2, <2>5, <3>1, <3>2 DEF Task, Wanted
  <2>10. CASE Canceled
    BY <2>5, <2>10 DEF Canceled, Reply
  <2> QED BY <1>2, <2>3, <2>4, <2>6, <2>7, <2>8, <2>9, <2>10 DEF Next, Work
<1> QED
  BY <1>1, <1>2, AdaptersInvariant, FreshInvariant, PTL DEF Spec, OneKindAtATime, Promise!Spec

------------------------------------------------------------------------------
(* The end of a job                                                        *)

\* What a job has left is a rank, and more than nothing until it is idle.
LEMMA RemainingIsRank ==
  ASSUME TypeOK
  PROVE  /\ pc # "idle" => Remaining \in (Nat \ {0}) \X (1..6)
         /\ pc = "idle" => Remaining = <<0, 0>>
BY RequiredAdaptersAssumption DEF TypeOK, Remaining

\* An attempt that returns an error is the job's last, or costs one attempt.
LEMMA ReturnLowers ==
  ASSUME TypeOK, TypeOK', pc # "idle", NEW isFault \in BOOLEAN, Return(isFault)
  PROVE  Below(Remaining', Remaining)
<1> USE RequiredAdaptersAssumption
<1>1. \/ pc' = "idle"
      \/ pc' = "backoff" /\ attempt' = attempt + 1
  BY DEF Return, Reply
<1>2. Remaining \in (Nat \ {0}) \X (1..6)
  BY RemainingIsRank
<1>3. CASE pc' = "idle"
  <2>1. Remaining' = <<0, 0>>
    BY <1>3 DEF Remaining
  <2> QED BY <1>2, <2>1 DEF Below
<1>4. CASE pc' = "backoff" /\ attempt' = attempt + 1
  <2>1. Remaining'[1] = Remaining[1] - 1
    BY <1>4 DEF Remaining, TypeOK
  <2>2. Remaining' \in Nat \X Nat
    BY <1>4 DEF Remaining, TypeOK
  <2> QED BY <1>2, <2>1, <2>2 DEF Below
<1> QED BY <1>1, <1>3, <1>4

\* RestoreAPIRequiredAdaptersWithRetry and UpgradeAPIRequiredAdapters run out of work: every
\* step of a job leaves less of it, and going back for another attempt costs the attempt.
THEOREM JobsRunOut == Spec => WorkRunsOut
<1> DEFINE Down == pc # "idle" => UNCHANGED <<jobVars, pc, callVars>> \/ Below(Remaining', Remaining)
<1>1. TypeOK /\ TypeOK' /\ [Next]_vars => Down
  <2> SUFFICES ASSUME TypeOK, TypeOK', [Next]_vars, pc # "idle" PROVE Down
    OBVIOUS
  <2>0. Remaining \in (Nat \ {0}) \X (1..6)
    BY RemainingIsRank
  <2>1. CASE Read \/ Upgrade \/ Apply \/ RolledOut \/ Backoff
    <3>1. /\ attempt' = attempt
          /\ \/ pc = "read" /\ pc' = "upgrade"
             \/ pc = "upgrade" /\ pc' = "apply"
             \/ pc = "apply" /\ pc' = "rollout"
             \/ pc = "rollout" /\ pc' = "ready"
             \/ pc = "backoff" /\ pc' = "read"
      BY <2>1 DEF Read, Upgrade, Apply, RolledOut, Backoff, callVars
    <3>2. Remaining' \in (Nat \ {0}) \X (1..6)
      BY <3>1, RequiredAdaptersAssumption DEF Remaining, TypeOK
    <3>3. Remaining'[1] = Remaining[1] /\ Remaining'[2] < Remaining[2]
      BY <3>1 DEF Remaining
    <3> QED BY <2>0, <3>2, <3>3 DEF Below
  <2>2. CASE \/ ReadFails \/ UpgradeRefused \/ UpgradeFails \/ ApplyFails
             \/ TimesOut \/ Killed \/ ReadyFails
    <3>1. Return(TRUE) \/ Return(FALSE)
      BY <2>2 DEF ReadFails, UpgradeRefused, UpgradeFails, ApplyFails, TimesOut, Killed, ReadyFails
    <3> QED BY <3>1, ReturnLowers
  <2>3. CASE Ready \/ Canceled \/ Crash
    <3>1. pc' = "idle"
      BY <2>3 DEF Ready, Canceled, Crash, Reply
    <3>2. Remaining' = <<0, 0>>
      BY <3>1 DEF Remaining
    <3> QED BY <2>0, <3>2 DEF Below
  <2>4. CASE Rollout \/ Idle \/ UNCHANGED vars
    BY <2>4 DEF Rollout, Idle, vars, jobVars, callVars
  <2>5. ~Restore /\ ~NextSpec
    BY DEF Restore, NextSpec
  <2> QED BY <2>1, <2>2, <2>3, <2>4, <2>5 DEF Next, Work
<1> QED BY <1>1, TypeCorrect, PTL DEF Spec, WorkRunsOut
==============================================================================
