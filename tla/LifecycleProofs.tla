--------------------------- MODULE LifecycleProofs ---------------------------
(***************************************************************************)
(* Proofs about Lifecycle, for any number of required adapters.  Reached   *)
(* ties each adapter's report to what it has applied, which is why a       *)
(* report of the new generation cannot come from before the update;        *)
(* Removed ties the end of the resource to its adapters' namespaces.       *)
(***************************************************************************)
EXTENDS Lifecycle, TLAPS

BeforePatch == {"create", "executed", "reconciled", "reread", "active", "patch"}
Updated == {"observed", "settled", "delete"}
Deleted == {"finalized", "gone", "swept", "passed"}

\* Where the resource is when the spec is at a step.
Stage ==
  /\ pc = "create" => res.gen = 0
  /\ pc \in BeforePatch \ {"create"} => res.gen = 1
  /\ pc \in {"active", "patch"} \union Updated \union Deleted => expected = 2
  /\ pc \in Updated => res.gen = 2
  /\ pc \in BeforePatch \union Updated => ~res.deleting
  /\ pc \in Deleted => res.gen = 3 /\ res.deleting
  /\ pc \in {"swept", "passed"} => ~res.exists
  /\ res.gen # 0 /\ ~res.deleting => res.exists
  /\ res.gen = 0 => ~res.exists /\ ~res.deleting

\* What an adapter has reported and is about to report, against what it has applied.
Reached(a) ==
  /\ res.gen = 0 => work[a].phase = "idle"
  /\ report[a].gen <= res.gen /\ work[a].gen <= res.gen
  /\ Has("deaf", a) => report[a].gen <= 1 /\ work[a].gen <= 1
  /\ work[a].phase # "idle" => work[a].gen >= report[a].gen /\ work[a].gen >= 1
  /\ ~res.deleting =>
       /\ ~work[a].deleting /\ ~report[a].finalized
       /\ object[a].phase # "terminating" /\ object[a].gen <= res.gen
       /\ work[a].phase = "done" => object[a].phase = "active" /\ object[a].gen = work[a].gen
       /\ report[a].gen # 0 => object[a].phase = "active" /\ object[a].gen >= report[a].gen
  /\ pc \in {"settled", "delete"} => report[a].gen = res.gen

\* Once finalized, an adapter's namespace does not come back.
Removed(a) ==
  /\ Has("deaf", a) => ~work[a].deleting /\ ~report[a].finalized
  /\ work[a].phase = "done" /\ work[a].deleting => object[a].phase # "active"
  /\ report[a].finalized => /\ object[a].phase # "active"
                            /\ work[a].phase # "idle" => work[a].deleting
  /\ res.deleting /\ ~res.exists /\ defect # "hasty" => report[a].finalized
  /\ pc = "passed" /\ defect # "hasty" => object[a].phase = "absent"

\* On a system without a defect, what the API says follows from the reports.
Sound ==
  /\ \A a \in Adapters : report[a].gen # 0 /\ ~res.deleting => report[a].ok
  /\ res.exists /\ (\A a \in Adapters : Done(report, a)) =>
       /\ ~res.deleting
       /\ reconciled.status /\ reconciled.gen = res.gen
  /\ pc \in BeforePatch => reconciled.gen = 1 /\ lastKnown.gen = 1
  /\ pc \in BeforePatch /\ reconciled.status =>
       lastKnown.status /\ \A a \in Adapters : report[a].gen = 1 /\ report[a].ok
  /\ pc = "reread" => reconciled.status
  /\ pc = "failed" => lost

IInv ==
  /\ TypeOK
  /\ Stage
  /\ \A a \in Adapters : Reached(a) /\ Removed(a)
  /\ defect = "none" => Sound
------------------------------------------------------------------------------
(* Type correctness                                                        *)

LEMMA NextTyped == TypeOK /\ [Next]_vars /\ Stage => TypeOK'
<1> SUFFICES ASSUME TypeOK, [Next]_vars, Stage PROVE TypeOK'
  OBVIOUS
<1> USE DEF TypeOK, Generations
<1>1. CASE Create BY <1>1 DEF Create, Expect, After, Waits, Calls, world
<1>2. CASE Await BY <1>2 DEF Await, After, Waits, Calls, world, api
<1>3. CASE Reread
  <2>1. res.gen = 1 BY <1>3 DEF Reread, Stage, BeforePatch
  <2> QED BY <1>3, <2>1 DEF Reread, Expect, After, Waits, Calls, world, api
<1>4. CASE Patch
  <2>1. res.gen = 1 BY <1>4 DEF Patch, Stage, BeforePatch
  <2>2. reconciled' \in [status : BOOLEAN, gen : 0..3]
    <3>1. [status |-> FALSE, gen |-> res.gen + 1] \in [status : BOOLEAN, gen : 0..3] BY <2>1
    <3>2. reconciled' = reconciled \/ reconciled' = [status |-> FALSE, gen |-> res.gen + 1]
      BY <1>4 DEF Patch, NewGeneration
    <3> QED BY <3>1, <3>2
  <2>3. res' \in [gen : 0..3, deleting : BOOLEAN, exists : BOOLEAN] BY <1>4, <2>1 DEF Patch
  <2>4. pc' \in {"observed", "failed"} BY <1>4 DEF Patch, Expect, After
  <2> QED BY <1>4, <2>2, <2>3, <2>4 DEF Patch, NewGeneration, Waits, Calls, world
<1>5. CASE Delete
  <2>1. res.gen = 2 BY <1>5 DEF Delete, Stage, Updated
  <2>2. reconciled' \in [status : BOOLEAN, gen : 0..3]
    <3>1. [status |-> FALSE, gen |-> res.gen + 1] \in [status : BOOLEAN, gen : 0..3] BY <2>1
    <3>2. reconciled' = reconciled \/ reconciled' = [status |-> FALSE, gen |-> res.gen + 1]
      BY <1>5 DEF Delete, NewGeneration
    <3> QED BY <3>1, <3>2
  <2>3. res' \in [gen : 0..3, deleting : BOOLEAN, exists : BOOLEAN] BY <1>5, <2>1 DEF Delete
  <2>4. pc' \in {"finalized", "failed"} BY <1>5 DEF Delete, Expect, After
  <2> QED BY <1>5, <2>2, <2>3, <2>4 DEF Delete, NewGeneration, Waits, Calls, world
<1>6. CASE CallFails BY <1>6 DEF CallFails, world, api
<1>7. CASE TimeOut BY <1>7 DEF TimeOut, world, api
<1>8. ASSUME NEW a \in Adapters, Read(a) PROVE TypeOK'
  BY <1>8 DEF Read, spec, api
<1>9. ASSUME NEW a \in Adapters, Apply(a) PROVE TypeOK'
  <2>1. work[a].gen \in 0..3 /\ work[a].deleting \in BOOLEAN OBVIOUS
  <2>2. object' \in [Adapters -> [phase : {"absent", "active", "terminating"}, gen : 0..3]]
    BY <1>9, <2>1 DEF Apply
  <2>3. work' \in [Adapters -> [phase : {"idle", "read", "done"}, gen : 0..3, deleting : BOOLEAN]]
    BY <1>9, <2>1 DEF Apply
  <2> QED BY <1>9, <2>2, <2>3 DEF Apply, spec, api
<1>10. ASSUME NEW a \in Adapters, Terminated(a) PROVE TypeOK'
  BY <1>10 DEF Terminated, spec, api
<1>11. ASSUME NEW a \in Adapters, Report(a) PROVE TypeOK'
  <2>1. work' \in [Adapters -> [phase : {"idle", "read", "done"}, gen : 0..3, deleting : BOOLEAN]]
    BY <1>11 DEF Report
  <2>3. CASE ~res.exists BY <1>11, <2>1, <2>3 DEF Report, spec, api
  <2>4. ASSUME NEW ok \in BOOLEAN, report' = [report EXCEPT ![a] = StatusOf(a, ok)],
               Aggregate(report')
        PROVE  TypeOK'
    <3>1. StatusOf(a, ok) \in [gen : 0..3, ok : BOOLEAN, finalized : BOOLEAN]
      BY DEF StatusOf, Has
    <3>2. report' \in [Adapters -> [gen : 0..3, ok : BOOLEAN, finalized : BOOLEAN]]
      BY <2>4, <3>1
    <3>3. reconciled' \in [status : BOOLEAN, gen : 0..3] BY <2>4 DEF Aggregate, Done
    <3>4. lastKnown' \in [status : BOOLEAN, gen : 0..3] BY <2>4, <3>3 DEF Aggregate
    <3>5. res' \in [gen : 0..3, deleting : BOOLEAN, exists : BOOLEAN] BY <2>4 DEF Aggregate
    <3> QED BY <1>11, <2>1, <3>2, <3>3, <3>4, <3>5 DEF Report, spec
  <2> QED BY <1>11, <2>3, <2>4 DEF Report
<1>12. CASE UNCHANGED vars BY <1>12 DEF vars, spec, api, world
<1> QED BY <1>1, <1>2, <1>3, <1>4, <1>5, <1>6, <1>7, <1>8, <1>9, <1>10, <1>11, <1>12
        DEF Next, Proceed, Adapter

------------------------------------------------------------------------------
(* The steps                                                               *)

\* What the steps of the spec leave alone, and what they do to the resource.
LEMMA SpecStep ==
  ASSUME TypeOK, Stage, Proceed \/ CallFails \/ TimeOut
  PROVE  /\ UNCHANGED <<report, lastKnown, work, object, defect, faulty>>
         /\ \/ UNCHANGED <<res, reconciled>>
            \/ /\ pc = "create" /\ res.gen = 0 /\ UNCHANGED reconciled
               /\ res' = [gen |-> 1, deleting |-> FALSE, exists |-> TRUE]
               /\ pc' = "executed"
            \/ /\ pc = "patch" /\ res.gen = 1 /\ ~res.deleting /\ expected = 2
               /\ res' = [gen |-> 2, deleting |-> FALSE, exists |-> res.exists]
               /\ pc' = "observed"
            \/ /\ pc = "delete" /\ res.gen = 2 /\ ~res.deleting /\ expected = 2
               /\ res' = [gen |-> 3, deleting |-> TRUE, exists |-> res.exists]
               /\ pc' = "finalized"
<1>1. CASE Create
  BY <1>1 DEF Create, Expect, After, world, Stage
<1>2. CASE Await \/ Reread \/ CallFails \/ TimeOut
  BY <1>2 DEF Await, Reread, CallFails, TimeOut, world, api
<1>3. CASE Patch
  <2>1. res.gen = 1 /\ ~res.deleting /\ expected = 2 /\ pc = "patch"
    BY <1>3 DEF Patch, Stage, BeforePatch
  <2>2. res' = [gen |-> 2, deleting |-> FALSE, exists |-> res.exists]
    <3>1. res.gen + 1 = 2 BY <2>1
    <3>2. res.deleting = FALSE BY <2>1 DEF TypeOK
    <3> QED BY <1>3, <3>1, <3>2 DEF Patch
  <2>3. pc' = "observed" BY <1>3, <2>1, <2>2 DEF Patch, Expect, After
  <2> QED BY <1>3, <2>1, <2>2, <2>3 DEF Patch, NewGeneration, world
<1>4. CASE Delete
  <2>1. res.gen = 2 /\ ~res.deleting /\ expected = 2 /\ pc = "delete"
    BY <1>4 DEF Delete, Stage, Updated
  <2>2. res' = [gen |-> 3, deleting |-> TRUE, exists |-> res.exists]
    <3>1. res.gen + 1 = 3 BY <2>1
    <3> QED BY <1>4, <2>1, <3>1 DEF Delete
  <2>3. pc' = "finalized" BY <1>4, <2>1, <2>2 DEF Delete, Expect, After
  <2> QED BY <1>4, <2>1, <2>2, <2>3 DEF Delete, NewGeneration, world
<1> QED BY <1>1, <1>2, <1>3, <1>4 DEF Proceed

\* What a report does to the resource: nothing, but for its removal.
LEMMA ReportStep ==
  ASSUME TypeOK, NEW a \in Adapters, Report(a)
  PROVE  /\ work[a].phase = "done"
         /\ work' = [work EXCEPT ![a] = [phase |-> "idle", gen |-> 0, deleting |-> FALSE]]
         /\ UNCHANGED <<pc, expected, object, defect, faulty, lost>>
         /\ \/ ~res.exists /\ UNCHANGED api
            \/ /\ res.exists
               /\ \E ok \in BOOLEAN :
                    /\ report' = [report EXCEPT ![a] = StatusOf(a, ok)]
                    /\ ~work[a].deleting /\ ~Has("flapping", a) => ok
               /\ Aggregate(report')
               /\ res'.gen = res.gen /\ res'.deleting = res.deleting
<1>1. /\ work[a].phase = "done"
      /\ work' = [work EXCEPT ![a] = [phase |-> "idle", gen |-> 0, deleting |-> FALSE]]
      /\ UNCHANGED <<pc, expected, object, defect, faulty, lost>>
  BY DEF Report, spec
<1>2. CASE ~res.exists /\ UNCHANGED api BY <1>1, <1>2
<1>3. ASSUME res.exists,
             NEW ok \in IF work[a].deleting THEN {FALSE}
                        ELSE IF Has("flapping", a) THEN BOOLEAN ELSE {TRUE},
             report' = [report EXCEPT ![a] = StatusOf(a, ok)], Aggregate(report')
      PROVE  /\ \E k \in BOOLEAN :
                  /\ report' = [report EXCEPT ![a] = StatusOf(a, k)]
                  /\ ~work[a].deleting /\ ~Has("flapping", a) => k
             /\ res'.gen = res.gen /\ res'.deleting = res.deleting
  <2>1. ok \in BOOLEAN /\ (~work[a].deleting /\ ~Has("flapping", a) => ok)
    BY <1>3
  <2>2. res'.gen = res.gen /\ res'.deleting = res.deleting BY <1>3 DEF Aggregate, TypeOK
  <2> QED BY <1>3, <2>1, <2>2
<1> QED BY <1>1, <1>2, <1>3 DEF Report

LEMMA NextStage == TypeOK /\ Stage /\ [Next]_vars => Stage'
<1> SUFFICES ASSUME TypeOK, Stage, [Next]_vars PROVE Stage'
  OBVIOUS
<1> USE DEF Stage, BeforePatch, Updated, Deleted
<1>1. CASE Await
  <2>1. UNCHANGED <<expected, res>> /\ pc \in Waits /\ Holds(pc) /\ pc' = After[pc]
    BY <1>1 DEF Await, api
  <2>2. pc = "gone" => ~res.exists BY <2>1 DEF Holds, GetStatus
  <2>3. \/ (pc = "executed" /\ pc' = "reconciled") \/ (pc = "reconciled" /\ pc' = "reread")
        \/ (pc = "active" /\ pc' = "patch") \/ (pc = "observed" /\ pc' = "settled")
        \/ (pc = "settled" /\ pc' = "delete") \/ (pc = "finalized" /\ pc' = "gone")
        \/ (pc = "gone" /\ pc' = "swept") \/ (pc = "swept" /\ pc' = "passed")
    <3>1. /\ After["executed"] = "reconciled" /\ After["reconciled"] = "reread"
          /\ After["active"] = "patch" /\ After["observed"] = "settled"
          /\ After["settled"] = "delete" /\ After["finalized"] = "gone"
          /\ After["gone"] = "swept" /\ After["swept"] = "passed"
      BY DEF After
    <3>2. pc' = After[pc] /\ pc \in Waits BY <2>1
    <3> QED BY <3>1, <3>2 DEF Waits
  <2> QED BY <2>1, <2>2, <2>3
<1>2. CASE Reread
  <2>1. UNCHANGED res /\ expected' = 2 /\ pc = "reread" /\ pc' \in {"active", "failed"}
    BY <1>2 DEF Reread, Expect, After, api
  <2> QED BY <2>1
<1>3. CASE Create BY <1>3, SpecStep DEF Create, Proceed
<1>4. CASE Patch
  <2>1. expected' = expected BY <1>4 DEF Patch
  <2>2. /\ expected = 2 /\ pc' = "observed"
        /\ res' = [gen |-> 2, deleting |-> FALSE, exists |-> res.exists]
    <3>1. pc = "patch" /\ Proceed BY <1>4 DEF Patch, Proceed
    <3>2. res'.gen # res.gen BY <1>4 DEF Patch, TypeOK, Generations
    <3> QED BY <3>1, <3>2, SpecStep
  <2>3. res.exists BY <1>4 DEF Patch
  <2> QED BY <2>1, <2>2, <2>3
<1>5. CASE Delete
  <2>1. expected' = expected /\ pc = "delete" BY <1>5 DEF Delete
  <2>2. /\ expected = 2 /\ pc' = "finalized"
        /\ res' = [gen |-> 3, deleting |-> TRUE, exists |-> res.exists]
    <3>1. pc = "delete" /\ Proceed BY <1>5 DEF Delete, Proceed
    <3>2. res'.gen # res.gen BY <1>5 DEF Delete, TypeOK, Generations
    <3> QED BY <3>1, <3>2, SpecStep
  <2>3. res.exists BY <1>5 DEF Delete
  <2> QED BY <2>1, <2>2, <2>3
<1>6. CASE CallFails \/ TimeOut BY <1>6 DEF CallFails, TimeOut, api
<1>7. ASSUME NEW a \in Adapters, Read(a) \/ Apply(a) \/ Terminated(a) PROVE Stage'
  BY <1>7 DEF Read, Apply, Terminated, spec, api
<1>8. ASSUME NEW a \in Adapters, Report(a) PROVE Stage'
  <2>1. CASE ~res.exists /\ UNCHANGED api BY <1>8, <2>1, ReportStep DEF api
  <2>2. CASE res.exists /\ Aggregate(report')
    <3>1. res'.gen = res.gen /\ res'.deleting = res.deleting /\ UNCHANGED <<pc, expected>>
      BY <1>8, <2>2, ReportStep
    <3>2. ~res.deleting => res'.exists BY <2>2 DEF Aggregate, TypeOK
    <3> QED BY <2>2, <3>1, <3>2
  <2> QED BY <1>8, <2>1, <2>2, ReportStep
<1>9. CASE UNCHANGED vars BY <1>9 DEF vars, spec, api
<1> QED BY <1>1, <1>2, <1>3, <1>4, <1>5, <1>6, <1>7, <1>8, <1>9
        DEF Next, Proceed, Adapter

\* The numbers the provers need of an adapter's state.
LEMMA Numbers ==
  ASSUME TypeOK, NEW a \in Adapters
  PROVE  /\ res.gen \in 0..3 /\ report[a].gen \in 0..3
         /\ work[a].gen \in 0..3 /\ object[a].gen \in 0..3
         /\ res.deleting \in BOOLEAN /\ res.exists \in BOOLEAN
         /\ work[a].deleting \in BOOLEAN /\ report[a].finalized \in BOOLEAN
         /\ work[a].phase \in {"idle", "read", "done"}
         /\ object[a].phase \in {"absent", "active", "terminating"}
BY DEF TypeOK, Generations

\* A step of one adapter leaves the others alone.
LEMMA OthersStay ==
  ASSUME TypeOK, NEW a \in Adapters, Adapter(a) \/ Terminated(a), NEW b \in Adapters, a # b
  PROVE  work'[b] = work[b] /\ object'[b] = object[b] /\ report'[b] = report[b]
<1>1. CASE Read(a) BY <1>1 DEF Read, api, TypeOK
<1>2. CASE Apply(a) BY <1>2 DEF Apply, api, TypeOK
<1>3. CASE Terminated(a) BY <1>3 DEF Terminated, api, TypeOK
<1>4. CASE Report(a) BY <1>4, ReportStep DEF api, TypeOK
<1> QED BY <1>1, <1>2, <1>3, <1>4 DEF Adapter

\* What each of its steps does to the adapter that takes it.
LEMMA OwnStep ==
  ASSUME TypeOK, NEW a \in Adapters
  PROVE  /\ Read(a) =>
              /\ work[a].phase = "idle" /\ res.exists
              /\ work'[a].phase = "read"
              /\ Has("deaf", a) => work'[a].gen = 1 /\ ~work'[a].deleting
              /\ ~Has("deaf", a) => work'[a].gen = res.gen /\ (work'[a].deleting <=> res.deleting)
              /\ UNCHANGED <<pc, res, report, object>>
         /\ Apply(a) =>
              /\ work[a].phase = "read" /\ work'[a].phase = "done"
              /\ work'[a].gen = work[a].gen /\ work'[a].deleting = work[a].deleting
              /\ work[a].deleting => object'[a].phase # "active" /\ object'[a].gen = object[a].gen
              /\ work[a].deleting /\ object[a].phase = "absent" => object'[a].phase = "absent"
              /\ ~work[a].deleting => object'[a].phase = "active" /\ object'[a].gen = work[a].gen
              /\ UNCHANGED <<pc, res, report>>
         /\ Terminated(a) =>
              /\ object[a].phase = "terminating"
              /\ object'[a].phase = "absent" /\ object'[a].gen = 0
              /\ UNCHANGED <<pc, res, report, work>>
<1>1. ASSUME Read(a)
      PROVE  /\ work[a].phase = "idle" /\ res.exists
             /\ work'[a].phase = "read"
             /\ Has("deaf", a) => work'[a].gen = 1 /\ ~work'[a].deleting
             /\ ~Has("deaf", a) => work'[a].gen = res.gen /\ (work'[a].deleting <=> res.deleting)
             /\ UNCHANGED <<pc, res, report, object>>
  <2>1. CASE Has("deaf", a) BY <1>1, <2>1 DEF Read, spec, api, TypeOK
  <2>2. CASE ~Has("deaf", a)
    <3>1. work'[a] = [phase |-> "read", gen |-> res.gen, deleting |-> res.deleting]
      BY <1>1, <2>2 DEF Read, TypeOK
    <3>2. work'[a].gen = res.gen /\ work'[a].phase = "read" /\ work'[a].deleting = res.deleting
      BY <3>1
    <3> QED BY <1>1, <2>2, <3>2 DEF Read, spec, api
  <2> QED BY <2>1, <2>2
<1>2. ASSUME Apply(a)
      PROVE  /\ work[a].phase = "read" /\ work'[a].phase = "done"
             /\ work'[a].gen = work[a].gen /\ work'[a].deleting = work[a].deleting
             /\ UNCHANGED <<pc, res, report>>
  BY <1>2 DEF Apply, spec, api, TypeOK
<1>3. ASSUME Apply(a), work[a].deleting
      PROVE  /\ object'[a].phase # "active" /\ object'[a].gen = object[a].gen
             /\ object[a].phase = "absent" => object'[a].phase = "absent"
  BY <1>3 DEF Apply, TypeOK
<1>4. ASSUME Apply(a), ~work[a].deleting
      PROVE  object'[a].phase = "active" /\ object'[a].gen = work[a].gen
  BY <1>4 DEF Apply, TypeOK
<1>5. ASSUME Terminated(a)
      PROVE  /\ object[a].phase = "terminating"
             /\ object'[a].phase = "absent" /\ object'[a].gen = 0
             /\ UNCHANGED <<pc, res, report, work>>
  BY <1>5 DEF Terminated, spec, api, TypeOK
<1> QED BY <1>1, <1>2, <1>3, <1>4, <1>5

LEMMA OwnReport ==
  ASSUME TypeOK, NEW a \in Adapters, Report(a)
  PROVE  /\ work[a].phase = "done"
         /\ work'[a].phase = "idle" /\ work'[a].gen = 0 /\ ~work'[a].deleting
         /\ UNCHANGED <<pc, object>> /\ res'.gen = res.gen /\ res'.deleting = res.deleting
         /\ \/ UNCHANGED <<res, report>>
            \/ /\ report'[a].gen = work[a].gen
               /\ report'[a].finalized <=>
                    work[a].deleting /\ (object[a].phase = "absent" \/ Has("early", a))
<1>1. work'[a].phase = "idle" /\ work'[a].gen = 0 /\ ~work'[a].deleting
  BY ReportStep DEF TypeOK
<1>2. ASSUME NEW ok \in BOOLEAN, report' = [report EXCEPT ![a] = StatusOf(a, ok)]
      PROVE  /\ report'[a].gen = work[a].gen
             /\ report'[a].finalized <=>
                  work[a].deleting /\ (object[a].phase = "absent" \/ Has("early", a))
  <2>1. report'[a] = StatusOf(a, ok) BY <1>2 DEF TypeOK
  <2>2. /\ StatusOf(a, ok).gen = work[a].gen
        /\ StatusOf(a, ok).finalized =
             (work[a].deleting /\ (object[a].phase = "absent" \/ Has("early", a)))
    BY DEF StatusOf
  <2> QED BY <2>1, <2>2
<1> QED BY <1>1, <1>2, ReportStep DEF api

LEMMA NextReached ==
  ASSUME TypeOK, Stage, \A a \in Adapters : Reached(a), [Next]_vars, NEW b \in Adapters
  PROVE  Reached(b)'
<1>0. Reached(b) OBVIOUS
<1>1. CASE Proceed \/ CallFails \/ TimeOut
  <2>1. UNCHANGED <<report, work, object, defect, faulty>> BY <1>1, SpecStep
  <2>2. CASE UNCHANGED res /\ (pc' \in {"settled", "delete"} => pc \in {"settled", "delete"})
    BY <1>0, <2>1, <2>2 DEF Reached, Has
  <2>3. CASE UNCHANGED res /\ pc' \in {"settled", "delete"} /\ pc \notin {"settled", "delete"}
    <3>1. pc = "observed" /\ Holds(pc)
      BY <1>1, <2>3 DEF Proceed, Create, Await, Reread, Patch, Delete, CallFails, TimeOut, Expect,
                       After, Waits, Calls
    <3>2. report[b].gen = res.gen
      BY <3>1 DEF Holds, HaveAllAdaptersAtGeneration, Stage, Updated
    <3> QED BY <1>0, <2>1, <2>3, <3>2 DEF Reached, Has
  <2>4. CASE ~UNCHANGED res
    <3>1. /\ res.gen < res'.gen /\ pc' \in {"executed", "observed", "finalized"}
          /\ res'.gen \in 1..3 /\ (~res'.deleting => ~res.deleting)
      BY <1>1, <2>4, SpecStep DEF Stage, BeforePatch
    <3> QED BY <1>0, <2>1, <3>1, Numbers DEF Reached, Has
  <2> QED BY <2>2, <2>3, <2>4
<1>2. ASSUME NEW a \in Adapters, a # b, Adapter(a) \/ Terminated(a) PROVE Reached(b)'
  <2>1. work'[b] = work[b] /\ object'[b] = object[b] /\ report'[b] = report[b]
    BY <1>2, OthersStay
  <2>2. /\ UNCHANGED <<pc, defect, faulty>>
        /\ res'.gen = res.gen /\ res'.deleting = res.deleting
    BY <1>2, ReportStep DEF Adapter, Read, Apply, Terminated, spec, api
  <2> QED BY <1>0, <2>1, <2>2 DEF Reached, Has
<1>3. CASE Read(b)
  <2>1. UNCHANGED <<defect, faulty>> BY <1>3 DEF Read
  <2>2. res.gen \in 1..3
    <3>1. res.gen # 0 BY <1>3, OwnStep DEF Stage
    <3> QED BY <3>1, Numbers
  <2>3. /\ work[b].phase = "idle" /\ work'[b].phase = "read"
        /\ report[b].gen <= work'[b].gen /\ work'[b].gen \in 1..3 /\ work'[b].gen <= res.gen
        /\ Has("deaf", b) => work'[b].gen = 1
        /\ ~res.deleting => ~work'[b].deleting
        /\ UNCHANGED <<pc, res, report, object>>
    <3>1. CASE Has("deaf", b) BY <1>0, <1>3, <2>2, <3>1, OwnStep, Numbers DEF Reached
    <3>2. CASE ~Has("deaf", b) BY <1>0, <1>3, <2>2, <3>2, OwnStep, Numbers DEF Reached
    <3> QED BY <3>1, <3>2
  <2> QED BY <1>0, <2>1, <2>2, <2>3, Numbers DEF Reached, Has
<1>4. CASE Apply(b)
  <2>1. UNCHANGED <<defect, faulty>> BY <1>4 DEF Apply
  <2> QED BY <1>0, <1>4, <2>1, OwnStep, Numbers DEF Reached, Has
<1>5. CASE Terminated(b)
  <2>1. UNCHANGED <<defect, faulty>> BY <1>5 DEF Terminated
  <2> QED BY <1>0, <1>5, <2>1, OwnStep, Numbers DEF Reached, Has
<1>6. CASE Report(b)
  <2>1. UNCHANGED <<defect, faulty>> BY <1>6, ReportStep
  <2> QED BY <1>0, <1>6, <2>1, OwnReport, Numbers DEF Reached, Has
<1>7. CASE UNCHANGED vars
  BY <1>0, <1>7 DEF vars, spec, api, world, Reached, Has
<1> QED BY <1>1, <1>2, <1>3, <1>4, <1>5, <1>6, <1>7 DEF Next, Adapter

LEMMA NextRemoved ==
  ASSUME TypeOK, Stage, \A a \in Adapters : Reached(a) /\ Removed(a), [Next]_vars,
         NEW b \in Adapters
  PROVE  Removed(b)'
<1>0. Reached(b) /\ Removed(b) OBVIOUS
<1>1. CASE Proceed \/ CallFails \/ TimeOut
  <2>1. UNCHANGED <<report, work, object, defect, faulty>> BY <1>1, SpecStep
  <2>2. CASE UNCHANGED res
    <3>1. CASE pc' = "passed" /\ pc # "passed"
      <4>1. pc = "swept" /\ Holds(pc)
        BY <1>1, <3>1 DEF Proceed, Create, Await, Reread, Patch, Delete, CallFails, TimeOut, Expect,
                         After, Waits, Calls
      <4>2. object[b].phase = "absent" BY <4>1 DEF Holds, NamespacesByPrefix
      <4> QED BY <1>0, <2>1, <2>2, <4>2 DEF Removed, Has
    <3>2. CASE ~(pc' = "passed" /\ pc # "passed") BY <1>0, <2>1, <2>2, <3>2 DEF Removed, Has
    <3> QED BY <3>1, <3>2
  <2>3. CASE ~UNCHANGED res
    <3>1. pc' # "passed" /\ (res'.deleting /\ ~res'.exists => FALSE)
      BY <1>1, <2>3, SpecStep DEF Stage
    <3> QED BY <1>0, <2>1, <3>1 DEF Removed, Has
  <2> QED BY <2>2, <2>3
<1>2. ASSUME NEW a \in Adapters, Report(a) PROVE Removed(b)'
  <2>1. UNCHANGED <<pc, object, defect, faulty>> BY <1>2, ReportStep
  <2>2. /\ (work'[b].phase = work[b].phase /\ work'[b].deleting = work[b].deleting)
           \/ (work'[b].phase = "idle" /\ ~work'[b].deleting)
    BY <1>2, OwnReport, OthersStay DEF Adapter
  <2>3. CASE ~res.exists /\ UNCHANGED api
    BY <1>0, <2>1, <2>2, <2>3 DEF Removed, Has, api
  <2>4. CASE res.exists /\ Aggregate(report')
    <3>1. /\ report'[b].finalized =>
              report[b].finalized \/ (work[b].deleting /\ object[b].phase # "active")
          /\ Has("deaf", b) => ~report'[b].finalized
      <4>1. CASE a = b
        <5>1. work[b].deleting => object[b].phase # "active"
          BY <1>0, <1>2, <4>1, ReportStep DEF Removed
        <5>2. report'[b].finalized => report[b].finalized \/ work[b].deleting
          BY <1>2, <4>1, OwnReport
        <5>3. Has("deaf", b) => ~work[b].deleting /\ ~report[b].finalized BY <1>0 DEF Removed
        <5> QED BY <5>1, <5>2, <5>3
      <4>2. CASE a # b
        <5>1. report'[b] = report[b] BY <1>2, <4>2, OthersStay DEF Adapter
        <5> QED BY <1>0, <5>1 DEF Removed
      <4> QED BY <4>1, <4>2
    <3>2. res'.deleting /\ ~res'.exists /\ defect # "hasty" => report'[b].finalized
      <4>1. ~res'.exists /\ defect # "hasty" =>
              res.deleting /\ \A c \in Adapters : Done(report', c)
        BY <2>4 DEF Aggregate, TypeOK
      <4> QED BY <4>1 DEF Done
    <3>3. pc = "passed" => ~res.exists BY DEF Stage
    <3> QED BY <1>0, <2>1, <2>2, <2>4, <3>1, <3>2, <3>3 DEF Removed, Has
  <2> QED BY <1>2, <2>3, <2>4, ReportStep
<1>3. ASSUME NEW a \in Adapters, a # b, Read(a) \/ Apply(a) \/ Terminated(a) PROVE Removed(b)'
  <2>1. work'[b] = work[b] /\ object'[b] = object[b] /\ report'[b] = report[b]
    BY <1>3, OthersStay DEF Adapter
  <2>2. UNCHANGED <<pc, res, defect, faulty>>
    BY <1>3 DEF Read, Apply, Terminated, spec, api
  <2> QED BY <1>0, <2>1, <2>2 DEF Removed, Has
<1>4. CASE Read(b)
  <2>1. UNCHANGED <<defect, faulty>> BY <1>4 DEF Read
  <2>2. report[b].finalized => res.deleting BY <1>0 DEF Reached
  <2> QED BY <1>0, <1>4, <2>1, <2>2, OwnStep DEF Removed, Has
<1>5. CASE Apply(b)
  <2>1. UNCHANGED <<defect, faulty>> BY <1>5 DEF Apply
  <2>2. pc = "passed" /\ defect # "hasty" => report[b].finalized
    BY <1>0 DEF Removed, Stage, Deleted
  <2> QED BY <1>0, <1>5, <2>1, <2>2, OwnStep DEF Removed, Has
<1>6. CASE Terminated(b)
  <2>1. UNCHANGED <<defect, faulty>> BY <1>6 DEF Terminated
  <2> QED BY <1>0, <1>6, <2>1, OwnStep DEF Removed, Has
<1>7. CASE UNCHANGED vars
  BY <1>0, <1>7 DEF vars, spec, api, world, Removed, Has
<1> QED BY <1>1, <1>2, <1>3, <1>4, <1>5, <1>6, <1>7 DEF Next, Adapter

------------------------------------------------------------------------------
(* No false alarm                                                          *)

\* What an adapter has reported for the resource's generation, it has reported in full.
LEMMA SettledIsDone ==
  ASSUME TypeOK, Stage, Sound, res.exists, \A a \in Adapters : UpToDate(a)
  PROVE  \A a \in Adapters : Done(report, a)
<1>1. res.gen # 0 BY DEF Stage
<1>2. ASSUME NEW a \in Adapters PROVE Done(report, a)
  <2>1. report[a].gen = res.gen /\ (res.deleting => report[a].finalized) BY DEF UpToDate
  <2>2. ~res.deleting => report[a].ok BY <1>1, <2>1 DEF Sound
  <2> QED BY <2>1, <2>2 DEF Done
<1> QED BY <1>2

LEMMA SettledHolds ==
  ASSUME TypeOK, Stage, \A a \in Adapters : Reached(a) /\ Removed(a), Sound, defect = "none",
         pc \in Waits, \A a \in Adapters : UpToDate(a)
  PROVE  Holds(pc)
<1> DEFINE AllDone == \A a \in Adapters : Done(report, a)
<1>1. Success \in Adapters BY LifecycleAssumption
<1>2. GetStatus = (IF res.exists THEN 200 ELSE 404) /\ (res.exists => GetResource = NoError)
      /\ (~res.exists => IsHTTPStatus(GetResource, 404))
  BY DEF GetStatus, GetResource, HandleHTTPResponse, NoError, IsHTTPStatus
<1>3. res.exists => AllDone BY SettledIsDone
<1>4. res.exists => ~res.deleting /\ reconciled.status /\ reconciled.gen = res.gen
  BY <1>3 DEF Sound
<1>5. res.exists => HaveAllAdaptersAtGeneration(res.gen)
  BY <1>3, <1>4 DEF Done, HaveAllAdaptersAtGeneration
<1>6. CASE pc \in {"executed", "reconciled", "active"}
  <2>1. res.gen = 1 /\ ~res.deleting /\ res.exists BY <1>6 DEF Stage, BeforePatch
  <2>2. VerifyNamespaceActive
    <3>1. report[Success].gen = 1 BY <1>1, <1>3, <2>1 DEF Done
    <3>2. Reached(Success) BY <1>1
    <3> QED BY <1>1, <2>1, <3>1, <3>2, Numbers DEF Reached, VerifyNamespaceActive
  <2> QED BY <1>2, <1>4, <1>5, <1>6, <2>1, <2>2 DEF Holds, HaveCondition
<1>7. CASE pc \in {"observed", "settled"}
  <2>1. res.gen = 2 /\ expected = 2 /\ res.exists BY <1>7 DEF Stage, Updated
  <2> QED BY <1>2, <1>4, <1>5, <1>7, <2>1 DEF Holds, ReconciledAt, HaveCondition
<1>8. CASE pc \in {"finalized", "gone", "swept"}
  <2>1. res.deleting /\ ~res.exists BY <1>4, <1>8 DEF Stage, Deleted
  <2>2. \A a \in Adapters : object[a].phase = "absent"
    <3> SUFFICES ASSUME NEW a \in Adapters PROVE object[a].phase = "absent"
      OBVIOUS
    <3>1. report[a].finalized /\ object[a].phase # "active" BY <2>1 DEF Removed
    <3>2. object[a].phase # "terminating" BY DEF UpToDate
    <3> QED BY <3>1, <3>2, Numbers
  <2> QED BY <1>2, <1>8, <2>1, <2>2 DEF Holds, FinalizedOrGone, NamespacesByPrefix
<1> QED BY <1>6, <1>7, <1>8 DEF Waits

LEMMA NextSound ==
  ASSUME TypeOK, Stage, \A a \in Adapters : Reached(a) /\ Removed(a), Sound, defect = "none",
         [Next]_vars
  PROVE  Sound'
<1>1. Success \in Adapters BY LifecycleAssumption
<1>2. CASE Proceed \/ CallFails \/ TimeOut
  <2>1. UNCHANGED <<report, lastKnown>> BY <1>2, SpecStep
  <2>2. pc' = "failed" => lost'
    <3>1. CASE CallFails BY <3>1 DEF CallFails
    <3>2. CASE TimeOut BY <3>2, SettledHolds DEF TimeOut
    <3>3. CASE Reread
      <4>1. res.gen = 1 /\ res.exists /\ reconciled.gen = 1 /\ lastKnown.gen = 1
            /\ reconciled.status /\ lastKnown.status /\ \A a \in Adapters : report[a].ok
        BY <3>3 DEF Reread, Stage, Sound, BeforePatch
      <4>2. GetResource = NoError
        BY <4>1 DEF GetResource, GetStatus, HandleHTTPResponse, NoError
      <4>3. pc' = "active" BY <3>3, <4>1, <4>2 DEF Reread, Expect, After, HaveCondition
      <4> QED BY <4>3
    <3>4. CASE Await BY <3>4, SpecStep DEF Await, Waits, After
    <3>5. CASE Create \/ Patch \/ Delete
      <4>1. ~UNCHANGED res
        BY <3>5 DEF Create, Patch, Delete, TypeOK, Generations, Stage
      <4> QED BY <1>2, <4>1, SpecStep
    <3> QED BY <1>2, <3>1, <3>2, <3>3, <3>4, <3>5 DEF Proceed
  <2>3. CASE UNCHANGED <<res, reconciled>>
    <3>1. pc' \in BeforePatch => pc \in BeforePatch
      BY <1>2, <2>3 DEF Proceed, Create, Await, Reread, Patch, Delete, CallFails, TimeOut, Expect,
                       After, Waits, Calls, BeforePatch
    <3>2. pc' = "reread" => reconciled.status
      <4>1. pc' = "reread" => pc = "reconciled" /\ Holds(pc)
        BY <1>2, <2>3 DEF Proceed, Create, Await, Reread, Patch, Delete, CallFails, TimeOut, Expect,
                         After, Waits, Calls
      <4> QED BY <4>1 DEF Holds, HaveCondition
    <3> QED BY <2>1, <2>2, <2>3, <3>1, <3>2 DEF Sound, Done
  <2>4. CASE ~UNCHANGED <<res, reconciled>>
    <3>1. /\ res.gen < res'.gen /\ pc' \in {"executed", "observed", "finalized"}
          /\ (~res'.deleting => ~res.deleting)
          /\ pc' \in BeforePatch => pc \in BeforePatch /\ UNCHANGED reconciled
      <4>1. CASE /\ pc = "create" /\ res.gen = 0 /\ UNCHANGED reconciled
                 /\ res' = [gen |-> 1, deleting |-> FALSE, exists |-> TRUE]
                 /\ pc' = "executed"
        <5>1. ~res.deleting BY <4>1 DEF Stage
        <5>2. res.gen < res'.gen /\ ~res'.deleting BY <4>1
        <5> QED BY <4>1, <5>1, <5>2 DEF BeforePatch
      <4>2. CASE /\ pc = "patch" /\ res.gen = 1 /\ ~res.deleting
                 /\ res' = [gen |-> 2, deleting |-> FALSE, exists |-> res.exists]
                 /\ pc' = "observed"
        <5>1. res.gen < res'.gen /\ ~res'.deleting BY <4>2
        <5> QED BY <4>2, <5>1 DEF BeforePatch
      <4>3. CASE /\ pc = "delete" /\ res.gen = 2 /\ ~res.deleting
                 /\ res' = [gen |-> 3, deleting |-> TRUE, exists |-> res.exists]
                 /\ pc' = "finalized"
        <5>1. res.gen < res'.gen /\ res'.deleting BY <4>3
        <5> QED BY <4>3, <5>1 DEF BeforePatch
      <4> QED BY <1>2, <2>4, <4>1, <4>2, <4>3, SpecStep
    <3>2. ~Done(report, Success)'
      <4>1. report[Success].gen <= res.gen BY <1>1 DEF Reached
      <4> QED BY <1>1, <2>1, <3>1, <4>1, Numbers DEF Done
    <3> QED BY <1>1, <2>1, <2>2, <3>1, <3>2 DEF Sound
  <2> QED BY <2>3, <2>4
<1>3. ASSUME NEW a \in Adapters, Read(a) \/ Apply(a) \/ Terminated(a) PROVE Sound'
  BY <1>3 DEF Read, Apply, Terminated, spec, api, Sound, Done
<1>4. ASSUME NEW a \in Adapters, Report(a) PROVE Sound'
  <2>1. UNCHANGED <<pc, lost>> BY <1>4, ReportStep
  <2>2. CASE ~res.exists /\ UNCHANGED api BY <2>1, <2>2 DEF Sound, Done, api
  <2>3. ASSUME res.exists, Aggregate(report'), NEW ok \in BOOLEAN,
               report' = [report EXCEPT ![a] = StatusOf(a, ok)],
               ~work[a].deleting /\ ~Has("flapping", a) => ok
        PROVE  Sound'
    <3> DEFINE AllDone == \A c \in Adapters : Done(report', c)
    <3>1. res'.gen = res.gen /\ res'.deleting = res.deleting /\ res.gen # 0
      BY <2>3 DEF Aggregate, TypeOK, Stage
    <3>2. \A c \in Adapters : report'[c].gen # 0 /\ ~res.deleting => report'[c].ok
      <4> SUFFICES ASSUME NEW c \in Adapters, report'[c].gen # 0, ~res.deleting
                   PROVE  report'[c].ok
        OBVIOUS
      <4>1. CASE c = a
        <5>1. report'[c] = StatusOf(a, ok) BY <2>3, <4>1 DEF TypeOK
        <5>2. ~work[a].deleting BY DEF Reached
        <5> QED BY <2>3, <5>1, <5>2 DEF StatusOf, Has
      <4>2. CASE c # a
        <5>1. report'[c] = report[c] BY <2>3, <4>2 DEF TypeOK
        <5> QED BY <5>1 DEF Sound
      <4> QED BY <4>1, <4>2
    <3>3. /\ reconciled' = [status |-> AllDone, gen |-> res.gen]
          /\ lastKnown' = IF AllDone THEN reconciled' ELSE lastKnown
          /\ res'.exists = ~(res.deleting /\ AllDone)
      BY <2>3 DEF Aggregate, TypeOK
    <3>4. AllDone <=> \A c \in Adapters : Done(report, c)'
      BY <3>1 DEF Done
    <3>5. pc \in BeforePatch => res.gen = 1 /\ ~res.deleting
      BY <2>3 DEF Stage, BeforePatch
    <3>6. AllDone /\ pc \in BeforePatch =>
            \A c \in Adapters : report'[c].gen = 1 /\ report'[c].ok
      BY <3>5 DEF Done
    <3>7. pc = "reread" => AllDone
      <4> SUFFICES ASSUME pc = "reread", NEW c \in Adapters PROVE Done(report', c)
        OBVIOUS
      <4>1. res.gen = 1 /\ ~res.deleting BY <3>5 DEF BeforePatch
      <4>2. report[c].gen = 1 /\ report[a].gen = 1 BY DEF Sound, BeforePatch
      <4>3. report'[c].gen = 1
        <5>1. CASE c = a
          <6>1. report'[c].gen = work[a].gen BY <2>3, <5>1 DEF StatusOf, TypeOK
          <6>2. work[a].phase = "done" BY <1>4, ReportStep
          <6>3. work[a].gen >= 1 /\ work[a].gen <= 1 BY <4>1, <6>2 DEF Reached
          <6> QED BY <6>1, <6>3, Numbers
        <5>2. CASE c # a BY <2>3, <4>2, <5>2 DEF TypeOK
        <5> QED BY <5>1, <5>2
      <4> QED BY <3>2, <4>1, <4>3 DEF Done
    <3> HIDE DEF AllDone
    <3>8. /\ reconciled'.gen = res.gen /\ (reconciled'.status <=> AllDone)
          /\ (AllDone => lastKnown' = reconciled') /\ (~AllDone => lastKnown' = lastKnown)
      BY <3>3
    <3>9. res'.exists /\ AllDone => ~res'.deleting BY <3>1, <3>3
    <3>10. pc \in BeforePatch => lastKnown.gen = 1 BY DEF Sound
    <3> QED BY <2>1, <3>1, <3>2, <3>4, <3>5, <3>6, <3>7, <3>8, <3>9, <3>10 DEF Sound, BeforePatch
  <2> QED BY <1>4, <2>2, <2>3, ReportStep
<1>5. CASE UNCHANGED vars BY <1>5 DEF vars, spec, api, Sound, Done
<1> QED BY <1>2, <1>3, <1>4, <1>5 DEF Next, Adapter

------------------------------------------------------------------------------
(* The theorems                                                            *)

LEMMA InitIInv == Init => IInv
<1> SUFFICES ASSUME Init PROVE IInv
  OBVIOUS
<1> USE DEF Init
<1>1. TypeOK
  <2>1. pc \in Calls /\ expected \in {0, 2} /\ lost \in BOOLEAN BY DEF Calls
  <2>2. /\ defect \in Defects /\ faulty \in Adapters
        /\ res \in [gen : 0..3, deleting : BOOLEAN, exists : BOOLEAN]
    OBVIOUS
  <2>3. /\ reconciled \in [status : BOOLEAN, gen : 0..3]
        /\ lastKnown \in [status : BOOLEAN, gen : 0..3]
    OBVIOUS
  <2>4. report \in [Adapters -> [gen : 0..3, ok : BOOLEAN, finalized : BOOLEAN]] OBVIOUS
  <2>5. work \in [Adapters -> [phase : {"idle", "read", "done"}, gen : 0..3, deleting : BOOLEAN]]
    OBVIOUS
  <2>6. object \in [Adapters -> [phase : {"absent", "active", "terminating"}, gen : 0..3]]
    OBVIOUS
  <2> HIDE DEF Init
  <2> QED BY <2>1, <2>2, <2>3, <2>4, <2>5, <2>6 DEF TypeOK, Generations
<1>2. Stage BY DEF Stage, BeforePatch, Updated, Deleted
<1>3. ASSUME NEW a \in Adapters PROVE Reached(a) /\ Removed(a)
  BY DEF Reached, Removed, Has
<1>4. Sound BY DEF Sound, BeforePatch
<1> QED BY <1>1, <1>2, <1>3, <1>4 DEF IInv

LEMMA Invariance == Spec => []IInv
<1>1. IInv /\ [Next]_vars => IInv'
  <2> SUFFICES ASSUME IInv, [Next]_vars PROVE IInv'
    OBVIOUS
  <2>1. defect' = defect
    <3>1. CASE Proceed \/ CallFails \/ TimeOut BY <3>1, SpecStep DEF IInv
    <3>2. ASSUME NEW a \in Adapters, Adapter(a) \/ Terminated(a) PROVE defect' = defect
      BY <3>2 DEF Adapter, Read, Apply, Report, Terminated
    <3>3. CASE UNCHANGED vars BY <3>3 DEF vars, world
    <3> QED BY <3>1, <3>2, <3>3 DEF Next
  <2>2. TypeOK' /\ Stage' BY NextTyped, NextStage DEF IInv
  <2>3. \A a \in Adapters : Reached(a)' /\ Removed(a)' BY NextReached, NextRemoved DEF IInv
  <2>4. defect' = "none" => Sound' BY <2>1, NextSound DEF IInv
  <2> QED BY <2>2, <2>3, <2>4 DEF IInv
<1> QED BY InitIInv, <1>1, PTL DEF Spec

\* Every state the spec, the API and the adapters reach has its type.
THEOREM TypeCorrect == Spec => []TypeOK
<1>1. IInv => TypeOK BY DEF IInv
<1> QED BY <1>1, Invariance, PTL

\* Whatever the defect of the system, reports of the new generation from every required
\* adapter mean that each of them has applied the update and has not gone back on it.
THEOREM UpdateIsReached == Spec => []UpdateReached
<1>1. IInv => UpdateReached
  <2> SUFFICES ASSUME IInv, pc \in {"settled", "delete"}, NEW a \in Adapters
               PROVE  object[a].phase = "active" /\ object[a].gen = res.gen
    BY DEF UpdateReached
  <2>1. res.gen = 2 /\ ~res.deleting BY DEF IInv, Stage, BeforePatch, Updated
  <2> QED BY <2>1, Numbers DEF IInv, Reached
<1> QED BY <1>1, Invariance, PTL

\* A spec that passed leaves no namespace behind, nor does one come back.
THEOREM PassedLeavesNothing == Spec => []NothingLeft
<1>1. IInv => NothingLeft BY DEF IInv, Removed, NothingLeft
<1> QED BY <1>1, Invariance, PTL

\* On a system without a defect, and with timeouts long enough for it, the spec fails only
\* if one of the calls it makes once fails.
THEOREM FailsOnlyForCause == Spec => []NoFalseAlarm
<1>1. IInv => NoFalseAlarm BY DEF IInv, Sound, NoFalseAlarm
<1> QED BY <1>1, Invariance, PTL
=============================================================================
