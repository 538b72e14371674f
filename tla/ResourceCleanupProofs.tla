------------------------ MODULE ResourceCleanupProofs ------------------------
(***************************************************************************)
(* Proofs about ResourceCleanup, for every catalog, every number of        *)
(* children, page size and deadline: what a nil cleanup guarantees, that   *)
(* the code keeps the promise of CleanupPromise, and that its work runs    *)
(* out, with the fact about ranks which that rests on.                     *)
(***************************************************************************)
EXTENDS ResourceCleanup, FiniteSetTheorems, WellFoundedInduction, TLAPS

\* The inductive invariant: hard deletion is final and takes the children along, the
\* cleanup polls only what it soft-deleted, and it has a result exactly when it is done.
CleanupInv ==
  /\ TypeOK
  /\ StoreConsistent
  /\ pc = "done" <=> result # "none"
  /\ pc = "poll" => store[Parent] # "live"
  /\ NilMeansGone
  /\ ChildFailureReported

USE DEF Res, Statuses

\* A request that soft-deletes r changes live resources only, and only to "deleting";
\* an accepted DELETE of the parent leaves nothing live.
LEMMA AfterDeleteFacts ==
  ASSUME TypeOK, StoreConsistent, NEW r \in Res
  PROVE  /\ AfterDelete(r) \in [Res -> Statuses]
         /\ \A s \in Res : \/ AfterDelete(r)[s] = store[s]
                           \/ store[s] = "live" /\ AfterDelete(r)[s] = "deleting"
         /\ r = Parent /\ DeleteStatus(r) = 202 => \A s \in Res : AfterDelete(r)[s] # "live"
         /\ AfterDelete(r)[Parent] = "deleting" => \A c \in Child : AfterDelete(r)[c] # "live"
  <1>1. CASE DeleteStatus(r) # 202
    BY <1>1 DEF AfterDelete, TypeOK, StoreConsistent, LiveChildren
  <1>2. CASE DeleteStatus(r) = 202
    <2>1. AfterDelete(r) = [s \in Res |-> IF store[s] = "live" /\ (s = r \/ r = Parent)
                                         THEN "deleting" ELSE store[s]]
      BY <1>2 DEF AfterDelete
    <2>2. QED
      BY <2>1, ConstantsAssumption DEF TypeOK, StoreConsistent, LiveChildren
  <1>3. QED
    BY <1>1, <1>2

\* A step of the store: resources move from "live" to "deleting" only, and nothing
\* stays live below a parent that is not.
Softens(st) ==
  /\ st \in [Res -> Statuses]
  /\ \A s \in Res : st[s] = store[s] \/ (store[s] = "live" /\ st[s] = "deleting")
  /\ st[Parent] = "deleting" => \A c \in Child : st[c] # "live"

\* A request, whether or not its effect is seen, softens the store.
LEMMA RequestSoftens ==
  ASSUME TypeOK, StoreConsistent, NEW r \in Res
  PROVE  Softens(AfterDelete(r)) /\ Softens(store)
  BY AfterDeleteFacts DEF Softens, TypeOK, StoreConsistent, LiveChildren

\* Softening keeps what the store promises and what a verdict has claimed.
LEMMA SoftensKeeps ==
  ASSUME CleanupInv, Softens(store')
  PROVE  /\ StoreConsistent'
         /\ store'[Parent] # "none"
         /\ store[Parent] # "live" => store'[Parent] # "live"
         /\ store[Parent] = "gone" => store'[Parent] = "gone"
         /\ (\A r \in Res : store[r] \in {"none", "gone"}) =>
              \A r \in Res : store'[r] \in {"none", "gone"}
         /\ LiveChildren = {} => LiveChildren' = {}
  BY DEF CleanupInv, TypeOK, Softens, StoreConsistent, LiveChildren

\* CleanupInv holds at the start.
LEMMA InitInv == Init => CleanupInv
  <1> SUFFICES ASSUME Init PROVE CleanupInv
    OBVIOUS
  <1>1. pc \in {"list", "deleteParent"} /\ result = "none"
    BY DEF Init, StageOf
  <1>2. TypeOK
    BY <1>1, ConstantsAssumption DEF Init, TypeOK, Errors
  <1>3. QED
    BY <1>1, <1>2 DEF Init, CleanupInv, NilMeansGone, ChildFailureReported

\* The steps that only move the cleanup on, without a verdict, preserve CleanupInv.
LEMMA WorkSteps ==
  ASSUME CleanupInv,
         \/ ListChildren \/ NextKind \/ PollStillThere
         \/ \E c \in Child : DeleteChild(c)
  PROVE  CleanupInv'
  <1> USE DEF CleanupInv, TypeOK, NilMeansGone, ChildFailureReported, fixedVars, apiVars,
              StoreConsistent, LiveChildren
  <1>1. CASE ListChildren
    <2>1. PICK page \in Pages(ChildKinds[kindIdx]) :
            todo' = {c \in page : store[c] = "live"} /\ listed' = listed \union todo'
      BY <1>1 DEF ListChildren
    <2>2. page \subseteq Child
      BY DEF Pages, OfKind
    <2>3. QED
      BY <1>1, <2>1, <2>2 DEF ListChildren
  <1>2. CASE NextKind
    BY <1>2 DEF NextKind, StageOf
  <1>3. CASE PollStillThere
    <2>1. timeLeft' \in 0..DeletedTimeout
      BY <1>3, ConstantsAssumption DEF PollStillThere, Elapse
    <2>2. QED
      BY <1>3, <2>1 DEF PollStillThere
  <1>4. ASSUME NEW c \in Child, DeleteChild(c) PROVE CleanupInv'
    <2>1. Softens(store')
      BY <1>4, RequestSoftens DEF DeleteChild
    <2>2. failed' \subseteq Child /\ todo' \subseteq Child
      BY <1>4 DEF DeleteChild
    <2>3. result = "none" /\ result' = "none" /\ pc' = pc /\ pc = "deleteChildren"
      BY <1>4 DEF DeleteChild
    <2>4. TypeOK'
      BY <1>4, <2>1, <2>2, <2>3, SoftensKeeps DEF DeleteChild, Softens
    <2>5. QED
      BY <2>1, <2>3, <2>4, SoftensKeeps
  <1>5. QED
    BY <1>1, <1>2, <1>3, <1>4

\* The steps that end the cleanup, or accept the parent's deletion, preserve CleanupInv.
\* The verdict nil is given only where the store bears it out.
LEMMA VerdictSteps ==
  ASSUME CleanupInv,
         \/ ListNotFound \/ ListFails
         \/ DeleteAccepted \/ DeleteRefused \/ DeleteFails
         \/ PollGone \/ PollFails \/ PollDeadline
  PROVE  CleanupInv'
  <1> USE DEF CleanupInv, TypeOK, NilMeansGone, ChildFailureReported, fixedVars, apiVars,
              StoreConsistent, LiveChildren, Finish, Errors
  <1>1. CASE ListNotFound
    BY <1>1 DEF ListNotFound
  <1>2. CASE ListFails
    BY <1>2 DEF ListFails
  <1>3. CASE DeleteAccepted
    <2>1. Softens(store') /\ \A s \in Res : store'[s] # "live"
      BY <1>3, RequestSoftens, AfterDeleteFacts DEF DeleteAccepted
    <2>2. store'[Parent] # "none" /\ StoreConsistent'
      BY <2>1, SoftensKeeps
    <2>3. CASE entity.Cleanup.WaitForHardDelete
      BY <1>3, <2>1, <2>2, <2>3 DEF DeleteAccepted, Softens
    <2>4. CASE ~entity.Cleanup.WaitForHardDelete
      BY <1>3, <2>1, <2>2, <2>4 DEF DeleteAccepted, Softens, ChildErr
    <2>5. QED
      BY <2>3, <2>4
  <1>4. CASE DeleteRefused
    <2>1. store' = store /\ entity' = entity /\ failed' = failed /\ pc' = "done"
      BY <1>4 DEF DeleteRefused
    <2>2. result' \in Errors \/ (result' = "nil" /\ failed = {} /\ IgnoredStatus(DeleteStatus(Parent)))
      BY <1>4 DEF DeleteRefused, ChildErr
    <2>3. IgnoredStatus(DeleteStatus(Parent)) /\ ~entity.Cleanup.IgnoreConflict
            => store[Parent] = "gone"
      BY DEF IgnoredStatus, DeleteStatus
    <2>4. QED
      BY <1>4, <2>1, <2>2, <2>3 DEF DeleteRefused
  <1>5. CASE DeleteFails
    <2>1. Softens(store')
      BY <1>5, RequestSoftens DEF DeleteFails
    <2>2. StoreConsistent' /\ store'[Parent] # "none"
      BY <2>1, SoftensKeeps
    <2>3. QED
      BY <1>5, <2>1, <2>2 DEF DeleteFails, Softens
  <1>6. CASE PollGone
    BY <1>6 DEF PollGone, ChildErr
  <1>7. CASE PollFails
    BY <1>7 DEF PollFails
  <1>8. CASE PollDeadline
    BY <1>8 DEF PollDeadline
  <1>9. QED
    BY <1>1, <1>2, <1>3, <1>4, <1>5, <1>6, <1>7, <1>8

\* Whatever the API and the requests in flight do, CleanupInv stays: a verdict once
\* given cannot be undone by them.
LEMMA EnvironmentSteps ==
  ASSUME CleanupInv, Environment
  PROVE  CleanupInv'
  <1> USE DEF CleanupInv, TypeOK, NilMeansGone, ChildFailureReported, fixedVars, cleanupVars,
              StoreConsistent, LiveChildren
  <1>1. ASSUME NEW r \in Res, HardDelete(r) PROVE CleanupInv'
    BY <1>1, ConstantsAssumption DEF HardDelete
  <1>2. ASSUME NEW r \in Res, LateDelete(r) PROVE CleanupInv'
    <2>1. Softens(store')
      BY <1>2, RequestSoftens DEF LateDelete
    <2>2. /\ StoreConsistent' /\ store'[Parent] # "none"
          /\ store[Parent] # "live" => store'[Parent] # "live"
          /\ (\A s \in Res : store[s] \in {"none", "gone"}) =>
               \A s \in Res : store'[s] \in {"none", "gone"}
          /\ LiveChildren = {} => LiveChildren' = {}
      BY <2>1, SoftensKeeps
    <2>3. store' \in [Res -> Statuses]
      BY <2>1 DEF Softens
    <2>4. QED
      BY <1>2, <2>2, <2>3 DEF LateDelete
  <1>3. ASSUME NEW c \in Child, LateCreate(c) PROVE CleanupInv'
    BY <1>3, ConstantsAssumption DEF LateCreate
  <1>4. CASE Dereference
    BY <1>4 DEF Dereference
  <1>5. QED
    BY <1>1, <1>2, <1>3, <1>4 DEF Environment

\* CleanupInv is an invariant of the specification.
THEOREM CleanupInvariant == Spec => []CleanupInv
  <1>1. ASSUME CleanupInv, [Next]_vars PROVE CleanupInv'
    <2>1. CASE Cleanup
      BY <1>1, <2>1, WorkSteps, VerdictSteps DEF Cleanup, Answered
    <2>2. CASE Environment
      BY <1>1, <2>2, EnvironmentSteps
    <2>3. CASE UNCHANGED vars
      BY <1>1, <2>3 DEF vars, fixedVars, apiVars, cleanupVars, CleanupInv, TypeOK,
                        StoreConsistent, NilMeansGone, ChildFailureReported, LiveChildren
    <2>4. QED
      BY <1>1, <2>1, <2>2, <2>3 DEF Next, Idle
  <1>2. QED
    BY <1>1, InitInv, PTL DEF Spec

\* Type correctness.
THEOREM TypeCorrect == Spec => []TypeOK
  BY CleanupInvariant, PTL DEF CleanupInv

\* A nil cleanup left nothing alive, whatever failed, was late or was lost on the way.
THEOREM NilCleanupIsHonest == Spec => []NilMeansGone
  BY CleanupInvariant, PTL DEF CleanupInv

\* A failed child delete is never swallowed while the parent still exists.
THEOREM ChildFailuresSurface == Spec => []ChildFailureReported
  BY CleanupInvariant, PTL DEF CleanupInv

------------------------------------------------------------------------------
(* The conflict the API may answer                                         *)

\* A listed child is still to be deleted, is no longer live, or failed to delete.
ListedAttempted ==
  /\ pc \in {"list", "deleteParent"} => todo = {}
  /\ \A c \in listed : store[c] # "none" /\ (c \in todo \/ c \in failed \/ store[c] # "live")

\* DELETE of a child leaves it not live: only the parent's can be refused.
LEMMA ChildDeleteWorks ==
  ASSUME TypeOK, NEW c \in Child
  PROVE  AfterDelete(c)[c] # "live"
  BY ConstantsAssumption DEF AfterDelete, DeleteStatus, TypeOK

\* ListedAttempted is preserved by every step.
LEMMA ListedAttemptedStep ==
  ASSUME CleanupInv, ListedAttempted, [Next]_vars
  PROVE  ListedAttempted'
  <1> USE DEF ListedAttempted, fixedVars, apiVars, cleanupVars
  <1>0. TypeOK /\ StoreConsistent
    BY DEF CleanupInv
  <1>1. CASE ListChildren
    <2>1. PICK page \in Pages(ChildKinds[kindIdx]) :
            todo' = {c \in page : store[c] = "live"} /\ listed' = listed \union todo'
      BY <1>1 DEF ListChildren
    <2>2. QED
      BY <1>1, <2>1 DEF ListChildren
  <1>2. ASSUME NEW c \in Child, DeleteChild(c) PROVE ListedAttempted'
    <2>1. /\ todo' = todo \ {c} /\ listed' = listed /\ pc' = pc /\ pc = "deleteChildren"
          /\ \/ failed' = failed /\ store' = AfterDelete(c)
             \/ failed' = failed \union {c}
      BY <1>2 DEF DeleteChild
    <2>2. Softens(store')
      BY <1>0, <1>2, RequestSoftens DEF DeleteChild
    <2>3. \A x \in listed : /\ x \in Res /\ store'[x] # "none"
                            /\ store[x] # "live" => store'[x] # "live"
      BY <1>0, <2>2 DEF Softens, TypeOK
    <2>4. \A x \in listed' : store'[x] # "none" /\ (x \in todo' \/ x \in failed' \/ store'[x] # "live")
      BY <1>0, <2>1, <2>3, ChildDeleteWorks
    <2>5. QED
      BY <2>1, <2>4
  <1>3. CASE NextKind
    BY <1>3 DEF NextKind
  <1>4. CASE DeleteAccepted \/ DeleteFails
    <2>1. /\ Softens(store') /\ todo' = todo /\ listed' = listed /\ failed' = failed
          /\ pc' \notin {"list", "deleteParent"}
      BY <1>0, <1>4, RequestSoftens DEF DeleteAccepted, DeleteFails, Finish
    <2>2. \A x \in listed : /\ x \in Res /\ store'[x] # "none"
                            /\ store[x] # "live" => store'[x] # "live"
      BY <1>0, <2>1 DEF Softens, TypeOK
    <2>3. QED
      BY <2>1, <2>2
  <1>5. CASE ListNotFound \/ ListFails \/ DeleteRefused \/ PollGone
             \/ PollStillThere \/ PollFails \/ PollDeadline
    BY <1>5 DEF ListNotFound, ListFails, DeleteRefused, PollGone, PollStillThere, PollFails,
                PollDeadline, Finish
  <1>6. CASE Environment
    <2>1. /\ pc' = pc /\ todo' = todo /\ failed' = failed /\ listed' = listed
          /\ \A x \in Res : store[x] # "none" =>
               store'[x] # "none" /\ (store[x] # "live" => store'[x] # "live")
      <3>1. ASSUME NEW r \in Res, LateDelete(r) PROVE <2>1!2
        BY <1>0, <3>1, RequestSoftens DEF LateDelete, Softens
      <3>2. QED
        BY <1>0, <1>6, <3>1 DEF Environment, HardDelete, LateCreate, LateDelete, Dereference, TypeOK
    <2>2. QED
      BY <1>0, <2>1 DEF TypeOK
  <1>7. CASE UNCHANGED vars
    BY <1>7 DEF vars
  <1>8. QED
    BY <1>1, <1>2, <1>3, <1>4, <1>5, <1>6, <1>7 DEF Next, Cleanup, Answered, Idle

\* The API answers 409 only over what the cleanup could not help.
THEOREM ConflictsAreExcused == Spec => ConflictIsExcused
  <1> DEFINE Inv == CleanupInv /\ ListedAttempted
             Excused == result # "conflict" /\ result' = "conflict" =>
                          \/ referenced
                          \/ \E c \in Blocking : c \in failed \union (Child \ listed)
  <1>1. Init => ListedAttempted
    BY DEF Init, ListedAttempted
  <1>2. Inv /\ [Next]_vars => Excused
    <2> SUFFICES ASSUME Inv, [Next]_vars, result # "conflict", result' = "conflict"
                 PROVE  referenced \/ \E c \in Blocking : c \in failed \union (Child \ listed)
      OBVIOUS
    <2>1. DeleteRefused
      BY DEF Next, Cleanup, Answered, Environment, Idle, vars, fixedVars, apiVars, cleanupVars, Finish,
             ListChildren, ListNotFound, ListFails, DeleteChild, NextKind, DeleteAccepted,
             DeleteFails, PollGone, PollStillThere, PollFails, PollDeadline, ChildErr,
             HardDelete, LateCreate, LateDelete, Dereference
    <2>2. DeleteStatus(Parent) = 409 /\ todo = {}
      BY <2>1 DEF DeleteRefused, Finish, ChildErr, ListedAttempted
    <2>3. referenced \/ Blocking # {}
      BY <2>2 DEF DeleteStatus
    <2>4. QED
      BY <2>2, <2>3 DEF ListedAttempted, Blocking, LiveChildren
  <1>3. Inv /\ [Next]_vars => ListedAttempted'
    BY ListedAttemptedStep
  <1>4. Spec => []Inv
    BY <1>1, <1>3, CleanupInvariant, PTL DEF Spec
  <1>5. [Next]_vars /\ Inv => [Excused]_vars
    BY <1>2
  <1> HIDE DEF Inv
  <1>6. QED
    BY <1>4, <1>5, PTL DEF Spec, ConflictIsExcused

------------------------------------------------------------------------------
(* The promise                                                             *)

\* CleanupTestResource implements CleanupPromise: each step moves the resource onward,
\* gives the one verdict its state allows, or is invisible to the spec that waits for it.
THEOREM CleanupKeepsPromise == Spec => KeepsPromise
  <1> DEFINE verdict == CASE result = "none" -> "pending" [] result = "nil" -> "clean"
                          [] OTHER -> "warning"
  <1>1. Init => Promise!Init
    BY InitInv DEF Init, Promise!Init, Promise!Phases, CleanupInv, TypeOK
  <1>2. ASSUME CleanupInv, CleanupInv', [Next]_vars PROVE [Promise!Next]_(Promise!vars)
    <2> USE DEF Promise!Next, Promise!vars, Promise!Onward, Promise!Phases
    <2>1. entity' = entity /\ entity \in Entities
      BY <1>2 DEF Next, Cleanup, Answered, Environment, Idle, vars, fixedVars, apiVars, ListChildren,
             ListNotFound, ListFails, DeleteChild, NextKind, DeleteAccepted, DeleteRefused,
             DeleteFails, PollGone, PollStillThere, PollFails, PollDeadline,
             HardDelete, LateCreate, LateDelete, Dereference, CleanupInv, TypeOK
    <2>2. store'[Parent] \in Promise!Onward(store[Parent])
      <3>1. CASE store' = store
        BY <1>2, <3>1 DEF CleanupInv, TypeOK
      <3>2. CASE Softens(store')
        BY <1>2, <3>2, SoftensKeeps DEF Softens, CleanupInv, TypeOK
      <3>3. CASE \E r \in Res : HardDelete(r)
        BY <1>2, <3>3 DEF HardDelete, CleanupInv, TypeOK
      <3>4. CASE \E c \in Child : LateCreate(c)
        BY <1>2, <3>4, ConstantsAssumption DEF LateCreate, CleanupInv, TypeOK
      <3>5. \/ store' = store \/ Softens(store')
            \/ \E r \in Res : HardDelete(r)
            \/ \E c \in Child : LateCreate(c)
        BY <1>2, RequestSoftens DEF Next, Cleanup, Answered, Environment, Idle, vars, fixedVars, apiVars,
             ListChildren, ListNotFound, ListFails, DeleteChild, NextKind, DeleteAccepted,
             DeleteRefused, DeleteFails, PollGone, PollStillThere, PollFails, PollDeadline,
             LateDelete, Dereference, CleanupInv
      <3>6. QED
        BY <3>1, <3>2, <3>3, <3>4, <3>5
    <2>3. result' = result \/ result = "none"
      BY <1>2 DEF Next, Cleanup, Answered, Environment, Idle, vars, fixedVars, apiVars, cleanupVars,
             ListChildren, ListNotFound, ListFails, DeleteChild, NextKind, DeleteAccepted,
             DeleteRefused, DeleteFails, PollGone, PollStillThere, PollFails, PollDeadline,
             HardDelete, LateCreate, LateDelete, Dereference, CleanupInv
    <2>4. CASE result' = result
      BY <2>1, <2>2, <2>4 DEF Promise!Advance
    <2>5. CASE result = "none" /\ result' = "nil"
      <3>0. /\ store'[Parent] \in Promise!Phases
            /\ entity.Cleanup.WaitForHardDelete \in BOOLEAN /\ entity.Cleanup.IgnoreConflict \in BOOLEAN
            /\ ~entity.Cleanup.IgnoreConflict => store'[Parent] # "live"
            /\ ~entity.Cleanup.IgnoreConflict /\ entity.Cleanup.WaitForHardDelete => store'[Parent] = "gone"
        BY <1>2, <2>1, <2>5, EntitiesAssumption DEF CleanupInv, TypeOK, NilMeansGone
      <3>1. store'[Parent] \in Promise!Acceptable
        BY <3>0 DEF Promise!Acceptable
      <3>2. QED
        BY <2>1, <2>2, <2>5, <3>1 DEF Promise!ReportClean
    <2>6. CASE result = "none" /\ result' \notin {"none", "nil"}
      BY <2>1, <2>2, <2>6 DEF Promise!ReportWarning
    <2>7. QED
      BY <2>3, <2>4, <2>5, <2>6
  <1>3. QED
    BY <1>1, <1>2, CleanupInvariant, PTL DEF Spec, KeepsPromise, Promise!Spec

------------------------------------------------------------------------------
(* The end                                                                 *)

\* A rank cannot be lowered forever: no component whose every step lowers its rank, as those
\* with a property WorkRunsOut, takes infinitely many.
THEOREM RanksRunOut ==
  ASSUME NEW f \in [Nat -> Nat \X Nat]
  PROVE  \E n \in Nat : ~Below(f[n + 1], f[n])
  <1>1. PICK R : IsWellFoundedOn(R, Nat) /\ \A x, y \in Nat : x < y => <<x, y>> \in R
    <2>1. IsWellFoundedOn(OpToRel(<, Nat), Nat)
      BY NatLessThanWellFounded
    <2>2. \A x, y \in Nat : x < y => <<x, y>> \in OpToRel(<, Nat)
      BY Zenon DEF OpToRel
    <2>3. QED
      BY <2>1, <2>2, Zenon
  <1> DEFINE Lex == LexPairOrdering(R, R, Nat, Nat)
  <1>2. IsWellFoundedOn(Lex, Nat \X Nat)
    BY <1>1, WFLexPairOrdering
  <1>3. ASSUME NEW s \in Nat \X Nat, NEW t \in Nat \X Nat, Below(s, t)
        PROVE  <<s, t>> \in Lex
    BY <1>1, <1>3 DEF Below, LexPairOrdering
  <1>4. ASSUME \A n \in Nat : Below(f[n + 1], f[n])
        PROVE  \A n \in Nat : <<f[n + 1], f[n]>> \in Lex
    <2> TAKE n \in Nat
    <2>1. f[n + 1] \in Nat \X Nat /\ f[n] \in Nat \X Nat /\ Below(f[n + 1], f[n])
      BY <1>4
    <2>2. QED
      BY <2>1, <1>3
  <1>5. QED
    BY <1>2, <1>4 DEF IsWellFoundedOn

\* The cleanup is at one of the row's child kinds while it lists or deletes children.
KindInRange == pc \in {"list", "deleteChildren"} => kindIdx <= Len(ChildKinds)

\* The length of the row's list of child kinds.
LEMMA KindsCounted ==
  ASSUME TypeOK
  PROVE  Len(ChildKinds) \in Nat
  BY EntitiesAssumption DEF TypeOK, ChildKinds

\* KindInRange holds at the start and is preserved by every step.
LEMMA KindInRangeStep ==
  /\ Init => KindInRange
  /\ TypeOK /\ KindInRange /\ [Next]_vars => KindInRange'
  <1>1. Init => KindInRange
    BY InitInv, KindsCounted DEF Init, KindInRange, StageOf, CleanupInv
  <1>2. ASSUME TypeOK, KindInRange, [Next]_vars PROVE KindInRange'
    <2> USE DEF KindInRange, ChildKinds, fixedVars, cleanupVars
    <2>1. CASE NextKind
      BY <1>2, <2>1, KindsCounted DEF NextKind, StageOf, TypeOK
    <2>2. CASE Cleanup /\ ~NextKind
      BY <1>2, <2>2 DEF Cleanup, Answered, ListChildren, ListNotFound, ListFails, DeleteChild,
             DeleteAccepted, DeleteRefused, DeleteFails, PollGone, PollStillThere,
             PollFails, PollDeadline, Finish
    <2>3. CASE Environment \/ UNCHANGED vars
      BY <1>2, <2>3 DEF Environment, HardDelete, LateCreate, LateDelete, Dereference, vars
    <2>4. QED
      BY <1>2, <2>1, <2>2, <2>3 DEF Next, Idle
  <1>3. QED
    BY <1>1, <1>2

\* CleanupTestResource runs out of work: every step of it leaves less to list, delete or
\* wait for, answered or not, and no step of the environment gives it more.
THEOREM CleanupWorkRunsOut == Spec => WorkRunsOut
  <1> DEFINE Inv == TypeOK /\ KindInRange
             Down == UNCHANGED cleanupVars \/ Below(Remaining', Remaining)
  <1>1. Inv /\ Inv' /\ [Next]_vars => Down
    <2> SUFFICES ASSUME Inv, Inv', [Next]_vars PROVE Down
      OBVIOUS
    <2> USE DEF Below, fixedVars
    <2> DEFINE kinds == Len(ChildKinds) + 1 - kindIdx
    <2>0. Len(ChildKinds) \in Nat /\ kindIdx \in Nat /\ ChildKinds' = ChildKinds
      <3>1. entity' = entity
        BY DEF Next, Cleanup, Answered, Environment, Idle, vars, ListChildren, ListNotFound,
               ListFails, DeleteChild, NextKind, DeleteAccepted, DeleteRefused, DeleteFails,
               PollGone, PollStillThere, PollFails, PollDeadline, HardDelete, LateCreate,
               LateDelete, Dereference
      <3>2. QED
        BY <3>1, KindsCounted DEF TypeOK, ChildKinds
    <2>1. CASE ListChildren
      <3>1. pc = "list" /\ pc' = "deleteChildren" /\ kindIdx' = kindIdx
        BY <2>1 DEF ListChildren
      <3>2. Cardinality(todo') \in Nat
        BY ConstantsAssumption, FS_Subset, FS_CardinalityType DEF TypeOK
      <3>3. Remaining = <<2 * kinds + 3, 0>> /\ Remaining' = <<2 * kinds + 2, Cardinality(todo')>>
        BY <2>0, <3>1 DEF Remaining
      <3>4. QED
        BY <2>0, <3>1, <3>2, <3>3 DEF KindInRange
    <2>2. ASSUME NEW c \in Child, DeleteChild(c) PROVE Down
      <3>1. /\ pc = "deleteChildren" /\ pc' = pc /\ kindIdx' = kindIdx
            /\ c \in todo /\ todo' = todo \ {c}
        BY <2>2 DEF DeleteChild
      <3>2. IsFiniteSet(todo)
        BY ConstantsAssumption, FS_Subset DEF TypeOK
      <3>3. Cardinality(todo') = Cardinality(todo) - 1 /\ Cardinality(todo) \in Nat
                /\ Cardinality(todo') \in Nat
        BY <3>1, <3>2, FS_RemoveElement, FS_CardinalityType
      <3>4. /\ Remaining = <<2 * kinds + 2, Cardinality(todo)>>
            /\ Remaining' = <<2 * kinds + 2, Cardinality(todo')>>
        BY <2>0, <3>1 DEF Remaining
      <3>5. QED
        BY <2>0, <3>1, <3>3, <3>4 DEF KindInRange
    <2>3. CASE NextKind
      <3>1. pc = "deleteChildren" /\ kindIdx' = kindIdx + 1 /\ pc' \in {"list", "deleteParent"}
        BY <2>3 DEF NextKind, StageOf
      <3>2. Remaining = <<2 * kinds + 2, Cardinality(todo)>> /\ kinds >= 1
        BY <2>0, <3>1 DEF Remaining, KindInRange
      <3>3. CASE pc' = "list"
        <4>1. Remaining' = <<2 * kinds' + 3, 0>> /\ kinds' = kinds - 1 /\ kinds' >= 1
          BY <2>0, <3>1, <3>3 DEF Remaining, KindInRange
        <4>2. QED
          BY <2>0, <3>2, <4>1
      <3>4. CASE pc' = "deleteParent"
        <4>1. Remaining' = <<2, 0>>
          BY <3>4 DEF Remaining
        <4>2. QED
          BY <2>0, <3>2, <4>1
      <3>5. QED
        BY <3>1, <3>3, <3>4
    <2>4. CASE DeleteAccepted \/ DeleteRefused \/ DeleteFails
      <3>1. pc = "deleteParent" /\ pc' \in {"poll", "done"}
        BY <2>4 DEF DeleteAccepted, DeleteRefused, DeleteFails, Finish
      <3>2. Remaining = <<2, 0>> /\ Remaining' = IF pc' = "poll" THEN <<1, timeLeft'>> ELSE <<0, 0>>
        BY <3>1 DEF Remaining
      <3>3. timeLeft' \in Nat
        BY ConstantsAssumption DEF TypeOK
      <3>4. QED
        BY <3>1, <3>2, <3>3
    <2>5. CASE ListNotFound \/ ListFails
      <3>1. pc = "list" /\ pc' = "done"
        BY <2>5 DEF ListNotFound, ListFails, Finish
      <3>2. Remaining = <<2 * kinds + 3, 0>> /\ Remaining' = <<0, 0>>
        BY <3>1 DEF Remaining
      <3>3. QED
        BY <2>0, <3>1, <3>2 DEF KindInRange
    <2>6. CASE PollStillThere
      <3>1. pc = "poll" /\ pc' = "poll" /\ timeLeft > 0
            /\ \E slow \in 0..SlowRequest : timeLeft' = Elapse(slow)
        BY <2>6 DEF PollStillThere
      <3>2. timeLeft' \in Nat /\ timeLeft' < timeLeft
        BY <3>1, ConstantsAssumption DEF Elapse, TypeOK
      <3>3. Remaining = <<1, timeLeft>> /\ Remaining' = <<1, timeLeft'>>
        BY <3>1 DEF Remaining
      <3>4. QED
        BY <3>2, <3>3
    <2>7. CASE PollGone \/ PollFails \/ PollDeadline
      <3>1. pc = "poll" /\ pc' = "done"
        BY <2>7 DEF PollGone, PollFails, PollDeadline, Finish
      <3>2. Remaining = <<1, timeLeft>> /\ Remaining' = <<0, 0>>
        BY <3>1 DEF Remaining
      <3>3. QED
        BY <3>2
    <2>8. CASE Environment \/ UNCHANGED vars
      BY <2>8 DEF Environment, HardDelete, LateCreate, LateDelete, Dereference, vars
    <2>9. QED
      BY <2>1, <2>2, <2>3, <2>4, <2>5, <2>6, <2>7, <2>8 DEF Next, Cleanup, Answered, Idle
  <1>2. Spec => []Inv
    BY CleanupInvariant, KindInRangeStep, PTL DEF CleanupInv, Spec
  <1> HIDE DEF Inv
  <1>3. QED
    BY <1>1, <1>2, PTL DEF Spec, WorkRunsOut
==============================================================================
