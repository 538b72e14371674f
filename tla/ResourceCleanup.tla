--------------------------- MODULE ResourceCleanup ---------------------------
(***************************************************************************)
(* CleanupTestResource (pkg/helper/resource.go): the teardown every spec   *)
(* registers for the resource it created.  One cleanup runs against the    *)
(* HyperFleet API while adapters finalize deleting resources and requests  *)
(* a failed spec left in flight still land.  A response may be lost after  *)
(* the API has applied the request.                                        *)
(***************************************************************************)
EXTENDS EntityTable, FiniteSets, Ranks

CONSTANTS
  Entities,      (* the rows of the descriptor catalog                      *)
  Parent,        (* the resource under cleanup                              *)
  Child,         (* ids its children may have                               *)
  PageSize,      (* items in the one list page the cleanup reads            *)
  DeletedTimeout,(* Timeouts.Deleted, in polling intervals                  *)
  SlowRequest    (* most polling intervals one request may take             *)

ASSUME ConstantsAssumption ==
  /\ Parent \notin Child
  /\ IsFiniteSet(Child)
  /\ PageSize \in Nat \ {0}
  /\ DeletedTimeout \in Nat
  /\ SlowRequest \in Nat

ASSUME EntitiesAssumption ==
  \A e \in Entities :
    /\ e.Cleanup.ChildKinds \in Seq(STRING)
    /\ e.Cleanup.WaitForHardDelete \in BOOLEAN
    /\ e.Cleanup.IgnoreNotFound \in BOOLEAN
    /\ e.Cleanup.IgnoreConflict \in BOOLEAN

VARIABLES
  entity,        \* the descriptor of Parent (fixed)
  kindOf,        \* the kind of each child (fixed)
  store,         \* the API's resources: "none" (not created yet), "live",
                 \* "deleting" (soft-deleted) or "gone" (hard-deleted)
  referenced,    \* another resource references Parent, so its DELETE is refused
  pc,            \* where the cleanup is
  kindIdx,       \* index into entity.Cleanup.ChildKinds
  todo,          \* listed children still to delete, of the current kind
  failed,        \* children whose delete failed: deleteErr is its first
  timeLeft,      \* polling intervals left before the hard-delete deadline
  result,        \* "none" while running, "nil", or which error was returned
  listed         \* history: every child a list response named as live

apiVars     == <<store, referenced>>
fixedVars   == <<entity, kindOf>>
cleanupVars == <<pc, kindIdx, todo, failed, timeLeft, result, listed>>
vars        == <<fixedVars, apiVars, cleanupVars>>

Res      == {Parent} \union Child
Statuses == {"none", "live", "deleting", "gone"}
Errors   == {"listErr", "deleteErr", "conflict", "pollErr", "timeout", "childErr"}

ChildKinds == entity.Cleanup.ChildKinds

------------------------------------------------------------------------------
(* The HyperFleet API                                                      *)

OnParentDelete(kind) ==
  (CHOOSE e \in Entities : e.Kind = kind).OnParentDelete

\* The kinds whose resources live below this one.
KindsBelow == {e.Kind : e \in {f \in Entities : f.ParentKind = entity.Kind}}

LiveChildren == {c \in Child : store[c] = "live"}

\* Live children of a restrict kind refuse the parent's deletion.
Blocking == {c \in LiveChildren : OnParentDelete(kindOf[c]) = "restrict"}

\* The HTTP status of DELETE r.  Deleting a soft-deleted resource is accepted again.
DeleteStatus(r) ==
  CASE store[r] \in {"gone", "none"}                                   -> 404
    [] r = Parent /\ store[r] = "live" /\ (referenced \/ Blocking # {}) -> 409
    [] OTHER                                                            -> 202

\* The store once an accepted DELETE r is applied: deleting the parent cascades.
AfterDelete(r) ==
  IF DeleteStatus(r) # 202 THEN store
  ELSE [s \in Res |->
          IF store[s] = "live" /\ (s = r \/ r = Parent) THEN "deleting" ELSE store[s]]

\* Adapters (or the API itself, for a kind with none) finish a deletion; a parent
\* is hard-deleted after its children.
HardDelete(r) ==
  /\ store[r] = "deleting"
  /\ r = Parent => \A c \in Child : store[c] \in {"none", "gone"}
  /\ store' = [store EXCEPT ![r] = "gone"]
  /\ UNCHANGED <<referenced, fixedVars, cleanupVars>>

\* A create or delete whose response the spec never saw still reaches the API.
LateCreate(c) ==
  /\ store[c] = "none" /\ store[Parent] = "live" /\ KindsBelow # {}
  /\ store' = [store EXCEPT ![c] = "live"]
  /\ UNCHANGED <<referenced, fixedVars, cleanupVars>>

LateDelete(r) ==
  /\ store[r] = "live" /\ DeleteStatus(r) = 202
  /\ store' = AfterDelete(r)
  /\ UNCHANGED <<referenced, fixedVars, cleanupVars>>

\* The resource holding the reference is itself deleted.
Dereference ==
  /\ referenced
  /\ referenced' = FALSE
  /\ UNCHANGED <<store, fixedVars, cleanupVars>>

------------------------------------------------------------------------------
(* The cleanup                                                             *)

\* Definitions named after another one with a suffix are its mutated forms: bugs the
\* properties must catch.
IgnoredStatus_AnyConflict(status) == status \in {404, 409}

\* The answers to the parent's DELETE that the teardown policy lets pass.
IgnoredStatus(status) ==
  \/ status = 404 /\ entity.Cleanup.IgnoreNotFound
  \/ status = 409 /\ entity.Cleanup.IgnoreConflict

Elapse_Unclamped(slow) == timeLeft - slow - 1
Elapse_NoDeadline(slow) == timeLeft

\* What is left before the deadline after one more request and the sleep behind it.
Elapse(slow) == IF timeLeft > slow + 1 THEN timeLeft - slow - 1 ELSE 0

Finish(res) == pc' = "done" /\ result' = res

ChildErr_Dropped(failures) == "nil"

\* The error CleanupTestResource returns when nothing after the children failed.
ChildErr(failures) == IF failures = {} THEN "nil" ELSE "childErr"

\* cleanupChildren is past its last kind, or lists the next one.
StageOf(k) == IF k > Len(ChildKinds) THEN "deleteParent" ELSE "list"

OfKind(kind) == {c \in Child : kindOf[c] = kind /\ store[c] \in {"live", "deleting"}}

\* What one list response can hold: the first page, in an order the API picks.
Pages(kind) ==
  LET all == OfKind(kind)
  IN  IF Cardinality(all) <= PageSize THEN {all}
      ELSE {page \in SUBSET all : Cardinality(page) = PageSize}

ListChildren ==
  /\ pc = "list" /\ kindIdx <= Len(ChildKinds)
  /\ store[Parent] # "gone"
  /\ \E page \in Pages(ChildKinds[kindIdx]) :
       LET live == {c \in page : store[c] = "live"} IN
       /\ todo' = live
       /\ listed' = listed \union live
       /\ pc' = "deleteChildren"
  /\ UNCHANGED <<kindIdx, failed, timeLeft, result, apiVars, fixedVars>>

\* 404 on the list: the parent disappeared first, and nothing is left to clean.
ListNotFound ==
  /\ pc = "list" /\ kindIdx <= Len(ChildKinds)
  /\ store[Parent] = "gone"
  /\ Finish("nil")
  /\ UNCHANGED <<kindIdx, todo, failed, timeLeft, listed, apiVars, fixedVars>>

ListFails ==
  /\ pc = "list" /\ kindIdx <= Len(ChildKinds)
  /\ Finish("listErr")
  /\ UNCHANGED <<kindIdx, todo, failed, timeLeft, listed, apiVars, fixedVars>>

\* One listed child: 202 and 404 are both fine, any other answer is remembered.
\* A lost answer may hide a delete the API applied.
DeleteChild(c) ==
  /\ pc = "deleteChildren" /\ c \in todo
  /\ todo' = todo \ {c}
  /\ \/ store' = AfterDelete(c) /\ failed' = failed
     \/ store' \in {store, AfterDelete(c)} /\ failed' = failed \union {c}
  /\ UNCHANGED <<pc, kindIdx, timeLeft, result, listed, referenced, fixedVars>>

NextKind_Early ==
  /\ pc = "deleteChildren"
  /\ kindIdx' = kindIdx + 1
  /\ pc' = StageOf(kindIdx + 1)
  /\ UNCHANGED <<todo, failed, timeLeft, result, listed, apiVars, fixedVars>>

NextKind ==
  /\ pc = "deleteChildren" /\ todo = {}
  /\ kindIdx' = kindIdx + 1
  /\ pc' = StageOf(kindIdx + 1)
  /\ UNCHANGED <<todo, failed, timeLeft, result, listed, apiVars, fixedVars>>

DeleteAccepted_NoWait ==
  /\ pc = "deleteParent" /\ DeleteStatus(Parent) = 202
  /\ store' = AfterDelete(Parent)
  /\ Finish(ChildErr(failed))
  /\ UNCHANGED <<kindIdx, todo, failed, timeLeft, listed, referenced, fixedVars>>

DeleteAccepted ==
  /\ pc = "deleteParent" /\ DeleteStatus(Parent) = 202
  /\ store' = AfterDelete(Parent)
  /\ IF entity.Cleanup.WaitForHardDelete
     THEN pc' = "poll" /\ UNCHANGED result
     ELSE Finish(ChildErr(failed))
  /\ UNCHANGED <<kindIdx, todo, failed, timeLeft, listed, referenced, fixedVars>>

DeleteRefused ==
  /\ pc = "deleteParent" /\ DeleteStatus(Parent) # 202
  /\ Finish(CASE IgnoredStatus(DeleteStatus(Parent)) -> ChildErr(failed)
              [] ~IgnoredStatus(DeleteStatus(Parent)) /\ DeleteStatus(Parent) = 409 -> "conflict"
              [] OTHER -> "deleteErr")
  /\ UNCHANGED <<kindIdx, todo, failed, timeLeft, listed, apiVars, fixedVars>>

DeleteFails ==
  /\ pc = "deleteParent"
  /\ store' \in {store, AfterDelete(Parent)}
  /\ Finish("deleteErr")
  /\ UNCHANGED <<kindIdx, todo, failed, timeLeft, listed, referenced, fixedVars>>

\* pollHardDeletion tests the deadline between requests only: an answer that comes
\* after it still counts.  A live answer costs the request's time and one sleep.
PollGone ==
  /\ pc = "poll" /\ timeLeft > 0
  /\ store[Parent] = "gone"
  /\ Finish(ChildErr(failed))
  /\ UNCHANGED <<kindIdx, todo, failed, timeLeft, listed, apiVars, fixedVars>>

PollStillThere ==
  /\ pc = "poll" /\ timeLeft > 0
  /\ store[Parent] # "gone"
  /\ \E slow \in 0..SlowRequest : timeLeft' = Elapse(slow)
  /\ UNCHANGED <<pc, kindIdx, todo, failed, result, listed, apiVars, fixedVars>>

PollFails ==
  /\ pc = "poll" /\ timeLeft > 0
  /\ Finish("pollErr")
  /\ UNCHANGED <<kindIdx, todo, failed, timeLeft, listed, apiVars, fixedVars>>

PollDeadline ==
  /\ pc = "poll" /\ timeLeft = 0
  /\ Finish("timeout")
  /\ UNCHANGED <<kindIdx, todo, failed, timeLeft, listed, apiVars, fixedVars>>

------------------------------------------------------------------------------
(* The specification                                                       *)

\* A spec may have deleted Parent before its cleanup runs.  Nothing outlives a
\* hard-deleted parent, and nothing stays live below a soft-deleted one.
StoreConsistent ==
  /\ store[Parent] = "gone" => \A c \in Child : store[c] \in {"none", "gone"}
  /\ store[Parent] = "deleting" => LiveChildren = {}

Init ==
  /\ entity \in Entities
  /\ kindOf \in [Child -> IF KindsBelow = {} THEN {entity.Kind} ELSE KindsBelow]
  /\ store \in [Res -> Statuses]
  /\ store[Parent] # "none"
  /\ StoreConsistent
  /\ KindsBelow = {} => \A c \in Child : store[c] = "none"
  /\ referenced \in BOOLEAN
  /\ pc = StageOf(1)
  /\ kindIdx = 1
  /\ todo = {} /\ failed = {} /\ listed = {}
  /\ timeLeft = DeletedTimeout
  /\ result = "none"

\* The steps a deployment that answers lets the cleanup take.
Answered ==
  \/ ListChildren \/ ListNotFound
  \/ \E c \in Child : DeleteChild(c)
  \/ NextKind
  \/ DeleteAccepted \/ DeleteRefused
  \/ PollGone \/ PollStillThere \/ PollDeadline

Cleanup == Answered \/ ListFails \/ DeleteFails \/ PollFails

Environment ==
  \/ \E r \in Res : HardDelete(r) \/ LateDelete(r)
  \/ \E c \in Child : LateCreate(c)
  \/ Dereference

\* The suite is over, or the process goes on to something else.
Idle == pc = "done" /\ UNCHANGED vars

Next == Cleanup \/ Environment \/ Idle

\* One goroutine runs the cleanup to its end: weak fairness.  Nothing forces a request
\* to fail, nor the adapters, or the requests in flight, to make progress.
Spec == Init /\ [][Next]_vars /\ WF_vars(Answered)

------------------------------------------------------------------------------
(* Properties                                                              *)

TypeOK ==
  /\ entity \in Entities
  /\ store \in [Res -> Statuses]
  /\ store[Parent] # "none"
  /\ referenced \in BOOLEAN
  /\ pc \in {"list", "deleteChildren", "deleteParent", "poll", "done"}
  /\ kindIdx \in Nat \ {0}
  /\ todo \subseteq Child /\ failed \subseteq Child /\ listed \subseteq Child
  /\ timeLeft \in 0..DeletedTimeout
  /\ result \in {"none", "nil"} \union Errors

\* A cleanup that returns nil left nothing alive: the resource and all below it are
\* hard-deleted when the row waits, and at least soft-deleted when it does not.  Only
\* a row that ignores conflicts may return nil over a live resource.
NilMeansGone ==
  result = "nil" /\ ~entity.Cleanup.IgnoreConflict =>
    /\ LiveChildren = {} /\ store[Parent] # "live"
    /\ entity.Cleanup.WaitForHardDelete => \A r \in Res : store[r] \in {"none", "gone"}

\* A failed child delete is not swallowed: nil over one means that the parent
\* disappeared, and every child with it.
ChildFailureReported ==
  result = "nil" /\ failed # {} => \A r \in Res : store[r] \in {"none", "gone"}

\* The API refuses the parent with 409 only over something the cleanup could not
\* help: a reference, or a child that appeared later, was off the page, was of a kind
\* the row does not clean up, or failed to delete.  "Attempt every remaining delete,
\* then let the caller delete the parent" leaves no other blocker.
ConflictIsExcused ==
  [][result # "conflict" /\ result' = "conflict" =>
       \/ referenced
       \/ \E c \in Blocking : c \in failed \union (Child \ listed)]_vars

\* The cleanup always ends, even if no adapter ever finalizes the resource: the
\* deadline bounds the polling.
CleanupEnds == <>(pc = "done")

\* How much is left to do: kinds to list and clean, children of the current one to
\* delete, the parent's deletion, the time to wait for it.
Remaining ==
  LET kinds == Len(ChildKinds) + 1 - kindIdx
  IN  CASE pc = "list"           -> <<2 * kinds + 3, 0>>
        [] pc = "deleteChildren" -> <<2 * kinds + 2, Cardinality(todo)>>
        [] pc = "deleteParent"   -> <<2, 0>>
        [] pc = "poll"           -> <<1, timeLeft>>
        [] OTHER                 -> <<0, 0>>

\* Whatever fails, every step of the cleanup's own leaves less to do, and nothing that
\* happens in the API meanwhile (children that appear, deletions that stand still) gives
\* it more: no listing is repeated, and every poll is paid for out of the deadline.
WorkRunsOut == [][UNCHANGED cleanupVars \/ Below(Remaining', Remaining)]_vars

\* CleanupTestResource keeps the promise of CleanupPromise.
Promise == INSTANCE CleanupPromise WITH
  Policies <- {e.Cleanup : e \in Entities},
  policy   <- entity.Cleanup,
  phase    <- store[Parent],
  verdict  <- CASE result = "none" -> "pending" [] result = "nil" -> "clean" [] OTHER -> "warning"

KeepsPromise == Promise!Spec
==============================================================================
