---------------------------- MODULE SpecTeardown ----------------------------
(***************************************************************************)
(* How one Ginkgo spec leaves the shared environment: its BeforeEach and   *)
(* It bodies run step by step, any step may fail halfway, and then the     *)
(* AfterEach and the DeferCleanup functions run, last registered first,    *)
(* whatever happened before.  SpecScripts holds the specs of e2e/.         *)
(***************************************************************************)
EXTENDS Integers, Sequences, FiniteSets, Ranks

CONSTANT
  Scripts        (* the specs: records [body |-> steps, after |-> operations] *)

(***************************************************************************)
(* Departures from the environment the suite was given.  An operation      *)
(* makes some of them or undoes some, or works on the spec's one cluster.  *)
(***************************************************************************)
Outages == {"cl-namespace down", "sentinel down", "applier down", "finalizer"}
Marks == Outages \union
  {"adapter chart", "api chart", "ADAPTER_NAME", "store policy", "release",
   "subscription", "required", "adapter down", "wifconfig"}

\* A failure of the operation that makes one of these leaves nothing behind.
Atomic == {"adapter chart", "api chart", "ADAPTER_NAME"}

Verbs == {"make", "undo", "create", "delete", "forceDelete", "cleanup",
          "awaitGone", "awaitReconciled", "check"}
Operation == [verb : Verbs, marks : SUBSET Marks]

ASSUME ScriptsAssumption ==
  \A s \in Scripts :
    /\ s.body \in Seq([kind : {"try", "expect", "defer"}, ops : Seq(Operation)])
    /\ s.after \in Seq(Operation)
    /\ \A i \in DOMAIN s.body : s.body[i].kind = "try" => Len(s.body[i].ops) = 1

VARIABLES
  script,        \* the spec that runs (fixed)
  marks,         \* how the environment differs from the one the suite was given
  cluster,       \* the spec's cluster: "none", "live", "deleting", "gone", or
                 \* "orphan": created, but the spec never learnt its id
  phase,         \* "body", "cleanup", "waiting" (for a hard-delete) or "done"
  next,          \* the body's next step
  err,           \* the error variable the next Expect looks at
  pending,       \* cleanup operations still to run, in order
  broken         \* history: what a cleanup operation failed to undo

vars == <<script, marks, cluster, phase, next, err, pending, broken>>

------------------------------------------------------------------------------
(* The system under test                                                   *)

\* What keeps a deleting cluster from being hard-deleted (and a live one from being
\* reconciled): a part every cluster needs is down, a finalizer holds its objects, or
\* an adapter it requires is not running.
Holding ==
  (marks \intersect Outages) \union
  {m \in marks : m = "required" /\ ("release" \notin marks \/ "adapter down" \in marks)}

HardDelete ==
  /\ cluster = "deleting" /\ Holding = {}
  /\ cluster' = "gone"
  /\ UNCHANGED <<script, marks, phase, next, err, pending, broken>>

\* A running adapter creates its subscription whenever it is missing.
Subscribe ==
  /\ "release" \in marks /\ "adapter down" \notin marks /\ "subscription" \notin marks
  /\ marks' = marks \union {"subscription"}
  /\ UNCHANGED <<script, cluster, phase, next, err, pending, broken>>

------------------------------------------------------------------------------
(* The outcomes of an operation                                            *)

Succeeds(op) ==
  \/ /\ op.verb = "make"
     /\ marks' = marks \union op.marks /\ UNCHANGED cluster
  \/ /\ op.verb = "undo"
     \* 409 for a referenced wifconfig is ignored by its cleanup policy
     /\ marks' = marks \ (IF cluster \in {"live", "deleting"} THEN op.marks \ {"wifconfig"}
                                                              ELSE op.marks)
     /\ UNCHANGED cluster
  \/ /\ op.verb = "create"
     /\ cluster' = "live" /\ UNCHANGED marks
  \/ /\ op.verb = "delete"
     /\ cluster' = (IF cluster = "live" THEN "deleting" ELSE cluster) /\ UNCHANGED marks
  \/ /\ op.verb = "forceDelete"
     /\ cluster' = "gone" /\ UNCHANGED marks
  \/ /\ op.verb = "awaitGone" /\ cluster = "gone"
     /\ UNCHANGED <<marks, cluster>>
  \/ /\ op.verb = "awaitReconciled" /\ cluster = "live" /\ Holding = {}
     /\ UNCHANGED <<marks, cluster>>
  \/ /\ op.verb = "check"
     /\ UNCHANGED <<marks, cluster>>

\* A failed operation may still have taken effect, wholly or in part.
Fails(op) ==
  \/ /\ op.verb = "make"
     /\ \E left \in SUBSET (op.marks \ Atomic) : marks' = marks \union left
     /\ UNCHANGED cluster
  \/ /\ op.verb = "undo"
     /\ \E undone \in SUBSET op.marks : marks' = marks \ undone
     /\ UNCHANGED cluster
  \/ /\ op.verb = "create"
     /\ cluster' \in {cluster, "orphan"} /\ UNCHANGED marks
  \/ /\ op.verb \in {"delete", "cleanup"} /\ cluster \notin {"none", "orphan"}
     /\ cluster' \in {cluster, IF cluster = "live" THEN "deleting" ELSE cluster}
     /\ UNCHANGED marks
  \/ /\ op.verb = "forceDelete"
     /\ cluster' \in {cluster, "gone"} /\ UNCHANGED marks
  \/ /\ op.verb \in {"awaitGone", "awaitReconciled", "check"}
     /\ UNCHANGED <<marks, cluster>>

------------------------------------------------------------------------------
(* The runner.  A definition named after another one with a suffix is its  *)
(* mutated form: a bug the properties must catch.                          *)

Step == script.body[next]
InBody(kind) == phase = "body" /\ next <= Len(script.body) /\ Step.kind = kind

Try ==
  /\ InBody("try")
  /\ Succeeds(Step.ops[1])
  /\ err' = FALSE /\ next' = next + 1
  /\ UNCHANGED <<script, phase, pending, broken>>

TryFails ==
  /\ InBody("try")
  /\ Fails(Step.ops[1])
  /\ err' = TRUE /\ next' = next + 1
  /\ UNCHANGED <<script, phase, pending, broken>>

\* DeferCleanup: the function's operations run before those registered earlier.
Defer_Appends ==
  /\ InBody("defer")
  /\ pending' = pending \o Step.ops
  /\ next' = next + 1
  /\ UNCHANGED <<script, marks, cluster, phase, err, broken>>

Defer ==
  /\ InBody("defer")
  /\ pending' = Step.ops \o pending
  /\ next' = next + 1
  /\ UNCHANGED <<script, marks, cluster, phase, err, broken>>

ExpectHolds_Skips ==
  /\ InBody("expect") /\ ~err
  /\ next' = next + 2
  /\ UNCHANGED <<script, marks, cluster, phase, err, pending, broken>>

ExpectHolds ==
  /\ InBody("expect") /\ ~err
  /\ next' = next + 1
  /\ UNCHANGED <<script, marks, cluster, phase, err, pending, broken>>

\* A failed Expect ends the body, as its last step does: AfterEach comes first.
\* No cleanup looks at where the body ended.
EndBody ==
  /\ phase = "body"
  /\ next > Len(script.body) \/ (InBody("expect") /\ err)
  /\ phase' = "cleanup"
  /\ next' = Len(script.body) + 1 /\ err' = FALSE
  /\ pending' = script.after \o pending
  /\ UNCHANGED <<script, marks, cluster, broken>>

InCleanup == phase = "cleanup" /\ pending # << >>

\* Every cleanup operation runs: a failure is logged as a warning and goes no further.
CleanupStep ==
  /\ InCleanup
  /\ Succeeds(Head(pending))
  /\ pending' = Tail(pending)
  /\ UNCHANGED <<script, phase, next, err, broken>>

CleanupFails_Aborts ==
  /\ InCleanup
  /\ Fails(Head(pending))
  /\ pending' = << >>
  /\ broken' = broken \union Head(pending).marks
       \union (IF Head(pending).verb \in {"delete", "cleanup"} THEN {"cluster"} ELSE {})
  /\ UNCHANGED <<script, phase, next, err>>

CleanupFails ==
  /\ InCleanup
  /\ Fails(Head(pending))
  /\ pending' = Tail(pending)
  /\ broken' = broken \union Head(pending).marks
       \union (IF Head(pending).verb \in {"delete", "cleanup"} THEN {"cluster"} ELSE {})
  /\ UNCHANGED <<script, phase, next, err>>

\* CleanupTestResource on the cluster: 404 is ignored, an accepted DELETE is waited for.
CleanupCluster ==
  /\ InCleanup /\ Head(pending).verb = "cleanup"
  /\ pending' = Tail(pending)
  /\ IF cluster \in {"live", "deleting"}
     THEN cluster' = "deleting" /\ phase' = "waiting"
     ELSE UNCHANGED <<cluster, phase>>
  /\ UNCHANGED <<script, marks, next, err, broken>>

WaitOver ==
  /\ phase = "waiting" /\ cluster = "gone"
  /\ phase' = "cleanup"
  /\ UNCHANGED <<script, marks, cluster, next, err, pending, broken>>

WaitFails_NoDeadline ==
  /\ phase = "waiting"
  /\ UNCHANGED vars

\* The deadline passes, or a poll fails.
WaitFails ==
  /\ phase = "waiting"
  /\ phase' = "cleanup"
  /\ broken' = broken \union {"cluster"}
  /\ UNCHANGED <<script, marks, cluster, next, err, pending>>

Finish ==
  /\ phase = "cleanup" /\ pending = << >>
  /\ phase' = "done"
  /\ UNCHANGED <<script, marks, cluster, next, err, pending, broken>>

------------------------------------------------------------------------------
(* The specification                                                       *)

Init ==
  /\ script \in Scripts
  /\ marks = {} /\ cluster = "none"
  /\ phase = "body" /\ next = 1 /\ err = FALSE
  /\ pending = << >> /\ broken = {}

Runner ==
  \/ Try \/ TryFails \/ Defer \/ ExpectHolds \/ EndBody
  \/ CleanupStep \/ CleanupFails \/ CleanupCluster \/ WaitOver \/ WaitFails \/ Finish

\* The next spec starts.
Idle == phase = "done" /\ UNCHANGED vars

Next == Runner \/ HardDelete \/ Subscribe \/ Idle

\* The spec's goroutine runs on, its waits have deadlines, and the system under test
\* finishes a deletion that nothing holds back.
Spec == Init /\ [][Next]_vars /\ WF_vars(Runner) /\ WF_vars(HardDelete)

------------------------------------------------------------------------------
(* Properties                                                              *)

TypeOK ==
  /\ script \in Scripts
  /\ marks \subseteq Marks
  /\ cluster \in {"none", "live", "deleting", "gone", "orphan"}
  /\ phase \in {"body", "cleanup", "waiting", "done"}
  /\ next \in 1..(Len(script.body) + 1)
  /\ err \in BOOLEAN
  /\ pending \in Seq(Operation)
  /\ broken \subseteq Marks \union {"cluster"}

\* What may be left behind: what a cleanup tried to undo and could not, and what
\* that in turn keeps alive (an adapter its subscription, a cluster the wifconfig).
Excused ==
  broken \union (IF "release" \in broken THEN {"subscription"} ELSE {})
         \union (IF "cluster" \in broken THEN {"wifconfig"} ELSE {})

\* Wherever the body failed, and however far the failing step had got, the spec hands
\* back the environment it was given, save for what its cleanups could not undo.
Restored == phase = "done" => marks \subseteq Excused

\* A rule one can check by reading a spec: no cleanup makes anything, and whatever the
\* body makes is undone by a cleanup registered before, or right behind, the call that
\* makes it, or behind the assertion on it if a failed call leaves nothing; the cleanup
\* that uninstalls an adapter deletes its subscription after it. (A wifconfig, whose
\* cleanup may be refused over a cluster, is outside the rule.)
Undoes(op, mark) == op.verb = "undo" /\ mark \in op.marks

Covers(ops, mark) ==
  \E k \in DOMAIN ops :
    /\ Undoes(ops[k], mark)
    /\ mark = "release" => \E l \in DOMAIN ops : k <= l /\ Undoes(ops[l], "subscription")

Tries(s, i)   == i \in DOMAIN s.body /\ s.body[i].kind = "try"
IsDefer(s, j) == j \in DOMAIN s.body /\ s.body[j].kind = "defer"
Makes(s, i, mark) ==
  Tries(s, i) /\ s.body[i].ops[1].verb = "make" /\ mark \in s.body[i].ops[1].marks
Defers(s, j, mark) == IsDefer(s, j) /\ Covers(s.body[j].ops, mark)

CleanupsMakeNothing(s) ==
  /\ \A j \in DOMAIN s.body : IsDefer(s, j) =>
       \A k \in DOMAIN s.body[j].ops : s.body[j].ops[k].verb # "make"
  /\ \A k \in DOMAIN s.after : s.after[k].verb # "make"

Guarded(s) ==
  /\ CleanupsMakeNothing(s)
  /\ \A i \in DOMAIN s.body : Tries(s, i) /\ s.body[i].ops[1].verb = "make" =>
       \A mark \in s.body[i].ops[1].marks :
         /\ mark # "wifconfig"
         /\ \/ \E j \in 1..(i + 1) : Defers(s, j, mark)
            \/ /\ mark \in Atomic /\ Defers(s, i + 2, mark)
               /\ s.body[i + 1].kind = "expect"

\* A spec that keeps to the rule is restored, whatever it does otherwise.
GuardedRestored == Guarded(script) => Restored

\* A cleanup never waits for a hard-delete that the spec's own outage prevents, unless
\* the cleanup that should have ended the outage failed.
NoDoomedWait == phase = "waiting" => Holding \subseteq broken

\* "Adapter cleanup (executed AFTER API config restore due to LIFO)": an adapter goes
\* only when the API no longer waits for it, or could not be told so.
UninstalledAfterRestore ==
  [][phase = "cleanup" /\ "release" \in marks \ marks' =>
       "required" \in broken \/ "required" \notin marks]_vars

\* Rules for the order of the cleanups.  In a sequence of operations, what undoes a mark
\* stands before each of a set of others.
UndoneFirst(ops, mark, others) ==
  \A k \in DOMAIN ops : ops[k] \in others => \E l \in 1..(k - 1) : Undoes(ops[l], mark)

Registers(s, j, mark) ==
  IsDefer(s, j) /\ \E k \in DOMAIN s.body[j].ops : Undoes(s.body[j].ops[k], mark)

\* The cleanups undo a mark that the body makes before they run any of the others: those
\* registered with or after the call that makes it in themselves, those registered before
\* it because an undo is registered between.
Ordered(s, mark, others) ==
  \A i \in DOMAIN s.body : Makes(s, i, mark) =>
    /\ UndoneFirst(s.after, mark, others)
    /\ \A j \in DOMAIN s.body : IsDefer(s, j) =>
         \/ UndoneFirst(s.body[j].ops, mark, others)
         \/ \E r \in (j + 1)..(i + 1) : Registers(s, r, mark)

CleanupOps    == [verb : {"cleanup"}, marks : SUBSET Marks]
UndoOps(mark) == {op \in Operation : Undoes(op, mark)}
Cleans(ops)   == \E k \in DOMAIN ops : ops[k] \in CleanupOps

\* The adapter that a spec makes the API require is up before, and until the last cluster
\* cleanup has been run: the call that installs it is asserted on first, and whatever
\* uninstalls it was registered before any cluster cleanup.
KeepsAdapter(s) ==
  /\ \A i \in DOMAIN s.body : ~Makes(s, i, "adapter down")
  /\ \A i \in DOMAIN s.body : Tries(s, i) => ~Undoes(s.body[i].ops[1], "release")
  /\ \A i \in DOMAIN s.body : Makes(s, i, "required") =>
       \E r \in 1..(i - 1) : \E e \in (r + 1)..(i - 1) :
         /\ Makes(s, r, "release") /\ s.body[e].kind = "expect"
         /\ \A d \in (r + 1)..(e - 1) : IsDefer(s, d)
  /\ \A j \in DOMAIN s.body : IsDefer(s, j) =>
       \A k \in DOMAIN s.body[j].ops : Undoes(s.body[j].ops[k], "release") =>
         /\ \A l \in DOMAIN s.body[j].ops : l > k => s.body[j].ops[l] \notin CleanupOps
         /\ \A d \in 1..(j - 1) : IsDefer(s, d) => ~Cleans(s.body[d].ops)
  /\ \A k \in DOMAIN s.after : ~Undoes(s.after[k], "release")

Promptly(s) ==
  /\ CleanupsMakeNothing(s)
  /\ \A outage \in Outages : Ordered(s, outage, CleanupOps)
  /\ Ordered(s, "required", CleanupOps) \/ KeepsAdapter(s)

RestoresFirst(s) == CleanupsMakeNothing(s) /\ Ordered(s, "required", UndoOps("release"))

\* No cleanup of a spec that ends its outages promptly waits in vain, wherever it fails.
PromptNeverDoomed == Promptly(script) => NoDoomedWait

\* Even a cleanup that gave up waiting leaves no cluster for good, when every undo
\* succeeded: the deletion it requested completes once the environment is back.
ClusterNotLeaked ==
  (phase = "done" /\ broken \subseteq {"cluster"} /\ cluster # "live") ~>
  cluster \notin {"live", "deleting"}

\* How much is left to do: steps of the body, cleanup operations, waits.
Remaining ==
  CASE phase = "body"    -> <<Len(script.body) + 3 - next, 0>>
    [] phase = "cleanup" -> <<1, 2 * Len(pending)>>
    [] phase = "waiting" -> <<1, 2 * Len(pending) + 1>>
    [] OTHER             -> <<0, 0>>

\* Every step of the runner leaves less to do, whatever fails: no cleanup operation is
\* tried again, none registers another, and no wait comes back to the operation it was for.
WorkRunsOut ==
  [][UNCHANGED <<phase, next, err, pending, broken>> \/ Below(Remaining', Remaining)]_vars

\* Every spec ends with all of its cleanups run.
TeardownEnds == <>(phase = "done" /\ pending = << >>)
==============================================================================
