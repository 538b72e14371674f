------------------------- MODULE SpecTeardownProofs -------------------------
(***************************************************************************)
(* Proofs about SpecTeardown, for any scripts, wherever the body fails: a  *)
(* script which keeps to the rule of Guarded hands back the environment,   *)
(* one which keeps to Promptly waits for nothing that its own outage       *)
(* prevents, and every teardown runs out of work.                          *)
(***************************************************************************)
EXTENDS SpecTeardown, SequenceTheorems, TLAPS

\* What the body's next step, or the one behind an assertion that holds, will register.
Due(mark) ==
  \/ Defers(script, next, mark)
  \/ Defers(script, next + 1, mark) /\ InBody("expect") /\ ~err

InTheBody ==
  phase = "body" =>
    /\ \A j \in DOMAIN script.body, mark \in Marks :
         j < next /\ Defers(script, j, mark) => Covers(pending, mark)
    /\ \A mark \in marks : Covers(pending, mark) \/ Due(mark)

InTheCleanup ==
  phase # "body" => \A mark \in marks : Covers(pending, mark) \/ mark \in Excused

NoMakes == \A k \in DOMAIN pending : pending[k].verb # "make"

Rest == phase = "done" => pending = << >>

Tidied == Guarded(script) =>
  /\ "wifconfig" \notin marks
  /\ NoMakes /\ Rest /\ InTheBody /\ InTheCleanup

------------------------------------------------------------------------------
(* Sequences of cleanup operations                                         *)

Ops == Seq(Operation)

\* What is left of a sequence of operations without its first.
LEMMA Rests ==
  ASSUME NEW ops \in Ops, ops # << >>
  PROVE  /\ Head(ops) = ops[1] /\ Head(ops) \in Operation
         /\ Tail(ops) \in Ops /\ Len(Tail(ops)) = Len(ops) - 1
         /\ DOMAIN ops = 1..Len(ops) /\ DOMAIN Tail(ops) = 1..(Len(ops) - 1)
         /\ \A k \in 1..(Len(ops) - 1) : Tail(ops)[k] = ops[k + 1]
BY HeadTailProperties DEF Ops

\* A sequence of operations behind another one.
LEMMA Joins ==
  ASSUME NEW first \in Ops, NEW second \in Ops
  PROVE  /\ first \o second \in Ops
         /\ DOMAIN (first \o second) = 1..(Len(first) + Len(second))
         /\ \A k \in DOMAIN first : k \in DOMAIN (first \o second) /\ (first \o second)[k] = first[k]
         /\ \A k \in DOMAIN second :
              /\ Len(first) + k \in DOMAIN (first \o second)
              /\ (first \o second)[Len(first) + k] = second[k]
BY ConcatProperties DEF Ops

\* An operation that does not undo a mark covers nothing of it.
LEMMA CoversTail ==
  ASSUME NEW ops \in Ops, ops # << >>, NEW mark, Covers(ops, mark), ~Undoes(Head(ops), mark)
  PROVE  Covers(Tail(ops), mark)
<1>1. PICK k \in DOMAIN ops :
        /\ Undoes(ops[k], mark)
        /\ mark = "release" => \E l \in DOMAIN ops : k <= l /\ Undoes(ops[l], "subscription")
  BY DEF Covers
<1>2. k # 1 /\ k - 1 \in DOMAIN Tail(ops) /\ Tail(ops)[k - 1] = ops[k]
  BY <1>1, Rests DEF Ops
<1>3. ASSUME mark = "release"
      PROVE  \E l \in DOMAIN Tail(ops) : k - 1 <= l /\ Undoes(Tail(ops)[l], "subscription")
  <2>1. PICK l \in DOMAIN ops : k <= l /\ Undoes(ops[l], "subscription")
    BY <1>1, <1>3
  <2>2. l - 1 \in DOMAIN Tail(ops) /\ Tail(ops)[l - 1] = ops[l] /\ k - 1 <= l - 1
    BY <1>2, <2>1, Rests DEF Ops
  <2> QED BY <2>1, <2>2
<1> QED BY <1>1, <1>2, <1>3 DEF Covers

\* What one of two sequences covers, both together do.
LEMMA CoversBoth ==
  ASSUME NEW first \in Ops, NEW second \in Ops, NEW mark,
         Covers(first, mark) \/ Covers(second, mark)
  PROVE  Covers(first \o second, mark)
<1> DEFINE both == first \o second
<1> USE DEF Covers
<1>1. CASE Covers(first, mark)
  <2>1. PICK k \in DOMAIN first :
          /\ Undoes(first[k], mark)
          /\ mark = "release" =>
               \E l \in DOMAIN first : k <= l /\ Undoes(first[l], "subscription")
    BY <1>1
  <2>2. \A l \in DOMAIN first : l \in DOMAIN both /\ both[l] = first[l]
    BY Joins
  <2> QED BY <2>1, <2>2
<1>2. CASE Covers(second, mark)
  <2>1. PICK k \in DOMAIN second :
          /\ Undoes(second[k], mark)
          /\ mark = "release" =>
               \E l \in DOMAIN second : k <= l /\ Undoes(second[l], "subscription")
    BY <1>2
  <2>2. \A l \in DOMAIN second :
          Len(first) + l \in DOMAIN both /\ both[Len(first) + l] = second[l]
    BY Joins
  <2>3. Len(first) \in Nat /\ \A l \in DOMAIN second : l \in Nat
    BY DEF Ops
  <2>4. ASSUME mark = "release"
        PROVE  \E l \in DOMAIN both : Len(first) + k <= l /\ Undoes(both[l], "subscription")
    <3>1. PICK l \in DOMAIN second : k <= l /\ Undoes(second[l], "subscription")
      BY <2>1, <2>4
    <3>2. Len(first) + k <= Len(first) + l
      BY <2>3, <3>1
    <3> QED BY <2>2, <3>1, <3>2
  <2> QED BY <2>1, <2>2, <2>4
<1> QED BY <1>1, <1>2

\* If neither of two sequences makes anything, both together do not.
LEMMA JoinedNoMakes ==
  ASSUME NEW first \in Ops, NEW second \in Ops,
         \A k \in DOMAIN first : first[k].verb # "make",
         \A k \in DOMAIN second : second[k].verb # "make"
  PROVE  \A k \in DOMAIN (first \o second) : (first \o second)[k].verb # "make"
<1> SUFFICES ASSUME NEW k \in DOMAIN (first \o second)
             PROVE  (first \o second)[k].verb # "make"
  OBVIOUS
<1>1. /\ DOMAIN first = 1..Len(first) /\ DOMAIN second = 1..Len(second)
      /\ Len(first) \in Nat /\ Len(second) \in Nat
  BY DEF Ops
<1>2. k \in 1..(Len(first) + Len(second))
  BY Joins
<1>3. CASE k <= Len(first)
  BY <1>1, <1>2, <1>3, Joins
<1>4. CASE k > Len(first)
  <2>1. k - Len(first) \in DOMAIN second /\ k = Len(first) + (k - Len(first))
    BY <1>1, <1>2, <1>4
  <2> QED BY <2>1, Joins
<1> QED BY <1>1, <1>2, <1>3, <1>4

\* Who uninstalls an adapter deletes its subscription.
LEMMA ReleaseCovers ==
  ASSUME NEW ops, Covers(ops, "release")
  PROVE  Covers(ops, "subscription")
BY DEF Covers

------------------------------------------------------------------------------
(* Types                                                                   *)

\* A script's parts.
LEMMA ScriptTypes ==
  ASSUME TypeOK
  PROVE  /\ script.after \in Ops
         /\ script.body \in Seq([kind : {"try", "expect", "defer"}, ops : Ops])
         /\ Len(script.body) \in Nat /\ DOMAIN script.body = 1..Len(script.body)
         /\ \A i \in DOMAIN script.body :
              /\ script.body[i].ops \in Ops
              /\ script.body[i].kind = "try" => script.body[i].ops[1] \in Operation
<1>1. script \in Scripts
  BY DEF TypeOK
<1>2. /\ script.after \in Ops
      /\ script.body \in Seq([kind : {"try", "expect", "defer"}, ops : Ops])
      /\ \A i \in DOMAIN script.body :
           script.body[i].kind = "try" => Len(script.body[i].ops) = 1
  BY <1>1, ScriptsAssumption DEF Ops
<1>3. Len(script.body) \in Nat /\ DOMAIN script.body = 1..Len(script.body)
  BY <1>2
<1>4. \A i \in DOMAIN script.body : script.body[i].ops \in Ops
  <2> DEFINE Element == [kind : {"try", "expect", "defer"}, ops : Ops]
  <2>1. script.body \in Seq(Element)
    BY <1>2
  <2>2. \A i \in 1..Len(script.body) : script.body[i] \in Element
    BY <2>1, ElementOfSeq
  <2> QED BY <1>3, <2>2
<1>5. \A ops \in Ops : Len(ops) = 1 => ops[1] \in Operation
  BY DEF Ops
<1> QED BY <1>2, <1>3, <1>4, <1>5

\* An operation, whether it succeeds or fails, keeps the types of what it changes.
LEMMA OutcomeTypes ==
  ASSUME TypeOK, NEW op \in Operation, Succeeds(op) \/ Fails(op)
  PROVE  marks' \subseteq Marks /\ cluster' \in {"none", "live", "deleting", "gone", "orphan"}
<1>1. op.marks \subseteq Marks /\ marks \subseteq Marks
  BY DEF TypeOK, Operation
<1>2. marks' \subseteq marks \union op.marks
  BY DEF Succeeds, Fails
<1>3. cluster' \in {"none", "live", "deleting", "gone", "orphan"}
  BY DEF Succeeds, Fails, TypeOK
<1> QED BY <1>1, <1>2, <1>3

\* Every step keeps the types.
LEMMA NextTypes == TypeOK /\ [Next]_vars => TypeOK'
<1> SUFFICES ASSUME TypeOK, [Next]_vars PROVE TypeOK'
  OBVIOUS
<1> USE DEF Ops
<1>0. /\ script.after \in Ops /\ pending \in Ops
      /\ Len(script.body) \in Nat /\ DOMAIN script.body = 1..Len(script.body)
      /\ \A i \in DOMAIN script.body :
           /\ script.body[i].ops \in Ops
           /\ script.body[i].kind = "try" => script.body[i].ops[1] \in Operation
  BY ScriptTypes DEF TypeOK
<1>1. CASE Try \/ TryFails
  <2>1. Step.ops[1] \in Operation /\ next \in 1..Len(script.body)
    BY <1>0, <1>1 DEF Try, TryFails, InBody, Step, TypeOK
  <2>2. Succeeds(Step.ops[1]) \/ Fails(Step.ops[1])
    BY <1>1 DEF Try, TryFails
  <2>3. marks' \subseteq Marks /\ cluster' \in {"none", "live", "deleting", "gone", "orphan"}
    BY <2>1, <2>2, OutcomeTypes
  <2>4. /\ script' = script /\ phase' = phase /\ pending' = pending /\ broken' = broken
        /\ err' \in BOOLEAN /\ next' = next + 1
    BY <1>1 DEF Try, TryFails
  <2>5. next' \in 1..(Len(script'.body) + 1)
    BY <1>0, <2>1, <2>4
  <2> QED BY <2>3, <2>4, <2>5 DEF TypeOK
<1>2. CASE Defer
  <2>1. next \in 1..Len(script.body) /\ Step.ops \o pending \in Ops
    BY <1>0, <1>2, Joins DEF Defer, InBody, Step, TypeOK
  <2> QED BY <1>0, <1>2, <2>1 DEF Defer, TypeOK
<1>3. CASE ExpectHolds
  BY <1>0, <1>3 DEF ExpectHolds, InBody, TypeOK
<1>4. CASE EndBody
  <2>1. script.after \o pending \in Ops
    BY <1>0, Joins
  <2>2. next' = Len(script.body) + 1 /\ script' = script
    BY <1>4 DEF EndBody
  <2>3. next' \in 1..(Len(script'.body) + 1)
    BY <1>0, <2>2
  <2> QED BY <1>4, <2>1, <2>3 DEF EndBody, TypeOK
<1>5. CASE CleanupStep \/ CleanupFails
  <2>1. Head(pending) \in Operation /\ Tail(pending) \in Ops
    BY <1>0, <1>5, Rests DEF CleanupStep, CleanupFails, InCleanup
  <2>2. Succeeds(Head(pending)) \/ Fails(Head(pending))
    BY <1>5 DEF CleanupStep, CleanupFails
  <2>3. marks' \subseteq Marks /\ cluster' \in {"none", "live", "deleting", "gone", "orphan"}
    BY <2>1, <2>2, OutcomeTypes
  <2>4. broken' \subseteq Marks \union {"cluster"}
    BY <1>5, <2>1 DEF CleanupStep, CleanupFails, TypeOK, Operation
  <2> QED BY <1>5, <2>1, <2>3, <2>4 DEF CleanupStep, CleanupFails, TypeOK
<1>6. CASE CleanupCluster
  <2>1. Tail(pending) \in Ops
    BY <1>0, <1>6, Rests DEF CleanupCluster, InCleanup
  <2> QED BY <1>6, <2>1 DEF CleanupCluster, TypeOK
<1>7. CASE WaitOver \/ WaitFails \/ Finish
  BY <1>7 DEF WaitOver, WaitFails, Finish, TypeOK
<1>8. CASE HardDelete \/ Subscribe
  BY <1>8 DEF HardDelete, Subscribe, TypeOK, Marks
<1>9. CASE UNCHANGED vars
  BY <1>9 DEF vars, TypeOK
<1> QED BY <1>1, <1>2, <1>3, <1>4, <1>5, <1>6, <1>7, <1>8, <1>9 DEF Next, Runner, Idle

\* Every variable keeps its type, and the body never runs beyond its last step.
THEOREM TypeCorrect == Spec => []TypeOK
<1>1. Init => TypeOK
  <2> SUFFICES ASSUME Init PROVE TypeOK
    OBVIOUS
  <2>1. script \in Scripts /\ Len(script.body) \in Nat
    BY ScriptsAssumption DEF Init
  <2>2. next \in 1..(Len(script.body) + 1)
    BY <2>1 DEF Init
  <2>3. pending \in Seq(Operation)
    BY EmptySeq DEF Init
  <2> QED BY <2>1, <2>2, <2>3 DEF Init, TypeOK
<1> QED BY <1>1, NextTypes, PTL DEF Spec

------------------------------------------------------------------------------
(* Scripts that keep to the rule                                           *)

\* Where the adapter's uninstall is still to come, so is its subscription's deletion, and
\* an adapter that could not be uninstalled excuses its subscription.
LEMMA SubscriptionGoesWith ==
  /\ Covers(pending, "release") => Covers(pending, "subscription")
  /\ Due("release") => Due("subscription")
  /\ "release" \in Excused => "subscription" \in Excused
BY ReleaseCovers DEF Due, Defers, IsDefer, Excused

\* A cleanup excuses no less for more that is broken.
LEMMA ExcusedGrows ==
  ASSUME broken \subseteq broken'
  PROVE  Excused \subseteq Excused'
BY DEF Excused

\* A step of the body that calls an operation.
LEMMA TryTidied ==
  ASSUME TypeOK, Tidied, Guarded(script), Try \/ TryFails
  PROVE  Tidied'
<1> DEFINE op == Step.ops[1]
<1>1. /\ phase = "body" /\ next \in DOMAIN script.body /\ script.body[next].kind = "try"
      /\ next' = next + 1 /\ UNCHANGED <<script, phase, pending, broken>>
      /\ next \in Nat
  BY ScriptTypes DEF Try, TryFails, InBody, Step, TypeOK
<1>2. op.verb # "make" => marks' \subseteq marks
  BY DEF Try, TryFails, Succeeds, Fails
<1>4. ASSUME NEW mark \in marks' PROVE Covers(pending, mark) \/ Due(mark)'
  <2>1. CASE mark \in marks
    <3>1. Covers(pending, mark) \/ Due(mark)
      BY <1>1, <2>1 DEF Tidied, InTheBody
    <3>2. ~Due(mark)
      BY <1>1 DEF Due, Defers, IsDefer, InBody, Step
    <3> QED BY <3>1, <3>2
  <2>2. CASE mark \notin marks
    <3>1. op.verb = "make" /\ mark \in op.marks /\ (mark \in Atomic => err' = FALSE)
      BY <1>2, <1>4, <2>2 DEF Try, TryFails, Succeeds, Fails
    <3>2. \/ \E j \in 1..(next + 1) : Defers(script, j, mark)
          \/ /\ mark \in Atomic /\ Defers(script, next + 2, mark)
             /\ script.body[next + 1].kind = "expect"
      BY <1>1, <3>1 DEF Guarded, Tries, Step
    <3>3. mark \in Marks
      BY <3>1, <1>1, ScriptTypes DEF Step, Operation
    <3>4. CASE \E j \in 1..(next + 1) : Defers(script, j, mark)
      <4>1. PICK j \in 1..(next + 1) : Defers(script, j, mark)
        BY <3>4
      <4>2. j # next
        BY <1>1, <4>1 DEF Defers, IsDefer
      <4>3. CASE j < next
        <5>1. j \in DOMAIN script.body
          BY <4>1 DEF Defers, IsDefer
        <5> QED BY <1>1, <3>3, <4>1, <4>3, <5>1 DEF Tidied, InTheBody
      <4>4. CASE j = next + 1
        BY <1>1, <4>1, <4>4 DEF Due
      <4> QED BY <1>1, <4>1, <4>2, <4>3, <4>4
    <3>5. CASE /\ mark \in Atomic /\ Defers(script, next + 2, mark)
               /\ script.body[next + 1].kind = "expect"
      <4>1. err' = FALSE /\ next' + 1 = next + 2 /\ next + 2 \in DOMAIN script.body
        BY <1>1, <3>1, <3>5 DEF Defers, IsDefer
      <4>2. next + 1 <= Len(script.body)
        BY <1>1, <4>1, ScriptTypes
      <4> QED BY <1>1, <3>5, <4>1, <4>2 DEF Due, InBody, Step
    <3> QED BY <3>2, <3>4, <3>5
  <2> QED BY <2>1, <2>2
<1>5. "wifconfig" \notin marks'
  <2>1. op.verb = "make" => "wifconfig" \notin op.marks
    BY <1>1 DEF Guarded, Tries, Step
  <2>2. marks' \subseteq marks \union op.marks
    BY DEF Try, TryFails, Succeeds, Fails
  <2> QED BY <1>2, <2>1, <2>2 DEF Tidied
<1>6. ASSUME NEW j \in DOMAIN script.body, NEW mark \in Marks, j < next', Defers(script, j, mark)
      PROVE  Covers(pending, mark)
  <2>1. j # next
    BY <1>1, <1>6 DEF Defers, IsDefer
  <2>2. j < next
    BY <1>1, <1>6, <2>1, ScriptTypes
  <2> QED BY <1>1, <1>6, <2>2 DEF Tidied, InTheBody
<1> QED BY <1>1, <1>4, <1>5, <1>6 DEF Tidied, NoMakes, Rest, InTheBody, InTheCleanup

\* A step of the body that registers a cleanup.
LEMMA DeferTidied ==
  ASSUME TypeOK, Tidied, Guarded(script), Defer
  PROVE  Tidied'
<1>1. /\ phase = "body" /\ next \in DOMAIN script.body /\ script.body[next].kind = "defer"
      /\ next' = next + 1 /\ next \in Nat
      /\ pending' = script.body[next].ops \o pending
      /\ UNCHANGED <<script, marks, cluster, phase, err, broken>>
  BY ScriptTypes DEF Defer, InBody, Step, TypeOK
<1>2. script.body[next].ops \in Ops /\ pending \in Ops
  BY <1>1, ScriptTypes DEF TypeOK, Ops
<1>3. \A mark : Covers(pending, mark) \/ Covers(script.body[next].ops, mark)
                  => Covers(pending', mark)
  BY <1>1, <1>2, CoversBoth
<1>4. NoMakes'
  <2>1. \A k \in DOMAIN script.body[next].ops : script.body[next].ops[k].verb # "make"
    BY <1>1 DEF Guarded, CleanupsMakeNothing, IsDefer
  <2>2. \A k \in DOMAIN pending : pending[k].verb # "make"
    BY DEF Tidied, NoMakes
  <2> QED BY <1>1, <1>2, <2>1, <2>2, JoinedNoMakes DEF NoMakes
<1>5. ASSUME NEW mark \in marks PROVE Covers(pending', mark)
  <2>1. Covers(pending, mark) \/ Due(mark)
    BY <1>1 DEF Tidied, InTheBody
  <2>2. Due(mark) => Covers(script.body[next].ops, mark)
    BY <1>1 DEF Due, Defers, IsDefer, InBody, Step
  <2> QED BY <1>3, <2>1, <2>2
<1>6. ASSUME NEW j \in DOMAIN script.body, NEW mark \in Marks, j < next', Defers(script, j, mark)
      PROVE  Covers(pending', mark)
  <2>1. CASE j = next
    BY <1>3, <1>6, <2>1 DEF Defers, IsDefer
  <2>2. CASE j # next
    <3>1. j < next
      BY <1>1, <1>6, <2>2, ScriptTypes
    <3> QED BY <1>1, <1>3, <1>6, <3>1 DEF Tidied, InTheBody
  <2> QED BY <2>1, <2>2
<1> QED BY <1>1, <1>4, <1>5, <1>6 DEF Tidied, Rest, InTheBody, InTheCleanup

\* An assertion that holds, and the end of the body.
LEMMA ExpectTidied ==
  ASSUME TypeOK, Tidied, Guarded(script), ExpectHolds
  PROVE  Tidied'
<1>1. /\ phase = "body" /\ next \in DOMAIN script.body /\ script.body[next].kind = "expect"
      /\ next' = next + 1 /\ next \in Nat
      /\ UNCHANGED <<script, marks, phase, err, pending, broken>>
  BY ScriptTypes DEF ExpectHolds, InBody, Step, TypeOK
<1>2. ASSUME NEW mark \in marks PROVE Covers(pending, mark) \/ Due(mark)'
  <2>1. Covers(pending, mark) \/ Due(mark)
    BY <1>1 DEF Tidied, InTheBody
  <2>2. ~Defers(script, next, mark)
    BY <1>1 DEF Defers, IsDefer
  <2> QED BY <1>1, <2>1, <2>2 DEF Due
<1>3. ASSUME NEW j \in DOMAIN script.body, NEW mark \in Marks, j < next', Defers(script, j, mark)
      PROVE  Covers(pending, mark)
  <2>1. j # next
    BY <1>1, <1>3 DEF Defers, IsDefer
  <2>2. j < next
    BY <1>1, <1>3, <2>1, ScriptTypes
  <2> QED BY <1>1, <1>3, <2>2 DEF Tidied, InTheBody
<1> QED BY <1>1, <1>2, <1>3 DEF Tidied, NoMakes, Rest, InTheBody, InTheCleanup

LEMMA EndTidied ==
  ASSUME TypeOK, Tidied, Guarded(script), EndBody
  PROVE  Tidied'
<1>1. /\ phase = "body" /\ phase' = "cleanup" /\ pending' = script.after \o pending
      /\ next > Len(script.body) \/ (InBody("expect") /\ err)
      /\ UNCHANGED <<script, marks, broken>>
  BY DEF EndBody
<1>2. script.after \in Ops /\ pending \in Ops
  BY ScriptTypes DEF TypeOK, Ops
<1>3. ASSUME NEW mark \in marks PROVE Covers(pending', mark)
  <2>1. Covers(pending, mark) \/ Due(mark)
    BY <1>1 DEF Tidied, InTheBody
  <2>2. ~Due(mark)
    <3>1. next \in Nat /\ Len(script.body) \in Nat /\ DOMAIN script.body = 1..Len(script.body)
      BY ScriptTypes DEF TypeOK
    <3> QED BY <1>1, <3>1 DEF Due, Defers, IsDefer, InBody, Step
  <2> QED BY <1>1, <1>2, <2>1, <2>2, CoversBoth
<1>4. NoMakes'
  <2>1. \A k \in DOMAIN script.after : script.after[k].verb # "make"
    BY DEF Guarded, CleanupsMakeNothing
  <2>2. \A k \in DOMAIN pending : pending[k].verb # "make"
    BY DEF Tidied, NoMakes
  <2> QED BY <1>1, <1>2, <2>1, <2>2, JoinedNoMakes DEF NoMakes
<1> QED BY <1>1, <1>3, <1>4 DEF Tidied, Rest, InTheBody, InTheCleanup

\* A cleanup operation undoes what it covers, or breaks it.
LEMMA CleanupTidied ==
  ASSUME TypeOK, Tidied, Guarded(script), CleanupStep \/ CleanupFails \/ CleanupCluster
  PROVE  Tidied'
<1> DEFINE op == Head(pending)
<1>1. /\ phase = "cleanup" /\ pending # << >> /\ pending \in Ops
      /\ pending' = Tail(pending) /\ UNCHANGED script
      /\ phase' \in {"cleanup", "waiting"}
      /\ broken \subseteq broken'
  BY DEF CleanupStep, CleanupFails, CleanupCluster, InCleanup, TypeOK, Ops
<1>2. op.verb # "make" /\ NoMakes'
  <2>1. 1 \in DOMAIN pending /\ op = pending[1]
    BY <1>1, Rests DEF Ops
  <2>2. \A k \in DOMAIN Tail(pending) : k + 1 \in DOMAIN pending /\ Tail(pending)[k] = pending[k + 1]
    BY <1>1, Rests DEF Ops
  <2> QED BY <1>1, <2>1, <2>2 DEF Tidied, NoMakes
<1>3. marks' \subseteq marks
  BY <1>2 DEF CleanupStep, CleanupFails, CleanupCluster, Succeeds, Fails
<1>4. ASSUME NEW mark \in marks', Undoes(op, mark) PROVE mark \in broken'
  <2>1. mark # "wifconfig"
    BY <1>3 DEF Tidied
  <2>2. ~CleanupStep
    BY <1>4, <2>1 DEF CleanupStep, Succeeds, Undoes
  <2>3. ~CleanupCluster
    BY <1>4 DEF CleanupCluster, Undoes
  <2>4. CleanupFails
    BY <2>2, <2>3
  <2> QED BY <1>4, <2>4 DEF CleanupFails, Undoes
<1>5. ASSUME NEW mark \in marks' PROVE Covers(pending', mark) \/ mark \in Excused'
  <2>1. Covers(pending, mark) \/ mark \in Excused
    BY <1>1, <1>3 DEF Tidied, InTheCleanup
  <2>2. CASE mark \in Excused
    BY <1>1, <2>2, ExcusedGrows
  <2>3. CASE Undoes(op, mark)
    BY <1>4, <2>3 DEF Excused
  <2>4. CASE Covers(pending, mark) /\ ~Undoes(op, mark)
    BY <1>1, <2>4, CoversTail
  <2> QED BY <2>1, <2>2, <2>3, <2>4
<1> QED BY <1>1, <1>2, <1>3, <1>5 DEF Tidied, Rest, InTheBody, InTheCleanup

\* An adapter that makes its subscription again: whoever uninstalls it deletes that too.
LEMMA SubscribeTidied ==
  ASSUME TypeOK, Tidied, Guarded(script), Subscribe
  PROVE  Tidied'
<1>1. /\ "release" \in marks /\ marks' = marks \union {"subscription"}
      /\ UNCHANGED <<script, cluster, phase, next, err, pending, broken>>
  BY DEF Subscribe
<1>2. ASSUME NEW mark \in marks', phase = "body" PROVE Covers(pending, mark) \/ Due(mark)
  BY <1>1, <1>2, SubscriptionGoesWith DEF Tidied, InTheBody
<1>3. ASSUME NEW mark \in marks', phase # "body" PROVE Covers(pending, mark) \/ mark \in Excused
  BY <1>1, <1>3, SubscriptionGoesWith DEF Tidied, InTheCleanup
<1>4. \A mark : (Due(mark)' <=> Due(mark)) /\ (mark \in Excused' <=> mark \in Excused)
  BY <1>1 DEF Due, InBody, Step, Excused
<1> QED BY <1>1, <1>2, <1>3, <1>4 DEF Tidied, NoMakes, Rest, InTheBody, InTheCleanup

\* Every step keeps it.
LEMMA NextTidied == TypeOK /\ Tidied /\ [Next]_vars => Tidied'
<1> SUFFICES ASSUME TypeOK, Tidied, [Next]_vars, Guarded(script)' PROVE Tidied'
  BY DEF Tidied
<1>0. Guarded(script)
  <2>1. script' = script
    BY DEF Next, Runner, Try, TryFails, Defer, ExpectHolds, EndBody, CleanupStep, CleanupFails,
           CleanupCluster, WaitOver, WaitFails, Finish, HardDelete, Subscribe, Idle, vars
  <2> QED BY <2>1
<1>1. CASE WaitOver \/ WaitFails \/ Finish
  <2>1. /\ UNCHANGED <<script, marks, pending>> /\ broken \subseteq broken'
        /\ phase # "body" /\ phase' # "body" /\ (phase' = "done" => pending = << >>)
    BY <1>1 DEF WaitOver, WaitFails, Finish
  <2>2. Excused \subseteq Excused'
    BY <2>1, ExcusedGrows
  <2> QED BY <2>1, <2>2 DEF Tidied, NoMakes, Rest, InTheBody, InTheCleanup
<1>2. CASE HardDelete \/ UNCHANGED vars
  <2>1. UNCHANGED <<script, marks, phase, next, err, pending, broken>>
    BY <1>2 DEF HardDelete, vars
  <2>2. \A mark : (Due(mark)' <=> Due(mark)) /\ (mark \in Excused' <=> mark \in Excused)
    BY <2>1 DEF Due, InBody, Step, Excused
  <2> QED BY <2>1, <2>2 DEF Tidied, NoMakes, Rest, InTheBody, InTheCleanup
<1> QED BY <1>0, <1>1, <1>2, TryTidied, DeferTidied, ExpectTidied, EndTidied, CleanupTidied,
          SubscribeTidied
       DEF Next, Runner, Idle

\* Any spec that registers an undo before it can lose sight of what it made, as the
\* suite's DeferCleanups do around their calls, hands back the environment it was given,
\* wherever its body fails and however far the failing call had got, save for what its
\* cleanups could not undo.
THEOREM GuardedIsRestored == Spec => []GuardedRestored
<1>1. Init => Tidied
  <2> SUFFICES ASSUME Init PROVE Tidied
    OBVIOUS
  <2>1. marks = {} /\ pending = << >> /\ phase = "body" /\ next = 1
    BY DEF Init
  <2>2. \A j \in DOMAIN script.body : ~(j < next)
    <3>1. script \in Scripts
      BY DEF Init
    <3>2. DOMAIN script.body = 1..Len(script.body) /\ Len(script.body) \in Nat
      BY <3>1, ScriptsAssumption
    <3> QED BY <2>1, <3>2
  <2>3. NoMakes /\ Rest /\ InTheCleanup
    BY <2>1 DEF NoMakes, Rest, InTheCleanup
  <2>4. InTheBody
    BY <2>1, <2>2 DEF InTheBody
  <2> QED BY <2>1, <2>3, <2>4 DEF Tidied
<1>2. TypeOK /\ Tidied => GuardedRestored
  <2> SUFFICES ASSUME Tidied, Guarded(script), phase = "done", NEW mark \in marks
               PROVE  mark \in Excused
    BY DEF GuardedRestored, Restored
  <2>1. pending = << >>
    BY DEF Tidied, Rest
  <2>2. ~Covers(pending, mark)
    BY <2>1 DEF Covers
  <2> QED BY <2>2 DEF Tidied, InTheCleanup
<1> QED BY <1>1, <1>2, NextTidied, TypeCorrect, PTL DEF Spec

------------------------------------------------------------------------------
(* Cleanups in order                                                       *)

\* The first operation of an ordered sequence is none that must wait for an undo, and what
\* is behind an operation that undoes nothing is still in order.
LEMMA UndoneTail ==
  ASSUME NEW ops \in Ops, ops # << >>, NEW mark, NEW others, UndoneFirst(ops, mark, others)
  PROVE  /\ Head(ops) \notin others
         /\ ~Undoes(Head(ops), mark) => UndoneFirst(Tail(ops), mark, others)
<1>1. DOMAIN ops = 1..Len(ops) /\ Len(ops) \in Nat /\ Len(ops) >= 1 /\ Head(ops) = ops[1]
  BY Rests DEF Ops
<1>2. Head(ops) \notin others
  <2>1. 1 \in DOMAIN ops /\ ~(\E l \in 1..(1 - 1) : Undoes(ops[l], mark))
    BY <1>1
  <2> QED BY <1>1, <2>1 DEF UndoneFirst
<1>3. ASSUME ~Undoes(Head(ops), mark), NEW k \in DOMAIN Tail(ops), Tail(ops)[k] \in others
      PROVE  \E l \in 1..(k - 1) : Undoes(Tail(ops)[l], mark)
  <2>1. /\ k \in 1..(Len(ops) - 1) /\ k + 1 \in DOMAIN ops /\ Tail(ops)[k] = ops[k + 1]
        /\ \A l \in 1..(Len(ops) - 1) : Tail(ops)[l] = ops[l + 1]
    BY <1>1, Rests
  <2>2. PICK l \in 1..((k + 1) - 1) : Undoes(ops[l], mark)
    BY <1>3, <2>1 DEF UndoneFirst
  <2>3. l # 1
    BY <1>1, <1>3, <2>2
  <2>4. l - 1 \in 1..(k - 1) /\ l - 1 \in 1..(Len(ops) - 1) /\ (l - 1) + 1 = l
    BY <1>1, <2>1, <2>3
  <2>5. Undoes(Tail(ops)[l - 1], mark)
    BY <2>1, <2>2, <2>4
  <2> QED BY <2>4, <2>5
<1> QED BY <1>2, <1>3 DEF UndoneFirst

\* Operations in order ahead of others keep the order, if the others have it or the undo
\* is among the first.
LEMMA UndoneJoin ==
  ASSUME NEW first \in Ops, NEW second \in Ops, NEW mark, NEW others,
         UndoneFirst(first, mark, others),
         UndoneFirst(second, mark, others) \/ \E k \in DOMAIN first : Undoes(first[k], mark)
  PROVE  UndoneFirst(first \o second, mark, others)
<1> DEFINE both == first \o second
<1>1. /\ DOMAIN first = 1..Len(first) /\ Len(first) \in Nat
      /\ DOMAIN second = 1..Len(second) /\ Len(second) \in Nat
  BY DEF Ops
<1>2. /\ DOMAIN both = 1..(Len(first) + Len(second))
      /\ \A k \in DOMAIN first : both[k] = first[k]
      /\ \A k \in DOMAIN second : both[Len(first) + k] = second[k]
  BY Joins
<1> HIDE DEF both
<1> SUFFICES ASSUME NEW k \in DOMAIN both, both[k] \in others
             PROVE  \E l \in 1..(k - 1) : Undoes(both[l], mark)
  BY DEF UndoneFirst, both
<1>3. CASE k <= Len(first)
  <2>1. k \in DOMAIN first /\ both[k] = first[k]
    BY <1>1, <1>2, <1>3
  <2>2. PICK l \in 1..(k - 1) : Undoes(first[l], mark)
    BY <2>1 DEF UndoneFirst
  <2>3. l \in DOMAIN first
    BY <1>1, <1>3
  <2> QED BY <1>2, <2>2, <2>3
<1>4. CASE k > Len(first)
  <2> DEFINE m == k - Len(first)
  <2>1. m \in DOMAIN second /\ k = Len(first) + m /\ both[k] = second[m]
    <3>1. m \in DOMAIN second /\ k = Len(first) + m BY <1>1, <1>2, <1>4
    <3> QED BY <1>2, <3>1
  <2>2. CASE UndoneFirst(second, mark, others)
    <3>1. PICK l \in 1..(m - 1) : Undoes(second[l], mark)
      BY <2>1, <2>2 DEF UndoneFirst
    <3>2. l \in DOMAIN second /\ Len(first) + l \in 1..(k - 1)
      BY <1>1, <2>1
    <3> QED BY <1>2, <3>1, <3>2
  <2>3. CASE \E l \in DOMAIN first : Undoes(first[l], mark)
    <3>1. PICK l \in DOMAIN first : Undoes(first[l], mark)
      BY <2>3
    <3>2. l \in 1..(k - 1)
      BY <1>1, <1>4, <2>1
    <3> QED BY <1>2, <3>1, <3>2
  <2> QED BY <2>2, <2>3
<1> QED BY <1>1, <1>2, <1>3, <1>4

------------------------------------------------------------------------------
(* What every step does to the script, the marks and the pending cleanups  *)

LEMMA SameScript == [Next]_vars => script' = script
BY DEF Next, Runner, Try, TryFails, Defer, ExpectHolds, EndBody, CleanupStep, CleanupFails,
       CleanupCluster, WaitOver, WaitFails, Finish, HardDelete, Subscribe, Idle, vars

\* A call of the body makes what its step makes.
LEMMA BodyMakes ==
  ASSUME TypeOK, Try \/ TryFails
  PROVE  /\ phase = "body" /\ next \in DOMAIN script.body /\ script.body[next].kind = "try"
         /\ next' = next + 1 /\ next \in Nat
         /\ UNCHANGED <<script, phase, pending, broken>>
         /\ \A mark \in marks' \ marks : Makes(script, next, mark)
         /\ \A mark \in marks \ marks' : Undoes(script.body[next].ops[1], mark)
         /\ ~err' => \A mark : Makes(script, next, mark) => mark \in marks'
<1>1. /\ phase = "body" /\ next \in DOMAIN script.body /\ script.body[next].kind = "try"
      /\ next' = next + 1 /\ next \in Nat
      /\ UNCHANGED <<script, phase, pending, broken>>
  BY ScriptTypes DEF Try, TryFails, InBody, Step, TypeOK
<1>2. /\ \A mark \in marks' \ marks : Step.ops[1].verb = "make" /\ mark \in Step.ops[1].marks
      /\ \A mark \in marks \ marks' : Step.ops[1].verb = "undo" /\ mark \in Step.ops[1].marks
  BY DEF Try, TryFails, Succeeds, Fails
<1>3. ~err' /\ Step.ops[1].verb = "make" => Step.ops[1].marks \subseteq marks'
  BY DEF Try, TryFails, Succeeds
<1> QED BY <1>1, <1>2, <1>3 DEF Makes, Tries, Undoes, Step

\* A registration, and the end of the body, put operations ahead of the pending ones.
LEMMA DeferStep ==
  ASSUME TypeOK, Defer
  PROVE  /\ phase = "body" /\ IsDefer(script, next) /\ next \in DOMAIN script.body
         /\ next' = next + 1 /\ next \in Nat
         /\ script.body[next].ops \in Ops /\ pending \in Ops
         /\ pending' = script.body[next].ops \o pending
         /\ UNCHANGED <<script, marks, cluster, phase, err, broken>>
BY ScriptTypes DEF Defer, InBody, Step, TypeOK, IsDefer, Ops

LEMMA ExpectStep ==
  ASSUME TypeOK, ExpectHolds
  PROVE  /\ phase = "body" /\ next \in DOMAIN script.body /\ script.body[next].kind = "expect"
         /\ next' = next + 1 /\ next \in Nat /\ ~err
         /\ UNCHANGED <<script, marks, cluster, phase, err, pending, broken>>
BY ScriptTypes DEF ExpectHolds, InBody, Step, TypeOK

LEMMA EndStep ==
  ASSUME TypeOK, EndBody
  PROVE  /\ phase = "body" /\ phase' = "cleanup"
         /\ ~IsDefer(script, next)
         /\ next' = Len(script.body) + 1 /\ next <= next'
         /\ script.after \in Ops /\ pending \in Ops
         /\ pending' = script.after \o pending
         /\ UNCHANGED <<script, marks, cluster, broken>>
<1>1. next \in 1..(Len(script.body) + 1) /\ DOMAIN script.body = 1..Len(script.body)
      /\ Len(script.body) \in Nat
  BY ScriptTypes DEF TypeOK
<1>2. ~IsDefer(script, next)
  BY <1>1 DEF EndBody, InBody, Step, IsDefer
<1> QED BY <1>1, <1>2, ScriptTypes DEF EndBody, TypeOK, Ops

\* A cleanup makes nothing, and what it fails to undo is broken.
LEMMA CleanupStepEffect ==
  ASSUME TypeOK, NoMakes, CleanupStep \/ CleanupFails \/ CleanupCluster
  PROVE  /\ phase = "cleanup" /\ phase' \in {"cleanup", "waiting"}
         /\ pending \in Ops /\ pending # << >> /\ pending' = Tail(pending)
         /\ Head(pending) \in Operation
         /\ marks' \subseteq marks
         /\ \A mark \in marks \ marks' : Undoes(Head(pending), mark)
         /\ \A mark \in marks' : Undoes(Head(pending), mark) =>
              mark \in broken' \/ mark = "wifconfig"
         /\ broken \subseteq broken'
         /\ phase' = "waiting" => Head(pending).verb = "cleanup"
         /\ UNCHANGED <<script, next>>
<1>1. /\ phase = "cleanup" /\ phase' \in {"cleanup", "waiting"}
      /\ pending # << >> /\ pending' = Tail(pending) /\ UNCHANGED <<script, next>>
      /\ broken \subseteq broken'
      /\ phase' = "waiting" => Head(pending).verb = "cleanup"
  BY DEF CleanupStep, CleanupFails, CleanupCluster, InCleanup
<1>2. pending \in Ops
  BY DEF TypeOK, Ops
<1>3. Head(pending) \in Operation /\ Head(pending).verb # "make"
  BY <1>1, <1>2, Rests DEF NoMakes, Ops
<1>4. /\ marks' \subseteq marks
      /\ \A mark \in marks \ marks' : Undoes(Head(pending), mark)
  BY <1>3 DEF CleanupStep, CleanupFails, CleanupCluster, Succeeds, Fails, Undoes
<1>5. ASSUME NEW mark \in marks', Undoes(Head(pending), mark), mark # "wifconfig"
      PROVE  mark \in broken'
  <2>1. ~CleanupStep BY <1>5 DEF CleanupStep, Succeeds, Undoes
  <2>2. ~CleanupCluster BY <1>5 DEF CleanupCluster, Undoes
  <2>3. CleanupFails BY <2>1, <2>2
  <2> QED BY <1>5, <2>3 DEF CleanupFails, Undoes
<1> QED BY <1>1, <1>2, <1>3, <1>4, <1>5

\* The other steps change neither the script, what is pending, nor any mark but the
\* subscription's.
LEMMA OtherStep ==
  ASSUME WaitOver \/ WaitFails \/ Finish \/ HardDelete \/ Subscribe \/ UNCHANGED vars
  PROVE  /\ UNCHANGED <<script, next, err, pending>>
         /\ \A mark : mark # "subscription" => (mark \in marks' <=> mark \in marks)
         /\ broken \subseteq broken'
         /\ phase' = "body" <=> phase = "body"
         /\ phase' = "waiting" => phase = "waiting"
BY DEF WaitOver, WaitFails, Finish, HardDelete, Subscribe, vars

\* The steps, by what they do to the pending operations.
LEMMA Steps ==
  ASSUME [Next]_vars
  PROVE  \/ Try \/ TryFails \/ Defer \/ ExpectHolds \/ EndBody
         \/ CleanupStep \/ CleanupFails \/ CleanupCluster
         \/ WaitOver \/ WaitFails \/ Finish \/ HardDelete \/ Subscribe \/ UNCHANGED vars
BY DEF Next, Runner, Idle

\* No cleanup makes anything, if none of the script's does.
LEMMA NoMakesStep ==
  ASSUME TypeOK, CleanupsMakeNothing(script), NoMakes, [Next]_vars
  PROVE  NoMakes'
<1>0. \A k \in DOMAIN pending : pending[k].verb # "make"
  BY DEF NoMakes
<1>1. CASE Try \/ TryFails
  BY <1>1, BodyMakes DEF NoMakes
<1>2. CASE Defer
  <2>1. \A k \in DOMAIN script.body[next].ops : script.body[next].ops[k].verb # "make"
    BY <1>2, DeferStep DEF CleanupsMakeNothing
  <2> QED BY <1>0, <1>2, <2>1, DeferStep, JoinedNoMakes DEF NoMakes
<1>3. CASE ExpectHolds
  BY <1>3, ExpectStep DEF NoMakes
<1>4. CASE EndBody
  <2>1. \A k \in DOMAIN script.after : script.after[k].verb # "make"
    BY DEF CleanupsMakeNothing
  <2> QED BY <1>0, <1>4, <2>1, EndStep, JoinedNoMakes DEF NoMakes
<1>5. CASE CleanupStep \/ CleanupFails \/ CleanupCluster
  <2>1. /\ pending \in Ops /\ pending # << >> /\ pending' = Tail(pending)
    BY <1>5, CleanupStepEffect
  <2>2. \A k \in DOMAIN Tail(pending) : k + 1 \in DOMAIN pending /\ Tail(pending)[k] = pending[k + 1]
    BY <2>1, Rests DEF Ops
  <2> QED BY <1>0, <2>1, <2>2 DEF NoMakes
<1>6. CASE WaitOver \/ WaitFails \/ Finish \/ HardDelete \/ Subscribe \/ UNCHANGED vars
  BY <1>6, OtherStep DEF NoMakes
<1> QED BY <1>1, <1>2, <1>3, <1>4, <1>5, <1>6, Steps

------------------------------------------------------------------------------
(* A mark whose cleanups are in order                                      *)

\* A registration that is not in order in itself, with no undo registered since.
Unprotected(mark, others) ==
  \E j \in DOMAIN script.body :
    /\ j < next /\ IsDefer(script, j)
    /\ ~UndoneFirst(script.body[j].ops, mark, others)
    /\ \A r \in (j + 1)..(next - 1) : ~Registers(script, r, mark)

\* In the body, what is pending is in order unless some registration is unprotected; from
\* the call that makes the mark on it is in order, at the latest with the next step.  Then
\* the undo is still ahead of the others, or has failed.
InOrder(mark, others) ==
  /\ mark \in marks => \E i \in DOMAIN script.body : i < next /\ Makes(script, i, mark)
  /\ phase = "body" =>
       /\ UndoneFirst(pending, mark, others) \/ Unprotected(mark, others)
       /\ mark \in marks => UndoneFirst(pending, mark, others) \/ Registers(script, next, mark)
  /\ phase # "body" /\ mark \in marks => mark \in broken \/ UndoneFirst(pending, mark, others)

\* A step of the body that is no registration leaves the unprotected ones unprotected.
LEMMA StillUnprotected ==
  ASSUME TypeOK, NEW mark, NEW others, Unprotected(mark, others),
         ~Registers(script, next, mark), script' = script, next' = next + 1
  PROVE  Unprotected(mark, others)'
<1>1. PICK j \in DOMAIN script.body :
        /\ j < next /\ IsDefer(script, j)
        /\ ~UndoneFirst(script.body[j].ops, mark, others)
        /\ \A r \in (j + 1)..(next - 1) : ~Registers(script, r, mark)
  BY DEF Unprotected
<1>2. next \in Nat /\ j \in Nat
  BY ScriptTypes DEF TypeOK
<1>3. ASSUME NEW r \in (j + 1)..(next' - 1) PROVE ~Registers(script, r, mark)
  <2>1. r \in (j + 1)..(next - 1) \/ r = next BY <1>2
  <2> QED BY <1>1, <2>1
<1>4. j < next' BY <1>1, <1>2
<1> QED BY <1>1, <1>3, <1>4 DEF Unprotected

\* The call that makes the mark: what is unprotected is protected by the next step.
LEMMA TryInOrder ==
  ASSUME TypeOK, NEW mark, NEW others, Ordered(script, mark, others),
         InOrder(mark, others), Try \/ TryFails
  PROVE  InOrder(mark, others)'
<1>1. /\ phase = "body" /\ next \in DOMAIN script.body /\ script.body[next].kind = "try"
      /\ next' = next + 1 /\ next \in Nat
      /\ UNCHANGED <<script, phase, pending, broken>>
      /\ \A m \in marks' \ marks : Makes(script, next, m)
  BY BodyMakes
<1>2. ~Registers(script, next, mark)
  BY <1>1 DEF Registers, IsDefer
<1>3. mark \in marks' => \E i \in DOMAIN script.body : i < next' /\ Makes(script, i, mark)
  <2>1. CASE mark \in marks
    <3>1. PICK i \in DOMAIN script.body : i < next /\ Makes(script, i, mark)
      BY <2>1 DEF InOrder
    <3>2. i < next' BY <1>1, <3>1, ScriptTypes
    <3> QED BY <3>1, <3>2
  <2>2. CASE mark \in marks' \ marks
    BY <1>1, <2>2
  <2> QED BY <2>1, <2>2
<1>4. UndoneFirst(pending, mark, others) \/ Unprotected(mark, others)'
  BY <1>1, <1>2, StillUnprotected DEF InOrder
<1>5. ASSUME mark \in marks', ~UndoneFirst(pending, mark, others)
      PROVE  Registers(script, next + 1, mark)
  <2>1. mark \notin marks
    BY <1>1, <1>2, <1>5 DEF InOrder
  <2>2. Makes(script, next, mark)
    BY <1>1, <1>5, <2>1
  <2>3. PICK j \in DOMAIN script.body :
          /\ j < next /\ IsDefer(script, j)
          /\ ~UndoneFirst(script.body[j].ops, mark, others)
          /\ \A r \in (j + 1)..(next - 1) : ~Registers(script, r, mark)
    BY <1>1, <1>5 DEF InOrder, Unprotected
  <2>4. PICK r \in (j + 1)..(next + 1) : Registers(script, r, mark)
    BY <1>1, <2>2, <2>3 DEF Ordered
  <2>5. j \in Nat
    BY ScriptTypes
  <2>6. r = next + 1
    BY <1>1, <1>2, <2>3, <2>4, <2>5
  <2> QED BY <2>4, <2>6
<1> QED BY <1>1, <1>3, <1>4, <1>5 DEF InOrder

\* A registration: one that is not in order comes before the mark is made.
LEMMA DeferInOrder ==
  ASSUME TypeOK, NEW mark, NEW others, Ordered(script, mark, others),
         InOrder(mark, others), Defer
  PROVE  InOrder(mark, others)'
<1> DEFINE ops == script.body[next].ops
<1>1. /\ phase = "body" /\ IsDefer(script, next) /\ next \in DOMAIN script.body
      /\ next' = next + 1 /\ next \in Nat
      /\ ops \in Ops /\ pending \in Ops /\ pending' = ops \o pending
      /\ UNCHANGED <<script, marks, cluster, phase, err, broken>>
  BY DeferStep
<1>2. mark \in marks => \E i \in DOMAIN script.body : i < next' /\ Makes(script, i, mark)
  <2> SUFFICES ASSUME mark \in marks
               PROVE  \E i \in DOMAIN script.body : i < next' /\ Makes(script, i, mark)
    OBVIOUS
  <2>1. PICK i \in DOMAIN script.body : i < next /\ Makes(script, i, mark)
    BY DEF InOrder
  <2>2. i < next' BY <1>1, <2>1, ScriptTypes
  <2> QED BY <2>1, <2>2
<1>3. Registers(script, next, mark) <=> \E k \in DOMAIN ops : Undoes(ops[k], mark)
  BY <1>1 DEF Registers
<1>4. ASSUME UndoneFirst(ops, mark, others),
             UndoneFirst(pending, mark, others) \/ Registers(script, next, mark)
      PROVE  UndoneFirst(pending', mark, others)
  <2>1. UndoneFirst(ops \o pending, mark, others)
    BY <1>1, <1>3, <1>4, UndoneJoin
  <2> QED BY <1>1, <2>1
<1>5. UndoneFirst(pending', mark, others) \/ Unprotected(mark, others)'
  <2>1. CASE ~UndoneFirst(ops, mark, others)
    <3>1. next \in DOMAIN script.body /\ next < next'
          /\ \A r \in (next + 1)..(next' - 1) : ~Registers(script, r, mark)
      BY <1>1
    <3> QED BY <1>1, <2>1, <3>1 DEF Unprotected
  <2>2. CASE UndoneFirst(ops, mark, others) /\ ~Registers(script, next, mark)
             /\ ~UndoneFirst(pending, mark, others)
    BY <1>1, <2>2, StillUnprotected DEF InOrder
  <2> QED BY <1>4, <2>1, <2>2
<1>6. mark \in marks => UndoneFirst(pending', mark, others)
  <2> SUFFICES ASSUME mark \in marks PROVE UndoneFirst(pending', mark, others)
    OBVIOUS
  <2>1. PICK i \in DOMAIN script.body : i < next /\ Makes(script, i, mark)
    BY DEF InOrder
  <2>2. ~(\E r \in (next + 1)..(i + 1) : Registers(script, r, mark))
    BY <1>1, <2>1, ScriptTypes
  <2>3. UndoneFirst(ops, mark, others)
    BY <1>1, <2>1, <2>2 DEF Ordered
  <2> QED BY <1>1, <1>4, <2>3 DEF InOrder
<1> QED BY <1>1, <1>2, <1>5, <1>6 DEF InOrder

LEMMA ExpectInOrder ==
  ASSUME TypeOK, NEW mark, NEW others, InOrder(mark, others), ExpectHolds
  PROVE  InOrder(mark, others)'
<1>1. /\ phase = "body" /\ next \in DOMAIN script.body /\ script.body[next].kind = "expect"
      /\ next' = next + 1 /\ next \in Nat
      /\ UNCHANGED <<script, marks, cluster, phase, err, pending, broken>>
  BY ExpectStep
<1>2. ~Registers(script, next, mark)
  BY <1>1 DEF Registers, IsDefer
<1>3. mark \in marks => \E i \in DOMAIN script.body : i < next' /\ Makes(script, i, mark)
  <2> SUFFICES ASSUME mark \in marks
               PROVE  \E i \in DOMAIN script.body : i < next' /\ Makes(script, i, mark)
    OBVIOUS
  <2>1. PICK i \in DOMAIN script.body : i < next /\ Makes(script, i, mark)
    BY DEF InOrder
  <2>2. i < next' BY <1>1, <2>1, ScriptTypes
  <2> QED BY <2>1, <2>2
<1>4. UndoneFirst(pending, mark, others) \/ Unprotected(mark, others)'
  BY <1>1, <1>2, StillUnprotected DEF InOrder
<1> QED BY <1>1, <1>2, <1>3, <1>4 DEF InOrder

\* The end of the body: the AfterEach, in order itself, goes ahead of the cleanups.
LEMMA EndInOrder ==
  ASSUME TypeOK, NEW mark, NEW others, Ordered(script, mark, others),
         InOrder(mark, others), EndBody
  PROVE  InOrder(mark, others)'
<1>1. /\ phase = "body" /\ phase' = "cleanup" /\ ~IsDefer(script, next)
      /\ next' = Len(script.body) + 1 /\ next <= next'
      /\ script.after \in Ops /\ pending \in Ops /\ pending' = script.after \o pending
      /\ UNCHANGED <<script, marks, cluster, broken>>
  BY EndStep
<1> SUFFICES ASSUME mark \in marks
             PROVE  /\ \E i \in DOMAIN script.body : i < next' /\ Makes(script, i, mark)
                    /\ UndoneFirst(pending', mark, others)
  BY <1>1 DEF InOrder
<1>2. PICK i \in DOMAIN script.body : i < next /\ Makes(script, i, mark)
  BY DEF InOrder
<1>3. i < next'
  BY <1>1, <1>2, ScriptTypes DEF TypeOK
<1>4. UndoneFirst(script.after, mark, others)
  BY <1>2 DEF Ordered
<1>5. UndoneFirst(pending, mark, others)
  BY <1>1 DEF InOrder, Registers
<1>6. UndoneFirst(script.after \o pending, mark, others)
  BY <1>1, <1>4, <1>5, UndoneJoin
<1> QED BY <1>1, <1>2, <1>3, <1>6

\* A cleanup operation either undoes the mark, or breaks it, or leaves the undo ahead.
LEMMA CleanupInOrder ==
  ASSUME TypeOK, NoMakes, NEW mark, mark # "wifconfig", NEW others, InOrder(mark, others),
         CleanupStep \/ CleanupFails \/ CleanupCluster
  PROVE  InOrder(mark, others)'
<1>1. /\ phase = "cleanup" /\ phase' \in {"cleanup", "waiting"}
      /\ pending \in Ops /\ pending # << >> /\ pending' = Tail(pending)
      /\ marks' \subseteq marks
      /\ \A m \in marks' : Undoes(Head(pending), m) => m \in broken' \/ m = "wifconfig"
      /\ broken \subseteq broken' /\ UNCHANGED <<script, next>>
  BY CleanupStepEffect
<1> SUFFICES ASSUME mark \in marks', mark \notin broken'
             PROVE  UndoneFirst(pending', mark, others)
  BY <1>1 DEF InOrder
<1>2. mark \in marks /\ mark \notin broken /\ ~Undoes(Head(pending), mark)
  BY <1>1
<1>3. UndoneFirst(pending, mark, others)
  BY <1>1, <1>2 DEF InOrder
<1> QED BY <1>1, <1>2, <1>3, UndoneTail

LEMMA InOrderStep ==
  ASSUME TypeOK, NoMakes, NEW mark, mark \notin {"wifconfig", "subscription"}, NEW others,
         Ordered(script, mark, others), InOrder(mark, others), [Next]_vars
  PROVE  InOrder(mark, others)'
<1>1. CASE WaitOver \/ WaitFails \/ Finish \/ HardDelete \/ Subscribe \/ UNCHANGED vars
  <2>1. /\ UNCHANGED <<script, next, err, pending>>
        /\ mark \in marks' <=> mark \in marks
        /\ broken \subseteq broken'
        /\ phase' = "body" <=> phase = "body"
    BY <1>1, OtherStep
  <2>2. Unprotected(mark, others)' <=> Unprotected(mark, others)
    BY <2>1 DEF Unprotected
  <2> QED BY <2>1, <2>2 DEF InOrder
<1> QED BY <1>1, Steps, TryInOrder, DeferInOrder, ExpectInOrder, EndInOrder, CleanupInOrder

LEMMA InOrderInit ==
  ASSUME Init, NEW mark, NEW others
  PROVE  InOrder(mark, others)
<1>1. marks = {} /\ phase = "body" /\ pending = << >>
  BY DEF Init
<1>2. UndoneFirst(<< >>, mark, others)
  BY DEF UndoneFirst
<1> QED BY <1>1, <1>2 DEF InOrder

\* The mark is gone, or could not be undone, where a cleanup is next that comes after it.
LEMMA NextInOrder ==
  ASSUME TypeOK, NEW mark, NEW others, InOrder(mark, others), phase # "body",
         pending # << >>, Head(pending) \in others
  PROVE  mark \in marks => mark \in broken
BY UndoneTail DEF InOrder, TypeOK, Ops

\* The adapters that an API still requires are there when they are uninstalled, save where
\* the API could not be restored: a spec that registers the API's restore behind the
\* uninstall, before it touches the API, never has it the other way round.
THEOREM UninstallComesLast ==
  Spec /\ RestoresFirst(script) => UninstalledAfterRestore
<1> DEFINE Inv == /\ RestoresFirst(script) /\ NoMakes
                  /\ InOrder("required", UndoOps("release"))
           Step1 == phase = "cleanup" /\ "release" \in marks \ marks' =>
                      "required" \in broken \/ "required" \notin marks
<1>1. Init /\ RestoresFirst(script) => Inv
  <2>1. Init => NoMakes BY DEF Init, NoMakes
  <2> QED BY <2>1, InOrderInit
<1>2. TypeOK /\ Inv /\ [Next]_vars => Inv'
  <2> SUFFICES ASSUME TypeOK, Inv, [Next]_vars PROVE Inv'
    OBVIOUS
  <2>1. RestoresFirst(script)' BY SameScript
  <2>2. NoMakes' BY NoMakesStep DEF RestoresFirst
  <2>3. InOrder("required", UndoOps("release"))' BY InOrderStep DEF RestoresFirst
  <2> QED BY <2>1, <2>2, <2>3
<1>3. TypeOK /\ Inv /\ [Next]_vars => [Step1]_vars
  <2> SUFFICES ASSUME TypeOK, Inv, [Next]_vars, phase = "cleanup",
                      "release" \in marks, "release" \notin marks', "required" \in marks
               PROVE  "required" \in broken
    OBVIOUS
  <2>1. ~(WaitOver \/ WaitFails \/ Finish \/ HardDelete \/ Subscribe \/ UNCHANGED vars)
    BY OtherStep
  <2>2. ~(Try \/ TryFails \/ Defer \/ ExpectHolds \/ EndBody)
    BY DEF Try, TryFails, Defer, ExpectHolds, EndBody, InBody
  <2>3. CleanupStep \/ CleanupFails \/ CleanupCluster
    BY <2>1, <2>2, Steps
  <2>4. pending # << >> /\ Head(pending) \in Operation /\ Undoes(Head(pending), "release")
    BY <2>3, CleanupStepEffect
  <2>5. Head(pending) \in UndoOps("release")
    BY <2>4 DEF UndoOps
  <2> QED BY <2>4, <2>5, NextInOrder
<1> QED BY <1>1, <1>2, <1>3, TypeCorrect, PTL DEF Spec, UninstalledAfterRestore

------------------------------------------------------------------------------
(* An adapter that is kept until the clusters are gone                     *)

\* An assertion on the call that installs the adapter.
Asserted(r, e) ==
  /\ Makes(script, r, "release")
  /\ e \in DOMAIN script.body /\ r < e /\ script.body[e].kind = "expect"
  /\ \A d \in (r + 1)..(e - 1) : IsDefer(script, d)

\* Nothing uninstalls the adapter ahead of a cluster cleanup.
KeptLast(ops) ==
  \A k, l \in DOMAIN ops :
    Undoes(ops[k], "release") /\ l > k => ops[l] \notin CleanupOps

AdapterKept ==
  /\ "adapter down" \notin marks
  /\ phase = "body" =>
       /\ \A r, e \in DOMAIN script.body : Asserted(r, e) /\ r < next =>
            "release" \in marks \/ (next <= e /\ err)
       /\ "required" \in marks => "release" \in marks
       /\ Cleans(pending) => \E j \in DOMAIN script.body :
            j < next /\ IsDefer(script, j) /\ Cleans(script.body[j].ops)
  /\ KeptLast(pending)
  /\ phase # "body" /\ "required" \in marks => "release" \in marks \/ ~Cleans(pending)

\* Two sequences keep the adapter if each does and, where the first uninstalls it, the
\* second cleans up no cluster.
LEMMA KeptLastJoin ==
  ASSUME NEW first \in Ops, NEW second \in Ops, KeptLast(first), KeptLast(second),
         (\A k \in DOMAIN first : ~Undoes(first[k], "release")) \/ ~Cleans(second)
  PROVE  KeptLast(first \o second)
<1> DEFINE both == first \o second
<1>1. /\ DOMAIN first = 1..Len(first) /\ Len(first) \in Nat
      /\ DOMAIN second = 1..Len(second) /\ Len(second) \in Nat
  BY DEF Ops
<1>2. /\ DOMAIN both = 1..(Len(first) + Len(second))
      /\ \A k \in DOMAIN first : both[k] = first[k]
      /\ \A k \in DOMAIN second : both[Len(first) + k] = second[k]
  BY Joins
<1> HIDE DEF both
<1> SUFFICES ASSUME NEW k \in DOMAIN both, NEW l \in DOMAIN both,
                    Undoes(both[k], "release"), l > k, both[l] \in CleanupOps
             PROVE  FALSE
  BY DEF KeptLast, both
<1>3. ASSUME NEW i \in DOMAIN both, i > Len(first)
      PROVE  i - Len(first) \in DOMAIN second /\ both[i] = second[i - Len(first)]
  <2>1. i - Len(first) \in DOMAIN second /\ i = Len(first) + (i - Len(first))
    BY <1>1, <1>2, <1>3
  <2> QED BY <1>2, <2>1
<1>4. \A i \in DOMAIN both : i <= Len(first) => i \in DOMAIN first /\ both[i] = first[i]
  BY <1>1, <1>2
<1>5. k \in Nat /\ l \in Nat
  BY <1>1, <1>2
<1>6. CASE l <= Len(first)
  <2>1. k <= Len(first)
    BY <1>1, <1>5, <1>6
  <2> QED BY <1>4, <1>6, <2>1 DEF KeptLast
<1>7. CASE l > Len(first) /\ k <= Len(first)
  BY <1>3, <1>4, <1>7 DEF Cleans
<1>8. CASE l > Len(first) /\ k > Len(first)
  <2>1. l - Len(first) > k - Len(first)
    BY <1>1, <1>5
  <2> QED BY <1>3, <1>8, <2>1 DEF KeptLast
<1> QED BY <1>1, <1>5, <1>6, <1>7, <1>8

LEMMA CleansJoin ==
  ASSUME NEW first \in Ops, NEW second \in Ops, Cleans(first \o second)
  PROVE  Cleans(first) \/ Cleans(second)
<1>1. PICK k \in DOMAIN (first \o second) : (first \o second)[k] \in CleanupOps
  BY DEF Cleans
<1>2. /\ DOMAIN first = 1..Len(first) /\ Len(first) \in Nat
      /\ DOMAIN second = 1..Len(second) /\ Len(second) \in Nat
      /\ DOMAIN (first \o second) = 1..(Len(first) + Len(second))
  BY Joins DEF Ops
<1>3. CASE k <= Len(first)
  <2>1. k \in DOMAIN first BY <1>2, <1>3
  <2> QED BY <1>1, <2>1, Joins DEF Cleans
<1>4. CASE k > Len(first)
  <2>1. k - Len(first) \in DOMAIN second /\ k = Len(first) + (k - Len(first))
    BY <1>2, <1>4
  <2>2. (first \o second)[Len(first) + (k - Len(first))] = second[k - Len(first)]
    BY <2>1, Joins
  <2> QED BY <1>1, <2>1, <2>2 DEF Cleans
<1> QED BY <1>2, <1>3, <1>4

\* What is left behind the first operation keeps the adapter as well.
LEMMA KeptLastTail ==
  ASSUME NEW ops \in Ops, ops # << >>, KeptLast(ops)
  PROVE  /\ KeptLast(Tail(ops))
         /\ Cleans(Tail(ops)) => Cleans(ops) /\ ~Undoes(Head(ops), "release")
<1>1. /\ DOMAIN ops = 1..Len(ops) /\ Len(ops) \in Nat /\ Len(ops) >= 1 /\ Head(ops) = ops[1]
      /\ DOMAIN Tail(ops) = 1..(Len(ops) - 1)
      /\ \A k \in DOMAIN Tail(ops) : Tail(ops)[k] = ops[k + 1]
  BY Rests DEF Ops
<1>2. \A k \in DOMAIN Tail(ops) : k + 1 \in DOMAIN ops /\ k + 1 > 1
  BY <1>1
<1>3. KeptLast(Tail(ops))
  <2> SUFFICES ASSUME NEW k \in DOMAIN Tail(ops), NEW l \in DOMAIN Tail(ops),
                      Undoes(Tail(ops)[k], "release"), l > k
               PROVE  Tail(ops)[l] \notin CleanupOps
    BY DEF KeptLast
  <2>1. l + 1 > k + 1 BY <1>1
  <2> QED BY <1>1, <1>2, <2>1 DEF KeptLast
<1>4. ASSUME Cleans(Tail(ops)) PROVE Cleans(ops) /\ ~Undoes(Head(ops), "release")
  <2>1. PICK k \in DOMAIN Tail(ops) : Tail(ops)[k] \in CleanupOps
    BY <1>4 DEF Cleans
  <2>2. ops[k + 1] \in CleanupOps /\ k + 1 \in DOMAIN ops /\ 1 \in DOMAIN ops
    BY <1>1, <1>2, <2>1
  <2> QED BY <1>1, <1>2, <2>2 DEF Cleans, KeptLast
<1> QED BY <1>3, <1>4

\* The rule of KeepsAdapter, for the registrations and the AfterEach.
LEMMA KeptRegistrations ==
  ASSUME TypeOK, KeepsAdapter(script)
  PROVE  /\ KeptLast(script.after)
         /\ \A k \in DOMAIN script.after : ~Undoes(script.after[k], "release")
         /\ \A j \in DOMAIN script.body : IsDefer(script, j) =>
              /\ KeptLast(script.body[j].ops)
              /\ \/ \A k \in DOMAIN script.body[j].ops : ~Undoes(script.body[j].ops[k], "release")
                 \/ \A d \in DOMAIN script.body : d < j /\ IsDefer(script, d) =>
                      ~Cleans(script.body[d].ops)
<1>1. DOMAIN script.body = 1..Len(script.body) /\ Len(script.body) \in Nat
  BY ScriptTypes
<1>2. \A j, d \in DOMAIN script.body : d < j => d \in 1..(j - 1)
  BY <1>1
<1>3. \A k \in DOMAIN script.after : ~Undoes(script.after[k], "release")
  BY DEF KeepsAdapter
<1>4. KeptLast(script.after)
  BY <1>3 DEF KeptLast
<1>5. ASSUME NEW j \in DOMAIN script.body, IsDefer(script, j)
      PROVE  KeptLast(script.body[j].ops)
  BY <1>5 DEF KeepsAdapter, KeptLast
<1>6. ASSUME NEW j \in DOMAIN script.body, IsDefer(script, j),
             NEW k \in DOMAIN script.body[j].ops, Undoes(script.body[j].ops[k], "release"),
             NEW d \in DOMAIN script.body, d < j, IsDefer(script, d)
      PROVE  ~Cleans(script.body[d].ops)
  BY <1>2, <1>6 DEF KeepsAdapter
<1> QED BY <1>3, <1>4, <1>5, <1>6

\* A call: the one that makes the API require the adapter comes behind an assertion on the
\* one that installs it.
LEMMA TryKept ==
  ASSUME TypeOK, KeepsAdapter(script), AdapterKept, Try \/ TryFails
  PROVE  AdapterKept'
<1>1. /\ phase = "body" /\ next \in DOMAIN script.body /\ script.body[next].kind = "try"
      /\ next' = next + 1 /\ next \in Nat
      /\ UNCHANGED <<script, phase, pending, broken>>
      /\ \A mark \in marks' \ marks : Makes(script, next, mark)
      /\ \A mark \in marks \ marks' : Undoes(script.body[next].ops[1], mark)
      /\ ~err' => \A mark : Makes(script, next, mark) => mark \in marks'
  BY BodyMakes
<1>2. /\ DOMAIN script.body = 1..Len(script.body) /\ Len(script.body) \in Nat
      /\ DOMAIN script.body \subseteq Nat
  BY ScriptTypes
<1>3. "adapter down" \notin marks'
  BY <1>1 DEF AdapterKept, KeepsAdapter
<1>4. "release" \in marks => "release" \in marks'
  BY <1>1 DEF KeepsAdapter, Tries
<1>5. ASSUME NEW r \in DOMAIN script.body, NEW e \in DOMAIN script.body,
             Asserted(r, e), r < next'
      PROVE  "release" \in marks' \/ (next' <= e /\ err')
  <2>1. CASE r < next
    <3>1. "release" \in marks \/ (next <= e /\ err)
      BY <1>1, <1>5, <2>1 DEF AdapterKept
    <3>2. CASE next <= e /\ "release" \notin marks
      <4>1. next # e
        BY <1>1, <1>5 DEF Asserted
      <4>2. next \in (r + 1)..(e - 1)
        BY <1>1, <1>2, <2>1, <3>2, <4>1
      <4> QED BY <1>1, <1>5, <4>2 DEF Asserted, IsDefer
    <3> QED BY <1>4, <3>1, <3>2
  <2>2. CASE r = next
    <3>1. next' <= e
      BY <1>1, <1>2, <1>5, <2>2 DEF Asserted
    <3>2. err' \in BOOLEAN
      BY DEF Try, TryFails
    <3>3. ~err' => "release" \in marks'
      BY <1>1, <1>5, <2>2 DEF Asserted
    <3> QED BY <3>1, <3>2, <3>3
  <2> QED BY <1>1, <1>2, <1>5, <2>1, <2>2
<1>6. ASSUME "required" \in marks' PROVE "release" \in marks'
  <2>1. CASE "required" \in marks
    BY <1>1, <1>4, <2>1 DEF AdapterKept
  <2>2. CASE "required" \notin marks
    <3>1. Makes(script, next, "required")
      BY <1>1, <1>6, <2>2
    <3>2. PICK r \in 1..(next - 1) : \E e \in (r + 1)..(next - 1) :
            /\ Makes(script, r, "release") /\ script.body[e].kind = "expect"
            /\ \A d \in (r + 1)..(e - 1) : IsDefer(script, d)
      BY <1>1, <3>1 DEF KeepsAdapter
    <3>3. PICK e \in (r + 1)..(next - 1) :
            /\ Makes(script, r, "release") /\ script.body[e].kind = "expect"
            /\ \A d \in (r + 1)..(e - 1) : IsDefer(script, d)
      BY <3>2
    <3>4. /\ r \in DOMAIN script.body /\ e \in DOMAIN script.body
          /\ r < e /\ r < next /\ ~(next <= e)
      BY <1>1, <1>2, <3>2, <3>3
    <3>5. Asserted(r, e)
      BY <3>3, <3>4 DEF Asserted
    <3>6. "release" \in marks
      BY <1>1, <3>4, <3>5 DEF AdapterKept
    <3> QED BY <1>4, <3>6
  <2> QED BY <2>1, <2>2
<1>7. Cleans(pending) => \E j \in DOMAIN script.body :
        j < next' /\ IsDefer(script, j) /\ Cleans(script.body[j].ops)
  <2> SUFFICES ASSUME Cleans(pending)
               PROVE  \E j \in DOMAIN script.body :
                        j < next' /\ IsDefer(script, j) /\ Cleans(script.body[j].ops)
    OBVIOUS
  <2>1. PICK j \in DOMAIN script.body :
          j < next /\ IsDefer(script, j) /\ Cleans(script.body[j].ops)
    BY <1>1 DEF AdapterKept
  <2>2. j < next' BY <1>1, <1>2, <2>1
  <2> QED BY <2>1, <2>2
<1>8. \A r, e : Asserted(r, e)' <=> Asserted(r, e)
  BY <1>1 DEF Asserted
<1>9. KeptLast(pending)
  BY DEF AdapterKept
<1> QED BY <1>1, <1>3, <1>5, <1>6, <1>7, <1>8, <1>9 DEF AdapterKept

\* A registration: where it uninstalls the adapter, no cluster cleanup is pending.
LEMMA DeferKept ==
  ASSUME TypeOK, KeepsAdapter(script), AdapterKept, Defer
  PROVE  AdapterKept'
<1> DEFINE ops == script.body[next].ops
<1>1. /\ phase = "body" /\ IsDefer(script, next) /\ next \in DOMAIN script.body
      /\ next' = next + 1 /\ next \in Nat
      /\ ops \in Ops /\ pending \in Ops /\ pending' = ops \o pending
      /\ UNCHANGED <<script, marks, cluster, phase, err, broken>>
  BY DeferStep
<1>2. DOMAIN script.body \subseteq Nat
  BY ScriptTypes
<1>3. KeptLast(pending')
  <2>1. \/ \A k \in DOMAIN ops : ~Undoes(ops[k], "release")
        \/ \A d \in DOMAIN script.body : d < next /\ IsDefer(script, d) =>
             ~Cleans(script.body[d].ops)
    BY <1>1, KeptRegistrations
  <2>2. (\A k \in DOMAIN ops : ~Undoes(ops[k], "release")) \/ ~Cleans(pending)
    BY <1>1, <2>1 DEF AdapterKept
  <2>3. KeptLast(ops) /\ KeptLast(pending)
    BY <1>1, KeptRegistrations DEF AdapterKept
  <2> HIDE DEF ops
  <2> QED BY <1>1, <2>2, <2>3, KeptLastJoin
<1>4. Cleans(pending') => \E j \in DOMAIN script.body :
        j < next' /\ IsDefer(script, j) /\ Cleans(script.body[j].ops)
  <2> SUFFICES ASSUME Cleans(pending')
               PROVE  \E j \in DOMAIN script.body :
                        j < next' /\ IsDefer(script, j) /\ Cleans(script.body[j].ops)
    OBVIOUS
  <2>1. Cleans(ops) \/ Cleans(pending)
    BY <1>1, CleansJoin
  <2>2. CASE Cleans(ops)
    <3>1. next < next' BY <1>1
    <3> QED BY <1>1, <2>2, <3>1
  <2>3. CASE Cleans(pending)
    <3>1. PICK j \in DOMAIN script.body :
            j < next /\ IsDefer(script, j) /\ Cleans(script.body[j].ops)
      BY <1>1, <2>3 DEF AdapterKept
    <3>2. j < next' BY <1>1, <1>2, <3>1
    <3> QED BY <3>1, <3>2
  <2> QED BY <2>1, <2>2, <2>3
<1>5. ASSUME NEW r \in DOMAIN script.body, NEW e \in DOMAIN script.body,
             Asserted(r, e), r < next'
      PROVE  "release" \in marks \/ (next' <= e /\ err)
  <2>1. r # next /\ e # next
    BY <1>1, <1>5 DEF Asserted, Makes, Tries, IsDefer
  <2>2. r < next
    BY <1>1, <1>2, <1>5, <2>1
  <2>3. next <= e => next' <= e
    BY <1>1, <1>2, <2>1
  <2> QED BY <1>1, <1>5, <2>2, <2>3 DEF AdapterKept
<1>6. \A r, e : Asserted(r, e)' <=> Asserted(r, e)
  BY <1>1 DEF Asserted
<1> QED BY <1>1, <1>3, <1>4, <1>5, <1>6 DEF AdapterKept

\* An assertion that holds: the call it is on succeeded.
LEMMA ExpectKept ==
  ASSUME TypeOK, AdapterKept, ExpectHolds
  PROVE  AdapterKept'
<1>1. /\ phase = "body" /\ next \in DOMAIN script.body /\ script.body[next].kind = "expect"
      /\ next' = next + 1 /\ next \in Nat /\ ~err
      /\ UNCHANGED <<script, marks, cluster, phase, err, pending, broken>>
  BY ExpectStep
<1>2. DOMAIN script.body \subseteq Nat
  BY ScriptTypes
<1>3. ASSUME NEW r \in DOMAIN script.body, NEW e \in DOMAIN script.body,
             Asserted(r, e), r < next'
      PROVE  "release" \in marks
  <2>1. r # next
    BY <1>1, <1>3 DEF Asserted, Makes, Tries
  <2>2. r < next
    BY <1>1, <1>2, <1>3, <2>1
  <2> QED BY <1>1, <1>3, <2>2 DEF AdapterKept
<1>4. Cleans(pending) => \E j \in DOMAIN script.body :
        j < next' /\ IsDefer(script, j) /\ Cleans(script.body[j].ops)
  <2> SUFFICES ASSUME Cleans(pending)
               PROVE  \E j \in DOMAIN script.body :
                        j < next' /\ IsDefer(script, j) /\ Cleans(script.body[j].ops)
    OBVIOUS
  <2>1. PICK j \in DOMAIN script.body :
          j < next /\ IsDefer(script, j) /\ Cleans(script.body[j].ops)
    BY <1>1 DEF AdapterKept
  <2>2. j < next' BY <1>1, <1>2, <2>1
  <2> QED BY <2>1, <2>2
<1>5. \A r, e : Asserted(r, e)' <=> Asserted(r, e)
  BY <1>1 DEF Asserted
<1> QED BY <1>1, <1>3, <1>4, <1>5 DEF AdapterKept

LEMMA EndKept ==
  ASSUME TypeOK, KeepsAdapter(script), AdapterKept, EndBody
  PROVE  AdapterKept'
<1>1. /\ phase = "body" /\ phase' = "cleanup"
      /\ script.after \in Ops /\ pending \in Ops /\ pending' = script.after \o pending
      /\ UNCHANGED <<script, marks, cluster, broken>>
  BY EndStep
<1>2. KeptLast(pending')
  BY <1>1, KeptRegistrations, KeptLastJoin DEF AdapterKept
<1> QED BY <1>1, <1>2 DEF AdapterKept

\* A cleanup that uninstalls the adapter has no cluster cleanup behind it.
LEMMA CleanupKept ==
  ASSUME TypeOK, NoMakes, AdapterKept, CleanupStep \/ CleanupFails \/ CleanupCluster
  PROVE  AdapterKept'
<1>1. /\ phase = "cleanup" /\ phase' \in {"cleanup", "waiting"}
      /\ pending \in Ops /\ pending # << >> /\ pending' = Tail(pending)
      /\ marks' \subseteq marks
      /\ \A mark \in marks \ marks' : Undoes(Head(pending), mark)
      /\ UNCHANGED <<script, next>>
  BY CleanupStepEffect
<1>2. KeptLast(pending) /\ "adapter down" \notin marks
      /\ ("required" \in marks => "release" \in marks \/ ~Cleans(pending))
  BY <1>1 DEF AdapterKept
<1>3. /\ KeptLast(pending')
      /\ Cleans(pending') => Cleans(pending) /\ ~Undoes(Head(pending), "release")
  BY <1>1, <1>2, KeptLastTail
<1>4. "required" \in marks' => "release" \in marks' \/ ~Cleans(pending')
  BY <1>1, <1>2, <1>3
<1> QED BY <1>1, <1>2, <1>3, <1>4 DEF AdapterKept

LEMMA AdapterKeptStep ==
  ASSUME TypeOK, NoMakes, KeepsAdapter(script), AdapterKept, [Next]_vars
  PROVE  AdapterKept'
<1>1. CASE WaitOver \/ WaitFails \/ Finish \/ HardDelete \/ Subscribe \/ UNCHANGED vars
  <2>1. /\ UNCHANGED <<script, next, err, pending>>
        /\ \A mark : mark # "subscription" => (mark \in marks' <=> mark \in marks)
        /\ phase' = "body" <=> phase = "body"
    BY <1>1, OtherStep
  <2>2. \A r, e : Asserted(r, e)' <=> Asserted(r, e)
    BY <2>1 DEF Asserted
  <2> QED BY <2>1, <2>2 DEF AdapterKept
<1> QED BY <1>1, Steps, TryKept, DeferKept, ExpectKept, EndKept, CleanupKept

------------------------------------------------------------------------------
(* No wait in vain                                                         *)

\* The inductive invariant: every outage is in order, the API's new requirement is in
\* order or its adapter kept, and no wait is in vain.
PromptInv ==
  Promptly(script) =>
    /\ NoMakes
    /\ \A outage \in Outages : InOrder(outage, CleanupOps)
    /\ Ordered(script, "required", CleanupOps) => InOrder("required", CleanupOps)
    /\ KeepsAdapter(script) => AdapterKept
    /\ NoDoomedWait

\* A cluster cleanup finds nothing holding the cluster that its undo did not fail to end.
LEMMA NothingHolds ==
  ASSUME TypeOK, Promptly(script), PromptInv, CleanupCluster
  PROVE  Holding \subseteq broken
<1>1. /\ phase = "cleanup" /\ pending # << >> /\ pending \in Ops
      /\ Head(pending) \in Operation /\ Head(pending).verb = "cleanup"
  BY CleanupStepEffect DEF PromptInv, CleanupCluster
<1>2. Head(pending) \in CleanupOps
  BY <1>1 DEF Operation, CleanupOps
<1>3. \A outage \in Outages : outage \in marks => outage \in broken
  BY <1>1, <1>2, NextInOrder DEF PromptInv
<1>4. CASE Ordered(script, "required", CleanupOps)
  <2>1. "required" \in marks => "required" \in broken
    BY <1>1, <1>2, <1>4, NextInOrder DEF PromptInv
  <2> QED BY <1>3, <2>1 DEF Holding
<1>5. CASE KeepsAdapter(script)
  <2>1. Cleans(pending)
    <3>1. 1 \in DOMAIN pending /\ pending[1] = Head(pending)
      BY <1>1, Rests DEF Ops
    <3> QED BY <1>2, <3>1 DEF Cleans
  <2>2. "adapter down" \notin marks /\ ("required" \in marks => "release" \in marks)
    BY <1>1, <1>5, <2>1 DEF PromptInv, AdapterKept
  <2> QED BY <1>3, <2>2 DEF Holding
<1> QED BY <1>4, <1>5 DEF Promptly

LEMMA PromptStep == TypeOK /\ PromptInv /\ [Next]_vars => PromptInv'
<1> SUFFICES ASSUME TypeOK, PromptInv, [Next]_vars, Promptly(script)' PROVE PromptInv'
  BY DEF PromptInv
<1>1. Promptly(script) /\ script' = script
  BY SameScript
<1>2. NoMakes'
  BY <1>1, NoMakesStep DEF PromptInv, Promptly
<1>3. ASSUME NEW outage \in Outages PROVE InOrder(outage, CleanupOps)'
  <2>1. outage \notin {"wifconfig", "subscription"} BY DEF Outages
  <2>2. Ordered(script, outage, CleanupOps) /\ InOrder(outage, CleanupOps) /\ NoMakes
    BY <1>1 DEF Promptly, PromptInv
  <2> QED BY <2>1, <2>2, InOrderStep
<1>4. Ordered(script, "required", CleanupOps)' => InOrder("required", CleanupOps)'
  <2> SUFFICES ASSUME Ordered(script, "required", CleanupOps)'
               PROVE  InOrder("required", CleanupOps)'
    OBVIOUS
  <2>1. Ordered(script, "required", CleanupOps) BY <1>1
  <2>2. InOrder("required", CleanupOps) /\ NoMakes BY <1>1, <2>1 DEF PromptInv
  <2> QED BY <2>1, <2>2, InOrderStep
<1>5. KeepsAdapter(script)' => AdapterKept'
  BY <1>1, AdapterKeptStep DEF PromptInv
<1>6. NoDoomedWait'
  <2> SUFFICES ASSUME phase' = "waiting" PROVE Holding' \subseteq broken'
    BY DEF NoDoomedWait
  <2>1. CASE phase = "waiting"
    <3>1. ~(Try \/ TryFails \/ Defer \/ ExpectHolds \/ EndBody \/ CleanupStep
              \/ CleanupFails \/ CleanupCluster)
      BY <2>1 DEF Try, TryFails, Defer, ExpectHolds, EndBody, CleanupStep, CleanupFails,
                  CleanupCluster, InBody, InCleanup
    <3>2. /\ \A mark : mark # "subscription" => (mark \in marks' <=> mark \in marks)
          /\ broken \subseteq broken'
      BY <3>1, Steps, OtherStep
    <3>3. Holding' = Holding
      BY <3>2 DEF Holding, Outages
    <3>4. Holding \subseteq broken
      BY <1>1, <2>1 DEF PromptInv, NoDoomedWait
    <3> QED BY <3>2, <3>3, <3>4
  <2>2. CASE phase # "waiting"
    <3>1. CleanupCluster
      <4>1. ~(WaitOver \/ WaitFails \/ Finish \/ HardDelete \/ Subscribe \/ UNCHANGED vars)
        BY <2>2, OtherStep
      <4>2. ~(Try \/ TryFails \/ Defer \/ ExpectHolds \/ EndBody)
        BY <2>2 DEF Try, TryFails, Defer, ExpectHolds, EndBody
      <4>3. ~(CleanupStep \/ CleanupFails)
        BY <2>2 DEF CleanupStep, CleanupFails
      <4> QED BY <4>1, <4>2, <4>3, Steps
    <3>2. marks' = marks /\ broken' = broken
      BY <3>1 DEF CleanupCluster
    <3>3. Holding \subseteq broken
      BY <1>1, <3>1, NothingHolds
    <3> QED BY <3>2, <3>3 DEF Holding
  <2> QED BY <2>1, <2>2
<1> QED BY <1>2, <1>3, <1>4, <1>5, <1>6 DEF PromptInv

\* A spec that registers the end of each outage behind its cluster's cleanup, or that
\* cleanup with the end of the outage in front of it, and the uninstall of an adapter that
\* it makes the API require ahead of both, never waits for a hard-delete that the spec's
\* own departure from the environment prevents, wherever it fails.
THEOREM PromptIsNeverDoomed == Spec => []PromptNeverDoomed
<1>1. Init => PromptInv
  <2> SUFFICES ASSUME Init PROVE PromptInv
    OBVIOUS
  <2>1. marks = {} /\ phase = "body" /\ pending = << >> /\ next = 1
    BY DEF Init
  <2>2. ~Cleans(<< >>) /\ KeptLast(<< >>)
    BY DEF Cleans, KeptLast
  <2>3. \A r \in DOMAIN script.body : ~(r < next)
    <3>1. script \in Scripts BY DEF Init
    <3>2. DOMAIN script.body = 1..Len(script.body) /\ Len(script.body) \in Nat
      BY <3>1, ScriptsAssumption
    <3> QED BY <2>1, <3>2
  <2>4. AdapterKept
    BY <2>1, <2>2, <2>3 DEF AdapterKept
  <2>5. NoMakes /\ NoDoomedWait
    BY <2>1 DEF NoMakes, NoDoomedWait
  <2> QED BY <2>4, <2>5, InOrderInit DEF PromptInv
<1>2. PromptInv => PromptNeverDoomed
  BY DEF PromptInv, PromptNeverDoomed
<1> QED BY <1>1, <1>2, PromptStep, TypeCorrect, PTL DEF Spec

------------------------------------------------------------------------------
(* The end of a spec                                                       *)

\* What a spec has left to do, where it is.
LEMMA RemainingIsRank ==
  ASSUME TypeOK
  PROVE  /\ Len(pending) \in Nat
         /\ phase = "body" =>
              /\ Remaining = <<Len(script.body) + 3 - next, 0>>
              /\ Len(script.body) + 3 - next \in Nat \ {0, 1}
         /\ phase = "cleanup" => Remaining = <<1, 2 * Len(pending)>>
         /\ phase = "waiting" => Remaining = <<1, 2 * Len(pending) + 1>>
         /\ phase = "done" => Remaining = <<0, 0>>
<1>1. Len(pending) \in Nat
  BY DEF TypeOK
<1>2. phase = "body" => Len(script.body) + 3 - next \in Nat \ {0, 1}
  BY ScriptTypes DEF TypeOK
<1> QED BY <1>1, <1>2 DEF Remaining

\* The body of a spec and its DeferCleanups run out: every step of the runner leaves less to
\* do, wherever the body fails and whatever a cleanup cannot undo.
THEOREM SpecsRunOut == Spec => WorkRunsOut
<1> DEFINE Down == \/ UNCHANGED <<phase, next, err, pending, broken>>
                   \/ Below(Remaining', Remaining)
<1>1. TypeOK /\ TypeOK' /\ [Next]_vars => Down
  <2> SUFFICES ASSUME TypeOK, TypeOK', [Next]_vars PROVE Down
    OBVIOUS
  <2> USE DEF Below
  <2>0. pending \in Ops /\ Len(pending) \in Nat /\ Len(pending') \in Nat
    BY DEF TypeOK, Ops
  <2>1. CASE Try \/ TryFails \/ Defer \/ ExpectHolds
    <3>1. phase = "body" /\ phase' = "body" /\ next' = next + 1 /\ script' = script
      BY <2>1 DEF Try, TryFails, Defer, ExpectHolds, InBody
    <3>2. next \in Nat /\ Len(script.body) \in Nat
      BY ScriptTypes DEF TypeOK
    <3>3. /\ Remaining = <<Len(script.body) + 3 - next, 0>>
          /\ Remaining' = <<Len(script.body) + 3 - (next + 1), 0>>
          /\ Len(script.body) + 3 - (next + 1) \in Nat
      <4>1. Remaining = <<Len(script.body) + 3 - next, 0>>
        BY <3>1, RemainingIsRank
      <4>2. Remaining' = <<Len(script.body) + 3 - (next + 1), 0>>
        BY <3>1 DEF Remaining
      <4>3. next' \in 1..(Len(script'.body) + 1)
        BY DEF TypeOK
      <4> QED BY <3>1, <3>2, <4>1, <4>2, <4>3
    <3> QED BY <3>2, <3>3
  <2>2. CASE EndBody
    <3>1. phase = "body" /\ phase' = "cleanup"
      BY <2>2 DEF EndBody
    <3>2. Remaining' = <<1, 2 * Len(pending')>>
      BY <3>1 DEF Remaining
    <3> QED BY <2>0, <3>1, <3>2, RemainingIsRank
  <2>3. CASE CleanupStep \/ CleanupFails \/ CleanupCluster
    <3>1. /\ phase = "cleanup" /\ pending # << >> /\ pending' = Tail(pending)
          /\ phase' \in {"cleanup", "waiting"}
      BY <2>3 DEF CleanupStep, CleanupFails, CleanupCluster, InCleanup
    <3>2. Len(pending') = Len(pending) - 1
      BY <2>0, <3>1, Rests
    <3>3. /\ Remaining = <<1, 2 * Len(pending)>>
          /\ Remaining' \in {<<1, 2 * Len(pending')>>, <<1, 2 * Len(pending') + 1>>}
      BY <3>1 DEF Remaining
    <3> QED BY <2>0, <3>2, <3>3
  <2>4. CASE WaitOver \/ WaitFails
    <3>1. phase = "waiting" /\ phase' = "cleanup" /\ pending' = pending
      BY <2>4 DEF WaitOver, WaitFails
    <3>2. Remaining = <<1, 2 * Len(pending) + 1>> /\ Remaining' = <<1, 2 * Len(pending)>>
      BY <3>1 DEF Remaining
    <3> QED BY <2>0, <3>2
  <2>5. CASE Finish
    <3>1. phase = "cleanup" /\ phase' = "done"
      BY <2>5 DEF Finish
    <3>2. Remaining = <<1, 2 * Len(pending)>> /\ Remaining' = <<0, 0>>
      BY <3>1 DEF Remaining
    <3> QED BY <2>0, <3>2
  <2>6. CASE HardDelete \/ Subscribe \/ UNCHANGED vars
    BY <2>6 DEF HardDelete, Subscribe, vars
  <2> QED BY <2>1, <2>2, <2>3, <2>4, <2>5, <2>6 DEF Next, Runner, Idle
<1> QED BY <1>1, TypeCorrect, PTL DEF Spec, WorkRunsOut
==============================================================================
