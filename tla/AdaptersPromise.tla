--------------------------- MODULE AdaptersPromise ---------------------------
(***************************************************************************)
(* What the changes and restores of the API's required adapters promise    *)
(* the specs, without saying how: a job works on the list of one kind, and *)
(* until its list is everywhere the API may go by it or by what it went by *)
(* before.  The lists of the other kinds take no new value, whatever fails *)
(* or is interrupted, and success is reported only over the job's list.    *)
(***************************************************************************)

CONSTANTS
  Kinds,         (* the kinds of config.entities                            *)
  Lists          (* the lists of required adapters a kind may have          *)

VARIABLES
  held,          \* per kind, the lists that the API may go by: what is recorded,
                 \* what is rolled out and what still answers
  task,          \* what the job that runs works on, <<kind, list>>, or NoTask
  reply          \* of the last job: "none" (yet), "nil" or "error"

vars == <<held, task, reply>>

NoTask == << >>

Init ==
  /\ held \in [Kinds -> {{list} : list \in Lists}]
  /\ task = NoTask
  /\ reply = "none"

\* Lists may be dropped for good; only the job's own is added.
Move ==
  /\ held' \in [Kinds -> (SUBSET Lists) \ {{}}]
  /\ \A k \in Kinds : held'[k] \subseteq held[k] \union {l \in Lists : task = <<k, l>>}

Begin ==
  /\ task = NoTask
  /\ task' \in Kinds \X Lists
  /\ reply' = "none"
  /\ UNCHANGED held

Work == Move /\ UNCHANGED <<task, reply>>

Succeed ==
  /\ \E k \in Kinds, l \in Lists : task = <<k, l>> /\ held[k] = {l}
  /\ task' = NoTask /\ reply' = "nil"
  /\ UNCHANGED held

GiveUp ==
  /\ task # NoTask
  /\ task' = NoTask /\ reply' = "error"
  /\ Move

\* The job's process is killed.
Die ==
  /\ task # NoTask
  /\ task' = NoTask /\ reply' = "none"
  /\ UNCHANGED held

Next == Begin \/ Work \/ Succeed \/ GiveUp \/ Die

Spec == Init /\ [][Next]_vars
==============================================================================
