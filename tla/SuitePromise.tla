----------------------------- MODULE SuitePromise ----------------------------
(***************************************************************************)
(* What a run of the suite promises its specs about the deployment they    *)
(* share, without saying which process runs them or what may fail: each    *)
(* begins at most once, a Serial one when nothing else runs or is still to *)
(* run but Serial specs; only a spec itself takes away what is its own     *)
(* while it runs; what is swept is swept behind the specs.                 *)
(***************************************************************************)

CONSTANTS
  Specs,
  Serial         (* the specs that run by themselves                        *)

VARIABLES
  state,         \* of a spec: "waiting", "running" or "over"
  releases,      \* specs whose adapter is installed
  subs,          \* specs whose adapter has its subscription
  leaked,        \* specs with labeled resources in Kubernetes
  sweeping       \* the sweep of Kubernetes has begun

vars == <<state, releases, subs, leaked, sweeping>>
world == <<releases, subs, leaked>>

In(st) == {s \in Specs : state[s] = st}

Init ==
  /\ state = [s \in Specs |-> "waiting"]
  /\ releases = {} /\ subs = {} /\ leaked = {}
  /\ sweeping = FALSE

Begin(s) ==
  /\ state[s] = "waiting" /\ ~sweeping
  /\ In("running") \intersect Serial = {}
  /\ s \in Serial => In("running") = {} /\ In("waiting") \subseteq Serial
  /\ state' = [state EXCEPT ![s] = "running"]
  /\ UNCHANGED <<world, sweeping>>

\* A spec works on what is its own, and deletes no labeled resource by its label.
Work(s) ==
  /\ state[s] = "running"
  /\ releases' \in {releases \union {s}, releases \ {s}}
  /\ subs' \in {subs, subs \ {s}}
  /\ leaked' \in {leaked, leaked \union {s}}
  /\ UNCHANGED <<state, sweeping>>

End(s) ==
  /\ state[s] = "running"
  /\ state' = [state EXCEPT ![s] = "over"]
  /\ UNCHANGED <<world, sweeping>>

\* An adapter that runs, whoever's it is, subscribes.
Subscribe(s) ==
  /\ s \in releases
  /\ subs' = subs \union {s}
  /\ UNCHANGED <<state, releases, leaked, sweeping>>

\* A process that has run its last spec sweeps the subscriptions of those it ran.
SweepSubscriptions ==
  /\ subs' \subseteq subs /\ subs \ subs' \subseteq In("over")
  /\ UNCHANGED <<state, releases, leaked, sweeping>>

StartSweep ==
  /\ ~sweeping /\ In("running") = {}
  /\ sweeping' = TRUE
  /\ UNCHANGED <<state, world>>

Sweep ==
  /\ sweeping
  /\ releases' \subseteq releases /\ leaked' \subseteq leaked
  /\ UNCHANGED <<state, subs, sweeping>>

Next ==
  \/ \E s \in Specs : Begin(s) \/ Work(s) \/ End(s) \/ Subscribe(s)
  \/ SweepSubscriptions \/ StartSweep \/ Sweep

Spec == Init /\ [][Next]_vars
==============================================================================
