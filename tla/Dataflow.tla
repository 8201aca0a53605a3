------------------------------ MODULE Dataflow ------------------------------
(***************************************************************************)
(* What a flow run promises its user, without plan, stages, thread pool or   *)
(* skip sets: a node starts only when every node it waits for has succeeded   *)
(* in the same run, at most once per run, and a run begins only when nothing  *)
(* of an earlier run is still executing.  FlowRun implements it.              *)
(* Source: the docstrings of run_graph and _execute_stages ("Stages are       *)
(* processed sequentially so that all dependencies are satisfied", "Failed    *)
(* nodes cause their dependents to be skipped").                             *)
(***************************************************************************)
CONSTANT NodeIds

VARIABLES
    need,     \* need[n]: the nodes whose success n waits for
    state     \* state[n]: what happened to n in the current run

vars == <<need, state>>

Settled == {"ok", "failed", "void", "lost"}

States == {"none", "running"} \cup Settled

Init ==
    /\ need \in [NodeIds -> SUBSET NodeIds]
    /\ state = [n \in NodeIds |-> "none"]

Enabled(n) == state[n] = "none" /\ \A p \in need[n] : state[p] = "ok"

Start(n) ==
    /\ Enabled(n)
    /\ state' = [state EXCEPT ![n] = "running"]
    /\ UNCHANGED need

(* A node whose settings cannot be resolved fails without executing. *)
Refuse(n) ==
    /\ Enabled(n)
    /\ state' = [state EXCEPT ![n] = "failed"]
    /\ UNCHANGED need

Settle(n, r) ==
    /\ state[n] = "running"
    /\ state' = [state EXCEPT ![n] = r]
    /\ UNCHANGED need

NewRun ==
    /\ \A n \in NodeIds : state[n] # "running"
    /\ state' = [n \in NodeIds |-> "none"]
    /\ UNCHANGED need

Next ==
    \/ \E n \in NodeIds : Start(n) \/ Refuse(n) \/ \E r \in Settled : Settle(n, r)
    \/ NewRun

Spec == Init /\ [][Next]_vars
=============================================================================
