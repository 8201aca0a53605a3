------------------------------ MODULE FlowRun ------------------------------
(***************************************************************************)
(* The runs of one flow, one after the other: run_graph plans the graph,     *)
(* executes it stage by stage on a thread pool, propagates failures, fires    *)
(* the post-execution callbacks and reports; a cancel request may land        *)
(* between any two steps.  Two overlapping calls of run_graph are the subject *)
(* of RunTasks.                                                              *)
(* Source: flowfile/flow_graph.py (run_graph and what it calls, cancel,       *)
(* get_run_info), routes/routes.py (cancel_flow).                            *)
(***************************************************************************)
EXTENDS Naturals, FlowPlan

CONSTANTS
    Graphs,         \* the graphs the flow may have
    WorkerCounts,   \* the values of max_workers: 1 for local execution
    Sources,        \* the nodes that register an _on_flow_complete callback
    MaxRuns         \* bound: how many runs are started

ASSUME GraphsAssumption == Graphs \subseteq Graph
ASSUME WorkersAssumption == WorkerCounts \subseteq Nat \ {0}
ASSUME SourcesAssumption == Sources \subseteq NodeIds
ASSUME MaxRunsAssumption == MaxRuns \in Nat

VARIABLES
    g,            \* nodes, leads_to_nodes, is_correct and the start list
    workers,      \* max_workers of _execute_stages
    isRunning,    \* flow_settings.is_running
    isCanceled,   \* flow_settings.is_canceled
    cancelling,   \* a cancel request has seen is_running and not acted yet
    pc,           \* where run_graph is
    staging,      \* the stage of every scheduled node in the execution_plan that
                  \* each run computes anew from the same graph
    level,        \* the stage being executed
    skip,         \* skip_node_ids
    failed,       \* failed_node_ids
    pending,      \* nodes of the stage submitted and not started
    active,       \* nodes a pool thread is executing
    raised,       \* an exception of a node is on its way out of the stage
    result,       \* result[n]: the NodeResult of n in latest_run_info
    success,      \* latest_run_info.success
    callback,     \* the nodes whose _on_flow_complete is set
    committed,    \* the nodes whose callback was given success=True
    runs          \* runs started

setup == <<g, staging, workers>>
stages == <<level, skip, failed, pending, active, raised, result>>
report == <<success, callback, committed, runs>>
vars == <<g, staging, workers, isRunning, isCanceled, cancelling, pc, level, skip,
          failed, pending, active, raised, result, success, callback, committed, runs>>

(* NodeResult.success is None while running and after a cancel ("void"). *)
Results == {"none", "running", "ok", "failed", "void"}

Phases == {"idle", "claimed", "planning", "stages", "nodes", "check", "callbacks",
           "closing", "closed", "crashed"}

NotRun == [n \in NodeIds |-> "none"]

Init ==
    /\ g \in Graphs
    /\ workers \in WorkerCounts
    /\ isRunning = FALSE
    /\ isCanceled = FALSE
    /\ cancelling = FALSE
    /\ pc = "idle"
    /\ staging \in Stagings /\ IsStaging(g, staging)
    /\ level = 0
    /\ skip = {} /\ failed = {} /\ pending = {} /\ active = {}
    /\ raised = FALSE
    /\ result = NotRun
    /\ success = "none"
    /\ callback = {} /\ committed = {}
    /\ runs = 0

-----------------------------------------------------------------------------
(* run_graph: the check and the claim, the reset of is_canceled, the plan.   *)
Claim ==
    /\ pc \in {"idle", "closed", "crashed"}
    /\ ~isRunning
    /\ runs < MaxRuns
    /\ isRunning' = TRUE
    /\ pc' = "claimed"
    /\ runs' = runs + 1
    /\ UNCHANGED <<setup, isCanceled, cancelling, stages, success, callback, committed>>

ResetCancel ==
    /\ pc = "claimed"
    /\ isCanceled' = FALSE
    /\ pc' = "planning"
    /\ UNCHANGED <<setup, isRunning, cancelling, stages, report>>

(* The plan cannot be made: the exception leaves the information of the       *)
(* previous run in latest_run_info.                                          *)
PlanFails ==
    /\ pc = "planning"
    /\ PlanRaises(g, staging)
    /\ isRunning' = FALSE
    /\ pc' = "crashed"
    /\ UNCHANGED <<setup, isCanceled, cancelling, stages, report>>

MakePlan ==
    /\ pc = "planning"
    /\ ~PlanRaises(g, staging)
    /\ level' = 0
    /\ skip' = NodesToSkip(g)
    /\ failed' = {} /\ pending' = {} /\ active' = {}
    /\ raised' = FALSE
    /\ result' = NotRun
    /\ success' = "none"
    /\ committed' = {}
    /\ pc' = "stages"
    /\ UNCHANGED <<setup, isRunning, isCanceled, cancelling, callback, runs>>

-----------------------------------------------------------------------------
(* _execute_stages.                                                          *)
MoreStages == \E n \in NodeIds : staging[n] > level

StageNodes(k) == {n \in NodeIds : staging[n] = k}

WholeStage(k) == StageNodes(k)

(* nodes_to_run *)
NodesToRun(k) == StageNodes(k) \ skip

BeginStage ==
    /\ pc = "stages"
    /\ MoreStages
    /\ ~isCanceled
    /\ level' = level + 1
    /\ pending' = NodesToRun(level + 1)
    /\ pc' = "nodes"
    /\ UNCHANGED <<setup, isRunning, isCanceled, cancelling, skip, failed, active,
                   raised, result, report>>

(* The loop runs out of stages, or breaks before the next one. *)
LeaveStages ==
    /\ pc = "stages"
    /\ ~MoreStages \/ isCanceled
    /\ pc' = "check"
    /\ UNCHANGED <<setup, isRunning, isCanceled, cancelling, stages, report>>

(* A pool thread takes a node: its NodeResult joins latest_run_info. *)
StartNode(n) ==
    /\ pc = "nodes"
    /\ n \in pending
    /\ Cardinality(active) < workers
    /\ pending' = pending \ {n}
    /\ active' = active \cup {n}
    /\ result' = [result EXCEPT ![n] = "running"]
    /\ UNCHANGED <<setup, isRunning, isCanceled, cancelling, pc, level, skip,
                   failed, raised, report>>

(* apply_parameters_in_place raises ValueError: the node fails without        *)
(* executing and without looking at is_canceled.                             *)
ParamsUnresolved(n) ==
    /\ pc = "nodes"
    /\ n \in pending
    /\ Cardinality(active) < workers
    /\ pending' = pending \ {n}
    /\ result' = [result EXCEPT ![n] = "failed"]
    /\ UNCHANGED <<setup, isRunning, isCanceled, cancelling, pc, level, skip,
                   failed, active, raised, report>>

(* Only a source that consumed messages sets its callback. *)
ArmedAlways(n) == {n}

Armed(n) == {n} \cap Sources

(* execute_node returns and the result is recorded; a source that consumed    *)
(* messages has set its callback meanwhile.                                  *)
FinishNode(n) ==
    /\ pc = "nodes"
    /\ n \in active
    /\ active' = active \ {n}
    /\ \E r \in {"ok", "failed"} :
          result' = [result EXCEPT ![n] = IF isCanceled THEN "void" ELSE r]
    /\ callback' \in {callback, callback \cup Armed(n)}
    /\ UNCHANGED <<setup, isRunning, isCanceled, cancelling, pc, level, skip,
                   failed, pending, raised, success, committed, runs>>

(* execute_node raises.  A sequential stage is abandoned at once; a pool is   *)
(* shut down only after the nodes submitted to it have run.                  *)
NodeRaises(n) ==
    /\ pc = "nodes"
    /\ n \in active
    /\ active' = active \ {n}
    /\ pending' = IF workers = 1 THEN {} ELSE pending
    /\ raised' = TRUE
    /\ UNCHANGED <<setup, isRunning, isCanceled, cancelling, pc, level, skip,
                   failed, result, report>>

StageDone == pc = "nodes" /\ pending = {} /\ active = {}

(* The nodes of the stage that ran and did not succeed. *)
StageFailures == {n \in StageNodes(level) : result[n] \in {"failed", "void"}}

(* What a failure of the stage keeps from starting later. *)
StoppedDirectly == StageFailures \cup LeadsTo(g, StageFailures)

Stopped == StageFailures \cup Downstream(g, StageFailures)

EndStage ==
    /\ StageDone
    /\ ~raised
    /\ failed' = failed \cup StageFailures
    /\ skip' = skip \cup Stopped
    /\ pc' = "stages"
    /\ UNCHANGED <<setup, isRunning, isCanceled, cancelling, level, pending,
                   active, raised, result, report>>

CrashKeepsFlag ==
    /\ StageDone
    /\ raised
    /\ pc' = "crashed"
    /\ UNCHANGED <<setup, isRunning, isCanceled, cancelling, stages, report>>

(* The exception leaves run_graph, whose finally clears is_running. *)
Crash ==
    /\ StageDone
    /\ raised
    /\ isRunning' = FALSE
    /\ pc' = "crashed"
    /\ UNCHANGED <<setup, isCanceled, cancelling, stages, report>>

-----------------------------------------------------------------------------
(* After the stages: callbacks unless canceled, then the report.             *)
CheckCanceled ==
    /\ pc = "check"
    /\ pc' = IF isCanceled THEN "closing" ELSE "callbacks"
    /\ UNCHANGED <<setup, isRunning, isCanceled, cancelling, stages, report>>

(* Neither n nor anything downstream of it failed or was skipped. *)
CompleteUnlessFailed(n) == ({n} \cup AllDependents(g, n)) \cap failed = {}

Complete(n) == ({n} \cup AllDependents(g, n)) \cap (failed \cup skip) = {}

FireCallback(n) ==
    /\ pc = "callbacks"
    /\ n \in callback \cap g.nodes
    /\ callback' = callback \ {n}
    /\ committed' = IF Complete(n) THEN committed \cup {n} ELSE committed
    /\ UNCHANGED <<setup, isRunning, isCanceled, cancelling, pc, stages, success, runs>>

CallbacksOver ==
    /\ pc = "callbacks"
    /\ callback \cap g.nodes = {}
    /\ pc' = "closing"
    /\ UNCHANGED <<setup, isRunning, isCanceled, cancelling, stages, report>>

(* is_running is cleared and get_run_info settles the run's success. *)
SomeSucceeded == \E n \in NodeIds : result[n] = "ok"

AllSucceeded == \A n \in NodeIds : result[n] \in {"none", "ok"}

Close ==
    /\ pc = "closing"
    /\ isRunning' = FALSE
    /\ success' = IF AllSucceeded THEN "true" ELSE "false"
    /\ pc' = "closed"
    /\ UNCHANGED <<setup, isCanceled, cancelling, stages, callback, committed, runs>>

(* get_run_status asks get_run_info too: after a crash it is the first to     *)
(* settle the success of the run.                                            *)
PollStatus ==
    /\ pc = "crashed"
    /\ raised
    /\ success = "none"
    /\ success' = IF AllSucceeded THEN "true" ELSE "false"
    /\ UNCHANGED <<setup, isRunning, isCanceled, cancelling, pc, stages, callback,
                   committed, runs>>

-----------------------------------------------------------------------------
(* cancel_flow: the route's check, then flow.cancel with a check of its own.  *)
RequestCancel ==
    /\ ~cancelling
    /\ isRunning
    /\ cancelling' = TRUE
    /\ UNCHANGED <<setup, isRunning, isCanceled, pc, stages, report>>

Cancel ==
    /\ cancelling
    /\ cancelling' = FALSE
    /\ isCanceled' = (isCanceled \/ isRunning)
    /\ UNCHANGED <<setup, isRunning, pc, stages, report>>

(* No run is left to start. *)
Terminated ==
    /\ pc \in {"closed", "crashed"}
    /\ runs = MaxRuns
    /\ ~cancelling
    /\ UNCHANGED vars

RunStep ==
    \/ ResetCancel \/ PlanFails \/ MakePlan
    \/ BeginStage \/ LeaveStages
    \/ \E n \in NodeIds : StartNode(n) \/ ParamsUnresolved(n) \/ FinishNode(n) \/ NodeRaises(n)
    \/ EndStage \/ Crash
    \/ CheckCanceled
    \/ \E n \in NodeIds : FireCallback(n)
    \/ CallbacksOver \/ Close

Next == Claim \/ RunStep \/ PollStatus \/ RequestCancel \/ Cancel \/ Terminated

(* A background task's thread is scheduled until run_graph returns, and a     *)
(* node's execution returns (see NodeLocks for when it does not).             *)
Fairness == WF_vars(RunStep)

Spec == Init /\ [][Next]_vars /\ Fairness

-----------------------------------------------------------------------------
TypeOK ==
    /\ g \in Graphs
    /\ workers \in WorkerCounts
    /\ isRunning \in BOOLEAN
    /\ isCanceled \in BOOLEAN
    /\ cancelling \in BOOLEAN
    /\ pc \in Phases
    /\ staging \in [NodeIds -> Nat]
    /\ level \in Nat
    /\ skip \in SUBSET NodeIds
    /\ failed \in SUBSET NodeIds
    /\ pending \in SUBSET NodeIds
    /\ active \in SUBSET NodeIds
    /\ raised \in BOOLEAN
    /\ result \in [NodeIds -> Results]
    /\ success \in {"none", "true", "false"}
    /\ callback \in SUBSET Sources
    /\ committed \in SUBSET Sources
    /\ runs \in Nat

(* A node has a result in a run only if every counted input of it succeeded   *)
(* in that run: stages are processed sequentially "so that all dependencies   *)
(* are satisfied before a stage begins", whatever fails, raises or is         *)
(* canceled on the way.                                                      *)
InputsOkBeforeRun ==
    \A n \in NodeIds : result[n] # "none" =>
        \A p \in InEdges(g, n) : result[p] = "ok"

(* Once _execute_stages has counted a node as failed, nothing downstream of   *)
(* it starts in that run, not even through nodes the plan skips.             *)
NothingStartsAfterFailure ==
    [][\A n \in failed : \A m \in AllDependents(g, n) :
          result[m] = "none" => result'[m] = "none"]_vars

(* A callback gets success=True only when the node and every dependent of it  *)
(* that is in the flow ran in this run and succeeded: a source never commits   *)
(* offsets for rows that did not reach the end of the flow.                  *)
CommitOnlyComplete ==
    \A n \in committed : \A m \in ({n} \cup AllDependents(g, n)) \cap g.nodes : result[m] = "ok"

(* A run that was not canceled and reports success executed every node of the *)
(* flow it did not skip in its plan; a run that raised never reports it.      *)
SuccessIsComplete ==
    ~isRunning /\ success = "true" /\ ~isCanceled =>
        \A n \in AllNodes(g) : result[n] = "ok"

(* is_running is released whatever happens in the run. *)
RunEnds == isRunning ~> ~isRunning

(* The promise to the user: stages, pool and skip sets implement Dataflow. A  *)
(* result left "running" by a node that raised is "lost".                    *)
Promise == INSTANCE Dataflow WITH
    need <- [n \in NodeIds |-> InEdges(g, n)],
    state <- [n \in NodeIds |-> IF result[n] = "running" /\ n \notin active
                                THEN "lost" ELSE result[n]]

ImplementsDataflow == Promise!Spec
=============================================================================
