------------------------------ MODULE RunTasks ------------------------------
(***************************************************************************)
(* The background tasks that execute one open flow: the run and fetch routes, *)
(* the shared is_running / is_canceled flags and latest_run_info, the run      *)
(* record of each run in the catalog database, and the requests that meet      *)
(* them: cancel, delete node, cancel of a run record.                         *)
(* What happens inside run_graph is the subject of FlowRun; here an execution *)
(* produces node results until it ends, is canceled or raises.                *)
(* Source: routes/routes.py, flowfile/flow_graph.py, catalog/services/runs.py. *)
(***************************************************************************)
EXTENDS Naturals, FiniteSets

CONSTANTS Tasks, NoTask

ASSUME NoTaskAssumption == NoTask \notin Tasks

VARIABLES
    phase,        \* phase[t]: where the task is
    kind,         \* kind[t]: "run" or "fetch"
    isRunning,    \* flow_settings.is_running
    isCanceled,   \* flow_settings.is_canceled
    latest,       \* the task that created latest_run_info
    info,         \* info[t]: outcomes in the RunInformation t created
    settled,      \* settled[t]: success of the RunInformation t created
    own,          \* own[t]: outcomes of the nodes t executed (history)
    overlapped,   \* tasks that met another task while running (history)
    reported,     \* reported[t]: the success get_run_info returned to t
    record,       \* record[t]: t's row in the flow_runs table
    nodePresent,  \* the node that fetch tasks ask for is in the flow
    found         \* the fetch tasks whose get_node returned that node

flags == <<isRunning, isCanceled>>
target == <<nodePresent, found>>
infos == <<latest, info, settled, own, overlapped>>
vars == <<phase, kind, isRunning, isCanceled, latest, info, settled, own, overlapped,
          reported, record, nodePresent, found>>

Outcomes == {"ok", "bad"}

Phases == {"idle", "queued", "recorded", "checked", "planning", "executing", "reporting",
           "releasing", "completing", "done", "unrecorded", "raised"}

Over == {"done", "unrecorded", "raised"}

(* The task has set is_running and is yet to clear it for the last time. *)
Underway(t) == phase[t] \in {"planning", "executing", "reporting", "releasing"}

Init ==
    /\ phase = [t \in Tasks |-> "idle"]
    /\ kind \in [Tasks -> {"run", "fetch"}]
    /\ isRunning = FALSE
    /\ isCanceled = FALSE
    /\ latest = NoTask
    /\ info = [t \in Tasks |-> {}]
    /\ settled = [t \in Tasks |-> "none"]
    /\ own = [t \in Tasks |-> {}]
    /\ overlapped = {}
    /\ reported = [t \in Tasks |-> "none"]
    /\ record = [t \in Tasks |-> "none"]
    /\ nodePresent = TRUE
    /\ found = {}

Goto(t, p) == phase' = [phase EXCEPT ![t] = p]

-----------------------------------------------------------------------------
(* run_flow, trigger_fetch_node_data: refused with 422 while the flow runs or  *)
(* when the node to fetch is missing; otherwise the task is queued.            *)
Accept(t) ==
    /\ phase[t] = "idle"
    /\ ~isRunning
    /\ kind[t] = "fetch" => nodePresent
    /\ Goto(t, "queued")
    /\ UNCHANGED <<kind, flags, infos, reported, record, target>>

(* _run_and_track, phase 1: the run record is created, or cannot be. *)
StartRecord(t) ==
    /\ phase[t] = "queued"
    /\ kind[t] = "run"
    /\ \E r \in {"open", "none"} : record' = [record EXCEPT ![t] = r]
    /\ Goto(t, "recorded")
    /\ UNCHANGED <<kind, flags, infos, reported, target>>

AboutToRun(t) == phase[t] = IF kind[t] = "run" THEN "recorded" ELSE "queued"

Waits(t) ==
    /\ AboutToRun(t)
    /\ isRunning
    /\ UNCHANGED vars

(* run_graph, trigger_fetch_node: "Flow is already running". *)
Refused(t) ==
    /\ AboutToRun(t)
    /\ isRunning
    /\ Goto(t, "raised")
    /\ UNCHANGED <<kind, flags, infos, reported, record, target>>

(* The check passes; a fetch looks its node up before it sets the flags.       *)
FoundIdle(t) ==
    /\ AboutToRun(t)
    /\ ~isRunning
    /\ found' = IF kind[t] = "fetch" /\ nodePresent THEN found \cup {t} ELSE found
    /\ Goto(t, "checked")
    /\ UNCHANGED <<kind, flags, infos, reported, record, nodePresent>>

(* The flags are set in a later step than the check. *)
Claim(t) ==
    /\ phase[t] = "checked"
    /\ isRunning' = TRUE
    /\ isCanceled' = FALSE
    /\ overlapped' = overlapped \cup
          (IF \E u \in Tasks \ {t} : Underway(u)
           THEN {t} \cup {u \in Tasks : Underway(u)} ELSE {})
    /\ Goto(t, "planning")
    /\ UNCHANGED <<kind, latest, info, settled, own, reported, record, target>>

NewInfo(t) ==
    /\ latest' = t
    /\ info' = [info EXCEPT ![t] = {}]
    /\ settled' = [settled EXCEPT ![t] = "none"]

(* The run is planned and gets a RunInformation; a fetch gets its own.         *)
Begin(t) ==
    /\ phase[t] = "planning"
    /\ kind[t] = "fetch" => t \in found
    /\ NewInfo(t)
    /\ Goto(t, "executing")
    /\ UNCHANGED <<kind, flags, own, overlapped, reported, record, target>>

PlanFailsKeepsFlag(t) ==
    /\ phase[t] = "planning"
    /\ kind[t] = "run"
    /\ Goto(t, "raised")
    /\ UNCHANGED <<kind, flags, infos, reported, record, target>>

(* compute_execution_plan raises inside the try of run_graph. *)
PlanFails(t) ==
    /\ phase[t] = "planning"
    /\ kind[t] = "run"
    /\ isRunning' = FALSE
    /\ Goto(t, "raised")
    /\ UNCHANGED <<kind, isCanceled, infos, reported, record, target>>

(* The node to fetch was deleted since the route validated it: get_node gave   *)
(* None, and its attribute access raises after is_running was set and before    *)
(* the try whose finally would clear it.                                      *)
FetchOfDeleted(t) ==
    /\ phase[t] = "planning"
    /\ kind[t] = "fetch"
    /\ t \notin found
    /\ NewInfo(t)
    /\ Goto(t, "raised")
    /\ UNCHANGED <<kind, flags, own, overlapped, reported, record, target>>

-----------------------------------------------------------------------------
(* A node's result joins whatever RunInformation is the latest.  A canceled    *)
(* run records None; a fetch overwrites that None with its outcome.            *)
ExecuteNode(t) ==
    /\ phase[t] = "executing"
    /\ \E o \in Outcomes :
          LET r == IF isCanceled /\ kind[t] = "run" THEN "bad" ELSE o
          IN  /\ own' = [own EXCEPT ![t] = @ \cup {r}]
              /\ info' = [info EXCEPT ![latest] = @ \cup {r}]
    /\ UNCHANGED <<phase, kind, flags, latest, settled, overlapped, reported, record, target>>

(* The end of run_graph, or of the fetch, up to clearing is_running. *)
EndExecution(t) ==
    /\ phase[t] = "executing"
    /\ isRunning' = FALSE
    /\ Goto(t, "reporting")
    /\ UNCHANGED <<kind, isCanceled, infos, reported, record, target>>

(* An exception leaves run_graph through its finally; trigger_fetch_node       *)
(* returns None through its own.                                             *)
ExecutionRaises(t) ==
    /\ phase[t] = "executing"
    /\ isRunning' = FALSE
    /\ own' = [own EXCEPT ![t] = @ \cup {"bad"}]
    /\ info' = [info EXCEPT ![latest] = @ \cup {"bad"}]
    /\ Goto(t, "raised")
    /\ UNCHANGED <<kind, isCanceled, latest, settled, overlapped, reported, record, target>>

AllOk(i) == info[i] \subseteq {"ok"}

SettledEarly(i) ==
    IF settled[i] = "none"
    THEN IF AllOk(i) THEN "true" ELSE "false"
    ELSE settled[i]

(* get_run_info: the success of the latest RunInformation is computed once,    *)
(* and not while the flow runs.                                              *)
SuccessOf(i) ==
    IF settled[i] = "none" /\ ~isRunning
    THEN IF AllOk(i) THEN "true" ELSE "false"
    ELSE settled[i]

Report(t) ==
    /\ phase[t] = "reporting"
    /\ reported' = [reported EXCEPT ![t] = SuccessOf(latest)]
    /\ settled' = [settled EXCEPT ![latest] = SuccessOf(latest)]
    /\ Goto(t, "releasing")
    /\ UNCHANGED <<kind, flags, latest, info, own, overlapped, record, target>>

(* The finally around the report clears is_running again, also when another    *)
(* task has set it meanwhile.                                                *)
Release(t) ==
    /\ phase[t] = "releasing"
    /\ isRunning' = FALSE
    /\ Goto(t, IF kind[t] = "run" THEN "completing" ELSE "done")
    /\ UNCHANGED <<kind, isCanceled, infos, reported, record, target>>

(* get_run_status settles the success of the latest run as well. *)
PollStatus ==
    /\ latest # NoTask
    /\ settled' = [settled EXCEPT ![latest] = SuccessOf(latest)]
    /\ settled' # settled
    /\ UNCHANGED <<phase, kind, flags, latest, info, own, overlapped, reported, record, target>>

(* _run_and_track, phase 2: complete_run, or create_completed_run when phase 1 *)
(* had failed.  A database error is logged and leaves the row as it was.       *)
CompletedVerbatim(t) == [record EXCEPT ![t] = reported[t]]

Completed(t) ==
    [record EXCEPT ![t] = CASE reported[t] = "true" -> "success"
                            [] reported[t] = "false" -> "failed"
                            [] OTHER -> "ended"]

CompleteRecord(t) ==
    /\ phase[t] = "completing"
    /\ \/ record' = Completed(t) /\ Goto(t, "done")
       \/ record' = record /\ Goto(t, "unrecorded")
    /\ UNCHANGED <<kind, flags, infos, reported, target>>

-----------------------------------------------------------------------------
(* cancel_flow *)
CancelFlow ==
    /\ isRunning
    /\ isCanceled' = TRUE
    /\ UNCHANGED <<phase, kind, isRunning, infos, reported, record, target>>

(* The catalog's cancel_run marks a record failed; it looks at neither the     *)
(* record's end nor the designer's task.                                      *)
CancelRecord(t) ==
    /\ record[t] # "none"
    /\ record' = [record EXCEPT ![t] = "canceled"]
    /\ UNCHANGED <<phase, kind, flags, infos, reported, target>>

(* delete_node: refused with 422 while the flow runs. *)
DeleteNode ==
    /\ ~isRunning
    /\ nodePresent' = FALSE
    /\ UNCHANGED <<phase, kind, flags, infos, reported, record, found>>

TaskStep(t) ==
    \/ StartRecord(t) \/ Refused(t) \/ FoundIdle(t) \/ Claim(t)
    \/ Begin(t) \/ PlanFails(t) \/ FetchOfDeleted(t)
    \/ EndExecution(t) \/ ExecutionRaises(t)
    \/ Report(t) \/ Release(t) \/ CompleteRecord(t)

Next ==
    \/ \E t \in Tasks : Accept(t) \/ TaskStep(t) \/ ExecuteNode(t) \/ CancelRecord(t)
    \/ PollStatus \/ CancelFlow \/ DeleteNode

(* Background tasks are scheduled; requests need not come. *)
Fairness == \A t \in Tasks : WF_vars(TaskStep(t))

Spec == Init /\ [][Next]_vars /\ Fairness

-----------------------------------------------------------------------------
TypeOK ==
    /\ phase \in [Tasks -> Phases]
    /\ kind \in [Tasks -> {"run", "fetch"}]
    /\ isRunning \in BOOLEAN
    /\ isCanceled \in BOOLEAN
    /\ latest \in Tasks \cup {NoTask}
    /\ info \in [Tasks -> SUBSET Outcomes]
    /\ settled \in [Tasks -> {"none", "true", "false"}]
    /\ own \in [Tasks -> SUBSET Outcomes]
    /\ overlapped \in SUBSET Tasks
    /\ reported \in [Tasks -> {"none", "true", "false"}]
    /\ record \in [Tasks -> {"none", "open", "success", "failed", "ended", "canceled"}]
    /\ nodePresent \in BOOLEAN
    /\ found \in SUBSET Tasks

(* When no task is underway the flow is not marked as running, so it can be    *)
(* run and edited again; the only exception is a fetch of a node that was      *)
(* deleted under it, which leaves is_running set for good.                    *)
FlagReleased ==
    isRunning /\ (\A t \in Tasks : ~Underway(t)) =>
        \E t \in Tasks : kind[t] = "fetch" /\ phase[t] = "raised" /\ ~nodePresent

(* The row of a run that met no other task tells what happened to its own      *)
(* nodes: success only if each of them succeeded, failed only if one did not,  *)
(* and never an end without a verdict, whoever polled the status, canceled the  *)
(* flow or fetched a node in between.                                         *)
RecordTellsOwnRun ==
    \A t \in Tasks \ overlapped :
        /\ record[t] = "success" => own[t] \subseteq {"ok"}
        /\ record[t] = "failed" => "bad" \in own[t]
        /\ record[t] # "ended"

(* Every accepted task comes to an end, refused or not. *)
TasksEnd == \A t \in Tasks : phase[t] = "queued" ~> phase[t] \in Over

(* "Raises: Exception: If the flow is already running" (run_graph): two tasks   *)
(* never execute the flow at the same time.                                  *)
OneRunAtATime == \A t, u \in Tasks : phase[t] = "executing" /\ phase[u] = "executing" => t = u

(* "Update the record AFTER execution with results" (_run_and_track): a record  *)
(* is not left active once its task's execution is over, if the database works. *)
RecordsAreClosed == \A t \in Tasks : record[t] = "open" => phase[t] # "raised"

(* "marking the database record as failed" (cancel_run): a run that was         *)
(* cancelled in the catalog does not become a success.                        *)
CanceledStaysFailed ==
    [][\A t \in Tasks : record[t] = "canceled" => record'[t] # "success"]_vars
=============================================================================
