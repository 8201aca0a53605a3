# Flowfile: a TLA+ model of flow execution

Flowfile is a visual ETL tool: a flow is a graph of nodes that read, transform
and write tables. `flowfile_core` (FastAPI) keeps the open flows and executes
them, `flowfile_worker` does the heavy work in child processes, a scheduler and
kernel containers start from the core. This project models how the core keeps
and executes a flow, how it uses the worker and the kernels, and what launches
flows; every path below is relative to
`src/flowfile_core/flowfile_core/` unless it starts with `src/`.

## Inventory

| Component | State it keeps | Operations | Hard behaviour | What makes it correct |
|---|---|---|---|---|
| Execution plan (`flowfile/util/execution_orderer.py`, `node_skipper.py`) | none; a function of the graph | `determine_nodes_to_skip`, `compute_execution_plan` | inconsistent graphs: stale leads, deleted start nodes, cycles | a node comes after all its inputs, in the earliest stage; the sort ends; it refuses a flow only for a cycle |
| Flow run (`flowfile/flow_graph.py`: `run_graph`, `_execute_stages`, callbacks) | results, skip sets, `is_running`, `is_canceled`, run information, armed callbacks | start, stage, node, end, cancel, poll | a thread pool per stage, failures that extend the skip set, cancels and exceptions anywhere | no node runs on failed or missing inputs; offsets are committed only for complete work; `is_running` is released |
| Run and fetch tasks (`routes/routes.py`, `catalog/services/runs.py`, `run_lock.py`) | queued tasks, the shared flags, the `flow_runs` row | run, fetch, cancel, poll, delete node, cancel a record | check-then-set across threads, requests between any two steps | one execution at a time, a record that tells what happened |
| Node data and locks (`flowfile/flow_node/flow_node.py`) | results and a re-entrant lock per node | `get_resulting_data` | nested locks, errors while locks are held | evaluated once, no deadlock |
| Flow wiring (`flow_graph.py`, `flow_node.py`, `flow_node/models.py`) | `main_inputs`, `left_input`, `right_input`, `leads_to_nodes` | add, connect, disconnect, delete, save settings | two views of each connection; operations that raise half way | no cycles; both views agree |
| Node executor (`flowfile/flow_node/executor.py`, `state.py`, `flow_node.py`) | per-node execution state, frames, the worker's files by hash | decide, execute, mark, retry | stale caches, a retry that clears its inputs' results, errors that are swallowed | what is skipped or taken from a cache belongs to the present settings; a run makes up for what was lost |
| Worker (`src/flowfile_worker/flowfile_worker/`) and its client (`subprocess_operations.py`) | task status, processes, files | submit (web socket, REST), poll, cancel | fall back to REST while the first attempt runs, lost answers, dead children | a fetcher returns, with data only if a child computed it |
| Scheduler (`src/flowfile_scheduler/flowfile_scheduler/engine.py`) and the launches of the catalog (`catalog/services/`) | lock row with heartbeat, schedules with their marks, run rows, processes | tick, launch, push, run now, cancel, take over | two schedulers, crash between row and process, stamps of one second | an update of a table is noticed and launches once; active rows are real |
| Kernels (`kernel/manager.py`, `src/kernel_runtime/`) | registry of kernels, containers, the cell that executes | create, start, stop, delete, execute, interrupt, cancel, restore | state changed around awaits and threads without a lock; containers that die | a kernel is busy only while somebody is at it; its record is true; requests end |
| Artifacts (`flowfile/artifacts.py`, `src/kernel_runtime/kernel_runtime/artifact_store.py`) | the core's record per node and kernel, the kernel's store | prepare a run, call, record; publish, read, delete, clear, recover | two records of one thing; which publishers must run again | a script finds what it needs; the core's record is true |
| History (`flowfile/history_manager.py`, `ai/diff.py`) | undo and redo stacks, restoring flag, `track_history` | capture, record, undo, redo, clear, apply a diff | bounds, duplicates, a restore that fails or overlaps a request | undo after an edit restores the flow before it; recording is not left off |
| Catalog, sharing, secrets, project sync | database rows | single requests | database errors | |
| Data engine, connectors, code generator, FlowFrame, front ends, AI agents, build tools | - | data, text or user interface | | |

How they interact: a route validates a request and queues a background task;
the task creates the run record, calls `run_graph` and completes the record.
`run_graph` reads the wiring, computes a plan, and executes its stages one
after another; the nodes of a stage run on a thread pool, where the executor
asks a node for its data. That call locks the node and its inputs and may
compute the inputs. Heavy steps go to the worker. All this while, requests may
poll the status, cancel, and - when `is_running` is not set - edit the flow.

`PROJECT.json` lists the hazards, each at its line with the properties that
cover it, or the reason why none does yet.

## Modules and the code

| Module | Models | State and actions |
|---|---|---|
| `FlowPlan` | the pure part of planning | The graph is a record of the wiring that planning reads: nodes, `leads` (`leads_to_nodes`), `start`, `wired` (`is_correct`). `NodesToSkip`, `AdjacencyList`, `InDegree`, `InitQueue` are the functions of the same names. `IsStaging` states the sort's result without a loop. |
| `PlanSort` | `determine_execution_order` | The loop of the level sort, one queue entry per `ProcessNode`, `NextStage` at the end of a queue pass, `Finish` for the comparison that raises or accepts. |
| `Dataflow` | abstract: what a run promises | A run starts; each node starts at most once, when everything before it has succeeded, and settles; a node may be refused. |
| `FlowRun` | one flow and its runs one after another | `results`, the two skip sets, `is_running`, `is_canceled`, node statuses, armed callbacks, the run information. `Claim` and `ResetCancel` are separate steps, because a cancel may come between; `BeginStage`, `StartNode`, `FinishNode`, `NodeRaises`, `EndStage`, `FireCallback`, `Close` follow the code in order. The plan is `FlowPlan`'s. |
| `RunTasks` | two (or more) background tasks of one flow | A task is accepted, writes its record, passes the `is_running` check (`FoundIdle`), sets the flags (`Claim`), executes, reports (`get_run_info`), clears the flag again (`Release`, the outer `finally`) and completes its record. `PollStatus`, `CancelFlow`, `CancelRecord`, `DeleteNode` come from other requests. |
| `NodeLocks` | the thread pool of one stage in `get_resulting_data` | A thread's stack of calls; the locks it holds follow from the stack. Locks are `RLock`s, so a thread never waits for itself. |
| `NodeExecution` | the executor, with the runs and fetches that call it | For each node `has_run_with_current_setup`, the frame it keeps, its error, both cancel flags, the recorded version of its source; the worker's files by hash. A thread's stack holds its calls of `execute`, whose steps are decide, prepare, compute, wait for the worker, mark, or fail and retry. |
| `FlowWiring` | editing a flow | `main`, `right`, `left` inputs as a sequence and optional nodes, and `leads`; `AddNode`, `Connect`, `SaveSettings`, `DeleteConnection`, `DeleteNode`, and the delete that raises half way. The lists hold objects, edits look entries up by `IdOf`: an id may be given again. |
| `WorkerTask` | one task between a fetcher of the core and the worker | The fetcher with its receive and poll threads, the web socket and REST requests, the worker's event loop, `handle_task`, the child process with its queue, `status_dict`, `process_manager`, the file. Messages are lost, children die, cancels come at any time. |
| `Triggers` | scheduler instances and requests on one database | Schedules, tables with their stamps, run rows, the lock row, sessions with what they have not committed, processes. A poll goes over its schedules one by one; pushes, runs and cancels come from requests. |
| `Kernels` | the kernel manager's requests | The registry, kernel objects (a request may hold one that was removed), containers by name, the cell in the runtime, one program counter per request. A step ends where the code awaits, calls Docker or crosses threads. |
| `Artifacts` | one flow's objects in the store of one kernel, run after run | The core's record (`published`, `deleted`, `available`, `kernelMap`, `publishers`, `origins`), the kernel's `store`, and per node where its execution is. `StartRun` includes `_prepare_rerun_artifacts`; `CallKernel`, `CallFails`, `BeginScript`, `ScriptStep`, `EndScript`, `RecordPublished`, `RecordDeleted`, `FinishNode` follow a script; edits, fetches, failures, cancels and kernel restarts come in between. |
| `UndoTimeline` | abstract: what undo promises | The contents a user went through, as a line with a position: edit, undo, redo, clear. |
| `History` | the history of one flow under overlapping requests | `undo` and `redo`, `restoring`, `track_history`, the unsaved flag, and per request what it read. A request is an edit (with the three ways to record it), a diff that rolls back, an undo, a redo, a save or a clear. `FailsToRead` are the readings of the flow that fail. |

`MCx` modules give the constants of module `x` values for TLC; `xProofs`
modules hold the theorems about `x`. `PlanSortProofs` also holds those of
`FlowWiring`, whose leads the sort walks, and `RunTasksProofs` those of `WorkerTask`.

How they compose: `FlowRun` takes its plan from `FlowPlan` and implements
`Dataflow`; `History` implements `UndoTimeline`. `RunTasks` is the environment of
a `FlowRun` with the run itself reduced to the outcomes of its nodes;
`NodeExecution` is what `FlowRun` calls the execution of a node, and takes
`get_resulting_data` as one step, whose locks are the subject of `NodeLocks`, and
the exchange with the worker as one answer, which is the subject of
`WorkerTask`. `Triggers` starts the processes in which `RunTasks` happens, and
`Kernels` executes the python nodes, whose objects are the subject of `Artifacts`;
there the stages, skips and decisions of `FlowRun` and `NodeExecution` are reduced
to what the artifacts depend on, and a call of the kernel succeeds or fails.

Modelling decisions worth knowing:

* In `FlowRun` a node's work is its outcome: success, failure (reported) or an
  exception. Data, schemas and logging are left out everywhere; where data comes
  from is followed in `NodeExecution` only.
* In `FlowRun` and `NodeExecution` the wiring does not change during a run:
  editing routes refuse while `is_running`. How two runs come to overlap in
  spite of it is the subject of `RunTasks`, so the results hold for a run alone.
* `Artifacts`: a script is a sequence of operations on artifacts; a restarted kernel
  finds any part of them again, because persistence may be off, cleared, late or
  whole. Edits leave alone what scripts do with artifacts.
* History variables (`evals`, `own`, `overlapped`, `unread`, `doubled`,
  `broken`, `trouble`, `marred` and the sets named so in the modules) record what happened and influence no guard.
* `RunTasks` keeps the set of outcomes of a run information, not the node
  results: success is decided by that set alone.
* `NodeLocks` begins when the stage's nodes have been cleared by
  `execute_node`, with any set of other results missing (`Computed`).
* `NodeExecution` writes a frame as the settings it was built from and a content
  as the settings and the source versions it was computed from, so that "the
  right data" can be said. A hash is the record of the settings above a node:
  collisions are left out. A node accepts an empty frame, as a sample, a union
  or an output does; one that needs a column would fail in the worker instead.
  Files are lost between runs only.
* `Triggers`: a session writes at its first flush and holds SQLite's write lock
  from there to its commit, so that the check for an active run and the insert
  of the row are one step for table triggers, where the mark was set before the
  query flushes it, and two for all others. Stamps have the resolution of one
  second. Schedules are not created, changed or deleted on the way.
* `WorkerTask`: requests are served in order by one event loop, which `ws_submit`
  blocks while it joins a child. What `validate_result` makes of an incomplete
  file is open.
* `History`: a content is a value; two snapshots are equal when the contents are.
* `FlowWiring`: `NodeIds` are the `FlowNode` objects, `IdOf` their ids. The walk of
  `_would_create_cycle` marks ids, so it may expand one of two objects with one id;
  which of them depends on the order of its stack, which is left open (`Walks`).
* `Kernels`: a write to the database may fail; the request goes on (`Store`).

## Runs

| Run | Question | Bounds | Result |
|---|---|---|---|
| `plan_sort` | Does the level sort place every node once, after its inputs and in the earliest stage, accept every correct acyclic flow, and end? | all wirings of 4 nodes, all start lists and badly wired sets | holds |
| `flow_run` | Does a run keep its promise (`Dataflow`), commit offsets only for complete work, report success only for complete runs, and end? | 36 flows of up to 4 nodes, workers 1 and 2, two runs, a cancel anywhere | holds |
| `run_tasks` | Is the running flag released, does a record tell its own run, do tasks end? | two tasks, each run or fetch; outcomes ok and bad | holds |
| `node_locks` | Is each function evaluated once, can threads block each other for good in any other way than by crossed inputs, and does a stage in which they do not end? | a stage of 3 nodes, 2 workers; two joins take the same inputs in opposite order, the inputs lost their results | holds |
| `node_execution` | Is what is skipped or cached current, does a run make up for what went wrong before it, does it end? | chains and forks of 3 nodes, one diamond of 4, wide or narrow, cached or not, over web sockets or REST; two runs; two or three edits, losses, failures, cancels, fetches, changes of the source | holds |
| `silent_failure` | Is a node whose evaluation failed reported? | one run, one failure over a web socket, no process killed | violated |
| `flow_wiring` | Do the two views of a connection agree, and is there no cycle? | a filter, a join, a union and a filter with the id of the first, all edits; at most 4 leads together | holds |
| `triggers` | Are updates noticed and launched once, are active rows real, does one instance tick? | two schedules, two tables, two actors of scheduler and request (three in one catalog), one disturbance, one more second | holds |
| `worker_task` | Is data what a child computed, whole, and does every fetcher return? | one fetcher with up to two disturbances, two in turn with the same file | holds |
| `history` | Does undo give back what was there, is recording left on, is there one timeline? | two contents, two requests at a time, failing readings, stacks of two | holds |
| `artifacts` | Does a script find its artifacts, and does the core know what the kernel holds, whatever runs again? | six flows of 4 nodes and 2 artifacts; up to four runs, two edits, a failure, and a cancel or a restart; two workers in three runs | holds |
| `kernels` | Is a busy kernel worked on, is its record true, do requests end? | up to three requests, two kernels, two ports, up to two disturbances | holds |

No run lists a type invariant: those of all state machines except `NodeExecution`
are proved. `INVARIANT TypeOK` in a configuration in place of its properties makes
TLC check it (a minute, no error); in `FlowWiring` it is called `WiringTypeOK`, in
`WorkerTask` `WorkerTypeOK`.

Why the bounds are enough. The plan depends on local facts (an edge, an
in-degree, reachability), and four nodes allow a diamond, a chain of three
edges, two components and a cycle with an entry; the theorems below cover all
sizes. Two runs are what it takes for one run to leave something to the next;
the same holds for the two fetchers of `WorkerTask`, which share a file
reference. Two tasks are what it takes to race, and `RunTasks` mentions no third
party that would depend on another. A stage of three on a pool of two has a
waiting thread, a holder, and one not yet submitted. In `NodeExecution` a chain
source - transform - output has each kind of execution with a kind above and
below it, and a fork has two nodes that share an input in one stage; the diamond has two
that retry one cached input. In
`FlowWiring` a node of each port kind (one input, two inputs, many inputs) is
present, and `MaxLeads` allows a lead to be listed twice beside others and cycles of
three nodes. An id is given a second time; the two filters that have it can change
places, which the symmetry set of the run uses. The
schedules of a catalog meet through a flow or a session, so two of them, of any
two kinds, show what one does to the other; a stack of two in `History` drops
its oldest entry on the third edit; three kernel requests are an execution, one
that takes the kernel away and one that brings it back. In `Artifacts` two
artifacts give a publisher one that is deleted and one that is not, or a chain of
two publishers; four runs let a deletion be made up for, an edit choose what
runs again, and a failure be followed by a whole run.

`CHECK_DEADLOCK FALSE` is set where the system may stop: when all tasks,
fetchers or requests have ended, when the bounded seconds of `Triggers` are over, when
nothing more may happen in `Artifacts`, in `NodeLocks`, where crossed inputs may block
the stage, and in `FlowWiring`, where a full leads list can leave nothing to do.

## Fairness

* `PlanSort`: weak fairness of the loop's step - it is sequential code.
* `FlowRun`: weak fairness of `RunStep` - a run's thread goes on; node functions
  return or raise. Cancels and polls are not fair: they need not come.
* `RunTasks`: weak fairness of each task's steps. `ExecuteNode` is not part of
  it, so an execution may go on for any number of nodes, but it ends.
* `NodeLocks`: weak fairness of each pool thread's steps and of its submission.
  A node function that never returns is outside the model. Nothing stronger is
  assumed of the locks: a thread cannot be passed over for ever, because every
  other thread of the stage needs a lock finitely often.
* `NodeExecution`: weak fairness of `RunStep`, the threads of a run and its loop
  over the stages. It includes that a fetcher returns; `EveryFetchReturns` of
  `WorkerTask` says when it does, and which three cases are left out.
* `WorkerTask`: weak fairness of each child, handler and fetcher and of a cancel
  that has begun. Failures are not fair. `EveryFetchReturns` leaves out a frozen
  event loop, a child whose error was missed, and a fetcher whose task another
  one's cancel hit; TLC shows each of the three to be needed.
* `Triggers`: strong fairness of the next step of each process that has been
  started (sessions wait for SQLite's lock, which others take and release) and
  of the completion of a child; weak fairness of the ageing of a dead holder's
  heartbeat. Updates and faults are not fair. `UpdatesNoticed` leaves out flows
  that an orphaned row keeps active.
* `Kernels`: weak fairness of each request's own steps - an await of Docker or of
  the runtime returns or times out. None for containers and users.
* `Artifacts`, `FlowWiring` and `History` state safety only.

## What is proved

With TLAPS, for every finite graph and every value of the constants.

* `PlanSortProofs`: type correctness, `StageOrder`, `InDegreeCounts`,
  `StagesAreLevels` and `CorrectFlowIsPlanned`. The inductive invariant is the
  conjunction of the types, `PlaceInv` (what has been placed and when),
  `InDegreeCounts`, `VisitInv` (the queue holds placed nodes not yet visited) and
  `LevelInv` (a placed node is in the stage after its last input). The order of
  stages alone is not inductive: that a node with in-degree zero has all inputs
  placed needs the count. The count is a cardinality, so the proof works with the
  theorems on finite sets. When the sort raises, each node it has not placed has an
  input it has not placed either; a finite set whose members all feed it has a
  cycle, so a correct acyclic flow is planned. This rests on `StartsAssumption`: a
  start list holds every node without inputs (`flow_graph.py:1627` and `:4878` keep
  it so).
* `PlanSortProofs` also proves of `FlowWiring`, for any nodes, type correctness,
  `LeadsAcyclic` and `InputsHaveLeads`. A new edge closes no cycle because `Connect`
  refuses a source that is the target or lies downstream of it, and `SaveSettings`
  adds no edge because what it writes back as an input is led already. A leads list
  may name a node twice, so the invariant (`Wires`) counts the entries against the
  uses as input (`UsesHaveLeads`). Edits compare ids; as long as no id came back
  while its old object was connected (`doubled`), two connected objects have two
  ids, and to compare ids is to compare objects. After that both properties are
  false (`WiringGaps.cfg`), and they say so. The two theorems have the hypothesis that no
  connection is made to the port "left" (`"left" \notin Ports`): the editor offers
  `input-0` and `input-1` only, and with a left port both are false, because
  `delete_input_node` compares with the right input there.
* `FlowRunProofs`: type correctness, the safety properties of the run, and `Spec =>
  Dataflow!Spec`. The inductive invariant `IInv` relates the current stage, the skip
  sets and the results: what is in an earlier stage has a result or is skipped, a
  failure's dependents are in the skip set when the stage ends, an armed callback
  belongs to a node of this run.
* `RunTasksProofs`: type correctness, `FlagReleased` and `RecordTellsOwnRun` for any
  number of tasks. A record is true only if the run information it is computed from
  is the run's own, so the invariant follows the information: a task that met no
  other while it ran created the latest information (`LatestIsOwn`), which holds its
  own outcomes (`InfoIsOwn`) and is not settled before the run has cleared its flag
  (`FlagIsOwn`); what it was told (`ReportIsOwn`) and what its record says
  (`RecordsAreLast`) follow. `MeetingsKnown` and `NoTraceBefore` say that a task
  knows whom it met and leaves no trace before it begins, `MissedIsGone` that a
  fetch that found no node is one of a deleted node - the one exception in
  `FlagReleased`.
* `RunTasksProofs` also proves of `WorkerTask`, for any number of fetchers,
  disturbances and transports, type correctness, `DataIsEarned`, `WholeFile` and
  `LiveChildrenAreManaged`. The invariant (`Answers`) says that without an overlap
  one handler at most is busy (`Lone`), that a live child belongs to a handler that
  is not done with it (`ChildPlaces`), that fetchers take turns (`OneTurn`), that no
  message and no entry of `status_dict` carries a result no child has written, that
  the attempt a fetcher waits for is alone (`Sole`), and that what came before an
  answer writes no more (`Settled`). The proof did not go through with an earlier
  `DataIsEarned`, in which only the fetcher's own children could earn its data:
  after an overlap the shared file may be the work of another fetcher's child, which
  needs one more fetch than the run's setups had. The property now says so, and a
  setup with that case has been added.
* `NodeLocksProofs`: type correctness, `EvaluatedOnce` and `DeadlocksAreCrossed` for
  every wiring, stage and pool. The invariant is about the call stacks: each call is
  made for the next input of its caller (`Chains`), a lock has one holder
  (`Exclusive`), a node on a stack is not settled (`Open`). If the nodes of some
  threads and all they depend on can be brought into one order, calls rank below
  their callers and below the locks those hold, so of threads that wait for each
  other the one that waits for the least lock would wait for a thread that waits for
  a lesser one. The code gives the locks no such order: `LockCross.cfg` shows
  the deadlock it permits, the theorem that there is no other, and `node_locks` that
  a stage without one ends.
* `TriggersProofs`: type correctness (with `JobFits`: a session works on a schedule
  and a row that exist), `ActiveRunsAreReal`, `TableTriggerLaunchesAlone`,
  `OneTickPerLock` and `MarksAreCovered`, for any schedules, instances and requests.
  Each has an invariant of its own. A launch is alone because the session that found
  no active run holds the write lock until its row is stored (`Guarded`) and rows of
  others carry an earlier stamp (`Stamped`). One instance ticks because a holder's
  row is there (`Present`) until it has gone stale (`Settled`). A mark is covered
  because what a session has seen lies in the past of the table (`SeenInPast`), and
  what is stored was put there by a poll (`MarkedBy`) or a push (`PushedBy`) that
  launched, or was lost in one of two named ways.
* `HistoryProofs`: type correctness with both stacks within their limit,
  `QuietFlowRecords`, `UndoGivesBack` and the refinement of `UndoTimeline`
  (`OneTimeline`), for any contents, number of requests and limit. The invariant
  says of each request under way what it read and what it will put back; the
  recording flag can be off with nobody at work only if requests overlapped. For the
  refinement, the flow lies between the undo stack and the reversed redo stack on
  one line, as long as requests do not overlap and no reading of the flow fails; an undo or redo moves along it,
  because it takes an entry from one stack before it puts one on the other, so that
  no entry is dropped there.
* `KernelsProofs`: type correctness, `BusyHasWorker`, `CreatedStays` and
  `QuietRecordIsTrue` for any kernels, requests and ports. Besides the types
  (`Typed`, with where each request can be for its kind, `Placed`) the invariant
  says which object a request at work owns (`Owned`), and that for every state
  "starting" and "executing" there is a request whose remaining steps set it again.
  For the last property it says of each kernel that is not marred what the requests
  on it are: one that is no execution is alone; executions share the kernel, and
  while they do the container is the recorded one, or one of them has still to find
  it gone. The proof showed a case that takes five requests: an execution posts to a
  port that the container of another kernel has taken, and what it learns is not
  about its own. `marred` records the troubles the property leaves out: requests that
  overlap, failures of Docker and of the database, containers not listed or not
  removed at a restart, a cancel that hides a failure, and this mix-up of ports. `ReclaimAssumption` names the only requests that reclaim containers.
* `ArtifactsProofs`: type correctness, `MapTellsStore`, `ScriptsFindArtifacts` and
  `AvailableTellsStore` for any flows, scripts, stages and number of workers,
  however often they run, are edited, fail or are canceled. What executes at one
  time is of one stage (`OneStage`) and does not count as run (`BusyIsStale`), so no
  script takes away what another one at work publishes. The invariant follows each
  difference between record and store to the execution that is still to record it: a
  script to the listing it began with (`ScriptDiffers`), an answer to what it gained
  and lost (`GainedIsHeld`, `LostIsGone`), a publication to the map (`OwnIsShown`).
  `MapTellsStore` alone is not inductive: while scripts are at work, the map shows
  what one of them has already deleted (`Took`). The other two rest on which nodes
  run again: what a node that counts as run has published is held and on record, or
  is being taken by a script at work, or is named in `_deletion_origins`, through
  which the next run clears its publisher. The nodes a run clears are closed under
  this because the loop that collects them reaches its fixpoint, as every growing
  chain of subsets of a finite set does. The properties themselves name what they
  leave out: flows that do not work on an empty kernel (`WorksOnce`), publishers that
  may run again and read what others delete or are cached (`Remakable`), and what
  `marred` records; `ArtifactGaps.cfg` shows what happens there. That scripts are
  shown all that they read needs nothing of the ids; that what is shown is in the
  store is said of nodes above which ids ascend along the wiring (`Ascending`).

Assumptions: those named in the modules (finite sets of nodes, the graphs' types, at
least one worker, stages without a path inside, complete start lists, who reclaims
containers), and one hypothesis of `LeadsStayAcyclic` and `InputsStayLed`, that no
port "left" is offered in `FlowWiring`, which the code keeps by the handles it has.
No other theorem has a hypothesis. Where a property holds only under a condition the
code does not establish (`WorksOnce`, `Remakable`, `Ascending`, no overlap, no id
given again too early, no failed reading), the condition is part of the property and
its comment, and a finding or an observation below shows what is lost without it.

Induction over paths and chains is done on sets: the least counterexample in a
well-founded order, or the fixpoint of a growing finite set.

Only model-checked: liveness (`SortEnds`, `RunEnds`, `TasksEnd`, `StageEnds`,
`EveryRunEnds`, `UpdatesNoticed`, `EveryFetchReturns`, `RequestsEnd`), because the
prover handles neither fairness nor ENABLED; and all of `NodeExecution`
(`CacheMatchesSettings`, `EditsReachOutput`, `RunRecovers`), whose frames are nested
without a bound and evaluated by recursive operators, which the prover cannot reason
about.

## Findings

* `silent_failure`. Over the web socket every error of the worker gets the code -1
  (`subprocess_operations.py:957`), which REST keeps for a killed process.
  `_do_execute_remote` (`flow_node.py:1251-1259`) takes -1 for "memory
  constraints", keeps the lazy plan and raises nothing: the node is reported as
  successful and its dependents run, though no process was killed and
  `flow_graph.py:5261` says that failed nodes cause their dependents to be skipped.

## Observations

Configurations that are no part of the runs above. Each states what one might
expect of the code and TLC shows how it fails. To see one, run for example
`tlc -config PlanGaps.cfg MCPlanSort`; where a file lists several properties, TLC
stops at the first that fails, and `-continue` shows the others.

| Configuration | Module | What happens |
|---|---|---|
| `PlanGaps.cfg` | `MCPlanSort` | an acyclic flow is refused with "Cycle detected" when a node is not reached from the list of start nodes (`RaisesOnlyOnCycle`); only the direct successors of a badly wired node are left out, nodes further down are planned (`DownstreamOfIncorrectSkipped`) |
| `LockCross.cfg` | `MCNodeLocks` | two joins of one stage that take the same inputs in opposite order wait for each other for ever (`NoDeadlock`): `get_resulting_data` (`flow_node.py:877-884`), which its docstring calls thread-safe (`:849`), takes the locks of the inputs in the order of the node's list and keeps them |
| `RunGaps.cfg` | `MCRunTasks` | two runs of a flow overlap (`OneRunAtATime`); a `run_graph` that raises leaves its record open (`RecordsAreClosed`); a completion overwrites the cancel in the catalog (`CanceledStaysFailed`) |
| `WiringGaps.cfg` | `MCFlowWiring` | a deleted node stays the right input of a join (`InputsArePresent`). A join is connected twice to a filter's input, the filter is deleted - one lead to it stays - and another gets its id: `_would_create_cycle` marks the id at the old object (`flow_graph.py:5797`), does not look at the new one, and accepts a connection that closes a cycle (`NoCycle`), though its docstring (`:5782`) says it finds all. A filter that was deleted stays the right input of a join and its id comes back as the main input; to delete the right connection removes the lead of the main one (`EveryInputLed`, `flow_node.py:1439`) |
| `TriggerGaps.cfg` | `MCTriggers` | two active rows for one flow, because check and insert are two steps for all but table triggers (`OneActiveRun`); the mark of an update is stored by the commit of another launch, and the launch it stands for fails (`MarkMeansLaunched`) |
| `WorkerErrorCode.cfg` | `MCWorkerTask` | a live child's error is reported as -1 over the web socket, 1 over REST (`api_runner.py:184`) |
| `HistorySaved.cfg` | `MCHistory` | an undo after a save leaves the flow marked as saved |
| `KernelGaps.cfg` | `MCKernels` | two kernels get one port (`PortsUnique`, `docs/for-developers/kernel-architecture.md:60`, `manager.py:1259`); an execution on a stopped kernel fails where another start is under way (`StartsOnDemand`); a timed-out cell goes on (`TimedOutEnds`); an exited container keeps its name, so a kernel marked as down cannot be started again (`DownCanRestart`) |
| `ExecLostFiles.cfg` | `MCNodeExecution` | when the worker's files are lost, over web sockets the retry of the inputs is swallowed and every later run fails |
| `ExecSiblings.cfg` | `MCNodeExecution` | two dependents retry the same lost input, and the clear of one removes the file the other reads |
| `ExecStale.cfg` | `MCNodeExecution` | a changed source is read again under its old hash, and dependents that are wide or cached are skipped with the old data |
| `ExecHollow.cfg` | `MCNodeExecution` | a fetch on a failed input computes from an empty frame; a later run skips the node and writes that, and reports success |
| `ArtifactGaps.cfg` | `MCArtifacts` | a script fails after it has deleted an artifact; the deletion is not recorded, so its publisher is skipped by every later run and the script fails in each (`RunsRepeat`) |

`ArtifactGaps.cfg` with other `Setups` shows more ways to the same end: a node that
has deleted something is fetched (`FetchedDeleter`), two scripts of a stage delete
at the same time and one is credited with both deletions (`DeletedTogether`), the
kernel is restarted without what skipped nodes had published (`Restarted`), a
publisher that is made to run again reads what another node has deleted
(`ReadAndRemake`), or is cached and skips (`CachedMaker`). With `BackwardsOnce` the ids
of the nodes do not follow the wiring, and a script is shown an artifact that a later
upstream node has deleted (`AvailableFollowsFlow`), because `compute_available` takes
the order of ids (`artifacts.py:201`) for a topological one (`:189`).

Met while modelling, without a configuration:

* Wiring: to connect over a main input that exists keeps the lead of the old
  one; the output handle of a connection is kept per source node
  (`flow_node.py:685`), so a second connection from one source overwrites it; the branch for the left port in `delete_input_node` compares with the
  right input.
* Executor: a cancel over the web socket marks the node as run; nodes not yet
  started run in spite of a cancel; a cancel that is still walking the nodes
  hits those of the next run, and its flag on a skipped node fails the node's
  dependents. The source's modification time is read after the source.
  `docs/for-developers/flowfile-core.md:483-491` lists the decisions in another
  order than the code takes them.
* Worker: `ws_submit` joins a child on the event loop. A completed task is marked
  "Unknown Error" when the client has gone; a child that fails and exits between
  two looks leaves "Processing" for ever. A late cancel hits the next attempt
  with the same reference, and its poller waits for a status that does not come.
  A fetch that blocks runs the task a second time after a genuine error. A
  cancel before the child is spawned answers 404 and is lost.
* History: a failing restore loses the entry it popped; a diff that fails after its
  snapshot was not captured takes back the edit before it; overlapping diffs, or a
  diff and `add_node`, can leave `track_history` off; an undo that ends clears the
  restoring flag of another; a restore replaces the flow settings, the path
  among them; a capture inside a capture is recorded twice; a capture that is a
  duplicate does not clear the redo stack, although a comment says so.
* Kernels: to start a kernel that is starting or executing meets the name of its
  own container, and the clean-up removes it; a delete while a kernel starts
  leaves the container; a stop during a start can leave "idle" without one; the
  cancel of a node can interrupt the cell of another.
* Triggers: an interval or a table mark is used up by a launch whose process
  could not be spawned, while a cron mark is not.

## Plan

Done, in this order: the plan and the run (`FlowPlan`, `PlanSort`, `Dataflow`,
`FlowRun`), what surrounds a run (`RunTasks`, `NodeLocks`), editing (`FlowWiring`),
what starts runs (`Triggers`), the worker (`WorkerTask`), undo (`UndoTimeline`,
`History`), kernels (`Kernels`), the executor (`NodeExecution`), artifacts (`Artifacts`).

Next, by weight: performance mode and local execution in `NodeExecution`;
schedules that are edited while `Triggers` runs; the reconciliation of kernels with
Docker at start-up.

## Not modelled

* Kafka consumption, parameter resolution, the flow handler's registry, project
  sync and templates: sequential code on dictionaries and files.
* AI agents and tools: the diff's use of the history is in `History`; prompts,
  providers and tools are text and calls of external services.
* Authentication, sharing, secrets: single requests on database rows.
* Data engine and connectors, code generator, FlowFrame, front ends, schemas:
  what they do is data, text or user interface. They make up most of the
  repository's 135 thousand lines, which is why the modules cover a small share
  of it: the code with state, order and failure is a few files.
* Inside what is modelled: in `Triggers` the creation, change and removal of
  schedules; in `WorkerTask` `clear_task`, the fetchers for external sources and
  the routes that answer without a child; in `History` flows whose history is
  turned off, `track_history` toggled by a user, and colliding hashes; in `Kernels`
  `update_kernel`, `reconcile_configs_from_db`, Docker-in-Docker networks, image
  pulls, and the routes for completion and display; in
  `Artifacts` several kernels, custom kernel nodes (which share the call, but are not
  among the nodes `_prepare_rerun_artifacts` looks at), interactive cells, nodes that are removed, global
  artifacts and models, and failing persistence; in
  `NodeExecution` performance mode, local execution, `${}` parameters, kernel and
  database nodes, the number of records, and files lost in the middle of a run.
