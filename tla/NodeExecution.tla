---------------------------- MODULE NodeExecution ----------------------------
(***************************************************************************)
(* The executions of a flow's nodes in Development mode with a worker: for    *)
(* each node the executor decides whether it runs, clears its results,        *)
(* computes a lazy frame from its inputs, has the worker evaluate it into the  *)
(* file named by the node's hash, marks the node as run, and on a missing file *)
(* executes the inputs anew.  Around that, runs stage by stage, fetches of one *)
(* node, cancels, edits of settings, changes of the source file and the loss   *)
(* of the worker's files.                                                     *)
(* What is followed is where data comes from: a frame names the settings it    *)
(* was built with, a content the settings and source versions it was computed  *)
(* from.  The locks of get_resulting_data are the subject of NodeLocks, the    *)
(* exchange with the worker that of WorkerTask, plans and skip sets that of    *)
(* FlowRun.                                                                  *)
(* Source: flowfile/flow_node/executor.py, state.py, flow_node.py,            *)
(* flowfile/flow_graph.py, subprocess_operations.py.                          *)
(***************************************************************************)
EXTENDS Naturals, Sequences, FiniteSets, SequencesExt

CONSTANT Setups      \* the flows, and the bounds on what happens to them

Kinds == {"read", "wide", "narrow", "output"}

Happenings == {"runs", "fetches", "edits", "touches", "losses", "failures", "cancels"}

ASSUME SetupsAssumption ==
    \A s \in Setups :
        /\ s.kind \in Seq(Kinds) /\ s.kind # <<>>    \* in the order of self.nodes
        /\ DOMAIN s.inputs = DOMAIN s.kind
        /\ \A n \in DOMAIN s.kind : s.inputs[n] \in Seq(1 .. n - 1)
        /\ s.stages \in Seq(SUBSET DOMAIN s.kind)
        /\ s.cached \subseteq DOMAIN s.kind        \* nodes with cache_results
        /\ s.workers \in Nat \ {0}         \* max_parallel_workers
        /\ s.socket \in BOOLEAN            \* the worker takes tasks over web sockets
        /\ s.kills \in BOOLEAN             \* the server may kill the process of a task
        /\ s.bounds \in [Happenings -> Nat]

VARIABLES
    setup,
    version,    \* version[n]: the settings of n
    disk,       \* version of the source file
    file,       \* the worker's files, by hash: their content
    written,    \* written[n]: the content output node n wrote last
    hasRun,     \* has_run_with_current_setup
    result,     \* results.resulting_data: a frame
    error,      \* results.errors is not None
    flagged,    \* is_canceled of the node's execution state
    shown,      \* is_canceled of its node_stats
    seen,       \* source_file_info of read nodes: the version it describes, 0 if None
    running,    \* flow_settings.is_running, with what runs
    canceled,   \* flow_settings.is_canceled
    stage,      \* the stage being executed
    pending,    \* nodes of the stage submitted and not started
    stack,      \* stack[n]: the executions of n's thread, innermost last
    outcome,    \* outcome[n]: n's NodeResult.success in this run
    cancel,     \* where the cancel request is in its loop over the nodes
    left,       \* what may still happen
    broken,     \* nodes whose last evaluation in this run failed (history)
    trouble     \* a failure, a cancel or a fetch since the run before (history)

nodeState == <<hasRun, result, error, flagged, shown, seen>>
store == <<version, disk, file, written>>
runState == <<running, canceled, stage, pending, outcome>>
world == <<setup, cancel, left, broken, trouble>>
vars == <<setup, version, disk, file, written, hasRun, result, error, flagged, shown, seen,
          running, canceled, stage, pending, stack, outcome, cancel, left, broken, trouble>>

Nodes == DOMAIN setup.kind

Inputs(n) == setup.inputs[n]

InputSet(n) == {Inputs(n)[i] : i \in 1 .. Len(Inputs(n))}

Kind(n) == setup.kind[n]

(* _determine_strategy: a narrow node is computed in place and only sampled by *)
(* the worker, unless its result is cached.                                  *)
Sampled(n) == Kind(n) = "narrow" /\ n \notin setup.cached

Remote(n) == Kind(n) \in {"read", "wide", "narrow"} /\ ~Sampled(n)

Below[n \in Nodes] == {n} \cup UNION {Below[m] : m \in {k \in Nodes : k > n /\ n \in InputSet(k)}}

Descendants(n) == Below[n]

-----------------------------------------------------------------------------
(* Frames.  A hash is made of a node's settings and of its inputs' hashes, and *)
(* is also the frame that scans the file of that name.                        *)
Frame(tag, n, v, of) == [tag |-> tag, node |-> n, version |-> v, of |-> of]

NoFrame == Frame("none", 0, 0, <<>>)
EmptyFrame == Frame("empty", 0, 0, <<>>)
Missing == Frame("missing", 0, 0, <<>>)

HashOf[n \in Nodes] ==
    Frame("file", n, version[n], [i \in 1 .. Len(Inputs(n)) |-> HashOf[Inputs(n)[i]]])

(* Variant: settings of the inputs do not count. *)
HashShallow(n) ==
    [HashOf[n] EXCEPT !.of = [i \in 1 .. Len(Inputs(n)) |-> [@[i] EXCEPT !.version = 1]]]

Hash(n) == HashOf[n]

(* results_exists: the task is known as completed and its file is valid.      *)
ResultsExist(n) == Hash(n) \in DOMAIN file

Without(h) == [k \in DOMAIN file \ {h} |-> file[k]]

With(h, c) == [k \in DOMAIN file \cup {h} |-> IF k = h THEN c ELSE file[k]]

(* What a worker computes from a frame, now: contents are versions of the     *)
(* settings along the way and of the source file at its beginning.            *)
RECURSIVE Evaluated(_)
Evaluated(f) ==
    CASE f.tag = "file" -> IF f \in DOMAIN file THEN file[f] ELSE Missing
      [] f.tag = "empty" -> EmptyFrame
      [] f.tag = "plan" ->
           LET parts == [i \in 1 .. Len(f.of) |-> Evaluated(f.of[i])]
           IN  IF \E i \in 1 .. Len(parts) : parts[i] = Missing THEN Missing
               ELSE Frame("data", f.node, f.version,
                          IF parts = <<>> THEN <<Frame("source", 0, disk, <<>>)>> ELSE parts)

(* get_resulting_data: the result that is there, or a plan over those of the  *)
(* inputs, which are computed first when they have none.  What raises leaves   *)
(* an empty frame and an error behind.                                       *)
Raise(n, s) == [s EXCEPT !.result[n] = EmptyFrame, !.error[n] = TRUE, !.ok = FALSE]

RECURSIVE Computed(_, _)
Computed(n, s) ==
    IF s.result[n] # NoFrame \/ s.error[n] THEN s
    ELSE IF flagged[n] THEN Raise(n, s)
    ELSE LET t == FoldLeft(LAMBDA u, m : IF u.ok THEN Computed(m, u) ELSE u, s, Inputs(n))
             taken == [i \in 1 .. Len(Inputs(n)) |-> t.result[Inputs(n)[i]]]
         IN  IF ~t.ok \/ \E m \in InputSet(n) : t.result[m] = NoFrame THEN Raise(n, t)
             ELSE [t EXCEPT !.result[n] = Frame("plan", n, version[n], taken)]

Results == [result |-> result, error |-> error, ok |-> TRUE]

-----------------------------------------------------------------------------
(* One call of execute: its node, reset_cache, retry, where it is, the input   *)
(* to retry next, the frame it handed to the worker, and whether what it       *)
(* raised names a missing file.                                              *)
Call(n, reset) ==
    [node |-> n, reset |-> reset, retry |-> TRUE, at |-> IF reset THEN "clear" ELSE "decide",
     next |-> 1, frame |-> NoFrame, lost |-> FALSE]

Top(t) == Last(stack[t])

At(t, where) == stack[t] # <<>> /\ Top(t).at = where

Goes(t, f) == stack' = [stack EXCEPT ![t] = Append(Front(@), f)]

GoesTo(t, where) == Goes(t, [Top(t) EXCEPT !.at = where])

Raises(t, lost) == Goes(t, [Top(t) EXCEPT !.at = "raised", !.lost = lost])

(* execute returns; when it was the thread's own node, _execute_single_node    *)
(* records the outcome.                                                      *)
Returns(t) ==
    /\ stack' = [stack EXCEPT ![t] = Front(@)]
    /\ outcome' = IF Len(stack[t]) > 1 THEN outcome
                  ELSE [outcome EXCEPT ![t] = IF canceled THEN "void"
                                              ELSE IF error'[t] THEN "failed" ELSE "ok"]

Init ==
    /\ setup \in Setups
    /\ version = [n \in Nodes |-> 1]
    /\ disk = 1
    /\ file = [h \in {} |-> Missing]
    /\ written = [n \in Nodes |-> NoFrame]
    /\ hasRun = [n \in Nodes |-> FALSE]
    /\ result = [n \in Nodes |-> NoFrame]
    /\ error = [n \in Nodes |-> FALSE]
    /\ flagged = [n \in Nodes |-> FALSE]
    /\ shown = [n \in Nodes |-> FALSE]
    /\ seen = [n \in Nodes |-> 0]
    /\ running = "no"
    /\ canceled = FALSE
    /\ stage = 0
    /\ pending = {}
    /\ stack = [n \in Nodes |-> <<>>]
    /\ outcome = [n \in Nodes |-> "none"]
    /\ cancel = [node |-> 0, flags |-> FALSE]
    /\ left = setup.bounds
    /\ broken = {}
    /\ trouble = FALSE

May(what) == left[what] > 0

Uses(what) == left' = [left EXCEPT ![what] = @ - 1]

-----------------------------------------------------------------------------
(* execute.                                                                  *)

(* _clear_cache: the worker forgets the task and its file.                    *)
ClearCache(t) ==
    /\ At(t, "clear")
    /\ LET n == Top(t).node
       IN  /\ file' = Without(Hash(n))
           /\ hasRun' = [hasRun EXCEPT ![n] = FALSE]
    /\ GoesTo(t, "decide")
    /\ UNCHANGED <<version, disk, written, result, error, flagged, shown, seen, runState, world>>

SourceChanged(n) == Kind(n) = "read" /\ seen[n] \notin {0, disk}

(* _decide_execution, in Development mode. *)
Runs(f) ==
    \/ Kind(f.node) = "output" \/ f.reset
    \/ f.node \in setup.cached /\ ~ResultsExist(f.node)
    \/ f.node \notin setup.cached /\ (~hasRun[f.node] \/ SourceChanged(f.node))

Skip(t) ==
    /\ At(t, "decide")
    /\ ~Runs(Top(t))
    /\ UNCHANGED nodeState
    /\ Returns(t)
    /\ UNCHANGED <<store, running, canceled, stage, pending, world>>

(* _prepare_for_execution. *)
Prepare(t) ==
    /\ At(t, "decide")
    /\ Runs(Top(t))
    /\ LET n == Top(t).node
       IN  /\ result' = [result EXCEPT ![n] = NoFrame]
           /\ error' = [error EXCEPT ![n] = FALSE]
           /\ flagged' = [flagged EXCEPT ![n] = FALSE]
    /\ GoesTo(t, "compute")
    /\ UNCHANGED <<hasRun, shown, seen, store, runState, world>>

(* A cached node takes what another execution stored meanwhile. *)
UseCache(t) ==
    /\ At(t, "compute")
    /\ LET n == Top(t).node
       IN  /\ n \in setup.cached /\ ResultsExist(n)
           /\ result' = [result EXCEPT ![n] = Hash(n)]
    /\ GoesTo(t, "mark")
    /\ UNCHANGED <<hasRun, error, flagged, shown, seen, store, runState, world>>

(* The frame is computed and submitted; the function of an output node        *)
(* submits the frame of its input instead.                                   *)
Compute(t) ==
    /\ At(t, "compute")
    /\ LET n == Top(t).node
           s == Computed(n, Results)
       IN  /\ ~(n \in setup.cached /\ ResultsExist(n))
           /\ error' = s.error
           /\ IF s.ok /\ s.result[n] # NoFrame
              THEN /\ Goes(t, [Top(t) EXCEPT !.at = "worker", !.frame = s.result[n]])
                   /\ result' = [s.result EXCEPT ![n] =
                                    IF Kind(n) = "output" THEN NoFrame ELSE @]
              ELSE Raises(t, FALSE) /\ result' = s.result
    /\ UNCHANGED <<hasRun, flagged, shown, seen, store, runState, world>>

(* A source cannot be read. *)
SourceFails(t) ==
    /\ At(t, "compute")
    /\ Kind(Top(t).node) = "read"
    /\ May("failures") /\ Uses("failures")
    /\ LET n == Top(t).node
       IN  /\ result' = [result EXCEPT ![n] = EmptyFrame]
           /\ error' = [error EXCEPT ![n] = TRUE]
           /\ broken' = broken \cup {n}
    /\ trouble' = TRUE
    /\ Raises(t, FALSE)
    /\ UNCHANGED <<hasRun, flagged, shown, seen, store, runState, setup, cancel>>

(* The worker has evaluated the frame: the data of a remote node, the sample   *)
(* of a narrow one, or what an output node writes.                            *)
WorkerCompletes(t) ==
    /\ At(t, "worker")
    /\ LET n == Top(t).node
           c == Evaluated(Top(t).frame)
       IN  /\ c # Missing
           /\ IF Kind(n) = "output"
              THEN written' = [written EXCEPT ![n] = c] /\ UNCHANGED file
              ELSE file' = With(Hash(n), c) /\ UNCHANGED written
           /\ result' = CASE Sampled(n) -> result
                          [] Remote(n) -> [result EXCEPT ![n] = Hash(n)]
                          [] Kind(n) = "output" -> [result EXCEPT ![n] = Top(t).frame]
           /\ broken' = broken \ {n}
    /\ GoesTo(t, "mark")
    /\ UNCHANGED <<version, disk, hasRun, error, flagged, shown, seen, runState, setup, cancel, left, trouble>>

(* What a fetcher's error becomes.  For a remote node error code -1 stands for  *)
(* a killed process, and over a web socket for every error: the plan itself is *)
(* taken for the result, and nothing is raised.                               *)
Kept(n, killed) == Remote(n) /\ (setup.socket \/ killed)

FetchFails(t, killed, lost) ==
    LET n == Top(t).node
        s == Computed(n, Results)
    IN  \/ /\ Kept(n, killed)
           /\ result' = s.result /\ error' = s.error
           /\ IF s.ok THEN GoesTo(t, "mark") ELSE Raises(t, FALSE)
        \/ /\ ~Kept(n, killed)
           /\ result' = IF Kind(n) = "output" THEN [result EXCEPT ![n] = EmptyFrame] ELSE result
           /\ error' = [error EXCEPT ![n] = TRUE]
           /\ Raises(t, lost)

WorkerMisses(t) ==
    /\ At(t, "worker")
    /\ Evaluated(Top(t).frame) = Missing
    /\ FetchFails(t, FALSE, TRUE)
    /\ broken' = broken \cup {Top(t).node}
    /\ UNCHANGED <<hasRun, flagged, shown, seen, store, runState, setup, cancel, left, trouble>>

WorkerFails(t) ==
    /\ At(t, "worker")
    /\ May("failures") /\ Uses("failures")
    /\ \E killed \in {FALSE, setup.kills} : FetchFails(t, killed, FALSE)
    /\ broken' = broken \cup {Top(t).node}
    /\ trouble' = TRUE
    /\ UNCHANGED <<hasRun, flagged, shown, seen, store, runState, setup, cancel>>

(* The fetcher was canceled and raises; it may have polled after the process   *)
(* was terminated and before the task was marked as cancelled.                *)
FetchCut(t) ==
    /\ At(t, "cut")
    /\ \E killed \in BOOLEAN : FetchFails(t, killed, FALSE)
    /\ UNCHANGED <<hasRun, flagged, shown, seen, store, runState, world>>

(* The node is marked as run, and a source remembers the file it has read.    *)
Marks(n) == IF Sampled(n) THEN ~error[n] /\ ~shown[n] ELSE result[n] # NoFrame

(* _sync_state_to_legacy. *)
Syncs(n) == shown' = [shown EXCEPT ![n] = flagged[n]]

MarkSuccessful(t) ==
    /\ At(t, "mark")
    /\ LET n == Top(t).node
       IN  /\ hasRun' = [hasRun EXCEPT ![n] = @ \/ Marks(n)]
           /\ seen' = [seen EXCEPT ![n] = IF Kind(n) = "read" THEN disk ELSE @]
           /\ Syncs(n)
    /\ UNCHANGED <<result, error, flagged>>
    /\ Returns(t)
    /\ UNCHANGED <<store, running, canceled, stage, pending, world>>

(* A node that was canceled ends without a word; another one has failed, and   *)
(* may try again.                                                            *)
EndCanceled(t) ==
    /\ At(t, "raised")
    /\ flagged[Top(t).node]
    /\ Syncs(Top(t).node)
    /\ UNCHANGED <<hasRun, result, error, flagged, seen>>
    /\ Returns(t)
    /\ UNCHANGED <<store, running, canceled, stage, pending, world>>

(* Variant: the second attempt may try again. *)
RetriesAlways(f) == f.lost

Retries(f) == f.lost /\ f.retry

Failed(t) ==
    /\ hasRun' = [hasRun EXCEPT ![Top(t).node] = FALSE]
    /\ error' = [error EXCEPT ![Top(t).node] = TRUE]
    /\ Syncs(Top(t).node)
    /\ UNCHANGED <<result, flagged, seen>>

EndFailed(t) ==
    /\ At(t, "raised")
    /\ ~flagged[Top(t).node]
    /\ ~Retries(Top(t))
    /\ Failed(t)
    /\ Returns(t)
    /\ UNCHANGED <<store, running, canceled, stage, pending, world>>

RetryBegins(t) ==
    /\ At(t, "raised")
    /\ ~flagged[Top(t).node]
    /\ Retries(Top(t))
    /\ Failed(t)
    /\ GoesTo(t, "retry")
    /\ UNCHANGED <<store, runState, world>>

(* Variant: what the inputs stored is not cleared. *)
RetryInputKept(t) ==
    /\ At(t, "retry")
    /\ LET f == Top(t)
       IN  stack' = [stack EXCEPT ![t] =
             IF f.next <= Len(Inputs(f.node))
             THEN Front(@) \o <<[f EXCEPT !.next = @ + 1], Call(Inputs(f.node)[f.next], FALSE)>>
             ELSE Append(Front(@), [Call(f.node, FALSE) EXCEPT !.retry = FALSE])]
    /\ UNCHANGED <<nodeState, store, runState, world>>

(* Each input is executed anew, then the node once more. *)
RetryInput(t) ==
    /\ At(t, "retry")
    /\ LET f == Top(t)
       IN  stack' = [stack EXCEPT ![t] =
             IF f.next <= Len(Inputs(f.node))
             THEN Front(@) \o <<[f EXCEPT !.next = @ + 1], Call(Inputs(f.node)[f.next], TRUE)>>
             ELSE Append(Front(@), [Call(f.node, FALSE) EXCEPT !.retry = FALSE])]
    /\ UNCHANGED <<nodeState, store, runState, world>>

ThreadStep(t) ==
    \/ ClearCache(t) \/ Skip(t) \/ Prepare(t) \/ UseCache(t) \/ Compute(t) \/ SourceFails(t)
    \/ WorkerCompletes(t) \/ WorkerMisses(t) \/ WorkerFails(t) \/ FetchCut(t)
    \/ MarkSuccessful(t) \/ EndCanceled(t) \/ EndFailed(t) \/ RetryBegins(t) \/ RetryInput(t)

-----------------------------------------------------------------------------
(* Runs and fetches.                                                         *)
Busy == {n \in Nodes : stack[n] # <<>>}

Begins(kind) ==
    /\ running = "no"
    /\ running' = kind
    /\ canceled' = FALSE
    /\ outcome' = [n \in Nodes |-> "none"]
    /\ broken' = {}

StartRun ==
    /\ May("runs") /\ Uses("runs")
    /\ Begins("run")
    /\ stage' = 0
    /\ trouble' = (cancel.node # 0)
    /\ UNCHANGED <<nodeState, store, pending, stack, setup, cancel>>

(* The nodes of the next stage below no failure. *)
NotOk == {n \in Nodes : outcome[n] \in {"failed", "void"}}

NextStage ==
    /\ running = "run"
    /\ pending = {} /\ Busy = {}
    /\ ~canceled
    /\ stage < Len(setup.stages)
    /\ stage' = stage + 1
    /\ pending' = setup.stages[stage + 1] \ UNION {Descendants(n) : n \in NotOk}
    /\ UNCHANGED <<nodeState, store, running, canceled, outcome, stack, world>>

StartNode(n) ==
    /\ n \in pending
    /\ Cardinality(Busy) < setup.workers
    /\ pending' = pending \ {n}
    /\ stack' = [stack EXCEPT ![n] = <<Call(n, FALSE)>>]
    /\ UNCHANGED <<nodeState, store, running, canceled, stage, outcome, world>>

EndRun ==
    /\ running = "run"
    /\ pending = {} /\ Busy = {}
    /\ canceled \/ stage = Len(setup.stages)
    /\ running' = "no"
    /\ UNCHANGED <<nodeState, store, canceled, stage, pending, outcome, stack, world>>

(* trigger_fetch_node. *)
StartFetch(n) ==
    /\ May("fetches") /\ Uses("fetches")
    /\ Begins("fetch")
    /\ stack' = [stack EXCEPT ![n] = <<Call(n, TRUE)>>]
    /\ trouble' = (cancel.node # 0)
    /\ UNCHANGED <<nodeState, store, stage, pending, setup, cancel>>

EndFetch ==
    /\ running = "fetch"
    /\ Busy = {}
    /\ running' = "no"
    /\ UNCHANGED <<nodeState, store, canceled, stage, pending, outcome, stack, world>>

-----------------------------------------------------------------------------
(* cancel: the flow's flag, then node after node its fetcher and its flags.   *)
RequestCancel ==
    /\ running # "no"
    /\ cancel.node = 0
    /\ May("cancels") /\ Uses("cancels")
    /\ canceled' = TRUE
    /\ cancel' = [node |-> 1, flags |-> FALSE]
    /\ trouble' = TRUE
    /\ UNCHANGED <<nodeState, store, running, stage, pending, outcome, stack, setup, broken>>

(* A sampler is not kept on the node while it is waited for. *)
Fetching(t, n) == At(t, "worker") /\ Top(t).node = n /\ ~Sampled(n)

CancelFetcher ==
    /\ cancel.node # 0 /\ ~cancel.flags
    /\ IF \E t \in Nodes : Fetching(t, cancel.node)
       THEN \E t \in Nodes : Fetching(t, cancel.node) /\ GoesTo(t, "cut")
       ELSE UNCHANGED stack
    /\ cancel' = [cancel EXCEPT !.flags = TRUE]
    /\ UNCHANGED <<nodeState, store, runState, setup, left, broken, trouble>>

CancelFlags ==
    /\ cancel.flags
    /\ flagged' = [flagged EXCEPT ![cancel.node] = TRUE]
    /\ shown' = [shown EXCEPT ![cancel.node] = TRUE]
    /\ cancel' = [node |-> (cancel.node + 1) % (Cardinality(Nodes) + 1), flags |-> FALSE]
    /\ trouble' = TRUE
    /\ UNCHANGED <<hasRun, result, error, seen, store, runState, stack, setup, left, broken>>

-----------------------------------------------------------------------------
(* Between the runs.                                                         *)

(* Variant: the nodes below are not reset. *)
ResetsItself(n) == {n}

(* What reset reaches when the hash of n has changed. *)
Resets(n) == Descendants(n)

(* setting_input: settings are refused while the flow runs. *)
EditSettings(n) ==
    /\ running = "no"
    /\ May("edits") /\ Uses("edits")
    /\ version' = [version EXCEPT ![n] = 3 - @]
    /\ hasRun' = [m \in Nodes |-> hasRun[m] /\ m \notin Resets(n)]
    /\ result' = [m \in Nodes |-> IF m \in Resets(n) THEN NoFrame ELSE result[m]]
    /\ error' = [m \in Nodes |-> error[m] /\ m \notin Resets(n)]
    /\ flagged' = [m \in Nodes |-> flagged[m] /\ m \notin Resets(n)]
    /\ UNCHANGED <<shown, seen, disk, file, written, runState, stack, setup, cancel, broken, trouble>>

(* Somebody overwrites the source file, at any time. *)
TouchSource ==
    /\ May("touches") /\ Uses("touches")
    /\ disk' = disk + 1
    /\ UNCHANGED <<nodeState, version, file, written, runState, stack, setup, cancel, broken, trouble>>

(* The worker is restarted and clears its caches, between two runs.           *)
LoseFiles ==
    /\ running = "no"
    /\ May("losses") /\ Uses("losses")
    /\ file' = [h \in {} |-> Missing]
    /\ UNCHANGED <<nodeState, version, disk, written, runState, stack, setup, cancel, broken, trouble>>

Terminated ==
    /\ running = "no" /\ cancel.node = 0
    /\ UNCHANGED vars

RunStep ==
    \/ NextStage \/ EndRun \/ EndFetch
    \/ \E n \in Nodes : StartNode(n) \/ ThreadStep(n)

Next ==
    \/ RunStep
    \/ StartRun \/ \E n \in Nodes : StartFetch(n) \/ EditSettings(n)
    \/ RequestCancel \/ CancelFetcher \/ CancelFlags
    \/ TouchSource \/ LoseFiles
    \/ Terminated

Fairness == WF_vars(RunStep)

Spec == Init /\ [][Next]_vars /\ Fairness

-----------------------------------------------------------------------------
TypeOK ==
    /\ setup \in Setups
    /\ version \in [Nodes -> {1, 2}]
    /\ disk \in Nat /\ seen \in [Nodes -> 0 .. disk]
    /\ hasRun \in [Nodes -> BOOLEAN] /\ error \in [Nodes -> BOOLEAN] /\ flagged \in [Nodes -> BOOLEAN]
    /\ shown \in [Nodes -> BOOLEAN]
    /\ \A n \in Nodes : result[n].tag \in {"none", "empty", "plan", "file"}
    /\ \A n \in Nodes : written[n].tag \in {"none", "empty", "data"}
    /\ \A h \in DOMAIN file : h.tag = "file" /\ file[h].tag \in {"empty", "data"}
    /\ running \in {"no", "run", "fetch"} /\ canceled \in BOOLEAN
    /\ stage \in 0 .. Len(setup.stages) /\ pending \subseteq Nodes
    /\ outcome \in [Nodes -> {"none", "ok", "failed", "void"}]
    /\ \A t \in Nodes : \A i \in 1 .. Len(stack[t]) : stack[t][i].node \in Nodes
    /\ cancel \in [node : Nodes \cup {0}, flags : BOOLEAN]
    /\ left \in [Happenings -> Nat]
    /\ broken \subseteq Nodes /\ trouble \in BOOLEAN

(* The settings a content was computed with, as the hash of them. *)
RECURSIVE SettingsOf(_)
SettingsOf(c) ==
    IF c.tag = "data"
    THEN Frame("file", c.node, c.version,
               IF c.of[1].tag = "source" THEN <<>>
               ELSE [i \in 1 .. Len(c.of) |-> SettingsOf(c.of[i])])
    ELSE c

(* A content that comes from the empty frame a failed node leaves behind. *)
RECURSIVE Hollow(_)
Hollow(c) == c.tag = "empty" \/ \E i \in 1 .. Len(c.of) : Hollow(c.of[i])

RECURSIVE SourceVersions(_)
SourceVersions(c) ==
    IF c.tag = "source" THEN {c.version}
    ELSE UNION {SourceVersions(c.of[i]) : i \in 1 .. Len(c.of)}

Outputs == {n \in Nodes : Kind(n) = "output"}

AllOk == \A n \in Nodes : outcome[n] = "ok"

RunCloses == running = "run" /\ running' = "no"

(* The file stored under a hash holds what the settings behind that hash       *)
(* compute: a cached result is never taken for another setting's, here or      *)
(* above (results_exists, calculate_hash).  Left out is a file computed from    *)
(* the empty frame a failed node leaves behind (Hollow).                      *)
CacheMatchesSettings == \A h \in DOMAIN file : SettingsOf(file[h]) = h \/ Hollow(file[h])

(* A run in which every node succeeded has written, at every output, what the  *)
(* present settings of all nodes above it compute, whichever nodes it skipped,  *)
(* took from a cache or executed twice (reset, _decide_execution).  Left out is *)
(* an output computed from the empty frame a failed node leaves behind (Hollow). *)
EditsReachOutput ==
    [][RunCloses /\ AllOk =>
          \A n \in Outputs : SettingsOf(written[n]) = Hash(n) \/ Hollow(written[n])]_vars

(* A run nothing disturbs succeeds, whatever failed, was canceled or was lost   *)
(* before it: what is missing is computed anew (_handle_error).  Left out are   *)
(* three cases of which it is not true: a remote node over a web socket, whose  *)
(* missing input is swallowed; a cached node that is skipped with the error of  *)
(* a cancel still on it; two dependents of one lost input at the same time.    *)
RunRecovers ==
    [][RunCloses /\ ~trouble =>
          \/ AllOk
          \/ setup.socket /\ \E n \in broken : Remote(n)
          \/ \E n \in setup.cached : flagged[n] /\ error[n]
          \/ setup.workers > 1 /\ \E n \in broken, m \in Nodes :
                m # n /\ InputSet(m) \cap InputSet(n) # {}]_vars

(* Every run and every fetch ends, however many retries a loss of files sets    *)
(* off on the way (the second attempt of a node is made with retry = False).   *)
EveryRunEnds == running # "no" ~> running = "no"

(* A node whose last evaluation failed in the worker is not reported as         *)
(* successful (flow_graph.py:5261, "Failed nodes cause their dependents to be   *)
(* skipped.").  A process the server killed is another matter: the code goes    *)
(* on without its result on purpose, and a run of this property kills none.    *)
FailuresAreReported == [][RunCloses => \A n \in broken : outcome[n] # "ok"]_vars

(* RunRecovers without its exceptions. *)
CleanRunSucceeds == [][RunCloses /\ ~trouble => AllOk]_vars

(* A successful run writes nothing that was computed from an empty frame. *)
NothingHollow == [][RunCloses /\ AllOk => \A n \in Outputs : ~Hollow(written[n])]_vars

(* The outputs of a successful run are as new as what their sources recorded. *)
SourceReachesOutput ==
    [][RunCloses /\ AllOk =>
          \A m \in Nodes : \A n \in Outputs \cap Descendants(m) :
              \A v \in SourceVersions(written[n]) : v >= seen[m]]_vars
=============================================================================
