------------------------------ MODULE Artifacts ------------------------------
(***************************************************************************)
(* Artifacts: Python objects that the scripts of a flow publish, read and     *)
(* delete in the store of one kernel.  The core keeps its own record of them,  *)
(* the ArtifactContext, and uses it before a run: a node that runs again and   *)
(* had deleted artifacts needs the nodes that published them to run again too. *)
(* Two things must not drift apart: what the kernel holds, and what the core    *)
(* believes it holds and therefore executes or skips.                         *)
(* Stages, skips and the decision to run are those of FlowRun and NodeExecution *)
(* reduced to what the artifacts depend on.  The nodes of the kernel are        *)
(* python_script nodes; a custom node on the kernel shares _execute_on_kernel,   *)
(* but is left out of the nodes prepared before a run, and is not modelled.     *)
(* Source: flowfile/artifacts.py, flowfile/flow_graph.py,                     *)
(* kernel_runtime/artifact_store.py, kernel_runtime/main.py.                   *)
(***************************************************************************)
EXTENDS Naturals, Sequences, FiniteSets

CONSTANTS
    Names,     \* names of artifacts
    Setups     \* the flows, and the bounds on what happens to them

Happenings == {"runs", "fetches", "edits", "failures", "cancels", "restarts"}

Ops == [op : {"publish", "read", "delete"}, name : Names]

(* _get_upstream_node_ids; ids need not follow the wiring. *)
UpstreamIn(s, n) ==
    LET Up[k \in 0 .. Len(s.script)] ==
            IF k = 0 THEN s.inputs[n] ELSE Up[k - 1] \cup UNION {s.inputs[m] : m \in Up[k - 1]}
    IN  Up[Len(s.script)]

ASSUME SetupsAssumption ==
    \A s \in Setups :
        /\ s.script \in Seq(Seq(Ops))    \* by node id; <<>> for a node of another type
        /\ DOMAIN s.inputs = DOMAIN s.script
        /\ s.inputs \in Seq(SUBSET DOMAIN s.script)
        /\ s.stages \in Seq(SUBSET DOMAIN s.script)
        /\ s.cached \subseteq DOMAIN s.script    \* nodes with cache_results
        /\ s.workers \in Nat \ {0}               \* max_parallel_workers
        /\ s.bounds \in [Happenings -> Nat]

(* Stages are levels of the graph, see PlanSort. *)
ASSUME StagesAssumption ==
    \A s \in Setups : \A i \in DOMAIN s.stages : \A m, n \in s.stages[i] : m \notin UpstreamIn(s, n)

VARIABLES
    setup,
    hasRun,      \* has_run_with_current_setup
    stored,      \* the nodes whose result file is there (results_exists)
    published,   \* _node_states[n].published, by name
    deleted,     \* _node_states[n].deleted
    available,   \* _node_states[n].available
    kernelMap,   \* _kernel_artifacts of the kernel: name to publisher, or None
    publishers,  \* _publisher_index
    origins,     \* _deletion_origins[n]: names n deleted, with who had published them
    store,       \* the kernel's ArtifactStore, in memory or on disk: name to publisher, or None
    running,     \* flow_settings.is_running, with what runs
    canceled,    \* flow_settings.is_canceled
    stage, pending, outcome,
    at,          \* where the execution of n is
    step,        \* the operation of its script it is at
    before,      \* artifacts_before of its script
    answer,      \* artifacts_published and artifacts_deleted of its response
    left,        \* what may still happen
    marred       \* something happened that the record does not survive (history)

context == <<published, deleted, available, kernelMap, publishers, origins>>
runState == <<running, canceled, stage, pending>>
scripts == <<step, before, answer>>
vars == <<setup, hasRun, stored, published, deleted, available, kernelMap, publishers, origins,
          store, running, canceled, stage, pending, outcome, at, step, before, answer, left, marred>>

Nodes == DOMAIN setup.script

Script(n) == setup.script[n]

None == 0

Upstream(n) == UpstreamIn(setup, n)

Below(n) == {n} \cup {m \in Nodes : n \in Upstream(m)}

(* The python_script nodes. *)
OnKernel == {n \in Nodes : Script(n) # <<>>}

Does(n, op) == {Script(n)[i].name : i \in {j \in 1 .. Len(Script(n)) : Script(n)[j].op = op}}

Held == {x \in Names : store[x] # None}

Nothing == [gained |-> {}, lost |-> {}]

Init ==
    /\ setup \in Setups
    /\ hasRun = [n \in Nodes |-> FALSE]
    /\ stored = {}
    /\ published = [n \in Nodes |-> {}]
    /\ deleted = [n \in Nodes |-> {}]
    /\ available = [n \in Nodes |-> {}]
    /\ kernelMap = [x \in Names |-> None]
    /\ publishers = [x \in Names |-> {}]
    /\ origins = [n \in Nodes |-> {}]
    /\ store = [x \in Names |-> None]
    /\ running = "no" /\ canceled = FALSE /\ stage = 0 /\ pending = {}
    /\ outcome = [n \in Nodes |-> "none"]
    /\ at = [n \in Nodes |-> "idle"]
    /\ step = [n \in Nodes |-> 1]
    /\ before = [n \in Nodes |-> {}]
    /\ answer = [n \in Nodes |-> Nothing]
    /\ left = setup.bounds
    /\ marred = FALSE

May(what) == left[what] > 0

Uses(what) == left' = [left EXCEPT ![what] = @ - 1]

-----------------------------------------------------------------------------
(* The context.                                                              *)

Cleared(f, S) == [n \in Nodes |-> IF n \in S THEN {} ELSE f[n]]

(* clear_nodes, but for the available maps. *)
ClearNodes(S) ==
    /\ origins' = Cleared(origins, S)
    /\ published' = Cleared(published, S)
    /\ deleted' = Cleared(deleted, S)
    /\ kernelMap' = [x \in Names |->
          IF kernelMap[x] \in S /\ x \in published[kernelMap[x]] THEN None ELSE kernelMap[x]]
    /\ publishers' = [x \in Names |-> {n \in publishers[x] : n \notin S \/ x \notin published[n]}]

(* Variant: deletions do not count. *)
AvailableForever(n) == UNION {published[u] : u \in Upstream(n)}

(* compute_available: upstream nodes in the order of their ids, the deletions   *)
(* of each before its publications.                                          *)
AvailableTo(n) ==
    {x \in Names : \E u \in Upstream(n) :
        /\ x \in published[u]
        /\ \A v \in Upstream(n) : v > u => x \notin deleted[v]}

(* get_producer_nodes_for_deletions *)
Producers(S) == {o.by : o \in UNION {origins[n] : n \in S}}

(* _compute_rerun_python_script_node_ids *)
NotYetRun == {n \in OnKernel : ~hasRun[n]}

(* Variant: only the publishers of what the nodes not yet run deleted. *)
RerunOnce == NotYetRun \cup Producers(NotYetRun)

(* The loop of _prepare_rerun_artifacts. *)
Rerun ==
    LET Grown[k \in 0 .. Len(setup.script)] ==
            IF k = 0 THEN NotYetRun ELSE Grown[k - 1] \cup Producers(Grown[k - 1])
    IN  Grown[Len(setup.script)]

(* clear_by_node_ids of the kernel. *)
StoreWithout(S) == [x \in Names |-> IF store[x] \in S THEN None ELSE store[x]]

-----------------------------------------------------------------------------
(* A run.                                                                    *)
Busy == {n \in Nodes : at[n] # "idle"}

(* run_graph up to the stages, with _prepare_rerun_artifacts; the request to    *)
(* the kernel may fail, which is ignored.                                     *)
StartRun ==
    /\ running = "no"
    /\ May("runs") /\ Uses("runs")
    /\ running' = "run" /\ canceled' = FALSE /\ stage' = 0
    /\ outcome' = [n \in Nodes |-> "none"]
    /\ hasRun' = [n \in Nodes |-> hasRun[n] /\ n \notin Rerun]
    /\ ClearNodes(Rerun)
    /\ available' = Cleared(available, Rerun)
    /\ store' \in {StoreWithout(Rerun), store}
    /\ UNCHANGED <<setup, stored, pending, at, scripts, marred>>

Failed == {n \in Nodes : outcome[n] \in {"failed", "lacking"}}

NextStage ==
    /\ running = "run" /\ ~canceled
    /\ pending = {} /\ Busy = {}
    /\ stage < Len(setup.stages)
    /\ stage' = stage + 1
    /\ pending' = setup.stages[stage + 1] \ UNION {Below(n) : n \in Failed}
    /\ UNCHANGED <<setup, hasRun, stored, context, store, running, canceled, outcome, at, scripts, left, marred>>

EndRun ==
    /\ running # "no"
    /\ pending = {} /\ Busy = {}
    /\ running = "run" => canceled \/ stage = Len(setup.stages)
    /\ running' = "no"
    /\ UNCHANGED <<setup, hasRun, stored, context, store, canceled, stage, pending, outcome, at, scripts, left, marred>>

(* _decide_execution *)
Runs(n) == IF n \in setup.cached THEN n \notin stored ELSE ~hasRun[n]

CanStart(n) == n \in pending /\ Cardinality(Busy) < setup.workers

SkipNode(n) ==
    /\ CanStart(n) /\ ~Runs(n)
    /\ pending' = pending \ {n}
    /\ outcome' = [outcome EXCEPT ![n] = "ok"]
    /\ UNCHANGED <<setup, hasRun, stored, context, store, running, canceled, stage, at, scripts, left, marred>>

(* The node is marked as run, and a cached result is kept. *)
Succeeds(n) ==
    /\ hasRun' = [hasRun EXCEPT ![n] = TRUE]
    /\ stored' = stored \cup {n}
    /\ outcome' = [outcome EXCEPT ![n] = "ok"]
    /\ UNCHANGED left

FailsAs(n, why) ==
    /\ hasRun' = [hasRun EXCEPT ![n] = FALSE]
    /\ outcome' = [outcome EXCEPT ![n] = why]
    /\ UNCHANGED stored

Fails(n) == May("failures") /\ Uses("failures") /\ FailsAs(n, "failed")

(* A node of another type. *)
RunElsewhere(n) ==
    /\ CanStart(n) /\ Runs(n) /\ n \notin OnKernel
    /\ pending' = pending \ {n}
    /\ Succeeds(n) \/ Fails(n)
    /\ UNCHANGED <<setup, context, store, running, canceled, stage, at, scripts, marred>>

(* _execute_on_kernel up to the call of the kernel. *)
Calls(n) ==
    /\ ClearNodes({n})
    /\ available' = [available EXCEPT ![n] = AvailableTo(n)]
    /\ at' = [at EXCEPT ![n] = "called"]

CallKernel(n) ==
    /\ CanStart(n) /\ Runs(n) /\ n \in OnKernel
    /\ pending' = pending \ {n}
    /\ Calls(n)
    /\ UNCHANGED <<setup, hasRun, stored, store, running, canceled, stage, outcome, scripts, left, marred>>

(* The inputs cannot be written, or the kernel is not reached: the record of the *)
(* node is cleared, and the kernel has cleared nothing.                        *)
CallFails(n) ==
    /\ at[n] = "called"
    /\ at' = [at EXCEPT ![n] = "idle"]
    /\ Fails(n)
    /\ UNCHANGED <<setup, context, store, runState, scripts, marred>>

(* _execute_sync: what the node had published goes, and the names there are    *)
(* listed.  Scripts of one kernel run in threads, side by side.               *)
BeginScript(n) ==
    /\ at[n] = "called"
    /\ store' = StoreWithout({n})
    /\ before' = [before EXCEPT ![n] = {x \in Names : store'[x] # None}]
    /\ step' = [step EXCEPT ![n] = 1]
    /\ at' = [at EXCEPT ![n] = "script"]
    /\ marred' = (marred \/ \E m \in Nodes : at[m] = "script")
    /\ UNCHANGED <<setup, hasRun, stored, context, runState, outcome, answer, left>>

InScript(n) == at[n] = "script" /\ step[n] <= Len(Script(n))

Now(n) == Script(n)[step[n]]

(* publish raises on a name that is taken, get and delete on one that is not. *)
Works(n) == (Now(n).op = "publish") = (store[Now(n).name] = None)

ScriptStep(n) ==
    /\ InScript(n) /\ Works(n)
    /\ store' = [store EXCEPT ![Now(n).name] =
                    CASE Now(n).op = "publish" -> n
                      [] Now(n).op = "read" -> @
                      [] OTHER -> None]
    /\ step' = [step EXCEPT ![n] = @ + 1]
    /\ UNCHANGED <<setup, hasRun, stored, context, runState, outcome, at, before, answer, left, marred>>

Returns(n) ==
    /\ at' = [at EXCEPT ![n] = "idle"]
    /\ step' = [step EXCEPT ![n] = 1]
    /\ before' = [before EXCEPT ![n] = {}]
    /\ answer' = [answer EXCEPT ![n] = Nothing]

(* A response without success is not recorded, whatever the script has done.   *)
Drops(n) ==
    /\ Returns(n)
    /\ marred' = (marred \/ \E i \in 1 .. step[n] - 1 : Script(n)[i].op = "delete")

ScriptLacks(n) ==
    /\ InScript(n) /\ ~Works(n)
    /\ Drops(n)
    /\ FailsAs(n, "lacking")
    /\ UNCHANGED <<setup, context, store, runState, left>>

(* The script raises for a reason of its own, is interrupted, or its response   *)
(* is lost.                                                                  *)
ScriptRaises(n) ==
    /\ at[n] = "script"
    /\ Drops(n)
    /\ Fails(n)
    /\ UNCHANGED <<setup, context, store, runState>>

EndScript(n) ==
    /\ at[n] = "script" /\ step[n] > Len(Script(n))
    /\ answer' = [answer EXCEPT ![n] = [gained |-> Held \ before[n], lost |-> before[n] \ Held]]
    /\ at' = [at EXCEPT ![n] = "answered"]
    /\ UNCHANGED <<setup, hasRun, stored, context, store, runState, outcome, step, before, left, marred>>

(* record_published *)
RecordPublished(n) ==
    /\ at[n] = "answered"
    /\ LET new == answer[n].gained
       IN  /\ published' = [published EXCEPT ![n] = @ \cup new]
           /\ kernelMap' = [x \in Names |-> IF x \in new THEN n ELSE kernelMap[x]]
           /\ publishers' = [x \in Names |-> IF x \in new THEN publishers[x] \cup {n} ELSE publishers[x]]
    /\ at' = [at EXCEPT ![n] = "published"]
    /\ UNCHANGED <<setup, hasRun, stored, deleted, available, origins, store, runState, outcome, scripts, left, marred>>

(* Variant: the kernel's map keeps what was deleted. *)
RecordDeletedInPart(n) ==
    /\ at[n] = "published"
    /\ LET gone == answer[n].lost
       IN  /\ deleted' = [deleted EXCEPT ![n] = @ \cup gone]
           /\ origins' = [origins EXCEPT ![n] = @ \cup
                 UNION {{[name |-> x, by |-> p] : p \in publishers[x]} : x \in gone}]
           /\ publishers' = [x \in Names |-> IF x \in gone THEN {} ELSE publishers[x]]
    /\ at' = [at EXCEPT ![n] = "recorded"]
    /\ UNCHANGED <<setup, hasRun, stored, published, available, kernelMap, store, runState, outcome, scripts, left, marred>>

(* record_deleted; what the publishers have published stays on their record.   *)
RecordDeleted(n) ==
    /\ at[n] = "published"
    /\ LET gone == answer[n].lost
       IN  /\ deleted' = [deleted EXCEPT ![n] = @ \cup gone]
           /\ kernelMap' = [x \in Names |-> IF x \in gone THEN None ELSE kernelMap[x]]
           /\ origins' = [origins EXCEPT ![n] = @ \cup
                 UNION {{[name |-> x, by |-> p] : p \in publishers[x]} : x \in gone}]
           /\ publishers' = [x \in Names |-> IF x \in gone THEN {} ELSE publishers[x]]
    /\ at' = [at EXCEPT ![n] = "recorded"]
    /\ UNCHANGED <<setup, hasRun, stored, published, available, store, runState, outcome, scripts, left, marred>>

(* The rest of the node's execution may still fail. *)
FinishNode(n) ==
    /\ at[n] = "recorded"
    /\ Succeeds(n) \/ Fails(n)
    /\ Returns(n)
    /\ UNCHANGED <<setup, context, store, runState, marred>>

RequestCancel ==
    /\ running = "run" /\ ~canceled
    /\ May("cancels") /\ Uses("cancels")
    /\ canceled' = TRUE
    /\ UNCHANGED <<setup, hasRun, stored, context, store, running, stage, pending, outcome, at, scripts, marred>>

-----------------------------------------------------------------------------
(* Between the runs.                                                         *)

(* New settings that leave alone what the scripts do with artifacts. *)
EditSettings(n) ==
    /\ running = "no"
    /\ May("edits") /\ Uses("edits")
    /\ hasRun' = [m \in Nodes |-> hasRun[m] /\ m \notin Below(n)]
    /\ stored' = stored \ Below(n)
    /\ UNCHANGED <<setup, context, store, runState, outcome, at, scripts, marred>>

(* trigger_fetch_node, of a node whose inputs have results: it is executed      *)
(* anew, and nothing is prepared for that.                                    *)
StartFetch(n) ==
    /\ running = "no"
    /\ n \in OnKernel
    /\ \A m \in setup.inputs[n] : hasRun[m]
    /\ May("fetches") /\ Uses("fetches")
    /\ running' = "fetch" /\ canceled' = FALSE
    /\ outcome' = [m \in Nodes |-> "none"]
    /\ hasRun' = [hasRun EXCEPT ![n] = FALSE]
    /\ stored' = stored \ {n}
    /\ Calls(n)
    /\ marred' = TRUE
    /\ UNCHANGED <<setup, store, stage, pending, scripts>>

(* The kernel is restarted.  What had been persisted is found on disk again.   *)
RestartKernel ==
    /\ \A n \in Nodes : at[n] # "script"
    /\ May("restarts") /\ Uses("restarts")
    /\ \E kept \in SUBSET Held :
          /\ store' = [x \in Names |-> IF x \in kept THEN store[x] ELSE None]
          /\ marred' = (marred \/ kept # Held)
    /\ UNCHANGED <<setup, hasRun, stored, context, runState, outcome, at, scripts>>

Next ==
    \/ StartRun \/ NextStage \/ EndRun \/ RequestCancel \/ RestartKernel
    \/ \E n \in Nodes :
          \/ SkipNode(n) \/ RunElsewhere(n) \/ CallKernel(n) \/ CallFails(n) \/ BeginScript(n)
          \/ ScriptStep(n) \/ ScriptLacks(n) \/ ScriptRaises(n) \/ EndScript(n)
          \/ RecordPublished(n) \/ RecordDeleted(n) \/ FinishNode(n)
          \/ EditSettings(n) \/ StartFetch(n)

Spec == Init /\ [][Next]_vars

-----------------------------------------------------------------------------
TypeOK ==
    /\ setup \in Setups
    /\ hasRun \in [Nodes -> BOOLEAN] /\ stored \subseteq Nodes
    /\ {published, deleted, available} \subseteq [Nodes -> SUBSET Names]
    /\ {kernelMap, store} \subseteq [Names -> Nodes \cup {None}]
    /\ publishers \in [Names -> SUBSET Nodes]
    /\ origins \in [Nodes -> SUBSET [name : Names, by : Nodes]]
    /\ running \in {"no", "run", "fetch"} /\ {canceled, marred} \subseteq BOOLEAN
    /\ stage \in 0 .. Len(setup.stages) /\ pending \subseteq Nodes
    /\ outcome \in [Nodes -> {"none", "ok", "failed", "lacking"}]
    /\ at \in [Nodes -> {"idle", "called", "script", "answered", "published", "recorded"}]
    /\ step \in [Nodes -> Nat \ {0}] /\ before \in [Nodes -> SUBSET Names]
    /\ answer \in [Nodes -> [gained : SUBSET Names, lost : SUBSET Names]]
    /\ left \in [Happenings -> Nat]

(* A flow that works on an empty kernel, whatever the order within a stage: an  *)
(* artifact has one publisher, who comes before all who use it, and is deleted  *)
(* by one node, after all others who use it.                                  *)
Users(x) == {n \in Nodes : x \in Does(n, "read") \cup Does(n, "delete")}

Ordered ==
    /\ \A x \in Names, m, n \in Nodes :
          /\ x \in Does(m, "publish") /\ n \in Users(x) => m \in Upstream(n)
          /\ x \in Does(m, "publish") \cap Does(n, "publish") => m = n
          /\ x \in Does(n, "delete") /\ m \in Users(x) => m = n \/ m \in Upstream(n)

(* Nobody uses what is not published, and a script publishes or deletes a name   *)
(* once, and does nothing with it after that.                                  *)
Complete ==
    /\ \A x \in Names : Users(x) # {} => \E m \in Nodes : x \in Does(m, "publish")
    /\ \A n \in Nodes : \A i, j \in DOMAIN Script(n) :
          i < j /\ Script(n)[i].name = Script(n)[j].name => Script(n)[i].op = "read"

(* A node is planned once, after all that feeds it, and none feeds itself (see   *)
(* PlanSort).                                                                *)
Planned ==
    /\ \A n \in Nodes : n \notin Upstream(n)
    /\ \A i, j \in DOMAIN setup.stages : i # j => setup.stages[i] \cap setup.stages[j] = {}
    /\ \A i \in DOMAIN setup.stages : \A n \in setup.stages[i] : \A m \in Upstream(n) :
          \E j \in 1 .. i - 1 : m \in setup.stages[j]

WorksOnce == Ordered /\ Complete /\ Planned

(* A node that may be made to run again for what it published reads nothing     *)
(* that another node deletes, and is not kept from running by its cache.        *)
Remakes(n) == \E m \in Nodes : Does(n, "publish") \cap Does(m, "delete") # {}

Remakable ==
    \A n \in Nodes : Remakes(n) =>
        /\ n \notin setup.cached
        /\ \A m \in Nodes \ {n} : Does(n, "read") \cap Does(m, "delete") = {}

(* No script of a flow that works on an empty kernel fails for an artifact,     *)
(* however edits, failures, cancels and restarts choose what runs again: what   *)
(* it needs is there, and what it publishes is not there yet                   *)
(* (_prepare_rerun_artifacts).  Left out are flows in which a node that may     *)
(* have to publish again reads what others delete, or is cached (Remakable),    *)
(* and histories in which a script failed after it had deleted something, two   *)
(* scripts overlapped, a node was fetched or the kernel lost artifacts (marred). *)
ScriptsFindArtifacts ==
    ~marred /\ WorksOnce /\ Remakable => \A n \in Nodes : outcome[n] # "lacking"

(* The core's map of the kernel is true while no execution is under way: what   *)
(* it shows is in the store, and what a node that has run left there is shown.  *)
MapTellsStore ==
    ~marred /\ Busy = {} /\ Ordered =>
        \A x \in Names :
            /\ kernelMap[x] # None => store[x] = kernelMap[x]
            /\ store[x] # None /\ hasRun[store[x]] => kernelMap[x] = store[x]

(* The order of the ids agrees with the wiring above n. *)
Ascending(n) == \A u, v \in Upstream(n) : u \in Upstream(v) => u < v

(* The core shows a script all that it reads; and where the ids above the node   *)
(* ascend along the wiring, what it shows is in the store when it calls the      *)
(* kernel, unless a node on another branch deletes it (compute_available sorts   *)
(* by id).  The exceptions are those of ScriptsFindArtifacts.                   *)
AvailableTellsStore ==
    ~marred /\ WorksOnce /\ Remakable =>
        \A n \in Nodes : at[n] = "called" =>
            /\ Does(n, "read") \subseteq available[n]
            /\ Ascending(n) => \A x \in available[n] \ Held :
                  \E m \in Nodes \ Upstream(n) : x \in Does(m, "delete")

(* "An artifact is available if it was published by an upstream node and has     *)
(* not been deleted by a later upstream node": later in the flow               *)
(* (artifacts.py:185-189, "in topological order").                      *)
AvailableFollowsFlow ==
    \A n \in Nodes : at[n] = "called" =>
        \A x \in available[n] : \E u \in Upstream(n) :
            /\ x \in published[u]
            /\ \A v \in Upstream(n) : u \in Upstream(v) => x \notin deleted[v]

(* ScriptsFindArtifacts for any flow that works on an empty kernel, and whatever  *)
(* is done to it.                                                             *)
RunsRepeat == WorksOnce => \A n \in Nodes : outcome[n] # "lacking"
=============================================================================
