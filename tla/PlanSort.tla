------------------------------ MODULE PlanSort ------------------------------
(***************************************************************************)
(* The loop of determine_execution_order: the level-based topological sort   *)
(* that groups the nodes of a flow into execution stages, one queue entry    *)
(* at a time.  The order in which the loop takes the entries of a stage is   *)
(* the order of a Python list; here it is any order.                         *)
(* Source: flowfile/util/execution_orderer.py.                               *)
(***************************************************************************)
EXTENDS Integers, FlowPlan

CONSTANT Graphs      \* the graphs a flow may have when its plan is computed

ASSUME GraphsAssumption == Graphs \subseteq Graph

(* A correct node without inputs is a source, which adds itself to _flow_starts  *)
(* when it is configured (add_node_to_starting_list), or can do without inputs    *)
(* (get_implicit_starter_nodes).                                             *)
ASSUME StartsAssumption ==
    \A h \in Graphs : \A n \in h.nodes \ h.incorrect :
        (\A p \in h.nodes : <<p, n>> \notin h.edges) => n \in h.starts

VARIABLES
    g,          \* the graph the plan is computed for
    current,    \* what is left of current_stage_ids
    queue,      \* the deque being filled for the next stage
    inDegree,   \* in_degree
    visited,    \* visited_nodes
    stage,      \* stage[n]: the stage n was placed in, 0 before
    level,      \* the stage being built
    pc          \* "sort", then "done" or "raised"

vars == <<g, current, queue, inDegree, visited, stage, level, pc>>

Init ==
    /\ g \in Graphs
    /\ current = InitQueue(g)
    /\ visited = InitQueue(g)
    /\ queue = {}
    /\ inDegree = [n \in NodeIds |-> InDegree(g, n)]
    /\ stage = [n \in NodeIds |-> 0]
    /\ level = 1
    /\ pc = "sort"

-----------------------------------------------------------------------------
DecrementAll(n) == [m \in NodeIds |-> inDegree[m] - 1]

Decrement(n) == [m \in NodeIds |->
    IF m \in AdjacencyList(g, n) THEN inDegree[m] - 1 ELSE inDegree[m]]

NeverReady(n) == {}

(* The successors of n whose last counted input was n. *)
Ready(n) == {m \in AdjacencyList(g, n) : inDegree[m] - 1 = 0 /\ m \notin visited}

PlaceEverySeed(n) ==
    /\ stage' = [stage EXCEPT ![n] = level]
    /\ inDegree' = Decrement(n)
    /\ queue' = queue \cup Ready(n)
    /\ visited' = visited \cup Ready(n)

(* A queue entry that is in the node map joins the stage and releases the    *)
(* successors it was the last input of; an id that is not (a skipped or      *)
(* deleted start node) is dropped with a warning.                            *)
Place(n) ==
    IF n \in NodeMap(g)
    THEN /\ stage' = [stage EXCEPT ![n] = level]
         /\ inDegree' = Decrement(n)
         /\ queue' = queue \cup Ready(n)
         /\ visited' = visited \cup Ready(n)
    ELSE UNCHANGED <<stage, inDegree, queue, visited>>

ProcessNode(n) ==
    /\ pc = "sort"
    /\ n \in current
    /\ current' = current \ {n}
    /\ Place(n)
    /\ UNCHANGED <<g, level, pc>>

NextStage ==
    /\ pc = "sort"
    /\ current = {}
    /\ queue # {}
    /\ current' = queue
    /\ queue' = {}
    /\ level' = level + 1
    /\ UNCHANGED <<g, inDegree, visited, stage, pc>>

FinishWhenComplete ==
    /\ pc = "sort"
    /\ current = {}
    /\ queue = {}
    /\ ~PlanRaises(g, stage)
    /\ pc' = "done"
    /\ UNCHANGED <<g, current, queue, inDegree, visited, stage, level>>

(* total_nodes != len(node_map) raises "Cycle detected in the graph". *)
Finish ==
    /\ pc = "sort"
    /\ current = {}
    /\ queue = {}
    /\ pc' = IF PlanRaises(g, stage) THEN "raised" ELSE "done"
    /\ UNCHANGED <<g, current, queue, inDegree, visited, stage, level>>

Terminated == pc # "sort" /\ UNCHANGED vars

Next ==
    \/ \E n \in NodeIds : ProcessNode(n)
    \/ NextStage
    \/ Finish
    \/ Terminated

Fairness == WF_vars(Next)

Spec == Init /\ [][Next]_vars /\ Fairness

-----------------------------------------------------------------------------
TypeOK ==
    /\ g \in Graph
    /\ current \in SUBSET NodeIds
    /\ queue \in SUBSET NodeIds
    /\ visited \in SUBSET NodeIds
    /\ inDegree \in [NodeIds -> Nat]
    /\ stage \in [NodeIds -> Nat]
    /\ level \in Nat
    /\ pc \in {"sort", "done", "raised"}

(* A node is placed only after every counted input of it was placed, and in  *)
(* a later stage: what lets _execute_stages run a stage's nodes in parallel  *)
(* and the stages one after the other (ExecutionStage: "no mutual            *)
(* dependencies").                                                           *)
StageOrder ==
    \A n \in NodeIds : stage[n] > 0 =>
        \A p \in InEdges(g, n) : stage[p] > 0 /\ stage[p] < stage[n]

(* in_degree[n] counts the inputs of n still to be placed, so a node cannot   *)
(* be released twice and never before its last input.                        *)
InDegreeCounts ==
    \A n \in NodeIds : inDegree[n] = Cardinality({p \in InEdges(g, n) : stage[p] = 0})

(* When the loop ends, its stages are the longest-path levels from the seeds  *)
(* that IsStaging states without a loop.                                     *)
StagesAreLevels == pc # "sort" => IsStaging(g, stage)

(* A flow all of whose nodes are wired correctly is refused only if it has a  *)
(* cycle: nothing else keeps the sort from placing every node.               *)
CorrectFlowIsPlanned ==
    pc = "raised" /\ IncorrectNodes(g) = {} => ~Acyclic(g)

(* The sort ends on every graph, cyclic ones included. *)
SortEnds == <>(pc # "sort")

(* "Raises: Exception: If a cycle is detected in the graph"                  *)
(* (determine_execution_order's docstring): a graph without a cycle has a     *)
(* plan.                                                                     *)
RaisesOnlyOnCycle == pc = "raised" => ~Acyclic(g)

(* "Nodes downstream of incorrect nodes should be skipped"                   *)
(* (tests/flowfile/test_execution_orderer.py): none of them is scheduled      *)
(* without being in the skip list.                                           *)
DownstreamOfIncorrectSkipped ==
    pc = "done" =>
        Scheduled(stage) \cap Downstream(g, IncorrectNodes(g)) \subseteq NodesToSkip(g)
=============================================================================
