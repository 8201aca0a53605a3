------------------------------ MODULE FlowPlan ------------------------------
(***************************************************************************)
(* The execution plan of a flow, as operators over a graph record:          *)
(* which nodes run_graph skips, which nodes it schedules, the stage each     *)
(* scheduled node belongs to, and what depends on what.                      *)
(* Source: flowfile/util/node_skipper.py, flowfile/util/execution_orderer.py *)
(* and the graph helpers of flowfile/flow_graph.py.                          *)
(*                                                                         *)
(* A graph g is the state FlowGraph and its FlowNodes hold:                  *)
(*   nodes      the ids in _node_db                                          *)
(*   edges      <<n, m>> when m is in n's leads_to_nodes                     *)
(*   incorrect  the nodes whose is_correct is False                          *)
(*   starts     _flow_starts and the implicit starters, which may still      *)
(*              name a deleted node (delete_node leaves _flow_starts alone)  *)
(***************************************************************************)
EXTENDS Naturals, FiniteSets

CONSTANT NodeIds

ASSUME NodeIdsFinite == IsFiniteSet(NodeIds)

Graph == [nodes : SUBSET NodeIds, edges : SUBSET (NodeIds \X NodeIds),
          incorrect : SUBSET NodeIds, starts : SUBSET NodeIds]

(* The nodes that some node of S leads to. *)
LeadsTo(g, S) == {m \in NodeIds : \E n \in S : <<n, m>> \in g.edges}

-----------------------------------------------------------------------------
(* determine_nodes_to_skip: the incorrect nodes and, because the            *)
(* comprehension is evaluated before extend, only their direct successors.   *)
IncorrectNodes(g) == g.nodes \cap g.incorrect

NodesToSkip(g) == IncorrectNodes(g) \cup LeadsTo(g, IncorrectNodes(g))

(* The all_nodes argument of determine_execution_order. *)
AllNodes(g) == g.nodes \ NodesToSkip(g)

(* build_node_map, with the successors compute_in_degrees adds to it. *)
NodeMap(g) == AllNodes(g) \cup LeadsTo(g, AllNodes(g))

(* compute_in_degrees_and_adjacency_list: only nodes of all_nodes count. *)
AdjacencyList(g, n) == IF n \in AllNodes(g) THEN LeadsTo(g, {n}) ELSE {}

InEdges(g, n) == {p \in AllNodes(g) : <<p, n>> \in g.edges}

InDegree(g, n) == Cardinality(InEdges(g, n))

(* initialize_queue: the start nodes without counted inputs if there are any *)
(* start nodes at all, every node without counted inputs otherwise.          *)
InitQueue(g) ==
    {n \in (IF g.starts # {} THEN g.starts ELSE AllNodes(g)) : InEdges(g, n) = {}}

-----------------------------------------------------------------------------
(* What perform_topological_sort computes: st[n] is the stage of node n, and *)
(* 0 when the sort never reaches n.  A seed is in stage 1; any other node    *)
(* joins the stage after the last of its counted inputs.                     *)
Seeded(g, n) == n \in InitQueue(g) \cap NodeMap(g)

Reached(g, st, n) == InEdges(g, n) # {} /\ \A p \in InEdges(g, n) : st[p] > 0

IsStaging(g, st) ==
    \A n \in NodeIds :
        IF Seeded(g, n) THEN st[n] = 1
        ELSE IF Reached(g, st, n)
             THEN /\ \A p \in InEdges(g, n) : st[n] > st[p]
                  /\ \E p \in InEdges(g, n) : st[n] = st[p] + 1
             ELSE st[n] = 0

Stagings == [NodeIds -> 0 .. Cardinality(NodeIds)]

(* The nodes of a plan's stages (ExecutionPlan.all_nodes). *)
Scheduled(st) == {n \in NodeIds : st[n] > 0}

(* The comparison behind "Cycle detected in the graph". *)
PlanRaises(g, st) == Cardinality(Scheduled(st)) # Cardinality(NodeMap(g))

-----------------------------------------------------------------------------
(* get_all_dependent_nodes: everything downstream along leads_to_nodes, the   *)
(* least set that is closed under it.                                        *)
Closed(g, S) == {C \in SUBSET NodeIds : LeadsTo(g, S \cup C) \subseteq C}

Downstream(g, S) ==
    LET closed == Closed(g, S) IN {m \in NodeIds : \A C \in closed : m \in C}

AllDependents(g, n) == Downstream(g, {n})

Acyclic(g) == \A n \in NodeIds : n \notin AllDependents(g, n)
=============================================================================
