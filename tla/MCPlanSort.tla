----------------------------- MODULE MCPlanSort -----------------------------
(* Small flows for PlanSort: every acyclic wiring of Dag, and every digraph   *)
(* (self-loops aside) over Cyclic, with each choice of the nodes whose inputs *)
(* are incomplete and of the start list the editor can leave behind.          *)
EXTENDS PlanSort

CONSTANTS Dag, Cyclic    \* sets of node ids

Parentless(N, E) == {n \in N : \A p \in N : <<p, n>> \notin E}

(* A correct node without inputs is a source or an implicit starter; a start  *)
(* node has no inputs, may be an unconfigured promise, and may be deleted.    *)
GraphsOver(N, Edges) ==
    UNION {UNION {
        {[nodes |-> N, edges |-> E, incorrect |-> B, starts |-> S] :
            S \in {T \in SUBSET (Parentless(N, E) \cup (NodeIds \ N)) :
                        Parentless(N, E) \ B \subseteq T}}
        : B \in SUBSET N} : E \in Edges}

MCGraphs ==
    GraphsOver(Dag, SUBSET {e \in Dag \X Dag : e[1] < e[2]})
    \cup GraphsOver(Cyclic, SUBSET {e \in Cyclic \X Cyclic : e[1] # e[2]})
=============================================================================
