--------------------------- MODULE PlanSortProofs ---------------------------
(***************************************************************************)
(* Proofs about PlanSort: for every graph, the loop of                       *)
(* determine_execution_order puts each node after its inputs, and what it     *)
(* computes is exactly the staging that FlowRun executes. And about           *)
(* FlowWiring: the graphs that edits make have no cycle.                      *)
(***************************************************************************)
EXTENDS PlanSort, FlowWiring, FiniteSetTheorems, WellFoundedInduction, TLAPS

Unplaced(m) == {p \in InEdges(g, m) : stage[p] = 0}

(* m is released: it has no counted input, or the last one has been placed. *)
Released(m) == \A p \in InEdges(g, m) : stage[p] > 0

-----------------------------------------------------------------------------
(* The inductive invariant. *)

Types ==
    /\ g \in Graphs
    /\ current \in SUBSET NodeIds
    /\ queue \in SUBSET NodeIds
    /\ visited \in SUBSET NodeIds
    /\ inDegree \in [NodeIds -> Int]
    /\ stage \in [NodeIds -> Nat]
    /\ level \in Nat \ {0}
    /\ pc \in {"sort", "done", "raised"}

(* Where a node is: not visited, in one of the two queues, placed, or dropped. *)
PlaceInv ==
    /\ current \cap queue = {}
    /\ current \cup queue \cup InitQueue(g) \subseteq visited
    /\ \A n \in NodeIds : stage[n] > 0 =>
          n \in visited \cap NodeMap(g) /\ n \notin current \cup queue /\ stage[n] <= level
    /\ \A n \in visited \cap NodeMap(g) : stage[n] > 0 \/ n \in current \cup queue
    /\ pc # "sort" => current = {} /\ queue = {}

(* A visited node is a seed or released; a released node is visited. *)
VisitInv ==
    \A n \in NodeIds :
        /\ n \in visited => Released(n)
        /\ n \in visited /\ InEdges(g, n) = {} => n \in InitQueue(g)
        /\ InEdges(g, n) # {} /\ Released(n) => n \in visited

(* The stages of the inputs of a node in a queue, and of a placed node. *)
LevelInv ==
    /\ \A n \in current : /\ \A p \in InEdges(g, n) : stage[p] < level
                          /\ n \in InitQueue(g) => level = 1
                          /\ n \notin InitQueue(g) =>
                                \E p \in InEdges(g, n) : level = stage[p] + 1
    /\ \A n \in queue : n \notin InitQueue(g) /\ \E p \in InEdges(g, n) : stage[p] = level
    /\ \A n \in NodeIds : stage[n] > 0 =>
          /\ \A p \in InEdges(g, n) : stage[p] > 0 /\ stage[p] < stage[n]
          /\ n \in InitQueue(g) => stage[n] = 1
          /\ n \notin InitQueue(g) => \E p \in InEdges(g, n) : stage[n] = stage[p] + 1

IInv == Types /\ PlaceInv /\ InDegreeCounts /\ VisitInv /\ LevelInv

-----------------------------------------------------------------------------
(* Facts about graphs and about counting unplaced inputs. *)

LEMMA NodeSets ==
    ASSUME NEW h \in Graphs
    PROVE  /\ InitQueue(h) \subseteq NodeIds
           /\ NodeMap(h) \subseteq NodeIds
           /\ \A m : InEdges(h, m) \subseteq NodeIds
           /\ \A n, m \in NodeIds : m \in AdjacencyList(h, n) <=> n \in InEdges(h, m)
           /\ \A n : AdjacencyList(h, n) \subseteq NodeIds \cap NodeMap(h)
           /\ \A n \in InitQueue(h) : InEdges(h, n) = {}
  <1>1. h \in Graph
    BY GraphsAssumption
  <1>2. AllNodes(h) \subseteq NodeIds /\ h.starts \subseteq NodeIds
    BY <1>1 DEF AllNodes, Graph
  <1> QED
    BY <1>1, <1>2 DEF InitQueue, NodeMap, LeadsTo, InEdges, AdjacencyList

LEMMA UnplacedFinite ==
    ASSUME NEW h \in Graphs, NEW st \in [NodeIds -> Nat], NEW m,
           NEW U, U = {p \in InEdges(h, m) : st[p] = 0}
    PROVE  /\ IsFiniteSet(U) /\ Cardinality(U) \in Nat
           /\ Cardinality(U) = 0 <=> \A p \in InEdges(h, m) : st[p] > 0
  <1>1. U \subseteq NodeIds /\ InEdges(h, m) \subseteq NodeIds
    BY NodeSets
  <1>2. IsFiniteSet(U)
    BY <1>1, FS_Subset, NodeIdsFinite
  <1>3. U = {} <=> \A p \in InEdges(h, m) : st[p] > 0
    BY <1>1
  <1> QED
    BY <1>2, <1>3, FS_CardinalityType, FS_EmptySet

-----------------------------------------------------------------------------
LEMMA InitIInv == Init => IInv
  <1> SUFFICES ASSUME Init PROVE IInv
    OBVIOUS
  <1>1. Types
    <2>1. \A n \in NodeIds : InDegree(g, n) \in Nat
      BY NodeSets, FS_Subset, FS_CardinalityType, NodeIdsFinite DEF InDegree, Init
    <2> QED
      BY <2>1, NodeSets DEF Init, Types
  <1>2. \A n \in NodeIds : stage[n] = 0
    BY DEF Init
  <1>3. \A m : Unplaced(m) = InEdges(g, m)
    BY <1>1, <1>2, NodeSets DEF Unplaced, Types
  <1>4. InDegreeCounts
    BY <1>3 DEF Init, InDegreeCounts, InDegree, Unplaced
  <1>5. VisitInv
    BY <1>1, <1>2, NodeSets DEF Init, VisitInv, Released, Types
  <1>6. PlaceInv /\ LevelInv
    BY <1>1, <1>2, NodeSets DEF Init, PlaceInv, LevelInv, Types
  <1> QED
    BY <1>1, <1>4, <1>5, <1>6 DEF IInv

(* Taking an id that is in the node map from the current stage. *)
LEMMA PlaceNode ==
    ASSUME IInv, NEW n \in NodeIds, ProcessNode(n), n \in NodeMap(g)
    PROVE  IInv'
  <1>1. /\ g' = g /\ level' = level /\ pc' = pc /\ pc = "sort" /\ n \in current
        /\ current' = current \ {n}
        /\ stage' = [stage EXCEPT ![n] = level]
        /\ inDegree' = Decrement(n)
        /\ queue' = queue \cup Ready(n)
        /\ visited' = visited \cup Ready(n)
    BY DEF ProcessNode, Place
  <1>2. Types
    BY DEF IInv
  <1>3. g \in Graphs /\ level \in Nat /\ level > 0 /\ stage \in [NodeIds -> Nat]
    BY <1>2 DEF Types
  <1>4. stage'[n] = level /\ \A m \in NodeIds \ {n} : stage'[m] = stage[m]
    BY <1>1, <1>3
  <1>5. n \in visited /\ Released(n) /\ stage[n] = 0
    BY <1>1, <1>3 DEF IInv, PlaceInv, VisitInv
  <1>6. n \notin InEdges(g, n)
    BY <1>5 DEF Released
  <1>7. \A m : InEdges(g, m) \subseteq NodeIds
    BY <1>3, NodeSets
  <1>8. \A m \in NodeIds : n \in InEdges(g, m) <=> m \in AdjacencyList(g, n)
    BY <1>3, NodeSets
  <1>9. Ready(n) \subseteq NodeIds \cap NodeMap(g)
    BY <1>3, NodeSets DEF Ready
  <1>10. \A m : Unplaced(m)' = Unplaced(m) \ {n}
    BY <1>1, <1>3, <1>4, <1>7 DEF Unplaced
  <1>11. ASSUME NEW m \in NodeIds
         PROVE  /\ inDegree'[m] = Cardinality(Unplaced(m)')
                /\ m \in AdjacencyList(g, n) => inDegree'[m] = inDegree[m] - 1
    <2>1. inDegree[m] = Cardinality(Unplaced(m)) /\ IsFiniteSet(Unplaced(m))
      BY <1>3, UnplacedFinite DEF IInv, InDegreeCounts, Unplaced
    <2>2. n \in Unplaced(m) <=> m \in AdjacencyList(g, n)
      BY <1>5, <1>8 DEF Unplaced
    <2>3. Cardinality(Unplaced(m) \ {n}) = IF n \in Unplaced(m) THEN inDegree[m] - 1 ELSE inDegree[m]
      BY <2>1, FS_RemoveElement
    <2> QED
      BY <1>1, <1>10, <2>2, <2>3 DEF Decrement
  <1>12. Types'
    <2>1. inDegree \in [NodeIds -> Int]
      BY <1>2 DEF Types
    <2> QED
      BY <1>1, <1>2, <1>9, <2>1 DEF Types, Decrement
  <1>13. InDegreeCounts'
    BY <1>1, <1>11 DEF InDegreeCounts, Unplaced
  <1>14. \A m \in NodeIds : Released(m)' <=> inDegree'[m] = 0
    <2> SUFFICES ASSUME NEW m \in NodeIds PROVE Released(m)' <=> inDegree'[m] = 0
      OBVIOUS
    <2>1. g' = g /\ g \in Graph /\ stage' \in [NodeIds -> Nat]
      BY <1>1, <1>3, <1>12, GraphsAssumption DEF Types
    <2>2. IsFiniteSet(Unplaced(m)')
      <3>1. IsFiniteSet(Unplaced(m))
        BY <1>3, UnplacedFinite DEF Unplaced
      <3>2. Unplaced(m)' \in SUBSET Unplaced(m)
        BY <1>10
      <3> QED BY <3>1, <3>2, FS_Subset
    <2>3. inDegree'[m] = 0 <=> Unplaced(m)' = {}
      BY <1>11, <2>2, FS_EmptySet
    <2>4. Unplaced(m)' = {p \in InEdges(g, m) : stage'[p] = 0}
      BY <2>1 DEF Unplaced
    <2>5. Released(m)' <=> \A p \in InEdges(g, m) : stage'[p] > 0
      BY <2>1 DEF Released
    <2>6. \A p \in InEdges(g, m) : stage'[p] \in Nat
      BY <1>7, <2>1
    <2> QED BY ONLY <2>3, <2>4, <2>5, <2>6
  <1>15. \A m \in NodeIds : m \in Ready(n) <=>
            m \in AdjacencyList(g, n) /\ m \notin visited /\ Released(m)'
    BY <1>9, <1>11, <1>14 DEF Ready
  <1>16. ASSUME NEW m \in NodeIds
         PROVE  /\ m \in visited' => Released(m)'
                /\ m \in visited' /\ InEdges(g, m)' = {} => m \in InitQueue(g)'
                /\ InEdges(g, m)' # {} /\ Released(m)' => m \in visited'
    <2>1. m \in visited => Released(m)'
      BY <1>1, <1>3, <1>4, <1>7 DEF IInv, VisitInv, Released
    <2>2. m \in Ready(n) => Released(m)' /\ InEdges(g, m) # {}
      BY <1>8, <1>15
    <2>3. m \notin visited /\ InEdges(g, m) # {} /\ Released(m)' => m \in AdjacencyList(g, n)
      <3>1. n \notin InEdges(g, m) => (Released(m)' <=> Released(m))
        BY <1>1, <1>4, <1>7 DEF Released
      <3> QED
        BY <1>8, <3>1 DEF IInv, VisitInv
    <2> QED
      BY <1>1, <1>15, <2>1, <2>2, <2>3 DEF IInv, VisitInv
  <1>17. VisitInv'
    BY <1>16 DEF VisitInv
  <1>18. PlaceInv'
    BY <1>1, <1>3, <1>4, <1>5, <1>9, <1>15 DEF IInv, PlaceInv
  <1>19. ASSUME NEW m \in NodeIds, stage'[m] > 0
         PROVE  /\ \A p \in InEdges(g, m) : stage'[p] > 0 /\ stage'[p] < stage'[m]
                /\ m \in InitQueue(g) => stage'[m] = 1
                /\ m \notin InitQueue(g) => \E p \in InEdges(g, m) : stage'[m] = stage'[p] + 1
    <2>1. CASE m = n
      <3>1. \A p \in InEdges(g, n) : stage'[p] = stage[p] /\ stage[p] > 0 /\ stage[p] < level
        BY <1>1, <1>4, <1>5, <1>6, <1>7 DEF Released, IInv, LevelInv
      <3> QED
        BY <1>1, <1>4, <2>1, <3>1 DEF IInv, LevelInv
    <2>2. CASE m # n
      <3>1. stage'[m] = stage[m] /\ \A p \in InEdges(g, m) : stage[p] > 0 /\ stage[p] < stage[m]
        BY <1>4, <1>19, <2>2 DEF IInv, LevelInv
      <3>2. \A p \in InEdges(g, m) : p # n /\ stage'[p] = stage[p]
        BY <1>4, <1>5, <1>7, <3>1
      <3> QED
        BY <3>1, <3>2, <1>19 DEF IInv, LevelInv
    <2> QED
      BY <2>1, <2>2
  <1>20. ASSUME NEW m \in current'
         PROVE  /\ \A p \in InEdges(g, m) : stage'[p] < level
                /\ m \in InitQueue(g) => level = 1
                /\ m \notin InitQueue(g) => \E p \in InEdges(g, m) : level = stage'[p] + 1
    <2>1. m \in current /\ m \in visited
      BY <1>1, <1>20 DEF IInv, PlaceInv
    <2>2. \A p \in InEdges(g, m) : p # n /\ stage'[p] = stage[p]
      BY <1>2, <1>4, <1>5, <1>7, <2>1 DEF IInv, VisitInv, Released, Types
    <2> QED
      BY <2>1, <2>2 DEF IInv, LevelInv
  <1>21. ASSUME NEW m \in queue'
         PROVE  m \notin InitQueue(g) /\ \E p \in InEdges(g, m) : stage'[p] = level
    <2>1. CASE m \in queue
      <3>1. m \in visited /\ m \in NodeIds
        BY <1>2, <2>1 DEF IInv, PlaceInv, Types
      <3>2. \A p \in InEdges(g, m) : p # n /\ stage'[p] = stage[p]
        BY <1>4, <1>5, <1>7, <3>1 DEF IInv, VisitInv, Released
      <3> QED
        BY <2>1, <3>2 DEF IInv, LevelInv
    <2>2. CASE m \in Ready(n)
      <3>1. n \in InEdges(g, m)
        BY <1>8, <1>9, <1>15, <2>2
      <3> QED
        BY <1>3, <1>4, <3>1, NodeSets
    <2> QED
      BY <1>1, <2>1, <2>2
  <1>22. LevelInv'
    BY <1>1, <1>19, <1>20, <1>21 DEF LevelInv
  <1> QED
    BY <1>12, <1>13, <1>17, <1>18, <1>22 DEF IInv

(* Dropping an id that is not in the node map. *)
LEMMA DropNode ==
    ASSUME IInv, NEW n \in NodeIds, ProcessNode(n), n \notin NodeMap(g)
    PROVE  IInv'
  <1>1. /\ UNCHANGED <<g, level, pc, stage, inDegree, queue, visited>>
        /\ current' = current \ {n}
    BY DEF ProcessNode, Place
  <1>2. Types' /\ InDegreeCounts' /\ VisitInv'
    BY <1>1 DEF IInv, Types, InDegreeCounts, VisitInv, Released
  <1>3. PlaceInv'
    BY <1>1 DEF IInv, PlaceInv
  <1>4. LevelInv'
    BY <1>1 DEF IInv, LevelInv
  <1> QED
    BY <1>2, <1>3, <1>4 DEF IInv

LEMMA NextIInv == IInv /\ [Next]_vars => IInv'
  <1> SUFFICES ASSUME IInv, [Next]_vars PROVE IInv'
    OBVIOUS
  <1>1. ASSUME NEW n \in NodeIds, ProcessNode(n) PROVE IInv'
    BY <1>1, PlaceNode, DropNode
  <1>2. CASE NextStage
    <2>1. /\ UNCHANGED <<g, inDegree, visited, stage, pc>>
          /\ current = {} /\ current' = queue /\ queue' = {} /\ level' = level + 1
      BY <1>2 DEF NextStage
    <2>2. Types' /\ InDegreeCounts' /\ VisitInv'
      BY <2>1 DEF IInv, Types, InDegreeCounts, VisitInv, Released
    <2>3. PlaceInv'
      BY <2>1, <1>2 DEF NextStage, IInv, PlaceInv, Types
    <2>4. LevelInv'
      <3>1. ASSUME NEW n \in queue, NEW p \in InEdges(g, n) PROVE stage[p] < level + 1
        <4>1. stage[p] \in Nat /\ level \in Nat /\ (stage[p] > 0 => stage[p] <= level)
          BY NodeSets DEF IInv, Types, PlaceInv
        <4> QED
          BY <4>1 DEF IInv, Types
      <3> QED
        BY <2>1, <3>1 DEF IInv, LevelInv
    <2> QED
      BY <2>2, <2>3, <2>4 DEF IInv
  <1>3. CASE Finish
    <2>1. UNCHANGED <<g, current, queue, inDegree, visited, stage, level>>
          /\ current = {} /\ queue = {} /\ pc' \in {"done", "raised"}
      BY <1>3 DEF Finish
    <2> QED
      BY <2>1 DEF IInv, Types, PlaceInv, InDegreeCounts, VisitInv, LevelInv, Released
  <1>4. CASE UNCHANGED vars
    BY <1>4 DEF vars, IInv, Types, PlaceInv, InDegreeCounts, VisitInv, LevelInv, Released
  <1> QED
    BY <1>1, <1>2, <1>3, <1>4 DEF Next, Terminated

LEMMA Invariant == Spec => []IInv
  BY InitIInv, NextIInv, PTL DEF Spec

-----------------------------------------------------------------------------
(* The variables keep their types; in particular no in-degree ever becomes     *)
(* negative.                                                                 *)
THEOREM TypeCorrect == Spec => []TypeOK
  <1>1. ASSUME IInv PROVE TypeOK
    <2>1. ASSUME NEW n \in NodeIds PROVE inDegree[n] \in Nat
      <3>1. g \in Graphs /\ stage \in [NodeIds -> Nat]
        BY <1>1 DEF IInv, Types
      <3>2. inDegree[n] = Cardinality(Unplaced(n))
        BY <1>1 DEF IInv, InDegreeCounts, Unplaced
      <3>3. Cardinality(Unplaced(n)) \in Nat
        BY <3>1, UnplacedFinite DEF Unplaced
      <3> QED
        BY <3>2, <3>3
    <2> QED
      BY <1>1, <2>1, GraphsAssumption DEF IInv, Types, TypeOK
  <1> QED
    BY <1>1, Invariant, PTL

(* Every placed node comes after all of its counted inputs, on every graph.    *)
THEOREM StagesRespectInputs == Spec => []StageOrder
  <1>1. IInv => StageOrder
    BY DEF IInv, LevelInv, StageOrder
  <1> QED
    BY <1>1, Invariant, PTL

(* An in-degree is exactly the number of inputs still to be placed.            *)
THEOREM InDegreesCount == Spec => []InDegreeCounts
  <1>1. IInv => InDegreeCounts
    BY DEF IInv
  <1> QED
    BY <1>1, Invariant, PTL

(* What the loop ends with is the staging IsStaging describes without a loop,   *)
(* the one FlowRun executes.                                                 *)
THEOREM LoopComputesStaging == Spec => []StagesAreLevels
  <1>1. ASSUME IInv, pc # "sort", NEW n \in NodeIds
        PROVE  IF Seeded(g, n) THEN stage[n] = 1
               ELSE IF Reached(g, stage, n)
                    THEN /\ \A p \in InEdges(g, n) : stage[n] > stage[p]
                         /\ \E p \in InEdges(g, n) : stage[n] = stage[p] + 1
                    ELSE stage[n] = 0
    <2>1. current = {} /\ queue = {} /\ stage[n] \in Nat
      BY <1>1 DEF IInv, PlaceInv, Types
    <2>2. Seeded(g, n) => stage[n] = 1
      BY <1>1, <2>1 DEF IInv, PlaceInv, LevelInv, Seeded
    <2>3. ASSUME Reached(g, stage, n)
          PROVE  /\ \A p \in InEdges(g, n) : stage[n] > stage[p]
                 /\ \E p \in InEdges(g, n) : stage[n] = stage[p] + 1
      <3>1. n \in visited /\ InEdges(g, n) # {}
        BY <1>1, <2>3 DEF IInv, VisitInv, Reached, Released
      <3>2. n \in NodeMap(g)
        BY <1>1, <3>1 DEF InEdges, NodeMap, LeadsTo
      <3>3. stage[n] > 0
        BY <1>1, <2>1, <3>1, <3>2 DEF IInv, PlaceInv
      <3>4. n \notin InitQueue(g)
        BY <3>1 DEF InitQueue
      <3>5. \A p \in InEdges(g, n) : stage[p] \in Nat
        BY <1>1, NodeSets DEF IInv, Types
      <3> QED
        BY <1>1, <2>1, <3>3, <3>4, <3>5 DEF IInv, LevelInv
    <2>4. ASSUME ~Seeded(g, n), ~Reached(g, stage, n), stage[n] > 0 PROVE FALSE
      <3>1. n \notin InitQueue(g)
        BY <1>1, <2>4 DEF IInv, PlaceInv, Seeded
      <3> QED
        BY <1>1, <2>4, <3>1 DEF IInv, LevelInv, Reached
    <2> QED
      BY <2>1, <2>2, <2>3, <2>4
  <1>2. IInv => StagesAreLevels
    BY <1>1 DEF StagesAreLevels, IsStaging
  <1> QED
    BY <1>2, Invariant, PTL

-----------------------------------------------------------------------------
(* A refused flow has a cycle.                                               *)

(* The least-number principle, for a set of naturals.                          *)
LEMMA LeastNatural ==
    ASSUME NEW T \in SUBSET Nat, T # {}
    PROVE  \E m \in T : \A k \in T : m <= k
  <1> DEFINE R == {ss \in Nat \X Nat : ss[1] < ss[2]}
  <1>1. IsWellFoundedOn(R, Nat)
    BY NatLessThanWellFounded DEF OpToRel
  <1> HIDE DEF R
  <1>2. PICK m \in T : \A k \in T : <<k, m>> \notin R
    BY <1>1, WFMin
  <1>3. \A k \in T : ~(k < m)
    BY <1>2 DEF R
  <1> QED
    BY <1>3

(* Downstream contains the edges and is transitive.                           *)
LEMMA EdgesAreDownstream ==
    ASSUME NEW h \in Graph, NEW p \in NodeIds, NEW n \in NodeIds, <<p, n>> \in h.edges
    PROVE  n \in Downstream(h, {p})
  BY DEF Downstream, Closed, LeadsTo

LEMMA DownstreamTransitive ==
    ASSUME NEW h \in Graph, NEW q \in NodeIds, NEW p \in Downstream(h, {q}),
           NEW n \in Downstream(h, {p})
    PROVE  n \in Downstream(h, {q})
  <1> SUFFICES ASSUME NEW C \in Closed(h, {q}) PROVE n \in C
    BY DEF Downstream
  <1>1. p \in C
    BY DEF Downstream
  <1>2. LeadsTo(h, {p} \cup C) \subseteq LeadsTo(h, {q} \cup C)
    BY <1>1 DEF LeadsTo
  <1>3. C \in Closed(h, {p})
    BY <1>2 DEF Closed
  <1> QED
    BY <1>3 DEF Downstream

(* In a graph without a cycle no set of nodes feeds itself: a node of it with   *)
(* the fewest ancestors in it has none.                                      *)
LEMMA NoSelfFeedingSet ==
    ASSUME NEW h \in Graph, Acyclic(h), NEW U \in SUBSET NodeIds,
           \A n \in U : \E p \in U : <<p, n>> \in h.edges
    PROVE  U = {}
  <1> SUFFICES ASSUME U # {} PROVE FALSE
    OBVIOUS
  <1> DEFINE Above(n) == {p \in U : n \in Downstream(h, {p})}
             Counts == {Cardinality(Above(n)) : n \in U}
  <1>1. ASSUME NEW n \in U
        PROVE  IsFiniteSet(Above(n)) /\ Cardinality(Above(n)) \in Nat
    <2>1. Above(n) \in SUBSET NodeIds
      OBVIOUS
    <2> QED
      BY <2>1, NodeIdsFinite, FS_Subset, FS_CardinalityType
  <1>2. Counts \in SUBSET Nat /\ Counts # {}
    BY <1>1
  <1> HIDE DEF Above
  <1>3. PICK n \in U : \A m \in U : Cardinality(Above(n)) <= Cardinality(Above(m))
    <2> HIDE DEF Counts
    <2>1. PICK c \in Counts : \A d \in Counts : c <= d
      BY <1>2, LeastNatural
    <2> QED
      BY <2>1 DEF Counts
  <1>4. PICK p \in U : <<p, n>> \in h.edges
    OBVIOUS
  <1>5. p \in Above(n)
    BY <1>4, EdgesAreDownstream DEF Above
  <1>6. Above(p) \subseteq Above(n)
    BY <1>5, DownstreamTransitive DEF Above
  <1>7. p \notin Above(p)
    BY DEF Acyclic, AllDependents, Above
  <1>8. Cardinality(Above(p)) < Cardinality(Above(n))
    <2>1. /\ Cardinality(Above(p)) <= Cardinality(Above(n))
          /\ Cardinality(Above(n)) = Cardinality(Above(p)) => Above(n) = Above(p)
      BY <1>1, <1>6, FS_Subset
    <2> QED
      BY <1>1, <1>5, <1>7, <2>1
  <1> QED
    BY <1>1, <1>3, <1>8

(* What the sort says when it raises.                                         *)
RaisedInv == pc = "raised" => PlanRaises(g, stage)

LEMMA RaisedStep == RaisedInv /\ [Next]_vars => RaisedInv'
  <1> SUFFICES ASSUME RaisedInv, [Next]_vars PROVE RaisedInv'
    OBVIOUS
  <1>1. ASSUME NEW n \in NodeIds, ProcessNode(n) PROVE RaisedInv'
    BY <1>1 DEF ProcessNode, RaisedInv
  <1>2. CASE NextStage
    BY <1>2 DEF NextStage, RaisedInv
  <1>3. CASE Finish
    BY <1>3 DEF Finish, RaisedInv
  <1>4. CASE UNCHANGED vars
    BY <1>4 DEF vars, RaisedInv
  <1> QED
    BY <1>1, <1>2, <1>3, <1>4 DEF Next, Terminated

(* When nothing is left in the queues, each node that was not placed waits for  *)
(* another one.                                                              *)
LEMMA LeftOverWait ==
    ASSUME IInv, pc = "raised", IncorrectNodes(g) = {},
           NEW n \in NodeMap(g), stage[n] = 0
    PROVE  \E p \in NodeMap(g) : stage[p] = 0 /\ <<p, n>> \in g.edges
  <1>1. g \in Graphs /\ n \in NodeIds /\ stage \in [NodeIds -> Nat]
    BY NodeSets DEF IInv, Types
  <1>2. n \notin visited
    BY DEF IInv, PlaceInv
  <1>3. g \in Graph /\ AllNodes(g) = g.nodes /\ AllNodes(g) \subseteq NodeIds
    BY <1>1, GraphsAssumption DEF AllNodes, NodesToSkip, LeadsTo, Graph
  <1>4. InEdges(g, n) # {}
    <2> SUFFICES ASSUME InEdges(g, n) = {} PROVE FALSE
      OBVIOUS
    <2>1. \A p \in g.nodes : <<p, n>> \notin g.edges
      BY <1>3 DEF InEdges
    <2>2. n \in g.nodes \ g.incorrect
      BY <1>1, <1>3, <2>1 DEF NodeMap, LeadsTo, IncorrectNodes
    <2>3. n \in g.starts
      BY <1>1, <2>1, <2>2, StartsAssumption
    <2>4. n \in InitQueue(g)
      BY <2>3 DEF InitQueue
    <2> QED
      BY <1>2, <2>4 DEF IInv, PlaceInv
  <1>5. PICK p \in InEdges(g, n) : stage[p] = 0
    <2>1. ~Released(n)
      BY <1>1, <1>2, <1>4 DEF IInv, VisitInv
    <2>2. \A p \in InEdges(g, n) : p \in NodeIds
      BY <1>1, NodeSets
    <2> QED
      BY <1>1, <2>1, <2>2 DEF Released
  <1> QED
    BY <1>5 DEF InEdges, NodeMap

(* CorrectFlowIsPlanned for every flow: what the sort leaves behind when it      *)
(* raises feeds itself, so there is a cycle.                                   *)
THEOREM CorrectFlowsArePlanned == Spec => []CorrectFlowIsPlanned
  <1>1. ASSUME IInv, RaisedInv PROVE CorrectFlowIsPlanned
    <2> SUFFICES ASSUME pc = "raised", IncorrectNodes(g) = {}, Acyclic(g) PROVE FALSE
      BY DEF CorrectFlowIsPlanned
    <2> DEFINE U == {n \in NodeMap(g) : stage[n] = 0}
    <2>1. g \in Graphs /\ g \in Graph /\ stage \in [NodeIds -> Nat]
      BY <1>1, GraphsAssumption DEF IInv, Types
    <2>2. NodeMap(g) \subseteq NodeIds
      BY <2>1, NodeSets
    <2>3. \A n \in U : \E p \in U : <<p, n>> \in g.edges
      BY <1>1, LeftOverWait
    <2>4. U = {}
      BY <2>1, <2>2, <2>3, NoSelfFeedingSet
    <2>5. Scheduled(stage) = NodeMap(g)
      BY <1>1, <2>1, <2>2, <2>4 DEF Scheduled, IInv, PlaceInv
    <2> QED
      BY <1>1, <2>5 DEF RaisedInv, PlanRaises
  <1>2. Init => RaisedInv
    BY DEF Init, RaisedInv
  <1>3. Spec => []RaisedInv
    BY <1>2, RaisedStep, PTL DEF Spec
  <1> QED
    BY <1>1, <1>3, Invariant, PTL

-----------------------------------------------------------------------------
(* The wiring of a flow while it is edited (FlowWiring): no edge the leads      *)
(* draw closes a cycle, and every input has its own entry among them.  A step   *)
(* that takes an entry away takes at least one input, so counts are compared.   *)

(* Counting entries of sequences. *)
Places(s, m) == {i \in 1 .. Len(s) : s[i] = m}

LEMMA FirstNumbers ==
  ASSUME NEW L \in Nat
  PROVE  IsFiniteSet(1 .. L) /\ Cardinality(1 .. L) = L
<1>1. 1 \in Int /\ L \in Int
  OBVIOUS
<1>2. IsFiniteSet(1 .. L) /\ Cardinality(1 .. L) = IF 1 > L THEN 0 ELSE L - 1 + 1
  BY <1>1, FS_Interval, Zenon
<1>3. (IF 1 > L THEN 0 ELSE L - 1 + 1) = L
  OBVIOUS
<1> QED BY <1>2, <1>3

LEMMA PlacesFinite ==
  ASSUME NEW L \in Nat, NEW T \in SUBSET (1 .. L)
  PROVE  IsFiniteSet(T) /\ Cardinality(T) \in 0 .. L
<1> DEFINE I == 1 .. L
<1>1. IsFiniteSet(I) /\ Cardinality(I) = L /\ T \in SUBSET I
  BY FirstNumbers
<1> HIDE DEF I
<1>2. IsFiniteSet(T) /\ Cardinality(T) <= Cardinality(I)
  BY ONLY <1>1, FS_Subset
<1>3. Cardinality(T) \in Nat
  BY <1>2, FS_CardinalityType
<1> QED BY <1>1, <1>2, <1>3

(* The positions in K have the ranks 1 .. Cardinality(K). *)
LEMMA RanksAreAll ==
  ASSUME NEW L \in Nat, NEW K \in SUBSET (1 .. L), NEW i \in 1 .. Cardinality(K)
  PROVE  \E k \in K : Cardinality({h \in K : h <= k}) = i
<1> DEFINE below(k) == {h \in K : h <= k}
           r == [k \in K |-> Cardinality(below(k))]
<1>1. IsFiniteSet(K) /\ Cardinality(K) \in Nat
  BY PlacesFinite
<1>2. ASSUME NEW k \in K
      PROVE IsFiniteSet(below(k)) /\ Cardinality(below(k)) \in 1 .. Cardinality(K)
  <2>1. below(k) \in SUBSET K /\ k \in below(k)
    OBVIOUS
  <2> HIDE DEF below
  <2> QED BY <1>1, <2>1, FS_Subset, FS_CardinalityType, FS_EmptySet
<1>3. ASSUME NEW k \in K, NEW h \in K, k < h PROVE r[k] < r[h]
  <2>1. below(k) \in SUBSET below(h) /\ h \in below(h) \ below(k)
    <3>1. k \in Nat /\ h \in Nat /\ K \in SUBSET Nat
      OBVIOUS
    <3>2. \A j \in K : j <= k => j <= h
      BY <1>3, <3>1
    <3>3. h <= h /\ ~(h <= k)
      BY <1>3, <3>1
    <3>4. below(k) \in SUBSET below(h)
      BY <3>2
    <3> QED BY <3>3, <3>4
  <2>2. Cardinality(below(k)) <= Cardinality(below(h)) /\ Cardinality(below(k)) # Cardinality(below(h))
    <3> HIDE DEF below
    <3> QED BY <1>2, <2>1, FS_Subset
  <2> QED BY <1>2, <2>2
<1>4. r \in [K -> 1 .. Cardinality(K)]
  BY <1>2
<1>5. \A k, h \in K : r[k] = r[h] => k = h
  <2> SUFFICES ASSUME NEW k \in K, NEW h \in K, r[k] = r[h], k # h PROVE FALSE
    OBVIOUS
  <2>1. k < h \/ h < k
    OBVIOUS
  <2> HIDE DEF r
  <2> QED BY <1>3, <1>4, <2>1
<1>6. r \in Injection(K, 1 .. Cardinality(K))
  <2> HIDE DEF r
  <2> QED BY <1>4, <1>5 DEF Injection, IsInjective
<1>7. r \in Surjection(K, 1 .. Cardinality(K))
  <2>1. IsFiniteSet(1 .. Cardinality(K)) /\ Cardinality(1 .. Cardinality(K)) = Cardinality(K)
    BY <1>1, FirstNumbers
  <2> HIDE DEF r
  <2> QED BY <1>6, <2>1, FS_Injection
<1>8. PICK k \in K : r[k] = i
  <2> HIDE DEF r
  <2> QED BY <1>7 DEF Surjection
<1> QED BY <1>8

(* What is kept is the entries at the positions, each once. *)
LEMMA KeptEntries ==
  ASSUME NEW S, NEW s \in Seq(S), NEW K \in SUBSET (1 .. Len(s))
  PROVE  /\ Keep(s, K) \in Seq(S)
         /\ Len(Keep(s, K)) = Cardinality(K)
         /\ Cardinality(K) \in 0 .. Len(s)
         /\ \E f \in Bijection(1 .. Cardinality(K), K) :
              \A i \in 1 .. Cardinality(K) : Keep(s, K)[i] = s[f[i]]
<1> DEFINE rank(k) == Cardinality({h \in K : h <= k})
           N == Cardinality(K)
           at(i) == CHOOSE k \in K : rank(k) = i
           f == [i \in 1 .. N |-> at(i)]
<1>1. IsFiniteSet(K) /\ N \in 0 .. Len(s) /\ Len(s) \in Nat
  BY PlacesFinite
<1>2. ASSUME NEW i \in 1 .. N PROVE at(i) \in K /\ rank(at(i)) = i
  <2>1. \E k \in K : rank(k) = i
    BY <1>1, RanksAreAll
  <2> HIDE DEF rank
  <2> QED BY <2>1
<1>3. Keep(s, K) = [i \in 1 .. N |-> s[at(i)]]
  BY DEF Keep
<1> HIDE DEF rank, at
<1>4. Keep(s, K) \in Seq(S) /\ Len(Keep(s, K)) = N
  <2>1. \A i \in 1 .. N : s[at(i)] \in S
    <3>1. \A k \in K : s[k] \in S
      OBVIOUS
    <3> QED BY <1>2, <3>1
  <2> HIDE DEF N
  <2> QED BY <1>1, <1>3, <2>1
<1>5. f \in Injection(1 .. N, K)
  <2>1. f \in [1 .. N -> K]
    BY <1>2
  <2>2. \A i, j \in 1 .. N : f[i] = f[j] => i = j
    BY <1>2
  <2> HIDE DEF f
  <2> QED BY <2>1, <2>2 DEF Injection, IsInjective
<1>6. f \in Surjection(1 .. N, K)
  <2>1. IsFiniteSet(1 .. N) /\ Cardinality(1 .. N) = Cardinality(K)
    BY <1>1, FirstNumbers
  <2> HIDE DEF f
  <2> QED BY <1>1, <1>5, <2>1, FS_Injection
<1>7. \A i \in 1 .. N : Keep(s, K)[i] = s[f[i]]
  BY <1>3
<1> HIDE DEF f, N
<1> QED BY <1>1, <1>4, <1>5, <1>6, <1>7 DEF Bijection, N

LEMMA KeptOccurrences ==
  ASSUME NEW S, NEW s \in Seq(S), NEW K \in SUBSET (1 .. Len(s)), NEW m
  PROVE  Occurrences(Keep(s, K), m) = Cardinality(K \cap Places(s, m))
<1> DEFINE t == Keep(s, K)
           N == Cardinality(K)
           A == {i \in 1 .. N : t[i] = m}
           B == K \cap Places(s, m)
<1>1. PICK f \in Bijection(1 .. N, K) : \A i \in 1 .. N : t[i] = s[f[i]]
  BY KeptEntries
<1>2. Len(t) = N
  BY KeptEntries
<1>3. B = {k \in K : s[k] = m}
  BY DEF Places
<1> DEFINE h == [i \in A |-> f[i]]
<1> HIDE DEF t, N
<1>4. f \in [1 .. N -> K] /\ (\A i, j \in 1 .. N : f[i] = f[j] => i = j)
        /\ \A k \in K : \E i \in 1 .. N : f[i] = k
  BY <1>1 DEF Bijection, Injection, Surjection, IsInjective
<1> HIDE DEF B
<1>5. h \in [A -> B]
  BY <1>1, <1>3, <1>4
<1>6. \A i, j \in A : h[i] = h[j] => i = j
  BY <1>4
<1>7. \A k \in B : \E i \in A : h[i] = k
  <2> SUFFICES ASSUME NEW k \in B PROVE \E i \in A : h[i] = k
    OBVIOUS
  <2>1. PICK i \in 1 .. N : f[i] = k
    BY <1>3, <1>4
  <2> QED BY <1>1, <1>3, <2>1
<1>8. ExistsBijection(A, B)
  <2> HIDE DEF A, h
  <2> QED BY <1>5, <1>6, <1>7 DEF ExistsBijection, Bijection, Injection, Surjection, IsInjective
<1>9. IsFiniteSet(A)
  <2>1. N \in Nat
    BY PlacesFinite DEF N
  <2> QED BY <2>1, PlacesFinite
<1>10. Cardinality(B) = Cardinality(A)
  <2> HIDE DEF A
  <2> QED BY <1>8, <1>9, FS_Bijection
<1> QED BY <1>2, <1>10 DEF Occurrences, t, B

LEMMA OccurrenceCounts ==
  ASSUME NEW S, NEW s \in Seq(S), NEW m
  PROVE  /\ Occurrences(s, m) \in Nat
         /\ IsFiniteSet(Places(s, m))
         /\ Occurrences(s, m) = Cardinality(Places(s, m))
         /\ m \in Range(s) <=> Occurrences(s, m) > 0
<1>1. Places(s, m) \in SUBSET (1 .. Len(s)) /\ Len(s) \in Nat /\ DOMAIN s = 1 .. Len(s)
  BY DEF Places
<1>2. IsFiniteSet(Places(s, m)) /\ Cardinality(Places(s, m)) \in Nat
  BY <1>1, PlacesFinite
<1>3. m \in Range(s) <=> Places(s, m) # {}
  BY <1>1 DEF Range, Places
<1>4. Cardinality(Places(s, m)) = 0 <=> Places(s, m) = {}
  BY <1>2, FS_EmptySet
<1>5. Occurrences(s, m) = Cardinality(Places(s, m))
  BY DEF Occurrences, Places
<1> QED BY <1>2, <1>3, <1>4, <1>5

LEMMA AppendOccurrences ==
  ASSUME NEW S, NEW s \in Seq(S), NEW x \in S, NEW m
  PROVE  Occurrences(Append(s, x), m) = Occurrences(s, m) + (IF x = m THEN 1 ELSE 0)
<1>1. Len(s) \in Nat /\ Append(s, x) \in Seq(S) /\ Len(Append(s, x)) = Len(s) + 1
      /\ Append(s, x)[Len(s) + 1] = x /\ \A i \in 1 .. Len(s) : Append(s, x)[i] = s[i]
  OBVIOUS
<1>2. Places(Append(s, x), m) = IF x = m THEN Places(s, m) \cup {Len(s) + 1} ELSE Places(s, m)
  <2>1. 1 .. Len(s) + 1 = (1 .. Len(s)) \cup {Len(s) + 1}
    BY <1>1
  <2> QED BY <1>1, <2>1 DEF Places
<1>3. Len(s) + 1 \notin Places(s, m)
  BY <1>1 DEF Places
<1>4. /\ Occurrences(Append(s, x), m) = Cardinality(Places(Append(s, x), m))
      /\ Occurrences(s, m) = Cardinality(Places(s, m)) /\ Occurrences(s, m) \in Nat
      /\ IsFiniteSet(Places(s, m))
  BY <1>1, OccurrenceCounts
<1>5. Cardinality(Places(s, m) \cup {Len(s) + 1}) = Cardinality(Places(s, m)) + 1
  BY <1>3, <1>4, FS_AddElement
<1> QED BY <1>2, <1>4, <1>5

LEMMA FewOccurrences ==
  ASSUME NEW S, NEW x \in S, NEW m
  PROVE  /\ Occurrences(<<>>, m) = 0
         /\ Occurrences(<<x>>, m) = IF x = m THEN 1 ELSE 0
<1>1. Occurrences(<<>>, m) = 0
  <2>1. Places(<<>>, m) = {}
    BY DEF Places
  <2> QED BY <2>1, FS_EmptySet DEF Occurrences, Places
<1>2. Places(<<x>>, m) = IF x = m THEN {1} ELSE {}
  <2>1. 1 .. 1 = {1}
    OBVIOUS
  <2> QED BY <2>1 DEF Places
<1>3. Occurrences(<<x>>, m) = Cardinality(Places(<<x>>, m))
  BY DEF Occurrences, Places
<1> QED BY <1>1, <1>2, <1>3, FS_Singleton, FS_EmptySet

LEMMA PoppedOccurrences ==
  ASSUME NEW S, NEW s \in Seq(S), NEW p, NEW step, NEW m
  PROVE  /\ PopEvery(s, p, step) \in Seq(S)
         /\ Len(PopEvery(s, p, step)) <= Len(s)
         /\ Occurrences(PopEvery(s, p, step), m) <= Occurrences(s, m)
<1> DEFINE K == {i \in 1 .. Len(s) : RunLength(s, p, i) % step = 0}
<1>1. K \in SUBSET (1 .. Len(s)) /\ PopEvery(s, p, step) = Keep(s, K)
  BY DEF PopEvery
<1> HIDE DEF K
<1>2. Occurrences(Keep(s, K), m) = Cardinality(K \cap Places(s, m))
  BY <1>1, KeptOccurrences
<1>3. Cardinality(K \cap Places(s, m)) <= Cardinality(Places(s, m))
  BY OccurrenceCounts, FS_Subset
<1> QED BY <1>1, <1>2, <1>3, KeptEntries, OccurrenceCounts

LEMMA FirstIsPopped ==
  ASSUME NEW S, NEW s \in Seq(S), NEW p \in Range(s), \A x \in Range(s) : Same(x, p) => x = p
  PROVE  Occurrences(PopMatching(s, p), p) < Occurrences(s, p)
<1> DEFINE K == {i \in 1 .. Len(s) : RunLength(s, p, i) % 2 = 0}
<1>1. K \in SUBSET (1 .. Len(s)) /\ PopMatching(s, p) = Keep(s, K)
  BY DEF PopMatching, PopEvery
<1>2. Places(s, p) \in SUBSET Nat /\ Places(s, p) # {} /\ Places(s, p) \subseteq 1 .. Len(s)
  BY DEF Places, Range
<1>3. PICK i \in Places(s, p) : \A k \in Places(s, p) : i <= k
  BY <1>2, LeastNatural
<1>4. RunLength(s, p, i) = 1
  <2>0. \A h \in 1 .. i : Same(s[h], p) <=> s[h] = p
    <3>1. \A h \in 1 .. i : s[h] \in Range(s)
      BY <1>2, <1>3 DEF Range
    <3> QED BY <3>1 DEF Same
  <2>1. {j \in 1 .. i : \A h \in j .. i : Same(s[h], p)} = {i}
    BY <1>2, <1>3, <2>0 DEF Places
  <2> QED BY <2>1, FS_Singleton DEF RunLength
<1>5. i \notin K
  BY <1>4
<1> HIDE DEF K
<1>6. Cardinality(K \cap Places(s, p)) < Cardinality(Places(s, p))
  <2>1. K \cap Places(s, p) \in SUBSET Places(s, p) /\ K \cap Places(s, p) # Places(s, p)
    BY <1>3, <1>5
  <2> QED BY <2>1, OccurrenceCounts, FS_Subset, FS_CardinalityType
<1> QED BY <1>1, <1>6, KeptOccurrences, OccurrenceCounts

LEMMA DroppedEntries ==
  ASSUME NEW S, NEW s \in Seq(S), NEW n, NEW k
  PROVE  /\ DropFirst(s, n, k) \in Seq(S)
         /\ \A m : Occurrences(DropFirst(s, n, k), m) <= Occurrences(s, m)
<1> DEFINE K == {i \in 1 .. Len(s) :
                    Same(s[i], n) => Cardinality({j \in 1 .. i : Same(s[j], n)}) > k}
<1>1. K \in SUBSET (1 .. Len(s)) /\ DropFirst(s, n, k) = Keep(s, K)
  BY DEF DropFirst
<1> HIDE DEF K
<1>2. \A m : Occurrences(Keep(s, K), m) = Cardinality(K \cap Places(s, m))
  BY <1>1, KeptOccurrences
<1>3. \A m : Cardinality(K \cap Places(s, m)) <= Cardinality(Places(s, m))
  BY OccurrenceCounts, FS_Subset
<1>4. \A m : Occurrences(s, m) = Cardinality(Places(s, m))
  BY OccurrenceCounts
<1>5. Keep(s, K) \in Seq(S)
  BY <1>1, KeptEntries
<1> QED BY <1>1, <1>2, <1>3, <1>4, <1>5

(* Where n is the only entry with its id, no other entry is dropped. *)
LEMMA DroppedOccurrences ==
  ASSUME NEW S, NEW s \in Seq(S), NEW n, NEW k, \A x \in Range(s) : Same(x, n) => x = n
  PROVE  /\ DropFirst(s, n, k) \in Seq(S)
         /\ \A m : Occurrences(DropFirst(s, n, k), m) <= Occurrences(s, m)
         /\ \A m : m # n => Occurrences(DropFirst(s, n, k), m) = Occurrences(s, m)
         /\ k = 1 => Occurrences(DropFirst(s, n, k), n) >= Occurrences(s, n) - 1
<1> DEFINE upTo(i) == {j \in 1 .. i : Same(s[j], n)}
           K == {i \in 1 .. Len(s) : Same(s[i], n) => Cardinality(upTo(i)) > k}
<1>0. \A i \in 1 .. Len(s) : Same(s[i], n) <=> s[i] = n
  <2>1. \A i \in 1 .. Len(s) : s[i] \in Range(s)
    BY DEF Range
  <2> QED BY <2>1 DEF Same
<1>1. K \in SUBSET (1 .. Len(s)) /\ DropFirst(s, n, k) = Keep(s, K)
  BY DEF DropFirst
<1>2. \A m : Occurrences(Keep(s, K), m) = Cardinality(K \cap Places(s, m))
  <2> HIDE DEF K
  <2> QED BY <1>1, KeptOccurrences
<1>3. \A m : m # n => K \cap Places(s, m) = Places(s, m)
  BY <1>0 DEF Places
<1>4. \A m : Cardinality(K \cap Places(s, m)) <= Cardinality(Places(s, m))
  <2> HIDE DEF K
  <2> QED BY OccurrenceCounts, FS_Subset
<1>5. ASSUME k = 1 PROVE Cardinality(K \cap Places(s, n)) >= Cardinality(Places(s, n)) - 1
  <2> DEFINE D == Places(s, n) \ K
  <2>1. ASSUME NEW i \in D, NEW j \in D, i < j PROVE FALSE
    <3>1. i \in 1 .. j /\ j \in 1 .. Len(s) /\ s[i] = n /\ s[j] = n /\ ~(Cardinality(upTo(j)) > 1)
      BY <1>0, <1>5, <2>1 DEF Places
    <3>2. {i, j} \in SUBSET upTo(j)
      <4>1. j \in 1 .. j
        BY <3>1
      <4> QED BY <3>1, <4>1 DEF Same
    <3>3. IsFiniteSet(upTo(j))
      <4>1. j \in Nat /\ upTo(j) \in SUBSET (1 .. j)
        BY <3>1
      <4> HIDE DEF upTo
      <4> QED BY <4>1, PlacesFinite
    <3>4. Cardinality({i, j}) = 2
      <4>0. IsFiniteSet({i}) /\ Cardinality({i}) = 1 /\ j \notin {i}
        <5>1. i # j
          BY <2>1, <3>1
        <5> QED BY <5>1, FS_Singleton
      <4>1. Cardinality({i} \cup {j}) = 2
        <5>1. Cardinality({i} \cup {j}) = Cardinality({i}) + 1
          BY <4>0, FS_AddElement
        <5>2. 1 + 1 = 2
          OBVIOUS
        <5> QED BY ONLY <4>0, <5>1, <5>2, Zenon
      <4>2. {i, j} = {i} \cup {j}
        OBVIOUS
      <4> QED BY <4>1, <4>2
    <3> HIDE DEF upTo
    <3> QED BY <3>1, <3>2, <3>3, <3>4, FS_Subset, FS_CardinalityType
  <2>2. D \in SUBSET Nat /\ D \in SUBSET Places(s, n)
    BY DEF Places
  <2>3. Places(s, n) \ D = K \cap Places(s, n)
    OBVIOUS
  <2> HIDE DEF D, K
  <2>4. D = {} \/ \E i \in D : D = {i}
    <3>1. \A i, j \in D : i = j
      <4> SUFFICES ASSUME NEW i \in D, NEW j \in D, i # j PROVE FALSE
        OBVIOUS
      <4>1. i < j \/ j < i
        BY <2>2
      <4> QED BY <2>1, <4>1
    <3> QED BY <3>1
  <2>5. IsFiniteSet(Places(s, n)) /\ Cardinality(Places(s, n)) \in Nat
    BY OccurrenceCounts
  <2>6. CASE D = {}
    <3>1. K \cap Places(s, n) = Places(s, n)
      BY <2>3, <2>6
    <3>2. Cardinality(K \cap Places(s, n)) = Cardinality(Places(s, n))
      BY <3>1
    <3> QED BY <2>5, <3>2
  <2>7. CASE \E i \in D : D = {i}
    <3>1. PICK i \in Places(s, n) : D = {i}
      BY <2>2, <2>7
    <3>2. Cardinality(Places(s, n) \ {i}) = Cardinality(Places(s, n)) - 1
      BY <2>5, FS_RemoveElement
    <3>3. K \cap Places(s, n) = Places(s, n) \ {i}
      BY <2>3, <3>1
    <3>4. Cardinality(K \cap Places(s, n)) = Cardinality(Places(s, n)) - 1
      BY <3>2, <3>3
    <3> QED BY <2>5, <3>4
  <2> QED BY <2>4, <2>6, <2>7
<1> HIDE DEF K
<1>6. DropFirst(s, n, k) \in Seq(S)
  BY <1>1, KeptEntries
<1>7. \A m : Occurrences(s, m) = Cardinality(Places(s, m)) /\ Occurrences(s, m) \in Nat
  BY OccurrenceCounts
<1> QED BY <1>1, <1>2, <1>3, <1>4, <1>5, <1>6, <1>7

LEMMA DownstreamShrinks ==
  ASSUME NEW h \in Graph, NEW k \in Graph, k.edges \subseteq h.edges, NEW q \in NodeIds
  PROVE  Downstream(k, {q}) \subseteq Downstream(h, {q})
<1>1. \A C : LeadsTo(k, {q} \cup C) \subseteq LeadsTo(h, {q} \cup C)
  BY DEF LeadsTo
<1> QED BY <1>1 DEF Downstream, Closed

(* An edge p -> n closes no cycle if p is neither n nor downstream of n.        *)
LEMMA EdgeAdded ==
  ASSUME NEW h \in Graph, NEW k \in Graph, Acyclic(h), NEW p \in NodeIds, NEW n \in NodeIds,
         p # n, p \notin Downstream(h, {n}), k.edges \subseteq h.edges \cup {<<p, n>>}
  PROVE  Acyclic(k)
<1> SUFFICES ASSUME NEW q \in NodeIds, q \in Downstream(k, {q}) PROVE FALSE
  BY DEF Acyclic, AllDependents
<1> DEFINE D(m) == Downstream(h, {m})
           Beyond == IF p \in {q} \cup D(q) THEN {n} \cup D(n) ELSE {}
           C == D(q) \cup Beyond
<1>1. \A m \in NodeIds : D(m) \in SUBSET NodeIds
  BY DEF Downstream
<1>2. ASSUME NEW a \in {q} \cup C, NEW b \in NodeIds, <<a, b>> \in k.edges PROVE b \in C
  <2>1. CASE <<a, b>> = <<p, n>>
    <3>1. p \notin Beyond
      OBVIOUS
    <3> QED BY <2>1, <3>1
  <2>2. CASE <<a, b>> \in h.edges
    <3>1. a \in NodeIds
      BY <1>1
    <3>2. b \in D(a)
      BY <2>2, <3>1, EdgesAreDownstream
    <3>3. \A m \in NodeIds : a \in {m} \cup D(m) => b \in D(m)
      BY <3>2, DownstreamTransitive
    <3> HIDE DEF D
    <3> QED BY <1>1, <3>3
  <2> QED BY <1>2, <2>1, <2>2
<1>3. C \in Closed(k, {q})
  <2>1. C \in SUBSET NodeIds
    BY <1>1
  <2> HIDE DEF C
  <2> QED BY <1>2, <2>1 DEF Closed, LeadsTo
<1>4. q \in C
  BY <1>3 DEF Downstream
<1>5. q \notin D(q)
  BY DEF Acyclic, AllDependents
<1>6. p \in {q} \cup D(q) /\ q \in {n} \cup D(n)
  BY <1>4, <1>5
<1>7. p \in {n} \cup D(n)
  BY <1>6, DownstreamTransitive
<1> QED BY <1>7

-----------------------------------------------------------------------------
(* The inductive invariant of the wiring. *)

(* How often n takes p as an input: on the main port and on the right one.     *)
Uses(p, n) == Occurrences(main[n], p) + (IF right[n] = p THEN 1 ELSE 0)

NoLeft == \A n \in NodeIds : left[n] = None

NewIsBare == \A n \in NodeIds : status[n] = "new" => main[n] = <<>> /\ right[n] = None

(* Of a node in the flow no input is without its own entry in leads_to_nodes.   *)
UsesHaveLeads == \A n \in Present : \A p \in NodeIds : Uses(p, n) <= Occurrences(leads[p], n)

(* No two objects that are in the flow or connected to it have one id. *)
Single == \A x, y \in Connected : Same(x, y) => x = y

Wires == WiringTypeOK /\ NoLeft /\ NewIsBare /\ Single /\ UsesHaveLeads /\ NoCycle

LEMMA UsesType ==
  ASSUME WiringTypeOK, NEW p \in NodeIds, NEW n \in NodeIds
  PROVE  /\ Occurrences(main[n], p) \in Nat /\ Uses(p, n) \in Nat
         /\ Occurrences(leads[p], n) \in Nat
<1>1. main[n] \in Seq(NodeIds) /\ leads[p] \in Seq(NodeIds)
  BY DEF WiringTypeOK
<1> QED BY <1>1, OccurrenceCounts DEF Uses

LEMMA UsesTypeAfter ==
  ASSUME WiringTypeOK', NEW p \in NodeIds, NEW n \in NodeIds
  PROVE  Uses(p, n)' \in Nat
<1>1. main'[n] \in Seq(NodeIds)
  BY DEF WiringTypeOK
<1>2. Occurrences(main'[n], p) \in Nat
  BY <1>1, OccurrenceCounts
<1> QED BY <1>2 DEF Uses

(* What get_all_inputs lists, of any main inputs and right input. *)
LEMMA ListedInputs ==
  ASSUME NEW s \in Seq(NodeIds), NEW r \in NodeIds \cup {None}
  PROVE  /\ Range(s \o <<>> \o Optional(r)) \subseteq NodeIds
         /\ \A p \in NodeIds : p \in Range(s \o <<>> \o Optional(r)) <=>
                               Occurrences(s, p) + (IF r = p THEN 1 ELSE 0) > 0
<1>1. \A p : Occurrences(s, p) \in Nat /\ (p \in Range(s) <=> Occurrences(s, p) > 0)
  BY OccurrenceCounts
<1>2. CASE r = None
  <2>1. s \o <<>> \o Optional(r) = s
    BY <1>2 DEF Optional
  <2>2. Range(s) \subseteq NodeIds
    BY DEF Range
  <2>3. \A p \in NodeIds : (IF r = p THEN 1 ELSE 0) = 0
    BY <1>2, NoneAssumption
  <2>4. \A p \in NodeIds : Occurrences(s, p) + 0 = Occurrences(s, p)
    BY <1>1
  <2> QED BY <1>1, <2>1, <2>2, <2>3, <2>4
<1>3. CASE r # None
  <2>1. s \o <<>> \o Optional(r) = Append(s, r) /\ r \in NodeIds /\ Append(s, r) \in Seq(NodeIds)
    BY <1>3 DEF Optional
  <2>2. Range(Append(s, r)) \subseteq NodeIds
    BY <2>1 DEF Range
  <2>3. \A p : Occurrences(Append(s, r), p) = Occurrences(s, p) + (IF r = p THEN 1 ELSE 0)
    BY <2>1, AppendOccurrences
  <2>4. \A p : p \in Range(Append(s, r)) <=> Occurrences(Append(s, r), p) > 0
    BY <2>1, OccurrenceCounts
  <2> QED BY <2>1, <2>2, <2>3, <2>4
<1> QED BY <1>2, <1>3

LEMMA InputsListed ==
  ASSUME WiringTypeOK, NoLeft, NEW n \in NodeIds
  PROVE  /\ Range(AllInputs(n)) \subseteq NodeIds
         /\ \A p \in NodeIds : p \in Range(AllInputs(n)) <=> Uses(p, n) > 0
<1>1. main[n] \in Seq(NodeIds) /\ right[n] \in NodeIds \cup {None}
  BY DEF WiringTypeOK
<1>2. AllInputs(n) = main[n] \o <<>> \o Optional(right[n])
  BY DEF AllInputs, NoLeft, Optional
<1> QED BY <1>1, <1>2, ListedInputs DEF Uses

LEMMA InputsListedAfter ==
  ASSUME WiringTypeOK', NoLeft', NEW n \in NodeIds
  PROVE  /\ Range(AllInputs(n)') \subseteq NodeIds
         /\ \A p \in NodeIds : p \in Range(AllInputs(n)') <=> Uses(p, n)' > 0
<1>1. main'[n] \in Seq(NodeIds) /\ right'[n] \in NodeIds \cup {None}
  BY DEF WiringTypeOK
<1>2. AllInputs(n)' = main'[n] \o <<>> \o Optional(right'[n])
  BY DEF AllInputs, NoLeft, Optional
<1> QED BY <1>1, <1>2, ListedInputs DEF Uses

LEMMA ConnectedObjects ==
  /\ \A x : x \in Connected <=>
        \/ x \in Present
        \/ \E m \in NodeIds : x \in Range(leads[m])
        \/ \E m \in Present : x \in Range(AllInputs(m))
  /\ \A x : x \in Connected' <=>
        \/ x \in Present'
        \/ \E m \in NodeIds : x \in Range(leads'[m])
        \/ \E m \in Present' : x \in Range(AllInputs(m)')
<1> DEFINE led == UNION {Range(leads[m]) : m \in NodeIds}
           used == UNION {Range(AllInputs(m)) : m \in Present}
<1>1. /\ \A x : x \in led <=> \E m \in NodeIds : x \in Range(leads[m])
      /\ \A x : x \in used <=> \E m \in Present : x \in Range(AllInputs(m))
      /\ Connected = Present \cup led \cup used
  <2>1. Connected = Present \cup led \cup used
    BY Zenon DEF Connected
  <2>2. \A x : x \in led <=> \E m \in NodeIds : x \in Range(leads[m])
    OBVIOUS
  <2>3. \A x : x \in used <=> \E m \in Present : x \in Range(AllInputs(m))
    OBVIOUS
  <2> QED BY <2>1, <2>2, <2>3, Zenon
<1>2. /\ \A x : x \in led' <=> \E m \in NodeIds : x \in Range(leads'[m])
      /\ \A x : x \in used' <=> \E m \in Present' : x \in Range(AllInputs(m)')
      /\ Connected' = Present' \cup led' \cup used'
  <2>1. Connected' = Present' \cup led' \cup used'
    BY Zenon DEF Connected
  <2>2. \A x : x \in led' <=> \E m \in NodeIds : x \in Range(leads'[m])
    OBVIOUS
  <2>3. \A x : x \in used' <=> \E m \in Present' : x \in Range(AllInputs(m)')
    OBVIOUS
  <2> QED BY <2>1, <2>2, <2>3, Zenon
<1> HIDE DEF led, used
<1>3. \A x : x \in Connected <=> x \in Present \/ x \in led \/ x \in used
  BY <1>1
<1>4. \A x : x \in Connected' <=> x \in Present' \/ x \in led' \/ x \in used'
  BY <1>2
<1> QED BY <1>1, <1>2, <1>3, <1>4, Zenon

(* An input of a node is connected, and so is what leads_to_nodes lists.      *)
LEMMA InputsAreConnected ==
  ASSUME NEW n \in Present
  PROVE  n \in Connected /\ Range(AllInputs(n)) \subseteq Connected
BY ConnectedObjects

LEMMA LedAreConnected ==
  ASSUME NEW p \in NodeIds
  PROVE  Range(leads[p]) \subseteq Connected
BY ConnectedObjects

LEMMA SingleStays ==
  ASSUME Single, Connected' \subseteq Connected
  PROVE  Single'
BY DEF Single, Same

(* A step after which the inputs and the leads of each node are among those it     *)
(* had, or the new lead's target is in the flow already, connects nothing more.     *)
LEMMA ConnectedStays ==
  ASSUME Present' \subseteq Present,
         \A p \in NodeIds : Range(leads'[p]) \subseteq Connected,
         \A m \in Present' : Range(AllInputs(m)') \subseteq Connected
  PROVE  Connected' \subseteq Connected
BY ConnectedObjects

LEMMA InputsAreLed ==
  ASSUME WiringTypeOK, NoLeft, UsesHaveLeads
  PROVE  EveryInputLed
<1> SUFFICES ASSUME NEW n \in Present, NEW p \in Range(AllInputs(n)) PROVE n \in Range(leads[p])
  BY DEF EveryInputLed
<1>1. n \in NodeIds /\ p \in NodeIds
  BY InputsListed DEF Present
<1>2. Uses(p, n) > 0 /\ Uses(p, n) <= Occurrences(leads[p], n)
  BY <1>1, InputsListed DEF UsesHaveLeads
<1>3. leads[p] \in Seq(NodeIds)
  BY <1>1 DEF WiringTypeOK
<1>4. /\ Occurrences(leads[p], n) \in Nat
      /\ n \in Range(leads[p]) <=> Occurrences(leads[p], n) > 0
  BY ONLY <1>3, OccurrenceCounts
<1>5. Uses(p, n) \in Nat
  BY <1>1, UsesType
<1> QED BY ONLY <1>2, <1>4, <1>5

LEMMA EdgesShrink ==
  ASSUME WiringTypeOK, WiringTypeOK', NoCycle,
         \A p \in NodeIds : Range(leads'[p]) \subseteq Range(leads[p])
  PROVE  NoCycle'
<1>1. PlanGraph \in Graph /\ PlanGraph' \in Graph
  BY DEF PlanGraph, Graph, Present
<1>2. PlanGraph'.edges \subseteq PlanGraph.edges
  BY DEF PlanGraph
<1> HIDE DEF PlanGraph
<1>3. \A q \in NodeIds : Downstream(PlanGraph', {q}) \subseteq Downstream(PlanGraph, {q})
  BY <1>1, <1>2, DownstreamShrinks
<1> QED BY <1>3 DEF NoCycle, Acyclic, AllDependents

LEMMA InitWires == WiringInit => Wires
<1> SUFFICES ASSUME WiringInit PROVE Wires
  OBVIOUS
<1>1. WiringTypeOK /\ NoLeft /\ NewIsBare
  <2>1. doubled \in BOOLEAN
    BY DEF WiringInit
  <2> QED BY <2>1 DEF WiringInit, WiringTypeOK, NoLeft, NewIsBare
<1>2. UsesHaveLeads /\ Single
  <2>1. Connected = {}
    BY DEF WiringInit, Connected, Present, Range
  <2> QED BY <2>1 DEF WiringInit, UsesHaveLeads, Present, Single
<1>3. NoCycle
  <2>1. PlanGraph.edges = {}
    BY DEF WiringInit, PlanGraph, Range
  <2> HIDE DEF PlanGraph
  <2>2. ASSUME NEW q \in NodeIds PROVE {} \in Closed(PlanGraph, {q})
    BY <2>1 DEF Closed, LeadsTo
  <2> QED BY <2>2 DEF NoCycle, Acyclic, AllDependents, Downstream
<1> QED BY <1>1, <1>2, <1>3 DEF Wires

LEMMA AddNodeWires ==
  ASSUME Wires, NEW n \in NodeIds, AddNode(n), ~doubled'
  PROVE  Wires'
<1> USE DEF Wires
<1>1. /\ status[n] = "new" /\ status' = [status EXCEPT ![n] = "present"]
      /\ main' = main /\ listed' = listed /\ right' = right /\ left' = left /\ leads' = leads
      /\ ~\E m \in Connected : Same(m, n)
  BY DEF AddNode, ports
<1>2. WiringTypeOK' /\ NoLeft' /\ NewIsBare'
  <2>1. doubled' \in BOOLEAN
    BY DEF AddNode
  <2>2. status' \in [NodeIds -> {"new", "present", "deleted"}]
    BY <1>1 DEF WiringTypeOK
  <2> QED BY <1>1, <2>1, <2>2 DEF WiringTypeOK, NoLeft, NewIsBare
<1>3. UsesHaveLeads'
  <2> SUFFICES ASSUME NEW m \in Present', NEW p \in NodeIds
               PROVE Uses(p, m)' <= Occurrences(leads[p], m)
    BY <1>1 DEF UsesHaveLeads
  <2>1. m \in NodeIds /\ Uses(p, m)' = Uses(p, m) /\ Occurrences(leads[p], m) \in Nat
    BY <1>1, UsesType DEF Uses, Present
  <2>2. CASE m = n
    <3>1. main[m] = <<>> /\ right[m] # p
      BY <1>1, <2>1, <2>2, NoneAssumption DEF NewIsBare
    <3>2. Occurrences(main[m], p) = 0
      BY <3>1, FewOccurrences
    <3> QED BY <2>1, <3>1, <3>2 DEF Uses
  <2>3. CASE m # n
    BY <1>1, <2>1, <2>3 DEF UsesHaveLeads, Present, WiringTypeOK
  <2> QED BY <2>2, <2>3
<1>4. NoCycle'
  BY <1>1, <1>2, EdgesShrink
<1>5. Single'
  <2>1. AllInputs(n)' = <<>> /\ \A m \in NodeIds : AllInputs(m)' = AllInputs(m)
    BY <1>1 DEF AllInputs, NewIsBare, NoLeft, Optional
  <2>2. Present' = Present \cup {n}
    BY <1>1 DEF Present, WiringTypeOK
  <2>3. Connected' \subseteq Connected \cup {n}
    <3>1. ASSUME NEW m \in Present' PROVE Range(AllInputs(m)') \subseteq Connected
      <4>1. Range(<<>>) = {}
        BY DEF Range
      <4>2. CASE m = n
        BY <2>1, <4>1, <4>2
      <4>3. CASE m # n
        BY <2>1, <2>2, <4>3, InputsAreConnected DEF Present
      <4> QED BY <4>2, <4>3
    <3>2. \A m \in NodeIds : Range(leads'[m]) \subseteq Connected
      BY <1>1, LedAreConnected
    <3>3. Present' \subseteq Connected \cup {n}
      BY <2>2, ConnectedObjects
    <3> QED BY <3>1, <3>2, <3>3, ConnectedObjects
  <2> QED BY <1>1, <2>3 DEF Single, Same
<1> QED BY <1>2, <1>3, <1>4, <1>5

(* The ids are unique among what is connected, so the walk of _would_create_cycle  *)
(* expands every object that leads_to_nodes leads to.                          *)
LEMMA WalksAreComplete ==
  ASSUME WiringTypeOK, Single, NEW n \in Present, NEW p \in NodeIds,
         NEW W \in Walks(n), ~WouldCreateCycle(W, p, n)
  PROVE  p # n /\ p \notin Downstream(PlanGraph, {n})
<1>1. /\ W \in SUBSET NodeIds /\ n \in W
      /\ \A m \in W : \A h \in Firsts(m) : \E k \in W : Same(k, h)
      /\ \A C \in SUBSET W : n \in C /\ W \cap UNION {Firsts(m) : m \in C} \subseteq C => C = W
  BY DEF Walks
<1>2. n \in NodeIds /\ n \in Connected /\ leads \in [NodeIds -> Seq(NodeIds)]
  BY InputsAreConnected DEF Present, WiringTypeOK
<1>3. ASSUME NEW m \in NodeIds PROVE Firsts(m) \subseteq Range(leads[m])
  BY <1>2, <1>3 DEF Firsts, Range
<1>5. ASSUME NEW k \in W, k # n PROVE \E m \in W : k \in Firsts(m)
  <2> DEFINE C == {n} \cup {x \in W : \E m \in W : x \in Firsts(m)}
  <2>1. C \in SUBSET W /\ n \in C
    BY <1>1
  <2>2. W \cap UNION {Firsts(m) : m \in C} \subseteq C
    BY <2>1
  <2>3. C = W
    <3> HIDE DEF C
    <3> QED BY <1>1, <2>1, <2>2
  <2> QED BY <1>5, <2>3
<1>6. W \subseteq Connected
  BY <1>1, <1>2, <1>3, <1>5, LedAreConnected
<1>7. ASSUME NEW m \in W, NEW x \in Range(leads[m]) PROVE x \in W
  <2>1. leads[m] \in Seq(NodeIds)
    BY <1>1, <1>2
  <2> DEFINE T == {i \in 1 .. Len(leads[m]) : Same(leads[m][i], x)}
  <2>2. T \in SUBSET Nat /\ T # {}
    BY <2>1 DEF Range, Same
  <2> HIDE DEF T
  <2>3. PICK i \in T : \A k \in T : i <= k
    BY <2>2, LeastNatural
  <2>4. i \in 1 .. Len(leads[m]) /\ Same(leads[m][i], x)
    BY <2>3 DEF T
  <2>5. \A k \in 1 .. i - 1 : ~Same(leads[m][k], leads[m][i])
    <3> SUFFICES ASSUME NEW k \in 1 .. i - 1, Same(leads[m][k], leads[m][i]) PROVE FALSE
      OBVIOUS
    <3>1. Len(leads[m]) \in Nat /\ k \in 1 .. Len(leads[m]) /\ k < i
      BY <2>1, <2>4
    <3>2. Same(leads[m][k], x)
      BY <2>4 DEF Same
    <3>3. k \in T
      BY <3>1, <3>2 DEF T
    <3> QED BY <2>3, <2>4, <3>1, <3>3
  <2>6. leads[m][i] \in Firsts(m)
    BY <2>4, <2>5 DEF Firsts
  <2>7. PICK k \in W : Same(k, leads[m][i])
    BY <1>1, <2>6
  <2>8. k \in Connected /\ x \in Connected /\ Same(k, x)
    BY <1>1, <1>6, <2>4, <2>7, LedAreConnected DEF Same
  <2> QED BY <2>7, <2>8 DEF Single
<1>8. W \in Closed(PlanGraph, {n})
  <2>1. LeadsTo(PlanGraph, {n} \cup W) \subseteq W
    <3>1. \A m, x \in NodeIds : <<m, x>> \in PlanGraph.edges <=> x \in Range(leads[m])
      BY DEF PlanGraph
    <3>2. {n} \cup W = W
      BY <1>1
    <3> QED BY <1>1, <1>7, <3>1, <3>2 DEF LeadsTo
  <2> QED BY <1>1, <2>1 DEF Closed
<1>9. p # n /\ p \notin W
  <2>1. ~Same(p, n) /\ \A m \in W : ~HasId(leads[m], p)
    BY DEF WouldCreateCycle
  <2>2. p # n
    BY <2>1 DEF Same
  <2>3. ASSUME p \in W PROVE FALSE
    <3>1. PICK m \in W : p \in Firsts(m)
      BY <1>5, <2>2, <2>3
    <3>2. p \in Range(leads[m])
      BY <1>1, <1>3, <3>1
    <3> QED BY <2>1, <3>2 DEF HasId, Same
  <2> QED BY <2>2, <2>3
<1> QED BY <1>8, <1>9 DEF Downstream

LEMMA ConnectWires ==
  ASSUME Wires, NEW p \in NodeIds, NEW n \in NodeIds, NEW port \in {"main", "right"},
         Connect(p, n, port)
  PROVE  Wires'
<1> USE DEF Wires
<1>1. /\ status[n] = "present" /\ status' = status /\ left' = left
      /\ leads' = [leads EXCEPT ![p] = Append(@, n)]
      /\ \E W \in Walks(n) : ~WouldCreateCycle(W, p, n)
      /\ {p, n} \subseteq Present /\ Present' = Present /\ doubled' = doubled
      /\ \/ /\ main' = [main EXCEPT ![n] = IF n \in Multi /\ n \in listed
                                           THEN Append(@, p) ELSE <<p>>]
            /\ listed' = listed \cup {n} /\ right' = right
         \/ main' = main /\ listed' = listed /\ right' = [right EXCEPT ![n] = p]
  <2>1. port # "left"
    OBVIOUS
  <2> QED BY <2>1 DEF Connect, Plug, SetMain, Present
<1>2. /\ main \in [NodeIds -> Seq(NodeIds)] /\ leads \in [NodeIds -> Seq(NodeIds)]
      /\ right \in [NodeIds -> NodeIds \cup {None}] /\ listed \in SUBSET NodeIds
      /\ status \in [NodeIds -> {"new", "present", "deleted"}]
      /\ left \in [NodeIds -> NodeIds \cup {None}]
      /\ \A m \in NodeIds : Len(main[m]) > 1 => m \in Multi
  BY DEF WiringTypeOK
<1>3. /\ Append(leads[p], n) \in Seq(NodeIds) /\ Append(main[n], p) \in Seq(NodeIds)
      /\ <<p>> \in Seq(NodeIds) /\ Len(<<p>>) = 1
  BY <1>2
<1>4. /\ main'[n] \in {main[n], <<p>>, Append(main[n], p)}
      /\ main'[n] = Append(main[n], p) => n \in Multi \/ main'[n] = <<p>> \/ main'[n] = main[n]
      /\ \A m \in NodeIds : m # n => main'[m] = main[m] /\ right'[m] = right[m]
      /\ right'[n] \in {right[n], p} /\ (right'[n] # right[n] => main' = main)
      /\ main' \in [NodeIds -> Seq(NodeIds)] /\ right' \in [NodeIds -> NodeIds \cup {None}]
      /\ main' = main \/ right' = right
  <2>1. CASE /\ main' = [main EXCEPT ![n] = IF n \in Multi /\ n \in listed
                                           THEN Append(@, p) ELSE <<p>>]
             /\ right' = right
    <3> DEFINE new == IF n \in Multi /\ n \in listed THEN Append(main[n], p) ELSE <<p>>
    <3>1. new \in Seq(NodeIds)
      BY <1>3
    <3>2. new \in {<<p>>, Append(main[n], p)} /\ (new = <<p>> \/ n \in Multi)
      OBVIOUS
    <3>3. main' = [main EXCEPT ![n] = new]
      BY <2>1
    <3> HIDE DEF new
    <3>4. /\ main'[n] = new /\ main' \in [NodeIds -> Seq(NodeIds)]
          /\ \A m \in NodeIds : m # n => main'[m] = main[m]
      BY <1>2, <3>1, <3>3
    <3> QED BY <1>2, <2>1, <3>2, <3>4
  <2>2. CASE main' = main /\ right' = [right EXCEPT ![n] = p]
    BY <1>2, <2>2
  <2> QED BY <1>1, <2>1, <2>2
<1>5. WiringTypeOK'
  <2>1. \A m \in NodeIds : Len(main'[m]) > 1 => m \in Multi
    <3> SUFFICES ASSUME NEW m \in NodeIds, Len(main'[m]) > 1 PROVE m \in Multi
      OBVIOUS
    <3>1. CASE main'[m] = main[m]
      BY <1>2, <3>1
    <3>2. CASE main'[m] # main[m]
      <4>1. m = n
        BY <1>4, <3>2
      <4>2. main'[n] # <<p>>
        <5>1. Len(main'[n]) > 1
          BY <4>1
        <5>2. Len(<<p>>) = 1 /\ ~(1 > 1)
          OBVIOUS
        <5> QED BY <5>1, <5>2, Zenon
      <4> QED BY <1>4, <3>2, <4>1, <4>2
    <3> QED BY <3>1, <3>2
  <2>2. leads' \in [NodeIds -> Seq(NodeIds)]
    BY <1>1, <1>2, <1>3
  <2>3. listed' \in SUBSET NodeIds
    BY <1>1, <1>2
  <2> QED BY <1>1, <1>2, <1>4, <2>1, <2>2, <2>3 DEF WiringTypeOK
<1>6. NoLeft' /\ NewIsBare'
  BY <1>1, <1>4 DEF NoLeft, NewIsBare
<1>10. ASSUME NEW m \in Present', NEW q \in NodeIds
       PROVE  /\ Uses(q, m) \in Nat /\ Uses(q, m)' \in Nat
              /\ Uses(q, m)' <= Uses(q, m) + (IF q = p /\ m = n THEN 1 ELSE 0)
  <2>1. m \in NodeIds
    BY DEF Present
  <2>2. /\ Occurrences(main[m], q) \in Nat /\ Occurrences(leads[q], m) \in Nat
        /\ Occurrences(main'[m], q) \in Nat
    <3>1. main'[m] \in Seq(NodeIds)
      BY <1>4, <2>1
    <3> QED BY <2>1, <3>1, UsesType, OccurrenceCounts
  <2>4. Uses(q, m)' <= Uses(q, m) + (IF q = p /\ m = n THEN 1 ELSE 0)
    <3>1. CASE m # n
      <4>1. main'[m] = main[m] /\ right'[m] = right[m]
        BY <1>4, <2>1, <3>1
      <4> QED BY <2>2, <3>1, <4>1 DEF Uses
    <3>2. CASE m = n
      <4>1. /\ Occurrences(main'[m], q) <= Occurrences(main[m], q) + (IF p = q THEN 1 ELSE 0)
            /\ main' = main => Occurrences(main'[m], q) = Occurrences(main[m], q)
        <5>1. main[m] \in Seq(NodeIds)
          BY <1>2, <3>2
        <5>2. /\ Occurrences(Append(main[m], p), q) = Occurrences(main[m], q) + (IF p = q THEN 1 ELSE 0)
              /\ Occurrences(<<p>>, q) = IF p = q THEN 1 ELSE 0
          BY <5>1, AppendOccurrences, FewOccurrences
        <5>3. main'[m] = main[m] \/ main'[m] = <<p>> \/ main'[m] = Append(main[m], p)
          BY <1>4, <3>2
        <5>4. CASE main'[m] = main[m]
          BY <2>2, <5>4
        <5>5. CASE main'[m] # main[m] /\ main'[m] = <<p>>
          BY <2>2, <5>2, <5>5
        <5>6. CASE main'[m] # main[m] /\ main'[m] = Append(main[m], p)
          BY <2>2, <5>2, <5>6
        <5> QED BY <5>3, <5>4, <5>5, <5>6
      <4>2. right'[m] = right[m] \/ right'[m] = p
        BY <1>4, <3>2
      <4>3. CASE main' = main
        BY <2>2, <3>2, <4>1, <4>2, <4>3 DEF Uses
      <4>4. CASE right' = right
        BY <2>2, <3>2, <4>1, <4>4 DEF Uses
      <4> QED BY <1>4, <4>3, <4>4
    <3> QED BY <3>1, <3>2
  <2>5. Uses(q, m) \in Nat /\ Uses(q, m)' \in Nat
    BY <2>2 DEF Uses
  <2> QED BY <2>4, <2>5
<1>7. UsesHaveLeads'
  <2> SUFFICES ASSUME NEW m \in Present', NEW q \in NodeIds
               PROVE Uses(q, m)' <= Occurrences(leads'[q], m)
    BY DEF UsesHaveLeads
  <2>1. m \in NodeIds /\ m \in Present /\ Uses(q, m) <= Occurrences(leads[q], m)
    BY <1>1 DEF Present, UsesHaveLeads
  <2>2. Occurrences(leads[q], m) \in Nat
    BY <2>1, UsesType
  <2>3. Occurrences(leads'[q], m) = Occurrences(leads[q], m) + (IF q = p /\ m = n THEN 1 ELSE 0)
    <3>1. CASE q = p
      <4>1. leads'[q] = Append(leads[q], n)
        BY <1>1, <1>2, <3>1
      <4>2. leads[q] \in Seq(NodeIds)
        BY <1>2
      <4>3. Occurrences(Append(leads[q], n), m) = Occurrences(leads[q], m) + (IF n = m THEN 1 ELSE 0)
        BY <4>2, AppendOccurrences
      <4> QED BY <2>2, <3>1, <4>1, <4>3
    <3>2. CASE q # p
      BY <1>1, <1>2, <2>2, <3>2
    <3> QED BY <3>1, <3>2
  <2> QED BY <1>10, <2>1, <2>2, <2>3
<1>8. NoCycle'
  <2>1. PlanGraph \in Graph /\ PlanGraph' \in Graph
    BY DEF PlanGraph, Graph, Present
  <2>2. PlanGraph'.edges \subseteq PlanGraph.edges \cup {<<p, n>>}
    <3>1. \A q \in NodeIds : Range(leads'[q]) \subseteq Range(leads[q]) \cup (IF q = p THEN {n} ELSE {})
      <4> SUFFICES ASSUME NEW q \in NodeIds, NEW x \in Range(leads'[q])
                   PROVE x \in Range(leads[q]) \cup (IF q = p THEN {n} ELSE {})
        OBVIOUS
      <4>1. CASE q # p
        BY <1>1, <1>2, <4>1
      <4>2. CASE q = p
        <5>1. leads'[q] = Append(leads[q], n) /\ leads[q] \in Seq(NodeIds)
          BY <1>1, <1>2, <4>2
        <5> QED BY <4>2, <5>1 DEF Range
      <4> QED BY <4>1, <4>2
    <3> QED BY <3>1 DEF PlanGraph
  <2>3. p # n /\ p \notin Downstream(PlanGraph, {n})
    BY <1>1, WalksAreComplete
  <2> HIDE DEF PlanGraph
  <2>4. Acyclic(PlanGraph')
    BY <2>1, <2>2, <2>3, EdgeAdded DEF NoCycle
  <2> QED BY <2>4 DEF NoCycle
<1>9. Single'
  <2>1. \A q \in NodeIds : Range(leads'[q]) \subseteq Connected
    <3>1. \A q \in NodeIds : Range(leads'[q]) \subseteq Range(leads[q]) \cup {n}
      <4> SUFFICES ASSUME NEW q \in NodeIds PROVE Range(leads'[q]) \subseteq Range(leads[q]) \cup {n}
        OBVIOUS
      <4>1. leads'[q] = leads[q] \/ (leads'[q] = Append(leads[q], n) /\ leads[q] \in Seq(NodeIds))
        BY <1>1, <1>2
      <4>2. Range(Append(leads[q], n)) \subseteq Range(leads[q]) \cup {n} \/ leads[q] \notin Seq(NodeIds)
        BY DEF Range
      <4> QED BY <4>1, <4>2
    <3> QED BY <1>1, <3>1, LedAreConnected, InputsAreConnected
  <2>2. ASSUME NEW m \in Present', NEW q \in Range(AllInputs(m)') PROVE q \in Connected
    <3>1. m \in NodeIds /\ m \in Present /\ q \in NodeIds /\ Uses(q, m)' > 0
      BY <1>1, <1>5, <1>6, InputsListedAfter DEF Present
    <3>2. CASE m = n /\ q = p
      BY <1>1, <3>2, InputsAreConnected
    <3>3. CASE ~(m = n /\ q = p)
      <4>1. Uses(q, m)' <= Uses(q, m) /\ Uses(q, m) \in Nat /\ Uses(q, m)' \in Nat
        BY <1>10, <3>1, <3>3, UsesType
      <4> QED BY <3>1, <4>1, InputsListed, InputsAreConnected
    <3> QED BY <3>2, <3>3
  <2> QED BY <1>1, <2>1, <2>2, ConnectedStays, SingleStays
<1> QED BY <1>5, <1>6, <1>7, <1>8, <1>9

LEMMA SaveSettingsWires ==
  ASSUME Wires, NEW n \in NodeIds, SaveSettings(n)
  PROVE  Wires'
<1>1. /\ n \in Present /\ status' = status /\ main' = main /\ listed' = listed
      /\ right' = right /\ left' = left
  BY DEF SaveSettings, ports
<1>2. \A p \in NodeIds : ~(p \in Range(AllInputs(n)) /\ ~HasId(leads[p], n))
  BY <1>1, InputsAreLed DEF Wires, EveryInputLed, HasId, Same
<1>3. leads' = [p \in NodeIds |-> leads[p]]
  BY <1>2 DEF SaveSettings
<1>4. leads' = leads
  BY <1>3 DEF Wires, WiringTypeOK
<1> QED
  <2>1. doubled' = doubled
    BY DEF SaveSettings
  <2>2. WiringTypeOK'
    BY <1>1, <1>4, <2>1 DEF Wires, WiringTypeOK
  <2>3. NoLeft' /\ NewIsBare' /\ UsesHaveLeads' /\ NoCycle'
    BY <1>1, <1>4 DEF Wires, NoLeft, NewIsBare, UsesHaveLeads, Uses, Present, NoCycle, PlanGraph
  <2>4. Single'
    BY <1>1, <1>4 DEF Wires, Single, Same, Connected, Present, AllInputs
  <2> QED BY <2>2, <2>3, <2>4 DEF Wires

(* A step after which every node takes its inputs no more often, and a node of  *)
(* the flow has lost no more entries than inputs.                             *)
LEMMA FewerWires ==
  ASSUME Wires, WiringTypeOK', NoLeft', NewIsBare', Present' \subseteq Present,
         \A p \in NodeIds : \A m : Occurrences(leads'[p], m) <= Occurrences(leads[p], m),
         \A m \in Present' : \A p \in NodeIds : Uses(p, m)' <= Uses(p, m),
         \A m \in Present' : \A p \in NodeIds : Uses(p, m)' <= Occurrences(leads'[p], m)
  PROVE  Wires'
<1>1. \A p \in NodeIds : Range(leads'[p]) \subseteq Range(leads[p])
  <2> SUFFICES ASSUME NEW p \in NodeIds, NEW m \in Range(leads'[p]) PROVE m \in Range(leads[p])
    OBVIOUS
  <2>1. leads[p] \in Seq(NodeIds) /\ leads'[p] \in Seq(NodeIds)
    BY DEF Wires, WiringTypeOK
  <2>2. Occurrences(leads'[p], m) > 0 /\ Occurrences(leads'[p], m) \in Nat
    BY <2>1, OccurrenceCounts
  <2>3. Occurrences(leads[p], m) \in Nat
    BY <2>1, OccurrenceCounts
  <2>4. Occurrences(leads'[p], m) <= Occurrences(leads[p], m)
    OBVIOUS
  <2>5. Occurrences(leads[p], m) > 0
    BY <2>2, <2>3, <2>4
  <2> QED BY <2>1, <2>5, OccurrenceCounts
<1>2. NoCycle'
  BY <1>1, EdgesShrink DEF Wires
<1>3. UsesHaveLeads'
  BY DEF UsesHaveLeads
<1>4. Single'
  <2>1. ASSUME NEW m \in Present', NEW p \in Range(AllInputs(m)') PROVE p \in Connected
    <3>1. m \in NodeIds /\ m \in Present /\ p \in NodeIds /\ Uses(p, m)' > 0
      BY InputsListedAfter DEF Present
    <3>2. Uses(p, m) \in Nat /\ Uses(p, m)' \in Nat /\ Uses(p, m)' <= Uses(p, m)
      BY <3>1, UsesType, UsesTypeAfter DEF Wires
    <3> QED BY <3>1, <3>2, InputsListed, InputsAreConnected DEF Wires
  <2>2. \A p \in NodeIds : Range(leads'[p]) \subseteq Connected
    BY <1>1, LedAreConnected
  <2> QED BY <2>1, <2>2, ConnectedStays, SingleStays DEF Wires
<1> QED BY <1>2, <1>3, <1>4 DEF Wires

LEMMA DeleteConnectionWires ==
  ASSUME Wires, NEW p \in NodeIds, NEW n \in NodeIds, NEW port \in {"main", "right"},
         DeleteConnection(p, n, port)
  PROVE  Wires'
<1>0. /\ n \in Connected /\ p \in Connected
      /\ \A x \in Connected : (Same(x, p) => x = p) /\ (Same(x, n) => x = n)
      /\ Range(leads[p]) \subseteq Connected /\ Range(AllInputs(n)) \subseteq Connected
  <2>1. n \in Present /\ p \in Present
    BY DEF DeleteConnection
  <2>2. n \in Connected /\ p \in Connected
        /\ Range(leads[p]) \subseteq Connected /\ Range(AllInputs(n)) \subseteq Connected
    BY <2>1, InputsAreConnected, LedAreConnected
  <2> QED BY <2>2 DEF Wires, Single
<1>1. /\ n \in Present /\ status' = status /\ listed' = listed /\ left' = left
      /\ doubled' = doubled
      /\ leads' = [leads EXCEPT ![p] = DropFirst(@, n, 1)]
      /\ \/ p \in Range(main[n]) /\ main' = [main EXCEPT ![n] = PopMatching(@, p)] /\ right' = right
         \/ right[n] = p /\ main' = main /\ right' = [right EXCEPT ![n] = None]
  <2>1. main[n] \in Seq(NodeIds) /\ right[n] \in NodeIds \cup {None}
    BY DEF Wires, WiringTypeOK
  <2>2. \A x \in NodeIds : x \in Range(main[n]) \/ x = right[n] => x \in Connected
    <3>1. AllInputs(n) = main[n] \o <<>> \o Optional(right[n])
      BY DEF Wires, AllInputs, NoLeft, Optional
    <3>2. \A x \in NodeIds : x \in Range(main[n]) \/ x = right[n] => x \in Range(AllInputs(n))
      BY <2>1, <3>1, ListedInputs, OccurrenceCounts
    <3> QED BY <1>0, <3>2
  <2>3. port = "main" => p \in Range(main[n])
    <3>1. Range(main[n]) \subseteq NodeIds
      BY <2>1 DEF Range
    <3>2. port = "main" => \E x \in Range(main[n]) : Same(x, p)
      BY DEF DeleteConnection, ConnectionExists, InputOn, HasId
    <3> QED BY <1>0, <2>2, <3>1, <3>2
  <2>4. port = "right" => right[n] = p
    <3>1. Range(<<>>) = {} /\ \A x : Range(<<x>>) = {x}
      BY DEF Range
    <3>2. port = "right" => \E x \in Range(Optional(right[n])) : Same(x, p)
      BY DEF DeleteConnection, ConnectionExists, InputOn, HasId
    <3>3. Range(Optional(right[n])) \subseteq {right[n]} /\ (right[n] = None => Range(Optional(right[n])) = {})
      BY <3>1 DEF Optional
    <3> QED BY <1>0, <2>1, <2>2, <3>2, <3>3
  <2> QED BY <2>3, <2>4 DEF DeleteConnection, Unplug, Unlead
<1>2. /\ main \in [NodeIds -> Seq(NodeIds)] /\ leads \in [NodeIds -> Seq(NodeIds)]
      /\ right \in [NodeIds -> NodeIds \cup {None}] /\ listed \in SUBSET NodeIds
      /\ status \in [NodeIds -> {"new", "present", "deleted"}]
      /\ left \in [NodeIds -> NodeIds \cup {None}]
      /\ \A m \in NodeIds : Len(main[m]) > 1 => m \in Multi
  BY DEF Wires, WiringTypeOK
<1> DEFINE less == PopMatching(main[n], p)
           kept == DropFirst(leads[p], n, 1)
<1>3. /\ less \in Seq(NodeIds) /\ Len(less) <= Len(main[n])
      /\ \A q : Occurrences(less, q) <= Occurrences(main[n], q)
      /\ p \in Range(main[n]) => Occurrences(less, p) < Occurrences(main[n], p)
  <2>1. main[n] \in Seq(NodeIds) /\ right[n] \in NodeIds \cup {None}
    BY <1>2
  <2>2. \A x \in Range(main[n]) : Same(x, p) => x = p
    <3>1. AllInputs(n) = main[n] \o <<>> \o Optional(right[n])
      BY DEF Wires, AllInputs, NoLeft, Optional
    <3>2. Range(main[n]) \subseteq NodeIds
      BY <2>1 DEF Range
    <3>3. \A x \in Range(main[n]) : x \in Range(AllInputs(n))
      BY <2>1, <3>1, <3>2, ListedInputs, OccurrenceCounts
    <3> QED BY <1>0, <3>3
  <2>3. /\ PopMatching(main[n], p) \in Seq(NodeIds) /\ Len(PopMatching(main[n], p)) <= Len(main[n])
        /\ \A q : Occurrences(PopMatching(main[n], p), q) <= Occurrences(main[n], q)
    BY <2>1, PoppedOccurrences DEF PopMatching
  <2>4. p \in Range(main[n]) => Occurrences(PopMatching(main[n], p), p) < Occurrences(main[n], p)
    BY <2>1, <2>2, FirstIsPopped
  <2> QED BY <2>3, <2>4
<1>4. /\ kept \in Seq(NodeIds)
      /\ \A m : Occurrences(kept, m) <= Occurrences(leads[p], m)
      /\ \A m : m # n => Occurrences(kept, m) = Occurrences(leads[p], m)
      /\ Occurrences(kept, n) >= Occurrences(leads[p], n) - 1
  <2>1. leads[p] \in Seq(NodeIds) /\ \A x \in Range(leads[p]) : Same(x, n) => x = n
    BY <1>0, <1>2
  <2> QED BY <2>1, DroppedOccurrences
<1>5. /\ \A m \in NodeIds : m # n => main'[m] = main[m] /\ right'[m] = right[m]
      /\ \/ p \in Range(main[n]) /\ main'[n] = less /\ right'[n] = right[n]
         \/ right[n] = p /\ main'[n] = main[n] /\ right'[n] = None
      /\ leads'[p] = kept
      /\ \A q \in NodeIds : q # p => leads'[q] = leads[q]
  BY <1>1, <1>2
<1>6. WiringTypeOK'
  <2>1. main' \in [NodeIds -> Seq(NodeIds)] /\ right' \in [NodeIds -> NodeIds \cup {None}]
        /\ leads' \in [NodeIds -> Seq(NodeIds)]
    <3> HIDE DEF less, kept
    <3>1. main' = main \/ main' = [main EXCEPT ![n] = less]
      BY <1>1 DEF less
    <3>2. right' = right \/ right' = [right EXCEPT ![n] = None]
      BY <1>1
    <3>3. leads' = [leads EXCEPT ![p] = kept]
      BY <1>1 DEF kept
    <3> QED BY <1>2, <1>3, <1>4, <3>1, <3>2, <3>3
  <2>2. ASSUME NEW m \in NodeIds, Len(main'[m]) > 1 PROVE m \in Multi
    <3>1. Len(main'[m]) <= Len(main[m])
      <4>1. main[m] \in Seq(NodeIds) /\ Len(main[m]) \in Nat
        BY <1>2
      <4>2. main'[m] = main[m] \/ (m = n /\ main'[m] = PopMatching(main[m], p))
        BY <1>5 DEF less
      <4>3. Len(PopMatching(main[m], p)) <= Len(main[m])
        BY <4>1, PoppedOccurrences DEF PopMatching
      <4> QED BY <4>1, <4>2, <4>3
    <3>2. Len(main[m]) \in Nat /\ Len(main'[m]) \in Nat
      <4>1. main[m] \in Seq(NodeIds) /\ main'[m] \in Seq(NodeIds)
        BY <1>2, <2>1
      <4> QED BY <4>1
    <3>3. Len(main[m]) > 1
      BY ONLY <2>2, <3>1, <3>2
    <3> QED BY <1>2, <3>3
  <2>3. doubled' \in BOOLEAN
    BY <1>1 DEF Wires, WiringTypeOK
  <2> QED BY <1>1, <1>2, <2>1, <2>2, <2>3 DEF WiringTypeOK
<1>7. NoLeft' /\ NewIsBare' /\ Present' = Present
  <2>1. n \in Present /\ \A m \in NodeIds : status[m] = "new" => m # n
    BY <1>1 DEF Present
  <2> QED BY <1>1, <1>5, <2>1 DEF Wires, NoLeft, NewIsBare, Present
<1> HIDE DEF less, kept
<1>8. ASSUME NEW q \in NodeIds, NEW m PROVE Occurrences(leads'[q], m) <= Occurrences(leads[q], m)
  <2>1. Occurrences(leads[q], m) \in Nat
    BY <1>2, OccurrenceCounts
  <2> QED BY <1>4, <1>5, <2>1
<1>9. ASSUME NEW m \in Present', NEW q \in NodeIds PROVE Uses(q, m)' <= Occurrences(leads'[q], m)
  <2>1. m \in NodeIds /\ Uses(q, m) <= Occurrences(leads[q], m) /\ main[m] \in Seq(NodeIds)
        /\ main'[m] \in Seq(NodeIds)
    BY <1>2, <1>6, <1>7 DEF Present, Wires, UsesHaveLeads, WiringTypeOK
  <2>2. /\ Occurrences(main[m], q) \in Nat /\ Occurrences(main'[m], q) \in Nat
        /\ Occurrences(leads[q], m) \in Nat /\ Occurrences(leads'[q], m) \in Nat
    <3>1. leads[q] \in Seq(NodeIds) /\ leads'[q] \in Seq(NodeIds)
      BY <1>2, <1>6 DEF WiringTypeOK
    <3> QED BY <2>1, <3>1, OccurrenceCounts
  <2>3. CASE m # n
    <3>1. Uses(q, m)' = Uses(q, m)
      BY <1>5, <2>1, <2>3 DEF Uses
    <3>2. Occurrences(leads'[q], m) = Occurrences(leads[q], m)
      BY <1>4, <1>5, <2>3
    <3> QED BY <2>1, <3>1, <3>2
  <2>4. CASE m = n /\ q # p
    <3>1. leads'[q] = leads[q]
      BY <1>5, <2>4
    <3>2. Occurrences(main'[m], q) <= Occurrences(main[m], q)
      BY <1>3, <1>5, <2>2, <2>4
    <3>3. right'[m] = q => right[m] = q
      BY <1>5, <2>4, NoneAssumption
    <3> QED BY <2>1, <2>2, <3>1, <3>2, <3>3 DEF Uses
  <2>5. CASE m = n /\ q = p
    <3>1. Occurrences(leads'[q], m) >= Occurrences(leads[q], m) - 1
      BY <1>4, <1>5, <2>5
    <3>2. Uses(q, m)' < Uses(q, m)
      <4>1. CASE p \in Range(main[n]) /\ main'[n] = less /\ right'[n] = right[n]
        BY <1>3, <2>2, <2>5, <4>1 DEF Uses
      <4>2. CASE right[n] = p /\ main'[n] = main[n] /\ right'[n] = None
        BY <2>2, <2>5, <4>2, NoneAssumption DEF Uses
      <4> QED BY <1>5, <4>1, <4>2
    <3>3. Uses(q, m) \in Nat /\ Uses(q, m)' \in Nat
      BY <2>2 DEF Uses
    <3> QED BY <2>1, <2>2, <3>1, <3>2, <3>3
  <2> QED BY <2>3, <2>4, <2>5
<1>10. ASSUME NEW m \in Present', NEW q \in NodeIds PROVE Uses(q, m)' <= Uses(q, m)
  <2>1. m \in NodeIds /\ main[m] \in Seq(NodeIds)
    BY <1>2 DEF Present
  <2>2. Occurrences(main[m], q) \in Nat /\ Uses(q, m) \in Nat
    BY <2>1, OccurrenceCounts DEF Uses
  <2>3. CASE m # n
    BY <1>5, <2>1, <2>2, <2>3 DEF Uses
  <2>4. CASE m = n
    <3>1. Occurrences(main'[m], q) <= Occurrences(main[m], q) /\ Occurrences(main'[m], q) \in Nat
      <4>1. main'[m] = main[m] \/ main'[m] = less
        BY <1>5, <2>4
      <4> QED BY <1>3, <2>2, <2>4, <4>1, OccurrenceCounts
    <3>2. right'[m] = q => right[m] = q
      BY <1>5, <2>4, NoneAssumption
    <3> QED BY <2>2, <3>1, <3>2 DEF Uses
  <2> QED BY <2>3, <2>4
<1> QED BY <1>6, <1>7, <1>8, <1>9, <1>10, FewerWires

(* What both ends of delete_node leave: inputs popped, and at most entries of   *)
(* the node itself dropped.                                                  *)
LEMMA DisconnectWires ==
  ASSUME Wires, NEW n \in Present, DisconnectDependents(n),
         listed' = listed, right' = right, left' = left, doubled' = doubled,
         \/ status' = status /\ leads' = leads
         \/ /\ status' = [status EXCEPT ![n] = "deleted"]
            /\ leads' = [p \in NodeIds |-> DropFirst(leads[p], n, Occurrences(AllInputs(n), p))]
  PROVE  Wires'
<1>1. /\ main \in [NodeIds -> Seq(NodeIds)] /\ leads \in [NodeIds -> Seq(NodeIds)]
      /\ status \in [NodeIds -> {"new", "present", "deleted"}]
      /\ \A m \in NodeIds : Len(main[m]) > 1 => m \in Multi
      /\ n \in NodeIds /\ status[n] = "present"
  BY DEF Wires, WiringTypeOK, Present
<1>2. ASSUME NEW m \in NodeIds
      PROVE  /\ main'[m] \in Seq(NodeIds) /\ Len(main'[m]) <= Len(main[m])
             /\ \A p : Occurrences(main'[m], p) <= Occurrences(main[m], p)
  <2> DEFINE step == 2 ^ Cardinality({i \in Visited(n) : leads[n][i] = m})
  <2>1. main'[m] = PopEvery(main[m], n, step) /\ main[m] \in Seq(NodeIds)
    BY <1>1 DEF DisconnectDependents
  <2> HIDE DEF step
  <2> QED BY <2>1, PoppedOccurrences
<1>3. main' \in [NodeIds -> Seq(NodeIds)]
  <2>1. main' = [m \in NodeIds |-> main'[m]]
    BY DEF DisconnectDependents
  <2> QED BY <1>2, <2>1
<1>4. /\ leads' \in [NodeIds -> Seq(NodeIds)]
      /\ \A p \in NodeIds : \A m : Occurrences(leads'[p], m) <= Occurrences(leads[p], m)
      /\ n \in Present' => leads' = leads
      /\ \A p, m \in NodeIds : m # n => Occurrences(leads'[p], m) = Occurrences(leads[p], m)
  <2>1. CASE status' = status /\ leads' = leads
    <3>1. \A p \in NodeIds : \A m : Occurrences(leads[p], m) \in Nat
      BY <1>1, OccurrenceCounts
    <3> QED BY <1>1, <2>1, <3>1
  <2>2. CASE /\ status' = [status EXCEPT ![n] = "deleted"]
             /\ leads' = [p \in NodeIds |-> DropFirst(leads[p], n, Occurrences(AllInputs(n), p))]
    <3>1. ASSUME NEW p \in NodeIds
          PROVE /\ leads'[p] \in Seq(NodeIds)
                /\ \A m : Occurrences(leads'[p], m) <= Occurrences(leads[p], m)
                /\ \A m : m # n => Occurrences(leads'[p], m) = Occurrences(leads[p], m)
      <4>1. leads[p] \in Seq(NodeIds) /\ leads'[p] = DropFirst(leads[p], n, Occurrences(AllInputs(n), p))
        BY <1>1, <2>2
      <4>2. \A x \in Range(leads[p]) : Same(x, n) => x = n
        BY InputsAreConnected, LedAreConnected DEF Wires, Single
      <4> QED BY <4>1, <4>2, DroppedOccurrences
    <3>2. leads' \in [NodeIds -> Seq(NodeIds)]
      BY <2>2, <3>1
    <3>3. n \notin Present'
      BY <1>1, <2>2 DEF Present
    <3> QED BY <3>1, <3>2, <3>3
  <2> QED BY <2>1, <2>2
<1>5. /\ status' \in [NodeIds -> {"new", "present", "deleted"}]
      /\ Present' \subseteq Present
      /\ \A m \in NodeIds : status'[m] = "new" => status[m] = "new"
  BY <1>1 DEF Present
<1>6. WiringTypeOK'
  <2>1. ASSUME NEW m \in NodeIds, Len(main'[m]) > 1 PROVE m \in Multi
    <3>1. Len(main[m]) \in Nat /\ Len(main'[m]) \in Nat /\ Len(main'[m]) <= Len(main[m])
      BY <1>1, <1>2
    <3>2. Len(main[m]) > 1
      BY <2>1, <3>1
    <3> QED BY <1>1, <3>2
  <2> QED BY <1>3, <1>4, <1>5, <2>1 DEF Wires, WiringTypeOK
<1>7. NoLeft' /\ NewIsBare'
  <2>1. ASSUME NEW m \in NodeIds, status[m] = "new" PROVE main'[m] = <<>>
    <3>1. main[m] = <<>> /\ Len(main'[m]) <= Len(main[m]) /\ main'[m] \in Seq(NodeIds)
      BY <1>2, <2>1 DEF Wires, NewIsBare
    <3>2. Len(main[m]) = 0
      BY <3>1
    <3>3. Len(main'[m]) \in Nat /\ Len(main'[m]) <= 0
      BY <3>1, <3>2
    <3> QED BY <3>1, <3>3
  <2> QED BY <1>5, <2>1 DEF Wires, NoLeft, NewIsBare
<1>8. ASSUME NEW m \in Present', NEW p \in NodeIds PROVE Uses(p, m)' <= Occurrences(leads'[p], m)
  <2>1. /\ m \in NodeIds /\ m \in Present /\ Uses(p, m) <= Occurrences(leads[p], m)
    BY <1>5 DEF Present, Wires, UsesHaveLeads
  <2>2. Occurrences(leads'[p], m) = Occurrences(leads[p], m)
    BY <1>4, <2>1
  <2>3. /\ Occurrences(main[m], p) \in Nat /\ Occurrences(main'[m], p) \in Nat
        /\ Occurrences(leads[p], m) \in Nat
    BY <1>1, <1>2, <2>1, OccurrenceCounts
  <2>4. Occurrences(main'[m], p) <= Occurrences(main[m], p)
    BY <1>2, <2>1
  <2> QED BY <2>1, <2>2, <2>3, <2>4 DEF Uses
<1>9. ASSUME NEW m \in Present', NEW p \in NodeIds PROVE Uses(p, m)' <= Uses(p, m)
  <2>1. m \in NodeIds /\ Occurrences(main[m], p) \in Nat /\ Occurrences(main'[m], p) \in Nat
    BY <1>1, <1>2, OccurrenceCounts DEF Present
  <2>2. Occurrences(main'[m], p) <= Occurrences(main[m], p)
    BY <1>2, <2>1
  <2> QED BY <2>1, <2>2 DEF Uses
<1> QED BY <1>4, <1>5, <1>6, <1>7, <1>8, <1>9, FewerWires

LEMMA WiresStay ==
  ASSUME \A n \in NodeIds : "left" \notin Ports[n], Wires, [WiringNext]_wiring, ~doubled'
  PROVE  Wires'
<1>0. ASSUME NEW n \in NodeIds, NEW port \in Ports[n] PROVE port \in {"main", "right"}
  BY PortsAssumption
<1>1. ASSUME NEW n \in NodeIds, AddNode(n) PROVE Wires'
  BY <1>1, AddNodeWires
<1>2. ASSUME NEW n \in NodeIds, SaveSettings(n) PROVE Wires'
  BY <1>2, SaveSettingsWires
<1>3. ASSUME NEW n \in NodeIds, DeleteNodeRaises(n) PROVE Wires'
  BY <1>3, DisconnectWires DEF DeleteNodeRaises
<1>4. ASSUME NEW n \in NodeIds, DeleteNode(n) PROVE Wires'
  BY <1>4, DisconnectWires DEF DeleteNode
<1>5. ASSUME NEW p \in NodeIds, NEW n \in NodeIds, NEW port \in Ports[n], Connect(p, n, port)
      PROVE Wires'
  BY <1>0, <1>5, ConnectWires
<1>6. ASSUME NEW p \in NodeIds, NEW n \in NodeIds, NEW port \in Ports[n], DeleteConnection(p, n, port)
      PROVE Wires'
  BY <1>0, <1>6, DeleteConnectionWires
<1>7. ASSUME UNCHANGED wiring PROVE Wires'
  <2>1. WiringTypeOK' /\ NoLeft' /\ NewIsBare'
    BY <1>7 DEF wiring, ports, Wires, WiringTypeOK, NoLeft, NewIsBare
  <2>2. UsesHaveLeads' /\ NoCycle'
    BY <1>7 DEF wiring, ports, Wires, UsesHaveLeads, Uses, Present, NoCycle, PlanGraph
  <2>3. Single'
    BY <1>7 DEF wiring, ports, Wires, Single, Same, Connected, Present, AllInputs
  <2> QED BY <2>1, <2>2, <2>3 DEF Wires
<1> QED BY <1>1, <1>2, <1>3, <1>4, <1>5, <1>6, <1>7 DEF WiringNext

LEMMA WiresAlways ==
  ASSUME \A n \in NodeIds : "left" \notin Ports[n]
  PROVE  WiringSpec => [](doubled \/ Wires)
<1>1. WiringInit => doubled \/ Wires
  BY InitWires
<1>2. ASSUME doubled \/ Wires, [WiringNext]_wiring PROVE (doubled \/ Wires)'
  <2>1. doubled => doubled'
    BY <1>2 DEF WiringNext, wiring, AddNode, SaveSettings, DeleteNodeRaises, DeleteNode, Connect,
       DeleteConnection
  <2> QED BY <1>2, <2>1, WiresStay
<1> QED BY <1>1, <1>2, PTL DEF WiringSpec

-----------------------------------------------------------------------------
(* The types of the wiring need nothing else, and no port is left out. *)
LEMMA WiringTypeInit == WiringInit => WiringTypeOK
<1>1. WiringInit => doubled \in BOOLEAN
  BY DEF WiringInit
<1> QED BY <1>1 DEF WiringInit, WiringTypeOK

(* A change of some main inputs after which none is longer, except those of a    *)
(* node that may have many, or is no more than one.                            *)
LEMMA MainInputsFit ==
  ASSUME WiringTypeOK, main' \in [NodeIds -> Seq(NodeIds)],
         \A m \in NodeIds : m \in Multi \/ Len(main'[m]) <= Len(main[m]) \/ Len(main'[m]) = 1
  PROVE  \A m \in NodeIds : Len(main'[m]) > 1 => m \in Multi
<1> SUFFICES ASSUME NEW m \in NodeIds, Len(main'[m]) > 1, m \notin Multi PROVE FALSE
  OBVIOUS
<1>1. main[m] \in Seq(NodeIds) /\ ~(Len(main[m]) > 1)
  BY DEF WiringTypeOK
<1>2. Len(main[m]) \in Nat /\ Len(main'[m]) \in Nat
  BY <1>1
<1>3. Len(main'[m]) <= Len(main[m]) \/ Len(main'[m]) = 1
  BY Zenon
<1> DEFINE before == Len(main[m])
           after == Len(main'[m])
<1>4. before \in Nat /\ after \in Nat /\ ~(before > 1) /\ after > 1 /\ (after <= before \/ after = 1)
  BY <1>1, <1>2, <1>3
<1> HIDE DEF before, after
<1> QED BY <1>4

LEMMA PlugTypes ==
  ASSUME WiringTypeOK, NEW p \in NodeIds, NEW n \in NodeIds, NEW port, Plug(p, n, port)
  PROVE  /\ main' \in [NodeIds -> Seq(NodeIds)] /\ listed' \in SUBSET NodeIds
         /\ right' \in [NodeIds -> NodeIds \cup {None}] /\ left' \in [NodeIds -> NodeIds \cup {None}]
         /\ \A m \in NodeIds : Len(main'[m]) > 1 => m \in Multi
<1>1. /\ main \in [NodeIds -> Seq(NodeIds)] /\ listed \in SUBSET NodeIds
      /\ right \in [NodeIds -> NodeIds \cup {None}] /\ left \in [NodeIds -> NodeIds \cup {None}]
      /\ \A m \in NodeIds : Len(main[m]) > 1 => m \in Multi
  BY DEF WiringTypeOK
<1>2. CASE main' = main
  <2>1. listed' \in SUBSET NodeIds /\ right' \in [NodeIds -> NodeIds \cup {None}]
        /\ left' \in [NodeIds -> NodeIds \cup {None}]
    BY <1>1 DEF Plug
  <2> QED BY <1>1, <1>2, <2>1
<1>3. CASE SetMain(p, n) /\ listed' = listed \cup {n} /\ UNCHANGED <<right, left>>
  <2>1. CASE n \in Multi /\ n \in listed
    <3>1. main' = [main EXCEPT ![n] = Append(main[n], p)] /\ Append(main[n], p) \in Seq(NodeIds)
      BY <1>1, <1>3, <2>1 DEF SetMain
    <3>2. main' \in [NodeIds -> Seq(NodeIds)]
      BY <1>1, <3>1
    <3>3. ASSUME NEW m \in NodeIds, m \notin Multi PROVE Len(main'[m]) <= Len(main[m])
      <4>1. main'[m] = main[m] /\ Len(main[m]) \in Nat
        BY <1>1, <2>1, <3>1, <3>3
      <4> QED BY <4>1
    <3>4. \A m \in NodeIds : Len(main'[m]) > 1 => m \in Multi
      BY <3>2, <3>3, MainInputsFit
    <3> QED BY <1>1, <1>3, <3>2, <3>4
  <2>2. CASE ~(n \in Multi /\ n \in listed)
    <3>0. <<p>> \in Seq(NodeIds) /\ Len(<<p>>) = 1
      OBVIOUS
    <3>1. main' = [main EXCEPT ![n] = <<p>>]
      BY <1>3, <2>2 DEF SetMain
    <3>2. main' \in [NodeIds -> Seq(NodeIds)]
      BY <1>1, <3>0, <3>1
    <3>3. ASSUME NEW m \in NodeIds PROVE Len(main'[m]) <= Len(main[m]) \/ Len(main'[m]) = 1
      <4>1. CASE m = n
        <5>1. main'[m] = <<p>>
          BY <1>1, <3>1, <4>1
        <5> QED BY <3>0, <5>1, Zenon
      <4>2. CASE m # n
        <5>1. main'[m] = main[m] /\ Len(main[m]) \in Nat
          BY <1>1, <3>1, <4>2
        <5> QED BY <5>1
      <4> QED BY <4>1, <4>2
    <3>4. \A m \in NodeIds : Len(main'[m]) > 1 => m \in Multi
      BY <3>2, <3>3, MainInputsFit
    <3> QED BY <1>1, <1>3, <3>2, <3>4
  <2> QED BY <2>1, <2>2
<1> QED BY <1>2, <1>3 DEF Plug

LEMMA UnplugTypes ==
  ASSUME WiringTypeOK, NEW p \in NodeIds, NEW n \in NodeIds, NEW port, Unplug(p, n, port)
  PROVE  /\ main' \in [NodeIds -> Seq(NodeIds)] /\ listed' \in SUBSET NodeIds
         /\ right' \in [NodeIds -> NodeIds \cup {None}] /\ left' \in [NodeIds -> NodeIds \cup {None}]
         /\ \A m \in NodeIds : Len(main'[m]) > 1 => m \in Multi
<1>1. /\ main \in [NodeIds -> Seq(NodeIds)] /\ listed \in SUBSET NodeIds
      /\ right \in [NodeIds -> NodeIds \cup {None}] /\ left \in [NodeIds -> NodeIds \cup {None}]
      /\ \A m \in NodeIds : Len(main[m]) > 1 => m \in Multi
  BY DEF WiringTypeOK
<1>2. CASE main' = main
  BY <1>1, <1>2 DEF Unplug
<1>3. CASE main' = [main EXCEPT ![n] = PopMatching(@, p)] /\ UNCHANGED <<listed, right, left>>
  <2> DEFINE less == PopMatching(main[n], p)
  <2>1. less \in Seq(NodeIds) /\ Len(less) <= Len(main[n])
    <3>1. main[n] \in Seq(NodeIds)
      BY <1>1
    <3> QED BY <3>1, PoppedOccurrences DEF PopMatching
  <2>2. main' = [main EXCEPT ![n] = less]
    BY <1>3
  <2> HIDE DEF less
  <2>3. main' \in [NodeIds -> Seq(NodeIds)]
    BY <1>1, <2>1, <2>2
  <2>4. ASSUME NEW m \in NodeIds PROVE Len(main'[m]) <= Len(main[m])
    <3>1. main[m] \in Seq(NodeIds) /\ Len(main[m]) \in Nat
      BY <1>1
    <3> QED BY <1>1, <2>1, <2>2, <3>1
  <2>5. \A m \in NodeIds : Len(main'[m]) > 1 => m \in Multi
    BY <2>3, <2>4, MainInputsFit
  <2> QED BY <1>1, <1>3, <2>3, <2>5
<1> QED BY <1>2, <1>3 DEF Unplug

(* delete_node, whether or not it raises, pops main inputs. *)
LEMMA DisconnectTypes ==
  ASSUME WiringTypeOK, NEW n \in NodeIds, DisconnectDependents(n)
  PROVE  /\ main' \in [NodeIds -> Seq(NodeIds)]
         /\ \A m \in NodeIds : Len(main'[m]) > 1 => m \in Multi
<1>1. ASSUME NEW m \in NodeIds
      PROVE  main'[m] \in Seq(NodeIds) /\ Len(main'[m]) <= Len(main[m])
  <2> DEFINE step == 2 ^ Cardinality({i \in Visited(n) : leads[n][i] = m})
  <2>1. main'[m] = PopEvery(main[m], n, step) /\ main[m] \in Seq(NodeIds)
    BY DEF DisconnectDependents, WiringTypeOK
  <2> HIDE DEF step
  <2> QED BY <2>1, PoppedOccurrences
<1>2. main' = [m \in NodeIds |-> main'[m]]
  BY DEF DisconnectDependents
<1>3. main' \in [NodeIds -> Seq(NodeIds)]
  BY <1>1, <1>2
<1> QED BY <1>1, <1>3, MainInputsFit

LEMMA WiringTypeStays ==
  ASSUME WiringTypeOK, [WiringNext]_wiring
  PROVE  WiringTypeOK'
<1>0. leads \in [NodeIds -> Seq(NodeIds)] /\ status \in [NodeIds -> {"new", "present", "deleted"}]
  BY DEF WiringTypeOK
<1>1. ASSUME NEW n \in NodeIds, AddNode(n) PROVE WiringTypeOK'
  <2>1. doubled' \in BOOLEAN
    BY <1>1 DEF AddNode
  <2>2. status' \in [NodeIds -> {"new", "present", "deleted"}]
    BY <1>0, <1>1 DEF AddNode
  <2> QED BY <1>1, <2>1, <2>2 DEF AddNode, ports, WiringTypeOK
<1>2. ASSUME NEW n \in NodeIds, SaveSettings(n) PROVE WiringTypeOK'
  <2>1. ASSUME NEW p \in NodeIds
        PROVE leads[p] \in Seq(NodeIds) /\ Append(leads[p], n) \in Seq(NodeIds)
    BY <1>0, <1>2
  <2>2. leads' \in [NodeIds -> Seq(NodeIds)]
    BY <1>2, <2>1 DEF SaveSettings
  <2> QED BY <1>2, <2>2 DEF SaveSettings, ports, WiringTypeOK
<1>3. ASSUME NEW n \in NodeIds, DeleteNodeRaises(n) PROVE WiringTypeOK'
  <2>1. main' \in [NodeIds -> Seq(NodeIds)] /\ \A m \in NodeIds : Len(main'[m]) > 1 => m \in Multi
    BY <1>3, DisconnectTypes DEF DeleteNodeRaises
  <2> QED BY <1>3, <2>1 DEF DeleteNodeRaises, WiringTypeOK
<1>4. ASSUME NEW n \in NodeIds, DeleteNode(n) PROVE WiringTypeOK'
  <2>1. main' \in [NodeIds -> Seq(NodeIds)] /\ \A m \in NodeIds : Len(main'[m]) > 1 => m \in Multi
    BY <1>4, DisconnectTypes DEF DeleteNode
  <2>2. ASSUME NEW p \in NodeIds
        PROVE DropFirst(leads[p], n, Occurrences(AllInputs(n), p)) \in Seq(NodeIds)
    <3>1. leads[p] \in Seq(NodeIds)
      BY <1>0
    <3> QED BY <3>1, DroppedEntries
  <2>3. leads' \in [NodeIds -> Seq(NodeIds)]
    BY <1>4, <2>2 DEF DeleteNode
  <2> QED BY <1>4, <2>1, <2>3 DEF DeleteNode, WiringTypeOK
<1>5. ASSUME NEW p \in NodeIds, NEW n \in NodeIds, NEW port \in Ports[n], Connect(p, n, port)
      PROVE WiringTypeOK'
  <2>1. Append(leads[p], n) \in Seq(NodeIds)
    BY <1>0
  <2>2. leads' \in [NodeIds -> Seq(NodeIds)]
    BY <1>0, <1>5, <2>1 DEF Connect
  <2> QED BY <1>0, <1>5, <2>2, PlugTypes DEF Connect, WiringTypeOK
<1>6. ASSUME NEW p \in NodeIds, NEW n \in NodeIds, NEW port \in Ports[n], DeleteConnection(p, n, port)
      PROVE WiringTypeOK'
  <2>1. leads[p] \in Seq(NodeIds)
    BY <1>0
  <2>2. DropFirst(leads[p], n, 1) \in Seq(NodeIds)
    BY <2>1, DroppedEntries
  <2>3. leads' \in [NodeIds -> Seq(NodeIds)]
    BY <1>0, <1>6, <2>2 DEF DeleteConnection, Unlead
  <2> QED BY <1>0, <1>6, <2>3, UnplugTypes DEF DeleteConnection, WiringTypeOK
<1>7. ASSUME UNCHANGED wiring PROVE WiringTypeOK'
  BY <1>7 DEF wiring, ports, WiringTypeOK
<1> QED BY <1>1, <1>2, <1>3, <1>4, <1>5, <1>6, <1>7 DEF WiringNext

(* Type correctness of the wiring, for any nodes, ports and templates: a node     *)
(* with one or two inputs never has more than one main input (add_node_connection  *)
(* replaces it).                                                             *)
THEOREM WiringTypeCorrect == WiringSpec => []WiringTypeOK
BY WiringTypeInit, WiringTypeStays, PTL DEF WiringSpec

(* LeadsAcyclic for any flow edited through the handles the editor offers:       *)
(* _would_create_cycle lets no connection close a cycle, and what SaveSettings    *)
(* would write back is led already, as long as no id came back while its old      *)
(* object was connected.                                                      *)
THEOREM LeadsStayAcyclic ==
  ASSUME \A n \in NodeIds : "left" \notin Ports[n]
  PROVE  WiringSpec => []LeadsAcyclic
<1>1. doubled \/ Wires => LeadsAcyclic
  BY DEF Wires, LeadsAcyclic
<1> QED BY <1>1, WiresAlways, PTL

(* InputsHaveLeads for any flow edited through these handles: however often a     *)
(* connection is made, replaced or deleted, get_all_inputs and leads_to_nodes     *)
(* never disagree in the way that hides an input from the plan, with the same     *)
(* exception.                                                                *)
THEOREM InputsStayLed ==
  ASSUME \A n \in NodeIds : "left" \notin Ports[n]
  PROVE  WiringSpec => []InputsHaveLeads
<1>1. doubled \/ Wires => InputsHaveLeads
  BY InputsAreLed DEF InputsHaveLeads, Wires
<1> QED BY <1>1, WiresAlways, PTL
=============================================================================
