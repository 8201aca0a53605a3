--------------------------- MODULE FlowRunProofs ---------------------------
(***************************************************************************)
(* Proofs about FlowRun for every set of nodes, every graph and every        *)
(* number of workers.                                                        *)
(***************************************************************************)
EXTENDS FlowRun, FiniteSetTheorems, TLAPS

-----------------------------------------------------------------------------
(* Facts about plans. *)

(* Downstream is closed: what its nodes lead to is downstream too. *)
LEMMA DownstreamClosed ==
    ASSUME NEW h, NEW S \in SUBSET NodeIds
    PROVE  /\ Downstream(h, S) \subseteq NodeIds
           /\ LeadsTo(h, S \cup Downstream(h, S)) \subseteq Downstream(h, S)
  <1>1. Downstream(h, S) \subseteq NodeIds
    BY DEF Downstream
  <1>2. ASSUME NEW m \in LeadsTo(h, S \cup Downstream(h, S)), NEW C \in Closed(h, S)
        PROVE  m \in C
    <2>1. Downstream(h, S) \subseteq C
      BY DEF Downstream
    <2>2. m \in LeadsTo(h, S \cup C)
      BY <2>1 DEF LeadsTo
    <2> QED
      BY <2>2 DEF Closed
  <1> QED
    BY <1>1, <1>2 DEF Downstream, LeadsTo

(* A staging puts every counted input of a scheduled node in an earlier       *)
(* stage.                                                                    *)
LEMMA StagingOrdersInputs ==
    ASSUME NEW h, NEW st \in Stagings, IsStaging(h, st),
           NEW n \in NodeIds, st[n] > 0, NEW p \in InEdges(h, n), p \in NodeIds
    PROVE  st[p] > 0 /\ st[p] < st[n]
  <1>1. ~Seeded(h, n)
    BY DEF Seeded, InitQueue
  <1>2. Reached(h, st, n)
    BY <1>1 DEF IsStaging, Stagings
  <1>3. st[p] > 0
    BY <1>2 DEF Reached
  <1>4. st[n] > st[p]
    BY <1>1, <1>2 DEF IsStaging
  <1>5. st[n] \in Nat /\ st[p] \in Nat
    BY FS_CardinalityType, NodeIdsFinite DEF Stagings
  <1> QED
    BY <1>3, <1>4, <1>5

(* Only nodes of the node map are scheduled. *)
LEMMA ScheduledInNodeMap ==
    ASSUME NEW h \in Graph, NEW st \in Stagings, IsStaging(h, st)
    PROVE  Scheduled(st) \subseteq NodeMap(h)
  <1> SUFFICES ASSUME NEW n \in NodeIds, st[n] > 0, ~Seeded(h, n)
               PROVE  n \in NodeMap(h)
    BY DEF Scheduled, Seeded
  <1>1. Reached(h, st, n)
    BY DEF IsStaging, Stagings
  <1>2. PICK p \in AllNodes(h) : <<p, n>> \in h.edges
    BY <1>1 DEF Reached, InEdges
  <1> QED
    BY <1>2 DEF NodeMap, LeadsTo

(* A plan that does not raise schedules every node that is not skipped. *)
LEMMA PlanIsComplete ==
    ASSUME NEW h \in Graph, NEW st \in Stagings, IsStaging(h, st), ~PlanRaises(h, st)
    PROVE  \A n \in AllNodes(h) : n \in NodeIds /\ st[n] > 0
  <1>1. NodeMap(h) \subseteq NodeIds
    BY DEF NodeMap, AllNodes, LeadsTo, Graph
  <1>2. IsFiniteSet(NodeMap(h))
    BY <1>1, FS_Subset, NodeIdsFinite
  <1>3. Scheduled(st) = NodeMap(h)
    BY <1>2, ScheduledInNodeMap, FS_Subset DEF PlanRaises
  <1> QED
    BY <1>3 DEF NodeMap, Scheduled

-----------------------------------------------------------------------------
(* Types: every variable of FlowRun keeps its type, so that the flags, the    *)
(* node results and the run's success never take a value the code does not    *)
(* give them.                                                                *)
LEMMA InitTypeOK == Init => TypeOK
  <1>1. Cardinality(NodeIds) \in Nat
    BY FS_CardinalityType, NodeIdsFinite
  <1>2. Stagings \subseteq [NodeIds -> Nat]
    BY <1>1 DEF Stagings
  <1> SUFFICES ASSUME Init PROVE TypeOK
    OBVIOUS
  <1>3. staging \in [NodeIds -> Nat]
    BY <1>2 DEF Init
  <1>4. result \in [NodeIds -> Results]
    BY DEF Init, NotRun, Results
  <1>5. g \in Graphs /\ workers \in WorkerCounts
    BY DEF Init
  <1>6. pc \in Phases /\ isRunning \in BOOLEAN /\ isCanceled \in BOOLEAN
    BY DEF Init, Phases
  <1>7. level \in Nat /\ runs \in Nat /\ callback \in SUBSET Sources /\ committed \in SUBSET Sources
    BY DEF Init
  <1> QED
    BY <1>3, <1>4, <1>5, <1>6, <1>7 DEF Init, TypeOK

LEMMA NextTypeOK == TypeOK /\ [Next]_vars => TypeOK'
  <1> SUFFICES ASSUME TypeOK, [Next]_vars PROVE TypeOK'
    OBVIOUS
  <1> USE DEF TypeOK, Phases, Results, NotRun, setup, stages, report
  <1>0. g \in Graph
    BY GraphsAssumption
  <1>1. CASE Claim
    BY <1>1 DEF Claim
  <1>2. CASE ResetCancel
    BY <1>2 DEF ResetCancel
  <1>3. CASE PlanFails
    BY <1>3 DEF PlanFails
  <1>4. CASE MakePlan
    <2>1. NodesToSkip(g) \subseteq NodeIds
      BY <1>0 DEF NodesToSkip, IncorrectNodes, LeadsTo, Graph
    <2> QED
      BY <1>4, <2>1 DEF MakePlan
  <1>5. CASE BeginStage
    BY <1>5 DEF BeginStage, NodesToRun, StageNodes
  <1>6. CASE LeaveStages
    BY <1>6 DEF LeaveStages
  <1>7. ASSUME NEW n \in NodeIds, StartNode(n) PROVE TypeOK'
    BY <1>7 DEF StartNode
  <1>8. ASSUME NEW n \in NodeIds, ParamsUnresolved(n) PROVE TypeOK'
    BY <1>8 DEF ParamsUnresolved
  <1>9. ASSUME NEW n \in NodeIds, FinishNode(n) PROVE TypeOK'
    BY <1>9 DEF FinishNode, Armed
  <1>10. ASSUME NEW n \in NodeIds, NodeRaises(n) PROVE TypeOK'
    BY <1>10 DEF NodeRaises
  <1>11. CASE EndStage
    <2>1. Downstream(g, StageFailures) \subseteq NodeIds
      BY DEF Downstream
    <2> QED
      BY <1>11, <2>1 DEF EndStage, Stopped, StageFailures, StageNodes
  <1>12. CASE Crash
    BY <1>12 DEF Crash
  <1>13. CASE CheckCanceled
    BY <1>13 DEF CheckCanceled
  <1>14. ASSUME NEW n \in NodeIds, FireCallback(n) PROVE TypeOK'
    BY <1>14 DEF FireCallback
  <1>15. CASE CallbacksOver
    BY <1>15 DEF CallbacksOver
  <1>16. CASE Close
    BY <1>16 DEF Close
  <1>17. CASE PollStatus
    BY <1>17 DEF PollStatus
  <1>18. CASE RequestCancel
    BY <1>18 DEF RequestCancel
  <1>19. CASE Cancel
    BY <1>19 DEF Cancel
  <1>20. CASE UNCHANGED vars
    BY <1>20 DEF vars
  <1> QED
    BY <1>1, <1>2, <1>3, <1>4, <1>5, <1>6, <1>7, <1>8, <1>9, <1>10, <1>11, <1>12, <1>13,
       <1>14, <1>15, <1>16, <1>17, <1>18, <1>19, <1>20 DEF Next, RunStep, Terminated

(* Type correctness of a flow and its runs, for every graph and pool size.     *)
THEOREM TypeCorrect == Spec => []TypeOK
  BY InitTypeOK, NextTypeOK, PTL DEF Spec

-----------------------------------------------------------------------------
(* The inductive invariant, in four parts. *)

InRun == pc \in {"stages", "nodes", "check", "callbacks", "closing"}

(* Which phase goes with which flags. *)
PhaseInv ==
    /\ isRunning <=> pc \notin {"idle", "closed", "crashed"}
    /\ InRun \/ raised \/ success # "none" => ~PlanRaises(g, staging)
    /\ pc # "nodes" => pending = {} /\ active = {}
    /\ raised => pc \in {"nodes", "crashed", "claimed", "planning"}

(* Nodes of later stages have no result; the nodes of the current stage that   *)
(* may still start have all their inputs.                                    *)
ResultInv ==
    /\ \A n \in NodeIds : staging[n] = 0 \/ staging[n] > level => result[n] = "none"
    /\ \A n \in pending : /\ staging[n] = level /\ level > 0 /\ n \notin skip
                          /\ result[n] = "none"
                          /\ \A p \in InEdges(g, n) : result[p] = "ok"
    /\ \A n \in active : staging[n] = level /\ result[n] = "running"
    /\ ~raised => \A n \in NodeIds : result[n] = "running" => n \in active
    /\ raised => \E n \in NodeIds : result[n] = "running" /\ n \notin active
    /\ InputsOkBeforeRun

(* The stage of n is over. *)
Over(n) == staging[n] > 0 /\ (staging[n] < level \/ (staging[n] = level /\ pc # "nodes"))

(* Every node of a stage that is over was skipped or ran; the skip set is the  *)
(* plan's and everything downstream of a failure.                            *)
SkipInv ==
    /\ ~raised => \A n \in NodeIds : Over(n) =>
                      /\ n \in skip \/ result[n] # "none"
                      /\ result[n] \in {"failed", "void"} => n \in failed
    /\ ~raised /\ pc = "nodes" => \A n \in NodeIds : staging[n] = level =>
                      n \in skip \/ n \in pending \/ result[n] # "none"
    /\ \A n \in failed : /\ result[n] \in {"failed", "void"}
                         /\ {n} \cup AllDependents(g, n) \subseteq skip
    /\ InRun => NodesToSkip(g) \subseteq skip
    /\ failed = {} => skip \subseteq NodesToSkip(g)
    /\ \A m \in skip \ NodesToSkip(g) : LeadsTo(g, {m}) \subseteq skip

(* What holds from the end of the stages on. *)
EndInv ==
    /\ pc \in {"check", "closing", "closed"} => ~MoreStages \/ isCanceled
    /\ pc = "callbacks" => ~MoreStages
    /\ InRun \/ pc = "idle" => success = "none"
    /\ pc = "crashed" => success # "true"
    /\ success = "true" => AllSucceeded
    /\ pc \in {"stages", "nodes", "check"} => committed = {}
    /\ CommitOnlyComplete

IInv == /\ TypeOK /\ PhaseInv /\ ResultInv /\ SkipInv /\ EndInv
        /\ staging \in Stagings /\ IsStaging(g, staging)

-----------------------------------------------------------------------------
(* The steps that touch what _execute_stages works on. *)
StageStep ==
    \/ MakePlan \/ BeginStage \/ EndStage
    \/ \E n \in NodeIds : StartNode(n) \/ ParamsUnresolved(n) \/ FinishNode(n) \/ NodeRaises(n)

LEMMA OtherSteps ==
    ASSUME [Next]_vars, ~StageStep
    PROVE  /\ UNCHANGED <<g, staging, level, skip, failed, pending, active, raised, result>>
           /\ (pc = "nodes" <=> pc' = "nodes") \/ raised
           /\ InRun' => InRun
  <1> USE DEF setup, stages, vars, InRun
  <1>1. CASE Claim
    BY <1>1 DEF Claim
  <1>2. CASE ResetCancel
    BY <1>2 DEF ResetCancel
  <1>3. CASE PlanFails
    BY <1>3 DEF PlanFails
  <1>4. CASE LeaveStages
    BY <1>4 DEF LeaveStages
  <1>5. CASE Crash
    BY <1>5 DEF Crash
  <1>6. CASE CheckCanceled
    BY <1>6 DEF CheckCanceled
  <1>7. CASE \E n \in NodeIds : FireCallback(n)
    BY <1>7 DEF FireCallback
  <1>8. CASE CallbacksOver
    BY <1>8 DEF CallbacksOver
  <1>9. CASE Close
    BY <1>9 DEF Close
  <1>10. CASE PollStatus
    BY <1>10 DEF PollStatus
  <1>11. CASE RequestCancel
    BY <1>11 DEF RequestCancel
  <1>12. CASE Cancel
    BY <1>12 DEF Cancel
  <1>13. CASE UNCHANGED vars
    BY <1>13
  <1> QED
    BY <1>1, <1>2, <1>3, <1>4, <1>5, <1>6, <1>7, <1>8, <1>9, <1>10, <1>11, <1>12, <1>13
    DEF Next, RunStep, StageStep, Terminated

(* No step changes the graph or its plan. *)
LEMMA SetupConstant == [Next]_vars => g' = g /\ staging' = staging
  <1> SUFFICES ASSUME [Next]_vars, StageStep PROVE g' = g /\ staging' = staging
    BY OtherSteps
  <1> QED
    BY DEF StageStep, setup, MakePlan, BeginStage, EndStage, StartNode, ParamsUnresolved,
           FinishNode, NodeRaises

(* Nothing is downstream of no node, and more is downstream of more nodes. *)
LEMMA DownstreamMonotonic ==
    ASSUME NEW h, NEW S \in SUBSET NodeIds, NEW T \in SUBSET S
    PROVE  Downstream(h, T) \subseteq Downstream(h, S) /\ Downstream(h, {}) = {}
  <1>1. Closed(h, S) \subseteq Closed(h, T)
    BY DEF Closed, LeadsTo
  <1>2. {} \in Closed(h, {})
    BY DEF Closed, LeadsTo
  <1> QED
    BY <1>1, <1>2 DEF Downstream

LEMMA InputsAreNodes ==
    ASSUME NEW h \in Graph, NEW n
    PROVE  InEdges(h, n) \subseteq AllNodes(h) /\ AllNodes(h) \subseteq NodeIds
  BY DEF InEdges, AllNodes, Graph

-----------------------------------------------------------------------------
LEMMA PhaseStep == TypeOK /\ PhaseInv /\ [Next]_vars => PhaseInv'
  <1> SUFFICES ASSUME TypeOK, PhaseInv, [Next]_vars PROVE PhaseInv'
    OBVIOUS
  <1> USE DEF PhaseInv, InRun, setup, stages, report
  <1>0. g' = g /\ staging' = staging
    BY SetupConstant
  <1>1. CASE Claim
    BY <1>0, <1>1 DEF Claim
  <1>2. CASE ResetCancel
    BY <1>0, <1>2 DEF ResetCancel
  <1>3. CASE PlanFails
    BY <1>0, <1>3 DEF PlanFails
  <1>4. CASE MakePlan
    BY <1>0, <1>4 DEF MakePlan
  <1>5. CASE BeginStage
    BY <1>0, <1>5 DEF BeginStage
  <1>6. CASE LeaveStages
    BY <1>0, <1>6 DEF LeaveStages
  <1>7. CASE \E n \in NodeIds : StartNode(n)
    BY <1>0, <1>7 DEF StartNode
  <1>8. CASE \E n \in NodeIds : ParamsUnresolved(n)
    BY <1>0, <1>8 DEF ParamsUnresolved
  <1>9. CASE \E n \in NodeIds : FinishNode(n)
    BY <1>0, <1>9 DEF FinishNode
  <1>10. CASE \E n \in NodeIds : NodeRaises(n)
    BY <1>0, <1>10 DEF NodeRaises
  <1>11. CASE EndStage
    BY <1>0, <1>11 DEF EndStage, StageDone
  <1>12. CASE Crash
    BY <1>0, <1>12 DEF Crash, StageDone
  <1>13. CASE CheckCanceled
    BY <1>0, <1>13 DEF CheckCanceled
  <1>14. CASE \E n \in NodeIds : FireCallback(n)
    BY <1>0, <1>14 DEF FireCallback
  <1>15. CASE CallbacksOver
    BY <1>0, <1>15 DEF CallbacksOver
  <1>16. CASE Close
    BY <1>0, <1>16 DEF Close
  <1>17. CASE PollStatus
    BY <1>0, <1>17 DEF PollStatus
  <1>18. CASE RequestCancel
    BY <1>0, <1>18 DEF RequestCancel
  <1>19. CASE Cancel
    BY <1>0, <1>19 DEF Cancel
  <1>20. CASE UNCHANGED vars
    BY <1>20 DEF vars
  <1> QED
    BY <1>1, <1>2, <1>3, <1>4, <1>5, <1>6, <1>7, <1>8, <1>9, <1>10, <1>11, <1>12, <1>13,
       <1>14, <1>15, <1>16, <1>17, <1>18, <1>19, <1>20 DEF Next, RunStep, Terminated

-----------------------------------------------------------------------------
(* Before a stage begins, a node of it that is not skipped has all its inputs. *)
LEMMA StageReady ==
    ASSUME TypeOK, IsStaging(g, staging), staging \in Stagings, PhaseInv, ResultInv, SkipInv,
           pc = "stages",
           NEW n \in StageNodes(level + 1) \ skip, NEW p \in InEdges(g, n)
    PROVE  result[p] = "ok"
  <1>1. g \in Graph
    BY GraphsAssumption DEF TypeOK
  <1>2. p \in AllNodes(g) /\ p \in NodeIds /\ n \in NodeIds /\ <<p, n>> \in g.edges
    BY <1>1, InputsAreNodes DEF InEdges, StageNodes
  <1>3. staging[p] > 0 /\ staging[p] < staging[n] /\ staging[n] = level + 1
    BY <1>2, StagingOrdersInputs DEF StageNodes, TypeOK
  <1>4. Over(p)
    BY <1>2, <1>3 DEF Over, TypeOK
  <1>5. ~raised /\ active = {}
    BY DEF PhaseInv
  <1>6. n \in LeadsTo(g, {p})
    BY <1>2 DEF LeadsTo
  <1>7. p \notin skip
    <2> SUFFICES ASSUME p \in skip PROVE FALSE
      OBVIOUS
    <2>1. p \notin NodesToSkip(g)
      BY <1>2 DEF AllNodes
    <2> QED
      BY <1>6, <2>1 DEF SkipInv
  <1>8. p \notin failed
    BY <1>7 DEF SkipInv
  <1>9. result[p] \in Results /\ result[p] \notin {"none", "running", "failed", "void"}
    BY <1>2, <1>4, <1>5, <1>7, <1>8 DEF SkipInv, ResultInv, TypeOK
  <1> QED
    BY <1>9 DEF Results

LEMMA ResultStep ==
    TypeOK /\ IsStaging(g, staging) /\ staging \in Stagings /\ PhaseInv /\ ResultInv /\ SkipInv
        /\ [Next]_vars => ResultInv'
  <1> SUFFICES ASSUME TypeOK, IsStaging(g, staging), staging \in Stagings, PhaseInv, ResultInv,
                      SkipInv, [Next]_vars
               PROVE  ResultInv'
    OBVIOUS
  <1>0. g' = g /\ staging' = staging
    BY SetupConstant
  <1>a. g \in Graph
    BY GraphsAssumption DEF TypeOK
  <1>b. \A n : InEdges(g, n) \subseteq NodeIds
    BY <1>a, InputsAreNodes
  <1> USE DEF setup, report
  <1>1. CASE MakePlan
    BY <1>0, <1>1 DEF MakePlan, ResultInv, InputsOkBeforeRun, NotRun
  <1>2. CASE BeginStage
    <2>1. \A n \in pending' : \A p \in InEdges(g, n) : result[p] = "ok"
      BY <1>2, StageReady DEF BeginStage, NodesToRun
    <2>2. \A n \in pending' : n \in NodeIds /\ staging[n] = level + 1 /\ n \notin skip
      BY <1>2 DEF BeginStage, NodesToRun, StageNodes
    <2>3. level + 1 > level /\ level + 1 > 0
      BY DEF TypeOK
    <2>4. \A n \in NodeIds : staging[n] > level + 1 => staging[n] > level
      BY DEF TypeOK
    <2>5. active = {} /\ ~raised
      BY <1>2 DEF BeginStage, PhaseInv
    <2> QED
      BY <1>0, <1>2, <2>1, <2>2, <2>3, <2>4, <2>5 DEF BeginStage, ResultInv, InputsOkBeforeRun
  <1>3. CASE EndStage
    <2>1. pending = {} /\ active = {}
      BY <1>3 DEF EndStage, StageDone
    <2> QED
      BY <1>0, <1>3, <2>1 DEF EndStage, StageDone, ResultInv, InputsOkBeforeRun
  <1>4. ASSUME NEW n \in NodeIds, StartNode(n) PROVE ResultInv'
    <2>1. result' = [result EXCEPT ![n] = "running"] /\ result[n] = "none"
          /\ staging[n] = level /\ n \notin skip /\ \A p \in InEdges(g, n) : result[p] = "ok"
      BY <1>4 DEF StartNode, ResultInv
    <2>2. \A m \in NodeIds \ {n} : result'[m] = result[m]
      BY <2>1 DEF TypeOK
    <2>3. result'[n] = "running"
      BY <2>1 DEF TypeOK
    <2>4. pending' = pending \ {n} /\ active' = active \cup {n} /\ level' = level
          /\ skip' = skip /\ raised' = raised
      BY <1>4 DEF StartNode
    <2>5. \A m \in NodeIds : result[m] # "none" \/ m \in pending \/ m = n =>
              \A p \in InEdges(g, m) : p # n /\ result'[p] = "ok"
      BY <1>b, <2>1, <2>2, <1>4 DEF ResultInv, InputsOkBeforeRun
    <2>6. staging[n] # 0 /\ ~(staging[n] > level)
      BY <2>1, <1>4 DEF StartNode, ResultInv, TypeOK
    <2>7. pending \subseteq NodeIds /\ active \subseteq NodeIds
      BY DEF TypeOK
    <2> QED
      BY <1>0, <2>1, <2>2, <2>3, <2>4, <2>5, <2>6, <2>7 DEF ResultInv, InputsOkBeforeRun
  <1>5. ASSUME NEW n \in NodeIds, ParamsUnresolved(n) PROVE ResultInv'
    <2>1. result' = [result EXCEPT ![n] = "failed"] /\ result[n] = "none"
          /\ staging[n] = level /\ level > 0 /\ \A p \in InEdges(g, n) : result[p] = "ok"
      BY <1>5 DEF ParamsUnresolved, ResultInv
    <2>2. \A m \in NodeIds \ {n} : result'[m] = result[m]
      BY <2>1 DEF TypeOK
    <2>3. result'[n] = "failed"
      BY <2>1 DEF TypeOK
    <2>4. pending' = pending \ {n} /\ active' = active /\ level' = level
          /\ skip' = skip /\ raised' = raised
      BY <1>5 DEF ParamsUnresolved
    <2>5. \A m \in NodeIds : result[m] # "none" \/ m \in pending \/ m = n =>
              \A p \in InEdges(g, m) : p # n /\ result'[p] = "ok"
      BY <1>b, <2>1, <2>2, <1>5 DEF ParamsUnresolved, ResultInv, InputsOkBeforeRun
    <2>6. staging[n] # 0 /\ ~(staging[n] > level)
      BY <2>1 DEF TypeOK
    <2>7. pending \subseteq NodeIds /\ active \subseteq NodeIds
      BY DEF TypeOK
    <2> QED
      BY <1>0, <2>1, <2>2, <2>3, <2>4, <2>5, <2>6, <2>7 DEF ResultInv, InputsOkBeforeRun
  <1>6. ASSUME NEW n \in NodeIds, FinishNode(n) PROVE ResultInv'
    <2>1. PICK r \in {"ok", "failed", "void"} : result' = [result EXCEPT ![n] = r]
      BY <1>6 DEF FinishNode
    <2>2. \A m \in NodeIds \ {n} : result'[m] = result[m]
      BY <2>1 DEF TypeOK
    <2>3. result'[n] = r /\ r # "none" /\ r # "running"
      BY <2>1 DEF TypeOK
    <2>4. pending' = pending /\ active' = active \ {n} /\ level' = level
          /\ skip' = skip /\ raised' = raised
      BY <1>6 DEF FinishNode
    <2>5. n \in active /\ result[n] = "running"
      BY <1>6 DEF FinishNode, ResultInv
    <2>6. \A m \in NodeIds : result[m] # "none" \/ m \in pending =>
              \A p \in InEdges(g, m) : p # n /\ result'[p] = "ok"
      BY <1>b, <2>2, <2>5 DEF ResultInv, InputsOkBeforeRun
    <2>7. pending \subseteq NodeIds /\ active \subseteq NodeIds
      BY DEF TypeOK
    <2> QED
      BY <1>0, <2>2, <2>3, <2>4, <2>5, <2>6, <2>7 DEF ResultInv, InputsOkBeforeRun
  <1>7. ASSUME NEW n \in NodeIds, NodeRaises(n) PROVE ResultInv'
    <2>1. n \in active /\ result[n] = "running" /\ active' = active \ {n} /\ raised' = TRUE
      BY <1>7 DEF NodeRaises, ResultInv
    <2>2. pending' \subseteq pending
      BY <1>7 DEF NodeRaises
    <2> QED
      BY <1>0, <1>7, <2>1, <2>2 DEF NodeRaises, ResultInv, InputsOkBeforeRun
  <1>8. CASE ~StageStep
    BY <1>8, OtherSteps DEF ResultInv, InputsOkBeforeRun
  <1> QED
    BY <1>1, <1>2, <1>3, <1>4, <1>5, <1>6, <1>7, <1>8 DEF StageStep

-----------------------------------------------------------------------------
LEMMA SkipStep ==
    TypeOK /\ PhaseInv /\ ResultInv /\ SkipInv /\ [Next]_vars => SkipInv'
  <1> SUFFICES ASSUME TypeOK, PhaseInv, ResultInv, SkipInv, [Next]_vars PROVE SkipInv'
    OBVIOUS
  <1>0. g' = g /\ staging' = staging
    BY SetupConstant
  <1>a. level \in Nat /\ staging \in [NodeIds -> Nat] /\ result \in [NodeIds -> Results]
        /\ failed \subseteq NodeIds /\ skip \subseteq NodeIds
    BY DEF TypeOK
  <1> USE DEF setup, report
  <1>1. CASE MakePlan
    <2>1. \A n \in NodeIds : ~Over(n)'
      BY <1>0, <1>1, <1>a DEF MakePlan, Over
    <2> QED
      BY <1>0, <1>1, <2>1 DEF MakePlan, SkipInv
  <1>2. CASE BeginStage
    <2>1. \A n \in NodeIds : Over(n)' => Over(n)
      BY <1>0, <1>2, <1>a DEF BeginStage, Over
    <2>2. \A n \in NodeIds : staging[n] = level' => n \in skip \/ n \in pending'
      BY <1>2 DEF BeginStage, NodesToRun, StageNodes
    <2>3. UNCHANGED <<skip, failed, raised, result>> /\ InRun
      BY <1>2 DEF BeginStage, InRun
    <2> QED
      BY <1>0, <2>1, <2>2, <2>3 DEF SkipInv
  <1>3. CASE EndStage
    <2> DEFINE Dn == Downstream(g, StageFailures)
    <2>1. StageFailures \subseteq NodeIds
      BY DEF StageFailures, StageNodes
    <2>2. failed' = failed \cup StageFailures /\ skip' = skip \cup StageFailures \cup Dn
          /\ pc' = "stages" /\ pc = "nodes" /\ pending = {} /\ ~raised
          /\ UNCHANGED <<level, raised, result>>
      BY <1>3 DEF EndStage, StageDone, Stopped
    <2>3. ASSUME NEW n \in NodeIds, Over(n)'
          PROVE  (n \in skip' \/ result'[n] # "none")
                 /\ (result'[n] \in {"failed", "void"} => n \in failed')
      <3>1. CASE staging[n] < level
        BY <1>0, <2>2, <2>3, <3>1 DEF Over, SkipInv
      <3>2. CASE staging[n] = level
        BY <1>0, <2>2, <2>3, <3>2 DEF Over, SkipInv, StageFailures, StageNodes
      <3> QED
        BY <1>0, <1>a, <2>2, <2>3, <3>1, <3>2 DEF Over
    <2>4. ASSUME NEW n \in failed'
          PROVE  result'[n] \in {"failed", "void"} /\ {n} \cup AllDependents(g, n) \subseteq skip'
      <3>1. CASE n \in failed
        BY <2>2, <3>1 DEF SkipInv
      <3>2. CASE n \in StageFailures
        <4>1. AllDependents(g, n) \subseteq Dn
          BY <2>1, <3>2, DownstreamMonotonic DEF AllDependents
        <4> QED
          BY <2>2, <3>2, <4>1 DEF StageFailures
      <3> QED
        BY <2>2, <3>1, <3>2
    <2>5. failed' = {} => skip' \subseteq NodesToSkip(g)
      <3> SUFFICES ASSUME failed' = {} PROVE skip' \subseteq NodesToSkip(g)
        OBVIOUS
      <3>1. failed = {} /\ StageFailures = {}
        BY <2>2
      <3>2. Dn = {}
        BY <2>1, <3>1, DownstreamMonotonic
      <3> QED
        BY <2>2, <3>1, <3>2 DEF SkipInv
    <2>6. ASSUME NEW m \in skip' \ NodesToSkip(g) PROVE LeadsTo(g, {m}) \subseteq skip'
      <3>1. CASE m \in skip
        BY <2>2, <2>6, <3>1 DEF SkipInv
      <3>2. CASE m \in StageFailures \cup Dn
        <4>1. LeadsTo(g, {m}) \subseteq LeadsTo(g, StageFailures \cup Dn)
          BY <3>2 DEF LeadsTo
        <4> QED
          BY <2>1, <2>2, <4>1, DownstreamClosed
      <3> QED
        BY <2>2, <3>1, <3>2
    <2>7. NodesToSkip(g) \subseteq skip'
      BY <2>2 DEF SkipInv, InRun
    <2> QED
      BY <1>0, <2>2, <2>3, <2>4, <2>5, <2>6, <2>7 DEF SkipInv
  <1>4. ASSUME NEW n \in NodeIds, StartNode(n) \/ ParamsUnresolved(n) \/ FinishNode(n)
        PROVE  SkipInv'
    <2>1. UNCHANGED <<pc, level, skip, failed, raised>> /\ pc = "nodes" /\ staging[n] = level
      BY <1>4 DEF StartNode, ParamsUnresolved, FinishNode, ResultInv
    <2>2. PICK r \in Results \ {"none"} : result' = [result EXCEPT ![n] = r]
      BY <1>4 DEF StartNode, ParamsUnresolved, FinishNode, Results
    <2>3. \A m \in NodeIds \ {n} : result'[m] = result[m]
      BY <1>a, <2>2
    <2>4. result'[n] # "none"
      BY <1>a, <2>2
    <2>5. \A m \in NodeIds : Over(m)' => Over(m) /\ m # n
      BY <1>0, <1>a, <2>1 DEF Over
    <2>6. n \notin failed
      BY <1>4 DEF StartNode, ParamsUnresolved, FinishNode, ResultInv, SkipInv
    <2>7. \A m \in NodeIds \ {n} : m \in pending => m \in pending'
      BY <1>4 DEF StartNode, ParamsUnresolved, FinishNode
    <2>8. InRun' => InRun
      BY <2>1 DEF InRun
    <2>9. ~raised' => \A m \in NodeIds : Over(m)' =>
              /\ m \in skip' \/ result'[m] # "none"
              /\ result'[m] \in {"failed", "void"} => m \in failed'
      BY <2>1, <2>3, <2>5 DEF SkipInv
    <2>10. ~raised' /\ pc' = "nodes" => \A m \in NodeIds : staging'[m] = level' =>
              m \in skip' \/ m \in pending' \/ result'[m] # "none"
      BY <1>0, <2>1, <2>3, <2>4, <2>7 DEF SkipInv
    <2>11. \A m \in failed' : /\ result'[m] \in {"failed", "void"}
                              /\ {m} \cup AllDependents(g, m) \subseteq skip'
      BY <1>a, <2>1, <2>3, <2>6 DEF SkipInv
    <2> QED
      BY <1>0, <2>1, <2>8, <2>9, <2>10, <2>11 DEF SkipInv
  <1>5. ASSUME NEW n \in NodeIds, NodeRaises(n) PROVE SkipInv'
    <2>1. UNCHANGED <<pc, level, skip, failed, result>> /\ raised' = TRUE
      BY <1>5 DEF NodeRaises
    <2> QED
      BY <1>0, <2>1 DEF SkipInv, InRun
  <1>6. CASE ~StageStep
    <2>1. /\ UNCHANGED <<g, staging, level, skip, failed, pending, active, raised, result>>
          /\ (pc = "nodes" <=> pc' = "nodes") \/ raised
          /\ InRun' => InRun
      BY <1>6, OtherSteps
    <2>2. \A n \in NodeIds : ~raised => (Over(n)' <=> Over(n))
      BY <2>1 DEF Over
    <2> QED
      BY <2>1, <2>2 DEF SkipInv
  <1> QED
    BY <1>1, <1>2, <1>3, <1>4, <1>5, <1>6 DEF StageStep

-----------------------------------------------------------------------------
(* When no stage is left, every node that was not skipped has succeeded. *)
LEMMA RestSucceeded ==
    ASSUME TypeOK, IsStaging(g, staging), staging \in Stagings, PhaseInv, ResultInv, SkipInv,
           InRun, pc # "nodes", ~MoreStages
    PROVE  \A n \in g.nodes \ skip : n \in NodeIds /\ result[n] = "ok"
  <1> SUFFICES ASSUME NEW n \in g.nodes \ skip PROVE n \in NodeIds /\ result[n] = "ok"
    OBVIOUS
  <1>1. g \in Graph
    BY GraphsAssumption DEF TypeOK
  <1>2. ~PlanRaises(g, staging) /\ ~raised /\ active = {}
    BY DEF PhaseInv, InRun
  <1>3. n \in AllNodes(g)
    BY DEF AllNodes, SkipInv
  <1>4. n \in NodeIds /\ staging[n] > 0
    BY <1>1, <1>2, <1>3, PlanIsComplete
  <1>5. Over(n)
    BY <1>4 DEF Over, MoreStages, TypeOK
  <1>6. n \notin failed
    BY DEF SkipInv
  <1>7. result[n] \in Results /\ result[n] \notin {"none", "running", "failed", "void"}
    BY <1>2, <1>4, <1>5, <1>6 DEF SkipInv, ResultInv, TypeOK
  <1> QED
    BY <1>4, <1>7 DEF Results

LEMMA EndStep == IInv /\ [Next]_vars => EndInv'
  <1> SUFFICES ASSUME IInv, staging \in Stagings, [Next]_vars PROVE EndInv'
    BY DEF IInv
  <1>0. g' = g /\ staging' = staging
    BY SetupConstant
  <1> USE DEF IInv, setup, stages, report
  <1>1. CASE StageStep
    <2>1. success' = "none" /\ committed' = {} /\ pc' \in {"stages", "nodes"}
      <3>1. CASE MakePlan
        BY <3>1 DEF MakePlan
      <3>2. CASE BeginStage
        BY <3>2 DEF BeginStage, EndInv, InRun
      <3>3. CASE EndStage
        BY <3>3 DEF EndStage, StageDone, EndInv, InRun
      <3>4. CASE \E n \in NodeIds : StartNode(n) \/ ParamsUnresolved(n) \/ FinishNode(n)
                                    \/ NodeRaises(n)
        BY <3>4 DEF StartNode, ParamsUnresolved, FinishNode, NodeRaises, EndInv, InRun
      <3> QED
        BY <1>1, <3>1, <3>2, <3>3, <3>4 DEF StageStep
    <2> QED
      BY <2>1 DEF EndInv, InRun, CommitOnlyComplete
  <1>2. CASE ~StageStep
    <2>1. UNCHANGED <<g, staging, level, skip, failed, pending, active, raised, result>>
      BY <1>2, OtherSteps
    <2>2. (MoreStages' <=> MoreStages) /\ (AllSucceeded' <=> AllSucceeded)
      BY <2>1 DEF MoreStages, AllSucceeded
    <2>3. CommitOnlyComplete /\ committed' = committed => CommitOnlyComplete'
      BY <2>1 DEF CommitOnlyComplete
    <2> USE DEF EndInv, InRun
    <2>4. CASE Claim
      BY <2>2, <2>3, <2>4 DEF Claim
    <2>5. CASE ResetCancel
      BY <2>2, <2>3, <2>5 DEF ResetCancel
    <2>6. CASE PlanFails
      BY <2>2, <2>3, <2>6 DEF PlanFails, PhaseInv
    <2>7. CASE LeaveStages
      BY <2>2, <2>3, <2>7 DEF LeaveStages
    <2>8. CASE Crash
      BY <2>2, <2>3, <2>8 DEF Crash, StageDone
    <2>9. CASE CheckCanceled
      BY <2>2, <2>3, <2>9 DEF CheckCanceled
    <2>10. ASSUME NEW n \in NodeIds, FireCallback(n) PROVE EndInv'
      <3>1. \A m \in g.nodes \ skip : result[m] = "ok"
        BY <2>10, RestSucceeded DEF FireCallback
      <3>2. Complete(n) => \A m \in ({n} \cup AllDependents(g, n)) \cap g.nodes : result[m] = "ok"
        BY <3>1 DEF Complete
      <3>3. CommitOnlyComplete'
        BY <2>1, <2>10, <3>2 DEF FireCallback, CommitOnlyComplete
      <3> QED
        BY <2>2, <2>10, <3>3 DEF FireCallback
    <2>11. CASE CallbacksOver
      BY <2>2, <2>3, <2>11 DEF CallbacksOver
    <2>12. CASE Close
      BY <2>2, <2>3, <2>12 DEF Close
    <2>13. CASE PollStatus
      <3>1. ~AllSucceeded
        BY <2>13 DEF PollStatus, ResultInv, AllSucceeded
      <3> QED
        BY <2>2, <2>3, <2>13, <3>1 DEF PollStatus
    <2>14. CASE RequestCancel
      BY <2>2, <2>3, <2>14 DEF RequestCancel
    <2>15. CASE Cancel
      BY <2>2, <2>3, <2>15 DEF Cancel
    <2>16. CASE UNCHANGED vars
      BY <2>2, <2>3, <2>16 DEF vars
    <2> QED
      BY <1>2, <2>4, <2>5, <2>6, <2>7, <2>8, <2>9, <2>10, <2>11, <2>12, <2>13, <2>14, <2>15,
         <2>16 DEF Next, RunStep, StageStep, Terminated
  <1> QED
    BY <1>1, <1>2

-----------------------------------------------------------------------------
(* The invariant. *)
LEMMA InitIInv == Init => IInv
  <1> SUFFICES ASSUME Init PROVE IInv
    OBVIOUS
  <1>1. TypeOK
    BY InitTypeOK
  <1>2. PhaseInv
    BY DEF Init, PhaseInv, InRun
  <1>3. \A n \in NodeIds : result[n] = "none"
    BY DEF Init, NotRun
  <1>4. ResultInv
    BY <1>3 DEF Init, ResultInv, InputsOkBeforeRun
  <1>5. SkipInv
    <2>1. \A n \in NodeIds : ~Over(n)
      BY <1>1 DEF Init, TypeOK, Over
    <2> QED
      BY <2>1 DEF Init, SkipInv, InRun
  <1>6. EndInv
    BY <1>3 DEF Init, EndInv, InRun, CommitOnlyComplete
  <1> QED
    BY <1>1, <1>2, <1>4, <1>5, <1>6 DEF Init, IInv

LEMMA NextIInv == IInv /\ [Next]_vars => IInv'
  BY NextTypeOK, PhaseStep, ResultStep, SkipStep, EndStep, SetupConstant DEF IInv

(* The inductive invariant of a run holds throughout: what an earlier stage has   *)
(* left, what is skipped, and which callbacks are armed (run_graph).             *)
THEOREM Invariant == Spec => []IInv
  BY InitIInv, NextIInv, PTL DEF Spec

(* In every run of every flow, a node has a result only if all its counted    *)
(* inputs succeeded in that run.                                             *)
THEOREM InputsFirst == Spec => []InputsOkBeforeRun
  <1>1. IInv => InputsOkBeforeRun
    BY DEF IInv, ResultInv
  <1> QED
    BY <1>1, Invariant, PTL

(* A source is told to commit only when everything downstream of it succeeded. *)
THEOREM CommitsAreComplete == Spec => []CommitOnlyComplete
  <1>1. IInv => CommitOnlyComplete
    BY DEF IInv, EndInv
  <1> QED
    BY <1>1, Invariant, PTL

(* Reported success, without a cancel request, is success of every node the    *)
(* plan did not skip.                                                        *)
THEOREM SuccessMeansComplete == Spec => []SuccessIsComplete
  <1>1. ASSUME IInv, ~isRunning, success = "true", ~isCanceled, NEW n \in AllNodes(g)
        PROVE  result[n] = "ok"
    <2>1. pc = "closed" /\ AllSucceeded /\ ~MoreStages /\ ~raised /\ active = {}
      BY <1>1 DEF IInv, PhaseInv, EndInv
    <2>2. n \in NodeIds /\ staging[n] > 0
      BY <1>1, PlanIsComplete, GraphsAssumption DEF IInv, TypeOK, PhaseInv
    <2>3. Over(n)
      BY <1>1, <2>1, <2>2 DEF Over, MoreStages, IInv, TypeOK
    <2>4. failed \subseteq {}
      BY <1>1, <2>1 DEF AllSucceeded, IInv, SkipInv, TypeOK
    <2>5. n \notin skip
      BY <1>1, <2>4 DEF AllNodes, IInv, SkipInv
    <2>6. result[n] # "none"
      BY <1>1, <2>1, <2>2, <2>3, <2>5 DEF IInv, SkipInv
    <2> QED
      BY <2>1, <2>2, <2>6 DEF AllSucceeded
  <1>2. IInv => SuccessIsComplete
    BY <1>1 DEF SuccessIsComplete
  <1> QED
    BY <1>2, Invariant, PTL

(* After a failure is counted, nothing downstream of it starts in that run. *)
THEOREM FailureStopsDependents == Spec => NothingStartsAfterFailure
  <1>1. ASSUME IInv, [Next]_vars, NEW n \in failed, NEW m \in AllDependents(g, n),
               result[m] = "none"
        PROVE  result'[m] = "none"
    <2>1. m \in NodeIds /\ m \in skip
      BY <1>1 DEF IInv, SkipInv, AllDependents, Downstream
    <2>2. m \notin pending /\ m \notin active
      BY <1>1, <2>1 DEF IInv, ResultInv
    <2>3. CASE MakePlan
      BY <2>1, <2>3 DEF MakePlan, NotRun
    <2>4. CASE BeginStage \/ EndStage
      BY <1>1, <2>4 DEF BeginStage, EndStage
    <2>5. CASE \E k \in NodeIds : StartNode(k) \/ ParamsUnresolved(k) \/ FinishNode(k)
                                  \/ NodeRaises(k)
      <3>1. PICK k \in NodeIds : StartNode(k) \/ ParamsUnresolved(k) \/ FinishNode(k)
                                  \/ NodeRaises(k)
        BY <2>5
      <3>2. k # m
        BY <2>2, <3>1 DEF StartNode, ParamsUnresolved, FinishNode, NodeRaises
      <3>3. result' = result \/ \E r \in Results : result' = [result EXCEPT ![k] = r]
        BY <3>1 DEF StartNode, ParamsUnresolved, FinishNode, NodeRaises, Results
      <3> QED
        BY <1>1, <2>1, <3>2, <3>3 DEF IInv, TypeOK
    <2>6. CASE ~StageStep
      BY <1>1, <2>6, OtherSteps
    <2> QED
      BY <2>3, <2>4, <2>5, <2>6 DEF StageStep
  <1>2. IInv /\ [Next]_vars =>
          [\A n \in failed : \A m \in AllDependents(g, n) :
              result[m] = "none" => result'[m] = "none"]_vars
    BY <1>1
  <1> QED
    BY <1>2, Invariant, PTL DEF Spec, NothingStartsAfterFailure

-----------------------------------------------------------------------------
(* The staged execution implements the dataflow promise: the state of a node   *)
(* as Dataflow sees it, and what each step does to it.                        *)
NodeState(n) == IF result[n] = "running" /\ n \notin active THEN "lost" ELSE result[n]

LEMMA PromiseInit == Init => Promise!Init
  <1> SUFFICES ASSUME Init PROVE Promise!Init
    OBVIOUS
  <1>1. g \in Graph
    BY GraphsAssumption DEF Init
  <1>2. \A n \in NodeIds : InEdges(g, n) \subseteq NodeIds
    BY <1>1, InputsAreNodes
  <1>3. \A n \in NodeIds : result[n] = "none"
    BY DEF Init, NotRun
  <1> QED
    BY <1>2, <1>3 DEF Promise!Init

LEMMA PromiseNext == IInv /\ [Next]_vars => [Promise!Next]_(Promise!vars)
  <1> SUFFICES ASSUME IInv, [Next]_vars PROVE [Promise!Next]_(Promise!vars)
    OBVIOUS
  <1>0. g' = g
    BY SetupConstant
  <1>a. result \in [NodeIds -> Results] /\ active \subseteq NodeIds
        /\ \A n \in NodeIds : InEdges(g, n) \subseteq NodeIds
    BY InputsAreNodes, GraphsAssumption DEF IInv, TypeOK
  <1> DEFINE st == [n \in NodeIds |-> NodeState(n)]
             need == [n \in NodeIds |-> InEdges(g, n)]
  <1>b. need' = need
    BY <1>0
  <1>1. CASE MakePlan
    <2>1. \A n \in NodeIds : NodeState(n) # "running"
      BY <1>1 DEF MakePlan, NodeState, IInv, PhaseInv
    <2>2. st' = [n \in NodeIds |-> "none"]
      BY <1>1 DEF MakePlan, NotRun, NodeState
    <2>3. Promise!NewRun
      BY <1>b, <2>1, <2>2 DEF Promise!NewRun, NodeState
    <2> QED
      BY <2>3 DEF Promise!Next
  <1>2. CASE BeginStage \/ EndStage
    <2>1. result' = result /\ active' = active
      BY <1>2 DEF BeginStage, EndStage
    <2> QED
      BY <1>b, <2>1 DEF Promise!vars
  <1>3. ASSUME NEW n \in NodeIds, StartNode(n) PROVE Promise!Start(n)
    <2>1. n \in pending /\ result' = [result EXCEPT ![n] = "running"]
          /\ active' = active \cup {n}
      BY <1>3 DEF StartNode
    <2>2. NodeState(n) = "none" /\ \A p \in InEdges(g, n) : NodeState(p) = "ok"
      BY <2>1 DEF NodeState, IInv, ResultInv
    <2>3. st' = [st EXCEPT ![n] = "running"]
      BY <1>a, <2>1 DEF NodeState
    <2>4. st[n] = "none" /\ \A p \in need[n] : st[p] = "ok"
      BY <1>a, <2>2
    <2> QED
      BY <1>b, <2>3, <2>4 DEF Promise!Start, Promise!Enabled, NodeState
  <1>4. ASSUME NEW n \in NodeIds, ParamsUnresolved(n) PROVE Promise!Refuse(n)
    <2>1. n \in pending /\ result' = [result EXCEPT ![n] = "failed"] /\ active' = active
      BY <1>4 DEF ParamsUnresolved
    <2>2. NodeState(n) = "none" /\ \A p \in InEdges(g, n) : NodeState(p) = "ok"
      BY <2>1 DEF NodeState, IInv, ResultInv
    <2>3. st' = [st EXCEPT ![n] = "failed"]
      BY <1>a, <2>1 DEF NodeState
    <2>4. st[n] = "none" /\ \A p \in need[n] : st[p] = "ok"
      BY <1>a, <2>2
    <2> QED
      BY <1>b, <2>3, <2>4 DEF Promise!Refuse, Promise!Enabled, NodeState
  <1>5. ASSUME NEW n \in NodeIds, FinishNode(n) \/ NodeRaises(n)
        PROVE  \E r \in Promise!Settled : Promise!Settle(n, r)
    <2>1. n \in active /\ active' = active \ {n} /\ result[n] = "running"
      BY <1>5 DEF FinishNode, NodeRaises, IInv, ResultInv
    <2>2. PICK r \in {"ok", "failed", "void", "running"} : result' = [result EXCEPT ![n] = r]
      <3>1. CASE FinishNode(n)
        BY <3>1 DEF FinishNode
      <3>2. CASE NodeRaises(n)
        BY <1>a, <2>1, <3>2 DEF NodeRaises
      <3> QED
        BY <1>5, <3>1, <3>2
    <2>3. st' = [st EXCEPT ![n] = IF r = "running" THEN "lost" ELSE r]
      BY <1>a, <2>1, <2>2 DEF NodeState
    <2>4. st[n] = "running"
      BY <2>1 DEF NodeState
    <2>5. (IF r = "running" THEN "lost" ELSE r) \in Promise!Settled
      BY DEF Promise!Settled
    <2> QED
      BY <1>b, <2>3, <2>4, <2>5 DEF Promise!Settle, NodeState
  <1>6. CASE ~StageStep
    <2>1. result' = result /\ active' = active
      BY <1>6, OtherSteps
    <2> QED
      BY <1>b, <2>1 DEF Promise!vars
  <1> QED
    BY <1>1, <1>2, <1>3, <1>4, <1>5, <1>6 DEF StageStep, Promise!Next

(* run_graph keeps the promise of Dataflow: within a run a node starts at most  *)
(* once and only when everything it waits for succeeded, and no run begins     *)
(* over nodes that still execute.                                            *)
THEOREM RunKeepsPromise == Spec => ImplementsDataflow
  BY PromiseInit, PromiseNext, Invariant, PTL DEF Spec, ImplementsDataflow, Promise!Spec
=============================================================================
