------------------------------ MODULE NodeLocks ------------------------------
(***************************************************************************)
(* The execution locks of the nodes of a flow while the thread pool of        *)
(* _execute_stages executes one stage.  Each pool thread computes the data of   *)
(* its own node in get_resulting_data: it locks the node, then every input in   *)
(* the order of all_inputs, computes an input that has no result yet the same   *)
(* way, evaluates the node's function and releases the locks.                  *)
(* The locks are threading.RLocks, so which ones a thread holds follows from    *)
(* its call stack, and the stack is all the state there is besides the results. *)
(* Source: flowfile/flow_node/flow_node.py, flowfile/flow_node/models.py,      *)
(* flowfile/flow_graph.py.                                                    *)
(***************************************************************************)
EXTENDS Naturals, Sequences, FiniteSets

CONSTANTS
    Nodes,
    Inputs,      \* Inputs[n]: get_all_inputs of n: main inputs, left, right
    Stage,       \* the nodes to run of the stage; each has a pool thread
    Computed,    \* nodes that have a result or an error when the stage begins
    Workers      \* max_parallel_workers

ASSUME NodesAssumption == IsFiniteSet(Nodes)
ASSUME InputsAssumption == Inputs \in [Nodes -> Seq(Nodes)]
ASSUME StageAssumption == Stage \subseteq Nodes \ Computed
ASSUME ComputedAssumption == Computed \subseteq Nodes
ASSUME WorkersAssumption == Workers \in Nat \ {0}

(* A flow with a cycle has no plan, so no stage of it is executed. *)
ASSUME AcyclicAssumption ==
    \A U \in (SUBSET Nodes) \ {{}} :
        \E n \in U : \A i \in 1 .. Len(Inputs[n]) : Inputs[n][i] \notin U

VARIABLES
    thread,     \* thread[t]: the pool thread of stage node t
    stack,      \* stack[t]: its calls of get_resulting_data, innermost last
    settled,    \* nodes whose results.resulting_data or errors is not None
    evals       \* evals[n]: evaluations of n's function in this stage (history)

vars == <<thread, stack, settled, evals>>

(* One call: the node, and how many of its inputs have been collected. *)
Frame == [node : Nodes, got : Nat]

Init ==
    /\ thread = [t \in Stage |-> "pending"]
    /\ stack = [t \in Stage |-> <<>>]
    /\ settled = Computed
    /\ evals = [n \in Nodes |-> 0]

-----------------------------------------------------------------------------
(* Which locks a call, and a thread, hold. *)
Collected(f) == {Inputs[f.node][i] : i \in 1 .. f.got}

FrameHolds(f) == {f.node} \cup Collected(f)

Holds(t) == UNION {FrameHolds(stack[t][k]) : k \in 1 .. Len(stack[t])}

(* Variant: a lock that is not re-entrant. *)
AllThreads(t) == Stage

(* Whom t may have to wait for: an RLock never keeps its own thread waiting. *)
Others(t) == Stage \ {t}

Free(t, n) == \A u \in Others(t) : n \notin Holds(u)

Top(t) == stack[t][Len(stack[t])]

Collecting(t) ==
    thread[t] = "running" /\ stack[t] # <<>> /\ Top(t).got < Len(Inputs[Top(t).node])

NextInput(f) == Inputs[f.node][f.got + 1]

(* The locks t is waiting for: one at most. *)
Wanted(t) ==
    IF Collecting(t) THEN {NextInput(Top(t))}
    ELSE IF thread[t] = "running" /\ stack[t] = <<>> THEN {t} ELSE {}

Rest(s) == SubSeq(s, 1, Len(s) - 1)

OneMore(s) == [s EXCEPT ![Len(s)].got = @ + 1]

-----------------------------------------------------------------------------
(* The pool has a worker for t; execute_node cleared t's result before. *)
Submit(t) ==
    /\ thread[t] = "pending"
    /\ Cardinality({u \in Stage : thread[u] \in {"running", "raising"}}) < Workers
    /\ thread' = [thread EXCEPT ![t] = "running"]
    /\ UNCHANGED <<stack, settled, evals>>

AlwaysUnsettled(n) == TRUE

(* results.resulting_data is None and results.errors is None *)
Unsettled(n) == n \notin settled

(* with self._execution_lock; a node computed meanwhile needs nothing more. *)
LockOwn(t) ==
    /\ thread[t] = "running"
    /\ stack[t] = <<>>
    /\ Free(t, t)
    /\ IF Unsettled(t)
       THEN /\ stack' = [stack EXCEPT ![t] = <<[node |-> t, got |-> 0]>>]
            /\ UNCHANGED thread
       ELSE /\ thread' = [thread EXCEPT ![t] = "done"]
            /\ UNCHANGED stack
    /\ UNCHANGED <<settled, evals>>

(* v._execution_lock.acquire() and _resolve_input_result: the input's data is   *)
(* there, or the same thread computes it under the lock it has just taken.     *)
LockInput(t) ==
    /\ Collecting(t)
    /\ LET v == NextInput(Top(t))
       IN  /\ Free(t, v)
           /\ stack' = [stack EXCEPT ![t] =
                           IF Unsettled(v) THEN Append(@, [node |-> v, got |-> 0])
                           ELSE OneMore(@)]
    /\ UNCHANGED <<thread, settled, evals>>

ReturnUnpopped(t) ==
    /\ stack' = [stack EXCEPT ![t] = OneMore(@)]
    /\ UNCHANGED thread

(* The call returns: its locks are released, the caller keeps the lock of the   *)
(* input it asked for.                                                        *)
Return(t) ==
    IF Len(stack[t]) = 1
    THEN /\ stack' = [stack EXCEPT ![t] = <<>>]
         /\ thread' = [thread EXCEPT ![t] = "done"]
    ELSE /\ stack' = [stack EXCEPT ![t] = OneMore(Rest(@))]
         /\ UNCHANGED thread

(* The exception goes on to the caller through the finally that releases. *)
Throw(t) ==
    /\ stack' = [stack EXCEPT ![t] = Rest(@)]
    /\ thread' = [thread EXCEPT ![t] = IF Len(stack[t]) = 1 THEN "done" ELSE "raising"]

(* All inputs are collected: the node's function returns or raises. *)
Evaluate(t) ==
    /\ thread[t] = "running"
    /\ stack[t] # <<>>
    /\ ~Collecting(t)
    /\ evals' = [evals EXCEPT ![Top(t).node] = @ + 1]
    /\ settled' = settled \cup {Top(t).node}
    /\ Return(t) \/ Throw(t)

(* "Node execution canceled", before the first input is asked for. *)
Canceled(t) ==
    /\ thread[t] = "running"
    /\ stack[t] # <<>>
    /\ Top(t).got = 0
    /\ settled' = settled \cup {Top(t).node}
    /\ Throw(t)
    /\ UNCHANGED evals

UnwindKeepingLocks(t) ==
    /\ thread[t] = "raising"
    /\ settled' = settled \cup {Top(t).node}
    /\ thread' = [thread EXCEPT ![t] = "done"]
    /\ UNCHANGED <<stack, evals>>

(* A caller that the exception reaches records it as its own error. *)
Unwind(t) ==
    /\ thread[t] = "raising"
    /\ settled' = settled \cup {Top(t).node}
    /\ Throw(t)
    /\ UNCHANGED evals

Terminated == (\A t \in Stage : thread[t] = "done") /\ UNCHANGED vars

ThreadStep(t) == LockOwn(t) \/ LockInput(t) \/ Evaluate(t) \/ Unwind(t)

Next ==
    \/ \E t \in Stage : Submit(t) \/ ThreadStep(t) \/ Canceled(t)
    \/ Terminated

(* Pool threads are scheduled and node functions return. *)
Fairness == \A t \in Stage : WF_vars(Submit(t)) /\ WF_vars(ThreadStep(t))

Spec == Init /\ [][Next]_vars /\ Fairness

-----------------------------------------------------------------------------
TypeOK ==
    /\ thread \in [Stage -> {"pending", "running", "raising", "done"}]
    /\ stack \in [Stage -> Seq(Frame)]
    /\ \A t \in Stage : \A k \in 1 .. Len(stack[t]) : stack[t][k].got <= Len(Inputs[stack[t][k].node])
    /\ settled \in SUBSET Nodes
    /\ evals \in [Nodes -> Nat]

(* get_resulting_data "uses _execution_lock to prevent concurrent execution":    *)
(* whichever thread comes to need a node first, its function is evaluated at     *)
(* most once in the stage.                                                    *)
EvaluatedOnce == \A n \in Nodes : evals[n] <= 1

(* The threads of T wait for locks that only threads of T hold. *)
Stuck(T) == \A t \in T : \E n \in Wanted(t) : \E u \in T \cap Others(t) : n \in Holds(u)

(* "Thread-safe: uses _execution_lock to prevent ... concurrent access" of        *)
(* get_resulting_data: the threads of a stage do not block each other for good.  *)
NoDeadlock == \A T \in (SUBSET Stage) \ {{}} : ~Stuck(T)

(* One order of some nodes that the calls for them follow: a node comes before    *)
(* its inputs, and an input before the ones that are asked for after it.       *)
Follows(rank) ==
    /\ DOMAIN rank \subseteq Nodes
    /\ rank \in [DOMAIN rank -> Nat]
    /\ \A m, n \in DOMAIN rank : rank[m] = rank[n] => m = n
    /\ \A n \in DOMAIN rank : \A i \in 1 .. Len(Inputs[n]) :
          /\ Inputs[n][i] \in DOMAIN rank
          /\ rank[Inputs[n][i]] < rank[n]
          /\ \A j \in 1 .. i : rank[Inputs[n][i]] <= rank[Inputs[n][j]]

WithInputs(C) == \A n \in C : \A i \in 1 .. Len(Inputs[n]) : Inputs[n][i] \in C

(* Nodes that one order can be given to, together with all they depend on. *)
Ordered(T) ==
    \E C \in SUBSET Nodes :
        T \subseteq C /\ WithInputs(C) /\ \E rank \in [C -> 1 .. Cardinality(C)] : Follows(rank)

(* Nothing in the code gives the locks an order, but only that can go wrong:       *)
(* threads that block each other for good have nodes whose lists of inputs, their  *)
(* own or those of nodes they depend on, cannot be brought into one order.       *)
DeadlocksAreCrossed == \A T \in (SUBSET Stage) \ {{}} : Stuck(T) => ~Ordered(T)

(* A stage whose threads never come to block each other for good ends: every node *)
(* of it has its result or its error, and whatever raised, at whatever depth,    *)
(* every lock was released.                                                   *)
StageEnds == []NoDeadlock => \A t \in Stage : <>(thread[t] = "done")
=============================================================================
