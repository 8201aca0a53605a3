------------------------- MODULE MCNodeExecution -------------------------
(* Instances of NodeExecution. *)
EXTENDS NodeExecution

Flow(kinds, inputs, stages, cached, workers, socket) ==
    [kind |-> kinds, inputs |-> inputs, stages |-> stages, cached |-> cached,
     workers |-> workers, socket |-> socket, kills |-> TRUE]

Chain(middle, cached, socket) ==
    Flow(<<"read", middle, "output">>, <<<<>>, <<1>>, <<2>>>>,
         <<{1}, {2}, {3}>>, cached, 1, socket)

(* Two outputs of one source. *)
Fork(cached, socket) ==
    Flow(<<"read", "output", "output">>, <<<<>>, <<1>>, <<1>>>>,
         <<{1}, {2, 3}>>, cached, 2, socket)

(* A union and an output that both read a cached transform; the union reads    *)
(* the source as well.                                                       *)
Diamond == Flow(<<"read", "wide", "narrow", "output">>, <<<<>>, <<1>>, <<1, 2>>, <<2>>>>,
                <<{1}, {2}, {3, 4}>>, {2}, 2, TRUE)

Within(flow, bounds) ==
    [f \in DOMAIN flow \cup {"bounds"} |-> IF f = "bounds" THEN bounds ELSE flow[f]]

Bounds(runs, fetches, edits, touches, losses, failures, cancels) ==
    [runs |-> runs, fetches |-> fetches, edits |-> edits, touches |-> touches,
     losses |-> losses, failures |-> failures, cancels |-> cancels]

Chains == {Chain(m, c, s) : m \in {"wide", "narrow"}, c \in {{}, {2}}, s \in BOOLEAN}

(* Two runs, with two or three happenings around and within them. *)
MCSetups ==
    {Within(f, b) : f \in Chains,
        b \in {Bounds(2, 0, 1, 0, 0, 0, 1), Bounds(2, 0, 0, 1, 1, 1, 0), Bounds(2, 0, 1, 0, 1, 1, 0),
               Bounds(2, 1, 0, 0, 1, 1, 0), Bounds(2, 1, 0, 0, 0, 0, 1), Bounds(2, 0, 0, 0, 0, 1, 1),
               Bounds(2, 0, 0, 0, 1, 0, 1)}}
    \cup {Within(Fork(c, s), b) : c \in {{}, {1}}, s \in BOOLEAN,
        b \in {Bounds(2, 0, 1, 0, 1, 0, 0), Bounds(2, 0, 0, 0, 0, 1, 1)}}
    \cup {Within(Chain("wide", {2}, FALSE), Bounds(2, 0, 2, 0, 0, 0, 1)),
           Within(Diamond, Bounds(2, 0, 1, 0, 1, 0, 0))}

(* One failure of a task over a web socket, and nothing else: no process is     *)
(* killed.                                                                    *)
Failing == {Within([f EXCEPT !.kills = FALSE], Bounds(1, 0, 0, 0, 0, 1, 0)) : f \in {g \in Chains : g.socket}}

(* The worker's files are lost between two runs. *)
LosingChains == {Within(f, Bounds(3, 0, 0, 0, 1, 0, 0)) : f \in Chains}
LosingForks == {Within(Fork({}, FALSE), Bounds(2, 0, 0, 0, 1, 0, 0))}

(* The source changes. *)
Touched == {Within(f, Bounds(2, 0, 0, 1, 0, 0, 0)) : f \in Chains}

(* A fetch and a failure before a run. *)
Fetched == {Within(f, Bounds(1, 2, 0, 0, 0, 1, 0)) : f \in Chains}
==========================================================================
