----------------------------- MODULE MCFlowRun -----------------------------
(* Small flows for FlowRun.                                                  *)
EXTENDS FlowRun

Parentless(N, E) == {n \in N : \A p \in N : <<p, n>> \notin E}

Flow(N, E, B) == [nodes |-> N, edges |-> E, incorrect |-> B, starts |-> Parentless(N, E)]

(* Every acyclic wiring of three nodes, with at most one badly wired node. *)
AllThree ==
    {Flow({1, 2, 3}, E, B) : E \in SUBSET {<<1, 2>>, <<1, 3>>, <<2, 3>>},
                             B \in {{}, {1}, {2}, {3}}}

(* A source that feeds two branches joined again, two separate chains, a      *)
(* node that still leads to a deleted one, and a join one of whose inputs is   *)
(* skipped because of a badly wired node further up.                          *)
Diamond == Flow(1 .. 4, {<<1, 2>>, <<1, 3>>, <<2, 4>>, <<3, 4>>}, {})
TwoChains == Flow(1 .. 4, {<<1, 2>>, <<3, 4>>}, {})
Ghost == Flow({1, 2, 3}, {<<1, 2>>, <<1, 4>>, <<2, 3>>}, {})
HalfFed == Flow(1 .. 4, {<<1, 2>>, <<2, 4>>, <<3, 4>>}, {1})

MCGraphs == AllThree \cup {Diamond, TwoChains, Ghost, HalfFed}
=============================================================================
