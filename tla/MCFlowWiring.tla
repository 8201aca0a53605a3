---------------------------- MODULE MCFlowWiring ----------------------------
(* A filter f, a join j and a union u; f2 is a filter that is given the id of f    *)
(* once f has been deleted.                                                   *)
EXTENDS FlowWiring, TLC

CONSTANTS f, j, u, f2

Ids == [n \in NodeIds |-> IF n = f2 THEN f ELSE n]

Handles == [n \in NodeIds |-> IF n = j THEN {"main", "right"} ELSE {"main"}]

(* Two objects with one id can change places. *)
Objects == Permutations({f, f2})
=============================================================================
