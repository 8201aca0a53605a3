---------------------------- MODULE MCNodeLocks ----------------------------
(* A stage of two joins and a union, over inputs that lost their results and     *)
(* depend on one source.  The joins take the same two inputs in opposite order.  *)
EXTENDS NodeLocks

CONSTANTS s, a, b, j1, j2, u

Crossed ==
    [n \in {s, a, b, j1, j2, u} |->
        CASE n = j1 -> <<a, b>> [] n = j2 -> <<b, a>> [] n = u -> <<a, a, s>>
          [] n \in {a, b} -> <<s>> [] OTHER -> <<>>]
=============================================================================
