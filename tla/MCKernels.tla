----------------------------- MODULE MCKernels -----------------------------
(* Instances of Kernels: requests on one kernel, or on two. *)
EXTENDS Kernels, TLC

CONSTANTS k1, k2, r1, r2, r3

On(calls, ops, kernels, known, up, packaged, bound) ==
    [calls |-> calls, op |-> (r1 :> ops[1] @@ r2 :> ops[2] @@ r3 :> ops[3]),
     on |-> (r1 :> kernels[1] @@ r2 :> kernels[2] @@ r3 :> kernels[3]),
     known |-> known, up |-> up, packaged |-> packaged, ports |-> {1, 2}, cancels |-> {r1}, faults |-> bound]

OnOne(calls, ops, up, packaged, bound) == On(calls, ops, <<k1, k1, k1>>, {k1}, up, packaged, bound)

(* Two requests with failures: an execution and any other, on a kernel that is *)
(* up or not.                                                                 *)
Pairs == {OnOne({r1, r2}, <<"node", b, "cell">>, up, {}, 1) :
            b \in {"start", "stop", "delete", "interrupt", "cell", "node"}, up \in {{}, {k1}}}
         \cup {OnOne({r1, r2}, <<"cell", b, "cell">>, {k1}, {}, 1) : b \in {"delete", "cell"}}

(* One execution, twice disturbed.                                            *)
Singles == {OnOne({r1}, <<a, "cell", "cell">>, up, packaged, 2) :
              a \in {"cell", "node"}, up \in {{}, {k1}}, packaged \in {{}, {k1}}}

(* Three requests, on a kernel whose image has to be built.                   *)
Triples == {OnOne({r1, r2, r3}, <<"node", "start", "stop">>, {}, {k1}, 0)}

(* Kernels that come and go.                                                  *)
Creates == {On({r1, r2, r3}, <<"create", b, "create">>, ks, known, {}, packaged, 1) :
              b \in {"delete", "cell"}, ks \in {<<k1, k1, k1>>, <<k1, k1, k2>>},
              known \in {{}, {k1}}, packaged \in {{}, {k1, k2}}}

(* A port that is free when a create takes it and not when its kernel starts,   *)
(* and no port left.                                                          *)
Crowded == {[On({r1, r2, r3}, <<"create", "start", "start">>, <<k1, k2, k1>>, {k2}, {}, {k1}, 0)
               EXCEPT !.ports = {1}]}

MCSetups == Pairs \cup Singles \cup Triples \cup Creates \cup Crowded

(* A cell finds the kernel down, and another one is tried.                    *)
Twice == {OnOne({r1, r2}, <<"cell", "cell", "cell">>, {k1}, {}, 1)}

(* No failure at all. *)
Undisturbed == {OnOne({r1, r2, r3}, <<"node", "start", "cell">>, {}, {k1}, 0),
                OnOne({r2, r3}, <<"cell", "cell", "cell">>, {k1}, {}, 0),
                On({r1, r3}, <<"create", "cell", "create">>, <<k1, k1, k2>>, {}, {}, {k1, k2}, 0)}

Gaps == Undisturbed \cup Twice

=============================================================================
