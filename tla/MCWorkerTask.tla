---------------------------- MODULE MCWorkerTask ----------------------------
(* Instances of WorkerTask. *)
EXTENDS WorkerTask

(* A fetcher alone, with every kind of failure; then two in turn: a cancel of *)
(* the first that may be late, a first one that gave up, a blocking first one *)
(* whose two attempts may overlap, with a second one that streams or polls.    *)
One(blocking, refused, cancels, bound) ==
    [calls : {1}, blocking : {blocking}, refused : refused, cancels : {cancels},
     raises : {TRUE}, large : BOOLEAN, faults : {bound}]

Two(blocking, refused, cancels, bound) ==
    [calls |-> 2, blocking |-> blocking, refused |-> refused, cancels |-> cancels,
     raises |-> FALSE, large |-> FALSE, faults |-> bound]

MCSetups ==
    One({}, {{}, {1}}, {1}, 2) \cup One({1}, {{}, {1}}, {}, 1)
      \cup {Two({}, {2}, {1}, 0), Two({}, {1}, {1}, 0), Two({}, {2}, {}, 1),
            Two({1}, {}, {}, 1), Two({1}, {2}, {}, 1)}

(* A failing plan and no disturbance at all. *)
Undisturbed == One({}, {{}}, {}, 0)

=============================================================================
