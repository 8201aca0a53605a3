----------------------------- MODULE MCArtifacts -----------------------------
(* Instances of Artifacts. *)
EXTENDS Artifacts

CONSTANTS x, y

Publish(name) == [op |-> "publish", name |-> name]
Read(name) == [op |-> "read", name |-> name]
Delete(name) == [op |-> "delete", name |-> name]

Flow(script, inputs, stages, cached, workers) ==
    [script |-> script, inputs |-> inputs, stages |-> stages, cached |-> cached, workers |-> workers]

Within(flow, bounds) ==
    [f \in DOMAIN flow \cup {"bounds"} |-> IF f = "bounds" THEN bounds ELSE flow[f]]

Bounds(runs, fetches, edits, failures, cancels, restarts) ==
    [runs |-> runs, fetches |-> fetches, edits |-> edits, failures |-> failures,
     cancels |-> cancels, restarts |-> restarts]

(* One node publishes both, one reads, two delete in turn. *)
Chain(cached) ==
    Flow(<<<<Publish(x), Publish(y)>>, <<Read(x)>>, <<Delete(x)>>, <<Read(y), Delete(y)>>>>,
         <<{}, {1}, {2}, {3}>>, <<{1}, {2}, {3}, {4}>>, cached, 1)

(* Two branches delete one each; a node of another type joins them. *)
Branches(workers) ==
    Flow(<<<<Publish(x), Publish(y)>>, <<Delete(x)>>, <<Read(y), Delete(y)>>, <<>>>>,
         <<{}, {1}, {1}, {2, 3}>>, <<{1}, {2, 3}, {4}>>, {}, workers)

(* Two publishers, and a consumer of both that publishes what it has deleted. *)
Twins(workers) ==
    Flow(<<<<Publish(x)>>, <<Publish(y)>>, <<Read(y), Delete(x)>>, <<Read(y)>>>>,
         <<{}, {}, {1, 2}, {3}>>, <<{1, 2}, {3}, {4}>>, {}, workers)

(* What one node publishes another turns into something else. *)
Relay(cached) ==
    Flow(<<<<Publish(x)>>, <<Read(x), Delete(x), Publish(y)>>, <<>>, <<Read(y), Delete(y)>>>>,
         <<{}, {1}, {2}, {3}>>, <<{1}, {2}, {3}, {4}>>, cached, 1)

(* Ids that do not follow the wiring: the deleter is numbered before the         *)
(* publisher; only the last node sees both.                                   *)
Backwards ==
    Flow(<<<<Read(y)>>, <<Delete(x)>>, <<Publish(x), Publish(y)>>>>,
         <<{2}, {3}, {}>>, <<{3}, {2}, {1}>>, {}, 1)

MCSetups ==
    {Within(f, b) : f \in {Chain({}), Chain({2}), Branches(1), Twins(1), Relay({}), Relay({4})},
        b \in {Bounds(4, 0, 2, 1, 1, 0), Bounds(4, 0, 2, 1, 0, 1)}}
    \cup {Within(f, b) : f \in {Branches(2), Twins(2)},
        b \in {Bounds(3, 0, 1, 1, 0, 0), Bounds(2, 0, 0, 0, 1, 1)}}
    \cup {Within(Chain({}), Bounds(2, 1, 0, 0, 0, 0)), Within(Backwards, Bounds(3, 0, 2, 1, 0, 0))}

(* The same flow, run once. *)
BackwardsOnce == {Within(Backwards, Bounds(1, 0, 0, 0, 0, 0))}

(* A script fails after it has deleted something. *)
FailedAfterDelete == {Within(Relay({}), Bounds(2, 0, 0, 1, 0, 0))}

(* A node that has deleted something is fetched. *)
FetchedDeleter == {Within(Chain({}), Bounds(1, 1, 0, 0, 0, 0))}

(* Two scripts of a stage delete something at the same time. *)
DeletedTogether == {Within(Branches(2), Bounds(2, 0, 1, 0, 0, 0))}

(* The kernel is restarted and has lost what was published. *)
Restarted == {Within(Relay({}), Bounds(2, 0, 1, 0, 0, 1))}

(* The publisher of a deleted artifact has read another one deleted since. *)
ReadAndRemake ==
    {Within(Flow(<<<<Publish(x)>>, <<Read(x), Publish(y)>>, <<Delete(x)>>, <<Delete(y)>>>>,
                 <<{}, {1}, {2}, {3}>>, <<{1}, {2}, {3}, {4}>>, {}, 1),
            Bounds(2, 0, 1, 0, 0, 0))}

(* The publisher of a deleted artifact is cached. *)
CachedMaker == {Within(Relay({1}), Bounds(2, 0, 1, 0, 0, 0))}
==============================================================================
