----------------------------- MODULE MCTriggers -----------------------------
(* Two schedules over two tables, in six catalogs: two table triggers of        *)
(* different flows polled while a request pushes, with time for a second        *)
(* update; a table trigger and a table-set trigger, or an interval, of one      *)
(* flow, with a disturbance; a table trigger and a cron schedule, or another    *)
(* table trigger, polled by two instances; two requests that push to two        *)
(* schedules of one flow while an instance polls.                               *)
EXTENDS Triggers, TLC

CONSTANTS s1, s2, f1, f2, t1, t2, i1, i2, r1, r2

Two(k1, k2, g, w2, who, secs, bad) ==
    [kind |-> s1 :> k1 @@ s2 :> k2, flow |-> s1 :> f1 @@ s2 :> g,
     watched |-> s1 :> {t1} @@ s2 :> w2, order |-> s1 :> 1 @@ s2 :> 2,
     actors |-> who, seconds |-> secs, faults |-> bad]

MCSetups == {Two("table", "table", f2, {t1}, {i1, r1}, 1, 0),
             Two("table", "set", f1, {t1, t2}, {i1, r1}, 1, 1),
             Two("table", "interval", f1, {}, {i1, r1}, 1, 1),
             Two("table", "cron", f1, {}, {i1, i2}, 0, 1),
             Two("table", "table", f1, {t2}, {i1, i2}, 0, 1),
             Two("table", "table", f1, {t1}, {i1, r1, r2}, 0, 0)}

(* The first alone: nothing fails in it. *)
Flawless == {Two("table", "table", f2, {t1}, {i1, r1}, 1, 0)}
=============================================================================
