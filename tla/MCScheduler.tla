------------------------------ MODULE MCScheduler ------------------------------
(* Instances of Scheduler: the graphs the runs are given. *)
EXTENDS Scheduler

G(ns, x, always, cond, retries) ==
    [nodes |-> ns, entry |-> 0, exit |-> x, always |-> always, cond |-> cond,
     retries |-> [n \in ns |-> IF n \in retries THEN 2 ELSE 0]]

\* 0 fans out to 1 and 2, which join at the exit 3; 1 is retried.
Diamond == G(0..3, 3, {<<0, 1>>, <<0, 2>>, <<1, 3>>, <<2, 3>>}, {}, {1})

\* 2 goes straight to the exit 3, 1 by way of a node that sorts first.
Lopsided == G(0..3, 3, {<<0, 1>>, <<0, 2>>, <<1, 3>>, <<2, 1>>}, {}, {})

\* 0 and 1 alternate until a condition lets the run through to the exit 2.
Cycle == G(0..2, 2, {<<0, 1>>}, {<<1, 0>>, <<1, 2>>}, {1})

\* Everything leads everywhere on conditions, the exit included.
Mesh == G(0..2, 2, {<<0, 1>>}, {<<0, 2>>, <<1, 0>>, <<1, 2>>, <<1, 1>>, <<0, 0>>}, {})

\* A loop with a fan-out in it, from which the exit is reached on a condition.
FanLoop == G(0..3, 3, {<<0, 1>>, <<0, 2>>, <<1, 0>>}, {<<2, 3>>, <<2, 0>>}, {2})

AllGraphs == {Diamond, Lopsided, Cycle, Mesh, FanLoop}
DiamondOnly == {Diamond}
MCNodes == 0..3
===============================================================================
