------------------------------ MODULE RunContract ------------------------------
(***************************************************************************)
(* What a graph run promises to whoever sees only its checkpoint, its      *)
(* events and how it ended: batches of node executions take effect one     *)
(* after the other, each as a whole; a batch is durable before it is       *)
(* announced, and announced before the next one takes effect; an outcome   *)
(* is final, and "returned" means that nothing is left to persist or       *)
(* announce.                                                               *)
(***************************************************************************)
CONSTANT Work    \* node executions

VARIABLES
    applied,     \* executions the run's state reflects
    durable,     \* executions the checkpoint reflects
    announced,   \* executions whose completion subscribers were told of
    outcome

contractVars == <<applied, durable, announced, outcome>>

CInit ==
    /\ applied = {}
    /\ durable = {}
    /\ announced = {}
    /\ outcome = "running"

Apply ==
    /\ outcome = "running"
    /\ announced = applied
    /\ applied' \in SUBSET Work
    /\ applied \subseteq applied' /\ applied' # applied
    /\ UNCHANGED <<durable, announced, outcome>>

Persist ==
    /\ outcome = "running"
    /\ durable' = applied
    /\ UNCHANGED <<applied, announced, outcome>>

Announce ==
    /\ outcome = "running"
    /\ durable = applied
    /\ announced' = applied
    /\ UNCHANGED <<applied, durable, outcome>>

Finish ==
    /\ outcome = "running"
    /\ announced = applied
    /\ outcome' = "returned"
    /\ UNCHANGED <<applied, durable, announced>>

\* An error or a cancellation, at any time; the announcement of a durable batch
\* may still go out with it.
Break ==
    /\ outcome = "running"
    /\ outcome' \in {"raised", "cancelled"}
    /\ announced' = announced \/ (durable = applied /\ announced' = applied)
    /\ UNCHANGED <<applied, durable>>

CNext == Apply \/ Persist \/ Announce \/ Finish \/ Break

Contract == CInit /\ [][CNext]_contractVars
===============================================================================
