------------------------------ MODULE FleetGraph ------------------------------
(***************************************************************************)
(* The graph a run is given (src/fleet/core/graph.py).                     *)
(*                                                                         *)
(* A node name is a natural number: the scheduler sorts the frontier by    *)
(* name, and the order of the numbers is the order of the names.  What an  *)
(* edge condition computes is left open; an edge is only known to have one *)
(* (`cond`) or not (`always`).                                             *)
(***************************************************************************)
EXTENDS Naturals

Edges(g) == g.always \cup g.cond

\* What Node, Edge and Graph hold once add_node, add_edge, set_entry and
\* set_exit have been called and compile() has accepted the references.
WellFormed(g) ==
    /\ g.nodes \subseteq Nat
    /\ g.entry \in g.nodes
    /\ g.exit \in g.nodes
    /\ g.always \subseteq g.nodes \X g.nodes
    /\ g.cond \subseteq g.nodes \X g.nodes
    /\ g.retries \in [g.nodes -> Nat]

Closed(g, S) == \A e \in Edges(g) : e[1] \in S => e[2] \in S

\* The nodes every run could get to if all conditions held: the smallest set
\* that holds the entry and is closed under the edges.
Reachable(g) ==
    {n \in g.nodes : \A S \in SUBSET g.nodes :
                        g.entry \in S /\ Closed(g, S) => n \in S}

\* A CompiledGraph: compile() raises for every other one.
Compiled(g) == WellFormed(g) /\ Reachable(g) = g.nodes

\* max(node.retries, 1): how often _run_node calls the node's function.
Attempts(g, n) == IF g.retries[n] < 1 THEN 1 ELSE g.retries[n]
===============================================================================
