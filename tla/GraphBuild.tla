------------------------------ MODULE GraphBuild ------------------------------
(***************************************************************************)
(* The Graph builder and Graph.compile (src/fleet/core/graph.py).          *)
(*                                                                         *)
(* The builder's calls check nothing, and may come in any order and after  *)
(* a compile(); compile() decides whether a scheduler may be given the     *)
(* graph.  It runs without giving way, so no call comes between its steps; *)
(* each visit of its search is a step here.                                *)
(***************************************************************************)
EXTENDS FleetGraph, FiniteSets

CONSTANTS
    Names,     \* node names callers use
    Unset,     \* None, for _entry and _exit
    Retries,   \* values callers give for add_node(..., retries=)
    MaxEdges   \* bound on the edges of a draft

ASSUME NamesAssumption == Names \subseteq Nat /\ Unset \notin Names
ASSUME RetriesAssumption == Retries \subseteq Nat
ASSUME MaxEdgesAssumption == MaxEdges \in Nat

VARIABLES
    draft,      \* the Graph: _nodes, _edges, _entry, _exit
    compiled,   \* the CompiledGraph handed out last, as a set of at most one
    pc,         \* "building", or in compile()'s search
    outcome,    \* how the last call ended, if that was a compile()
    reachable,  \* compile(): reachable
    queue       \* compile(): the names queued and not reachable yet

vars == <<draft, compiled, pc, outcome, reachable, queue>>
searchVars == <<reachable, queue>>

Drafts ==
    [nodes : SUBSET Names, entry : Names \cup {Unset}, exit : Names \cup {Unset},
     always : SUBSET (Names \X Names), cond : SUBSET (Names \X Names),
     retries : UNION {[N -> Retries] : N \in SUBSET Names}]

TypeOK ==
    /\ draft \in Drafts
    /\ DOMAIN draft.retries = draft.nodes
    /\ compiled \subseteq Drafts
    /\ pc \in {"building", "searching"}
    /\ outcome \in {"none", "compiled", "dangling", "orphans", "backend"}
    /\ reachable \subseteq Names
    /\ queue \subseteq Names

Init ==
    /\ draft = [nodes |-> {}, entry |-> Unset, exit |-> Unset, always |-> {}, cond |-> {},
                retries |-> [n \in {} |-> 0]]
    /\ compiled = {}
    /\ pc = "building"
    /\ outcome = "none"
    /\ reachable = {}
    /\ queue = {}

-------------------------------------------------------------------------------
\* The builder.

Redraft(d) ==
    /\ pc = "building"
    /\ draft' = d
    /\ outcome' = "none"
    /\ UNCHANGED <<compiled, pc, searchVars>>

AddNode_KeepsRetries(n, r) == Redraft([draft EXCEPT !.nodes = @ \cup {n}])

\* A name added again gets the new function and retries.
AddNode(n, r) ==
    Redraft([draft EXCEPT
        !.nodes = @ \cup {n},
        !.retries = [m \in draft.nodes \cup {n} |-> IF m = n THEN r ELSE @[m]]])

AddEdge(src, dst, hasCond) ==
    /\ Cardinality(draft.always) + Cardinality(draft.cond) < MaxEdges
    /\ IF hasCond THEN Redraft([draft EXCEPT !.cond = @ \cup {<<src, dst>>}])
                  ELSE Redraft([draft EXCEPT !.always = @ \cup {<<src, dst>>}])

SetEntry(n) == Redraft([draft EXCEPT !.entry = n])

SetExit(n) == Redraft([draft EXCEPT !.exit = n])

-------------------------------------------------------------------------------
\* compile().

\* Entry and exit are set and exist, and so does either end of every edge.
ReferencesResolve(d) ==
    /\ d.entry \in d.nodes
    /\ d.exit \in d.nodes
    /\ \A e \in Edges(d) : e[1] \in d.nodes /\ e[2] \in d.nodes

CompileRefused ==
    /\ pc = "building"
    /\ ~ReferencesResolve(draft)
    /\ outcome' = "dangling"
    /\ UNCHANGED <<draft, compiled, pc, searchVars>>

StartSearch ==
    /\ pc = "building"
    /\ ReferencesResolve(draft)
    /\ pc' = "searching"
    /\ reachable' = {}
    /\ queue' = {draft.entry}
    /\ UNCHANGED <<draft, compiled, outcome>>

Successors_Unconditional(n) == {e[2] : e \in {x \in draft.always : x[1] = n}}

Successors(n) == {e[2] : e \in {x \in Edges(draft) : x[1] = n}}

Unvisited_All(n) == (queue \cup Successors(n)) \ {n}

Unvisited(n) == (queue \cup Successors(n)) \ (reachable \cup {n})

\* One name is popped; those it leads to are queued.
Visit(n) ==
    /\ pc = "searching"
    /\ n \in queue
    /\ reachable' = reachable \cup {n}
    /\ queue' = Unvisited(n)
    /\ UNCHANGED <<draft, compiled, pc, outcome>>

Conclude(o) ==
    /\ pc = "searching"
    /\ queue = {}
    /\ pc' = "building"
    /\ outcome' = o
    /\ UNCHANGED <<draft, searchVars>>

OrphansFound ==
    /\ draft.nodes \ reachable # {}
    /\ Conclude("orphans")
    /\ UNCHANGED compiled

\* An unknown backend name, or one whose package is not installed.
NoBackend ==
    /\ draft.nodes \ reachable = {}
    /\ Conclude("backend")
    /\ UNCHANGED compiled

\* The CompiledGraph has copies of the builder's containers.
HandOut ==
    /\ draft.nodes \ reachable = {}
    /\ Conclude("compiled")
    /\ compiled' = {draft}

CompileStep ==
    \/ \E n \in Names : Visit(n)
    \/ OrphansFound
    \/ NoBackend
    \/ HandOut

Next ==
    \/ \E n \in Names : (\E r \in Retries : AddNode(n, r)) \/ SetEntry(n) \/ SetExit(n)
    \/ \E src, dst \in Names, hasCond \in BOOLEAN : AddEdge(src, dst, hasCond)
    \/ CompileRefused
    \/ StartSearch
    \/ CompileStep

Spec == Init /\ [][Next]_vars

\* compile() is synchronous: once called it runs to its end.
FairSpec == Spec /\ WF_vars(CompileStep)

-------------------------------------------------------------------------------
\* Whatever the order of the builder's calls, before and after, a CompiledGraph
\* is one the scheduler may be given: no dangling reference, and every node is
\* reachable from the entry.
OnlyValidGraphs == \A g \in compiled : Compiled(g)

\* compile() refuses a graph on account of its shape only if that is wrong.
RefusalsJustified == outcome \in {"dangling", "orphans"} => ~Compiled(draft)

\* compile() hands out and refuses just what it should, on account of the shape.
CompileIsExact == OnlyValidGraphs /\ RefusalsJustified

\* Every turn of compile()'s search finds a node of the graph that it has not
\* found before, while the graph stays as it is, whatever cycles it has.
SearchAdvances ==
    [][pc = "searching" /\ pc' = "searching" =>
          /\ reachable \subseteq reachable' /\ reachable' # reachable
          /\ reachable' \subseteq draft.nodes
          /\ UNCHANGED draft]_vars

\* compile() ends on every graph, the cyclic ones included.
CompileEnds == pc = "searching" ~> pc = "building"

-------------------------------------------------------------------------------
\* The invariant of the search: what it has found is reachable, and what it has
\* not found can only be reached through the queue.
SearchIsSound == pc = "searching" =>
    /\ ReferencesResolve(draft)
    /\ draft.entry \in reachable \cup queue
    /\ reachable \cap queue = {}
    /\ reachable \cup queue \subseteq Reachable(draft)
    /\ \A e \in Edges(draft) : e[1] \in reachable => e[2] \in reachable \cup queue

IInv ==
    /\ TypeOK
    /\ SearchIsSound
    /\ OnlyValidGraphs
    /\ RefusalsJustified
===============================================================================
