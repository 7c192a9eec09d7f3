------------------------------ MODULE GraphEditor ------------------------------
(***************************************************************************)
(* The visual builder (ui/src/components/GraphBuilder.tsx) with its        *)
(* conversions between canvas and GraphSpec (ui/src/lib/graphSpec.ts),     *)
(* against the validation a handed-out spec meets on the server            *)
(* (graphspec/spec.py, graphspec/loader.py, Graph.compile).                *)
(*                                                                         *)
(* The id "agent_k" of a dropped node is the number k; files bring any     *)
(* numbers.  Positions, the graph's name, the goal and those fields of an  *)
(* agent that nothing checks are left out.                                 *)
(***************************************************************************)
EXTENDS FleetGraph, Sequences, FiniteSets, Functions

CONSTANTS
    Files,     \* GraphSpec files, saved earlier or written by somebody else
    MaxDrops,  \* bound on the ids the palette hands out
    MaxNodes,  \* bound on the nodes of a canvas
    MaxEdges   \* bound on the edges of a canvas

NoId == 0        \* the null of selectedNodeId
NoEdge == << >>  \* the null of selectedEdgeId
Conds == {"none", "registered", "unknown"}
Providers == {"hosted", "custom"}

\* A base_url as validate_base_url judges it: "localhost:8000" is refused, for it
\* has no http or https in front.
Urls == {"none", "accepted", "refused"}

\* A provider the server does not support ("foreign") and a tool that is not
\* registered (~tools) come from files only: the panel offers neither.
Agents == [provider : Providers \cup {"foreign"}, url : Urls, tools : BOOLEAN]

\* newAgentSpec.
NewAgent == [provider |-> "hosted", url |-> "none", tools |-> TRUE]

Specs(Ids) ==
    [nodes : Seq([id : Ids, agent : Agents]), edges : Seq([src : Ids, dst : Ids, cond : Conds]),
     entry : Ids, exit : Ids]

ASSUME FilesAssumption == Files \subseteq Specs(Nat \ {NoId})
ASSUME BoundsAssumption == MaxDrops \in Nat /\ MaxNodes \in Nat /\ MaxEdges \in Nat

VARIABLES
    nodes,     \* nodes, in order
    edges,     \* edges, in order
    selNode,   \* selectedNodeId
    selEdge,   \* selectedEdgeId
    counter,   \* counterRef
    reading,   \* files chosen whose FileReader has not called onload
    base,      \* history: the file the canvas was loaded from, as a set of at most one
    earlier    \* history: which selections were made on an earlier canvas

canvas == <<nodes, edges>>
selection == <<selNode, selEdge, earlier>>
vars == <<canvas, selection, counter, reading, base>>

Ids(ns) == {n.id : n \in Range(ns)}
UniqueIds(ns) == Cardinality(Ids(ns)) = Len(ns)

NodeData == [id : Nat \ {NoId}, agent : Agents, entry : BOOLEAN, exit : BOOLEAN]
EdgeData == [id : Seq(Nat), src : Nat \ {NoId}, dst : Nat \ {NoId}, cond : Conds]

TypeOK ==
    /\ nodes \in Seq(NodeData)
    /\ edges \in Seq(EdgeData)
    /\ selNode \in Nat
    /\ selEdge \in Seq(Nat)
    /\ counter \in 0..MaxDrops
    /\ reading \cup base \subseteq Files
    /\ earlier \subseteq {"node", "edge"}

Init ==
    /\ nodes = << >>
    /\ edges = << >>
    /\ selNode = NoId
    /\ selEdge = NoEdge
    /\ counter = 0
    /\ reading = {}
    /\ base = {}
    /\ earlier = {}

-------------------------------------------------------------------------------
\* graphSpec.ts.

Resolve(es, known) == \A e \in Range(es) : e.src \in known /\ e.dst \in known

\* What canvasToSpec refuses: no nodes, no entry, no exit, ids that are used
\* twice and edges from or to unknown nodes.
Exportable_Duplicates(ns, es) ==
    /\ \E n \in Range(ns) : n.entry
    /\ \E n \in Range(ns) : n.exit
    /\ Resolve(es, Ids(ns))

Exportable(ns, es) ==
    /\ \E n \in Range(ns) : n.entry
    /\ \E n \in Range(ns) : n.exit
    /\ UniqueIds(ns)
    /\ Resolve(es, Ids(ns))

First(ns, Test(_)) == ns[CHOOSE i \in DOMAIN ns : Test(ns[i]) /\ \A j \in 1..i-1 : ~Test(ns[j])]

\* canvasToSpec of an exportable canvas.
CanvasToSpec(ns, es) ==
    LET IsEntry(n) == n.entry
        IsExit(n) == n.exit
    IN [nodes |-> [i \in DOMAIN ns |-> [id |-> ns[i].id, agent |-> ns[i].agent]],
        edges |-> [i \in DOMAIN es |-> [src |-> es[i].src, dst |-> es[i].dst, cond |-> es[i].cond]],
        entry |-> First(ns, IsEntry).id,
        exit |-> First(ns, IsExit).id]

\* specToCanvas: the nodes.
CanvasNodes_NoExit(spec) ==
    [i \in DOMAIN spec.nodes |->
        [id |-> spec.nodes[i].id, agent |-> spec.nodes[i].agent,
         entry |-> spec.nodes[i].id = spec.entry]]

CanvasNodes(spec) ==
    [i \in DOMAIN spec.nodes |->
        [id |-> spec.nodes[i].id, agent |-> spec.nodes[i].agent,
         entry |-> spec.nodes[i].id = spec.entry, exit |-> spec.nodes[i].id = spec.exit]]

\* specToCanvas: the edges, whose ids start with their place in the file.
CanvasEdges_DropsCond(spec) ==
    [i \in DOMAIN spec.edges |->
        [id |-> <<i, spec.edges[i].src, spec.edges[i].dst>>, src |-> spec.edges[i].src,
         dst |-> spec.edges[i].dst, cond |-> "none"]]

CanvasEdges(spec) ==
    [i \in DOMAIN spec.edges |->
        [id |-> <<i, spec.edges[i].src, spec.edges[i].dst>>, src |-> spec.edges[i].src,
         dst |-> spec.edges[i].dst, cond |-> spec.edges[i].cond]]

-------------------------------------------------------------------------------
\* The canvas.

\* nextNodeId: the first number above the counter that is no id on the canvas.
NextNodeId(ns) ==
    CHOOSE k \in counter+1..counter+1+Len(ns) :
        k \notin Ids(ns) /\ \A j \in counter+1..k-1 : j \in Ids(ns)

\* onDrop: an agent from the palette, which is then the selected node.
Drop ==
    LET k == NextNodeId(nodes)
        isFirst == nodes = << >>
    IN /\ Len(nodes) < MaxNodes /\ k <= MaxDrops
       /\ nodes' = Append(nodes, [id |-> k, agent |-> NewAgent, entry |-> isFirst, exit |-> isFirst])
       /\ counter' = k
       /\ selNode' = k
       /\ earlier' = earlier \ {"node"}
       /\ UNCHANGED <<edges, selEdge, reading, base>>

\* onConnect: addEdge leaves two nodes that are connected already as they are.
AddEdge(s, t) ==
    edges' = IF \E e \in Range(edges) : e.src = s /\ e.dst = t THEN edges
             ELSE Append(edges, [id |-> <<0, s, t>>, src |-> s, dst |-> t, cond |-> "none"])

Connect(s, t) ==
    /\ Len(edges) < MaxEdges
    /\ {s, t} \subseteq Ids(nodes)
    /\ AddEdge(s, t)
    /\ UNCHANGED <<nodes, selection, counter, reading, base>>

\* handleSelectNode.
ClickNode(k) ==
    /\ k \in Ids(nodes)
    /\ selNode' = k
    /\ selEdge' = NoEdge
    /\ earlier' = earlier \ {"node"}
    /\ UNCHANGED <<canvas, counter, reading, base>>

\* onEdgeClick.  An edge without its two nodes is not drawn.
ClickEdge(e) ==
    /\ Resolve(<<e>>, Ids(nodes))
    /\ selEdge' = e.id
    /\ selNode' = NoId
    /\ earlier' = earlier \ {"edge"}
    /\ UNCHANGED <<canvas, counter, reading, base>>

\* onPaneClick.
ClickPane ==
    /\ <<selNode, selEdge>> # <<NoId, NoEdge>>
    /\ selNode' = NoId
    /\ selEdge' = NoEdge
    /\ UNCHANGED <<canvas, earlier, counter, reading, base>>

\* filter: what of s is not in S, in its order.  (SelectSeq has no definition
\* that a proof could use.)
Without(s, S) ==
    LET left[i \in 0..Len(s)] ==
            IF i = 0 THEN << >>
            ELSE IF s[i] \in S THEN left[i-1] ELSE Append(left[i-1], s[i])
    IN left[Len(s)]

NodesWithId(k) == {n \in Range(nodes) : n.id = k}
EdgesAt(k) == {e \in Range(edges) : k \in {e.src, e.dst}}
EdgesWithId(x) == {e \in Range(edges) : e.id = x}

\* Nodes with id k and the edges that touch them go.
Remove(k) ==
    /\ nodes' = Without(nodes, NodesWithId(k))
    /\ edges' = Without(edges, EdgesAt(k))

\* Backspace: ReactFlow hands onNodesChange and onEdgesChange the removals;
\* the selection of the panel is none of its business.
PressNode(k) ==
    /\ k \in Ids(nodes)
    /\ Remove(k)
    /\ UNCHANGED <<selection, counter, reading, base>>

PressEdge(e) ==
    /\ Resolve(<<e>>, Ids(nodes))
    /\ edges' = Without(edges, EdgesWithId(e.id))
    /\ UNCHANGED <<nodes, selection, counter, reading, base>>

-------------------------------------------------------------------------------
\* The side panel: of the selected node, or else of the selected edge.

NodeShown == selNode \in Ids(nodes)
EdgeShown == ~NodeShown /\ \E e \in Range(edges) : e.id = selEdge

Each(Change(_)) == nodes' = [i \in DOMAIN nodes |-> Change(nodes[i])]

Edit(ns) ==
    /\ NodeShown
    /\ ns
    /\ UNCHANGED <<edges, selection, counter, reading, base>>

\* setEntryNode and setExitNode.
SetEntry == Edit(Each(LAMBDA n : [n EXCEPT !.entry = n.id = selNode]))

SetExit == Edit(Each(LAMBDA n : [n EXCEPT !.exit = n.id = selNode]))

\* updateSelectedNode with the agent that NodePanel makes of the one it shows.
SetAgent(a) == Edit(Each(LAMBDA n : IF n.id = selNode THEN [n EXCEPT !.agent = a] ELSE n))

Selected == First(nodes, LAMBDA n : n.id = selNode)

\* A new provider comes with its default_base_url in place of the old one's:
\* "custom" has none, a hosted one may have.
SetProvider(p, default) ==
    /\ p = "custom" => default = "none"
    /\ SetAgent([Selected.agent EXCEPT !.provider = p, !.url = default])

\* The field for base_url is there if the provider needs one or one is set, and
\* takes whatever is typed.
SetUrl(given) ==
    /\ NodeShown
    /\ Selected.agent.provider = "custom" \/ Selected.agent.url # "none"
    /\ SetAgent([Selected.agent EXCEPT !.url = given])

\* deleteSelectedNode.
DeleteNode_KeepsEdges ==
    /\ NodeShown
    /\ nodes' = Without(nodes, NodesWithId(selNode))
    /\ selNode' = NoId
    /\ UNCHANGED <<edges, selEdge, earlier, counter, reading, base>>

DeleteNode ==
    /\ NodeShown
    /\ Remove(selNode)
    /\ selNode' = NoId
    /\ UNCHANGED <<selEdge, earlier, counter, reading, base>>

\* updateSelectedEdgeCond: the panel offers what the server has registered.
SetCond(c) ==
    /\ EdgeShown
    /\ edges' = [i \in DOMAIN edges |->
                    IF edges[i].id = selEdge THEN [edges[i] EXCEPT !.cond = c] ELSE edges[i]]
    /\ UNCHANGED <<nodes, selection, counter, reading, base>>

\* deleteSelectedEdge.
DeleteEdge ==
    /\ EdgeShown
    /\ edges' = Without(edges, EdgesWithId(selEdge))
    /\ selEdge' = NoEdge
    /\ UNCHANGED <<nodes, selNode, earlier, counter, reading, base>>

-------------------------------------------------------------------------------
\* The toolbar and the tabs.

\* The spec that handleRun and handleExportPython send to the server and that
\* handleSaveJSON writes to a file; none of them changes the canvas.
HandedOut == IF Exportable(nodes, edges) THEN {CanvasToSpec(nodes, edges)} ELSE {}

\* handleOpenJSON and handleFileChosen, of a file that can be parsed.
Choose(f) ==
    /\ reading' = reading \cup {f}
    /\ UNCHANGED <<canvas, selection, counter, base>>

\* reader.onload: the canvas is replaced, whatever was done to it meanwhile.
Loaded_KeepsSelection(f) ==
    /\ f \in reading
    /\ reading' = reading \ {f}
    /\ nodes' = CanvasNodes(f)
    /\ edges' = CanvasEdges(f)
    /\ base' = {f}
    /\ earlier' = {"node", "edge"}
    /\ UNCHANGED <<selNode, selEdge, counter>>

Loaded(f) ==
    /\ f \in reading
    /\ reading' = reading \ {f}
    /\ nodes' = CanvasNodes(f)
    /\ edges' = CanvasEdges(f)
    /\ selNode' = NoId
    /\ selEdge' = NoEdge
    /\ base' = {f}
    /\ earlier' = {"node", "edge"}
    /\ UNCHANGED <<counter>>

\* Another tab and back: the component is unmounted, and a new one mounted.
\* The onload of a file that was being read finds nobody.
SwitchTab ==
    /\ nodes' = << >>
    /\ edges' = << >>
    /\ selNode' = NoId
    /\ selEdge' = NoEdge
    /\ counter' = 0
    /\ reading' = {}
    /\ base' = {}
    /\ earlier' = {}

-------------------------------------------------------------------------------
Next ==
    \/ Drop
    \/ \E s, t \in Ids(nodes) : Connect(s, t)
    \/ \E k \in Ids(nodes) : ClickNode(k) \/ PressNode(k)
    \/ \E e \in Range(edges) : ClickEdge(e) \/ PressEdge(e)
    \/ ClickPane
    \/ SetEntry \/ SetExit
    \/ \E p \in Providers, default \in Urls \ {"refused"} : SetProvider(p, default)
    \/ \E given \in Urls : SetUrl(given)
    \/ DeleteNode \/ DeleteEdge
    \/ \E c \in {"none", "registered"} : SetCond(c)
    \/ \E f \in Files : Choose(f)
    \/ \E f \in reading : Loaded(f)
    \/ SwitchTab

Spec == Init /\ [][Next]_vars

-------------------------------------------------------------------------------
\* The server: load_graph_spec, in the order in which it checks.

\* What _build_graph makes; a node that is added without `retries` has one.
GraphOf(spec) ==
    LET Of(Test(_)) == {<<e.src, e.dst>> : e \in {x \in Range(spec.edges) : Test(x)}}
    IN [nodes |-> Ids(spec.nodes), entry |-> spec.entry, exit |-> spec.exit,
        always |-> Of(LAMBDA e : e.cond = "none"), cond |-> Of(LAMBDA e : e.cond # "none"),
        retries |-> [n \in Ids(spec.nodes) |-> 1]]

\* _check_provider, and then _check_tools.
AgentRefusal(a) ==
    IF a.provider = "foreign" THEN "unknown provider"
    ELSE IF a.url = "refused" \/ (a.provider = "custom" /\ a.url = "none") THEN "base_url"
    ELSE IF ~a.tools THEN "unknown tool"
    ELSE "none"

\* _check_topology, and then compile().
TopologyRefusal(spec) ==
    CASE ~UniqueIds(spec.nodes) -> "duplicate id"
      [] {spec.entry, spec.exit} \ Ids(spec.nodes) # {} -> "no entry or exit"
      [] ~Resolve(spec.edges, Ids(spec.nodes)) -> "unknown node"
      [] \E e \in Range(spec.edges) : e.cond = "unknown" -> "unknown condition"
      [] Reachable(GraphOf(spec)) # Ids(spec.nodes) -> "orphans"
      [] OTHER -> "none"

\* The agents are all checked, and the graph only if none of them is refused.
Refusals(spec) ==
    LET ofAgents == {AgentRefusal(n.agent) : n \in Range(spec.nodes)} \ {"none"}
    IN IF ofAgents # {} THEN ofAgents ELSE {TopologyRefusal(spec)} \ {"none"}

-------------------------------------------------------------------------------
\* Properties.

ForeignProvider(ns) == \E n \in Range(ns) : n.agent.provider = "foreign"
UnknownTool(ns) == \E n \in Range(ns) : ~n.agent.tools
UnknownCond(es) == \E e \in Range(es) : e.cond = "unknown"

\* The two validations agree but for what canvasToSpec leaves to the server.
\* It does not look at base_urls, which an agent may lack or the server refuse as
\* they were typed, nor for nodes that cannot be reached; and the server refuses a
\* provider, a tool or a condition that it does not know only on a canvas that was
\* loaded from a file with one, whatever was edited since.  It finds nothing else,
\* and what it does not refuse is a graph of the kind the scheduler relies on.
HandedOutIsLoadable ==
    \A s \in HandedOut :
        LET why == Refusals(s) IN
        /\ why = {} => Compiled(GraphOf(s))
        /\ why \subseteq {"base_url", "orphans", "unknown provider", "unknown tool",
                         "unknown condition"}
        /\ "unknown provider" \in why => \E f \in base : ForeignProvider(f.nodes)
        /\ "unknown tool" \in why => \E f \in base : UnknownTool(f.nodes)
        /\ "unknown condition" \in why => \E f \in base : UnknownCond(f.edges)

\* A spec that was handed out is the same after it is opened and saved again.
RoundTrip ==
    \A s \in HandedOut :
        /\ Exportable(CanvasNodes(s), CanvasEdges(s))
        /\ CanvasToSpec(CanvasNodes(s), CanvasEdges(s)) = s

\* Node ids are unique, and then at most one node is the entry and one the
\* exit, unless the canvas was loaded from a file that has an id twice.
NodesAreSound ==
    \/ \E f \in base : ~UniqueIds(f.nodes)
    \/ /\ UniqueIds(nodes)
       /\ Cardinality({i \in DOMAIN nodes : nodes[i].entry}) <= 1
       /\ Cardinality({i \in DOMAIN nodes : nodes[i].exit}) <= 1

\* Edge ids are unique over connected and loaded edges, so that the panel and
\* Backspace change the selected edge only.  An edge without its node came from
\* the file, which did not have the node either: no removal leaves one behind,
\* and a dropped node takes over the edges of none that was removed.
EdgesAreSound ==
    /\ \A i, j \in DOMAIN edges : edges[i].id = edges[j].id => i = j
    /\ \A e \in Range(edges) : \A k \in {e.src, e.dst} \ Ids(nodes) :
        \E f \in base : /\ \E x \in Range(f.edges) : k \in {x.src, x.dst}
                        /\ k \notin Ids(f.nodes)

\* The canvas stays a graph that the panel can edit unambiguously, through drops,
\* connections, removals by button and by key, and files opened in between.
CanvasIsSound == NodesAreSound /\ EdgesAreSound

\* The panel never offers to edit what was selected on an earlier canvas and
\* has the same id on the one that a file has replaced it with.
PanelIsOfCanvas ==
    /\ NodeShown => "node" \notin earlier
    /\ EdgeShown => "edge" \notin earlier

-------------------------------------------------------------------------------
\* The inductive invariant of the proofs.

\* An edge's id tells its nodes; one that was connected here starts with 0.
EdgeIdsTell == \A e \in Range(edges) : e.id = <<e.id[1], e.src, e.dst>>

\* What was selected on an earlier canvas is selected no more.
SelectionIsOfCanvas ==
    /\ "node" \in earlier => selNode = NoId
    /\ "edge" \in earlier => selEdge = NoEdge

\* Only the file that was opened brings what the server does not know.
AgentsAreLoaded ==
    /\ ForeignProvider(nodes) => \E f \in base : ForeignProvider(f.nodes)
    /\ UnknownTool(nodes) => \E f \in base : UnknownTool(f.nodes)

CondsAreLoaded == UnknownCond(edges) => \E f \in base : UnknownCond(f.edges)

IInv ==
    /\ TypeOK /\ CanvasIsSound /\ EdgeIdsTell /\ SelectionIsOfCanvas
    /\ AgentsAreLoaded /\ CondsAreLoaded

================================================================================
