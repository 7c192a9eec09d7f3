----------------------------- MODULE MCGraphEditor -----------------------------
\* An instance of GraphEditor for TLC.
EXTENDS GraphEditor

File(agents, ids, es, entry, exit) ==
    [nodes |-> [i \in DOMAIN ids |-> [id |-> ids[i], agent |-> agents]],
     edges |-> es, entry |-> entry, exit |-> exit]

Edge(s, t, c) == [src |-> s, dst |-> t, cond |-> c]

\* A file with an id twice, and one with an edge to a node it does not have, which
\* the palette hands out, two edges alike, a condition nobody registered, no exit,
\* and an agent whose provider and tool the server does not know.
SomeFiles ==
    {File(NewAgent, <<1, 1>>, <<Edge(1, 1, "none")>>, 1, 1),
     File([provider |-> "foreign", url |-> "none", tools |-> FALSE],
          <<2>>, <<Edge(2, 1, "unknown"), Edge(2, 1, "none")>>, 2, 3)}

================================================================================
