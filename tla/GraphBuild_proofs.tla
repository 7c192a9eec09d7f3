--------------------------- MODULE GraphBuild_proofs ---------------------------
(***************************************************************************)
(* Proofs about GraphBuild, for any set of names: compile() hands out      *)
(* exactly the graphs the module Scheduler assumes it is given.            *)
(***************************************************************************)
EXTENDS GraphBuild, FiniteSetTheorems, TLAPS

\* A node that an edge leads to from a reachable one is reachable.
LEMMA ReachableIsClosed ==
    ASSUME NEW g, g.always \subseteq g.nodes \X g.nodes, g.cond \subseteq g.nodes \X g.nodes,
           NEW e \in Edges(g), e[1] \in Reachable(g)
    PROVE  e[2] \in Reachable(g)
<1>1. e[2] \in g.nodes
  BY DEF Edges
<1>2. ASSUME NEW S \in SUBSET g.nodes, g.entry \in S, Closed(g, S)
      PROVE  e[2] \in S
  BY <1>2 DEF Reachable, Closed
<1> QED  BY <1>1, <1>2 DEF Reachable

\* A draft whose references resolve is well formed.
LEMMA ResolvedIsWellFormed ==
    ASSUME TypeOK, ReferencesResolve(draft)
    PROVE  WellFormed(draft)
<1>1. draft.always \subseteq draft.nodes \X draft.nodes
  BY DEF TypeOK, Drafts, ReferencesResolve, Edges
<1>2. draft.cond \subseteq draft.nodes \X draft.nodes
  BY DEF TypeOK, Drafts, ReferencesResolve, Edges
<1>3. draft.retries \in [draft.nodes -> Nat]
  <2>1. PICK N \in SUBSET Names : draft.retries \in [N -> Retries]
    BY DEF TypeOK, Drafts
  <2> QED  BY <2>1, RetriesAssumption DEF TypeOK
<1>4. draft.nodes \subseteq Nat
  BY NamesAssumption DEF TypeOK, Drafts
<1> QED  BY <1>1, <1>2, <1>3, <1>4 DEF WellFormed, ReferencesResolve

\* When the queue is empty, the search has found every reachable node.
LEMMA SearchIsComplete ==
    ASSUME TypeOK, SearchIsSound, pc = "searching", queue = {}
    PROVE  Reachable(draft) \cap draft.nodes = reachable
<1> USE DEF SearchIsSound
<1>1. reachable \subseteq draft.nodes
  BY DEF Reachable
<1>2. draft.entry \in reachable /\ Closed(draft, reachable)
  BY DEF Closed
<1>3. Reachable(draft) \subseteq reachable
  BY <1>1, <1>2 DEF Reachable
<1> QED  BY <1>1, <1>3

LEMMA InvInit == Init => IInv
<1> SUFFICES ASSUME Init PROVE IInv
  OBVIOUS
<1> USE DEF Init
<1>1. draft.retries \in UNION {[N -> Retries] : N \in SUBSET Names}
  <2>1. draft.retries \in [{} -> Retries]
    OBVIOUS
  <2> QED  BY <2>1
<1>2. TypeOK
  BY <1>1 DEF TypeOK, Drafts
<1> QED  BY <1>2 DEF IInv, SearchIsSound, OnlyValidGraphs, RefusalsJustified

LEMMA RedraftKeeps ==
    ASSUME IInv, NEW d \in Drafts, DOMAIN d.retries = d.nodes, Redraft(d)
    PROVE  IInv'
BY DEF IInv, Redraft, TypeOK, SearchIsSound, OnlyValidGraphs, RefusalsJustified, searchVars

\* Adding a node keeps retries a function on the nodes.
LEMMA AddNodeKeeps ==
    ASSUME IInv, NEW n \in Names, NEW r \in Retries, AddNode(n, r)
    PROVE  IInv'
<1> USE DEF IInv
<1> DEFINE rs == [x \in draft.nodes \cup {n} |-> IF x = n THEN r ELSE draft.retries[x]]
           d == [draft EXCEPT !.nodes = @ \cup {n}, !.retries = rs]
<1>1. PICK N \in SUBSET Names : draft.retries \in [N -> Retries]
  BY DEF TypeOK, Drafts
<1>2. draft.nodes = N /\ draft.nodes \cup {n} \in SUBSET Names
  BY <1>1 DEF TypeOK
<1>3. rs \in [draft.nodes \cup {n} -> Retries]
  BY <1>1, <1>2
<1>4. rs \in UNION {[M -> Retries] : M \in SUBSET Names}
  BY <1>2, <1>3
<1>5. Redraft(d)
  BY DEF AddNode
<1> HIDE DEF rs
<1>6. d \in Drafts /\ d.nodes = draft.nodes \cup {n} /\ d.retries = rs
  BY <1>2, <1>4 DEF TypeOK, Drafts
<1>7. DOMAIN d.retries = d.nodes
  BY <1>3, <1>6
<1> HIDE DEF d
<1> QED  BY <1>5, <1>6, <1>7, RedraftKeeps

LEMMA AddEdgeKeeps ==
    ASSUME IInv, NEW n \in Names, NEW m \in Names, NEW c \in BOOLEAN, AddEdge(n, m, c)
    PROVE  IInv'
<1> USE DEF IInv
<1> DEFINE da == [draft EXCEPT !.always = @ \cup {<<n, m>>}]
           dc == [draft EXCEPT !.cond = @ \cup {<<n, m>>}]
<1>1. da \in Drafts /\ DOMAIN da.retries = da.nodes
  BY DEF TypeOK, Drafts
<1>2. dc \in Drafts /\ DOMAIN dc.retries = dc.nodes
  BY DEF TypeOK, Drafts
<1>3. Redraft(da) \/ Redraft(dc)
  BY DEF AddEdge
<1> HIDE DEF da, dc
<1> QED  BY <1>1, <1>2, <1>3, RedraftKeeps

LEMMA SetEndKeeps ==
    ASSUME IInv, NEW n \in Names, SetEntry(n) \/ SetExit(n)
    PROVE  IInv'
<1> USE DEF IInv
<1> DEFINE di == [draft EXCEPT !.entry = n]
           do == [draft EXCEPT !.exit = n]
<1>1. di \in Drafts /\ DOMAIN di.retries = di.nodes
  BY DEF TypeOK, Drafts
<1>2. do \in Drafts /\ DOMAIN do.retries = do.nodes
  BY DEF TypeOK, Drafts
<1>3. Redraft(di) \/ Redraft(do)
  BY DEF SetEntry, SetExit
<1> HIDE DEF di, do
<1> QED  BY <1>1, <1>2, <1>3, RedraftKeeps

\* One visit keeps the search sound.
LEMMA VisitKeeps ==
    ASSUME IInv, NEW n \in Names, Visit(n)
    PROVE  IInv'
<1> USE DEF IInv, Visit, Unvisited
<1>1. WellFormed(draft)
  BY ResolvedIsWellFormed DEF SearchIsSound
<1>2. n \in Reachable(draft)
  BY DEF SearchIsSound
<1>3. \A x \in Successors(n) : x \in Reachable(draft) /\ x \in Names
  BY <1>1, <1>2, ReachableIsClosed DEF Successors, WellFormed, TypeOK, Drafts, Reachable
<1>4. TypeOK'
  BY <1>3 DEF TypeOK
<1>5. SearchIsSound'
  <2>1. reachable' \cup queue' = reachable \cup queue \cup {n} \cup Successors(n)
    OBVIOUS
  <2>2. reachable' \cup queue' \subseteq Reachable(draft)
    BY <1>2, <1>3, <2>1 DEF SearchIsSound
  <2>3. ASSUME NEW e \in Edges(draft), e[1] \in reachable'
        PROVE  e[2] \in reachable' \cup queue'
    <3>1. CASE e[1] = n
      BY <2>1, <3>1 DEF Successors
    <3>2. CASE e[1] \in reachable
      BY <2>1, <3>2 DEF SearchIsSound
    <3> QED  BY <2>3, <3>1, <3>2
  <2>4. reachable' \cap queue' = {}
    BY DEF SearchIsSound
  <2> QED  BY <2>1, <2>2, <2>3, <2>4 DEF SearchIsSound
<1> QED  BY <1>4, <1>5 DEF OnlyValidGraphs, RefusalsJustified

LEMMA CompileKeeps ==
    ASSUME IInv, CompileRefused \/ StartSearch \/ OrphansFound \/ NoBackend \/ HandOut
    PROVE  IInv'
<1> USE DEF IInv
<1>1. CASE CompileRefused
  <2>1. ~Compiled(draft)
    BY <1>1 DEF CompileRefused, ReferencesResolve, Compiled, WellFormed, Edges
  <2> QED  BY <1>1, <2>1 DEF CompileRefused, TypeOK, SearchIsSound, OnlyValidGraphs,
              RefusalsJustified, searchVars
<1>2. CASE StartSearch
  <2>1. draft.entry \in Reachable(draft) /\ draft.entry \in Names
    BY <1>2 DEF StartSearch, ReferencesResolve, Reachable, TypeOK, Drafts
  <2> QED  BY <1>2, <2>1 DEF StartSearch, TypeOK, SearchIsSound, OnlyValidGraphs,
              RefusalsJustified
<1>3. CASE OrphansFound \/ NoBackend \/ HandOut
  <2> USE <1>3 DEF OrphansFound, NoBackend, HandOut, Conclude, searchVars
  <2>1. WellFormed(draft) /\ reachable = Reachable(draft)
    BY ResolvedIsWellFormed, SearchIsComplete DEF SearchIsSound, Reachable
  <2>2. TypeOK' /\ SearchIsSound'
    BY DEF TypeOK, SearchIsSound
  <2>3. Compiled(draft) <=> draft.nodes \ reachable = {}
    BY <2>1 DEF Compiled, Reachable
  <2> QED  BY <2>2, <2>3 DEF OnlyValidGraphs, RefusalsJustified
<1> QED  BY <1>1, <1>2, <1>3

THEOREM InductiveInvariant == Spec => []IInv
<1>1. IInv /\ [Next]_vars => IInv'
  <2> SUFFICES ASSUME IInv, [Next]_vars PROVE IInv'
    OBVIOUS
  <2>1. CASE UNCHANGED vars
    BY <2>1 DEF vars, IInv, TypeOK, SearchIsSound, OnlyValidGraphs, RefusalsJustified
  <2>2. ASSUME NEW n \in Names, NEW r \in Retries, AddNode(n, r) PROVE IInv'
    BY <2>2, AddNodeKeeps
  <2>3. ASSUME NEW n \in Names, NEW m \in Names, NEW c \in BOOLEAN, AddEdge(n, m, c)
        PROVE  IInv'
    BY <2>3, AddEdgeKeeps
  <2>4. ASSUME NEW n \in Names, SetEntry(n) \/ SetExit(n) PROVE IInv'
    BY <2>4, SetEndKeeps
  <2>5. ASSUME NEW n \in Names, Visit(n) PROVE IInv'
    BY <2>5, VisitKeeps
  <2> QED  BY <2>1, <2>2, <2>3, <2>4, <2>5, CompileKeeps DEF Next, CompileStep
<1> QED  BY <1>1, InvInit, PTL DEF Spec

\* Every variable of the builder and of compile() keeps its type.
THEOREM TypeCorrect == Spec => []TypeOK
<1>1. IInv => TypeOK
  BY DEF IInv
<1> QED  BY <1>1, InductiveInvariant, PTL

\* The scheduler is only ever given graphs without dangling references in which
\* every node is reachable from the entry (Scheduler's GraphsAssumption), and
\* compile() finds no fault with the shape of a graph that has none.
THEOREM CompileIsRight == Spec => []CompileIsExact
<1>1. IInv => CompileIsExact
  BY DEF IInv, CompileIsExact
<1> QED  BY <1>1, InductiveInvariant, PTL

\* The search of compile() finds a new node at every turn ...
THEOREM SearchFindsMore == Spec => SearchAdvances
<1> DEFINE A == pc = "searching" /\ pc' = "searching" =>
                    /\ reachable \subseteq reachable' /\ reachable' # reachable
                    /\ reachable' \subseteq draft.nodes
                    /\ UNCHANGED draft
<1>1. IInv /\ IInv' /\ [Next]_vars => [A]_vars
  <2> SUFFICES ASSUME IInv, IInv', Next, pc = "searching", pc' = "searching" PROVE A
    OBVIOUS
  <2>1. PICK n \in Names : Visit(n)
    BY DEF Next, CompileStep, AddNode, AddEdge, SetEntry, SetExit, Redraft, CompileRefused,
       StartSearch, OrphansFound, NoBackend, HandOut, Conclude
  <2>2. n \in queue /\ reachable' = reachable \cup {n} /\ UNCHANGED draft
    BY <2>1 DEF Visit
  <2>3. n \notin reachable
    BY <2>2 DEF IInv, SearchIsSound
  <2>4. reachable' \subseteq draft.nodes
    BY <2>2 DEF IInv, SearchIsSound, Reachable
  <2> QED  BY <2>2, <2>3, <2>4
<1> QED  BY <1>1, InductiveInvariant, PTL DEF Spec, SearchAdvances

\* ... of which there are finitely many, so that it ends.
THEOREM GraphsAreFinite == Spec => []IsFiniteSet(draft.nodes)
<1>1. Init => IsFiniteSet(draft.nodes)
  BY FS_EmptySet DEF Init
<1>2. IsFiniteSet(draft.nodes) /\ IInv /\ [Next]_vars => IsFiniteSet(draft.nodes)'
  <2> SUFFICES ASSUME IsFiniteSet(draft.nodes), TypeOK, [Next]_vars
               PROVE  IsFiniteSet(draft'.nodes)
    BY DEF IInv
  <2>1. draft.nodes \in SUBSET Names /\ draft = [draft EXCEPT !.nodes = draft.nodes]
    BY DEF TypeOK, Drafts
  <2>2. \/ draft'.nodes = draft.nodes
        \/ \E n \in Names : draft'.nodes = draft.nodes \cup {n}
    BY <2>1 DEF Next, CompileStep, AddNode, AddEdge, SetEntry, SetExit, Redraft,
       CompileRefused, StartSearch, Visit, OrphansFound, NoBackend, HandOut, Conclude,
       TypeOK, Drafts, vars
  <2> QED  BY <2>2, FS_AddElement
<1> QED  BY <1>1, <1>2, InductiveInvariant, PTL DEF Spec
===============================================================================
