--------------------------- MODULE Scheduler_proofs ---------------------------
(***************************************************************************)
(* Proofs about Scheduler, for every set of graphs, every budget, every set*)
(* of scratchpad keys and of memory banks.                                 *)
(***************************************************************************)
EXTENDS Scheduler, FiniteSetTheorems, WellFoundedInduction, TLAPS

\* A finite nonempty set of numbers has a highest one, and Highest finds it:
\* the branch whose scratchpad _merge_states applies last is well defined.
LEMMA HighestExists ==
    ASSUME NEW S \in SUBSET Nat, IsFiniteSet(S), S # {}
    PROVE  Highest(S) \in S /\ \A m \in S : m <= Highest(S)
<1> DEFINE Topped(X) == \E n \in X : \A m \in X : m <= n
           Bad == {X \in FiniteSubsetsOf(Nat) : X # {} /\ ~Topped(X)}
<1>1. Bad = {}
  <2> SUFFICES ASSUME Bad # {} PROVE FALSE
    OBVIOUS
  <2>1. PICK X \in Bad : \A Y \in Bad : ~ (<<Y, X>> \in StrictSubsetOrdering(Nat))
    <3>1. IsWellFoundedOn(StrictSubsetOrdering(Nat), FiniteSubsetsOf(Nat))
      BY FS_StrictSubsetOrderingWellFounded
    <3>2. Bad \subseteq FiniteSubsetsOf(Nat)
      OBVIOUS
    <3> QED  BY <3>1, <3>2, WFMin
  <2>2. PICK x \in X : TRUE
    OBVIOUS
  <2> DEFINE Y == X \ {x}
  <2>3. X \subseteq Nat /\ IsFiniteSet(X) /\ ~Topped(X)
    BY DEF FiniteSubsetsOf
  <2>4. IsFiniteSet(Y) /\ Y \subseteq Nat
    BY <2>3, FS_Subset
  <2>5. Y # {}
    BY <2>2, <2>3
  <2>6. <<Y, X>> \in StrictSubsetOrdering(Nat)
    BY <2>2, <2>3, <2>4 DEF StrictSubsetOrdering
  <2>7. Topped(Y)
    BY <2>1, <2>4, <2>5, <2>6 DEF FiniteSubsetsOf
  <2>8. PICK y \in Y : \A m \in Y : m <= y
    BY <2>7
  <2>9. CASE x <= y
    BY <2>3, <2>8, <2>9
  <2>10. CASE y <= x
    BY <2>2, <2>3, <2>8, <2>10
  <2> QED  BY <2>2, <2>3, <2>8, <2>9, <2>10
<1>2. Topped(S)
  BY <1>1 DEF FiniteSubsetsOf
<1> QED  BY <1>2 DEF Highest

\* What a compiled graph is known to satisfy.
LEMMA GraphFacts ==
    ASSUME graph \in Graphs
    PROVE  /\ graph.nodes \subseteq Nodes
           /\ graph.nodes \subseteq Nat
           /\ IsFiniteSet(graph.nodes)
           /\ graph.entry \in graph.nodes
           /\ graph.always \subseteq graph.nodes \X graph.nodes
           /\ graph.cond \subseteq graph.nodes \X graph.nodes
           /\ graph.retries \in [graph.nodes -> Nat]
BY GraphsAssumption, NodesAssumption, FS_Subset DEF Compiled, WellFormed

\* A batch is no larger than the graph, and its size is what `steps` goes up by.
LEMMA BatchSize ==
    ASSUME TypeOK
    PROVE  /\ batch \subseteq Nat /\ IsFiniteSet(batch)
           /\ Cardinality(batch) \in Nat
           /\ Cardinality(graph.nodes) \in Nat
           /\ Cardinality(batch) <= Cardinality(graph.nodes)
           /\ batch # {} => Cardinality(batch) > 0
<1>1. IsFiniteSet(graph.nodes) /\ batch \subseteq graph.nodes /\ graph.nodes \subseteq Nat
  BY GraphFacts DEF TypeOK
<1>2. IsFiniteSet(batch) /\ Cardinality(batch) <= Cardinality(graph.nodes)
  BY <1>1, FS_Subset
<1>3. Cardinality(batch) \in Nat /\ Cardinality(graph.nodes) \in Nat
  BY <1>1, <1>2, FS_CardinalityType
<1>4. batch # {} => Cardinality(batch) # 0
  BY <1>2, FS_EmptySet
<1> QED  BY <1>1, <1>2, <1>3, <1>4

\* Merging the scratchpads of a batch gives a scratchpad.
LEMMA MergedType ==
    ASSUME TypeOK
    PROVE  MergedState \in States
<1>1. batch \subseteq Nat /\ batch \subseteq Nodes /\ IsFiniteSet(batch)
  BY BatchSize, GraphFacts DEF TypeOK
<1>2. ASSUME NEW k \in Keys
      PROVE  MergedScratch[k] \in Executions \cup {Absent}
  <2> DEFINE H == {n \in batch : result[n][k] # Absent}
  <2>1. MergedScratch[k] = IF H = {} THEN state.scratch[k] ELSE result[Highest(H)][k]
    BY DEF MergedScratch
  <2>2. CASE H = {}
    BY <2>1, <2>2 DEF TypeOK, States, Scratchpads
  <2>3. CASE H # {}
    <3>1. H \in SUBSET Nat /\ IsFiniteSet(H) /\ H \subseteq Nodes
      BY <1>1, FS_Subset
    <3>2. Highest(H) \in H
      BY <2>3, <3>1, HighestExists
    <3>3. result[Highest(H)] \in Scratchpads
      BY <3>1, <3>2 DEF TypeOK
    <3> QED  BY <2>1, <2>3, <3>3 DEF Scratchpads
  <2> QED  BY <2>2, <2>3
<1>3. MergedScratch \in Scratchpads
  BY <1>2 DEF MergedScratch, Scratchpads
<1>4. state.applied \cup (batch \X {at}) \in SUBSET Executions
  BY <1>1 DEF TypeOK, States, Executions
<1> QED  BY <1>3, <1>4 DEF MergedState, States

\* The domains a step could leave: one step per action that assigns to a
\* variable something other than a literal of its type.
LEMMA TypeInit == Init => TypeOK
<1> SUFFICES ASSUME Init PROVE TypeOK
  OBVIOUS
<1>1. graph.entry \in graph.nodes
  BY GraphFacts DEF Init
<1>2. EmptyState \in States /\ EmptyState.scratch \in Scratchpads
  BY DEF EmptyState, States, Scratchpads
<1> QED  BY <1>1, <1>2, OneShotAssumption DEF Init, TypeOK, BranchStates, WritebackStates

LEMMA TypeNext == TypeOK /\ [Next]_vars => TypeOK'
<1> SUFFICES ASSUME TypeOK, [Next]_vars PROVE TypeOK'
  OBVIOUS
<1> USE DEF TypeOK, Suspended, Ended, loopVars, batchVars, eventVars, memoryVars
<1>0. batch \subseteq Nodes /\ current \subseteq Nodes /\ graph.nodes \subseteq Nodes
  BY GraphFacts
<1>00. (batch \X {at}) \subseteq Executions /\ (current \X {steps}) \subseteq Executions
  BY <1>0 DEF Executions
<1>1. CASE StartBatch
  BY <1>0, <1>00, <1>1 DEF StartBatch, BranchStates
<1>2. ASSUME NEW n \in Nodes, AttemptReturns(n) PROVE TypeOK'
  <2>1. ASSUME NEW W \in SUBSET Keys
        PROVE  [k \in Keys |-> IF k \in W THEN <<n, at>> ELSE state.scratch[k]] \in Scratchpads
    BY DEF Scratchpads, States, Executions
  <2>2. result' \in [Nodes -> Scratchpads]
    BY <1>2, <2>1 DEF AttemptReturns
  <2> QED  BY <1>2, <2>2 DEF AttemptReturns, BranchStates
<1>3. ASSUME NEW n \in Nodes, AttemptRaises(n) PROVE TypeOK'
  BY <1>3 DEF AttemptRaises, BranchStates
<1>4. CASE CollectBatch
  <2>1. Counted \in Nat
    BY BatchSize DEF Counted
  <2>2. MergedState \in States
    BY MergedType
  <2> QED  BY <1>4, <2>1, <2>2 DEF CollectBatch
<1>5. CASE BatchRaises
  BY <1>5 DEF BatchRaises, BatchFails
<1>6. CASE SaveCommits
  BY <1>6 DEF SaveCommits, Saved
<1>7. CASE SaveRaises
  BY <1>7 DEF SaveRaises, SaveFails
<1>8. CASE CompleteAtExit
  BY <1>00, <1>8 DEF CompleteAtExit
<1>9. CASE CompleteAndRoute
  <2>1. ASSUME NEW chosen \in SUBSET Outgoing(graph.cond)
        PROVE  Frontier(chosen) \in SUBSET graph.nodes
    BY GraphFacts DEF Frontier, Outgoing
  <2> QED  BY <1>00, <1>9, <2>1 DEF CompleteAndRoute
<1>10. CASE RoutingRaises
  BY <1>00, <1>10 DEF RoutingRaises
<1>11. CASE LeaveLoop
  BY <1>11 DEF LeaveLoop, EndedBy
<1>12. ASSUME NEW b \in Banks, WriteBack(b) PROVE TypeOK'
  BY <1>12 DEF WriteBack, WritebackStates
<1>13. ASSUME NEW b \in Banks, IngestEnds(b) PROVE TypeOK'
  BY <1>13 DEF IngestEnds, WritebackStates
<1>14. CASE Return
  BY <1>14 DEF Return
<1>15. CASE Cancel \/ FailureOutrunsCancel
  BY <1>15 DEF Cancel, FailureOutrunsCancel, AfterCancel, Abandoned, BranchStates, WritebackStates
<1>16. CASE LoopCloses
  BY <1>16 DEF LoopCloses, Abandoned, BranchStates, WritebackStates
<1>17. CASE Rest \/ UNCHANGED vars
  BY <1>17 DEF Rest, vars
<1> QED
  BY <1>1, <1>2, <1>3, <1>4, <1>5, <1>6, <1>7, <1>8, <1>9, <1>10, <1>11, <1>12,
     <1>13, <1>14, <1>15, <1>16, <1>17 DEF Next, RunStep, NodeStep

\* Every variable keeps its type in every run of every graph.
THEOREM TypeCorrect == Spec => []TypeOK
BY TypeInit, TypeNext, PTL DEF Spec

-------------------------------------------------------------------------------
\* The inductive invariant, conjunct by conjunct.

LEMMA InvInit == Init => IInv
<1> SUFFICES ASSUME Init PROVE IInv
  OBVIOUS
<1>1. TypeOK
  BY TypeInit
<1>2. InStep
  BY DEF Init, InStep, EmptyState, Suspended
<1>3. StepsGrow
  BY DEF Init, StepsGrow, Suspended
<1>4. FrontierIsJustified
  BY DEF Init, FrontierIsJustified, Active
<1>5. BranchesFitPC /\ OrphansOnlyAfterFailure /\ BusWhileRunning
  BY DEF Init, BranchesFitPC, OrphansOnlyAfterFailure, BusWhileRunning, Ended
<1>6. BanksFitPC /\ WritebackAfterLoop
  BY DEF Init, BanksFitPC, WritebackAfterLoop
<1>7. StepsBounded
  BY StepsAssumption DEF Init, StepsBounded
<1>8. CheckpointCoversAnnounced /\ BatchAtomic /\ StartsFollowEdges
  BY DEF Init, EmptyState, CheckpointCoversAnnounced, BatchAtomic, StartsFollowEdges
<1>9. TerminatedByTruthful /\ RetriesExact
  BY DEF Init, TerminatedByTruthful, RetriesExact
<1> QED
  BY <1>1, <1>2, <1>3, <1>4, <1>5, <1>6, <1>7, <1>8, <1>9 DEF IInv

\* The order of a step: started, applied, persisted, announced.
LEMMA InStepNext == IInv /\ [Next]_vars => InStep'
<1> SUFFICES ASSUME IInv, [Next]_vars PROVE InStep'
  OBVIOUS
<1> USE DEF IInv, InStep, Suspended, loopVars, eventVars
<1>1. CASE StartBatch
  BY <1>1 DEF StartBatch
<1>2. CASE CollectBatch
  <2>1. state'.applied = state.applied \cup (batch \X {at})
    BY <1>2 DEF CollectBatch, MergedState
  <2> QED  BY <1>2, <2>1 DEF CollectBatch
<1>3. CASE BatchRaises
  BY <1>3 DEF BatchRaises, BatchFails
<1>4. CASE SaveCommits
  BY <1>4 DEF SaveCommits, Saved
<1>5. CASE SaveRaises
  BY <1>5 DEF SaveRaises, SaveFails
<1>6. CASE CompleteAtExit
  BY <1>6 DEF CompleteAtExit
<1>7. CASE CompleteAndRoute
  BY <1>7 DEF CompleteAndRoute
<1>8. CASE RoutingRaises
  BY <1>8 DEF RoutingRaises
<1>9. CASE LeaveLoop
  BY <1>9 DEF LeaveLoop
<1>10. CASE Return
  BY <1>10 DEF Return
<1>11. CASE Cancel \/ FailureOutrunsCancel
  BY <1>11 DEF Cancel, FailureOutrunsCancel, Abandoned
<1>12. CASE UNCHANGED <<pc, batch, at, started, completed, state, ckpt>>
  BY <1>12
<1> QED
  BY <1>1, <1>2, <1>3, <1>4, <1>5, <1>6, <1>7, <1>8, <1>9, <1>10, <1>11, <1>12
  DEF Next, RunStep, NodeStep, AttemptReturns, AttemptRaises, WriteBack, IngestEnds,
      LoopCloses, Rest, vars

\* Batches are numbered upwards and start below the budget.
LEMMA StepsGrowNext == IInv /\ [Next]_vars => StepsGrow'
<1> SUFFICES ASSUME IInv, [Next]_vars PROVE StepsGrow'
  OBVIOUS
<1> USE DEF IInv, StepsGrow, TypeOK, Suspended, loopVars, eventVars, Executions
<1>1. CASE StartBatch
  BY <1>1, StepsAssumption DEF StartBatch, MayStart, InStep
<1>2. CASE CollectBatch
  BY <1>2, BatchSize DEF CollectBatch, Counted
<1>3. CASE BatchRaises
  BY <1>3 DEF BatchRaises, BatchFails
<1>4. CASE SaveCommits
  BY <1>4 DEF SaveCommits
<1>5. CASE SaveRaises
  BY <1>5 DEF SaveRaises, SaveFails
<1>6. CASE CompleteAtExit
  BY <1>6 DEF CompleteAtExit
<1>7. CASE CompleteAndRoute
  <2>1. pc' = "loop" /\ pc = "saved" /\ at < steps /\ UNCHANGED <<steps, started>>
    BY <1>7 DEF CompleteAndRoute
  <2>2. started = completed \cup (batch \X {at})
    BY <2>1 DEF InStep
  <2>3. ASSUME NEW e \in started PROVE e[2] < steps
    <3>1. CASE e \in completed
      BY <2>1, <3>1
    <3>2. CASE e \in batch \X {at}
      BY <2>1, <3>2
    <3> QED  BY <2>2, <3>1, <3>2
  <2> QED  BY <2>1, <2>3
<1>8. CASE RoutingRaises
  BY <1>8 DEF RoutingRaises
<1>9. CASE LeaveLoop
  BY <1>9 DEF LeaveLoop
<1>10. CASE Return
  BY <1>10 DEF Return
<1>11. CASE Cancel \/ FailureOutrunsCancel
  BY <1>11 DEF Cancel, FailureOutrunsCancel, Abandoned
<1>12. CASE UNCHANGED <<pc, batch, at, steps, started, completed>>
  BY <1>12
<1> QED
  BY <1>1, <1>2, <1>3, <1>4, <1>5, <1>6, <1>7, <1>8, <1>9, <1>10, <1>11, <1>12
  DEF Next, RunStep, NodeStep, AttemptReturns, AttemptRaises, WriteBack, IngestEnds,
      LoopCloses, Rest, vars

\* The frontier is what edges of completed nodes lead to.
LEMMA FrontierNext == IInv /\ [Next]_vars => FrontierIsJustified'
<1> SUFFICES ASSUME IInv, [Next]_vars PROVE FrontierIsJustified'
  OBVIOUS
<1> USE DEF IInv, FrontierIsJustified, Active, Suspended, Ended, loopVars, eventVars
<1>1. CASE StartBatch
  BY <1>1 DEF StartBatch
<1>2. CASE CollectBatch
  BY <1>2 DEF CollectBatch
<1>3. CASE BatchRaises
  BY <1>3 DEF BatchRaises, BatchFails
<1>4. CASE SaveCommits
  BY <1>4 DEF SaveCommits
<1>5. CASE SaveRaises
  BY <1>5 DEF SaveRaises, SaveFails
<1>6. CASE CompleteAtExit
  BY <1>6 DEF CompleteAtExit
<1>7. CASE CompleteAndRoute
  <2>1. /\ pc = "saved" /\ pc' = "loop" /\ UNCHANGED <<graph, steps, terminatedBy>>
        /\ graph.exit \notin batch
        /\ completed' = completed \cup (batch \X {at})
    BY <1>7 DEF CompleteAndRoute, ReachedExit
  <2>2. \A e \in completed' : e[1] # graph'.exit
    BY <2>1
  <2>3. PICK chosen \in SUBSET Outgoing(graph.cond) : current' = Frontier(chosen)
    BY <1>7 DEF CompleteAndRoute
  <2>4. ASSUME NEW n \in current'
        PROVE  \E f \in completed' : f[2] < steps' /\ <<f[1], n>> \in Edges(graph')
    <3>1. PICK e \in Outgoing(graph.always) \cup chosen : n = e[2]
      BY <2>3, <2>4 DEF Frontier
    <3>2. e \in Edges(graph) /\ e[1] \in batch
      BY <2>3, <3>1 DEF Outgoing, Edges
    <3>3. e = <<e[1], e[2]>>
      BY <3>2, GraphFacts DEF Edges, TypeOK
    <3>4. <<e[1], at>> \in completed' /\ at < steps
      BY <2>1, <3>2 DEF StepsGrow
    <3> QED  BY <2>1, <3>1, <3>2, <3>3, <3>4
  <2> QED  BY <2>1, <2>2, <2>4
<1>8. CASE RoutingRaises
  BY <1>8 DEF RoutingRaises
<1>9. CASE LeaveLoop
  BY <1>9 DEF LeaveLoop
<1>10. CASE Return
  BY <1>10 DEF Return
<1>11. CASE Cancel \/ FailureOutrunsCancel
  BY <1>11 DEF Cancel, FailureOutrunsCancel, Abandoned
<1>12. CASE UNCHANGED <<graph, pc, current, steps, completed, terminatedBy>>
  BY <1>12
<1> QED
  BY <1>1, <1>2, <1>3, <1>4, <1>5, <1>6, <1>7, <1>8, <1>9, <1>10, <1>11, <1>12
  DEF Next, RunStep, NodeStep, AttemptReturns, AttemptRaises, WriteBack, IngestEnds,
      LoopCloses, Rest, vars

\* Who may run, how often it was called, and what the end of a run leaves behind.
LEMMA BranchesNext ==
    IInv /\ [Next]_vars =>
        BranchesFitPC' /\ RetriesExact' /\ OrphansOnlyAfterFailure' /\ BusWhileRunning'
<1> DEFINE Goal == BranchesFitPC /\ RetriesExact /\ OrphansOnlyAfterFailure /\ BusWhileRunning
<1> SUFFICES ASSUME IInv, [Next]_vars PROVE Goal'
  OBVIOUS
<1> USE DEF IInv, TypeOK, BranchesFitPC, RetriesExact, OrphansOnlyAfterFailure,
            BusWhileRunning, Suspended, Ended, loopVars, batchVars, memoryVars
<1>0. batch \subseteq Nodes /\ current \subseteq Nodes
  BY GraphFacts
<1>00. \A n \in graph.nodes : Attempts(graph, n) \in Nat /\ Attempts(graph, n) >= 1
  BY GraphFacts DEF Attempts
<1>1. CASE StartBatch
  BY <1>0, <1>00, <1>1 DEF StartBatch, Attempts
<1>2. ASSUME NEW n \in Nodes, AttemptReturns(n) PROVE Goal'
  BY <1>0, <1>2 DEF AttemptReturns, Attempts
<1>3. ASSUME NEW n \in Nodes, AttemptRaises(n) PROVE Goal'
  <2>1. n \in batch /\ n \in graph.nodes
    BY <1>3 DEF AttemptRaises
  <2>2. CASE tries[n] < Budget(n)
    BY <1>0, <1>00, <1>3, <2>1, <2>2 DEF AttemptRaises, Budget, Attempts
  <2>3. CASE ~(tries[n] < Budget(n))
    <3>1. tries[n] = Attempts(graph, n)
      BY <1>00, <2>1, <2>3 DEF Budget
    <3> QED  BY <1>0, <1>3, <2>1, <2>3, <3>1 DEF AttemptRaises, Attempts
  <2> QED  BY <2>2, <2>3
<1>4. CASE CollectBatch
  BY <1>4 DEF CollectBatch, AllIn, Attempts
<1>5. CASE BatchRaises
  BY <1>5 DEF BatchRaises, BatchFails, Attempts
<1>6. CASE SaveCommits
  BY <1>6 DEF SaveCommits, Attempts
<1>7. CASE SaveRaises
  BY <1>7 DEF SaveRaises, SaveFails, Attempts
<1>8. CASE CompleteAtExit
  BY <1>8 DEF CompleteAtExit, Attempts
<1>9. CASE CompleteAndRoute
  BY <1>9 DEF CompleteAndRoute, Attempts
<1>10. CASE RoutingRaises
  BY <1>10 DEF RoutingRaises, Attempts
<1>11. CASE LeaveLoop
  BY <1>11 DEF LeaveLoop, Attempts
<1>12. ASSUME NEW b \in Banks, WriteBack(b) PROVE Goal'
  BY <1>12 DEF WriteBack, Attempts
<1>13. CASE Return
  BY <1>13 DEF Return, Attempts
<1>14. CASE Cancel \/ FailureOutrunsCancel
  BY <1>0, <1>14 DEF Cancel, FailureOutrunsCancel, AfterCancel, Abandoned, Attempts
<1>15. CASE LoopCloses
  BY <1>0, <1>15 DEF LoopCloses, Abandoned, Attempts
<1>16. CASE UNCHANGED <<graph, pc, batch, branch, tries, registered>>
  BY <1>16 DEF Attempts
<1> QED
  BY <1>1, <1>2, <1>3, <1>4, <1>5, <1>6, <1>7, <1>8, <1>9, <1>10, <1>11, <1>12,
     <1>13, <1>14, <1>15, <1>16
  DEF Next, RunStep, NodeStep, IngestEnds, Rest, vars

\* Banks wait for the loop; the trajectory they get is a finished one.
LEMMA BanksNext == IInv /\ [Next]_vars => BanksFitPC' /\ WritebackAfterLoop'
<1> DEFINE Goal == BanksFitPC /\ WritebackAfterLoop
<1> SUFFICES ASSUME IInv, [Next]_vars PROVE Goal'
  OBVIOUS
<1> USE DEF IInv, TypeOK, BanksFitPC, WritebackAfterLoop, Active, Suspended, Ended,
            loopVars, batchVars, eventVars, memoryVars
<1>1. CASE StartBatch
  BY <1>1 DEF StartBatch
<1>2. ASSUME NEW n \in Nodes, AttemptReturns(n) PROVE Goal'
  BY <1>2 DEF AttemptReturns
<1>3. ASSUME NEW n \in Nodes, AttemptRaises(n) PROVE Goal'
  BY <1>3 DEF AttemptRaises
<1>4. CASE CollectBatch
  BY <1>4 DEF CollectBatch
<1>5. CASE BatchRaises
  BY <1>5 DEF BatchRaises, BatchFails
<1>6. CASE SaveCommits
  BY <1>6 DEF SaveCommits
<1>7. CASE SaveRaises
  BY <1>7 DEF SaveRaises, SaveFails
<1>8. CASE CompleteAtExit
  BY <1>8 DEF CompleteAtExit
<1>9. CASE CompleteAndRoute
  BY <1>9 DEF CompleteAndRoute
<1>10. CASE RoutingRaises
  BY <1>10 DEF RoutingRaises
<1>11. CASE LeaveLoop
  BY <1>11 DEF LeaveLoop
<1>12. ASSUME NEW b \in Banks, WriteBack(b) PROVE Goal'
  <2>1. completed = started /\ \A n \in Nodes : branch[n] # "running"
    BY <1>12 DEF WriteBack, InStep, BranchesFitPC
  <2> QED  BY <1>12, <2>1 DEF WriteBack
<1>13. ASSUME NEW b \in Banks, IngestEnds(b) PROVE Goal'
  BY <1>13 DEF IngestEnds
<1>14. CASE Return
  BY <1>14 DEF Return, WrittenBack
<1>15. CASE Cancel \/ FailureOutrunsCancel
  BY <1>15 DEF Cancel, FailureOutrunsCancel, AfterCancel, Abandoned, AwaitingBank
<1>16. CASE LoopCloses
  BY <1>16 DEF LoopCloses, Abandoned
<1>17. CASE Rest \/ UNCHANGED vars
  BY <1>17 DEF Rest, vars
<1> QED
  BY <1>1, <1>2, <1>3, <1>4, <1>5, <1>6, <1>7, <1>8, <1>9, <1>10, <1>11, <1>12,
     <1>13, <1>14, <1>15, <1>16, <1>17 DEF Next, RunStep, NodeStep

\* Only a merge counts steps, and it counts one batch that started below the budget.
LEMMA StepsBoundedNext == IInv /\ [Next]_vars => StepsBounded'
<1> SUFFICES ASSUME IInv, [Next]_vars PROVE StepsBounded'
  OBVIOUS
<1> USE DEF IInv, TypeOK, StepsBounded, Suspended, loopVars, eventVars, Executions
<1>1. CASE StartBatch
  BY <1>1 DEF StartBatch, MayStart
<1>2. CASE CollectBatch
  <2>1. steps < MaxSteps /\ steps' = steps + Cardinality(batch)
    BY <1>2 DEF CollectBatch, Counted, StepsGrow
  <2>2. UNCHANGED <<graph, started>>
    BY <1>2 DEF CollectBatch
  <2> QED  BY <2>1, <2>2, BatchSize, StepsAssumption
<1>3. CASE UNCHANGED <<graph, steps, started>>
  BY <1>3
<1> QED
  BY <1>1, <1>2, <1>3
  DEF Next, RunStep, NodeStep, AttemptReturns, AttemptRaises, BatchRaises, BatchFails,
      SaveCommits, SaveRaises, SaveFails, CompleteAtExit, CompleteAndRoute,
      RoutingRaises, LeaveLoop, WriteBack, Return, IngestEnds, Cancel,
      FailureOutrunsCancel, LoopCloses,
      Rest, vars

\* What is announced, durable and applied moves by whole batches, in that order.
LEMMA EffectsNext ==
    IInv /\ [Next]_vars => CheckpointCoversAnnounced' /\ BatchAtomic'
<1> DEFINE Goal == CheckpointCoversAnnounced /\ BatchAtomic
<1> SUFFICES ASSUME IInv, [Next]_vars PROVE Goal'
  OBVIOUS
<1> USE DEF IInv, CheckpointCoversAnnounced, BatchAtomic, Suspended, loopVars, eventVars
<1>1. CASE StartBatch
  <2>1. /\ started' = started \cup (current \X {steps})
        /\ UNCHANGED <<state, ckpt, completed>>
        /\ state.applied = started /\ ckpt.applied = started
        /\ \A e \in started : e[2] < steps
    BY <1>1 DEF StartBatch, InStep, StepsGrow
  <2>2. \A e \in current \X {steps} : e[2] = steps
    OBVIOUS
  <2>3. steps \in Nat
    BY DEF TypeOK
  <2>4. \A e, f \in started' : e[2] = f[2] => (e \in started <=> f \in started)
    BY <2>1, <2>2, <2>3
  <2> QED  BY <2>1, <2>4
<1>2. CASE CollectBatch
  <2>1. state'.applied = started
    BY <1>2 DEF CollectBatch, MergedState, InStep
  <2>2. UNCHANGED <<started, completed, ckpt>>
    BY <1>2 DEF CollectBatch
  <2>3. ckpt.applied \subseteq started
    BY <1>2 DEF CollectBatch, InStep
  <2> QED  BY <2>1, <2>2, <2>3
<1>3. CASE SaveCommits
  BY <1>3 DEF SaveCommits, Saved, InStep
<1>4. CASE CompleteAtExit
  BY <1>4 DEF CompleteAtExit, InStep
<1>5. CASE CompleteAndRoute
  BY <1>5 DEF CompleteAndRoute, InStep
<1>6. CASE RoutingRaises
  BY <1>6 DEF RoutingRaises, InStep
<1>7. CASE UNCHANGED <<started, completed, state, ckpt>>
  BY <1>7
<1> QED
  BY <1>1, <1>2, <1>3, <1>4, <1>5, <1>6, <1>7
  DEF Next, RunStep, NodeStep, AttemptReturns, AttemptRaises, BatchRaises, BatchFails,
      SaveRaises, SaveFails, LeaveLoop, WriteBack, Return, IngestEnds, Cancel,
      FailureOutrunsCancel,
      LoopCloses, Rest, vars

\* terminated_by is set once, on the way out of the loop.
LEMMA TerminatedNext == IInv /\ [Next]_vars => TerminatedByTruthful'
<1> SUFFICES ASSUME IInv, [Next]_vars PROVE TerminatedByTruthful'
  OBVIOUS
<1> USE DEF IInv, TerminatedByTruthful, FrontierIsJustified, Active, Suspended, Ended,
            loopVars, eventVars
<1>1. CASE CompleteAtExit
  <2>1. /\ pc' = "writeback" /\ terminatedBy' = "exit_node"
        /\ completed' = completed \cup (batch \X {at})
        /\ graph.exit \in batch /\ UNCHANGED graph
    BY <1>1 DEF CompleteAtExit, ReachedExit
  <2>2. <<graph.exit, at>> \in completed'
    BY <2>1
  <2> QED  BY <2>1, <2>2
<1>2. CASE LeaveLoop
  BY <1>2, StepsAssumption DEF LeaveLoop, MayStart, EndedBy, TypeOK
<1>3. CASE UNCHANGED <<graph, current, steps, completed, terminatedBy>>
           /\ (pc' = pc \/ pc' \notin {"writeback", "returned"} \/ pc = "writeback")
  BY <1>3
<1>4. CASE StartBatch \/ CollectBatch \/ CompleteAndRoute \/ RoutingRaises
  BY <1>4 DEF StartBatch, CollectBatch, CompleteAndRoute, RoutingRaises
<1> QED
  BY <1>1, <1>2, <1>3, <1>4
  DEF Next, RunStep, NodeStep, AttemptReturns, AttemptRaises, BatchRaises, BatchFails,
      SaveCommits, SaveRaises, SaveFails, WriteBack, Return, IngestEnds, Cancel,
      FailureOutrunsCancel,
      LoopCloses, Rest, vars

\* A batch is the frontier, which edges of completed nodes justify.
LEMMA StartsNext == IInv /\ [Next]_vars => StartsFollowEdges'
<1> SUFFICES ASSUME IInv, [Next]_vars PROVE StartsFollowEdges'
  OBVIOUS
<1> USE DEF IInv, StartsFollowEdges, loopVars, eventVars
<1>1. CASE StartBatch
  <2>1. /\ pc = "loop" /\ UNCHANGED <<graph, completed>>
        /\ started' = started \cup (current \X {steps})
    BY <1>1 DEF StartBatch
  <2>2. ASSUME NEW e \in current \X {steps}
        PROVE  \/ e = <<graph.entry, 0>>
               \/ \E f \in completed : f[2] < e[2] /\ <<f[1], e[1]>> \in Edges(graph)
    <3>1. e[1] \in current /\ e[2] = steps /\ e = <<e[1], e[2]>>
      OBVIOUS
    <3> QED  BY <2>1, <3>1 DEF FrontierIsJustified
  <2> QED  BY <2>1, <2>2
<1>2. CASE UNCHANGED <<graph, started>> /\ completed \subseteq completed'
  BY <1>2
<1> QED
  BY <1>1, <1>2
  DEF Next, RunStep, NodeStep, AttemptReturns, AttemptRaises, CollectBatch, BatchRaises,
      BatchFails, SaveCommits, SaveRaises, SaveFails, CompleteAtExit, CompleteAndRoute,
      RoutingRaises, LeaveLoop, WriteBack, Return, IngestEnds, Cancel,
      FailureOutrunsCancel, LoopCloses,
      Rest, vars

THEOREM InductiveInvariant == Spec => []IInv
<1>1. IInv /\ [Next]_vars => IInv'
  <2>1. IInv /\ [Next]_vars => TypeOK'
    BY TypeNext DEF IInv
  <2> QED
    BY <2>1, InStepNext, StepsGrowNext, FrontierNext, BranchesNext, BanksNext,
       StepsBoundedNext, EffectsNext, TerminatedNext, StartsNext DEF IInv
<1> QED  BY <1>1, InvInit, PTL DEF Spec

-------------------------------------------------------------------------------
\* What the inductive invariant gives.

\* No batch starts at max_steps and the count passes it by less than one fan-out;
\* a node gives up after exactly its retry budget.
THEOREM BudgetsAreKept == Spec => []BudgetsHold
<1>1. IInv => BudgetsHold
  BY DEF IInv, BudgetsHold
<1> QED  BY <1>1, InductiveInvariant, PTL

\* A completion is announced only after the checkpoint holds it.
THEOREM DurableBeforeAnnounced == Spec => []CheckpointCoversAnnounced
<1>1. IInv => CheckpointCoversAnnounced
  BY DEF IInv
<1> QED  BY <1>1, InductiveInvariant, PTL

\* State and checkpoint hold all of a fan-out or none of it, and a run that
\* returns has applied, persisted and announced all it started.
THEOREM BatchesAreAccountedFor == Spec => []BatchesAccounted
<1>1. IInv => BatchAtomic
  BY DEF IInv
<1>2. IInv => ReturnAccountsForAll
  BY DEF IInv, InStep, ReturnAccountsForAll
<1> QED  BY <1>1, <1>2, InductiveInvariant, PTL DEF BatchesAccounted

\* terminated_by says how the run ended.
THEOREM TerminationIsTruthful == Spec => []TerminatedByTruthful
<1>1. IInv => TerminatedByTruthful
  BY DEF IInv
<1> QED  BY <1>1, InductiveInvariant, PTL

\* Nodes are started only along edges out of completed nodes.
THEOREM StartsAreCausal == Spec => []StartsFollowEdges
<1>1. IInv => StartsFollowEdges
  BY DEF IInv
<1> QED  BY <1>1, InductiveInvariant, PTL

\* Only a branch's failure can leave nodes running after the end of a run, and a
\* node that runs, orphaned or not, finds the event bus in the registry.
THEOREM OrphansAreAccountedFor == Spec => []OrphansAccounted
<1>1. IInv => OrphansAccounted
  BY DEF IInv, OrphansAccounted
<1> QED  BY <1>1, InductiveInvariant, PTL

\* Memory is written back only from a finished trajectory, and in full before
\* run() returns where async_writeback is off.
THEOREM WritebackIsOrdered == Spec => []WritebackOrdered
<1>1. IInv => WritebackAfterLoop
  BY DEF IInv
<1>2. IInv => SyncWritebackDone
  BY DEF IInv, SyncWritebackDone, BanksFitPC, TypeOK, WritebackStates
<1> QED  BY <1>1, <1>2, InductiveInvariant, PTL DEF WritebackOrdered

\* The exit node is the last to start, and nothing changes after the end.
LEMMA EndStaysNext == IInv /\ [Next]_vars => [EndStays]_vars
<1> SUFFICES ASSUME IInv, Next PROVE EndStays
  BY DEF vars, EndStays, eventVars
<1> USE DEF Ended, Suspended, loopVars, eventVars, EndStays
<1>1. CASE StartBatch
  BY <1>1 DEF StartBatch, IInv, FrontierIsJustified, Active
<1>2. CASE UNCHANGED started /\ pc \notin Ended
  BY <1>2
<1>3. CASE UNCHANGED <<pc, state, ckpt, steps, started, completed>>
  BY <1>3
<1> QED
  BY <1>1, <1>2, <1>3
  DEF Next, RunStep, NodeStep, AttemptReturns, AttemptRaises, CollectBatch, BatchRaises,
      BatchFails, SaveCommits, SaveRaises, SaveFails, CompleteAtExit, CompleteAndRoute,
      RoutingRaises, LeaveLoop, WriteBack, Return, IngestEnds, Cancel,
      FailureOutrunsCancel, LoopCloses, Rest, vars

\* Merging a batch uses up budget: a batch is never empty and was started with
\* some of the budget left.
LEMMA CollectAdvances ==
    ASSUME IInv, CollectBatch
    PROVE  StepsLeft' < StepsLeft
<1>1. steps \in Nat /\ steps < MaxSteps /\ batch # {}
  BY DEF CollectBatch, Suspended, IInv, TypeOK, StepsGrow
<1>2. Cardinality(batch) \in Nat /\ Cardinality(batch) > 0
  BY <1>1, BatchSize DEF IInv
<1>3. steps' = steps + Cardinality(batch)
  BY DEF CollectBatch, Counted
<1> QED  BY <1>1, <1>2, <1>3, StepsAssumption DEF StepsLeft

\* Apart from that, where run() is suspended or ended is later than where it was.
LEMMA StagesAdvance ==
    ASSUME UNCHANGED steps,
           \/ pc = "saving" /\ pc' \in {"saved"} \cup Ended
           \/ pc = "saved" /\ pc' \in {"loop", "writeback"} \cup Ended
           \/ pc = "loop" /\ pc' \in {"running", "writeback"}
           \/ pc = "running" /\ pc' \in Ended
           \/ pc = "writeback" /\ pc' \in Ended
    PROVE  Advances
<1>1. StepsLeft' = StepsLeft
  BY DEF StepsLeft
<1>2. Stage' < Stage
  BY DEF Stage, Ended
<1> QED  BY <1>1, <1>2 DEF Advances

\* A call of a node function that ends is followed by fewer.
LEMMA NodeStepsAdvance ==
    ASSUME IInv, NEW n \in Nodes, NodeStep(n)
    PROVE  Advances
<1>1. /\ UNCHANGED <<graph, pc, steps, batch, writeback, closed>>
      /\ branch[n] = "running"
  BY DEF NodeStep, AttemptReturns, AttemptRaises, loopVars, memoryVars
<1>2. n \in batch /\ branch \in [Nodes -> BranchStates] /\ tries \in [Nodes -> Nat]
      /\ graph.retries \in [graph.nodes -> Nat] /\ batch \subseteq graph.nodes
  BY <1>1, GraphFacts DEF IInv, TypeOK, BranchesFitPC
<1>3. tries[n] \in Nat /\ Budget(n) \in Nat /\ tries[n] <= Budget(n)
  BY <1>2 DEF IInv, RetriesExact, Attempts, Budget
<1>4. \A m : Budget(m)' = Budget(m)
  BY <1>1 DEF Budget, Attempts
<1>5. /\ \A m \in Nodes \ {n} : branch'[m] = branch[m] /\ tries'[m] = tries[m]
      /\ \/ branch'[n] # "running"
         \/ branch'[n] = "running" /\ tries'[n] = tries[n] + 1
  BY <1>1, <1>2 DEF NodeStep, AttemptReturns, AttemptRaises
<1>6. batch \subseteq Nodes
  BY <1>2, GraphFacts DEF IInv, TypeOK
<1>7. Calls' \subseteq Calls
  <2> SUFFICES ASSUME NEW m \in batch, branch'[m] = "running",
                      NEW k \in tries'[m]..Budget(m)
               PROVE  branch[m] = "running" /\ k \in tries[m]..Budget(m)
    BY <1>1, <1>4 DEF Calls
  <2>1. CASE m # n
    BY <1>5, <1>6, <2>1
  <2>2. CASE m = n
    BY <1>1, <1>3, <1>5, <2>2
  <2> QED  BY <2>1, <2>2
<1>8. <<n, tries[n]>> \in Calls
  BY <1>1, <1>2, <1>3 DEF Calls
<1>9. <<n, tries[n]>> \notin Calls'
  <2> SUFFICES ASSUME branch'[n] = "running", tries[n] \in tries'[n]..Budget(n)'
               PROVE  FALSE
    BY DEF Calls
  <2> QED  BY <1>3, <1>4, <1>5
<1>10. StepsLeft' = StepsLeft /\ Chores' = Chores
  BY <1>1 DEF StepsLeft, Chores
<1> QED  BY <1>1, <1>7, <1>8, <1>9, <1>10 DEF Advances

\* A bank that is written back, and one that is heard of, is a chore less.
LEMMA BankStepsAdvance ==
    ASSUME IInv, NEW b \in Banks, WriteBack(b) \/ IngestEnds(b)
    PROVE  Advances
<1>1. /\ UNCHANGED <<graph, pc, steps, batch, branch, tries, closed>>
      /\ writeback \in [Banks -> WritebackStates]
  BY DEF WriteBack, IngestEnds, IInv, TypeOK, loopVars, batchVars
<1>2. StepsLeft' = StepsLeft /\ Calls' = Calls
  BY <1>1 DEF StepsLeft, Calls, Budget, Attempts
<1>3. \A c \in Banks \ {b} : writeback'[c] = writeback[c]
  BY <1>1 DEF WriteBack, IngestEnds
<1>4. CASE WriteBack(b)
  <2>1. writeback[b] = "todo" /\ writeback'[b] \in {"spawned", "awaited"}
    BY <1>1, <1>4 DEF WriteBack
  <2>2. Chores' \subseteq Chores
    BY <1>3, <2>1 DEF Chores
  <2>3. <<b, "start">> \in Chores /\ <<b, "start">> \notin Chores'
    BY <2>1 DEF Chores
  <2> QED  BY <1>1, <1>2, <2>2, <2>3 DEF Advances
<1>5. CASE IngestEnds(b)
  <2>1. /\ writeback[b] \in {"spawned", "awaited"}
        /\ writeback'[b] \in {"ingested", "failed"}
    BY <1>1, <1>5 DEF IngestEnds
  <2>2. Chores' \subseteq Chores
    BY <1>3, <2>1 DEF Chores
  <2>3. <<b, "end">> \in Chores /\ <<b, "end">> \notin Chores'
    BY <2>1 DEF Chores
  <2> QED  BY <1>1, <1>2, <2>2, <2>3 DEF Advances
<1> QED  BY <1>4, <1>5

\* Closing the event loop leaves nothing new to do.
LEMMA ClosingAdvances ==
    ASSUME IInv, LoopCloses
    PROVE  Advances
<1>1. UNCHANGED <<graph, pc, steps, batch, tries>> /\ ~closed /\ closed'
  BY DEF LoopCloses, loopVars
<1>2. StepsLeft' = StepsLeft
  BY <1>1 DEF StepsLeft
<1>3. \A n \in batch : branch'[n] = "running" => branch[n] = "running"
  <2>1. batch \subseteq Nodes
    BY GraphFacts DEF IInv, TypeOK
  <2> QED  BY <2>1 DEF LoopCloses, Abandoned
<1>4. Calls' \subseteq Calls
  BY <1>1, <1>3 DEF Calls, Budget, Attempts
<1>5. Chores' \subseteq Chores
  BY DEF LoopCloses, Chores
<1> QED  BY <1>1, <1>2, <1>4, <1>5 DEF Advances

LEMMA AdvancesNext == IInv /\ [Next]_vars => [Advances]_vars
<1> SUFFICES ASSUME IInv, Next, vars' # vars PROVE Advances
  OBVIOUS
<1> USE DEF Ended, Suspended, loopVars
<1>1. CASE CollectBatch
  BY <1>1, CollectAdvances DEF Advances
<1>2. CASE StartBatch \/ LeaveLoop
  BY <1>2, StagesAdvance DEF StartBatch, LeaveLoop
<1>3. CASE SaveCommits \/ SaveRaises
  BY <1>3, StagesAdvance DEF SaveCommits, SaveRaises, SaveFails
<1>4. CASE CompleteAtExit \/ CompleteAndRoute \/ RoutingRaises
  BY <1>4, StagesAdvance DEF CompleteAtExit, CompleteAndRoute, RoutingRaises
<1>5. CASE BatchRaises \/ Return
  BY <1>5, StagesAdvance DEF BatchRaises, BatchFails, Return
<1>6. CASE Cancel \/ FailureOutrunsCancel
  BY <1>6, StagesAdvance DEF Cancel, FailureOutrunsCancel
<1>7. CASE Rest
  BY <1>7 DEF Rest
<1> QED
  BY <1>1, <1>2, <1>3, <1>4, <1>5, <1>6, <1>7, NodeStepsAdvance, BankStepsAdvance,
     ClosingAdvances DEF Next, RunStep

\* Nothing starts after the exit, nothing changes after the end, and no step of a
\* run, whatever fails or is cancelled, leaves it as much to do as it had.
THEOREM RunsGoOnward == Spec => OnlyOnward
<1>1. IInv /\ [Next]_vars => [EndStays /\ Advances]_vars
  BY EndStaysNext, AdvancesNext
<1> QED  BY <1>1, InductiveInvariant, PTL DEF Spec, OnlyOnward

\* What there is to do is finite, so that it cannot get less for ever.
THEOREM WorkIsFinite ==
    Spec => [](StepsLeft \in Nat /\ Stage \in 0..5 /\ IsFiniteSet(Calls) /\ IsFiniteSet(Chores))
<1> DEFINE Finite == /\ StepsLeft \in Nat /\ Stage \in 0..5
                     /\ IsFiniteSet(Calls) /\ IsFiniteSet(Chores)
<1>1. IInv => Finite
  <2> SUFFICES ASSUME IInv PROVE Finite
    OBVIOUS
  <2>1. StepsLeft \in Nat /\ Stage \in 0..5
    BY StepsAssumption DEF IInv, TypeOK, StepsLeft, Stage
  <2>2. IsFiniteSet(Calls)
    <3> DEFINE R == {m \in batch : branch[m] = "running"}
               CallsOf(n) == {n} \X (tries[n]..Budget(n))
               f == [n \in R |-> CallsOf(n)]
               All == {CallsOf(n) : n \in R}
    <3>1. /\ IsFiniteSet(batch) /\ tries \in [Nodes -> Nat]
          /\ graph.retries \in [graph.nodes -> Nat]
          /\ batch \subseteq graph.nodes /\ graph.nodes \subseteq Nodes
      BY BatchSize, GraphFacts DEF IInv, TypeOK
    <3>2. IsFiniteSet(R)
      BY <3>1, FS_Subset
    <3>3. \A n \in R : IsFiniteSet(CallsOf(n))
      <4> TAKE n \in R
      <4>1. tries[n] \in Int /\ Budget(n) \in Int
        BY <3>1 DEF Budget, Attempts
      <4>2. IsFiniteSet(tries[n]..Budget(n)) /\ IsFiniteSet({n})
        BY <4>1, FS_Interval, FS_Singleton
      <4> QED  BY <4>2, FS_Product
    <3>4. f \in Surjection(R, All)
      BY DEF Surjection
    <3>5. IsFiniteSet(All)
      <4> HIDE DEF f, All, R
      <4> QED  BY <3>2, <3>4, FS_Surjection
    <3>6. Calls = UNION All
      BY DEF Calls
    <3>7. \A S \in All : IsFiniteSet(S)
      BY <3>3
    <3> HIDE DEF All
    <3> QED  BY <3>5, <3>6, <3>7, FS_UNION
  <2>3. IsFiniteSet(Chores)
    <3>1. IsFiniteSet(Banks \X {"start"}) /\ IsFiniteSet(Banks \X {"end"})
      BY BanksAssumption, FS_Singleton, FS_Product
    <3>2. IsFiniteSet((Banks \X {"start"}) \cup (Banks \X {"end"}))
      BY <3>1, FS_Union
    <3>3. Chores \subseteq (Banks \X {"start"}) \cup (Banks \X {"end"})
      BY DEF Chores
    <3> QED  BY <3>2, <3>3, FS_Subset
  <2> QED  BY <2>1, <2>2, <2>3
<1> QED  BY <1>1, InductiveInvariant, PTL

\* asyncio.gather (114) never waits for nothing: it has all results or a failure
\* to hand over, or a branch of the batch still runs.
THEOREM GatherIsNotStuck ==
    Spec => [](pc = "running" => \/ AllIn
                                 \/ \E n \in batch : branch[n] \in {"running", "failed"})
<1>1. IInv => (pc = "running" => \/ AllIn
                                 \/ \E n \in batch : branch[n] \in {"running", "failed"})
  <2>1. ASSUME IInv, pc = "running", NEW n \in batch
        PROVE  branch[n] \in {"returned", "running", "failed"}
    BY <2>1, GraphFacts DEF IInv, TypeOK, BranchStates, BranchesFitPC
  <2> QED  BY <2>1 DEF AllIn
<1> QED  BY <1>1, InductiveInvariant, PTL

-------------------------------------------------------------------------------
\* The run implements the contract: every step is a step of RunContract on the
\* mapped variables, or leaves them as they are.

LEMMA ContractInit == Init => RC!CInit
BY DEF Init, RC!CInit, EmptyState, Outcome, Ended

LEMMA ContractNext == IInv /\ [Next]_vars => [RC!CNext]_(RC!contractVars)
<1> SUFFICES ASSUME IInv, [Next]_vars
             PROVE  RC!CNext \/ UNCHANGED RC!contractVars
  OBVIOUS
<1> USE DEF Outcome, Ended, Suspended, RC!contractVars, loopVars, eventVars, RC!CNext
<1>1. CASE CollectBatch
  <2>1. /\ pc = "running" /\ pc' = "saving" /\ UNCHANGED <<ckpt, completed, batch, at>>
        /\ state'.applied = state.applied \cup (batch \X {at})
    BY <1>1 DEF CollectBatch, MergedState
  <2>2. completed = state.applied /\ batch # {} /\ \A e \in completed : e[2] < at
    BY <2>1 DEF IInv, InStep, StepsGrow
  <2>3. state'.applied \in SUBSET Executions
    BY <1>1, TypeNext DEF IInv, TypeOK, States
  <2>4. state'.applied # state.applied
    <3>1. PICK n \in batch : TRUE
      BY <2>2
    <3>2. at \in Nat
      BY DEF IInv, TypeOK
    <3>3. <<n, at>> \in state'.applied /\ <<n, at>> \notin completed
      BY <2>1, <2>2, <3>1, <3>2
    <3> QED  BY <2>2, <3>3
  <2>5. RC!Apply
    BY <2>1, <2>2, <2>3, <2>4 DEF RC!Apply
  <2> QED  BY <2>5
<1>2. CASE SaveCommits
  <2>1. RC!Persist
    BY <1>2 DEF SaveCommits, Saved, RC!Persist
  <2> QED  BY <2>1
<1>3. CASE CompleteAtExit \/ CompleteAndRoute
  <2>1. RC!Announce
    BY <1>3 DEF CompleteAtExit, CompleteAndRoute, IInv, InStep, RC!Announce
  <2> QED  BY <2>1
<1>4. CASE RoutingRaises
  <2>1. RC!Break
    BY <1>4 DEF RoutingRaises, IInv, InStep, RC!Break
  <2> QED  BY <2>1
<1>5. CASE BatchRaises \/ SaveRaises \/ Cancel \/ FailureOutrunsCancel
  <2>1. RC!Break
    BY <1>5 DEF BatchRaises, BatchFails, SaveRaises, SaveFails, Cancel,
       FailureOutrunsCancel, RC!Break
  <2> QED  BY <2>1
<1>6. CASE Return
  <2>1. RC!Finish
    BY <1>6 DEF Return, IInv, InStep, RC!Finish
  <2> QED  BY <2>1
<1>7. CASE StartBatch \/ LeaveLoop
  BY <1>7 DEF StartBatch, LeaveLoop
<1>8. CASE UNCHANGED <<pc, state, ckpt, completed>>
  BY <1>8
<1> QED
  BY <1>1, <1>2, <1>3, <1>4, <1>5, <1>6, <1>7, <1>8
  DEF Next, RunStep, NodeStep, AttemptReturns, AttemptRaises, WriteBack, IngestEnds,
      LoopCloses, Rest, vars

\* Whole batches, durable before announced, announced before the next; an
\* outcome is final and "returned" leaves nothing undone.
THEOREM RunImplementsContract == Spec => KeepsContract
<1>1. Spec => RC!CInit /\ [][RC!CNext]_(RC!contractVars)
  BY ContractInit, ContractNext, InductiveInvariant, PTL DEF Spec
<1> QED  BY <1>1 DEF KeepsContract, RC!Contract
===============================================================================
