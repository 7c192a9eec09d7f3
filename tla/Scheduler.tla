------------------------------- MODULE Scheduler -------------------------------
(***************************************************************************)
(* Scheduler.run (src/fleet/core/scheduler.py): one run of a CompiledGraph *)
(* in an asyncio event loop.                                               *)
(*                                                                         *)
(* An action is what the run's task, or one of the node tasks gather made, *)
(* does between two points at which the event loop may take over.  Emitting*)
(* an event is no such point: the subscribers the repository installs put  *)
(* the event in an unbounded queue or print it, and do not raise.          *)
(*                                                                         *)
(* An execution is a pair <<node, step>>, step being the value of `steps`  *)
(* when its batch started (the "step" field of its node_start event).  A   *)
(* GraphState is reduced to the executions whose messages it holds and to  *)
(* its scratchpad, whose values are the executions that wrote them.        *)
(***************************************************************************)
EXTENDS FleetGraph, FiniteSets

CONSTANTS
    Nodes,      \* every node name of the graphs below
    Graphs,     \* the compiled graphs a run may be given
    MaxSteps,   \* CompiledGraph.max_steps
    Keys,       \* scratchpad keys
    Absent,     \* a scratchpad key that is not there
    Banks,      \* memory banks of the graph's agents that have both LLMs set
    AsyncBanks, \* those whose async_writeback is True
    OneShot     \* the loop may be that of asyncio.run(graph.run(...)) and close

ASSUME NodesAssumption == Nodes \subseteq Nat /\ IsFiniteSet(Nodes)
ASSUME GraphsAssumption == \A g \in Graphs : Compiled(g) /\ g.nodes \subseteq Nodes
ASSUME StepsAssumption == MaxSteps \in Nat
ASSUME BanksAssumption == AsyncBanks \subseteq Banks /\ IsFiniteSet(Banks)
ASSUME OneShotAssumption == OneShot \in BOOLEAN

Executions == Nodes \X Nat

VARIABLES
    graph,        \* Scheduler.graph
    pc,           \* where the coroutine run() is suspended, or how it ended
    current,      \* the frontier
    batch,        \* node_list
    at,           \* `steps` when the batch was started
    steps,        \* node executions counted against max_steps
    state,        \* the GraphState in run()'s local variable
    branch,       \* per node of the batch: how its _run_node is doing
    tries,        \* per node of the batch: calls of node.fn so far
    result,       \* per node of the batch: the scratchpad it returned
    ckpt,         \* what the checkpoint backend holds for this run_id
    started,      \* executions announced by node_start
    completed,    \* executions announced by node_complete
    terminatedBy, \* state.metadata["terminated_by"]
    writeback,    \* per bank: ingest_trajectory of this run
    registered,   \* _EVENT_BUS_REGISTRY has the run's bus
    closed        \* the event loop has been shut down

vars == <<graph, pc, current, batch, at, steps, state, branch, tries, result,
          ckpt, started, completed, terminatedBy, writeback, registered, closed>>
batchVars == <<branch, tries, result>>
loopVars == <<current, batch, at, steps>>
eventVars == <<started, completed>>
memoryVars == <<writeback, registered>>

Scratchpads == [Keys -> Executions \cup {Absent}]
States == [applied : SUBSET Executions, scratch : Scratchpads]
EmptyState == [applied |-> {}, scratch |-> [k \in Keys |-> Absent]]

Suspended == {"running", "saving", "saved"}
Ended == {"returned", "raised", "cancelled"}
BranchStates == {"idle", "running", "returned", "failed", "cancelled"}
WritebackStates == {"todo", "spawned", "awaited", "ingested", "failed", "lost"}

TypeOK ==
    /\ graph \in Graphs
    /\ pc \in {"loop", "writeback"} \cup Suspended \cup Ended
    /\ current \in SUBSET graph.nodes
    /\ batch \in SUBSET graph.nodes
    /\ at \in Nat
    /\ steps \in Nat
    /\ state \in States
    /\ branch \in [Nodes -> BranchStates]
    /\ tries \in [Nodes -> Nat]
    /\ result \in [Nodes -> Scratchpads]
    /\ ckpt \in States
    /\ started \in SUBSET Executions
    /\ completed \in SUBSET Executions
    /\ terminatedBy \in {"unset", "exit_node", "max_steps"}
    /\ writeback \in [Banks -> WritebackStates]
    /\ registered \in BOOLEAN
    /\ closed \in BOOLEAN

-------------------------------------------------------------------------------
Init ==
    /\ graph \in Graphs
    /\ pc = "loop"
    /\ current = {graph.entry}
    /\ batch = {}
    /\ at = 0
    /\ steps = 0
    /\ state = EmptyState
    /\ branch = [n \in Nodes |-> "idle"]
    /\ tries = [n \in Nodes |-> 0]
    /\ result = [n \in Nodes |-> EmptyState.scratch]
    /\ ckpt = EmptyState
    /\ started = {}
    /\ completed = {}
    /\ terminatedBy = "unset"
    /\ writeback = [b \in Banks |-> "todo"]
    /\ registered = FALSE
    /\ closed = FALSE

\* Variants of definitions below, with the slip their names say.
MayStart_OffByOne == current # {} /\ steps <= MaxSteps

MayStart == current # {} /\ steps < MaxSteps

\* One turn of the while loop up to its first suspension: node_start for the
\* whole frontier, then every _run_node has called its function once.
StartBatch ==
    /\ pc = "loop"
    /\ MayStart
    /\ pc' = "running"
    /\ batch' = current
    /\ current' = {}
    /\ at' = steps
    /\ branch' = [n \in Nodes |-> IF n \in current THEN "running" ELSE "idle"]
    /\ tries' = [n \in Nodes |-> IF n \in current THEN 1 ELSE 0]
    /\ started' = started \cup (current \X {steps})
    /\ registered' = TRUE
    /\ UNCHANGED <<graph, steps, state, result, ckpt, completed, terminatedBy,
                   writeback, closed>>

\* node.fn returns: the input scratchpad with some keys set by this execution.
AttemptReturns(n) ==
    /\ branch[n] = "running"
    /\ branch' = [branch EXCEPT ![n] = "returned"]
    /\ \E W \in SUBSET Keys :
          result' = [result EXCEPT ![n] =
              [k \in Keys |-> IF k \in W THEN <<n, at>> ELSE state.scratch[k]]]
    /\ UNCHANGED <<graph, pc, loopVars, state, tries, ckpt, eventVars,
                   terminatedBy, memoryVars, closed>>

Budget(n) == Attempts(graph, n)

\* node.fn raises: _run_node calls it again with the same input or gives up.
AttemptRaises(n) ==
    /\ branch[n] = "running"
    /\ IF tries[n] < Budget(n)
         THEN tries' = [tries EXCEPT ![n] = @ + 1] /\ UNCHANGED branch
         ELSE branch' = [branch EXCEPT ![n] = "failed"] /\ UNCHANGED tries
    /\ UNCHANGED <<graph, pc, loopVars, state, result, ckpt, eventVars,
                   terminatedBy, memoryVars, closed>>

\* gather has a result from every _run_node.
AllIn == \A n \in batch : branch[n] = "returned"

Highest(S) == CHOOSE n \in S : \A m \in S : m <= n

\* The scratchpad _merge_states makes: base, then each branch's scratchpad
\* over it in the order of the names.  For a batch of one it is the result.
MergedScratch ==
    [k \in Keys |->
        LET holders == {n \in batch : result[n][k] # Absent}
        IN  IF holders = {} THEN state.scratch[k] ELSE result[Highest(holders)][k]]

MergedState_LastBranch ==
    [applied |-> state.applied \cup {<<Highest(batch), at>>}, scratch |-> MergedScratch]

MergedState ==
    [applied |-> state.applied \cup (batch \X {at}), scratch |-> MergedScratch]

Counted_FanOutsOnly == IF Cardinality(batch) = 1 THEN steps ELSE steps + Cardinality(batch)

Counted == steps + Cardinality(batch)

\* Every branch has returned: merge, count the steps, call backend.save.
CollectBatch ==
    /\ pc = "running"
    /\ AllIn
    /\ pc' = "saving"
    /\ state' = MergedState
    /\ steps' = Counted
    /\ UNCHANGED <<graph, current, batch, at, batchVars, ckpt, eventVars,
                   terminatedBy, memoryVars, closed>>

\* A branch has failed: where run() goes and what it leaves in the registry.
BatchFails(next, bus) ==
    /\ pc = "running"
    /\ \E n \in batch : branch[n] = "failed"
    /\ pc' = next
    /\ registered' = bus
    /\ UNCHANGED <<graph, loopVars, state, batchVars, ckpt, eventVars,
                   terminatedBy, writeback, closed>>

BatchRaises_PopsBus == BatchFails("raised", FALSE)
BatchRaises_WritesBack == BatchFails("writeback", registered)

\* The first exception of a branch ends run(); the other branches are neither
\* awaited nor cancelled, and the registry keeps the bus.
BatchRaises == BatchFails("raised", registered)

Saved == state

\* The backend has made the row durable; run() has yet to hear of it.
SaveCommits ==
    /\ pc = "saving"
    /\ pc' = "saved"
    /\ ckpt' = Saved
    /\ UNCHANGED <<graph, loopVars, state, batchVars, eventVars, terminatedBy,
                   memoryVars, closed>>

SaveFails(next) ==
    /\ pc \in {"saving", "saved"}
    /\ pc' = next
    /\ UNCHANGED <<graph, loopVars, state, batchVars, ckpt, eventVars,
                   terminatedBy, memoryVars, closed>>

SaveRaises_Swallowed == SaveFails("saved")

\* backend.save raises, before the row is durable or after it (a reply lost).
SaveRaises == SaveFails("raised")

ReachedExit_Alone == batch = {graph.exit}

ReachedExit == graph.exit \in batch

\* save returned: node_complete for the whole batch, and the exit node was in it.
CompleteAtExit ==
    /\ pc = "saved"
    /\ ReachedExit
    /\ pc' = "writeback"
    /\ completed' = completed \cup (batch \X {at})
    /\ terminatedBy' = "exit_node"
    /\ UNCHANGED <<graph, loopVars, state, batchVars, ckpt, started, memoryVars,
                   closed>>

Outgoing(E) == {e \in E : e[1] \in batch}

Frontier_Everyone(chosen) == graph.nodes

\* _get_next_nodes over the batch: the edges without a condition and those
\* whose condition held.
Frontier(chosen) == {e[2] : e \in Outgoing(graph.always) \cup chosen}

\* save returned: node_complete for the whole batch, then the next frontier.
CompleteAndRoute ==
    /\ pc = "saved"
    /\ ~ReachedExit
    /\ pc' = "loop"
    /\ completed' = completed \cup (batch \X {at})
    /\ \E chosen \in SUBSET Outgoing(graph.cond) : current' = Frontier(chosen)
    /\ UNCHANGED <<graph, batch, at, steps, state, batchVars, ckpt, started,
                   terminatedBy, memoryVars, closed>>

\* The same, but an edge's condition raises.
RoutingRaises ==
    /\ pc = "saved"
    /\ ~ReachedExit
    /\ Outgoing(graph.cond) # {}
    /\ pc' = "raised"
    /\ completed' = completed \cup (batch \X {at})
    /\ UNCHANGED <<graph, loopVars, state, batchVars, ckpt, started,
                   terminatedBy, memoryVars, closed>>

EndedBy_DeadEnd ==
    CASE steps >= MaxSteps -> "max_steps" [] current = {} -> "dead_end"
      [] OTHER -> terminatedBy

EndedBy_Frontier == IF current # {} THEN "max_steps" ELSE terminatedBy

EndedBy == IF steps >= MaxSteps THEN "max_steps" ELSE terminatedBy

\* The while condition is false: the else branch.
LeaveLoop ==
    /\ pc = "loop"
    /\ ~MayStart
    /\ pc' = "writeback"
    /\ terminatedBy' = EndedBy
    /\ UNCHANGED <<graph, loopVars, state, batchVars, ckpt, eventVars,
                   memoryVars, closed>>

-------------------------------------------------------------------------------
\* _run_memory_writebacks.

AwaitingBank == \E b \in Banks : writeback[b] = "awaited"

\* The next bank: a task of its own, or awaited here.
WriteBack(b) ==
    /\ pc = "writeback"
    /\ ~AwaitingBank
    /\ writeback[b] = "todo"
    /\ writeback' = [writeback EXCEPT ![b] =
                        IF b \in AsyncBanks THEN "spawned" ELSE "awaited"]
    /\ UNCHANGED <<graph, pc, loopVars, state, batchVars, ckpt, eventVars,
                   terminatedBy, registered, closed>>

\* ingest_trajectory returns, or raises and is logged.
IngestEnds(b) ==
    /\ writeback[b] \in {"spawned", "awaited"}
    /\ \E r \in {"ingested", "failed"} : writeback' = [writeback EXCEPT ![b] = r]
    /\ UNCHANGED <<graph, pc, loopVars, state, batchVars, ckpt, eventVars,
                   terminatedBy, registered, closed>>

WrittenBack == \A b \in Banks : writeback[b] \notin {"todo", "awaited"}

\* The last bank is done with: drop the bus and return the state.
Return ==
    /\ pc = "writeback"
    /\ WrittenBack
    /\ pc' = "returned"
    /\ registered' = FALSE
    /\ UNCHANGED <<graph, loopVars, state, batchVars, ckpt, eventVars,
                   terminatedBy, writeback, closed>>

-------------------------------------------------------------------------------
\* The run's environment.

Abandoned == [n \in Nodes |-> IF branch[n] = "running" THEN "cancelled" ELSE branch[n]]

\* Cancelling the run cancels the node tasks, unless gather's future is already
\* done with a branch's exception.
AfterCancel == IF \E n \in batch : branch[n] = "failed" THEN branch ELSE Abandoned

\* task.cancel() on the run's task while it is suspended: CancelledError is
\* raised at the await, and nothing in run() catches it.
Cancel ==
    /\ pc \in Suspended \/ (pc = "writeback" /\ AwaitingBank)
    /\ pc' = "cancelled"
    /\ branch' = AfterCancel
    /\ writeback' = [b \in Banks |->
                        IF writeback[b] = "awaited" THEN "lost" ELSE writeback[b]]
    /\ UNCHANGED <<graph, loopVars, state, tries, result, ckpt, eventVars,
                   terminatedBy, registered, closed>>

\* The same before gather has heard of the branch that failed: the others are
\* cancelled, and it is the failure that run() gets.
FailureOutrunsCancel ==
    /\ pc = "running"
    /\ \E n \in batch : branch[n] = "failed"
    /\ \E n \in batch : branch[n] = "running"
    /\ pc' = "raised"
    /\ branch' = Abandoned
    /\ UNCHANGED <<graph, loopVars, state, tries, result, ckpt, eventVars,
                   terminatedBy, memoryVars, closed>>

\* asyncio.run cancels whatever is left when its coroutine has ended.
LoopCloses ==
    /\ OneShot
    /\ pc \in Ended
    /\ ~closed
    /\ closed' = TRUE
    /\ branch' = Abandoned
    /\ writeback' = [b \in Banks |->
                        IF writeback[b] = "spawned" THEN "lost" ELSE writeback[b]]
    /\ UNCHANGED <<graph, pc, loopVars, state, tries, result, ckpt, eventVars,
                   terminatedBy, registered>>

\* Everything has come to rest.
Rest ==
    /\ pc \in Ended
    /\ OneShot => closed
    /\ \A n \in Nodes : branch[n] # "running"
    /\ \A b \in Banks : writeback[b] \notin {"spawned", "awaited"}
    /\ UNCHANGED vars

RunStep ==
    \/ StartBatch
    \/ CollectBatch
    \/ BatchRaises
    \/ SaveCommits
    \/ SaveRaises
    \/ CompleteAtExit
    \/ CompleteAndRoute
    \/ RoutingRaises
    \/ LeaveLoop
    \/ \E b \in Banks : WriteBack(b)
    \/ Return

NodeStep(n) == AttemptReturns(n) \/ AttemptRaises(n)

Next ==
    \/ RunStep
    \/ \E n \in Nodes : NodeStep(n)
    \/ \E b \in Banks : IngestEnds(b)
    \/ Cancel
    \/ FailureOutrunsCancel
    \/ LoopCloses
    \/ Rest

Spec == Init /\ [][Next]_vars

\* The event loop resumes whatever is ready; a node function and an ingestion
\* return or raise some day (LLM calls time out).  The loop may stay open.
Fairness ==
    /\ WF_vars(RunStep)
    /\ \A n \in Nodes : WF_vars(NodeStep(n))
    /\ \A b \in Banks : WF_vars(IngestEnds(b))

FairSpec == Spec /\ Fairness

-------------------------------------------------------------------------------
\* What holds of every run.

\* A run starts nothing once max_steps executions are counted, so the count
\* passes max_steps by less than one fan-out (the check in `while` is made
\* per batch, the count goes up by the size of the batch).
StepsBounded ==
    /\ steps <= MaxSteps \/ steps < MaxSteps + Cardinality(graph.nodes)
    /\ \A e \in started : e[2] < MaxSteps

\* No subscriber is told of a completion the checkpoint does not hold, and the
\* checkpoint never holds what the run's own state does not.
CheckpointCoversAnnounced == completed \subseteq ckpt.applied /\ ckpt.applied \subseteq state.applied

\* A batch takes effect as a whole: whatever fails, is retried, cancelled or
\* left running, the state and the checkpoint hold all of a batch or none of it.
BatchAtomic ==
    \A e, f \in started : e[2] = f[2] =>
        /\ e \in state.applied <=> f \in state.applied
        /\ e \in ckpt.applied <=> f \in ckpt.applied

\* A run that returns has announced, applied and persisted exactly what it
\* started.
ReturnAccountsForAll ==
    pc = "returned" =>
        /\ completed = started
        /\ state.applied = started
        /\ ckpt.applied = started

\* No branch of a batch is lost or counted early, from its merge to the return.
BatchesAccounted == BatchAtomic /\ ReturnAccountsForAll

\* terminated_by tells the truth about a run that returned: the exit node
\* completed, or the budget was used up without it, or the frontier was empty.
TerminatedByTruthful ==
    pc \in {"writeback", "returned"} =>
        /\ terminatedBy = "exit_node" <=> \E e \in completed : e[1] = graph.exit
        /\ terminatedBy = "max_steps" => steps >= MaxSteps
        /\ terminatedBy = "unset" => current = {} /\ steps < MaxSteps

\* A node other than the entry runs only when an edge that leads to it leaves
\* a node that completed before.
StartsFollowEdges ==
    \A e \in started : \/ e = <<graph.entry, 0>>
                       \/ \E f \in completed : /\ f[2] < e[2]
                                               /\ <<f[1], e[1]>> \in Edges(graph)

\* A node gives up only after max(retries, 1) calls, and is called no oftener.
RetriesExact ==
    \A n \in batch : /\ tries[n] \in 1..Attempts(graph, n)
                     /\ branch[n] = "failed" => tries[n] = Attempts(graph, n)

\* The two budgets hold together: of steps over batches of any width, and of
\* calls over the attempts of each node in them.
BudgetsHold == StepsBounded /\ RetriesExact

\* A run that has ended leaves a node running only if a sibling's failure ended
\* the batch: cancelling and returning leave none.
OrphansOnlyAfterFailure ==
    pc \in Ended /\ (\E n \in Nodes : branch[n] = "running") =>
        \E n \in batch : branch[n] = "failed"

\* A node that still runs, an orphan of a failed batch included, finds the
\* run's event bus in the registry.
BusWhileRunning == (\E n \in Nodes : branch[n] = "running") => registered

\* What is left running behind a run that ended can be explained by a failure
\* and can still reach its subscribers.
OrphansAccounted == OrphansOnlyAfterFailure /\ BusWhileRunning

\* Memory banks are given the trajectory only by a run that got past its loop,
\* when nothing of it is still running.
WritebackAfterLoop ==
    (\E b \in Banks : writeback[b] # "todo") =>
        completed = started /\ \A n \in Nodes : branch[n] # "running"

\* A bank that is not written back in the background has taken the trajectory
\* in, or said that it could not, when run() returns.
SyncWritebackDone ==
    pc = "returned" => \A b \in Banks \ AsyncBanks : writeback[b] \in {"ingested", "failed"}

\* The writeback stands between the last node and the return: no bank is given a
\* trajectory that still grows, and no synchronous bank is left behind.
WritebackOrdered == WritebackAfterLoop /\ SyncWritebackDone

\* Once the exit node has completed no node starts, and what a run that has
\* ended wrote stays as it is although orphans go on.
EndStays ==
    /\ (\E e \in completed : e[1] = graph.exit) => started' = started
    /\ pc \in Ended => UNCHANGED <<pc, state, ckpt, steps, eventVars>>

\* What a run has still to do: the batches its budget allows, the stages of the
\* batch it is in, the calls of node functions that are under way or may follow,
\* the banks to write back and those to hear of.
StepsLeft == IF steps < MaxSteps THEN MaxSteps - steps ELSE 0
Stage ==
    CASE pc = "saving" -> 5 [] pc = "saved" -> 4 [] pc = "loop" -> 3
      [] pc = "running" -> 2 [] pc = "writeback" -> 1 [] OTHER -> 0
Calls == UNION {{n} \X (tries[n]..Budget(n)) : n \in {m \in batch : branch[m] = "running"}}
Chores == {<<b, "start">> : b \in {c \in Banks : writeback[c] = "todo"}}
            \cup {<<b, "end">> : b \in {c \in Banks : writeback[c] \in {"todo", "spawned", "awaited"}}}

\* A step uses up budget, or with the same budget goes on to a later stage, or in
\* the same stage leaves less to be done.
Advances ==
    \/ StepsLeft' < StepsLeft
    \/ StepsLeft' = StepsLeft /\ Stage' < Stage
    \/ /\ StepsLeft' = StepsLeft /\ pc' = pc
       /\ Calls' \subseteq Calls /\ Chores' \subseteq Chores /\ (closed => closed')
       /\ <<Calls, Chores, closed>>' # <<Calls, Chores, closed>>

\* A run only goes onward: its end is its end, and every step before or after it,
\* whatever fails, is retried, goes round in the graph, is cancelled or left
\* behind, leaves less to do.  What there is to do is finite, so no run goes on
\* for ever, however the event loop schedules it.
OnlyOnward == [][EndStays /\ Advances]_vars

\* Every run ends and comes to rest, its orphans and its background writebacks
\* too: the budget cuts every cycle, and retries are finite.
RunSettles ==
    <>[](/\ pc \in Ended
         /\ \A n \in Nodes : branch[n] # "running"
         /\ \A b \in Banks : writeback[b] \notin {"spawned", "awaited"})

-------------------------------------------------------------------------------
\* The contract a run implements, with the run's own state, checkpoint and
\* node_complete events for the contract's.
Outcome == IF pc \in Ended THEN pc ELSE "running"

RC == INSTANCE RunContract WITH
        Work <- Executions,
        applied <- state.applied,
        durable <- ckpt.applied,
        announced <- completed,
        outcome <- Outcome

\* Batches take effect whole, are durable before they are announced and are
\* announced before the next one takes effect; an outcome is final.
KeepsContract == RC!Contract

-------------------------------------------------------------------------------
\* What the documentation says of a run and the code does not do.

\* "collect new ... scratchpad writes from all parallel branches": a key that
\* one branch of the batch wrote has that branch's value after the merge.
BranchWritesSurvive ==
    pc = "saving" =>
        \A n \in batch, k \in Keys :
            /\ result[n][k] = <<n, at>>
            /\ \A m \in batch \ {n} : result[m][k] # <<m, at>>
            => state.scratch[k] = <<n, at>>

-------------------------------------------------------------------------------
\* The inductive invariant behind the properties above.

Active == {"loop"} \cup Suspended

\* What state, checkpoint and events hold of what was started, by pc.
InStep ==
    /\ pc \in {"loop", "writeback", "returned"} =>
          completed = started /\ state.applied = started /\ ckpt.applied = started
    /\ pc \in Suspended => started = completed \cup (batch \X {at})
    /\ pc = "running" => state.applied = completed /\ ckpt.applied = completed
    /\ pc = "saving" => state.applied = started /\ ckpt.applied = completed
    /\ pc = "saved" => state.applied = started /\ ckpt.applied = started

\* Batches are numbered by increasing step counts below max_steps.
StepsGrow ==
    /\ pc = "loop" => \A e \in started : e[2] < steps
    /\ pc \in Suspended => batch # {} /\ at < MaxSteps /\ \A e \in completed : e[2] < at
    /\ pc = "running" => steps = at
    /\ pc \in {"saving", "saved"} => at < steps

\* Where the frontier comes from, and that it is gone once the exit is reached.
FrontierIsJustified ==
    /\ pc = "loop" =>
          \A n \in current :
             \/ n = graph.entry /\ steps = 0
             \/ \E f \in completed : f[2] < steps /\ <<f[1], n>> \in Edges(graph)
    /\ pc \in Active => /\ terminatedBy = "unset"
                        /\ \A e \in completed : e[1] # graph.exit

\* Only nodes of the batch run, and only while run() waits for them or after it
\* has been ended; and what it waits for runs or has run.
BranchesFitPC ==
    /\ \A n \in Nodes : branch[n] # "idle" => n \in batch
    /\ pc \notin {"running", "raised", "cancelled"} =>
          \A n \in Nodes : branch[n] \in {"idle", "returned"}
    /\ pc = "running" => \A n \in batch : branch[n] \notin {"idle", "cancelled"}

\* A bank waits for the loop to end; one that is written back in line is
\* abandoned only by a cancellation.
BanksFitPC ==
    /\ pc \in Active => \A b \in Banks : writeback[b] = "todo"
    /\ \A b \in Banks : writeback[b] = "awaited" => pc = "writeback"
    /\ pc = "returned" => \A b \in Banks : writeback[b] # "todo"
    /\ \A b \in Banks \ AsyncBanks : /\ writeback[b] # "spawned"
                                     /\ writeback[b] = "lost" => pc = "cancelled"

\* Everything the safety properties above need, closed under every step.
IInv ==
    /\ TypeOK
    /\ InStep
    /\ StepsGrow
    /\ FrontierIsJustified
    /\ BranchesFitPC
    /\ BanksFitPC
    /\ StepsBounded
    /\ CheckpointCoversAnnounced
    /\ BatchAtomic
    /\ TerminatedByTruthful
    /\ StartsFollowEdges
    /\ RetriesExact
    /\ OrphansOnlyAfterFailure
    /\ BusWhileRunning
    /\ WritebackAfterLoop
===============================================================================
