# A formal model of bottensor-fleet

TLA+ modules that model the parts of bottensor-fleet that carry its logic, TLC
configurations that model-check them on small instances, and TLAPS proofs that
hold for every instance. File names are short: `scheduler.py` means
`src/fleet/core/scheduler.py`, `useFleetWS.ts` means `ui/src/hooks/useFleetWS.ts`,
and so on.

Check a model with `tlc -config MCScheduler_run.cfg MCScheduler.tla`, a proof
with `tlapm Scheduler_proofs.tla`.

## 1. The system

A program builds a `Graph` of async node functions, compiles it, and runs it: a
`Scheduler` walks the graph, calling nodes, in parallel where several are due,
merges the states they return, writes a checkpoint and emits events. Nodes are
usually `Agent.step`, which talks to an LLM and calls tools. After a run, memory
banks are given the trajectory. A FastAPI server starts runs as asyncio tasks,
cancels and restarts them on request and streams the events to a web UI.

The UI is a React program of one page: it starts and steers runs, draws and runs
graphs of its own, and edits the memory bank.

The server runs in one thread of an asyncio event loop, so control changes hands
only at an `await` that suspends; in the browser a callback runs to its end or to
its next `await`. All hard behaviour comes from what may happen at those points,
and from what lies between browser and server: requests and frames under way,
connections that break.

| Component | State | Operations | Talks to | What is hard |
|---|---|---|---|---|
| Graph, `compile()` (`core/graph.py`) | nodes, edges, entry, exit | `add_node`, `add_edge`, `set_entry`, `set_exit`, `compile` | hands a CompiledGraph to the scheduler | any order of calls; cyclic graphs; dangling references |
| Scheduler (`core/scheduler.py`) | frontier, `steps`, current GraphState | `run`, `_run_node`, `_merge_states`, `_get_next_nodes`, `_run_memory_writebacks` | node functions, checkpoint backend, EventBus, banks | fan-out with partial failure, retries, cancellation at any await, joins, the step budget |
| GraphState (`core/state.py`) | messages, scratchpad, metadata | three pure reducers, merge | passed from node to node | merging states that share a past |
| EventBus and registry (`core/scheduler.py`) | subscribers; run_id → bus | `subscribe`, `emit` | scheduler and agents → WebSocket handlers | registry entries outliving or missing a run |
| Checkpoint backends (`core/checkpoint.py`) | one row per run_id | `save`, `load`, `list_runs` | scheduler, CLI | a save that fails or is cancelled before or after it is durable |
| Run lifecycle (`server/routes.py`) | RunRecord: status, task, state, bus | create, from-spec, pause, resume, kill | starts and cancels scheduler tasks | requests that interleave at the await of the cancelled task |
| WebSocket handler (`server/ws.py`) | a queue per client | connect, deliver | subscribed to the run's bus | events before subscription, clients that wait for an end nobody reports |
| ReasoningBank (`memory/`) | items in a store | ingest (judge, distill, integrate), retrieve, add, delete, import, export | judge, induction and merge LLMs; store; embedder | read–await–write on shared items, failure half way through a list of candidates |
| Memory stores (`memory/stores/`) | items; for SQLite three tables | add, get, update, delete, search | bank | three tables in step; a search that filters after it has cut |
| MaTTS (`memory/matts.py`) | — | k parallel rollouts, contrast, integrate | graphs or agents, bank | a failed rollout |
| Agent, Planner, scratchpad memory (`agents/`) | conversation in the GraphState | `step`, `_dispatch` | LLM, tools, bank, bus registry | the conversation handed from node to node |
| Tools and skills (`tools/`, `skills/`) | registries | register, look up, call | agent | I/O |
| LLM provider (`providers/client.py`) | `_last_usage` | `complete` with retries | polyrt, anthropic, openai | sharing between parallel agents |
| GraphSpec (`graphspec/`) | condition registries | validate, load, export | graph builder | names that resolve to nothing |
| CLI (`cli.py`) | — | run, replay, ui, … | all of the above | sequential |
| Web UI, runs and streaming (`hooks/useFleetWS.ts`, `store/fleetStore.ts`, `components/RunControls.tsx`, `GraphCanvas.tsx`, `AgentPanel.tsx`, `App.tsx`) | active run; per run its status and log; per node its status; the hook's socket, back-off and `stoppedRef` | start, pause, resume, kill; connect, dispatch a frame, reconnect | server: HTTP and a WebSocket per run | closures of earlier runs sharing the hook's refs; frames lost or late; connections that break; a server that forgets its runs |
| Web UI, graph builder (`components/GraphBuilder.tsx`, `lib/graphSpec.ts`) | nodes and edges of the canvas, the selection, an id counter, a file being read | drop, connect, select, edit, remove by button or key, open, save, run | GraphSpec routes | ids that are handed out again, selections of a canvas that is gone, two validators in two languages |
| Web UI, memory tab (`components/MemoryTab.tsx`) | its copy of the bank, the draft of an edit | search, edit, save, delete, import | memory routes | answers in any order that patch a local copy; failures it does not look at |
| Web UI, entry and build (`main.tsx`, `vite.config.ts`, …) | — | mount | — | — |

What makes each correct, in the terms of the properties below: `compile()` lets through
exactly the graphs the scheduler can run; a run applies, persists and announces each
batch in that order and as a whole, ends, and says truthfully how; a run on the server
that is shown as running is being run, and an answered pause or kill is true; the bank
brings back no deleted memory and loses no count, link or text but of a memory that was
changed while the merge LLM was asked about it; the tables of a store agree, on disk
too; the conversation an agent leaves is one the next LLM call accepts. What the UI
shows of a run is true, in order, and in the end complete, if the run ends by itself;
what the builder hands out the server refuses only for what the builder does not look
at, and a saved graph reopens as it was; the memory tab's copy of the bank agrees with
the bank wherever the tab can know, and no text is saved as another memory's.

`PROJECT.json` lists the components with what is modelled of each, and the hazards
with their source lines.

## 2. The modules

| Module | Models | Kind |
|---|---|---|
| `FleetGraph` | what a compiled graph is: references, reachability, retries | operators |
| `GraphBuild` | the builder and `compile()` | component |
| `RunContract` | what a run promises to those who see its checkpoint, events and outcome | abstract specification |
| `Scheduler` | one run: `Scheduler.run` and all it calls | component, implements `RunContract` |
| `RunServer` | one RunRecord with its tasks, requests and WebSocket clients | component |
| `MemoryBank` | a memory store with the ingestions, retrievals and edits over it | component |
| `StoreContract` | what a persistent store promises to the bank over it | abstract specification |
| `MemoryStore` | `SQLiteVecStore`'s tables, search, and imports into it | component, implements `StoreContract` |
| `UiSession` | a browser session: store, hook, controls, connections, and the server's side of them | composition of UI and server |
| `GraphEditor` | the builder's canvas, its conversions from and to GraphSpec, and the server's validation | component |
| `MemoryPanel` | the memory tab, its requests, and the bank they reach | composition of UI and server |
| `MC<module>` | an instance of each component for TLC | |
| `<module>_proofs` | the theorems about each component | proofs |

`GraphBuild` and `Scheduler` meet in `FleetGraph!Compiled`: it is what `compile()`
is proved to guarantee and what `Scheduler` assumes of the graphs it is given
(`GraphsAssumption`). `Scheduler` and `RunServer` meet in what a task may do:
`RunServer` reduces a run to a chain of checkpointed node executions that can
return, raise (leaving orphans), or be cancelled, which is what `Scheduler` shows
a run to be; that runs end, which `RunServer` takes as fairness, is
`Scheduler!RunSettles`. `Scheduler` and `MemoryBank` meet in an ingestion, which
`Scheduler` starts (`WriteBack`) and sees end (`IngestEnds`). `MemoryBank` takes
from `MemoryStore` what `StoreContract` says, that a memory the store has taken is
there, as last written, until it is deleted, and leaves open which neighbour a search finds,
since a filtered search may miss the nearest (`SearchMissesTheCrowdedOut`).
`UiSession` and `RunServer` meet in the routes: what `RunServer` shows of a halt (the
task is over when it is answered, and has emitted one `run_finished` if it began; `StatusIsTrue`,
`FinishedOnce`), `UiSession` takes as one step. `GraphEditor` uses
`FleetGraph!Reachable` for the last of the server's checks, and the graph of a spec
that passes them all is `Compiled` (`HandedOutIsLoadable`), so that `Scheduler` may
assume it of the builder's graphs too. `MemoryPanel` takes each
memory route as one step, which it is: none of them suspends between reading and
writing the bank.

Operators whose names have a suffix, such as `MayStart_OffByOne`, are plausible
slips in the definition that follows them. They are not part of the models; each
property is confirmed to fail when one of them takes its original's place.

### GraphBuild

`draft` is the `Graph` object; `AddNode`, `AddEdge`, `SetEntry` and `SetExit` are
its methods, which check nothing. `compile()` is `CompileRefused` or `StartSearch`
(lines 55–68), then one `Visit` per turn of the `while` loop that adds a name
(73–80), then `OrphansFound`, `NoBackend` or `HandOut` (82–108). `queue` holds the
queued names that are not reachable yet: taking a name off the Python list that
is already reachable (line 75) changes nothing and is a stuttering step, and the
order in which names are popped is left open.

### Scheduler

Each action is what one task does between two suspension points.

| Action | Code in scheduler.py |
|---|---|
| `StartBatch` | 95–101, 112–114: the loop test, `node_start` for the frontier, each `_run_node` up to its first call of `node.fn` |
| `AttemptReturns`, `AttemptRaises` | 52–59: a call of `node.fn` ends; retry with the original input, or give up |
| `CollectBatch` | 103–104, 114–117: gather has all results; merge, count, call `save` |
| `BatchRaises` | 114: the first exception leaves `run()`, the siblings go on as orphans |
| `SaveCommits`, `SaveRaises` | `checkpoint.py` 21–37, 104–108: the row becomes durable; `save` fails before or after that |
| `CompleteAtExit`, `CompleteAndRoute`, `RoutingRaises` | 105–109, 118–126: `node_complete`, exit test, next frontier; a condition may raise |
| `LeaveLoop` | 127–136 |
| `WriteBack`, `IngestEnds`, `Return` | 140–194, 136–138 |
| `Cancel`, `FailureOutrunsCancel` | `task.cancel()` by pause or kill, at any await; gather passes it on to the node tasks, unless a failure has already reached it, or reaches it first |
| `LoopCloses` | `asyncio.run` cancels what is left when `run()` ends |

An execution is a pair of a node and the step count of its batch. A GraphState is
the set of executions whose messages it holds (`applied`) and a scratchpad whose
values are the executions that wrote them. A node may write any set of keys. Which
conditions hold is left open in every step. The code's branch for a batch of one
(99–109) differs from the other (110–126) in calling `_run_node` without a task of
its own and in not merging; the merge of one result is that result, and the model
uses the general case, which allows every behaviour of the special one.

What it takes for granted: emitting an event neither suspends nor raises, true
of the subscribers in the repository (unbounded queue, print); a cancelled
`save()` has ended, committed or not, when the run's task ends (`aiosqlite`
closes its connection in order); a node function does not swallow CancelledError;
the run_id is not in use by another run at the same time.

### RunServer

`life` says how far each task of the run has come; `did` and `ckpt` count node
executions. The actions of a task are `Begin`, `LoadFails`, `NodeCompletes`,
`RunReturns`, `RunRaises`, `Stop` and `NeverBegins` (`routes.py` 69–112): the last
is a task cancelled before its first step, whose `try` is never entered. `Halt`
is the first half of `pause_run` or `kill_run` up to the await of the task
(250–259, 280–289), `Wake` the second half (262, 292), run by all waiters of a
task one after the other; `HaltEnded` is the whole of either when the task is
done already. `Resume` and `ResumeRefused` are `resume_run`. `ConnectLate`,
`Connect` and `Deliver` are `ws.py` 21–62, with the `run_finished` frames only.

### MemoryBank

Only LLM calls suspend, so an ingestion holds the event loop (`turn`) from the
answer to one call until it makes the next.

| Action | Code |
|---|---|
| `Distilled` | `bank.py` 124–148, `induction.py`, `matts.py` 106–137: the LLM has answered, up to three candidates |
| `Insert`, `LinkNear`, `ReplaceNear` | `merge.py` 37–64 when no LLM is asked |
| `AskMerge`, then `AnswerMerge`, `AnswerReplace`, `AnswerKeepBoth` | `merge.py` 54–58, 88–130 around the await: `calls` keeps the copy of the memory that was read before it |
| `Fail`, `Finish` | the end of `ingest_trajectory`: an LLM or the embedder raises, the task is cancelled, or all is integrated |
| `Retrieve` | `retrieval.py` 26–57 |
| `AddManual`, `UpdateMemory`, `Delete` | `memory_routes.py` 82–137 |

The item that was searched before the await of the merge LLM is written back after it,
whatever retrievals, edits and other ingestions did to that memory meanwhile. The
model has this lost update as the code has it, and `bank_lost_use` shows it. The
histories `stale` (memories that were written back from an outdated copy) and
`overwritten` (the texts that copy lacked) record what was lost so; the properties say
that a write-back does no other harm: it brings no deleted memory back, counts no use
twice, and costs no text, link or count of another memory.
Which memory is the nearest, how near it is and what a retrieval selects are left
open: embeddings, thresholds, scopes and confidences only choose among the
actions. An import may put back a deleted id; it is in `MemoryStore`.

### MemoryStore

`work` is the three tables as the connection sees them, `disk` as committed; the
statements of one operation are one step, since the event loop runs nothing in
between and a crash in between undoes them. `UpdateRaises` is the exception: the
item is written, `memory_vec` refuses the embedding, and nothing is committed or
rolled back (`sqlite_vec.py` 166–205). `KeepsContract` is `StoreContract` with what
the connection sees for `memories` and `spoiled`, the ids of such updates, for
`doubtful`. Such an embedding can only come from an
imported line (`ImportSpoils`), and afterwards from the stored item itself when a
retrieval or an edit writes it back (`WriteBackRaises`). `Results` is the search
with its pool of `PoolFactor * k` rows, for any distance.

### UiSession

| Action | Code |
|---|---|
| `Start`, `RunSpec`, `Patch` | `RunControls.tsx` 88–147, `GraphBuilder.tsx` `handleRun`: up to the await of `fetch` |
| `Answered`, `PostFails` | the rest of these, with the hook's cleanup and effect (`useFleetWS.ts` 15–22, 53–58) that React runs for the new `activeRunId` |
| `SwitchTab` | `App.tsx`: the mounted `RunControls` and its `loading` are gone, the hook and the store are not |
| `OnOpen`, `OnMessage`, `OnFinished`, `OnClose`, `Timer` | `useFleetWS.ts` 19–50, `dispatchEvent` of `fleetStore.ts` |
| `Create`, `PatchArrives`, `OtherAsks` | `routes.py`: a request of this browser or of another client is handled |
| `Accept`, `Emit`, `TaskEnds` | `ws.py` 21–62 and `_normalize_event`; the task's events |
| `Break`, `Crash` | a connection breaks, the frames on it cut off anywhere; the server is restarted and has no record of any run |

A socket is known by the run whose closure of `connect()` made it, and `wire[r]` is
what it has yet to hand to the browser. A restart of the server is followed by
connections that are accepted and closed again, once for every turn of the back-off.
The histories `completed`, `resumed`, `overlap` and `stopper` are read by the
properties only.

What the model shows and no property forbids: a paused run is shown as "killed", since
that is what a cancelled task reports, so that Resume is never enabled in the UI that
paused it; a run whose server has been restarted is asked for every `BASE_DELAY_MS` for
ever, since each connection that opens resets the back-off; the builder's Run is enabled
beside an active run, whose display it takes over; events before the subscription are
not sent again. A run that is paused before the server has accepted its socket stays
shown as running while the connection lasts, for `ws_run` subscribes to a paused run and
says nothing of it (`ws.py` 27–30), and when it is killed then, nobody emits a frame
(`HaltUnseen`, the exception in `RunningIsWatched`). `Halt` says "killed" of every task
it cancels; that a failure can outrun the cancellation is in `RunServer` and
`Scheduler`, and no property of `UiSession` depends on which of the two is said.

Two promises of the documentation are not kept, and no property states them. The badge
"error" (`docs/visual-builder.md` 39–40) is never shown on a node, since no frame that the
server sends sets it. The right rail, a "log for the selected agent" (`docs/quickstart.md`
119), lists the log of the whole run: log entries do not say whose they are, and
`AgentPanel.tsx` 25–31 filters the tool calls without a name only.

### GraphEditor

Each action is a callback of `GraphBuilder`: `Drop`, `Connect`, `ClickNode`,
`ClickEdge`, `ClickPane`, `PressNode` and `PressEdge` (the removals that ReactFlow makes
of a key press), `SetEntry`, `SetExit`, `SetProvider`, `SetUrl`, `SetCond`,
`DeleteNode`, `DeleteEdge`, `Choose` and `Loaded` (the two halves of opening a file),
`SwitchTab`. `CanvasToSpec`, `Exportable`, `CanvasNodes` and `CanvasEdges` are
`graphSpec.ts`; `Refusals` is `load_graph_spec` with the validators of `spec.py`: those
of each agent (`AgentRefusal`: provider, base_url, tools), and if all pass, those of the
graph (`TopologyRefusal`) and `compile()`. A base_url is one that `validate_base_url`
accepts, one that it refuses, or none: the panel takes whatever is typed. Unknown
providers, tools and conditions come from files only. `Without` is JavaScript's
`filter`. `HandedOut` is what Run, Save and Export Python get. What ReactFlow does by
itself (drawing no edge without its two nodes, `addEdge` leaving a connection that
exists) is modelled from how the code calls it. Removing a node by key leaves
`selectedNodeId` behind; that this is harmless is `CanvasIsSound` and `PanelIsOfCanvas`.
Switching the tab loses the canvas.

### MemoryPanel

`Search`, `Delete`, `StartEdit`, `Type`, `SaveEdit`, `Cancel`, `Import` and `Remount`
are the tab up to an await; `Handle` and `Refuse` are the server; `Apply`, `Imported`
and `Lost` are what is after the await. Requests are numbered, and answered in any
order. Some facts are in the model as the code has them: a delete is shown as done
whatever the answer says, and a save, when answered, closes whatever is
being edited by then, dropping its draft. `Other` is any other writer.

## 3. The runs

### What holds

| Run | Instance | Shows |
|---|---|---|
| `graph_compile` | 3 names, 2 edges; 304 018 states | `CompileIsExact` (`OnlyValidGraphs`, `RefusalsJustified`), `CompileEnds` |
| `scheduler_run` | 5 graphs of 3–4 nodes, `MaxSteps` 4, one key, a synchronous and an asynchronous bank, a loop that may close; 50 338 states | `BudgetsHold`, `BatchesAccounted`, `TerminatedByTruthful`, `StartsFollowEdges`, `OrphansAccounted`, `WritebackOrdered`, `OnlyOnward`, `KeepsContract`, `RunSettles` |
| `server_run` | 3 requests, 3 tasks, 2 node executions, 1 client; 48 602 states | `StatusIsTrue`, `FinishedOnce`, `ExecutingRunIsReported`, `Settles` |
| `bank_run` | 4 memories, 3 ingestions of up to 2 candidates, one of them without an LLM, retrievals of up to 2; 127 930 states | `LinksSound`, `EditsSurvive` |
| `store_run` | 3 ids, 2 scopes, 2 vectors, `PoolFactor` 2, imports of up to 2 lines; 8 415 states | `TablesSound`, `KeepsContract`, `SearchMissesTheCrowdedOut` |
| `ui_session` | 2 runs of one frame, the first with an agent that may raise, 2 of {broken connection, restart, pause, resume, kill}, a back-off of two steps; 940 121 states | `LogInOrder`, `EndShownIsTrue`, `RunningIsWatched`, `CanvasIsOfActive`, `EndReachesUi` |
| `ui_editor` | 2 nodes, 2 edges, 2 drops, 2 files, each malformed in another way; 1 939 424 states | `HandedOutIsLoadable`, `RoundTrip`, `CanvasIsSound`, `PanelIsOfCanvas` |
| `ui_memory` | 2 memories, 3 requests, 1 new text, 1 fault; 349 323 states | `InSync`, `TextsStayApart`, `LoadingEnds` |

The graphs of `MCScheduler` are chosen for the shapes the loop distinguishes: a
fan-out that joins at the exit with a retried branch (`Diamond`), branches of
unequal length (`Lopsided`), a conditional cycle (`Cycle`), a graph whose
conditions may lead anywhere, dead ends included (`Mesh`), and a cycle with a
fan-out in it (`FanLoop`). A budget of 4 is passed by a fan-out in the last, used
up by the cycles, and reached together with the exit in some runs. One
scratchpad key is enough because keys do not interact; two banks give one of each
kind. Two names of three in an edge of `GraphBuild` suffice for chains, cycles,
self-loops, dangling ends and orphans. Three requests let two halts wait for one
task while a resume starts another. Three ingestions let two hold copies of a
memory that a third one, without an LLM, rewrites; four memories give each of two
ingestions a candidate, a neighbour and a link to lose. In `store_run` a pool of 2
(for 4 in the code) lets two memories of the other scope push out the one that
is looked for. Names, ids and rowids are interchangeable, which the memory runs
use as a symmetry; they check no liveness.

In `ui_session` two runs are what the hook's hazards need: an earlier one, whose socket
and timers are still there, and the active one. A run of one frame emits several when it
is paused and resumed, so that `LogInOrder` has an order to keep; what longer scripts
and more disturbances could do is covered by the proofs, which are for any `Script`,
`MaxRuns` and `MaxTurns`. The editor's files have an id twice, an edge to a node that a
drop can create, two edges alike, an unregistered condition, no exit, and an agent whose
provider and tool are unknown. Three requests are the smallest number for which a list,
a patch and a later list come in every order.

Deadlock is checked, but for `ui_memory`: there nobody is obliged to do anything once
the bounded requests are used up. Everywhere else the models step to themselves
where everything has come to rest (`Rest`, `Quiet`, `Idle`), or never run out of
steps.

Fairness. The event loops of server and browser run what is ready, and timers fire,
so the steps of tasks, callbacks and accepted connections are weakly fair. In
`ui_memory` the server handles what has arrived and answers are handed over. That
a node function or an ingestion ends is an assumption of `Scheduler` and `RunServer`
about LLM and tool calls, which have timeouts; `UiSession` does not need it.
`compile()` is synchronous. Nothing obliges anyone to send a request, to cancel,
to connect, to break a connection or to close the event loop. `MaxTurns` bounds how
often a connection breaks, without which no end need ever reach the UI.

### What does not hold

Each of these runs ends with a counterexample to a statement made in the
documentation or a comment; `PROJECT.json` quotes it under "findings".

| Run | Statement | What happens |
|---|---|---|
| `scheduler_lost_write` | scratchpad writes of all branches are collected | a branch that only read a key overwrites its sibling's write with the old value |
| `bank_lost_use` | a retrieval increments `use_count` and writes it back | an ingestion asked the merge LLM about that memory before the retrieval, and writes the old count back with the answer |
| `server_resume` | resume continues from the last checkpoint | it starts again from the entry with the original state |
| `ui_stranded` | the hook reconnects on disconnect | the end of an earlier run, whose closure connected again after the switch, sets the `stoppedRef` they share; the next broken connection of the active run is its last |

The models show more differences between words and code, which have no run of their own:
a join is due when any of its predecessors has finished (`StartsFollowEdges` states what
does hold); a one-shot `asyncio.run(graph.run(...))` cancels an asynchronous writeback
as the loop closes (`OneShot`); an import of an id that is stored stops with
`sqlite3.IntegrityError`, which `import_` does not catch (`bank.py` 214), and overwrites
nothing (`ImportStops` in `MemoryStore`); pause, pause, resume can leave "paused" over
an executing task, which is why `StatusIsTrue` speaks of runs shown as running; an
outdated copy, written back after the merge LLM has answered, can drop a link on one
side (the exception in `LinksSound`) and undo an edit (`overwritten` in `EditsSurvive`).

## 4. The proofs

Theorems are of the form `Spec => …`, for arbitrary constants: any graphs, any
budget, any number of keys, banks, requests, clients and tasks, any number of
memories, ingestions and candidates, any rows, scopes, vectors and distance; in the
UI any number of runs, any script of frames, any number of broken connections and
restarts, of entries and of requests under way. Each proof rests on an inductive
invariant, `IInv`, stated in its module, and proved in a theorem
`InductiveInvariant` (`InvHolds` for the UI).

| Component | Theorems (property) |
|---|---|
| GraphBuild | `TypeCorrect`, `CompileIsRight` (`CompileIsExact`), `SearchFindsMore`, `GraphsAreFinite` |
| Scheduler | `TypeCorrect`, `BudgetsAreKept`, `BatchesAreAccountedFor`, `TerminationIsTruthful`, `StartsAreCausal`, `OrphansAreAccountedFor`, `WritebackIsOrdered`, `RunsGoOnward` (`OnlyOnward`), `WorkIsFinite`, `GatherIsNotStuck`, `DurableBeforeAnnounced`, `RunImplementsContract` (`KeepsContract`) |
| RunServer | `TypeCorrect`, `StatusCanBeTrusted` (`StatusIsTrue`), `EndIsEmittedOnce` (`FinishedOnce`) |
| MemoryBank | `TypeCorrect`, `LinksAreSound`, `EditsOutliveIngestions` (`EditsSurvive`) |
| MemoryStore | `TypeCorrect`, `TablesAreSound`, `StoreImplementsContract` (`KeepsContract`), `SearchIsNearlyComplete` (`SearchMissesTheCrowdedOut`), `SearchAnswers` |
| UiSession | `TypesAreKept`, `LogsAreInOrder`, `EndsShownAreTrue`, `RunsAreWatched` (`RunningIsWatched`), `CanvasShowsActive` (`CanvasIsOfActive`) |
| MemoryPanel | `TypesAreKept`, `TextsAreKeptApart`, `TabIsInSync` (`InSync`), `LoadingHasItsCause` |
| GraphEditor | `TypesAreKept`, `CanvasStaysSound` (`CanvasIsSound`), `PanelShowsCanvas` (`PanelIsOfCanvas`), `HandedOutLoads` (`HandedOutIsLoadable`), `SavedSpecsReopen` (`RoundTrip`) |

*GraphBuild.* The search keeps what it has found inside `Reachable` and lets
unfound nodes be reached only through the queue (`SearchIsSound`); with an empty
queue the found set is closed under the edges and holds the entry, so it is
`Reachable`. Hence `CompileIsRight`: what passes is valid, what is refused is not.
What is queued has not been found (also in `SearchIsSound`), so each turn of the
search finds a new node of a graph that has finitely many (`SearchFindsMore`,
`GraphsAreFinite`): it ends, if only it goes on.

*Scheduler.* The safety properties are not inductive: what the checkpoint covers
depends on where `run()` is suspended. `IInv` adds, for each `pc`, how started,
completed, applied and persisted executions relate (`InStep`), that step numbers
grow (`StepsGrow`), where the frontier comes from (`FrontierIsJustified`), and
which branches and banks can be in which state (`BranchesFitPC`, `BanksFitPC`).
There is a lemma for each conjunct, with a case for each action that can disturb
it. `RunImplementsContract` shows that every step is a step of `RunContract` or
leaves its variables alone, with the state's executions for `applied`, the
checkpoint's for `durable` and the `node_complete` events for `announced`.

That a run ends is proved up to fairness. `OnlyOnward` says that every step leaves
less to do: fewer batches in the budget (`StepsLeft`), or else a later stage of the
same batch (`Stage`), or else fewer attempts at calls or errands of banks (`Calls`,
`Chores`), the last two being sets that shrink. `WorkIsFinite` says that these are
numbers and finite sets, so no schedule makes a run go on for ever, and
`GatherIsNotStuck` that `gather` never waits for nothing. That what can go on does
go on is what TLC adds in `RunSettles`.

*RunServer.* `IInv` adds that tasks are made one after the other (`TasksInOrder`),
that waiters are requests that asked for a halt of the task they wait for
(`WaitersAsked`), and that a cancelled task has a waiter (`CancelledForSomeone`).
The last is why no run is left as "running": a task that never began reports
nothing, but then somebody who will set the status is waiting for it.
`NobodyIsForgotten`, the safety half of `Settles` and `ExecutingRunIsReported`, has
its own induction beside `IInv`: each waiting request is among the waiters of a task
that exists, so the task's end finds it (`WaitersStay`), and the clients of a run
that ended by itself have its last frame (`ClientsHear`).

*MemoryBank.* A copy held over an LLM call is written back however much later. The
invariant that makes this bearable is `CopiesFit`: the links of the copy lead to
memories that are or were stored, and those link back unless they are `stale`
themselves. It also says that the copy counts no more uses than there were, for as
long as its memory is stored. Every write is shown to keep it for every copy anybody may hold
(`LinkKeeps`, `UpdateKeeps`, …), so it holds for those in `calls`. That candidates
are new to the store and belong to one ingestion (`CandidatesAreNew`) is why an
`add` never meets a duplicate.

*MemoryStore.* `OpenIsSpoiled` says that the open transaction differs from the
disk in nothing but memories whose update raised half way, so that a crash, or a
commit by the next operation, is harmless for all others. It is what makes a crash
a `Restart` in `StoreImplementsContract`, where each operation is shown to `Take`,
`Forget` or `Botch` its one memory and to leave all others alone. Each operation on the
tables is a lemma about any tables (`AddedIsSound`, …). What a search may miss is
`FilteredPool`, a fact about finite sets: if fewer than k of the pool are in
scope, the rest of the pool is nearer than what was cut off. `SearchAnswers` says
that this is not said of nothing: of finitely many memories there are the nearest
n, for any distance, in whatever order ties are put.

*UiSession.* What is under way decides: `IInv` says that the frames on a run's wire
continue its log (`InOrder`), that an end on the wire is true of the run and, unless the
run is resumed, the last of its frames (`EndsAreLast`, `EndIsTrue`), that a run whose
POST has not been answered has no socket and is not shown (`KnownRuns`), that only a
shown end has stopped the hook (`StopsFit`), and that without overlap all but the
active run are over (`OneAtATime`). Every action is first reduced to what it does to the
wire and log of one run (`Effect`: it leaves them alone or cuts the wire, hears a frame,
emits one, ends the run, or greets a new connection), and the invariants of
wires are proved once for these five. That a run shown as running is never forgotten
(`RunningIsWatched`, the safety half of `EndReachesUi`) needs two more parts: an
accepted socket has either a handler on the run's bus or its close on the wire
(`SocketsFit`), and no handler waits for a run that has ended by itself
(`HandlersFit`), since `ws_run` reports that at once. What is left are handlers of runs
that execute, and of runs that were halted before they came (`HaltUnseen`).

*MemoryPanel.* The tab's list cannot agree with the bank while a write is handled and
its answer under way. `AllIsRecent` says where it may differ: an entry agrees with the
bank or is `Patched`, that is, a write of it was handled later than anything the tab has
applied and will be heard of. The same holds of each list that is under way
(`AnswerIsRecent`), a list that nothing was handled after agrees as it stands
(`FreshListsAgree`), and `Late` marks the answers that come after a later one has
been applied, from when on no patch can be relied on. `LoadingIsAwaited` is the safety half
of `LoadingEnds`: while the tab says "Loading", a list that this component asked for is
under way, since every end of such a request, a refusal and a loss too, ends the loading.

*GraphEditor.* Every callback makes one of nine changes to the canvas (`CanvasStep`:
a node dropped, an edge drawn, nodes or edges removed, a mark or an agent set, a
condition set, a file opened, the canvas emptied, nothing), and each invariant is
proved once for these. `IInv` adds to the properties that an edge's id tells its ends
(`EdgeIdsTell`, why a second edge between two nodes is the first one again) and
that a selection made on an earlier canvas selects nothing. The code counts
(`Set.size`, `filter(...).length`), the proofs compare two places of a list:
`UniqueIdsTell` and `SoundTells` say that this is the same. The id of a drop is new
because a canvas of n nodes cannot have n + 1 ids (`NextIdIsFresh`). `Without` is a
recursive function, of which nothing can be proved by induction; that it picks
from a list what is to stay, in order, and misses none (`WithoutPicks`), is had from the
shortest prefix for which that failed, of which there is none (`Foremost`).
That a canvas has an unknown provider, tool or condition only if the file it was loaded
from had one (`AgentsAreLoaded`, `CondsAreLoaded`) is the last part of `IInv`.
`HandedOutLoads` rests on all of these: each refusal of the graph, but for orphans and
unknown conditions, contradicts the soundness of the canvas or the UI's own checks, those
of agents are had from `AgentsAreLoaded` or concern the base_url, and a spec without a
refusal is a `Compiled` graph. `SavedSpecsReopen` is a fact about the conversions
alone: a spec that was handed out is exportable after `specToCanvas`, and exported it
is the same.

Assumptions: node names are numbers (only their order is used) and finitely many, graphs
are `Compiled`, `MaxSteps` is a natural number, asynchronous banks are banks, which are
finitely many; at least one task and one node execution in `RunServer`, and one request
in `MemoryPanel`; an embedding of another dimension is not a vector, distances are
natural numbers, rowids are finitely many; in the UI the frames of a script are about
its nodes, the back-off starts above 0 and at most at its maximum, and files have the
fields of a GraphSpec with ids other than the null. Each is a named `ASSUME` that TLC
evaluates on the instances.

Only model-checked: the liveness properties (`CompileEnds`, `RunSettles`,
`ExecutingRunIsReported`, `Settles`, `EndReachesUi`, `LoadingEnds`), since TLAPS does
not do liveness under fairness. Every other property of a passing run is a theorem.

## 5. Not modelled, and the plan

Not planned: rendering, styling and layout, the texts and fields of forms that no state
depends on (the provider and graph lists of `RunControls`, which rows of the memory
tab are unfolded), the entry point and build of the UI, static files, logging, prompt
texts, the embedders, tool I/O, examples, benchmarks and scripts. They have no
state that outlives a call, or none that a property could be about.

Planned, in this order:

1. `AgentLoop`: the ReAct loop and the conversation it leaves, composed with the
   message order of `_merge_states` (`StateMerge`).
2. `SpecLoad` (the condition registry and the exporter, with loading into
   `GraphBuild`), `ProviderRetry`.
3. MaTTS' parallel rollouts, `fleet replay`, and an abstract bank in which an
   ingestion is atomic, for `MemoryBank` to implement where no copy is outdated.
4. `UiSession` over the tasks of `RunServer` instead of its one-step halts, with
   handlers of clients that have gone.
