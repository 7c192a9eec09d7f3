------------------------------- MODULE RunServer -------------------------------
(***************************************************************************)
(* The life of one run in the FastAPI server (src/fleet/server/routes.py   *)
(* and ws.py): its RunRecord, the asyncio tasks that execute it, the       *)
(* pause, resume and kill requests, and the WebSocket clients.             *)
(*                                                                         *)
(* An action is what one coroutine does between two points at which it may *)
(* be suspended.  A graph run is reduced to a chain of Length node         *)
(* executions, each of which leaves a checkpoint (module Scheduler has the *)
(* details); of the frames only the run_finished ones are kept.  A request *)
(* that waits for a task is woken by the task's done callbacks, which run  *)
(* back to back in the order in which they were added.                     *)
(***************************************************************************)
EXTENDS Naturals, Sequences, FiniteSets

CONSTANTS
    Requests,   \* pause, resume and kill calls
    Clients,    \* WebSocket clients
    MaxTasks,   \* bound on the tasks a run is given, one plus its resumes
    Length      \* node executions of a run

ASSUME MaxTasksAssumption == MaxTasks \in Nat \ {0}
ASSUME LengthAssumption == Length \in Nat \ {0}

Tasks == 1..MaxTasks
Terminal == {"done", "killed", "error"}
Halts == {"paused", "killed"}

VARIABLES
    source,     \* "module": create_run; "builder": create_run_from_spec
    status,     \* RunRecord.status
    task,       \* RunRecord.task
    life,       \* per task: how far it has come
    did,        \* per task: node executions it has completed
    finished,   \* per task: run_finished events it has emitted
    orphans,    \* tasks of which a failed fan-out left nodes running
    ckpt,       \* node executions the checkpoint of this run_id holds
    waiters,    \* per task: requests that await it, oldest first
    request,    \* per request: what it asks for, of which task, and its answer
    client,     \* per client: its connection
    queue,      \* per client: run_finished frames put in its queue
    told,       \* per client: the status in the run_finished frame it got
    began       \* history: tasks that have entered the try statement of their coroutine

vars == <<source, status, task, life, did, finished, orphans, ckpt, waiters, request,
          client, queue, told, began>>
taskVars == <<task, life, did, finished, orphans, ckpt, began>>
requestVars == <<waiters, request>>
clientVars == <<client, queue, told>>

\* "created" has not had its first step; "stopping" and "doomed" have been
\* cancelled after and before it.
Lives == {"absent", "created", "driving", "stopping", "doomed", "done"}
RequestRecords ==
    [asks : Halts \cup {"resume", "nothing"}, of : 0..MaxTasks,
     answer : {"none", "waiting", "ok", "refused"}]

TypeOK ==
    /\ source \in {"module", "builder"}
    /\ status \in Terminal \cup {"running", "paused"}
    /\ task \in Tasks
    /\ life \in [Tasks -> Lives]
    /\ did \in [Tasks -> 0..Length]
    /\ finished \in [Tasks -> Nat]
    /\ orphans \in SUBSET Tasks
    /\ ckpt \in 0..Length
    /\ waiters \in [Tasks -> Seq(Requests)]
    /\ request \in [Requests -> RequestRecords]
    /\ client \in [Clients -> {"away", "open", "closed"}]
    /\ queue \in [Clients -> Seq(Terminal)]
    /\ told \in [Clients -> Terminal \cup {"nothing"}]
    /\ began \in SUBSET Tasks

\* create_run and create_run_from_spec have answered.
Init ==
    /\ source \in {"module", "builder"}
    /\ status = "running"
    /\ task = 1
    /\ life = [t \in Tasks |-> IF t = 1 THEN "created" ELSE "absent"]
    /\ did = [t \in Tasks |-> 0]
    /\ finished = [t \in Tasks |-> 0]
    /\ orphans = {}
    /\ ckpt = 0
    /\ waiters = [t \in Tasks |-> << >>]
    /\ request = [r \in Requests |-> [asks |-> "nothing", of |-> 0, answer |-> "none"]]
    /\ client = [c \in Clients |-> "away"]
    /\ queue = [c \in Clients |-> << >>]
    /\ told = [c \in Clients |-> "nothing"]
    /\ began = {}

-------------------------------------------------------------------------------
\* The task: _execute_run, _execute_run_from_spec and _drive_cg.

\* EventBus.emit of run_finished: every open client has its callback there.
Emit(s) == queue' = [c \in Clients |-> IF client[c] = "open" THEN Append(queue[c], s)
                                                            ELSE queue[c]]

\* The task's last step: set the status and emit run_finished; nothing in it
\* can be suspended.
EndTask_Quietly(t, s) ==
    /\ status' = s
    /\ life' = [life EXCEPT ![t] = "done"]
    /\ UNCHANGED <<finished, queue, source, task, did, ckpt, requestVars, client, told>>

EndTask_StatusKept(t, s) ==
    /\ life' = [life EXCEPT ![t] = "done"]
    /\ finished' = [finished EXCEPT ![t] = @ + 1]
    /\ Emit(s)
    /\ UNCHANGED <<status, source, task, did, ckpt, requestVars, client, told>>

EndTask(t, s) ==
    /\ status' = s
    /\ life' = [life EXCEPT ![t] = "done"]
    /\ finished' = [finished EXCEPT ![t] = @ + 1]
    /\ Emit(s)
    /\ UNCHANGED <<source, task, did, ckpt, requestVars, client, told>>

\* A builder's graph comes compiled; a resumed run loads "graph_module", which
\* a builder run has not got.
CanLoad(t) == source = "module" \/ t = 1
CanFailToLoad(t) == source = "module" \/ t # 1

\* The first step of the task.
Begin(t) ==
    /\ life[t] = "created"
    /\ CanLoad(t)
    /\ life' = [life EXCEPT ![t] = "driving"]
    /\ began' = began \cup {t}
    /\ UNCHANGED <<source, status, task, did, finished, orphans, ckpt, requestVars, clientVars>>

LoadFails(t) ==
    /\ life[t] = "created"
    /\ CanFailToLoad(t)
    /\ EndTask(t, "error")
    /\ began' = began \cup {t}
    /\ UNCHANGED orphans

MoreToDo_OneTooMany(t) == did[t] <= Length

MoreToDo(t) == did[t] < Length

\* One more node of the graph has run and is checkpointed.
NodeCompletes(t) ==
    /\ life[t] = "driving"
    /\ MoreToDo(t)
    /\ did' = [did EXCEPT ![t] = @ + 1]
    /\ ckpt' = did[t] + 1
    /\ UNCHANGED <<source, status, task, life, finished, orphans, began, requestVars, clientVars>>

RunReturns(t) ==
    /\ life[t] = "driving"
    /\ did[t] = Length
    /\ EndTask(t, "done")
    /\ UNCHANGED <<orphans, began>>

\* A node, a save or a condition raises; the nodes beside it may go on.
RunRaises(t) ==
    /\ life[t] = "driving"
    /\ EndTask(t, "error")
    /\ orphans' \in {orphans, orphans \cup {t}}
    /\ UNCHANGED began

\* CancelledError has reached _execute_run, or a failure that outran it has
\* (Scheduler!FailureOutrunsCancel).
Stop(t) ==
    /\ life[t] = "stopping"
    /\ \E s \in {"killed", "error"} : EndTask(t, s)
    /\ UNCHANGED <<orphans, began>>

\* A task cancelled before its first step never enters its try statement.
NeverBegins(t) ==
    /\ life[t] = "doomed"
    /\ life' = [life EXCEPT ![t] = "done"]
    /\ UNCHANGED <<source, status, task, did, finished, orphans, ckpt, began, requestVars,
                   clientVars>>

OrphanEnds(t) ==
    /\ t \in orphans
    /\ orphans' = orphans \ {t}
    /\ UNCHANGED <<source, status, task, life, did, finished, ckpt, began, requestVars, clientVars>>

-------------------------------------------------------------------------------
\* The requests.

\* task.cancel().
Cancelled(l) ==
    IF l = "created" THEN "doomed" ELSE IF l = "driving" THEN "stopping" ELSE l

\* pause_run (halt = "paused") or kill_run (halt = "killed") finds the task
\* alive: cancel it and await it.
Halt(r, halt) ==
    /\ request[r].asks = "nothing"
    /\ life[task] # "done"
    /\ life' = [life EXCEPT ![task] = Cancelled(@)]
    /\ waiters' = [waiters EXCEPT ![task] = Append(@, r)]
    /\ request' = [request EXCEPT ![r] = [asks |-> halt, of |-> task, answer |-> "waiting"]]
    /\ UNCHANGED <<source, status, task, did, finished, orphans, ckpt, began, clientVars>>

\* The same when there is nothing to cancel: whatever the run ended as is overwritten.
HaltEnded(r, halt) ==
    /\ request[r].asks = "nothing"
    /\ life[task] = "done"
    /\ status' = halt
    /\ request' = [request EXCEPT ![r] = [asks |-> halt, of |-> task, answer |-> "ok"]]
    /\ UNCHANGED <<source, taskVars, waiters, clientVars>>

MayWake_OnEvent(t) == finished[t] > 0

MayWake(t) == life[t] = "done"

Answered(q) == [asks |-> q.asks, of |-> q.of, answer |-> "ok"]

\* The task is done: each waiter sets its status and answers, the last one wins.
Wake(t) ==
    /\ MayWake(t)
    /\ waiters[t] # << >>
    /\ status' = request[waiters[t][Len(waiters[t])]].asks
    /\ request' = [r \in Requests |->
                      IF \E i \in 1..Len(waiters[t]) : waiters[t][i] = r
                        THEN Answered(request[r]) ELSE request[r]]
    /\ waiters' = [waiters EXCEPT ![t] = << >>]
    /\ UNCHANGED <<source, taskVars, clientVars>>

\* resume_run: a new task over record.state, which still is the state the run
\* was created with unless it ended as "done".
Resume(r) ==
    /\ request[r].asks = "nothing"
    /\ status = "paused"
    /\ task < MaxTasks
    /\ status' = "running"
    /\ task' = task + 1
    /\ life' = [life EXCEPT ![task + 1] = "created"]
    /\ request' = [request EXCEPT ![r] = [asks |-> "resume", of |-> task + 1, answer |-> "ok"]]
    /\ UNCHANGED <<source, did, finished, orphans, ckpt, began, waiters, clientVars>>

\* 409: not paused.
ResumeRefused(r) ==
    /\ request[r].asks = "nothing"
    /\ status # "paused"
    /\ request' = [request EXCEPT ![r] = [asks |-> "resume", of |-> 0, answer |-> "refused"]]
    /\ UNCHANGED <<source, status, taskVars, waiters, clientVars>>

-------------------------------------------------------------------------------
\* The WebSocket handler.

\* A client connects to a run that has ended: one frame and the socket closes.
ConnectLate(c) ==
    /\ client[c] = "away"
    /\ status \in Terminal
    /\ client' = [client EXCEPT ![c] = "closed"]
    /\ told' = [told EXCEPT ![c] = status]
    /\ UNCHANGED <<source, status, taskVars, requestVars, queue>>

\* ... or to one that has not: its queue is subscribed in the same step.
Connect(c) ==
    /\ client[c] = "away"
    /\ status \notin Terminal
    /\ client' = [client EXCEPT ![c] = "open"]
    /\ UNCHANGED <<source, status, taskVars, requestVars, queue, told>>

\* The handler takes run_finished off its queue, sends it and leaves its loop.
Deliver(c) ==
    /\ client[c] = "open"
    /\ queue[c] # << >>
    /\ told' = [told EXCEPT ![c] = Head(queue[c])]
    /\ queue' = [queue EXCEPT ![c] = Tail(@)]
    /\ client' = [client EXCEPT ![c] = "closed"]
    /\ UNCHANGED <<source, status, taskVars, requestVars>>

-------------------------------------------------------------------------------
TaskStep(t) ==
    \/ Begin(t)
    \/ LoadFails(t)
    \/ NodeCompletes(t)
    \/ RunReturns(t)
    \/ RunRaises(t)
    \/ Stop(t)
    \/ NeverBegins(t)

RequestStep(r) ==
    \/ \E halt \in Halts : Halt(r, halt) \/ HaltEnded(r, halt)
    \/ Resume(r)
    \/ ResumeRefused(r)

ClientStep(c) == ConnectLate(c) \/ Connect(c) \/ Deliver(c)

Quiet ==
    /\ \A t \in Tasks : life[t] \in {"absent", "done"} /\ waiters[t] = << >>
    /\ orphans = {}
    /\ \A c \in Clients : client[c] # "open" \/ queue[c] = << >>
    /\ UNCHANGED vars

Next ==
    \/ \E t \in Tasks : TaskStep(t) \/ OrphanEnds(t) \/ Wake(t)
    \/ \E r \in Requests : RequestStep(r)
    \/ \E c \in Clients : ClientStep(c)
    \/ Quiet

Spec == Init /\ [][Next]_vars

\* The event loop runs what is ready, and graph runs end (Scheduler!RunSettles).
\* Nobody has to send a request or to connect.
Fairness ==
    /\ \A t \in Tasks : WF_vars(TaskStep(t)) /\ WF_vars(OrphanEnds(t)) /\ WF_vars(Wake(t))
    /\ \A c \in Clients : WF_vars(Deliver(c))

FairSpec == Spec /\ Fairness

-------------------------------------------------------------------------------
Alive(t) == life[t] \in {"created", "driving", "stopping", "doomed"}

\* A run shown as running has a task that will end it, or a request that is
\* about to say how it was ended: no run is left "running" for ever.
RunningIsBacked == status = "running" => Alive(task) \/ waiters[task] # << >>

\* pause and kill answer only when the task they cancelled is over.
AnswerMeansStopped ==
    \A r \in Requests : request[r].asks \in Halts /\ request[r].answer = "ok" =>
        life[request[r].of] = "done"

\* A request that has not been answered waits for a task that there is, where
\* the task's end will find it; a client that is connected to a run that ended
\* by itself has the frame that says so.
NobodyIsForgotten ==
    /\ \A r \in Requests : request[r].answer = "waiting" =>
         LET t == request[r].of IN
            t \in 1..task /\ \E i \in 1..Len(waiters[t]) : waiters[t][i] = r
    /\ status \in {"done", "error"} => \A c \in Clients : client[c] = "open" => queue[c] # << >>

\* What the server says of a run is so, as its status and by its answers, and
\* whoever waits for it will be told.
StatusIsTrue == RunningIsBacked /\ AnswerMeansStopped /\ NobodyIsForgotten

\* A task that has entered its try statement has emitted run_finished exactly once
\* when it is done, whichever way out it took: the graph could not be loaded, a node
\* raised, it was cancelled before or after its first node, or it returned.  Until
\* then it has emitted none, nor does one ever that was cancelled before it began.
FinishedOnce ==
    \A t \in Tasks : finished[t] = IF life[t] = "done" /\ t \in began THEN 1 ELSE 0

\* A client that is connected while the run is executing hears of its end.
ExecutingRunIsReported ==
    \A c \in Clients, t \in Tasks :
        client[c] = "open" /\ life[t] = "driving" ~> told[c] # "nothing"

\* Whatever the requests, the run comes to rest: nothing is executing and
\* every request that waited has its answer.
Settles ==
    <>[](/\ \A t \in Tasks : ~Alive(t) /\ t \notin orphans
         /\ \A r \in Requests : request[r].answer # "waiting")

-------------------------------------------------------------------------------
\* What docstrings of routes.py say and the code does not do.

\* resume: "Re-start a paused run from its last checkpoint."
ResumeContinues ==
    [][\A t \in Tasks \ {1} : did'[t] # did[t] => did'[t] > ckpt]_vars

-------------------------------------------------------------------------------
\* The inductive invariant behind RunningIsBacked, AnswerMeansStopped and
\* FinishedOnce.

\* Tasks are created one after the other.
TasksInOrder == \A t \in Tasks : life[t] = "absent" <=> t > task

\* Whoever waits for a task asked for it to be halted.
WaitersAsked ==
    \A t \in Tasks : \A i \in 1..Len(waiters[t]) :
        LET q == request[waiters[t][i]]
        IN  q.asks \in Halts /\ q.of = t /\ q.answer = "waiting"

\* A task is cancelled by a request that then waits for it, and has run no node
\* if that was before its first step.
CancelledForSomeone ==
    \A t \in Tasks : /\ life[t] \in {"stopping", "doomed"} => waiters[t] # << >>
                     /\ life[t] \in {"absent", "created", "doomed"} => did[t] = 0

\* The tasks that have begun are those past their first step, and not the ones that
\* were cancelled before it.
BegunFit ==
    \A t \in Tasks : /\ life[t] \in {"driving", "stopping"} => t \in began
                     /\ life[t] \in {"absent", "created", "doomed"} => t \notin began

IInv ==
    /\ TypeOK
    /\ TasksInOrder
    /\ WaitersAsked
    /\ CancelledForSomeone
    /\ RunningIsBacked
    /\ AnswerMeansStopped
    /\ FinishedOnce
    /\ BegunFit
===============================================================================
