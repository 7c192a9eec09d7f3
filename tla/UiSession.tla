------------------------------- MODULE UiSession -------------------------------
(***************************************************************************)
(* A browser session of the web UI (ui/src): the zustand store, the        *)
(* useFleetWS hook, the run controls and the Run button of the builder,    *)
(* against a server that starts, halts and resumes runs and streams their  *)
(* frames (server/routes.py, server/ws.py).                                *)
(*                                                                         *)
(* An action of the browser is one callback: JavaScript runs it to its end *)
(* or to its next await.  After a change of the active run React runs the  *)
(* hook's cleanup and effect before anything else.  `wire` is what the     *)
(* browser has yet to see of a run's connection, in order: its opening,    *)
(* the frames and its close.  Module RunServer has the details of what     *)
(* happens inside the server; here a halt is one step.                     *)
(***************************************************************************)
EXTENDS Naturals, Sequences, FiniteSets

CONSTANTS
    MaxRuns,    \* bound on the runs a session starts
    Fallible,   \* the runs with an agent that may raise
    Script,     \* the frames of an undisturbed run: records [kind, node]
    BaseDelay,  \* BASE_DELAY_MS
    MaxDelay,   \* MAX_DELAY_MS
    MaxTurns    \* bound on connections lost, server restarts and requests to
                \* pause, resume and kill, together

Runs == 1..MaxRuns
None == 0       \* the null of activeRunId and of an unset wsRef
NoNode == "none"
Terminal == {"done", "killed", "error"}
Nodes == {Script[i].node : i \in DOMAIN Script}
Requests == {"pause", "resume", "kill"}

\* What each frame makes of its node's status: the cases of dispatchEvent
\* that call upsertNode.
StatusAfter ==
    [node_started |-> "running", node_finished |-> "done",
     tool_called |-> "waiting", tool_returned |-> "running"]

Kinds == DOMAIN StatusAfter \cup {"state_updated"}

ASSUME RunsAssumption == MaxRuns \in Nat /\ Fallible \subseteq Runs
ASSUME ScriptAssumption ==
    /\ Script \in Seq([kind : Kinds, node : Nodes])
    /\ NoNode \notin Nodes
ASSUME DelayAssumption ==
    BaseDelay \in Nat /\ MaxDelay \in Nat /\ 0 < BaseDelay /\ BaseDelay <= MaxDelay
ASSUME BoundsAssumption == MaxTurns \in Nat

VARIABLES
    loading,    \* RunControls: the run whose POST the mounted form waits for
    post,       \* per run: how far the request that starts it has come
    active,     \* store: activeRunId
    shown,      \* store: runs[r].status
    nodes,      \* store: per node its status, and the run that set it
    log,        \* store: per run the frames in its log
    conn,       \* per run: the socket its closure of connect() made last
    wire,       \* per run: what that socket has yet to see
    stopped,    \* hook: stoppedRef
    delay,      \* hook: delayRef
    socket,     \* hook: wsRef, as the run of the socket it holds
    status,     \* server: RunRecord.status, "absent" without a record
    position,   \* server: frames of Script the task has emitted
    sent,       \* server: frames the run has emitted in all its tasks
    subscribed, \* server: runs to whose bus a handler of this browser listens
    asked,      \* server: per run the pause, resume and kill requests on their way
    turns,      \* lost connections, restarts and requests so far
    stopper,    \* history: the run whose frame set stopped last
    completed,  \* history: runs a task of which has run to its end
    resumed,    \* history: runs that have been resumed
    overlap     \* history: a run was started beside another one

form == <<loading, post, overlap>>
store == <<active, shown, nodes, log>>
hook == <<conn, wire, stopped, delay, socket, stopper>>
task == <<status, position, sent, completed, resumed>>
server == <<task, asked, subscribed>>
vars == <<form, store, hook, server, turns>>

LogEntries == [id : Nat, kind : Kinds, node : Nodes]
Events == [kind : {"open", "close"}] \cup LogEntries
            \cup [kind : {"run_finished"}, status : Terminal]

TypeOK ==
    /\ loading \in Runs \cup {None}
    /\ post \in [Runs -> {"unasked", "posted", "answered", "known", "failed"}]
    /\ active \in Runs \cup {None}
    /\ shown \in [Runs -> Terminal \cup {"absent", "running", "paused"}]
    /\ nodes \in [Nodes -> [status : {"idle", "running", "waiting", "done"}, by : Runs \cup {None}]]
    /\ log \in [Runs -> Seq(LogEntries)]
    /\ conn \in [Runs -> {"none", "connecting", "open", "closing", "timer", "dead"}]
    /\ wire \in [Runs -> Seq(Events)]
    /\ stopped \in BOOLEAN
    /\ delay \in BaseDelay..MaxDelay
    /\ socket \in Runs \cup {None}
    /\ status \in [Runs -> Terminal \cup {"absent", "running", "paused"}]
    /\ position \in [Runs -> 0..Len(Script)]
    /\ sent \in [Runs -> Nat]
    /\ subscribed \in SUBSET Runs
    /\ asked \in [Runs -> SUBSET Requests]
    /\ turns \in 0..MaxTurns
    /\ stopper \in Runs \cup {None}
    /\ completed \in SUBSET Runs
    /\ resumed \in SUBSET Runs
    /\ overlap \in BOOLEAN

Blank == [n \in Nodes |-> [status |-> "idle", by |-> None]]

Init ==
    /\ loading = None
    /\ post = [r \in Runs |-> "unasked"]
    /\ active = None
    /\ shown = [r \in Runs |-> "absent"]
    /\ nodes = Blank
    /\ log = [r \in Runs |-> << >>]
    /\ conn = [r \in Runs |-> "none"]
    /\ wire = [r \in Runs |-> << >>]
    /\ stopped = FALSE
    /\ delay = BaseDelay
    /\ socket = None
    /\ status = [r \in Runs |-> "absent"]
    /\ position = [r \in Runs |-> 0]
    /\ sent = [r \in Runs |-> 0]
    /\ subscribed = {}
    /\ asked = [r \in Runs |-> {}]
    /\ turns = 0
    /\ stopper = None
    /\ completed = {}
    /\ resumed = {}
    /\ overlap = FALSE

-------------------------------------------------------------------------------
\* The controls.

\* Another tab is opened: RunControls is unmounted and forgets that it waits
\* for an answer.  All else that the session keeps is outside of the tabs.
SwitchTab ==
    /\ loading # None
    /\ loading' = None
    /\ UNCHANGED <<post, overlap, store, hook, server, turns>>

Turn == turns < MaxTurns /\ turns' = turns + 1

\* The status of activeRun: isRunning, isPaused and isTerminal.
ActiveStatus == IF active = None THEN "absent" ELSE shown[active]

\* Which buttons are enabled.  That the form is filled in is left open.
Offered_StartAlways(button) ==
    CASE button = "start"  -> loading = None
      [] button = "pause"  -> ActiveStatus = "running"
      [] button = "resume" -> ActiveStatus = "paused"
      [] button = "kill"   -> ActiveStatus \in {"running", "paused"}

Offered(button) ==
    CASE button = "start"  -> loading = None /\ ActiveStatus \notin {"running", "paused"}
      [] button = "pause"  -> ActiveStatus = "running"
      [] button = "resume" -> ActiveStatus = "paused"
      [] button = "kill"   -> ActiveStatus \in {"running", "paused"}

Pending == {q \in Runs : post[q] \in {"posted", "answered"}}

\* The request leaves, and resetNodes() has cleared the canvas already.
Post(r, beside) ==
    /\ post[r] = "unasked"
    /\ \A q \in Runs : q < r => post[q] # "unasked"
    /\ post' = [post EXCEPT ![r] = "posted"]
    /\ overlap' = (overlap \/ Pending # {} \/ beside)
    /\ nodes' = Blank
    /\ UNCHANGED <<active, shown, log, hook, server, turns>>

\* handleStart of RunControls.
Start(r) ==
    /\ Offered("start")
    /\ loading' = r
    /\ Post(r, FALSE)

\* handleRun of the builder: its button is always enabled.
RunSpec(r) ==
    /\ Post(r, ActiveStatus = "running")
    /\ UNCHANGED loading

\* patchRun; the answer is ignored.
Patch(a) ==
    /\ Offered(a)
    /\ Turn
    /\ asked' = [asked EXCEPT ![active] = @ \cup {a}]
    /\ UNCHANGED <<form, store, hook, task, subscribed>>

-------------------------------------------------------------------------------
\* The hook.

\* connect() of run r, when it does not return at once.
NewSocket(r, c, w) ==
    /\ conn' = [c EXCEPT ![r] = "connecting"]
    /\ wire' = w
    /\ socket' = r

\* ws.close() on the socket in wsRef: no frame is seen any more, the close
\* event is still to come.
Closable(s) == s # None /\ conn[s] \in {"connecting", "open"}

Leave(s) ==
    IF ~Closable(s) THEN <<conn, wire, subscribed>>
    ELSE <<[conn EXCEPT ![s] = "closing"], [wire EXCEPT ![s] = <<[kind |-> "close"]>>],
           subscribed \ {s}>>

\* The POST has been answered: upsertRun, setActiveRunId, the hook's cleanup
\* for the previous run and its effect for the new one.
Answered(r) ==
    /\ post[r] = "answered"
    /\ post' = [post EXCEPT ![r] = "known"]
    /\ loading' = IF loading = r THEN None ELSE loading
    /\ shown' = [shown EXCEPT ![r] = "running"]
    /\ active' = r
    /\ LET left == Leave(socket) IN
        /\ NewSocket(r, left[1], left[2])
        /\ subscribed' = left[3]
    /\ stopped' = FALSE
    /\ delay' = BaseDelay
    /\ UNCHANGED <<overlap, nodes, log, stopper, task, asked, turns>>

\* The spec is refused, or the request is lost, or its answer: then the run is
\* none that this session will ever hear of.
PostFails(r) ==
    /\ post[r] = "posted"
    /\ post' = [post EXCEPT ![r] = "failed"]
    /\ loading' = IF loading = r THEN None ELSE loading
    /\ UNCHANGED <<overlap, store, hook, server, turns>>

Event(r) == Head(wire[r])
See(r) == wire' = [wire EXCEPT ![r] = Tail(@)]

OnOpen(r) ==
    /\ wire[r] # << >> /\ Event(r).kind = "open"
    /\ See(r)
    /\ conn' = [conn EXCEPT ![r] = "open"]
    /\ delay' = BaseDelay
    /\ UNCHANGED <<form, store, stopped, socket, stopper, server, turns>>

\* dispatchEvent of a frame about a node.
OnMessage(r) ==
    /\ wire[r] # << >> /\ Event(r).kind \in Kinds
    /\ See(r)
    /\ log' = [log EXCEPT ![r] = Append(@, Event(r))]
    /\ nodes' = IF Event(r).kind \in DOMAIN StatusAfter
                THEN [nodes EXCEPT ![Event(r).node] =
                        [status |-> StatusAfter[Event(r).kind], by |-> r]]
                ELSE nodes
    /\ UNCHANGED <<form, active, shown, conn, stopped, delay, socket, stopper,
                   server, turns>>

\* dispatchEvent of run_finished, and the end of reconnecting.
OnFinished_AlwaysDone(r) ==
    /\ wire[r] # << >> /\ Event(r).kind = "run_finished"
    /\ See(r)
    /\ shown' = [shown EXCEPT ![r] = "done"]
    /\ stopped' = TRUE
    /\ stopper' = r
    /\ UNCHANGED <<form, active, nodes, log, conn, delay, socket, server, turns>>

OnFinished(r) ==
    /\ wire[r] # << >> /\ Event(r).kind = "run_finished"
    /\ See(r)
    /\ shown' = [shown EXCEPT ![r] = Event(r).status]
    /\ stopped' = TRUE
    /\ stopper' = r
    /\ UNCHANGED <<form, active, nodes, log, conn, delay, socket, server, turns>>

Lesser(a, b) == IF a < b THEN a ELSE b

\* The next wait: Math.min(delay * 2, MAX_DELAY_MS).
Longer_Unbounded == delay * 2

Longer == Lesser(delay * 2, MaxDelay)

OnClose_GivesUp(r) ==
    /\ wire[r] # << >> /\ Event(r).kind = "close"
    /\ See(r)
    /\ conn' = [conn EXCEPT ![r] = "dead"]
    /\ UNCHANGED <<form, store, stopped, delay, socket, stopper, server, turns>>

OnClose(r) ==
    /\ wire[r] # << >> /\ Event(r).kind = "close"
    /\ See(r)
    /\ conn' = [conn EXCEPT ![r] = IF stopped THEN "dead" ELSE "timer"]
    /\ delay' = IF stopped THEN delay ELSE Longer
    /\ UNCHANGED <<form, store, stopped, socket, stopper, server, turns>>

\* The reconnect timer: connect() again.
Timer(r) ==
    /\ conn[r] = "timer"
    /\ IF stopped
       THEN conn' = [conn EXCEPT ![r] = "dead"] /\ UNCHANGED <<wire, socket>>
       ELSE NewSocket(r, conn, wire)
    /\ UNCHANGED <<form, store, stopped, delay, stopper, server, turns>>

-------------------------------------------------------------------------------
\* The server and the network.

\* create_run and create_run_from_spec.
Create(r) ==
    /\ post[r] = "posted"
    /\ post' = [post EXCEPT ![r] = "answered"]
    /\ status' = [status EXCEPT ![r] = "running"]
    /\ UNCHANGED <<loading, overlap, store, hook, position, sent, completed, resumed, asked,
                   subscribed, turns>>

Unaccepted(r) == conn[r] = "connecting" /\ wire[r] = << >> /\ r \notin subscribed

\* ws_run up to its loop.  An unknown run is refused after accept(): the
\* browser sees the connection open, an error frame it ignores, and a close.
Accept_Replays(r) ==
    /\ Unaccepted(r)
    /\ wire' = [wire EXCEPT ![r] =
                  CASE status[r] = "absent" -> <<[kind |-> "open"], [kind |-> "close"]>>
                    [] status[r] \in Terminal ->
                         <<[kind |-> "open"], [kind |-> "run_finished", status |-> status[r]],
                           [kind |-> "close"]>>
                    [] OTHER -> <<[kind |-> "open"]>> \o
                                  [i \in 1..position[r] |-> [id |-> i, kind |-> Script[i].kind,
                                                             node |-> Script[i].node]]]
    /\ subscribed' = IF status[r] \in {"running", "paused"} THEN subscribed \cup {r}
                                                          ELSE subscribed
    /\ UNCHANGED <<form, store, conn, stopped, delay, socket, stopper, task, asked, turns>>

Accept_AwaitsEnd(r) ==
    /\ Unaccepted(r)
    /\ wire' = [wire EXCEPT ![r] =
                  IF status[r] = "absent" THEN <<[kind |-> "open"], [kind |-> "close"]>>
                                          ELSE <<[kind |-> "open"]>>]
    /\ subscribed' = IF status[r] # "absent" THEN subscribed \cup {r} ELSE subscribed
    /\ UNCHANGED <<form, store, conn, stopped, delay, socket, stopper, task, asked, turns>>

Accept(r) ==
    /\ Unaccepted(r)
    /\ wire' = [wire EXCEPT ![r] =
                  CASE status[r] = "absent" -> <<[kind |-> "open"], [kind |-> "close"]>>
                    [] status[r] \in Terminal ->
                         <<[kind |-> "open"], [kind |-> "run_finished", status |-> status[r]],
                           [kind |-> "close"]>>
                    [] OTHER -> <<[kind |-> "open"]>>]
    /\ subscribed' = IF status[r] \in {"running", "paused"} THEN subscribed \cup {r}
                                                          ELSE subscribed
    /\ UNCHANGED <<form, store, conn, stopped, delay, socket, stopper, task, asked, turns>>

\* The task of a run whose status is "running" is executing.
Executing(r) == status[r] = "running"

\* One more node_start, tool_call, ... on the run's bus, renamed by
\* _normalize_event and sent to the browser if its handler is subscribed.
Emit(r) ==
    /\ Executing(r)
    /\ position[r] < Len(Script)
    /\ position' = [position EXCEPT ![r] = @ + 1]
    /\ sent' = [sent EXCEPT ![r] = @ + 1]
    /\ LET f == Script[position[r] + 1]
           frame == [id |-> sent[r] + 1, kind |-> f.kind, node |-> f.node] IN
        wire' = IF r \in subscribed THEN [wire EXCEPT ![r] = Append(@, frame)] ELSE wire
    /\ UNCHANGED <<form, store, conn, stopped, delay, socket, stopper, status,
                   completed, resumed, asked, subscribed, turns>>

\* The task ends and emits run_finished; the handler forwards it and returns.
Finish(r, end) ==
    /\ wire' = IF r \in subscribed
               THEN [wire EXCEPT ![r] = @ \o <<[kind |-> "run_finished", status |-> end],
                                              [kind |-> "close"]>>]
               ELSE wire
    /\ subscribed' = subscribed \ {r}

TaskEnds(r, end) ==
    /\ Executing(r)
    /\ IF end = "done" THEN position[r] = Len(Script) ELSE r \in Fallible
    /\ Finish(r, end)
    /\ status' = [status EXCEPT ![r] = end]
    /\ completed' = IF end = "done" THEN completed \cup {r} ELSE completed
    /\ UNCHANGED <<form, store, conn, stopped, delay, socket, stopper, position, sent, resumed,
                   asked, turns>>

\* pause_run and kill_run: a task that executes is cancelled first, reports
\* "killed", and then the status is set.
Halt(r, a) ==
    /\ IF Executing(r) THEN Finish(r, "killed")
                          ELSE UNCHANGED <<wire, subscribed>>
    /\ status' = IF status[r] = "absent" THEN status
                 ELSE [status EXCEPT ![r] = IF a = "pause" THEN "paused" ELSE "killed"]
    /\ UNCHANGED <<position, resumed>>

\* resume_run, which starts over (module RunServer), or refuses.
Resume(r) ==
    /\ IF status[r] = "paused"
       THEN /\ status' = [status EXCEPT ![r] = "running"]
            /\ position' = [position EXCEPT ![r] = 0]
            /\ resumed' = resumed \cup {r}
       ELSE UNCHANGED <<status, position, resumed>>
    /\ UNCHANGED <<wire, subscribed>>

Handle(r, a) ==
    /\ \/ a = "resume" /\ Resume(r)
       \/ a # "resume" /\ Halt(r, a)
    /\ UNCHANGED <<form, store, conn, stopped, delay, socket, stopper, sent, completed>>

PatchArrives(r, a) ==
    /\ a \in asked[r]
    /\ asked' = [asked EXCEPT ![r] = @ \ {a}]
    /\ Handle(r, a)
    /\ UNCHANGED turns

\* Another client of the HTTP API asks for what changes something.
OtherAsks(r, a) ==
    /\ status[r] # "absent"
    /\ a = "resume" => status[r] = "paused"
    /\ Turn
    /\ Handle(r, a)
    /\ UNCHANGED asked

Ending(w) == w # << >> /\ w[Len(w)].kind = "close"

\* What of the connection's frames still arrives, before its end is noticed.
Cut(w, k) == SubSeq(w, 1, k) \o <<[kind |-> "close"]>>

\* A connection breaks, or is not made; of what is under way the browser
\* still gets the beginning.
Break(r) ==
    /\ Turn
    /\ conn[r] \in {"connecting", "open"}
    /\ ~Ending(wire[r])
    /\ \E k \in 0..Len(wire[r]) : wire' = [wire EXCEPT ![r] = Cut(@, k)]
    /\ subscribed' = subscribed \ {r}
    /\ UNCHANGED <<form, store, conn, stopped, delay, socket, stopper, task, asked>>

\* `fleet ui` is restarted: _RUNS and its tasks are gone, connections break.
Crash ==
    /\ Turn
    /\ status' = [r \in Runs |-> "absent"]
    /\ asked' = [r \in Runs |-> {}]
    /\ subscribed' = {}
    /\ wire' = [r \in Runs |->
                  IF r \in subscribed THEN Cut(wire[r], Len(wire[r])) ELSE wire[r]]
    /\ UNCHANGED <<form, store, conn, stopped, delay, socket, stopper, position, sent, completed,
                   resumed>>

-------------------------------------------------------------------------------
Browser(r) == OnOpen(r) \/ OnMessage(r) \/ OnFinished(r) \/ OnClose(r) \/ Timer(r)

\* Nothing is left to do but what nobody is obliged to do.
Idle ==
    /\ \A r \in Runs : ~Executing(r)
    /\ \A r \in Runs : /\ wire[r] = << >>
                       /\ conn[r] \notin {"timer", "connecting"}
                       /\ asked[r] = {}
                       /\ post[r] \notin {"posted", "answered"}
    /\ UNCHANGED vars

Next ==
    \/ SwitchTab
    \/ \E r \in Runs : Start(r) \/ RunSpec(r) \/ Answered(r) \/ PostFails(r)
    \/ \E a \in Requests : Patch(a)
    \/ \E r \in Runs : Browser(r)
    \/ \E r \in Runs : Create(r) \/ Accept(r) \/ Emit(r) \/ Break(r)
    \/ \E r \in Runs, end \in {"done", "error"} : TaskEnds(r, end)
    \/ \E r \in Runs, a \in Requests : PatchArrives(r, a) \/ OtherAsks(r, a)
    \/ Crash
    \/ Idle

\* The event loops of browser and server run what is ready, and the timer of a
\* reconnect fires.  Nothing obliges the user, other clients, the network or
\* the server to start, ask, break or crash.
Fairness == \A r \in Runs : WF_vars(Browser(r)) /\ WF_vars(Accept(r))

Spec == Init /\ [][Next]_vars /\ Fairness

-------------------------------------------------------------------------------
\* What the user sees.

\* What the right rail lists while run r is active, whichever node is selected:
\* of the run's entries only those of the role "tool" without a tool name are
\* left out, and dispatchEvent makes none.
PanelLog(r) == log[r]

\* The nodes that the canvas shows some run to have reached.
Reached == {n \in Nodes : nodes[n].by # None}

-------------------------------------------------------------------------------
\* Properties.

\* The log of a run has its frames in the order in which the run emitted them,
\* none of them twice, however often the connection broke and was made again,
\* and by whichever closure of connect().
LogInOrder ==
    \A r \in Runs : \A i, j \in DOMAIN PanelLog(r) :
        i < j => PanelLog(r)[i].id < PanelLog(r)[j].id

\* A run shown as "done" has run to its end, and a run shown as ended is not
\* executing; one shown as "killed" was halted, though perhaps only paused.  The
\* exception is a run resumed behind the back of the UI, which no longer listens.
EndShownIsTrue ==
    \A r \in Runs :
        /\ shown[r] = "done" => r \in completed
        /\ shown[r] \in Terminal /\ r \notin resumed => ~Executing(r)
        /\ shown[r] = "killed" /\ r \notin resumed =>
             status[r] \in {"killed", "paused", "absent"}

\* The task of the active run has ended by itself.
Over(r) == active = r /\ status[r] \in {"done", "error"}

\* Something will let the browser hear of run r: a timer that connects again, a
\* connection that the server has yet to accept, events on their way, or a
\* handler on the bus of a run that is executing.
UnderWay(r) ==
    \/ conn[r] = "timer"
    \/ Unaccepted(r)
    \/ wire[r] # << >>
    \/ r \in subscribed /\ Executing(r)

\* Nobody reports that run r was halted: its handler came to the bus when the task
\* had been cancelled already, for ws_run sends a status to the late only if it is
\* final, and kill_run emits nothing for a task that is done.
HaltUnseen(r) == r \in subscribed /\ status[r] \in {"paused", "killed"}

\* The hook has given a run up because the ending of another run, whose
\* connection outlived the switch, set the stoppedRef they share.
GivenUp(r) == conn[r] = "dead" /\ stopper \notin {None, r}

\* There are two ways only to be shown as running for good: the end of another run
\* has made the hook give this one up, or the browser connected when it had been
\* paused already (and may have been killed since).  Otherwise something is under
\* way that will tell of the run; one that executes, has ended by itself or was lost
\* with the server is never left without.
RunningIsWatched ==
    active # None /\ shown[active] = "running" =>
        IF conn[active] = "dead" THEN GivenUp(active)
        ELSE UnderWay(active) \/ HaltUnseen(active)

\* The canvas shows what the active run did to its nodes, and not what an
\* earlier one did: every frame of a run that was seen to end came before.  The
\* exceptions are a run started beside another one, which only the disabled
\* Start button prevents, and a run that was resumed when the UI had left it.
CanvasIsOfActive ==
    ~overlap => \A n \in Reached : nodes[n].by \in {active} \cup resumed

\* That the task of the active run has ended by itself reaches the UI, over any
\* number of connections that break, unless the hook has given the run up.  Of runs
\* that were killed it says nothing (HaltUnseen).
EndReachesUi ==
    \A r \in Runs : Over(r) ~> (~Over(r) \/ shown[r] # "running" \/ GivenUp(r))

-------------------------------------------------------------------------------
\* What does not hold.

\* useFleetWS.ts: "reconnect with exponential back-off on disconnect".
ActiveRunIsWatched == active # None /\ shown[active] = "running" => conn[active] # "dead"

-------------------------------------------------------------------------------
\* Why the safety properties hold: the inductive invariant of the proofs.

IsFrame(e) == e.kind \in Kinds
IsEnd(e) == e.kind = "run_finished"

\* Until the answer to its POST a run has no socket and is not shown.
KnownRuns ==
    /\ \A r \in Runs :
         IF post[r] = "known" THEN shown[r] \in Terminal \cup {"running"}
         ELSE conn[r] = "none" /\ wire[r] = << >> /\ shown[r] = "absent" /\ r \notin subscribed
    /\ active # None => post[active] = "known"

\* What is on the wire continues the log.
InOrder(r, w) ==
    /\ \A i \in DOMAIN w : IsFrame(w[i]) =>
         w[i].id <= sent[r] /\ \A k \in DOMAIN log[r] : log[r][k].id < w[i].id
    /\ \A i, j \in DOMAIN w : i < j /\ IsFrame(w[i]) /\ IsFrame(w[j]) => w[i].id < w[j].id

\* What an announced or shown end says of the run.
EndIsTrue(r, end) ==
    /\ end = "done" => r \in completed
    /\ r \notin resumed => ~Executing(r)
    /\ end = "killed" /\ r \notin resumed => status[r] \in {"killed", "paused", "absent"}

\* After the end nothing comes but by way of a resume.
EndsAreLast(r, w) ==
    /\ \A i \in DOMAIN w : IsEnd(w[i]) => EndIsTrue(r, w[i].status)
    /\ r \notin resumed => \A i, j \in DOMAIN w : IsEnd(w[i]) /\ i < j => ~IsFrame(w[j])
    /\ r \notin resumed /\ shown[r] \in Terminal => \A i \in DOMAIN w : ~IsFrame(w[i])

LogsAreBounded == \A r \in Runs : \A i \in DOMAIN log[r] : log[r][i].id <= sent[r]

WiresFit == \A r \in Runs : InOrder(r, wire[r]) /\ EndsAreLast(r, wire[r])

EndsFit ==
    \A r \in Runs : /\ shown[r] \in Terminal => EndIsTrue(r, shown[r])
                    /\ status[r] = "done" => r \in completed

\* Only a run that is shown as ended has stopped the hook.
StopsFit ==
    /\ stopped => stopper # None
    /\ stopper # None => post[stopper] = "known" /\ shown[stopper] \in Terminal
    /\ \A r \in Runs : conn[r] = "dead" => stopper # None

\* A wire is not closed but at its end.
ClosesLast(w) == \A i \in DOMAIN w : w[i].kind = "close" => i = Len(w)

\* A socket that has been accepted and not closed has either a handler on the bus
\* or its close on the wire; no other has anything.
SocketFits(r) ==
    /\ post[r] = "known" => conn[r] # "none"
    /\ ClosesLast(wire[r])
    /\ IF conn[r] \in {"none", "timer", "dead"} \/ Unaccepted(r)
       THEN wire[r] = << >> /\ r \notin subscribed
       ELSE r \in subscribed <=> ~Ending(wire[r])
    /\ conn[r] = "connecting" /\ ~Unaccepted(r) =>
         wire[r] # << >> /\ wire[r][1].kind \in {"open", "close"}

SocketsFit == \A r \in Runs : SocketFits(r)

\* No handler waits for a run that has ended by itself or is unknown.
HandlersFit == \A r \in subscribed : status[r] \in {"running", "paused", "killed"}

\* While no two runs are beside each other: all but the active one are over, and
\* that one too while a POST is out, which has cleared the canvas.
OneAtATime ==
    ~overlap =>
        /\ \A p, q \in Pending : p = q
        /\ \A r \in Runs : post[r] = "known" /\ (r # active \/ Pending # {}) => shown[r] \in Terminal
        /\ \A n \in Reached : nodes[n].by \in resumed \/ (nodes[n].by = active /\ Pending = {})

IInv ==
    /\ TypeOK /\ KnownRuns /\ LogInOrder /\ LogsAreBounded /\ WiresFit
    /\ EndsFit /\ StopsFit /\ SocketsFit /\ HandlersFit
    /\ OneAtATime

================================================================================
