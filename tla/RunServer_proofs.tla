--------------------------- MODULE RunServer_proofs ---------------------------
(***************************************************************************)
(* Proofs about RunServer, for any number of requests, clients, resumes    *)
(* and node executions.                                                    *)
(***************************************************************************)
EXTENDS RunServer, TLAPS

LEMMA InvInit == Init => IInv
BY MaxTasksAssumption, LengthAssumption
DEF Init, IInv, TypeOK, TasksInOrder, WaitersAsked, CancelledForSomeone, RunningIsBacked,
    AnswerMeansStopped, FinishedOnce, BegunFit, Tasks, Lives, Terminal, Halts, RequestRecords, Alive

\* A task's last step: the status is terminal, the task done, one event emitted.
LEMMA EndTaskKeeps ==
    ASSUME IInv, NEW t \in Tasks, NEW s \in Terminal, EndTask(t, s),
           life[t] \in {"created", "driving", "stopping"},
           orphans' \in {orphans, orphans \cup {t}}, began' = began \cup {t}
    PROVE  IInv'
<1> USE DEF IInv, EndTask, requestVars
<1>1. TypeOK'
  <2>1. queue' \in [Clients -> Seq(Terminal)]
    BY DEF TypeOK, Emit
  <2> QED  BY <2>1 DEF TypeOK, Lives, Terminal
<1>2. TasksInOrder'
  BY DEF TasksInOrder, TypeOK
<1>3. WaitersAsked'
  BY DEF WaitersAsked
<1>4. CancelledForSomeone'
  BY DEF CancelledForSomeone, TypeOK
<1>5. RunningIsBacked'
  BY DEF RunningIsBacked, Terminal
<1>6. AnswerMeansStopped'
  BY DEF AnswerMeansStopped, TypeOK, RequestRecords
<1>7. FinishedOnce'
  BY DEF FinishedOnce, TypeOK, Lives
<1>8. BegunFit'
  BY DEF BegunFit, TypeOK
<1> QED  BY <1>1, <1>2, <1>3, <1>4, <1>5, <1>6, <1>7, <1>8

LEMMA TaskStepKeeps ==
    ASSUME IInv, NEW t \in Tasks, TaskStep(t)
    PROVE  IInv'
<1> USE DEF IInv
<1>1. CASE Begin(t)
  BY <1>1 DEF Begin, TypeOK, TasksInOrder, WaitersAsked, CancelledForSomeone,
     RunningIsBacked, AnswerMeansStopped, FinishedOnce, BegunFit, Alive, Lives, requestVars,
     clientVars
<1>2. CASE LoadFails(t)
  BY <1>2, EndTaskKeeps DEF LoadFails, Terminal
<1>3. CASE NodeCompletes(t)
  <2>1. did[t] + 1 \in 0..Length
    BY <1>3, LengthAssumption DEF NodeCompletes, MoreToDo, TypeOK
  <2> QED
    BY <1>3, <2>1 DEF NodeCompletes, TypeOK, TasksInOrder, WaitersAsked, CancelledForSomeone,
       RunningIsBacked, AnswerMeansStopped, FinishedOnce, BegunFit, Alive, Lives, requestVars,
       clientVars
<1>4. CASE RunReturns(t)
  BY <1>4, EndTaskKeeps DEF RunReturns, Terminal, BegunFit
<1>5. CASE RunRaises(t)
  BY <1>5, EndTaskKeeps DEF RunRaises, Terminal, BegunFit
<1>6. CASE Stop(t)
  BY <1>6, EndTaskKeeps DEF Stop, Terminal, BegunFit
<1>7. CASE NeverBegins(t)
  <2>1. RunningIsBacked'
    BY <1>7 DEF NeverBegins, RunningIsBacked, CancelledForSomeone, TypeOK, Alive, requestVars
  <2>2. AnswerMeansStopped'
    BY <1>7 DEF NeverBegins, AnswerMeansStopped, TypeOK, RequestRecords, requestVars
  <2> QED
    BY <1>7, <2>1, <2>2 DEF NeverBegins, TypeOK, TasksInOrder, WaitersAsked,
       CancelledForSomeone, FinishedOnce, BegunFit, Lives, requestVars, clientVars
<1> QED
  BY <1>1, <1>2, <1>3, <1>4, <1>5, <1>6, <1>7 DEF TaskStep

LEMMA AppendFacts ==
    ASSUME NEW S, NEW s \in Seq(S), NEW e \in S
    PROVE  /\ Append(s, e) \in Seq(S)
           /\ Append(s, e) # << >>
           /\ \A i \in 1..Len(Append(s, e)) : IF i \in 1..Len(s) THEN Append(s, e)[i] = s[i]
                                                               ELSE Append(s, e)[i] = e
<1>1. Append(s, e) \in Seq(S) /\ Len(s) \in Nat /\ Len(Append(s, e)) = Len(s) + 1
  OBVIOUS
<1>2. Append(s, e) # << >>
  <2>1. Len(Append(s, e)) # Len(<< >>)
    BY <1>1
  <2> QED  BY <2>1, Zenon
<1>3. \A i \in 1..Len(s) : Append(s, e)[i] = s[i]
  OBVIOUS
<1>4. \A i \in 1..Len(Append(s, e)) : i \notin 1..Len(s) => i = Len(s) + 1
  BY <1>1
<1>5. Append(s, e)[Len(s) + 1] = e
  OBVIOUS
<1> QED  BY <1>1, <1>2, <1>3, <1>4, <1>5

\* A request joins the waiters of the task it has cancelled.
LEMMA HaltKeeps ==
    ASSUME IInv, NEW r \in Requests, NEW halt \in Halts, Halt(r, halt)
    PROVE  IInv'
<1> USE DEF IInv, Halt, clientVars
<1>1. task \in Tasks /\ Cancelled(life[task]) \in Lives
  BY DEF TypeOK, Cancelled, Lives
<1>2. /\ waiters' \in [Tasks -> Seq(Requests)]
      /\ waiters'[task] = Append(waiters[task], r) /\ waiters'[task] # << >>
      /\ \A t \in Tasks \ {task} : waiters'[t] = waiters[t]
  <2>1. /\ waiters \in [Tasks -> Seq(Requests)] /\ waiters[task] \in Seq(Requests)
        /\ r \in Requests
    BY <1>1 DEF TypeOK
  <2>2. Append(waiters[task], r) \in Seq(Requests) /\ Append(waiters[task], r) # << >>
    BY ONLY <2>1, AppendFacts
  <2>3. waiters' = [waiters EXCEPT ![task] = Append(waiters[task], r)]
    OBVIOUS
  <2> QED  BY ONLY <1>1, <2>1, <2>2, <2>3
<1>3. TypeOK'
  BY <1>1, <1>2 DEF TypeOK, RequestRecords, Tasks
<1>4. TasksInOrder'
  BY <1>1 DEF TasksInOrder, Cancelled, TypeOK, Tasks
<1>5. WaitersAsked'
  <2> SUFFICES ASSUME NEW t \in Tasks, NEW i \in 1..Len(waiters'[t])
               PROVE  LET q == request'[waiters'[t][i]]
                      IN  q.asks \in Halts /\ q.of = t /\ q.answer = "waiting"
    BY DEF WaitersAsked
  <2>1. CASE i \in 1..Len(waiters[t])
    <3>1. waiters'[t][i] = waiters[t][i] /\ waiters[t][i] \in Requests
      BY <1>2, <2>1, AppendFacts DEF TypeOK
    <3>2. waiters[t][i] # r
      BY <2>1 DEF WaitersAsked, Halts
    <3> QED  BY <2>1, <3>1, <3>2 DEF WaitersAsked, TypeOK
  <2>2. CASE i \notin 1..Len(waiters[t])
    <3>1. t = task
      BY <1>2, <2>2
    <3>2. waiters'[t][i] = r
      BY <1>1, <1>2, <2>2, <3>1, AppendFacts DEF TypeOK
    <3> QED  BY <3>1, <3>2 DEF TypeOK
  <2> QED  BY <2>1, <2>2
<1>6. CancelledForSomeone'
  BY <1>1, <1>2 DEF CancelledForSomeone, Cancelled, TypeOK
<1>7. RunningIsBacked'
  BY <1>2 DEF RunningIsBacked
<1>8. AnswerMeansStopped'
  BY DEF AnswerMeansStopped, TypeOK, RequestRecords, Halts
<1>9. FinishedOnce' /\ BegunFit'
  BY <1>1 DEF FinishedOnce, BegunFit, TypeOK, Lives, Cancelled
<1> QED  BY <1>3, <1>4, <1>5, <1>6, <1>7, <1>8, <1>9

LEMMA RequestStepKeeps ==
    ASSUME IInv, NEW r \in Requests, RequestStep(r)
    PROVE  IInv'
<1> USE DEF IInv
<1>1. ASSUME NEW halt \in Halts, Halt(r, halt) PROVE IInv'
  BY <1>1, HaltKeeps
<1>2. ASSUME NEW halt \in Halts, HaltEnded(r, halt) PROVE IInv'
  <2> USE <1>2 DEF HaltEnded, taskVars, clientVars
  <2>1. TypeOK'
    <3>1. [asks |-> halt, of |-> task, answer |-> "ok"] \in RequestRecords
      BY DEF TypeOK, RequestRecords, Tasks
    <3>2. request' \in [Requests -> RequestRecords]
      BY <3>1 DEF TypeOK
    <3> QED  BY <3>2 DEF TypeOK, Halts, Terminal
  <2>2. TasksInOrder' /\ CancelledForSomeone' /\ FinishedOnce' /\ BegunFit'
    BY DEF TasksInOrder, CancelledForSomeone, FinishedOnce, BegunFit
  <2>3. WaitersAsked'
    BY DEF TypeOK, WaitersAsked, Halts
  <2>4. RunningIsBacked'
    BY DEF RunningIsBacked, Halts
  <2>5. AnswerMeansStopped'
    BY DEF TypeOK, AnswerMeansStopped
  <2> QED  BY <2>1, <2>2, <2>3, <2>4, <2>5
<1>3. CASE Resume(r)
  <2>1. task + 1 \in Tasks /\ life[task + 1] = "absent" /\ task \in Nat
    BY <1>3, MaxTasksAssumption DEF Resume, TypeOK, Tasks, TasksInOrder
  <2>2. TypeOK'
    BY <1>3, <2>1 DEF Resume, TypeOK, Lives, RequestRecords, Tasks, clientVars
  <2>3. TasksInOrder' /\ RunningIsBacked'
    BY <1>3, <2>1 DEF Resume, TypeOK, TasksInOrder, RunningIsBacked, Alive, Tasks
  <2>4. WaitersAsked' /\ CancelledForSomeone'
    BY <1>3, <2>1, SMTT(20) DEF Resume, TypeOK, WaitersAsked, CancelledForSomeone, Halts
  <2>5. AnswerMeansStopped'
    BY <1>3, <2>1 DEF Resume, TypeOK, AnswerMeansStopped, Halts, RequestRecords
  <2>6. FinishedOnce' /\ BegunFit'
    BY <1>3, <2>1 DEF Resume, TypeOK, FinishedOnce, BegunFit, Lives
  <2> QED  BY <2>2, <2>3, <2>4, <2>5, <2>6
<1>4. CASE ResumeRefused(r)
  <2> USE <1>4 DEF ResumeRefused, taskVars, clientVars
  <2>1. TypeOK'
    <3>1. [asks |-> "resume", of |-> 0, answer |-> "refused"] \in RequestRecords
      BY MaxTasksAssumption DEF RequestRecords
    <3>2. request' \in [Requests -> RequestRecords]
      BY <3>1 DEF TypeOK
    <3> QED  BY <3>2 DEF TypeOK
  <2>2. /\ TasksInOrder' /\ CancelledForSomeone' /\ FinishedOnce' /\ BegunFit'
        /\ RunningIsBacked'
    BY DEF TasksInOrder, CancelledForSomeone, FinishedOnce, BegunFit, RunningIsBacked, Alive
  <2>3. WaitersAsked'
    BY DEF TypeOK, WaitersAsked, Halts
  <2>4. AnswerMeansStopped'
    BY DEF TypeOK, AnswerMeansStopped, Halts
  <2> QED  BY <2>1, <2>2, <2>3, <2>4
<1> QED  BY <1>1, <1>2, <1>3, <1>4 DEF RequestStep

\* The waiters of a task that is done all answer, and the last one sets the status.
LEMMA WakeKeeps ==
    ASSUME IInv, NEW t \in Tasks, Wake(t)
    PROVE  IInv'
<1> USE DEF IInv, Wake, MayWake, Answered, taskVars, clientVars
<1>1. Len(waiters[t]) \in 1..Len(waiters[t])
  BY DEF TypeOK
<1>2. request[waiters[t][Len(waiters[t])]].asks \in Halts
  BY <1>1 DEF WaitersAsked
<1>3. TypeOK'
  <2>1. \A r \in Requests : Answered(request[r]) \in RequestRecords
    BY DEF TypeOK, RequestRecords
  <2>2. request' \in [Requests -> RequestRecords]
    BY <2>1 DEF TypeOK
  <2>3. waiters' \in [Tasks -> Seq(Requests)]
    BY DEF TypeOK
  <2>4. status' \in Halts
    BY <1>2
  <2> QED  BY <2>2, <2>3, <2>4 DEF TypeOK, Halts, Terminal
<1>4. TasksInOrder' /\ FinishedOnce' /\ BegunFit' /\ CancelledForSomeone'
  BY DEF TasksInOrder, FinishedOnce, BegunFit, CancelledForSomeone, TypeOK
<1>5. WaitersAsked'
  <2> SUFFICES ASSUME NEW u \in Tasks, NEW i \in 1..Len(waiters'[u])
               PROVE  LET q == request'[waiters'[u][i]]
                      IN  q.asks \in Halts /\ q.of = u /\ q.answer = "waiting"
    BY DEF WaitersAsked
  <2>1. u # t /\ waiters'[u] = waiters[u] /\ waiters[u][i] \in Requests
    BY DEF TypeOK
  <2>2. request[waiters[u][i]].of = u
    BY <2>1 DEF WaitersAsked
  <2>3. \A j \in 1..Len(waiters[t]) : waiters[t][j] # waiters[u][i]
    BY <2>1, <2>2 DEF WaitersAsked
  <2>4. request'[waiters[u][i]] = request[waiters[u][i]]
    BY <2>1, <2>3
  <2> QED  BY <2>1, <2>4 DEF WaitersAsked
<1>6. RunningIsBacked'
  BY <1>2 DEF RunningIsBacked, Halts
<1>7. AnswerMeansStopped'
  <2> SUFFICES ASSUME NEW r \in Requests, request'[r].asks \in Halts, request'[r].answer = "ok"
               PROVE  life'[request'[r].of] = "done"
    BY DEF AnswerMeansStopped
  <2>1. CASE \E i \in 1..Len(waiters[t]) : waiters[t][i] = r
    BY <2>1 DEF WaitersAsked, TypeOK, RequestRecords
  <2>2. CASE ~ \E i \in 1..Len(waiters[t]) : waiters[t][i] = r
    BY <2>2 DEF AnswerMeansStopped
  <2> QED  BY <2>1, <2>2
<1> QED  BY <1>3, <1>4, <1>5, <1>6, <1>7

\* Orphans and clients change nothing the invariant speaks of.
LEMMA OtherStepsKeep ==
    ASSUME IInv,
           \/ \E t \in Tasks : OrphanEnds(t)
           \/ \E c \in Clients : ClientStep(c)
           \/ Quiet
           \/ UNCHANGED vars
    PROVE  IInv'
<1> USE DEF IInv, TasksInOrder, WaitersAsked, CancelledForSomeone, RunningIsBacked,
            AnswerMeansStopped, FinishedOnce, BegunFit, Alive, taskVars, requestVars, clientVars
<1>1. ASSUME NEW t \in Tasks, OrphanEnds(t) PROVE IInv'
  BY <1>1 DEF OrphanEnds, TypeOK
<1>2. ASSUME NEW c \in Clients, ClientStep(c) PROVE IInv'
  <2>1. TypeOK'
    <3>1. CASE ConnectLate(c)
      BY <3>1 DEF ConnectLate, TypeOK
    <3>2. CASE Connect(c)
      BY <3>2 DEF Connect, TypeOK
    <3>3. CASE Deliver(c)
      BY <3>3 DEF Deliver, TypeOK
    <3> QED  BY <1>2, <3>1, <3>2, <3>3 DEF ClientStep
  <2> QED  BY <1>2, <2>1 DEF ClientStep, ConnectLate, Connect, Deliver
<1>3. CASE Quiet \/ UNCHANGED vars
  BY <1>3 DEF Quiet, vars, TypeOK
<1> QED  BY <1>1, <1>2, <1>3

THEOREM InductiveInvariant == Spec => []IInv
<1>1. IInv /\ [Next]_vars => IInv'
  BY TaskStepKeeps, RequestStepKeeps, WakeKeeps, OtherStepsKeep DEF Next
<1> QED  BY <1>1, InvInit, PTL DEF Spec

\* Every variable of the server keeps its type.
THEOREM TypeCorrect == Spec => []TypeOK
<1>1. IInv => TypeOK
  BY DEF IInv
<1> QED  BY <1>1, InductiveInvariant, PTL

\* Requests: who waits stays among the waiters until all of them are answered.
LEMMA WaitersStay ==
    ASSUME IInv, NobodyIsForgotten, [Next]_vars,
           NEW r \in Requests, request'[r].answer = "waiting"
    PROVE  LET t == request'[r].of IN
              t \in 1..task' /\ \E i \in 1..Len(waiters'[t]) : waiters'[t][i] = r
<1> DEFINE Waits(q) == LET t == request[q].of IN
                          t \in 1..task /\ \E i \in 1..Len(waiters[t]) : waiters[t][i] = q
<1>0. TypeOK /\ (request[r].answer = "waiting" => Waits(r))
  BY DEF IInv, NobodyIsForgotten
<1>1. CASE UNCHANGED <<request, waiters, task>>
  BY <1>0, <1>1
<1>2. ASSUME NEW u \in Requests, NEW halt \in Halts, Halt(u, halt) PROVE Waits(r)'
  <2>1. task \in Tasks /\ task \in Nat /\ waiters[task] \in Seq(Requests)
    BY <1>0, MaxTasksAssumption DEF TypeOK, Tasks
  <2>2. /\ waiters' = [waiters EXCEPT ![task] = Append(@, u)] /\ task' = task
        /\ request' = [request EXCEPT ![u] = [asks |-> halt, of |-> task, answer |-> "waiting"]]
    BY <1>2 DEF Halt
  <2>3. waiters'[task] = Append(waiters[task], u)
    BY <1>0, <2>1, <2>2 DEF TypeOK
  <2>4. /\ Len(Append(waiters[task], u)) = Len(waiters[task]) + 1 /\ Len(waiters[task]) \in Nat
        /\ Append(waiters[task], u)[Len(waiters[task]) + 1] = u
        /\ \A i \in 1..Len(waiters[task]) : Append(waiters[task], u)[i] = waiters[task][i]
    BY <2>1
  <2>5. CASE r = u
    <3>1. request'[r].of = task
      BY <1>0, <2>2, <2>5 DEF TypeOK
    <3>2. Len(waiters[task]) + 1 \in 1..Len(waiters'[task]) /\ task \in 1..task'
      BY <2>1, <2>2, <2>3, <2>4 DEF Tasks
    <3> QED  BY <2>3, <2>4, <2>5, <3>1, <3>2
  <2>6. CASE r # u
    <3> DEFINE t == request[r].of
    <3>1. request'[r] = request[r]
      BY <2>2, <2>6, <1>0 DEF TypeOK
    <3>2. PICK i \in 1..Len(waiters[t]) : waiters[t][i] = r
      BY <1>0, <3>1
    <3>3. t \in 1..task' /\ t \in Tasks
      <4>1. t \in 1..task
        BY <1>0, <3>1
      <4>2. \A n \in 1..MaxTasks : 1..n \subseteq 1..MaxTasks
        BY MaxTasksAssumption
      <4> QED  BY <2>1, <2>2, <4>1, <4>2 DEF Tasks
    <3>4. i \in 1..Len(waiters'[t]) /\ waiters'[t][i] = r
      <4>1. CASE t = task
        BY <2>3, <2>4, <3>2, <4>1
      <4>2. CASE t # task
        BY <1>0, <2>2, <3>2, <3>3, <4>2 DEF TypeOK
      <4> QED  BY <4>1, <4>2
    <3> QED  BY <3>1, <3>3, <3>4
  <2> QED  BY <2>5, <2>6
<1>3. ASSUME NEW u \in Requests, \/ \E halt \in Halts : HaltEnded(u, halt)
                                 \/ Resume(u) \/ ResumeRefused(u)
      PROVE  Waits(r)'
  <2>1. /\ waiters' = waiters /\ task' \in {task, task + 1}
        /\ request'[u].answer \in {"ok", "refused"}
        /\ \A q \in Requests \ {u} : request'[q] = request[q]
    BY <1>0, <1>3 DEF HaltEnded, Resume, ResumeRefused, taskVars, TypeOK
  <2>2. request'[r] = request[r]
    BY <2>1
  <2>3. task \in Nat
    BY <1>0, MaxTasksAssumption DEF TypeOK, Tasks
  <2>4. 1..task \subseteq 1..task'
    BY <2>1, <2>3
  <2> QED  BY <1>0, <2>1, <2>2, <2>4
<1>4. ASSUME NEW t \in Tasks, Wake(t) PROVE Waits(r)'
  <2>1. /\ task' = task /\ waiters' = [waiters EXCEPT ![t] = << >>]
        /\ request'[r] = IF \E i \in 1..Len(waiters[t]) : waiters[t][i] = r
                         THEN Answered(request[r]) ELSE request[r]
    BY <1>4 DEF Wake, taskVars
  <2>2. ~ \E i \in 1..Len(waiters[t]) : waiters[t][i] = r
    BY <2>1 DEF Answered
  <2>3. request'[r] = request[r] /\ Waits(r)
    BY <1>0, <2>1, <2>2
  <2>4. request[r].of # t
    BY <2>2, <2>3
  <2>5. waiters'[request[r].of] = waiters[request[r].of]
    BY <1>0, <2>1, <2>3, <2>4 DEF TypeOK, Tasks
  <2> QED  BY <2>1, <2>3, <2>5
<1>5. ASSUME \/ \E t \in Tasks : TaskStep(t) \/ OrphanEnds(t)
             \/ \E c \in Clients : ClientStep(c)
             \/ Quiet \/ UNCHANGED vars
      PROVE  UNCHANGED <<request, waiters, task>>
  <2>1. CASE \E t \in Tasks : TaskStep(t) \/ OrphanEnds(t)
    BY <2>1 DEF TaskStep, Begin, LoadFails, NodeCompletes, RunReturns, RunRaises, Stop, NeverBegins,
       EndTask, OrphanEnds, requestVars
  <2>2. CASE \E c \in Clients : ClientStep(c)
    BY <2>2 DEF ClientStep, ConnectLate, Connect, Deliver, requestVars, taskVars
  <2> QED  BY <1>5, <2>1, <2>2 DEF Quiet, vars
<1> QED  BY <1>1, <1>2, <1>3, <1>4, <1>5 DEF Next, RequestStep

\* Clients: the step that ends the run puts the frame into their queues.
LEMMA ClientsHear ==
    ASSUME IInv, NobodyIsForgotten, [Next]_vars, status' \in {"done", "error"},
           NEW c \in Clients, client'[c] = "open"
    PROVE  queue'[c] # << >>
<1>0. TypeOK /\ WaitersAsked
  BY DEF IInv
<1>1. CASE UNCHANGED <<status, client, queue>>
  BY <1>1 DEF NobodyIsForgotten
<1>2. ASSUME NEW t \in Tasks, NEW s, EndTask(t, s) PROVE queue'[c] # << >>
  <2>1. client[c] = "open" /\ queue' = [d \in Clients |-> IF client[d] = "open" THEN Append(queue[d], s)
                                                                               ELSE queue[d]]
    BY <1>2 DEF EndTask, Emit
  <2>2. queue'[c] = Append(queue[c], s)
    BY <2>1
  <2>3. \A q : q \in Seq(Terminal) => Len(Append(q, s)) = Len(q) + 1 /\ Len(q) \in Nat
    OBVIOUS
  <2>4. Len(queue'[c]) # 0
    BY <1>0, <2>2, <2>3 DEF TypeOK
  <2> QED  BY <2>4
<1>3. ASSUME NEW t \in Tasks, TaskStep(t) \/ OrphanEnds(t)
      PROVE  UNCHANGED <<status, client, queue>> \/ \E s : EndTask(t, s)
  BY <1>3 DEF TaskStep, Begin, LoadFails, NodeCompletes, RunReturns, RunRaises, Stop, NeverBegins,
     OrphanEnds, clientVars
<1>4. ASSUME NEW d \in Clients, ClientStep(d) PROVE queue'[c] # << >>
  <2>1. status' = status
    BY <1>4 DEF ClientStep, ConnectLate, Connect, Deliver
  <2>2. CASE c # d
    <3>1. client'[c] = client[c] /\ queue'[c] = queue[c]
      BY <1>0, <1>4, <2>2 DEF ClientStep, ConnectLate, Connect, Deliver, TypeOK
    <3> QED  BY <2>1, <3>1 DEF NobodyIsForgotten
  <2>3. CASE c = d
    <3>1. CASE Connect(d)
      BY <2>1, <3>1 DEF Connect, Terminal
    <3>2. CASE ConnectLate(d) \/ Deliver(d)
      BY <1>0, <2>3, <3>2 DEF ConnectLate, Deliver, TypeOK
    <3> QED  BY <1>4, <3>1, <3>2 DEF ClientStep
  <2> QED  BY <2>2, <2>3
<1>5. ASSUME NEW r \in Requests, RequestStep(r) PROVE UNCHANGED <<status, client, queue>>
  BY <1>5 DEF RequestStep, Halt, HaltEnded, Resume, ResumeRefused, Halts, clientVars
<1>6. ASSUME NEW t \in Tasks, Wake(t) PROVE FALSE
  <2>1. Len(waiters[t]) \in 1..Len(waiters[t])
    BY <1>0, <1>6 DEF Wake, TypeOK
  <2>2. status' \in Halts
    BY <1>0, <1>6, <2>1 DEF Wake, WaitersAsked
  <2> QED  BY <2>2 DEF Halts
<1>7. CASE Quiet \/ UNCHANGED vars
  BY <1>1, <1>7 DEF Quiet, vars
<1> QED  BY <1>1, <1>2, <1>3, <1>4, <1>5, <1>6, <1>7 DEF Next

\* No run is left "running" with nothing that will end it, pause and kill answer
\* after the task they cancelled is over, none of them waits where nobody will
\* answer it, and the clients of a run that ended by itself have its end.
THEOREM StatusCanBeTrusted == Spec => []StatusIsTrue
<1>1. Init => NobodyIsForgotten
  BY DEF Init, NobodyIsForgotten
<1>2. IInv /\ NobodyIsForgotten /\ [Next]_vars => NobodyIsForgotten'
  BY WaitersStay, ClientsHear DEF NobodyIsForgotten
<1>3. IInv /\ NobodyIsForgotten => StatusIsTrue
  BY DEF IInv, StatusIsTrue
<1> QED  BY <1>1, <1>2, <1>3, InductiveInvariant, PTL DEF Spec

\* A task that has entered its try statement has emitted run_finished exactly once
\* when it is done, and none before; one cancelled before its first step never does.
THEOREM EndIsEmittedOnce == Spec => []FinishedOnce
<1>1. IInv => FinishedOnce
  BY DEF IInv
<1> QED  BY <1>1, InductiveInvariant, PTL
===============================================================================
