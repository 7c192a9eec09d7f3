--------------------------- MODULE UiSession_proofs ---------------------------
(***************************************************************************)
(* Proofs about UiSession, for any number of runs, any script and delays,  *)
(* and any number of lost connections, restarts and requests.              *)
(***************************************************************************)
EXTENDS UiSession, TLAPS

LEMMA TailFacts ==
    ASSUME NEW S, NEW s \in Seq(S), s # << >>
    PROVE  /\ Head(s) = s[1] /\ Head(s) \in S /\ 1 \in DOMAIN s
           /\ Tail(s) \in Seq(S)
           /\ \A i \in DOMAIN Tail(s) : i \in 1..Len(s) /\ i + 1 \in DOMAIN s /\ Tail(s)[i] = s[i + 1]
<1>1. Len(s) \in Nat /\ Len(s) > 0 /\ DOMAIN s = 1..Len(s)
  OBVIOUS
<1>2. Tail(s) \in Seq(S) /\ Len(Tail(s)) = Len(s) - 1 /\ DOMAIN Tail(s) = 1..Len(Tail(s))
  BY <1>1
<1>3. \A i \in 1..Len(Tail(s)) : Tail(s)[i] = s[i + 1]
  BY <1>1
<1> QED  BY <1>1, <1>2, <1>3

LEMMA AppendFacts ==
    ASSUME NEW S, NEW s \in Seq(S), NEW e \in S
    PROVE  /\ Append(s, e) \in Seq(S)
           /\ DOMAIN Append(s, e) = DOMAIN s \cup {Len(s) + 1}
           /\ DOMAIN s = 1..Len(s) /\ Len(s) \in Nat
           /\ \A i \in DOMAIN s : Append(s, e)[i] = s[i]
           /\ Append(s, e)[Len(s) + 1] = e
<1>1. Len(s) \in Nat /\ DOMAIN s = 1..Len(s)
  OBVIOUS
<1>2. /\ Append(s, e) \in Seq(S)
      /\ DOMAIN Append(s, e) = 1..Len(s) + 1
      /\ \A i \in 1..Len(s) : Append(s, e)[i] = s[i]
      /\ Append(s, e)[Len(s) + 1] = e
  OBVIOUS
<1> QED  BY <1>1, <1>2

\* One after the other, two events are appended.
LEMMA AppendTwoFacts ==
    ASSUME NEW S, NEW s \in Seq(S), NEW e \in S, NEW f \in S
    PROVE  s \o <<e, f>> = Append(Append(s, e), f)
OBVIOUS

LEMMA CutFacts ==
    ASSUME NEW w \in Seq(Events), NEW k \in 0..Len(w)
    PROVE  /\ Cut(w, k) \in Seq(Events)
           /\ DOMAIN Cut(w, k) = 1..k + 1
           /\ \A i \in 1..k : i \in DOMAIN w /\ Cut(w, k)[i] = w[i]
           /\ Cut(w, k)[k + 1].kind = "close"
<1> DEFINE c == [kind |-> "close"]
           v == SubSeq(w, 1, k)
<1>1. c \in Events /\ c.kind = "close"
  BY DEF Events
<1>2. v \in Seq(Events) /\ Len(v) = k /\ \A i \in 1..k : i \in DOMAIN w /\ v[i] = w[i]
  OBVIOUS
<1>3. Cut(w, k) = v \o <<c>>
  BY DEF Cut
<1> HIDE DEF c, v
<1>4. /\ v \o <<c>> \in Seq(Events) /\ DOMAIN (v \o <<c>>) = 1..k + 1
      /\ \A i \in 1..k : (v \o <<c>>)[i] = v[i]
      /\ (v \o <<c>>)[k + 1] = c
  BY <1>1, <1>2
<1> QED  BY <1>1, <1>2, <1>3, <1>4

--------------------------------------------------------------------------------
\* Types.

\* The parts of TypeOK about browser, server and history; the flags are apart.
BrowserTyped ==
    /\ loading \in Runs \cup {None}
    /\ post \in [Runs -> {"unasked", "posted", "answered", "known", "failed"}]
    /\ active \in Runs \cup {None}
    /\ shown \in [Runs -> Terminal \cup {"absent", "running", "paused"}]
    /\ nodes \in [Nodes -> [status : {"idle", "running", "waiting", "done"}, by : Runs \cup {None}]]
    /\ log \in [Runs -> Seq(LogEntries)]
    /\ conn \in [Runs -> {"none", "connecting", "open", "closing", "timer", "dead"}]
    /\ delay \in BaseDelay..MaxDelay
    /\ socket \in Runs \cup {None}
    /\ stopper \in Runs \cup {None}

ServerTyped ==
    /\ status \in [Runs -> Terminal \cup {"absent", "running", "paused"}]
    /\ position \in [Runs -> 0..Len(Script)]
    /\ sent \in [Runs -> Nat]
    /\ subscribed \in SUBSET Runs
    /\ asked \in [Runs -> SUBSET Requests]
    /\ turns \in 0..MaxTurns
    /\ completed \in SUBSET Runs
    /\ resumed \in SUBSET Runs

WireTyped == wire \in [Runs -> Seq(Events)]
FlagsTyped == stopped \in BOOLEAN /\ overlap \in BOOLEAN

LEMMA TypeParts ==
    /\ TypeOK <=> BrowserTyped /\ ServerTyped /\ WireTyped /\ FlagsTyped
    /\ TypeOK' <=> BrowserTyped' /\ ServerTyped' /\ WireTyped' /\ FlagsTyped'
BY DEF TypeOK, BrowserTyped, ServerTyped, WireTyped, FlagsTyped

browserVars == <<loading, post, active, shown, nodes, log, conn, delay, socket, stopper>>
serverVars == <<status, position, sent, subscribed, asked, turns, completed, resumed>>
flagVars == <<stopped, overlap>>

LEMMA TypesUnchanged ==
    /\ BrowserTyped /\ UNCHANGED browserVars => BrowserTyped'
    /\ ServerTyped /\ UNCHANGED serverVars => ServerTyped'
    /\ WireTyped /\ UNCHANGED wire => WireTyped'
    /\ FlagsTyped /\ UNCHANGED flagVars => FlagsTyped'
BY DEF BrowserTyped, ServerTyped, WireTyped, FlagsTyped, browserVars, serverVars, flagVars

LEMMA TypeInit == Init => TypeOK
<1> SUFFICES ASSUME Init PROVE TypeOK
  OBVIOUS
<1>1. None \notin Runs /\ BaseDelay \in BaseDelay..MaxDelay /\ 0 \in 0..Len(Script) /\ 0 \in 0..MaxTurns
  BY RunsAssumption, DelayAssumption, BoundsAssumption, ScriptAssumption DEF None, Runs
<1>2. BrowserTyped
  BY <1>1 DEF Init, BrowserTyped, Blank
<1>3. ServerTyped
  BY <1>1 DEF Init, ServerTyped
<1>4. WireTyped
  BY DEF Init, WireTyped
<1>5. FlagsTyped
  BY DEF Init, FlagsTyped
<1> QED  BY <1>2, <1>3, <1>4, <1>5, TypeParts

\* The controls.
LEMMA ControlsTyped ==
    ASSUME TypeOK
    PROVE  /\ SwitchTab => TypeOK'
           /\ \A r \in Runs : Start(r) \/ RunSpec(r) \/ Answered(r) \/ PostFails(r) => TypeOK'
           /\ \A a \in Requests : Patch(a) => TypeOK'
<1> USE TypeParts
<1>0. BrowserTyped /\ ServerTyped /\ WireTyped /\ FlagsTyped
  OBVIOUS
<1>1. ASSUME SwitchTab PROVE TypeOK'
  <2>1. UNCHANGED serverVars /\ UNCHANGED wire /\ UNCHANGED flagVars
    BY <1>1 DEF SwitchTab, server, task, hook, serverVars, flagVars
  <2>2. BrowserTyped'
    BY <1>0, <1>1 DEF SwitchTab, BrowserTyped, store, hook
  <2> QED  BY <1>0, <2>1, <2>2, TypesUnchanged
<1>2. ASSUME NEW r \in Runs, Start(r) \/ RunSpec(r) PROVE TypeOK'
  <2>1. PICK beside \in BOOLEAN : Post(r, beside)
    BY <1>2 DEF Start, RunSpec
  <2>2. UNCHANGED serverVars /\ UNCHANGED wire
    BY <2>1 DEF Post, server, task, hook, serverVars
  <2>3. loading' \in Runs \cup {None}
    BY <1>0, <1>2 DEF Start, RunSpec, BrowserTyped
  <2>4. BrowserTyped'
    BY <1>0, <2>1, <2>3 DEF Post, BrowserTyped, hook, Blank
  <2>5. stopped' = stopped /\ overlap' \in BOOLEAN
    BY <2>1 DEF Post, hook
  <2>6. FlagsTyped'
    BY <1>0, <2>5 DEF FlagsTyped
  <2> QED  BY <1>0, <2>2, <2>4, <2>6, TypesUnchanged
<1>3. ASSUME NEW r \in Runs, Answered(r) PROVE TypeOK'
  <2> DEFINE left == Leave(socket)
  <2>1. /\ left[1] \in [Runs -> {"none", "connecting", "open", "closing", "timer", "dead"}]
        /\ left[2] \in [Runs -> Seq(Events)]
        /\ left[3] \in SUBSET Runs
    <3>1. CASE ~Closable(socket)
      BY <1>0, <3>1 DEF Leave, BrowserTyped, ServerTyped, WireTyped
    <3>2. CASE Closable(socket)
      <4>1. <<[kind |-> "close"]>> \in Seq(Events)
        BY DEF Events
      <4> QED  BY <1>0, <3>2, <4>1 DEF Leave, BrowserTyped, ServerTyped, WireTyped
    <3> QED  BY <3>1, <3>2
  <2>2. /\ conn' = [left[1] EXCEPT ![r] = "connecting"] /\ wire' = left[2] /\ socket' = r
        /\ subscribed' = left[3]
    BY <1>3 DEF Answered, NewSocket
  <2> HIDE DEF left
  <2>3. BrowserTyped'
    BY <1>0, <1>3, <2>1, <2>2, DelayAssumption DEF Answered, BrowserTyped
  <2>4. ServerTyped'
    BY <1>0, <1>3, <2>1, <2>2 DEF Answered, ServerTyped, task
  <2>5. WireTyped' /\ FlagsTyped'
    BY <1>0, <1>3, <2>1, <2>2 DEF Answered, WireTyped, FlagsTyped
  <2> QED  BY <2>3, <2>4, <2>5
<1>4. ASSUME NEW r \in Runs, PostFails(r) PROVE TypeOK'
  <2>1. UNCHANGED serverVars /\ UNCHANGED wire /\ UNCHANGED flagVars
    BY <1>4 DEF PostFails, server, task, hook, serverVars, flagVars
  <2>2. BrowserTyped'
    BY <1>0, <1>4 DEF PostFails, BrowserTyped, store, hook
  <2> QED  BY <1>0, <2>1, <2>2, TypesUnchanged
<1>5. ASSUME NEW a \in Requests, Patch(a) PROVE TypeOK'
  <2>1. UNCHANGED browserVars /\ UNCHANGED wire /\ UNCHANGED flagVars
    BY <1>5 DEF Patch, form, store, hook, browserVars, flagVars
  <2>2. turns' \in 0..MaxTurns
    BY <1>0, <1>5, BoundsAssumption DEF Patch, Turn, ServerTyped
  <2>3. asked' \in [Runs -> SUBSET Requests]
    BY <1>0, <1>5 DEF Patch, ServerTyped
  <2>4. ServerTyped'
    BY <1>0, <1>5, <2>2, <2>3 DEF Patch, task, ServerTyped
  <2> QED  BY <1>0, <2>1, <2>4, TypesUnchanged
<1> QED  BY <1>1, <1>2, <1>3, <1>4, <1>5

LEMMA SeenFacts ==
    ASSUME TypeOK, NEW r \in Runs, wire[r] # << >>
    PROVE  /\ Event(r) = wire[r][1] /\ 1 \in DOMAIN wire[r] /\ Event(r) \in Events
           /\ See(r) => /\ WireTyped'
                        /\ wire'[r] = Tail(wire[r])
                        /\ \A q \in Runs \ {r} : wire'[q] = wire[q]
<1>1. wire[r] \in Seq(Events) /\ wire \in [Runs -> Seq(Events)]
  BY DEF TypeOK
<1>2. Head(wire[r]) = wire[r][1] /\ Head(wire[r]) \in Events /\ 1 \in DOMAIN wire[r]
      /\ Tail(wire[r]) \in Seq(Events)
  BY <1>1, TailFacts
<1> QED  BY <1>1, <1>2 DEF Event, See, WireTyped

LEMMA FrameFacts ==
    ASSUME NEW e \in Events, e.kind \in Kinds
    PROVE  e \in LogEntries /\ e.id \in Nat
BY DEF Events, Kinds, StatusAfter, LogEntries

LEMMA EndFacts ==
    ASSUME NEW e \in Events, e.kind = "run_finished"
    PROVE  e.status \in Terminal
BY DEF Events, Kinds, StatusAfter, LogEntries

\* The hook.
LEMMA HookTyped ==
    ASSUME TypeOK, NEW r \in Runs
    PROVE  Browser(r) => TypeOK'
<1> USE TypeParts
<1>0. BrowserTyped /\ ServerTyped /\ WireTyped /\ FlagsTyped
  OBVIOUS
<1>1. ASSUME OnOpen(r) PROVE TypeOK'
  <2>1. UNCHANGED serverVars /\ UNCHANGED flagVars /\ WireTyped'
    BY <1>1, SeenFacts DEF OnOpen, form, server, task, serverVars, flagVars
  <2>2. BrowserTyped'
    BY <1>0, <1>1, DelayAssumption DEF OnOpen, BrowserTyped, form, store
  <2> QED  BY <1>0, <2>1, <2>2, TypesUnchanged
<1>2. ASSUME OnMessage(r) PROVE TypeOK'
  <2>1. UNCHANGED serverVars /\ UNCHANGED flagVars /\ WireTyped'
    BY <1>2, SeenFacts DEF OnMessage, form, server, task, serverVars, flagVars
  <2>2. Event(r) \in LogEntries
    BY <1>2, SeenFacts, FrameFacts DEF OnMessage
  <2>3. log' \in [Runs -> Seq(LogEntries)]
    BY <1>0, <1>2, <2>2 DEF OnMessage, BrowserTyped
  <2>4. nodes' \in [Nodes -> [status : {"idle", "running", "waiting", "done"}, by : Runs \cup {None}]]
    <3>1. CASE Event(r).kind \in DOMAIN StatusAfter
      <4>1. StatusAfter[Event(r).kind] \in {"running", "done", "waiting"}
        BY <3>1 DEF StatusAfter
      <4>2. [status |-> StatusAfter[Event(r).kind], by |-> r]
              \in [status : {"idle", "running", "waiting", "done"}, by : Runs \cup {None}]
        BY <4>1
      <4>3. nodes' = [nodes EXCEPT ![Event(r).node] =
                        [status |-> StatusAfter[Event(r).kind], by |-> r]]
        BY <1>2, <3>1 DEF OnMessage
      <4> QED  BY <1>0, <4>2, <4>3 DEF BrowserTyped
    <3>2. CASE Event(r).kind \notin DOMAIN StatusAfter
      BY <1>0, <1>2, <3>2 DEF OnMessage, BrowserTyped
    <3> QED  BY <3>1, <3>2
  <2>5. BrowserTyped'
    BY <1>0, <1>2, <2>3, <2>4 DEF OnMessage, BrowserTyped, form
  <2> QED  BY <1>0, <2>1, <2>5, TypesUnchanged
<1>3. ASSUME OnFinished(r) PROVE TypeOK'
  <2>1. UNCHANGED serverVars /\ WireTyped'
    BY <1>3, SeenFacts DEF OnFinished, form, server, task, serverVars
  <2>2. Event(r).status \in Terminal
    BY <1>3, SeenFacts, EndFacts DEF OnFinished
  <2>3. BrowserTyped'
    BY <1>0, <1>3, <2>2 DEF OnFinished, BrowserTyped, form
  <2>4. FlagsTyped'
    BY <1>0, <1>3 DEF OnFinished, FlagsTyped, form
  <2> QED  BY <1>0, <2>1, <2>3, <2>4, TypesUnchanged
<1>4. ASSUME OnClose(r) PROVE TypeOK'
  <2>1. UNCHANGED serverVars /\ UNCHANGED flagVars /\ WireTyped'
    BY <1>4, SeenFacts DEF OnClose, form, server, task, serverVars, flagVars
  <2>2. delay' \in BaseDelay..MaxDelay
    BY <1>0, <1>4, DelayAssumption DEF OnClose, Longer, Lesser, BrowserTyped
  <2>3. BrowserTyped'
    BY <1>0, <1>4, <2>2 DEF OnClose, BrowserTyped, form, store
  <2> QED  BY <1>0, <2>1, <2>3, TypesUnchanged
<1>5. ASSUME Timer(r) PROVE TypeOK'
  <2>1. UNCHANGED serverVars /\ UNCHANGED flagVars /\ UNCHANGED wire
    BY <1>5 DEF Timer, NewSocket, form, server, task, serverVars, flagVars
  <2>2. BrowserTyped'
    BY <1>0, <1>5 DEF Timer, NewSocket, BrowserTyped, form, store
  <2> QED  BY <1>0, <2>1, <2>2, TypesUnchanged
<1> QED  BY <1>1, <1>2, <1>3, <1>4, <1>5 DEF Browser

\* The events the server makes.
LEMMA EventsMade ==
    /\ [kind |-> "open"] \in Events /\ [kind |-> "close"] \in Events
    /\ \A e \in Terminal : [kind |-> "run_finished", status |-> e] \in Events
    /\ \A i \in Nat, k \in Kinds, n \in Nodes : [id |-> i, kind |-> k, node |-> n] \in LogEntries
    /\ LogEntries \subseteq Events
BY DEF Events, LogEntries

\* Where the task is in its script.
LEMMA ScriptFacts ==
    ASSUME NEW k \in 0..Len(Script), k < Len(Script)
    PROVE  k + 1 \in 0..Len(Script) /\ Script[k + 1].kind \in Kinds /\ Script[k + 1].node \in Nodes
<1>1. Script \in Seq([kind : Kinds, node : Nodes]) /\ Len(Script) \in Nat
  BY ScriptAssumption
<1>2. k + 1 \in 1..Len(Script)
  BY <1>1
<1> DEFINE S == [kind : Kinds, node : Nodes]
<1>3. Script \in Seq(S)
  BY <1>1
<1> HIDE DEF S
<1>4. \A s \in Seq(S) : \A i \in 1..Len(s) : s[i] \in S
  OBVIOUS
<1>5. Script[k + 1] \in S
  BY <1>2, <1>3, <1>4
<1>6. Script[k + 1].kind \in Kinds /\ Script[k + 1].node \in Nodes
  BY <1>5 DEF S
<1> QED  BY <1>1, <1>2, <1>6

\* What a handler that returns adds to the wire of its run.
LEMMA FinishFacts ==
    ASSUME TypeOK, NEW r \in Runs, NEW end \in Terminal, Finish(r, end)
    PROVE  /\ WireTyped' /\ subscribed' \in SUBSET Runs
           /\ \A q \in Runs \ {r} : wire'[q] = wire[q]
           /\ \/ wire'[r] = wire[r]
              \/ /\ r \in subscribed
                 /\ wire'[r] = Append(Append(wire[r], [kind |-> "run_finished", status |-> end]),
                                      [kind |-> "close"])
<1> DEFINE e == [kind |-> "run_finished", status |-> end]
           c == [kind |-> "close"]
<1>1. e \in Events /\ c \in Events /\ wire \in [Runs -> Seq(Events)] /\ wire[r] \in Seq(Events)
  BY EventsMade DEF TypeOK
<1>2. wire' = IF r \in subscribed THEN [wire EXCEPT ![r] = @ \o <<e, c>>] ELSE wire
  BY DEF Finish
<1>3. subscribed' \in SUBSET Runs
  BY DEF Finish, TypeOK
<1> HIDE DEF e, c
<1>4. wire[r] \o <<e, c>> = Append(Append(wire[r], e), c) /\ wire[r] \o <<e, c>> \in Seq(Events)
  BY <1>1, AppendTwoFacts
<1>5. WireTyped' /\ \A q \in Runs \ {r} : wire'[q] = wire[q]
  BY <1>1, <1>2, <1>4 DEF WireTyped
<1>6. \/ wire'[r] = wire[r]
      \/ r \in subscribed /\ wire'[r] = Append(Append(wire[r], e), c)
  BY <1>1, <1>2, <1>4
<1> QED  BY <1>3, <1>5, <1>6 DEF e, c

\* Requests, whoever makes them.
LEMMA HandleTyped ==
    ASSUME TypeOK, NEW r \in Runs, NEW a \in Requests, Handle(r, a)
    PROVE  /\ UNCHANGED browserVars /\ UNCHANGED flagVars /\ WireTyped'
           /\ subscribed' \in SUBSET Runs /\ resumed' \in SUBSET Runs
           /\ position' \in [Runs -> 0..Len(Script)]
           /\ status' \in [Runs -> Terminal \cup {"absent", "running", "paused"}]
           /\ UNCHANGED <<sent, completed>>
<1> USE DEF TypeOK, Handle
<1>1. UNCHANGED browserVars /\ UNCHANGED flagVars /\ UNCHANGED <<sent, completed>>
  BY DEF form, store, browserVars, flagVars
<1>2. CASE Resume(r)
  <2>1. 0 \in 0..Len(Script)
    BY ScriptAssumption
  <2>2. position' \in [Runs -> 0..Len(Script)] /\ resumed' \in SUBSET Runs
    <3>1. /\ position \in [Runs -> 0..Len(Script)] /\ resumed \in SUBSET Runs
          /\ position' \in {position, [position EXCEPT ![r] = 0]}
          /\ resumed' \in {resumed, resumed \cup {r}}
      BY <1>2 DEF Resume
    <3> HIDE DEF TypeOK, Handle
    <3> QED  BY <2>1, <3>1
  <2>3. status' \in [Runs -> Terminal \cup {"absent", "running", "paused"}]
    BY <1>2 DEF Resume
  <2>4. WireTyped' /\ subscribed' \in SUBSET Runs
    BY <1>2 DEF Resume, WireTyped
  <2> QED  BY <1>1, <2>2, <2>3, <2>4
<1>3. CASE Halt(r, a)
  <2>1. status' \in [Runs -> Terminal \cup {"absent", "running", "paused"}]
    BY <1>3 DEF Halt, Terminal
  <2>2. WireTyped' /\ subscribed' \in SUBSET Runs
    <3>1. CASE Executing(r)
      BY <1>3, <3>1, FinishFacts DEF Halt, Terminal
    <3>2. CASE ~Executing(r)
      BY <1>3, <3>2 DEF Halt, WireTyped
    <3> QED  BY <3>1, <3>2
  <2> QED  BY <1>1, <1>3, <2>1, <2>2 DEF Halt
<1> QED  BY <1>2, <1>3

LEMMA ServerStepTyped ==
    ASSUME TypeOK
    PROVE  /\ \A r \in Runs : Create(r) \/ Accept(r) \/ Emit(r) \/ Break(r) => TypeOK'
           /\ \A r \in Runs : \A end \in {"done", "error"} : TaskEnds(r, end) => TypeOK'
           /\ \A r \in Runs : \A a \in Requests : PatchArrives(r, a) \/ OtherAsks(r, a) => TypeOK'
           /\ Crash => TypeOK'
<1> USE TypeParts
<1>0. BrowserTyped /\ ServerTyped /\ WireTyped /\ FlagsTyped
  OBVIOUS
<1>1. ASSUME NEW r \in Runs, Create(r) PROVE TypeOK'
  <2>1. BrowserTyped'
    BY <1>0, <1>1 DEF Create, BrowserTyped, store, hook
  <2>2. ServerTyped'
    BY <1>0, <1>1 DEF Create, ServerTyped
  <2>3. UNCHANGED wire /\ UNCHANGED flagVars
    BY <1>1 DEF Create, hook, flagVars
  <2> QED  BY <1>0, <2>1, <2>2, <2>3, TypesUnchanged
<1>2. ASSUME NEW r \in Runs, Accept(r) PROVE TypeOK'
  <2>1. UNCHANGED browserVars /\ UNCHANGED flagVars
    BY <1>2 DEF Accept, form, store, browserVars, flagVars
  <2>2. ServerTyped'
    BY <1>0, <1>2 DEF Accept, ServerTyped, task
  <2>3. status[r] \in Terminal => [kind |-> "run_finished", status |-> status[r]] \in Events
    BY EventsMade
  <2>4. WireTyped'
    <3>1. CASE status[r] \in Terminal
      <4>1. status[r] # "absent"
        BY <3>1 DEF Terminal
      <4>2. wire' = [wire EXCEPT ![r] = <<[kind |-> "open"],
                        [kind |-> "run_finished", status |-> status[r]], [kind |-> "close"]>>]
        BY <1>2, <3>1, <4>1 DEF Accept
      <4> DEFINE o == [kind |-> "open"]
                 e == [kind |-> "run_finished", status |-> status[r]]
                 c == [kind |-> "close"]
      <4>3. o \in Events /\ e \in Events /\ c \in Events /\ wire' = [wire EXCEPT ![r] = <<o, e, c>>]
        BY <2>3, <3>1, <4>2, EventsMade
      <4> HIDE DEF o, e, c
      <4>4. <<o, e, c>> \in Seq(Events)
        BY <4>3
      <4> QED  BY <1>0, <4>3, <4>4 DEF WireTyped
    <3>2. CASE status[r] \notin Terminal
      <4>1. \/ wire' = [wire EXCEPT ![r] = <<[kind |-> "open"], [kind |-> "close"]>>]
            \/ wire' = [wire EXCEPT ![r] = <<[kind |-> "open"]>>]
        BY <1>2, <3>2 DEF Accept
      <4> DEFINE o == [kind |-> "open"]
                 c == [kind |-> "close"]
      <4>2. /\ o \in Events /\ c \in Events
            /\ wire' = [wire EXCEPT ![r] = <<o, c>>] \/ wire' = [wire EXCEPT ![r] = <<o>>]
        BY <4>1, EventsMade
      <4> HIDE DEF o, c
      <4>3. <<o, c>> \in Seq(Events) /\ <<o>> \in Seq(Events)
        BY <4>2
      <4> QED  BY <1>0, <4>2, <4>3 DEF WireTyped
    <3> QED  BY <3>1, <3>2
  <2> QED  BY <1>0, <2>1, <2>2, <2>4, TypesUnchanged
<1>3. ASSUME NEW r \in Runs, Emit(r) PROVE TypeOK'
  <2>1. UNCHANGED browserVars /\ UNCHANGED flagVars
    BY <1>3 DEF Emit, form, store, browserVars, flagVars
  <2>2. position[r] \in 0..Len(Script) /\ position[r] < Len(Script) /\ sent[r] \in Nat
    BY <1>0, <1>3 DEF Emit, ServerTyped
  <2>3. /\ position[r] + 1 \in 0..Len(Script)
        /\ Script[position[r] + 1].kind \in Kinds /\ Script[position[r] + 1].node \in Nodes
    BY <2>2, ScriptFacts
  <2>4. ServerTyped'
    BY <1>0, <1>3, <2>2, <2>3 DEF Emit, ServerTyped
  <2> DEFINE frame == [id |-> sent[r] + 1, kind |-> Script[position[r] + 1].kind,
                       node |-> Script[position[r] + 1].node]
  <2>5. frame \in Events
    <3> DEFINE i == sent[r] + 1
               k == Script[position[r] + 1].kind
               n == Script[position[r] + 1].node
    <3>1. i \in Nat /\ k \in Kinds /\ n \in Nodes
      BY <2>2, <2>3
    <3>2. frame = [id |-> i, kind |-> k, node |-> n]
      OBVIOUS
    <3> HIDE DEF i, k, n, frame
    <3>3. [id |-> i, kind |-> k, node |-> n] \in Events
      BY <3>1, EventsMade
    <3> QED  BY <3>2, <3>3
  <2>6. wire' = IF r \in subscribed THEN [wire EXCEPT ![r] = Append(@, frame)] ELSE wire
    BY <1>3 DEF Emit
  <2> HIDE DEF frame
  <2>7. WireTyped'
    BY <1>0, <2>5, <2>6 DEF WireTyped
  <2> QED  BY <1>0, <2>1, <2>4, <2>7, TypesUnchanged
<1>4. ASSUME NEW r \in Runs, Break(r) PROVE TypeOK'
  <2>1. UNCHANGED browserVars /\ UNCHANGED flagVars
    BY <1>4 DEF Break, form, store, browserVars, flagVars
  <2>2. turns' \in 0..MaxTurns
    BY <1>0, <1>4, BoundsAssumption DEF Break, Turn, ServerTyped
  <2>3. ServerTyped'
    BY <1>0, <1>4, <2>2 DEF Break, task, ServerTyped
  <2>4. PICK k \in 0..Len(wire[r]) : wire' = [wire EXCEPT ![r] = Cut(@, k)]
    BY <1>4 DEF Break
  <2>5. WireTyped'
    BY <1>0, <2>4, CutFacts DEF WireTyped
  <2> QED  BY <1>0, <2>1, <2>3, <2>5, TypesUnchanged
<1>5. ASSUME NEW r \in Runs, NEW end \in {"done", "error"}, TaskEnds(r, end) PROVE TypeOK'
  <2>1. UNCHANGED browserVars /\ UNCHANGED flagVars
    BY <1>5 DEF TaskEnds, form, store, browserVars, flagVars
  <2>2. WireTyped' /\ subscribed' \in SUBSET Runs
    BY <1>5, FinishFacts DEF TaskEnds, Terminal
  <2>3. ServerTyped'
    BY <1>0, <1>5, <2>2 DEF TaskEnds, ServerTyped, Terminal
  <2> QED  BY <1>0, <2>1, <2>2, <2>3, TypesUnchanged
<1>6. ASSUME NEW r \in Runs, NEW a \in Requests, PatchArrives(r, a) PROVE TypeOK'
  <2>1. asked' \in [Runs -> SUBSET Requests] /\ turns' = turns
    BY <1>0, <1>6 DEF PatchArrives, ServerTyped
  <2>2. ServerTyped'
    BY <1>0, <1>6, <2>1, HandleTyped DEF PatchArrives, ServerTyped
  <2> QED  BY <1>0, <1>6, <2>2, HandleTyped, TypesUnchanged DEF PatchArrives
<1>7. ASSUME NEW r \in Runs, NEW a \in Requests, OtherAsks(r, a) PROVE TypeOK'
  <2>1. asked' = asked /\ turns' \in 0..MaxTurns
    BY <1>0, <1>7, BoundsAssumption DEF OtherAsks, Turn, ServerTyped
  <2>2. ServerTyped'
    BY <1>0, <1>7, <2>1, HandleTyped DEF OtherAsks, ServerTyped
  <2> QED  BY <1>0, <1>7, <2>2, HandleTyped, TypesUnchanged DEF OtherAsks
<1>8. ASSUME Crash PROVE TypeOK'
  <2>1. UNCHANGED browserVars /\ UNCHANGED flagVars
    BY <1>8 DEF Crash, form, store, browserVars, flagVars
  <2>2. turns' \in 0..MaxTurns
    BY <1>0, <1>8, BoundsAssumption DEF Crash, Turn, ServerTyped
  <2>3. ServerTyped'
    BY <1>0, <1>8, <2>2 DEF Crash, ServerTyped
  <2>4. \A q \in Runs : Cut(wire[q], Len(wire[q])) \in Seq(Events) /\ wire[q] \in Seq(Events)
    <3> SUFFICES ASSUME NEW q \in Runs PROVE Cut(wire[q], Len(wire[q])) \in Seq(Events) /\ wire[q] \in Seq(Events)
      OBVIOUS
    <3>1. wire[q] \in Seq(Events) /\ Len(wire[q]) \in 0..Len(wire[q])
      BY <1>0 DEF WireTyped
    <3> QED  BY <3>1, CutFacts
  <2>5. WireTyped'
    BY <1>8, <2>4 DEF Crash, WireTyped
  <2> QED  BY <1>0, <2>1, <2>3, <2>5, TypesUnchanged
<1> QED  BY <1>1, <1>2, <1>3, <1>4, <1>5, <1>6, <1>7, <1>8

LEMMA TypeStep ==
    ASSUME TypeOK, [Next]_vars
    PROVE  TypeOK'
<1>1. ASSUME UNCHANGED vars PROVE TypeOK'
  BY <1>1 DEF vars, form, store, hook, server, task, TypeOK
<1>2. ASSUME Idle PROVE TypeOK'
  BY <1>1, <1>2 DEF Idle
<1> QED  BY <1>1, <1>2, ControlsTyped, HookTyped, ServerStepTyped DEF Next

--------------------------------------------------------------------------------
\* What a step makes of the wire and the log of a run.

\* v has frames and ends of w only, in the same places or one place earlier.
Embeds(v, w) ==
    \E d \in {0, 1} : \A i \in DOMAIN v :
        IsFrame(v[i]) \/ IsEnd(v[i]) => i + d \in DOMAIN w /\ v[i] = w[i + d]

FramesIn(v, w) ==
    \E d \in {0, 1} : \A i \in DOMAIN v :
        IsFrame(v[i]) => i + d \in DOMAIN w /\ v[i] = w[i + d]

EndOf(e) == [kind |-> "run_finished", status |-> e]
Closing == [kind |-> "close"]
Opening == [kind |-> "open"]

LEMMA KindsApart ==
    /\ ~IsFrame(Closing) /\ ~IsEnd(Closing) /\ ~IsFrame(Opening) /\ ~IsEnd(Opening)
    /\ \A e : IsEnd(EndOf(e)) /\ ~IsFrame(EndOf(e)) /\ EndOf(e).status = e
    /\ Closing \in Events /\ Opening \in Events
    /\ \A e \in Terminal : EndOf(e) \in Events
    /\ \A f : IsFrame(f) => ~IsEnd(f)
BY DEF IsFrame, IsEnd, EndOf, Closing, Opening, Kinds, StatusAfter, Events

LEMMA EmbedsFrames == \A v, w : Embeds(v, w) => FramesIn(v, w)
BY DEF Embeds, FramesIn

LEMMA SameEmbeds ==
    ASSUME NEW w \in Seq(Events)
    PROVE  Embeds(w, w)
<1>1. \A i \in DOMAIN w : i + 0 = i
  OBVIOUS
<1> QED  BY <1>1 DEF Embeds

LEMMA TailEmbeds ==
    ASSUME NEW w \in Seq(Events), w # << >>
    PROVE  Embeds(Tail(w), w)
BY TailFacts DEF Embeds

LEMMA CutEmbeds ==
    ASSUME NEW w \in Seq(Events), NEW k \in 0..Len(w)
    PROVE  Embeds(Cut(w, k), w)
<1>1. ASSUME NEW i \in DOMAIN Cut(w, k), IsFrame(Cut(w, k)[i]) \/ IsEnd(Cut(w, k)[i])
      PROVE  i + 0 \in DOMAIN w /\ Cut(w, k)[i] = w[i + 0]
  <2>1. i \in 1..k + 1 /\ k \in Nat
    BY <1>1, CutFacts
  <2>2. Cut(w, k)[k + 1].kind = "close"
    BY CutFacts
  <2>3. i # k + 1
    BY <1>1, <2>2 DEF IsFrame, IsEnd, Kinds, StatusAfter
  <2>4. i \in 1..k /\ i + 0 = i
    BY <2>1, <2>3
  <2> QED  BY <2>4, CutFacts
<1> QED  BY <1>1 DEF Embeds

LEMMA GreetingEmbeds ==
    ASSUME NEW w
    PROVE  Embeds(<<Opening>>, w) /\ Embeds(<<Closing>>, w) /\ Embeds(<<Opening, Closing>>, w)
<1>1. \A e : <<e>>[1] = e /\ DOMAIN <<e>> = {1}
  OBVIOUS
<1>2. \A e, f : <<e, f>>[1] = e /\ <<e, f>>[2] = f /\ DOMAIN <<e, f>> = {1, 2}
  OBVIOUS
<1> QED  BY <1>1, <1>2, KindsApart DEF Embeds

\* What has been appended to w by the end of a task.
LEMMA EndedFacts ==
    ASSUME NEW w \in Seq(Events), NEW end \in Terminal, NEW v,
           v = Append(Append(w, EndOf(end)), Closing)
    PROVE  /\ \A i \in DOMAIN v : \/ i \in DOMAIN w /\ v[i] = w[i]
                                  \/ i = Len(w) + 1 /\ v[i] = EndOf(end)
                                  \/ i = Len(w) + 2 /\ v[i] = Closing
           /\ DOMAIN w = 1..Len(w) /\ Len(w) \in Nat
<1> DEFINE u == Append(w, EndOf(end))
<1>1. EndOf(end) \in Events /\ Closing \in Events
  BY KindsApart
<1>2. /\ u \in Seq(Events) /\ Len(u) = Len(w) + 1 /\ DOMAIN u = DOMAIN w \cup {Len(w) + 1}
      /\ \A i \in DOMAIN w : u[i] = w[i]
      /\ u[Len(w) + 1] = EndOf(end)
      /\ DOMAIN w = 1..Len(w) /\ Len(w) \in Nat
  BY <1>1, AppendFacts
<1> HIDE DEF u
<1>3. /\ DOMAIN Append(u, Closing) = DOMAIN u \cup {Len(u) + 1}
      /\ \A i \in DOMAIN u : Append(u, Closing)[i] = u[i]
      /\ Append(u, Closing)[Len(u) + 1] = Closing
  BY <1>1, <1>2, AppendFacts
<1>4. v = Append(u, Closing) /\ Len(u) + 1 = Len(w) + 2
  BY <1>2 DEF u
<1> QED  BY <1>2, <1>3, <1>4

Quiet(q) == Embeds(wire'[q], wire[q])

Heard(q) ==
    /\ wire[q] # << >> /\ IsFrame(wire[q][1])
    /\ log'[q] = Append(log[q], wire[q][1])
    /\ wire'[q] = Tail(wire[q])
    /\ sent'[q] = sent[q]

Emitted(q) ==
    /\ Executing(q) /\ q \in subscribed
    /\ sent'[q] = sent[q] + 1
    /\ \E f \in Events : f.id = sent[q] + 1 /\ IsFrame(f) /\ wire'[q] = Append(wire[q], f)

Ended(q) ==
    /\ q \in subscribed
    /\ \E end \in Terminal : /\ wire'[q] = Append(Append(wire[q], EndOf(end)), Closing)
                             /\ Executing(q)
                             /\ EndIsTrue(q, end)'

Greeted(q) ==
    /\ wire[q] = << >> /\ status[q] \in Terminal
    /\ wire'[q] = <<Opening, EndOf(status[q]), Closing>>
    /\ UNCHANGED <<status, completed, resumed, shown>>

Effect(q) ==
    \/ Heard(q)
    \/ /\ log'[q] = log[q]
       /\ \/ Emitted(q)
          \/ sent'[q] \in {sent[q], sent[q] + 1} /\ (Quiet(q) \/ Ended(q) \/ Greeted(q))

\* A step that leaves wire, log and counter of a run alone.
LEMMA NoEffect ==
    ASSUME TypeOK, NEW q \in Runs, wire'[q] = wire[q], log'[q] = log[q],
           sent'[q] \in {sent[q], sent[q] + 1}
    PROVE  Effect(q)
<1>1. wire[q] \in Seq(Events)
  BY DEF TypeOK
<1> QED  BY <1>1, SameEmbeds DEF Effect, Quiet

LEMMA ControlEffects ==
    ASSUME TypeOK, NEW q \in Runs
    PROVE  /\ SwitchTab => Effect(q)
           /\ \A r \in Runs : Start(r) \/ RunSpec(r) \/ Answered(r) \/ PostFails(r) => Effect(q)
           /\ \A a \in Requests : Patch(a) => Effect(q)
<1>1. ASSUME \/ SwitchTab
             \/ \E r \in Runs : Start(r) \/ RunSpec(r) \/ PostFails(r)
             \/ \E a \in Requests : Patch(a)
      PROVE  Effect(q)
  <2>1. wire' = wire /\ log' = log /\ sent' = sent
    BY <1>1 DEF SwitchTab, Start, RunSpec, Post, PostFails, Patch, store, hook, server, task
  <2> QED  BY <2>1, NoEffect
<1>2. ASSUME NEW r \in Runs, Answered(r) PROVE Effect(q)
  <2>1. log' = log /\ sent' = sent /\ wire' = Leave(socket)[2]
    BY <1>2 DEF Answered, NewSocket, task
  <2>2. wire'[q] = wire[q] \/ wire'[q] = <<Closing>>
    BY <2>1 DEF Leave, Closing, TypeOK
  <2>3. CASE wire'[q] = wire[q]
    BY <2>1, <2>3, NoEffect
  <2>4. CASE wire'[q] = <<Closing>>
    BY <2>1, <2>4, GreetingEmbeds DEF Effect, Quiet
  <2> QED  BY <2>2, <2>3, <2>4
<1> QED  BY <1>1, <1>2

LEMMA HookEffects ==
    ASSUME TypeOK, NEW q \in Runs, NEW r \in Runs, Browser(r)
    PROVE  Effect(q)
<1>1. ASSUME OnMessage(r) PROVE Effect(q)
  <2>1. /\ wire[r] # << >> /\ See(r) /\ Event(r).kind \in Kinds /\ sent' = sent
        /\ log' = [log EXCEPT ![r] = Append(@, Event(r))]
    BY <1>1 DEF OnMessage, server, task
  <2>2. Event(r) = wire[r][1] /\ wire'[r] = Tail(wire[r]) /\ (q # r => wire'[q] = wire[q])
    BY <2>1, SeenFacts
  <2>3. CASE q = r
    BY <2>1, <2>2, <2>3 DEF Effect, Heard, IsFrame, TypeOK
  <2>4. CASE q # r
    <3>1. log'[q] = log[q]
      BY <2>1, <2>4 DEF TypeOK
    <3> QED  BY <2>1, <2>2, <2>4, <3>1, NoEffect
  <2> QED  BY <2>3, <2>4
<1>2. ASSUME OnOpen(r) \/ OnFinished(r) \/ OnClose(r) PROVE Effect(q)
  <2>1. wire[r] # << >> /\ See(r) /\ log' = log /\ sent' = sent
    BY <1>2 DEF OnOpen, OnFinished, OnClose, store, server, task
  <2>2. wire'[r] = Tail(wire[r]) /\ (q # r => wire'[q] = wire[q]) /\ wire[r] \in Seq(Events)
    BY <2>1, SeenFacts, SMTT(20) DEF TypeOK
  <2>3. CASE q = r
    BY <2>1, <2>2, <2>3, TailEmbeds DEF Effect, Quiet
  <2>4. CASE q # r
    BY <2>1, <2>2, <2>4, NoEffect
  <2> QED  BY <2>3, <2>4
<1>3. ASSUME Timer(r) PROVE Effect(q)
  <2>1. wire' = wire /\ log' = log /\ sent' = sent
    BY <1>3 DEF Timer, NewSocket, store, server, task
  <2> QED  BY <2>1, NoEffect
<1> QED  BY <1>1, <1>2, <1>3 DEF Browser

\* The end of a task, which the step may go on to call otherwise.
LEMMA FinishEffects ==
    ASSUME TypeOK, NEW q \in Runs, NEW r \in Runs, NEW end \in Terminal,
           Finish(r, end), Executing(r), log' = log, sent' = sent,
           EndIsTrue(r, end)'
    PROVE  Effect(q)
<1>1. /\ q # r => wire'[q] = wire[q]
      /\ \/ wire'[r] = wire[r]
         \/ r \in subscribed /\ wire'[r] = Append(Append(wire[r], EndOf(end)), Closing)
  BY FinishFacts DEF EndOf, Closing
<1>2. CASE wire'[q] = wire[q]
  BY <1>2, NoEffect
<1>3. CASE wire'[q] # wire[q]
  BY <1>1, <1>3 DEF Effect, Ended
<1> QED  BY <1>2, <1>3

LEMMA HandleEffects ==
    ASSUME TypeOK, NEW q \in Runs, NEW r \in Runs, NEW a \in Requests, Handle(r, a)
    PROVE  Effect(q)
<1>1. log' = log /\ sent' = sent /\ completed' = completed
  BY DEF Handle, store
<1>2. CASE wire'[q] = wire[q]
  BY <1>1, <1>2, NoEffect
<1>3. CASE wire'[q] # wire[q]
  <2>1. Finish(r, "killed") /\ Executing(r) /\ Halt(r, a)
    BY <1>3 DEF Handle, Resume, Halt
  <2>2. status'[r] \in {"paused", "killed"}
    BY <2>1 DEF Halt, Executing, TypeOK
  <2>3. EndIsTrue(r, "killed")'
    BY <2>2 DEF EndIsTrue, Executing
  <2> QED  BY <1>1, <2>1, <2>3, FinishEffects DEF Terminal
<1> QED  BY <1>2, <1>3

LEMMA ServerEffects ==
    ASSUME TypeOK, NEW q \in Runs
    PROVE  /\ \A r \in Runs : Create(r) \/ Accept(r) \/ Emit(r) \/ Break(r) => Effect(q)
           /\ \A r \in Runs : \A end \in {"done", "error"} : TaskEnds(r, end) => Effect(q)
           /\ \A r \in Runs : \A a \in Requests : PatchArrives(r, a) \/ OtherAsks(r, a) => Effect(q)
           /\ Crash => Effect(q)
<1>1. ASSUME NEW r \in Runs, Create(r) PROVE Effect(q)
  <2>1. wire' = wire /\ log' = log /\ sent' = sent
    BY <1>1 DEF Create, store, hook
  <2> QED  BY <2>1, NoEffect
<1>2. ASSUME NEW r \in Runs, Accept(r) PROVE Effect(q)
  <2>1. log' = log /\ sent' = sent /\ wire[r] = << >> /\ UNCHANGED <<status, completed, resumed, shown>>
    BY <1>2 DEF Accept, Unaccepted, store, task
  <2>2. CASE q # r
    <3>1. wire'[q] = wire[q]
      BY <1>2, <2>2 DEF Accept, TypeOK
    <3> QED  BY <2>1, <3>1, NoEffect
  <2>3. CASE q = r
    <3>1. CASE status[r] \in Terminal
      <4>1. wire'[r] = <<Opening, EndOf(status[r]), Closing>>
        <5>1. status[r] # "absent"
          BY <3>1 DEF Terminal
        <5>2. wire' = [wire EXCEPT ![r] = <<Opening, EndOf(status[r]), Closing>>]
          BY <1>2, <3>1, <5>1 DEF Accept, Opening, EndOf, Closing
        <5> QED  BY <5>2 DEF TypeOK
      <4> QED  BY <2>1, <2>3, <3>1, <4>1 DEF Effect, Greeted
    <3>2. CASE status[r] \notin Terminal
      <4>1. wire'[r] = <<Opening>> \/ wire'[r] = <<Opening, Closing>>
        <5>1. \/ wire' = [wire EXCEPT ![r] = <<Opening, Closing>>]
              \/ wire' = [wire EXCEPT ![r] = <<Opening>>]
          BY <1>2, <3>2 DEF Accept, Opening, Closing
        <5> QED  BY <5>1 DEF TypeOK
      <4> QED  BY <2>1, <2>3, <4>1, GreetingEmbeds DEF Effect, Quiet
    <3> QED  BY <3>1, <3>2
  <2> QED  BY <2>2, <2>3
<1>3. ASSUME NEW r \in Runs, Emit(r) PROVE Effect(q)
  <2>1. position[r] \in 0..Len(Script) /\ position[r] < Len(Script) /\ sent[r] \in Nat
    BY <1>3 DEF Emit, TypeOK
  <2> DEFINE frame == [id |-> sent[r] + 1, kind |-> Script[position[r] + 1].kind,
                       node |-> Script[position[r] + 1].node]
  <2>2. frame \in Events /\ IsFrame(frame) /\ frame.id = sent[r] + 1
    <3>1. /\ sent[r] + 1 \in Nat
          /\ Script[position[r] + 1].kind \in Kinds /\ Script[position[r] + 1].node \in Nodes
      BY <2>1, ScriptFacts
    <3>2. frame \in Events
      BY <3>1, EventsMade
    <3> QED  BY <3>1, <3>2 DEF IsFrame
  <2>3. /\ log' = log /\ sent' = [sent EXCEPT ![r] = @ + 1] /\ Executing(r)
        /\ wire' = IF r \in subscribed THEN [wire EXCEPT ![r] = Append(@, frame)] ELSE wire
    BY <1>3 DEF Emit, store
  <2> HIDE DEF frame
  <2>4. sent'[q] \in {sent[q], sent[q] + 1} /\ (q = r => sent'[q] = sent[q] + 1)
    BY <2>3 DEF TypeOK
  <2>5. CASE q = r /\ r \in subscribed
    <3>1. wire'[q] = Append(wire[q], frame)
      BY <2>3, <2>5 DEF TypeOK
    <3> QED  BY <2>2, <2>3, <2>4, <2>5, <3>1 DEF Effect, Emitted
  <2>6. CASE ~(q = r /\ r \in subscribed)
    <3>1. wire'[q] = wire[q]
      BY <2>3, <2>6 DEF TypeOK
    <3> QED  BY <2>3, <2>4, <3>1, NoEffect
  <2> QED  BY <2>5, <2>6
<1>4. ASSUME NEW r \in Runs, Break(r) PROVE Effect(q)
  <2>1. PICK k \in 0..Len(wire[r]) : wire' = [wire EXCEPT ![r] = Cut(@, k)]
    BY <1>4 DEF Break
  <2>2. log' = log /\ sent' = sent
    BY <1>4 DEF Break, store, task
  <2>3. wire[r] \in Seq(Events)
    BY DEF TypeOK
  <2>4. CASE q = r
    <3>1. wire'[q] = Cut(wire[q], k)
      BY <2>1, <2>4 DEF TypeOK
    <3> QED  BY <2>2, <2>3, <2>4, <3>1, CutEmbeds DEF Effect, Quiet
  <2>5. CASE q # r
    <3>1. wire'[q] = wire[q]
      BY <2>1, <2>5 DEF TypeOK
    <3> QED  BY <2>2, <3>1, NoEffect
  <2> QED  BY <2>4, <2>5
<1>5. ASSUME NEW r \in Runs, NEW end \in {"done", "error"}, TaskEnds(r, end) PROVE Effect(q)
  <2>1. log' = log /\ sent' = sent /\ Finish(r, end) /\ Executing(r) /\ end \in Terminal
    BY <1>5 DEF TaskEnds, store, Terminal
  <2>2. status'[r] = end /\ (end = "done" => r \in completed')
    BY <1>5 DEF TaskEnds, TypeOK
  <2>3. EndIsTrue(r, end)'
    BY <2>2 DEF EndIsTrue, Executing
  <2> QED  BY <2>1, <2>3, FinishEffects
<1>6. ASSUME NEW r \in Runs, NEW a \in Requests, PatchArrives(r, a) \/ OtherAsks(r, a) PROVE Effect(q)
  BY <1>6, HandleEffects DEF PatchArrives, OtherAsks
<1>7. ASSUME Crash PROVE Effect(q)
  <2>1. log' = log /\ sent' = sent /\ wire[q] \in Seq(Events)
    BY <1>7 DEF Crash, store, TypeOK
  <2>2. wire'[q] = wire[q] \/ wire'[q] = Cut(wire[q], Len(wire[q]))
    BY <1>7 DEF Crash
  <2>3. CASE wire'[q] = Cut(wire[q], Len(wire[q]))
    <3>1. Len(wire[q]) \in 0..Len(wire[q])
      BY <2>1
    <3> QED  BY <2>1, <2>3, <3>1, CutEmbeds DEF Effect, Quiet
  <2> QED  BY <2>1, <2>2, <2>3, NoEffect
<1> QED  BY <1>1, <1>2, <1>3, <1>4, <1>5, <1>6, <1>7

LEMMA StepEffects ==
    ASSUME TypeOK, [Next]_vars, NEW q \in Runs
    PROVE  Effect(q)
<1>1. ASSUME UNCHANGED vars PROVE Effect(q)
  BY <1>1, NoEffect DEF vars, store, hook, server, task
<1>2. ASSUME Idle PROVE Effect(q)
  BY <1>1, <1>2 DEF Idle
<1> QED  BY <1>1, <1>2, ControlEffects, HookEffects, ServerEffects DEF Next

--------------------------------------------------------------------------------
\* The order of the frames.

Ordered(q) ==
    /\ \A i, j \in DOMAIN log[q] : i < j => log[q][i].id < log[q][j].id
    /\ \A i \in DOMAIN log[q] : log[q][i].id <= sent[q]
    /\ InOrder(q, wire[q])

LEMMA OrderedRuns ==
    /\ (\A q \in Runs : Ordered(q)) <=>
         LogInOrder /\ LogsAreBounded /\ \A q \in Runs : InOrder(q, wire[q])
    /\ (\A q \in Runs : Ordered(q)') <=>
         LogInOrder' /\ LogsAreBounded' /\ \A q \in Runs : InOrder(q, wire[q])'
BY DEF Ordered, LogInOrder, LogsAreBounded, PanelLog

LEMMA IdFacts ==
    ASSUME TypeOK, NEW q \in Runs
    PROVE  /\ \A i \in DOMAIN wire[q] : IsFrame(wire[q][i]) => wire[q][i].id \in Nat
           /\ \A i \in DOMAIN log[q] : log[q][i].id \in Nat
           /\ sent[q] \in Nat /\ DOMAIN wire[q] \subseteq Nat /\ DOMAIN log[q] \subseteq Nat
           /\ wire[q] \in Seq(Events) /\ log[q] \in Seq(LogEntries)
<1>1. wire[q] \in Seq(Events) /\ log[q] \in Seq(LogEntries) /\ sent[q] \in Nat
  BY DEF TypeOK
<1>2. \A i \in DOMAIN wire[q] : wire[q][i] \in Events
  BY <1>1
<1>3. \A i \in DOMAIN log[q] : log[q][i] \in LogEntries
  BY <1>1
<1>4. \A i \in DOMAIN wire[q] : IsFrame(wire[q][i]) => wire[q][i].id \in Nat
  BY <1>2, FrameFacts DEF IsFrame
<1>5. \A i \in DOMAIN log[q] : log[q][i].id \in Nat
  BY <1>3 DEF LogEntries
<1>6. DOMAIN wire[q] \subseteq Nat /\ DOMAIN log[q] \subseteq Nat
  BY <1>1
<1> QED  BY <1>1, <1>4, <1>5, <1>6

\* Frames that only move up or vanish keep their order.
LEMMA OrderKept ==
    ASSUME TypeOK, TypeOK', NEW q \in Runs, Ordered(q),
           FramesIn(wire'[q], wire[q]), log'[q] = log[q], sent'[q] \in {sent[q], sent[q] + 1}
    PROVE  Ordered(q)'
<1>1. PICK d \in {0, 1} : \A i \in DOMAIN wire'[q] :
           IsFrame(wire'[q][i]) => i + d \in DOMAIN wire[q] /\ wire'[q][i] = wire[q][i + d]
  BY DEF FramesIn
<1>2. DOMAIN wire'[q] \subseteq Nat
  <2>1. wire'[q] \in Seq(Events)
    BY DEF TypeOK
  <2> QED  BY <2>1
<1>3. sent[q] <= sent'[q] /\ sent[q] \in Nat /\ sent'[q] \in Nat
  BY IdFacts
<1>4. ASSUME NEW i \in DOMAIN wire'[q], IsFrame(wire'[q][i])
      PROVE  wire'[q][i].id <= sent'[q] /\ \A k \in DOMAIN log'[q] : log'[q][k].id < wire'[q][i].id
  <2>1. i + d \in DOMAIN wire[q] /\ wire'[q][i] = wire[q][i + d] /\ IsFrame(wire[q][i + d])
    BY <1>1, <1>4
  <2>2. wire[q][i + d].id <= sent[q] /\ \A k \in DOMAIN log[q] : log[q][k].id < wire[q][i + d].id
    BY <2>1 DEF Ordered, InOrder
  <2> QED  BY <1>3, <2>1, <2>2, IdFacts
<1>5. ASSUME NEW i \in DOMAIN wire'[q], NEW j \in DOMAIN wire'[q], i < j,
             IsFrame(wire'[q][i]), IsFrame(wire'[q][j])
      PROVE  wire'[q][i].id < wire'[q][j].id
  <2>1. i + d \in DOMAIN wire[q] /\ wire'[q][i] = wire[q][i + d] /\ IsFrame(wire[q][i + d])
    BY <1>1, <1>5
  <2>2. j + d \in DOMAIN wire[q] /\ wire'[q][j] = wire[q][j + d] /\ IsFrame(wire[q][j + d])
    BY <1>1, <1>5
  <2>3. i + d < j + d
    BY <1>2, <1>5
  <2> QED  BY <2>1, <2>2, <2>3 DEF Ordered, InOrder
<1>6. InOrder(q, wire[q])'
  BY <1>4, <1>5 DEF InOrder
<1>7. \A i, j \in DOMAIN log'[q] : i < j => log'[q][i].id < log'[q][j].id
  BY DEF Ordered
<1>8. \A i \in DOMAIN log'[q] : log'[q][i].id <= sent'[q]
  <2> SUFFICES ASSUME NEW i \in DOMAIN log[q] PROVE log[q][i].id <= sent'[q]
    OBVIOUS
  <2>1. log[q][i].id <= sent[q]
    BY DEF Ordered
  <2> QED  BY <2>1, <1>3, IdFacts
<1> QED  BY <1>6, <1>7, <1>8 DEF Ordered

\* A frame that is heard is later than those of the log and before the rest.
LEMMA OrderHeard ==
    ASSUME TypeOK, NEW q \in Runs, Ordered(q), Heard(q)
    PROVE  Ordered(q)'
<1> DEFINE e == wire[q][1]
           w == Tail(wire[q])
<1>1. /\ wire[q] \in Seq(Events) /\ log[q] \in Seq(LogEntries) /\ wire[q] # << >>
      /\ IsFrame(e) /\ 1 \in DOMAIN wire[q] /\ e \in LogEntries
      /\ \A i \in DOMAIN w : i \in Nat /\ 1 < i + 1 /\ i + 1 \in DOMAIN wire[q] /\ w[i] = wire[q][i + 1]
  <2>1. wire[q] \in Seq(Events) /\ log[q] \in Seq(LogEntries) /\ wire[q] # << >> /\ IsFrame(e)
    BY IdFacts DEF Heard
  <2>2. e \in Events /\ 1 \in DOMAIN wire[q]
    BY <2>1, TailFacts
  <2>3. \A i \in DOMAIN w : i \in 1..Len(wire[q]) /\ i + 1 \in DOMAIN wire[q] /\ w[i] = wire[q][i + 1]
    BY <2>1, TailFacts
  <2>4. \A i \in 1..Len(wire[q]) : i \in Nat /\ 1 < i + 1
    OBVIOUS
  <2> QED  BY <2>1, <2>2, <2>3, <2>4, FrameFacts DEF IsFrame
<1>2. /\ DOMAIN log'[q] = DOMAIN log[q] \cup {Len(log[q]) + 1}
      /\ DOMAIN log[q] = 1..Len(log[q]) /\ Len(log[q]) \in Nat
      /\ \A k \in DOMAIN log[q] : log'[q][k] = log[q][k]
      /\ log'[q][Len(log[q]) + 1] = e
  BY <1>1, AppendFacts DEF Heard
<1>3. wire'[q] = w /\ sent'[q] = sent[q]
  BY DEF Heard
<1>4. e.id \in Nat /\ e.id <= sent[q] /\ \A k \in DOMAIN log[q] : log[q][k].id < e.id
  BY <1>1, IdFacts DEF Ordered, InOrder
<1>5. \A i \in DOMAIN w : IsFrame(w[i]) => e.id < w[i].id /\ w[i].id <= sent[q]
  BY <1>1 DEF Ordered, InOrder
<1>6. \A i, j \in DOMAIN w : i < j /\ IsFrame(w[i]) /\ IsFrame(w[j]) => w[i].id < w[j].id
  <2> SUFFICES ASSUME NEW i \in DOMAIN w, NEW j \in DOMAIN w, i < j, IsFrame(w[i]), IsFrame(w[j])
               PROVE  w[i].id < w[j].id
    OBVIOUS
  <2>1. i + 1 \in DOMAIN wire[q] /\ j + 1 \in DOMAIN wire[q] /\ i + 1 < j + 1
    BY <1>1
  <2> QED  BY <1>1, <2>1 DEF Ordered, InOrder
<1>7. \A i \in DOMAIN w, k \in DOMAIN log[q] : IsFrame(w[i]) => log[q][k].id < w[i].id
  BY <1>1 DEF Ordered, InOrder
<1> HIDE DEF e, w
<1>8. InOrder(q, wire[q])'
  BY <1>2, <1>3, <1>5, <1>6, <1>7 DEF InOrder
<1>9. \A i, j \in DOMAIN log'[q] : i < j => log'[q][i].id < log'[q][j].id
  <2> SUFFICES ASSUME NEW i \in DOMAIN log'[q], NEW j \in DOMAIN log'[q], i < j
               PROVE  log'[q][i].id < log'[q][j].id
    OBVIOUS
  <2>1. i \in DOMAIN log[q]
    BY <1>2
  <2>2. CASE j \in DOMAIN log[q]
    BY <1>2, <2>1, <2>2 DEF Ordered
  <2>3. CASE j = Len(log[q]) + 1
    BY <1>2, <1>4, <2>1, <2>3
  <2> QED  BY <1>2, <2>2, <2>3
<1>10. \A i \in DOMAIN log'[q] : log'[q][i].id <= sent'[q]
  BY <1>2, <1>3, <1>4 DEF Ordered
<1> QED  BY <1>8, <1>9, <1>10 DEF Ordered

\* A frame that is emitted is later than all.
LEMMA OrderEmitted ==
    ASSUME TypeOK, NEW q \in Runs, Ordered(q), Emitted(q), log'[q] = log[q]
    PROVE  Ordered(q)'
<1>1. PICK f \in Events : f.id = sent[q] + 1 /\ IsFrame(f) /\ wire'[q] = Append(wire[q], f)
  BY DEF Emitted
<1>2. wire[q] \in Seq(Events) /\ sent[q] \in Nat /\ sent'[q] = sent[q] + 1
  BY IdFacts DEF Emitted
<1>3. /\ DOMAIN wire'[q] = DOMAIN wire[q] \cup {Len(wire[q]) + 1}
      /\ DOMAIN wire[q] = 1..Len(wire[q]) /\ Len(wire[q]) \in Nat
      /\ \A i \in DOMAIN wire[q] : wire'[q][i] = wire[q][i]
      /\ wire'[q][Len(wire[q]) + 1] = f
  BY <1>1, <1>2, AppendFacts
<1>4. \A k \in DOMAIN log[q] : log[q][k].id <= sent[q] /\ log[q][k].id \in Nat
  BY IdFacts DEF Ordered
<1>5. \A i \in DOMAIN wire[q] : IsFrame(wire[q][i]) => wire[q][i].id <= sent[q] /\ wire[q][i].id \in Nat
  BY IdFacts DEF Ordered, InOrder
<1>6. ASSUME NEW i \in DOMAIN wire'[q], IsFrame(wire'[q][i])
      PROVE  wire'[q][i].id <= sent'[q] /\ \A k \in DOMAIN log'[q] : log'[q][k].id < wire'[q][i].id
  <2>1. CASE i \in DOMAIN wire[q]
    BY <1>2, <1>3, <1>5, <1>6, <2>1 DEF Ordered, InOrder
  <2>2. CASE i = Len(wire[q]) + 1
    BY <1>1, <1>2, <1>3, <1>4, <2>2
  <2> QED  BY <1>3, <2>1, <2>2
<1>7. ASSUME NEW i \in DOMAIN wire'[q], NEW j \in DOMAIN wire'[q], i < j,
             IsFrame(wire'[q][i]), IsFrame(wire'[q][j])
      PROVE  wire'[q][i].id < wire'[q][j].id
  <2>1. i \in DOMAIN wire[q]
    BY <1>3, <1>7
  <2>2. CASE j \in DOMAIN wire[q]
    BY <1>3, <1>7, <2>1, <2>2 DEF Ordered, InOrder
  <2>3. CASE j = Len(wire[q]) + 1
    BY <1>1, <1>2, <1>3, <1>5, <1>7, <2>1, <2>3
  <2> QED  BY <1>3, <2>2, <2>3
<1>8. InOrder(q, wire[q])'
  BY <1>6, <1>7 DEF InOrder
<1> QED  BY <1>2, <1>4, <1>8 DEF Ordered

LEMMA OrderStep ==
    ASSUME TypeOK, TypeOK', [Next]_vars, NEW q \in Runs, Ordered(q)
    PROVE  Ordered(q)'
<1>1. Effect(q) /\ wire[q] \in Seq(Events)
  BY StepEffects, IdFacts
<1>2. CASE Heard(q)
  BY <1>2, OrderHeard
<1>3. CASE log'[q] = log[q] /\ Emitted(q)
  BY <1>3, OrderEmitted
<1>4. CASE log'[q] = log[q] /\ sent'[q] \in {sent[q], sent[q] + 1} /\ (Quiet(q) \/ Ended(q) \/ Greeted(q))
  <2>1. ASSUME Quiet(q) PROVE FramesIn(wire'[q], wire[q])
    BY <2>1, EmbedsFrames DEF Quiet
  <2>2. ASSUME Ended(q) PROVE FramesIn(wire'[q], wire[q])
    <3>1. PICK end \in Terminal : wire'[q] = Append(Append(wire[q], EndOf(end)), Closing)
      BY <2>2 DEF Ended
    <3>2. \A i \in DOMAIN wire'[q] : IsFrame(wire'[q][i]) => i \in DOMAIN wire[q] /\ wire'[q][i] = wire[q][i]
      BY <1>1, <3>1, EndedFacts, KindsApart
    <3>3. \A i \in DOMAIN wire[q] : i + 0 = i
      BY <1>1
    <3> QED  BY <3>2, <3>3 DEF FramesIn
  <2>3. ASSUME Greeted(q) PROVE FramesIn(wire'[q], wire[q])
    <3>1. \A a, b, c : /\ DOMAIN <<a, b, c>> = {1, 2, 3}
                       /\ <<a, b, c>>[1] = a /\ <<a, b, c>>[2] = b /\ <<a, b, c>>[3] = c
      OBVIOUS
    <3> QED  BY <2>3, <3>1, KindsApart DEF Greeted, FramesIn
  <2> QED  BY <1>4, <2>1, <2>2, <2>3, OrderKept
<1> QED  BY <1>1, <1>2, <1>3, <1>4 DEF Effect

--------------------------------------------------------------------------------
\* The end of a run, announced and shown.

EndsRight(q) ==
    /\ EndsAreLast(q, wire[q])
    /\ shown[q] \in Terminal => EndIsTrue(q, shown[q])
    /\ status[q] = "done" => q \in completed

LEMMA EndsOfRuns ==
    /\ (\A q \in Runs : EndsRight(q)) <=> EndsFit /\ \A q \in Runs : EndsAreLast(q, wire[q])
    /\ (\A q \in Runs : EndsRight(q)') <=> EndsFit' /\ \A q \in Runs : EndsAreLast(q, wire[q])'
BY DEF EndsRight, EndsFit

\* A step that lets stand what has been said of the end of the run.
TruthKept(q) ==
    /\ completed \subseteq completed' /\ resumed \subseteq resumed'
    /\ \A end : EndIsTrue(q, end) => EndIsTrue(q, end)'
    /\ status'[q] = "done" => q \in completed'

ShownKept(q) == shown'[q] = shown[q] \/ shown'[q] \notin Terminal

\* EndIsTrue and EndsRight after the step.
TrueNext(q, end) ==
    /\ end = "done" => q \in completed'
    /\ q \notin resumed' => status'[q] # "running"
    /\ end = "killed" /\ q \notin resumed' => status'[q] \in {"killed", "paused", "absent"}

LEMMA NextTruth ==
    ASSUME NEW q \in Runs
    PROVE  /\ \A end : EndIsTrue(q, end)' <=> TrueNext(q, end)
           /\ EndsRight(q)' <=>
                /\ \A i \in DOMAIN wire'[q] : IsEnd(wire'[q][i]) => TrueNext(q, wire'[q][i].status)
                /\ q \notin resumed' =>
                     \A i, j \in DOMAIN wire'[q] : IsEnd(wire'[q][i]) /\ i < j => ~IsFrame(wire'[q][j])
                /\ q \notin resumed' /\ shown'[q] \in Terminal =>
                     \A i \in DOMAIN wire'[q] : ~IsFrame(wire'[q][i])
                /\ shown'[q] \in Terminal => TrueNext(q, shown'[q])
                /\ status'[q] = "done" => q \in completed'
BY DEF EndsRight, EndsAreLast, EndIsTrue, TrueNext, Executing

LEMMA EndsKept ==
    ASSUME TypeOK, TypeOK', NEW q \in Runs, EndsRight(q), TruthKept(q), ShownKept(q), Quiet(q)
    PROVE  EndsRight(q)'
<1>1. PICK d \in {0, 1} : \A i \in DOMAIN wire'[q] : IsFrame(wire'[q][i]) \/ IsEnd(wire'[q][i]) =>
                             i + d \in DOMAIN wire[q] /\ wire'[q][i] = wire[q][i + d]
  BY DEF Quiet, Embeds
<1>2. DOMAIN wire'[q] \subseteq Nat
  <2>1. wire'[q] \in Seq(Events)
    BY DEF TypeOK
  <2> QED  BY <2>1
<1>3. q \notin resumed' => q \notin resumed
  BY DEF TruthKept
<1>4. \A end : EndIsTrue(q, end) => TrueNext(q, end)
  BY NextTruth DEF TruthKept
<1>5. \A i \in DOMAIN wire'[q] : IsEnd(wire'[q][i]) => TrueNext(q, wire'[q][i].status)
  BY <1>1, <1>4 DEF EndsRight, EndsAreLast
<1>6. ASSUME q \notin resumed', NEW i \in DOMAIN wire'[q], NEW j \in DOMAIN wire'[q],
             IsEnd(wire'[q][i]), i < j, IsFrame(wire'[q][j])
      PROVE  FALSE
  <2>1. i + d \in DOMAIN wire[q] /\ IsEnd(wire[q][i + d])
    BY <1>1, <1>6
  <2>2. j + d \in DOMAIN wire[q] /\ IsFrame(wire[q][j + d])
    BY <1>1, <1>6
  <2>3. i + d < j + d
    BY <1>2, <1>6
  <2> QED  BY <1>3, <1>6, <2>1, <2>2, <2>3 DEF EndsRight, EndsAreLast
<1>7. ASSUME shown'[q] \in Terminal
      PROVE  /\ TrueNext(q, shown'[q])
             /\ q \notin resumed' => \A i \in DOMAIN wire'[q] : ~IsFrame(wire'[q][i])
  <2>1. shown'[q] = shown[q]
    BY <1>7 DEF ShownKept
  <2>2. TrueNext(q, shown'[q])
    BY <1>4, <1>7, <2>1 DEF EndsRight
  <2>3. q \notin resumed' => \A i \in DOMAIN wire'[q] : ~IsFrame(wire'[q][i])
    BY <1>1, <1>3, <1>7, <2>1 DEF EndsRight, EndsAreLast
  <2> QED  BY <2>2, <2>3
<1>8. status'[q] = "done" => q \in completed'
  BY DEF TruthKept
<1> QED  BY <1>5, <1>6, <1>7, <1>8, NextTruth

\* A frame only comes from a task that executes, and so before its end.
LEMMA EndsEmitted ==
    ASSUME TypeOK, NEW q \in Runs, EndsRight(q), TruthKept(q), ShownKept(q), Emitted(q)
    PROVE  EndsRight(q)'
<1>1. PICK f \in Events : IsFrame(f) /\ wire'[q] = Append(wire[q], f)
  BY DEF Emitted
<1>2. wire[q] \in Seq(Events) /\ Executing(q)
  BY IdFacts DEF Emitted
<1>3. /\ DOMAIN wire'[q] = DOMAIN wire[q] \cup {Len(wire[q]) + 1}
      /\ \A i \in DOMAIN wire[q] : wire'[q][i] = wire[q][i]
      /\ wire'[q][Len(wire[q]) + 1] = f
  BY <1>1, <1>2, AppendFacts
<1>4. \A end : EndIsTrue(q, end) => TrueNext(q, end)
  BY NextTruth DEF TruthKept
<1>5. \A i \in DOMAIN wire'[q] : IsEnd(wire'[q][i]) =>
          i \in DOMAIN wire[q] /\ wire'[q][i] = wire[q][i] /\ IsEnd(wire[q][i])
  BY <1>1, <1>3, KindsApart
<1>6. \A i \in DOMAIN wire'[q] : IsEnd(wire'[q][i]) => TrueNext(q, wire'[q][i].status)
  BY <1>4, <1>5 DEF EndsRight, EndsAreLast
<1>7. ASSUME q \notin resumed' PROVE \A i \in DOMAIN wire'[q] : ~IsEnd(wire'[q][i])
  <2>1. q \notin resumed
    BY <1>7 DEF TruthKept
  <2> QED  BY <1>2, <1>5, <2>1 DEF EndsRight, EndsAreLast, EndIsTrue
<1>8. shown'[q] \in Terminal => TrueNext(q, shown'[q])
  BY <1>4 DEF EndsRight, ShownKept
<1>9. ASSUME q \notin resumed' PROVE shown'[q] \notin Terminal
  <2>1. q \notin resumed
    BY <1>9 DEF TruthKept
  <2> QED  BY <1>2, <2>1 DEF EndsRight, ShownKept, EndIsTrue
<1> QED  BY <1>6, <1>7, <1>8, <1>9, NextTruth DEF TruthKept

LEMMA EndsEnded ==
    ASSUME TypeOK, NEW q \in Runs, EndsRight(q), TruthKept(q), ShownKept(q), Ended(q)
    PROVE  EndsRight(q)'
<1>1. PICK end \in Terminal : /\ wire'[q] = Append(Append(wire[q], EndOf(end)), Closing)
                              /\ TrueNext(q, end)
  BY NextTruth DEF Ended
<1>2. wire[q] \in Seq(Events)
  BY IdFacts
<1>3. /\ \A i \in DOMAIN wire'[q] : \/ i \in DOMAIN wire[q] /\ wire'[q][i] = wire[q][i]
                                    \/ i = Len(wire[q]) + 1 /\ wire'[q][i] = EndOf(end)
                                    \/ i = Len(wire[q]) + 2 /\ wire'[q][i] = Closing
      /\ DOMAIN wire[q] = 1..Len(wire[q]) /\ Len(wire[q]) \in Nat
  BY <1>1, <1>2, EndedFacts
<1>4. \A e : EndIsTrue(q, e) => TrueNext(q, e)
  BY NextTruth DEF TruthKept
<1>5. \A i \in DOMAIN wire'[q] : IsEnd(wire'[q][i]) => TrueNext(q, wire'[q][i].status)
  BY <1>1, <1>3, <1>4, KindsApart DEF EndsRight, EndsAreLast
<1>6. \A j \in DOMAIN wire'[q] : IsFrame(wire'[q][j]) => j \in DOMAIN wire[q] /\ wire'[q][j] = wire[q][j]
  BY <1>3, KindsApart
<1>7. ASSUME q \notin resumed', NEW i \in DOMAIN wire'[q], NEW j \in DOMAIN wire'[q],
             IsEnd(wire'[q][i]), i < j, IsFrame(wire'[q][j])
      PROVE  FALSE
  <2>1. q \notin resumed
    BY <1>7 DEF TruthKept
  <2>2. j \in DOMAIN wire[q] /\ wire'[q][j] = wire[q][j]
    BY <1>6, <1>7
  <2>3. i \in DOMAIN wire[q] /\ wire'[q][i] = wire[q][i]
    BY <1>3, <1>7, <2>2
  <2> QED  BY <1>7, <2>1, <2>2, <2>3 DEF EndsRight, EndsAreLast
<1>8. shown'[q] \in Terminal => TrueNext(q, shown'[q])
  BY <1>4 DEF EndsRight, ShownKept
<1>9. ASSUME q \notin resumed', shown'[q] \in Terminal
      PROVE  \A i \in DOMAIN wire'[q] : ~IsFrame(wire'[q][i])
  BY <1>6, <1>9 DEF EndsRight, EndsAreLast, ShownKept, TruthKept
<1> QED  BY <1>5, <1>7, <1>8, <1>9, NextTruth DEF TruthKept

LEMMA EndsGreeted ==
    ASSUME TypeOK, NEW q \in Runs, EndsRight(q), Greeted(q)
    PROVE  EndsRight(q)'
<1>1. \A a, b, c : /\ DOMAIN <<a, b, c>> = {1, 2, 3}
                   /\ <<a, b, c>>[1] = a /\ <<a, b, c>>[2] = b /\ <<a, b, c>>[3] = c
  OBVIOUS
<1>2. wire'[q] = <<Opening, EndOf(status[q]), Closing>>
  BY DEF Greeted
<1>3. \A i \in DOMAIN wire'[q] : ~IsFrame(wire'[q][i]) /\ (IsEnd(wire'[q][i]) => wire'[q][i].status = status[q])
  BY <1>1, <1>2, KindsApart
<1>4. \A e : EndIsTrue(q, e) => TrueNext(q, e)
  BY DEF Greeted, EndIsTrue, TrueNext, Executing
<1>5. EndIsTrue(q, status[q])
  BY DEF Greeted, EndIsTrue, Executing, EndsRight, Terminal
<1>6. shown'[q] \in Terminal => TrueNext(q, shown'[q])
  BY <1>4 DEF EndsRight, Greeted
<1>7. status'[q] = "done" => q \in completed'
  BY DEF Greeted, EndsRight
<1> QED  BY <1>3, <1>4, <1>5, <1>6, <1>7, NextTruth

\* Where nothing of this changes, the truth is kept.
LEMMA SameTruth ==
    ASSUME NEW q \in Runs, EndsRight(q), UNCHANGED <<status, completed, resumed>>
    PROVE  TruthKept(q)
BY DEF TruthKept, EndIsTrue, Executing, EndsRight

LEMMA HandleTruth ==
    ASSUME TypeOK, NEW q \in Runs, NEW r \in Runs, NEW a \in Requests, Handle(r, a), EndsRight(q)
    PROVE  TruthKept(q) /\ ShownKept(q)
<1>1. shown' = shown /\ completed' = completed
  BY DEF Handle, store
<1>2. CASE Resume(r) /\ status[r] = "paused"
  <2>1. /\ status' = [status EXCEPT ![r] = "running"] /\ resumed' = resumed \cup {r}
    BY <1>2 DEF Resume
  <2>2. CASE q = r
    BY <1>1, <2>1, <2>2 DEF TruthKept, EndIsTrue, Executing, TypeOK, ShownKept
  <2>3. CASE q # r
    BY <1>1, <2>1, <2>3 DEF TruthKept, EndIsTrue, Executing, TypeOK, ShownKept, EndsRight
  <2> QED  BY <2>2, <2>3
<1>3. CASE Resume(r) /\ status[r] # "paused"
  BY <1>1, <1>3, SameTruth DEF Resume, ShownKept
<1>4. CASE Halt(r, a)
  <2>1. /\ resumed' = resumed
        /\ status'[q] = status[q] \/ status'[q] \in {"paused", "killed"}
    BY <1>4 DEF Halt, TypeOK
  <2>2. status'[q] = "done" => status[q] = "done"
    BY <2>1
  <2> QED  BY <1>1, <2>1, <2>2 DEF TruthKept, ShownKept, EndIsTrue, Executing, EndsRight
<1> QED  BY <1>2, <1>3, <1>4 DEF Handle

LEMMA TruthStep ==
    ASSUME TypeOK, KnownRuns, [Next]_vars, NEW q \in Runs, EndsRight(q)
    PROVE  (TruthKept(q) /\ ShownKept(q)) \/ Create(q) \/ OnFinished(q)
<1> DEFINE G == (TruthKept(q) /\ ShownKept(q)) \/ Create(q) \/ OnFinished(q)
<1>1. ASSUME UNCHANGED <<status, completed, resumed, shown>> PROVE G
  BY <1>1, SameTruth DEF ShownKept
<1>2. ASSUME \/ UNCHANGED vars \/ Idle \/ SwitchTab
             \/ \E r \in Runs : Start(r) \/ RunSpec(r) \/ PostFails(r)
             \/ \E a \in Requests : Patch(a)
      PROVE  G
  <2>1. UNCHANGED <<status, completed, resumed, shown>>
    BY <1>2 DEF vars, Idle, SwitchTab, Start, RunSpec, Post, PostFails, Patch, store, server, task
  <2> QED  BY <1>1, <2>1
<1>3. ASSUME NEW r \in Runs, OnOpen(r) \/ OnMessage(r) \/ OnClose(r) \/ Timer(r)
             \/ Accept(r) \/ Emit(r) \/ Break(r)
      PROVE  G
  <2>1. UNCHANGED <<status, completed, resumed, shown>>
    BY <1>3 DEF OnOpen, OnMessage, OnClose, Timer, Accept, Emit, Break, store, server, task
  <2> QED  BY <1>1, <2>1
<1>4. ASSUME NEW r \in Runs, Answered(r) PROVE G
  <2>1. UNCHANGED <<status, completed, resumed>> /\ (shown'[q] = shown[q] \/ shown'[q] = "running")
    BY <1>4 DEF Answered, task, TypeOK
  <2> QED  BY <2>1, SameTruth DEF ShownKept, Terminal
<1>5. ASSUME NEW r \in Runs, OnFinished(r) PROVE G
  <2>1. UNCHANGED <<status, completed, resumed>> /\ (q # r => shown'[q] = shown[q])
    BY <1>5 DEF OnFinished, server, task, TypeOK
  <2> QED  BY <1>5, <2>1, SameTruth DEF ShownKept
<1>6. ASSUME NEW r \in Runs, Create(r) PROVE G
  <2>1. UNCHANGED <<completed, resumed, shown>> /\ (q # r => status'[q] = status[q])
    BY <1>6 DEF Create, store, TypeOK
  <2> QED  BY <1>6, <2>1 DEF ShownKept, TruthKept, EndIsTrue, Executing, EndsRight
<1>7. ASSUME NEW r \in Runs, NEW end \in {"done", "error"}, TaskEnds(r, end) PROVE G
  <2>1. /\ status[r] = "running" /\ status' = [status EXCEPT ![r] = end] /\ shown' = shown
        /\ completed' = (IF end = "done" THEN completed \cup {r} ELSE completed)
        /\ resumed' = resumed
    BY <1>7 DEF TaskEnds, Executing, store
  <2>2. CASE q = r
    <3>1. status'[q] = end /\ (end = "done" => q \in completed') /\ completed \subseteq completed'
      BY <2>1, <2>2 DEF TypeOK
    <3> QED  BY <2>1, <2>2, <3>1 DEF ShownKept, TruthKept, EndIsTrue, Executing
  <2>3. CASE q # r
    <3>1. status'[q] = status[q] /\ completed \subseteq completed'
      BY <2>1, <2>3 DEF TypeOK
    <3> QED  BY <2>1, <2>3, <3>1 DEF ShownKept, TruthKept, EndIsTrue, Executing, EndsRight
  <2> QED  BY <2>2, <2>3
<1>8. ASSUME NEW r \in Runs, NEW a \in Requests, PatchArrives(r, a) \/ OtherAsks(r, a) PROVE G
  BY <1>8, HandleTruth DEF PatchArrives, OtherAsks
<1>9. ASSUME Crash PROVE G
  <2>1. status'[q] = "absent" /\ UNCHANGED <<completed, resumed, shown>>
    BY <1>9 DEF Crash, store
  <2> QED  BY <2>1 DEF ShownKept, TruthKept, EndIsTrue, Executing, EndsRight
<1> HIDE DEF G
<1>10. G
  BY <1>2, <1>3, <1>4, <1>5, <1>6, <1>7, <1>8, <1>9 DEF Next, Browser
<1> QED  BY <1>10 DEF G

LEMMA EndsStep ==
    ASSUME TypeOK, TypeOK', KnownRuns, [Next]_vars, NEW q \in Runs, EndsRight(q)
    PROVE  EndsRight(q)'
<1>1. Effect(q) /\ wire[q] \in Seq(Events)
  BY StepEffects, IdFacts
<1>2. CASE TruthKept(q) /\ ShownKept(q)
  <2>1. Heard(q) => Quiet(q)
    BY <1>1, TailEmbeds DEF Heard, Quiet
  <2> QED  BY <1>1, <1>2, <2>1, EndsKept, EndsEmitted, EndsEnded, EndsGreeted DEF Effect
<1>3. CASE Create(q)
  <2>1. /\ wire'[q] = << >> /\ shown'[q] = "absent" /\ status'[q] = "running"
    BY <1>3 DEF Create, KnownRuns, TypeOK, store, hook
  <2>2. DOMAIN wire'[q] = {}
    BY <2>1
  <2> QED  BY <2>1, <2>2, NextTruth DEF Terminal
<1>4. CASE OnFinished(q)
  <2>1. /\ wire[q] # << >> /\ See(q) /\ IsEnd(Event(q)) /\ shown'[q] = Event(q).status
        /\ UNCHANGED <<status, completed, resumed>>
    BY <1>4 DEF OnFinished, server, task, IsEnd, TypeOK
  <2>2. Event(q) = wire[q][1] /\ wire'[q] = Tail(wire[q]) /\ 1 \in DOMAIN wire[q]
    BY <2>1, SeenFacts
  <2>3. \A i \in DOMAIN wire'[q] : /\ i \in Nat /\ 1 < i + 1
                                   /\ i + 1 \in DOMAIN wire[q] /\ wire'[q][i] = wire[q][i + 1]
    <3>1. \A i \in 1..Len(wire[q]) : i \in Nat /\ 1 < i + 1
      OBVIOUS
    <3> QED  BY <1>1, <2>1, <2>2, <3>1, TailFacts
  <2>4. \A e : EndIsTrue(q, e) => TrueNext(q, e)
    BY <2>1 DEF EndIsTrue, TrueNext, Executing
  <2>5. \A i \in DOMAIN wire'[q] : IsEnd(wire'[q][i]) => TrueNext(q, wire'[q][i].status)
    BY <2>3, <2>4 DEF EndsRight, EndsAreLast
  <2>6. TrueNext(q, shown'[q])
    BY <2>1, <2>2, <2>4 DEF EndsRight, EndsAreLast
  <2>7. q \notin resumed' => \A i \in DOMAIN wire'[q] : ~IsFrame(wire'[q][i])
    BY <2>1, <2>2, <2>3 DEF EndsRight, EndsAreLast
  <2>8. status'[q] = "done" => q \in completed'
    BY <2>1 DEF EndsRight
  <2> QED  BY <2>5, <2>6, <2>7, <2>8, NextTruth
<1> QED  BY <1>2, <1>3, <1>4, TruthStep

--------------------------------------------------------------------------------
\* Which runs the browser knows.

Known(q) ==
    IF post[q] = "known" THEN shown[q] \in Terminal \cup {"running"}
    ELSE conn[q] = "none" /\ wire[q] = << >> /\ shown[q] = "absent" /\ q \notin subscribed

ActiveKnown == active # None => post[active] = "known"

LEMMA KnownParts ==
    /\ KnownRuns <=> (\A q \in Runs : Known(q)) /\ ActiveKnown
    /\ KnownRuns' <=> (\A q \in Runs : Known(q)') /\ ActiveKnown'
BY DEF KnownRuns, Known, ActiveKnown

\* A run that is known stays so, and another is as it was.
StaysKnown(q) ==
    \/ /\ post[q] = "known" /\ post'[q] = "known"
       /\ shown'[q] = shown[q] \/ shown'[q] \in Terminal \cup {"running"}
    \/ /\ post[q] # "known" /\ post'[q] # "known"
       /\ conn'[q] = conn[q] /\ wire'[q] = wire[q] /\ shown'[q] = shown[q]
       /\ q \in subscribed' => q \in subscribed

LEMMA KnownKept ==
    ASSUME NEW q \in Runs, Known(q), StaysKnown(q)
    PROVE  Known(q)'
BY DEF Known, StaysKnown

\* Steps that concern one run, which is known.
LEMMA KnownOne ==
    ASSUME KnownRuns, NEW q \in Runs, NEW r \in Runs, post[r] = "known", UNCHANGED post,
           shown'[r] \in {shown[r]} \cup Terminal,
           q # r => /\ conn'[q] = conn[q] /\ wire'[q] = wire[q] /\ shown'[q] = shown[q]
                    /\ q \in subscribed' => q \in subscribed
    PROVE  StaysKnown(q)
<1>1. CASE q = r
  BY <1>1 DEF StaysKnown
<1>2. CASE q # r
  BY <1>2 DEF StaysKnown
<1> QED  BY <1>1, <1>2

LEMMA HookKnown ==
    ASSUME TypeOK, KnownRuns, NEW q \in Runs, NEW r \in Runs, Browser(r)
    PROVE  StaysKnown(q) /\ UNCHANGED <<post, active>>
<1>1. ASSUME OnOpen(r) \/ OnMessage(r) \/ OnFinished(r) \/ OnClose(r)
      PROVE  StaysKnown(q) /\ UNCHANGED <<post, active>>
  <2>1. /\ wire[r] # << >> /\ See(r) /\ UNCHANGED <<post, active, subscribed>>
        /\ q # r => conn'[q] = conn[q] /\ shown'[q] = shown[q]
    BY <1>1 DEF OnOpen, OnMessage, OnFinished, OnClose, form, store, server, TypeOK
  <2>2. shown'[r] \in {shown[r]} \cup Terminal
    <3>1. CASE OnFinished(r)
      BY <3>1, SeenFacts, EndFacts DEF OnFinished, TypeOK
    <3>2. CASE ~OnFinished(r)
      BY <1>1, <3>2 DEF OnOpen, OnMessage, OnClose, store
    <3> QED  BY <3>1, <3>2
  <2>3. post[r] = "known" /\ (q # r => wire'[q] = wire[q])
    BY <2>1, SeenFacts DEF KnownRuns
  <2> QED  BY <2>1, <2>2, <2>3, KnownOne
<1>2. ASSUME Timer(r) PROVE StaysKnown(q) /\ UNCHANGED <<post, active>>
  <2>1. /\ conn[r] = "timer" /\ UNCHANGED <<post, active, wire, shown, subscribed>>
        /\ q # r => conn'[q] = conn[q]
    BY <1>2 DEF Timer, NewSocket, form, store, server, TypeOK
  <2>2. post[r] = "known"
    BY <2>1 DEF KnownRuns
  <2> QED  BY <2>1, <2>2, KnownOne
<1> QED  BY <1>1, <1>2 DEF Browser

LEMMA FinishKnown ==
    ASSUME TypeOK, KnownRuns, NEW q \in Runs, NEW r \in Runs, NEW end \in Terminal, Finish(r, end),
           UNCHANGED <<post, shown, conn>>
    PROVE  StaysKnown(q)
<1>1. subscribed' \subseteq subscribed /\ (q # r => wire'[q] = wire[q])
  BY FinishFacts DEF Finish
<1>2. CASE r \in subscribed
  <2>1. post[r] = "known"
    BY <1>2 DEF KnownRuns
  <2> QED  BY <1>1, <2>1, KnownOne
<1>3. CASE r \notin subscribed
  <2>1. wire' = wire
    BY <1>3 DEF Finish
  <2> QED  BY <1>1, <2>1 DEF StaysKnown
<1> QED  BY <1>2, <1>3

LEMMA ServerKnown ==
    ASSUME TypeOK, KnownRuns, NEW q \in Runs
    PROVE  /\ \A r \in Runs : Create(r) \/ Accept(r) \/ Emit(r) \/ Break(r) =>
                                StaysKnown(q) /\ UNCHANGED active
           /\ \A r \in Runs : \A end \in {"done", "error"} : TaskEnds(r, end) =>
                                StaysKnown(q) /\ UNCHANGED active
           /\ \A r \in Runs : \A a \in Requests : Handle(r, a) => StaysKnown(q) /\ UNCHANGED active
           /\ Crash => StaysKnown(q) /\ UNCHANGED active
<1>1. ASSUME NEW r \in Runs, Create(r) PROVE StaysKnown(q) /\ UNCHANGED active
  <2>1. /\ UNCHANGED <<shown, conn, wire, subscribed, active>> /\ post[r] = "posted"
        /\ post' = [post EXCEPT ![r] = "answered"]
    BY <1>1 DEF Create, store, hook
  <2> QED  BY <2>1 DEF StaysKnown, TypeOK
<1>2. ASSUME NEW r \in Runs, Accept(r) PROVE StaysKnown(q) /\ UNCHANGED active
  <2>1. /\ conn[r] = "connecting" /\ UNCHANGED <<post, shown, conn, active>>
        /\ q # r => wire'[q] = wire[q] /\ (q \in subscribed' => q \in subscribed)
    BY <1>2 DEF Accept, Unaccepted, form, store, TypeOK
  <2>2. post[r] = "known"
    BY <2>1 DEF KnownRuns
  <2> QED  BY <2>1, <2>2, KnownOne
<1>3. ASSUME NEW r \in Runs, Emit(r) PROVE StaysKnown(q) /\ UNCHANGED active
  <2>1. /\ UNCHANGED <<post, shown, conn, subscribed, active>> /\ (q # r => wire'[q] = wire[q])
        /\ r \notin subscribed => wire' = wire
    BY <1>3 DEF Emit, form, store, TypeOK
  <2>2. CASE r \in subscribed
    <3>1. post[r] = "known"
      BY <2>2 DEF KnownRuns
    <3> QED  BY <2>1, <3>1, KnownOne
  <2>3. CASE r \notin subscribed
    BY <2>1, <2>3 DEF StaysKnown, KnownRuns
  <2> QED  BY <2>2, <2>3
<1>4. ASSUME NEW r \in Runs, Break(r) PROVE StaysKnown(q) /\ UNCHANGED active
  <2>1. /\ conn[r] \in {"connecting", "open"} /\ UNCHANGED <<post, shown, conn, active>>
        /\ q # r => wire'[q] = wire[q]
        /\ subscribed' \subseteq subscribed
    BY <1>4 DEF Break, form, store, TypeOK
  <2>2. post[r] = "known"
    BY <2>1 DEF KnownRuns
  <2> QED  BY <2>1, <2>2, KnownOne
<1>5. ASSUME NEW r \in Runs, NEW end \in {"done", "error"}, TaskEnds(r, end)
      PROVE  StaysKnown(q) /\ UNCHANGED active
  <2>1. UNCHANGED <<post, shown, conn, active>> /\ Finish(r, end) /\ end \in Terminal
    BY <1>5 DEF TaskEnds, form, store, Terminal
  <2> QED  BY <2>1, FinishKnown
<1>6. ASSUME NEW r \in Runs, NEW a \in Requests, Handle(r, a) PROVE StaysKnown(q) /\ UNCHANGED active
  <2>1. UNCHANGED <<post, shown, conn, active>> /\ (UNCHANGED <<wire, subscribed>> \/ Finish(r, "killed"))
    BY <1>6 DEF Handle, Resume, Halt, form, store
  <2>2. CASE UNCHANGED <<wire, subscribed>>
    BY <2>1, <2>2 DEF StaysKnown, KnownRuns
  <2> QED  BY <2>1, <2>2, FinishKnown DEF Terminal
<1>7. ASSUME Crash PROVE StaysKnown(q) /\ UNCHANGED active
  <2>1. /\ UNCHANGED <<post, shown, conn, active>> /\ subscribed' = {}
        /\ q \notin subscribed => wire'[q] = wire[q]
    BY <1>7 DEF Crash, form, store
  <2> QED  BY <2>1 DEF StaysKnown, KnownRuns
<1> QED  BY <1>1, <1>2, <1>3, <1>4, <1>5, <1>6, <1>7

LEMMA AnsweredFacts ==
    ASSUME TypeOK, KnownRuns, NEW r \in Runs, Answered(r), NEW q \in Runs, q # r
    PROVE  /\ post'[q] = post[q] /\ shown'[q] = shown[q]
           /\ conn'[q] \in {conn[q], "closing"} /\ wire'[q] \in {wire[q], <<Closing>>}
           /\ StaysKnown(q)
<1> DEFINE left == Leave(socket)
<1>1. /\ post' = [post EXCEPT ![r] = "known"] /\ shown' = [shown EXCEPT ![r] = "running"]
      /\ conn' = [left[1] EXCEPT ![r] = "connecting"] /\ wire' = left[2]
      /\ subscribed' = left[3]
  BY DEF Answered, NewSocket
<1>2. CASE ~Closable(socket)
  <2>1. left[1] = conn /\ left[2] = wire /\ left[3] = subscribed
    BY <1>2 DEF Leave
  <2> QED  BY <1>1, <2>1 DEF StaysKnown, KnownRuns, TypeOK
<1>3. CASE Closable(socket)
  <2>1. /\ left[1] = [conn EXCEPT ![socket] = "closing"]
        /\ left[2] = [wire EXCEPT ![socket] = <<Closing>>]
        /\ left[3] = subscribed \ {socket}
    BY <1>3 DEF Leave, Closing
  <2>2. socket \in Runs /\ post[socket] = "known"
    BY <1>3 DEF Closable, KnownRuns, TypeOK
  <2> HIDE DEF left
  <2>3. CASE q = socket
    BY <1>1, <2>1, <2>2, <2>3 DEF StaysKnown, KnownRuns, TypeOK
  <2>4. CASE q # socket
    BY <1>1, <2>1, <2>2, <2>4 DEF StaysKnown, KnownRuns, TypeOK
  <2> QED  BY <2>3, <2>4
<1> QED  BY <1>2, <1>3

LEMMA KnownStep ==
    ASSUME TypeOK, KnownRuns, [Next]_vars
    PROVE  KnownRuns'
<1>0. (\A q \in Runs : Known(q)) /\ ActiveKnown
  BY KnownParts
<1>1. ASSUME \A q \in Runs : StaysKnown(q), UNCHANGED active PROVE KnownRuns'
  <2>1. ActiveKnown'
    BY <1>0, <1>1 DEF ActiveKnown, StaysKnown, TypeOK
  <2> QED  BY <1>0, <1>1, <2>1, KnownKept, KnownParts
<1>2. ASSUME UNCHANGED vars \/ Idle \/ SwitchTab \/ \E a \in Requests : Patch(a)
      PROVE  KnownRuns'
  <2>1. UNCHANGED <<post, active, shown, conn, wire, subscribed>>
    BY <1>2 DEF vars, Idle, SwitchTab, Patch, form, store, hook, server
  <2> QED  BY <2>1 DEF KnownRuns
<1>3. ASSUME NEW r \in Runs, Start(r) \/ RunSpec(r) \/ PostFails(r)
      PROVE  KnownRuns'
  <2>1. /\ UNCHANGED <<active, shown, conn, wire, subscribed>>
        /\ post[r] # "known" /\ post'[r] # "known" /\ (\A q \in Runs \ {r} : post'[q] = post[q])
    BY <1>3 DEF Start, RunSpec, Post, PostFails, store, hook, server, TypeOK
  <2>2. \A q \in Runs : StaysKnown(q)
    BY <2>1 DEF StaysKnown
  <2> QED  BY <1>1, <2>1, <2>2
<1>4. ASSUME NEW r \in Runs, Answered(r) PROVE KnownRuns'
  <2>1. post'[r] = "known" /\ shown'[r] = "running" /\ active' = r
    BY <1>4 DEF Answered, TypeOK
  <2>2. Known(r)' /\ ActiveKnown'
    BY <2>1 DEF Known, ActiveKnown
  <2>3. \A q \in Runs \ {r} : Known(q)'
    BY <1>0, <1>4, AnsweredFacts, KnownKept
  <2> QED  BY <2>2, <2>3, KnownParts
<1>5. ASSUME NEW r \in Runs, Browser(r) PROVE KnownRuns'
  BY <1>1, <1>5, HookKnown
<1>6. ASSUME NEW r \in Runs, Create(r) \/ Accept(r) \/ Emit(r) \/ Break(r) PROVE KnownRuns'
  BY <1>1, <1>6, ServerKnown
<1>7. ASSUME NEW r \in Runs, NEW end \in {"done", "error"}, TaskEnds(r, end) PROVE KnownRuns'
  BY <1>1, <1>7, ServerKnown
<1>8. ASSUME NEW r \in Runs, NEW a \in Requests, PatchArrives(r, a) \/ OtherAsks(r, a) PROVE KnownRuns'
  BY <1>1, <1>8, ServerKnown DEF PatchArrives, OtherAsks
<1>9. ASSUME Crash PROVE KnownRuns'
  <2>1. UNCHANGED active
    BY <1>9 DEF Crash, store
  <2> QED  BY <1>1, <1>9, <2>1, ServerKnown
<1> QED  BY <1>2, <1>3, <1>4, <1>5, <1>6, <1>7, <1>8, <1>9 DEF Next

--------------------------------------------------------------------------------
\* Who has stopped the hook.

LEMMA StopsStep ==
    ASSUME TypeOK, TypeOK', KnownRuns, StopsFit, [Next]_vars
    PROVE  StopsFit'
<1> USE DEF StopsFit
<1>1. ASSUME UNCHANGED <<stopped, stopper, post, conn, shown>> PROVE StopsFit'
  BY <1>1
<1>2. ASSUME \/ UNCHANGED vars \/ Idle \/ SwitchTab \/ Crash
             \/ \E a \in Requests : Patch(a)
             \/ \E r \in Runs : OnMessage(r) \/ Accept(r) \/ Emit(r) \/ Break(r)
             \/ \E r \in Runs, end \in {"done", "error"} : TaskEnds(r, end)
             \/ \E r \in Runs, a \in Requests : PatchArrives(r, a) \/ OtherAsks(r, a)
      PROVE  StopsFit'
  <2>1. CASE UNCHANGED vars \/ Idle \/ SwitchTab \/ Crash \/ \E a \in Requests : Patch(a)
    BY <1>1, <2>1 DEF vars, Idle, SwitchTab, Crash, Patch, form, store, hook
  <2>2. CASE \E r \in Runs : OnMessage(r) \/ Accept(r) \/ Emit(r) \/ Break(r)
    BY <1>1, <2>2 DEF OnMessage, Accept, Emit, Break, form, store
  <2>3. CASE \E r \in Runs, end \in {"done", "error"} : TaskEnds(r, end)
    BY <1>1, <2>3 DEF TaskEnds, form, store
  <2>4. CASE \E r \in Runs, a \in Requests : PatchArrives(r, a) \/ OtherAsks(r, a)
    BY <1>1, <2>4 DEF PatchArrives, OtherAsks, Handle, form, store
  <2> QED  BY <1>2, <2>1, <2>2, <2>3, <2>4
<1>3. ASSUME NEW r \in Runs, Start(r) \/ RunSpec(r) \/ PostFails(r) \/ Create(r) PROVE StopsFit'
  <2>1. /\ UNCHANGED <<stopped, stopper, conn, shown>>
        /\ post[r] # "known" /\ (\A q \in Runs \ {r} : post'[q] = post[q])
    <3>1. CASE Start(r) \/ RunSpec(r)
      <4>1. /\ UNCHANGED <<stopped, stopper, conn, shown>>
            /\ post[r] = "unasked" /\ post' = [post EXCEPT ![r] = "posted"]
        BY <3>1 DEF Start, RunSpec, Post, hook
      <4> QED  BY <4>1 DEF TypeOK
    <3>2. CASE PostFails(r)
      BY <3>2 DEF PostFails, store, hook, TypeOK
    <3>3. CASE Create(r)
      BY <3>3 DEF Create, store, hook, TypeOK
    <3> QED  BY <1>3, <3>1, <3>2, <3>3
  <2>2. stopper # None => stopper \in Runs
    BY DEF TypeOK
  <2> QED  BY <2>1, <2>2
<1>4. ASSUME NEW r \in Runs, Answered(r) PROVE StopsFit'
  <2>1. /\ stopped' = FALSE /\ stopper' = stopper /\ post[r] = "answered"
        /\ conn'[r] = "connecting"
    <3>1. conn' = [Leave(socket)[1] EXCEPT ![r] = "connecting"]
      BY <1>4 DEF Answered, NewSocket
    <3>2. DOMAIN (Leave(socket)[1]) = Runs
      BY DEF Leave, TypeOK
    <3> QED  BY <1>4, <3>1, <3>2 DEF Answered
  <2>2. \A q \in Runs \ {r} : /\ post'[q] = post[q] /\ shown'[q] = shown[q]
                              /\ conn'[q] = "dead" => conn[q] = "dead"
    BY <1>4, AnsweredFacts
  <2>3. stopper # None => stopper \in Runs \ {r}
    BY <2>1 DEF TypeOK
  <2> QED  BY <2>1, <2>2, <2>3
<1>5. ASSUME NEW r \in Runs, OnOpen(r) \/ OnClose(r) \/ Timer(r) PROVE StopsFit'
  <2>1. /\ UNCHANGED <<stopped, stopper, post, shown>>
        /\ conn'[r] = "dead" => stopped
        /\ \A q \in Runs \ {r} : conn'[q] = conn[q]
    <3>1. CASE OnOpen(r)
      BY <3>1 DEF OnOpen, form, store, TypeOK
    <3>2. CASE OnClose(r)
      BY <3>2 DEF OnClose, form, store, TypeOK
    <3>3. CASE Timer(r)
      BY <3>3 DEF Timer, NewSocket, form, store, TypeOK
    <3> QED  BY <1>5, <3>1, <3>2, <3>3
  <2> QED  BY <2>1
<1>6. ASSUME NEW r \in Runs, OnFinished(r) PROVE StopsFit'
  <2>1. /\ stopper' = r /\ post' = post /\ conn' = conn /\ wire[r] # << >>
        /\ Event(r).kind = "run_finished" /\ shown'[r] = Event(r).status
    BY <1>6 DEF OnFinished, form, TypeOK
  <2>2. post[r] = "known"
    BY <2>1 DEF KnownRuns
  <2>3. shown'[r] \in Terminal
    BY <2>1, SeenFacts, EndFacts
  <2>4. r # None
    BY DEF Runs, None
  <2> QED  BY <2>1, <2>2, <2>3, <2>4
<1> QED  BY <1>2, <1>3, <1>4, <1>5, <1>6 DEF Next, Browser

--------------------------------------------------------------------------------
\* One run at a time.

\* OneAtATime, of what it speaks of.
LEMMA OneKept ==
    ASSUME OneAtATime, UNCHANGED <<post, active, nodes, overlap>>, resumed \subseteq resumed',
           \A r \in Runs : shown'[r] = shown[r] \/ shown'[r] \in Terminal
    PROVE  OneAtATime'
BY DEF OneAtATime, Pending, Reached

LEMMA OneStep ==
    ASSUME TypeOK, TypeOK', KnownRuns, WiresFit, OneAtATime, [Next]_vars
    PROVE  OneAtATime'
<1>1. ASSUME UNCHANGED vars \/ Idle \/ SwitchTab \/ \E a \in Requests : Patch(a)
      PROVE  OneAtATime'
  <2>1. UNCHANGED <<post, active, nodes, overlap, resumed, shown>>
    BY <1>1 DEF vars, Idle, SwitchTab, Patch, form, store, server, task
  <2> QED  BY <2>1, OneKept
<1>2. ASSUME Crash PROVE OneAtATime'
  <2>1. UNCHANGED <<post, active, nodes, overlap, resumed, shown>>
    BY <1>2 DEF Crash, form, store
  <2> QED  BY <2>1, OneKept
<1>3. ASSUME NEW r \in Runs, OnOpen(r) \/ OnClose(r) \/ Timer(r) \/ Accept(r) \/ Emit(r) \/ Break(r)
      PROVE  OneAtATime'
  <2>1. UNCHANGED <<post, active, nodes, overlap, resumed, shown>>
    BY <1>3 DEF OnOpen, OnClose, Timer, Accept, Emit, Break, form, store, server, task
  <2> QED  BY <2>1, OneKept
<1>4. ASSUME NEW r \in Runs, NEW end \in {"done", "error"}, TaskEnds(r, end) PROVE OneAtATime'
  <2>1. UNCHANGED <<post, active, nodes, overlap, resumed, shown>>
    BY <1>4 DEF TaskEnds, form, store
  <2> QED  BY <2>1, OneKept
<1>5. ASSUME NEW r \in Runs, NEW a \in Requests, PatchArrives(r, a) \/ OtherAsks(r, a) PROVE OneAtATime'
  <2>1. UNCHANGED <<post, active, nodes, overlap, shown>> /\ resumed \subseteq resumed'
    BY <1>5 DEF PatchArrives, OtherAsks, Handle, Resume, Halt, form, store
  <2> QED  BY <2>1, OneKept
<1>6. ASSUME NEW r \in Runs, OnFinished(r) PROVE OneAtATime'
  <2>1. UNCHANGED <<post, active, nodes, overlap, resumed>>
    BY <1>6 DEF OnFinished, form, server, task
  <2>2. Event(r).status \in Terminal
    BY <1>6, SeenFacts, EndFacts DEF OnFinished
  <2>3. \A q \in Runs : shown'[q] = shown[q] \/ shown'[q] \in Terminal
    BY <1>6, <2>2 DEF OnFinished, TypeOK
  <2> QED  BY <2>1, <2>3, OneKept
<1>7. ASSUME NEW r \in Runs, OnMessage(r) PROVE OneAtATime'
  <2>1. /\ UNCHANGED <<post, active, overlap, resumed, shown>> /\ wire[r] # << >>
        /\ IsFrame(Event(r))
    BY <1>7 DEF OnMessage, form, server, task, IsFrame
  <2>2. \A n \in Nodes : nodes'[n] = nodes[n] \/ nodes'[n].by = r
    BY <1>7 DEF OnMessage, TypeOK
  <2>3. post[r] = "known"
    BY <2>1 DEF KnownRuns
  <2>4. r \in resumed \/ shown[r] \notin Terminal
    BY <2>1, SeenFacts DEF WiresFit, EndsAreLast
  <2>5. ~overlap => r \in resumed \/ (r = active /\ Pending = {})
    BY <2>3, <2>4 DEF OneAtATime
  <2> QED  BY <2>1, <2>2, <2>5 DEF OneAtATime, Pending, Reached
<1>8. ASSUME NEW r \in Runs, Create(r) PROVE OneAtATime'
  <2>1. /\ UNCHANGED <<active, nodes, overlap, resumed, shown>> /\ post[r] = "posted"
        /\ post' = [post EXCEPT ![r] = "answered"]
    BY <1>8 DEF Create, store
  <2>2. \A q \in Runs : /\ (post'[q] = "known") <=> (post[q] = "known")
                        /\ (post'[q] \in {"posted", "answered"}) <=> (post[q] \in {"posted", "answered"})
    <3> SUFFICES ASSUME NEW q \in Runs
                 PROVE  \/ post'[q] = post[q]
                        \/ post[q] = "posted" /\ post'[q] = "answered"
      OBVIOUS
    <3> QED  BY <2>1 DEF TypeOK
  <2>3. Pending' = Pending
    BY <2>2 DEF Pending
  <2> QED  BY <2>1, <2>2, <2>3 DEF OneAtATime, Reached
<1>9. ASSUME NEW r \in Runs, PostFails(r) PROVE OneAtATime'
  <2>1. /\ UNCHANGED <<active, nodes, overlap, resumed, shown>> /\ post[r] = "posted"
        /\ post' = [post EXCEPT ![r] = "failed"]
    BY <1>9 DEF PostFails, store, server, task
  <2>2. /\ Pending' \subseteq Pending /\ r \in Pending
        /\ \A q \in Runs : post'[q] = "known" => post[q] = "known"
    BY <2>1 DEF Pending, TypeOK
  <2> QED  BY <2>1, <2>2 DEF OneAtATime, Reached
<1>10. ASSUME NEW r \in Runs, Answered(r) PROVE OneAtATime'
  <2>1. /\ UNCHANGED <<nodes, overlap, resumed>> /\ post[r] = "answered" /\ active' = r
        /\ post' = [post EXCEPT ![r] = "known"]
    BY <1>10 DEF Answered, task
  <2>2. /\ Pending' = Pending \ {r} /\ r \in Pending
        /\ \A q \in Runs \ {r} : post'[q] = post[q]
    BY <2>1 DEF Pending, TypeOK
  <2>3. \A q \in Runs \ {r} : shown'[q] = shown[q]
    BY <1>10, AnsweredFacts
  <2>4. ~overlap => Pending' = {}
    BY <2>2 DEF OneAtATime
  <2> QED  BY <2>1, <2>2, <2>3, <2>4 DEF OneAtATime, Reached
<1>11. ASSUME NEW r \in Runs, Start(r) \/ RunSpec(r) PROVE OneAtATime'
  <2>1. /\ UNCHANGED <<active, resumed, shown>> /\ post[r] = "unasked" /\ nodes' = Blank
        /\ post' = [post EXCEPT ![r] = "posted"]
        /\ ~overlap' => ~overlap /\ Pending = {} /\ ActiveStatus # "running"
    BY <1>11 DEF Start, RunSpec, Post, Offered, server, task
  <2>2. /\ Pending' = Pending \cup {r}
        /\ \A q \in Runs : post'[q] = "known" => post[q] = "known"
    BY <2>1, SMTT(20) DEF Pending, TypeOK
  <2>3. Reached' = {}
    BY <2>1 DEF Reached, Blank
  <2>4. ~overlap' => \A q \in Runs : post[q] = "known" => shown[q] \in Terminal
    <3> SUFFICES ASSUME ~overlap', NEW q \in Runs, post[q] = "known" PROVE shown[q] \in Terminal
      OBVIOUS
    <3>1. CASE q = active
      <4>1. q # None
        BY DEF Runs, None
      <4> QED  BY <2>1, <3>1, <4>1 DEF ActiveStatus, KnownRuns
    <3>2. CASE q # active
      BY <2>1, <3>2 DEF OneAtATime
    <3> QED  BY <3>1, <3>2
  <2> QED  BY <2>1, <2>2, <2>3, <2>4 DEF OneAtATime
<1> QED  BY <1>1, <1>2, <1>3, <1>4, <1>5, <1>6, <1>7, <1>8, <1>9, <1>10, <1>11 DEF Next, Browser

--------------------------------------------------------------------------------
\* Sockets and handlers.

\* What is left of a wire of which an event has been seen.
LEMMA SeenCloses ==
    ASSUME NEW w \in Seq(Events), w # << >>, ClosesLast(w)
    PROVE  /\ w[1].kind # "close" => ClosesLast(Tail(w)) /\ (Ending(Tail(w)) <=> Ending(w))
           /\ w[1].kind = "close" => Tail(w) = << >> /\ Ending(w)
<1> DEFINE t == Tail(w)
<1>1. /\ Len(w) \in Nat \ {0} /\ DOMAIN w = 1..Len(w)
      /\ t \in Seq(Events) /\ Len(t) = Len(w) - 1 /\ DOMAIN t = 1..(Len(w) - 1)
  OBVIOUS
<1>2. \A i \in 1..(Len(w) - 1) : t[i] = w[i + 1] /\ i + 1 \in DOMAIN w
  BY <1>1, TailFacts
<1>3. \A s \in Seq(Events) : s = << >> <=> Len(s) = 0
  OBVIOUS
<1> HIDE DEF t
<1>4. ASSUME w[1].kind # "close" PROVE ClosesLast(t) /\ (Ending(t) <=> Ending(w))
  <2>1. ClosesLast(t)
    <3> SUFFICES ASSUME NEW i \in DOMAIN t, t[i].kind = "close" PROVE i = Len(t)
      BY DEF ClosesLast
    <3>1. i \in 1..(Len(w) - 1) /\ i \in Nat
      BY <1>1
    <3>2. i + 1 \in DOMAIN w /\ w[i + 1].kind = "close"
      BY <1>2, <3>1
    <3>3. i + 1 = Len(w)
      BY <3>2 DEF ClosesLast
    <3> QED  BY <1>1, <3>1, <3>3
  <2>2. CASE Len(w) = 1
    <3>1. t = << >> /\ w[Len(w)].kind # "close"
      BY <1>1, <1>3, <1>4, <2>2
    <3> QED  BY <2>1, <3>1 DEF Ending
  <2>3. CASE Len(w) # 1
    <3>1. t # << >> /\ Len(w) - 1 \in 1..(Len(w) - 1) /\ (Len(w) - 1) + 1 = Len(w)
      BY <1>1, <1>3, <2>3
    <3>2. t[Len(t)] = w[Len(w)]
      BY <1>1, <1>2, <3>1
    <3> QED  BY <2>1, <3>1, <3>2 DEF Ending
  <2> QED  BY <2>1, <2>2, <2>3
<1>5. ASSUME w[1].kind = "close" PROVE t = << >> /\ Ending(w)
  <2>1. Len(w) = 1
    BY <1>1, <1>5 DEF ClosesLast
  <2> QED  BY <1>1, <1>3, <1>5, <2>1 DEF Ending
<1> QED  BY <1>4, <1>5 DEF t

\* An event more on a wire that is not closed.
LEMMA AppendedCloses ==
    ASSUME NEW w \in Seq(Events), ClosesLast(w), ~Ending(w), NEW e \in Events
    PROVE  /\ Append(w, e) \in Seq(Events) /\ ClosesLast(Append(w, e))
           /\ Ending(Append(w, e)) <=> e.kind = "close"
           /\ Append(w, e) # << >> /\ (w # << >> => Append(w, e)[1] = w[1])
<1>1. /\ Append(w, e) \in Seq(Events) /\ Len(Append(w, e)) = Len(w) + 1
      /\ DOMAIN Append(w, e) = DOMAIN w \cup {Len(w) + 1}
      /\ DOMAIN w = 1..Len(w) /\ Len(w) \in Nat
      /\ \A i \in DOMAIN w : Append(w, e)[i] = w[i]
      /\ Append(w, e)[Len(w) + 1] = e
  BY AppendFacts
<1>2. \A i \in DOMAIN w : w[i].kind # "close"
  BY <1>1 DEF ClosesLast, Ending
<1>3. ClosesLast(Append(w, e))
  BY <1>1, <1>2 DEF ClosesLast
<1>4. Append(w, e) # << >>
  BY <1>1
<1>5. w # << >> => 1 \in DOMAIN w
  BY <1>1
<1> QED  BY <1>1, <1>3, <1>4, <1>5 DEF Ending

\* A wire that has been cut is closed.
LEMMA CutCloses ==
    ASSUME NEW w \in Seq(Events), ClosesLast(w), ~Ending(w), NEW k \in 0..Len(w)
    PROVE  /\ ClosesLast(Cut(w, k)) /\ Ending(Cut(w, k)) /\ Cut(w, k) # << >>
           /\ Cut(w, k)[1].kind = "close" \/ (w # << >> /\ Cut(w, k)[1] = w[1])
<1> DEFINE v == Cut(w, k)
<1>1. /\ v \in Seq(Events) /\ DOMAIN v = 1..k + 1
      /\ \A i \in 1..k : i \in DOMAIN w /\ v[i] = w[i]
      /\ v[k + 1].kind = "close"
  BY CutFacts
<1> HIDE DEF v
<1>2. Len(v) = k + 1 /\ v # << >> /\ k \in Nat /\ Len(w) \in Nat
  BY <1>1
<1>3. \A i \in DOMAIN w : w[i].kind # "close"
  BY DEF ClosesLast, Ending
<1>4. ClosesLast(v)
  <2> SUFFICES ASSUME NEW i \in DOMAIN v, v[i].kind = "close" PROVE i = Len(v)
    BY DEF ClosesLast
  <2>1. i \in 1..k \/ i = k + 1
    BY <1>1, <1>2
  <2> QED  BY <1>1, <1>2, <1>3, <2>1
<1>5. Ending(v)
  BY <1>1, <1>2 DEF Ending
<1>6. v[1].kind = "close" \/ (w # << >> /\ v[1] = w[1])
  <2>1. CASE k = 0
    BY <1>1, <2>1
  <2>2. CASE k # 0
    <3>1. 1 \in 1..k
      BY <1>2, <2>2
    <3>2. 1 \in DOMAIN w /\ v[1] = w[1]
      BY <1>1, <3>1
    <3> QED  BY <3>2
  <2> QED  BY <2>1, <2>2
<1> QED  BY <1>2, <1>4, <1>5, <1>6 DEF v

\* The wires that a handler and ws.close() begin with.
LEMMA FreshCloses ==
    /\ ClosesLast(<< >>)
    /\ ClosesLast(<<Closing>>) /\ Ending(<<Closing>>)
    /\ ClosesLast(<<Opening>>) /\ ~Ending(<<Opening>>) /\ <<Opening>>[1].kind = "open"
    /\ ClosesLast(<<Opening, Closing>>) /\ Ending(<<Opening, Closing>>)
    /\ <<Opening, Closing>>[1].kind = "open"
    /\ \A e : /\ ClosesLast(<<Opening, EndOf(e), Closing>>) /\ Ending(<<Opening, EndOf(e), Closing>>)
              /\ <<Opening, EndOf(e), Closing>>[1].kind = "open"
BY DEF ClosesLast, Ending, Closing, Opening, EndOf

\* The socket and the handler of run q are as they were.
SameSocket(q) ==
    /\ conn'[q] = conn[q] /\ wire'[q] = wire[q]
    /\ q \in subscribed' <=> q \in subscribed
    /\ post'[q] = "known" => post[q] = "known"

LEMMA SocketKept ==
    ASSUME NEW q \in Runs, SocketFits(q), SameSocket(q)
    PROVE  SocketFits(q)'
BY DEF SocketFits, SameSocket, Unaccepted, ClosesLast, Ending

\* A socket with something on its wire, and its handler.
Connected(q) ==
    /\ conn[q] \in {"connecting", "open", "closing"} /\ wire[q] # << >>
    /\ q \in subscribed <=> ~Ending(wire[q])
    /\ conn[q] = "connecting" => wire[q][1].kind \in {"open", "close"}

LEMMA ConnectedFits ==
    /\ \A q \in Runs : Connected(q) /\ ClosesLast(wire[q]) => SocketFits(q)
    /\ \A q \in Runs : (Connected(q) /\ ClosesLast(wire[q]) => SocketFits(q))'
BY DEF Connected, SocketFits, Unaccepted

LEMMA FitsConnected ==
    ASSUME TypeOK, NEW q \in Runs, SocketFits(q)
    PROVE  /\ wire[q] # << >> => Connected(q)
           /\ q \in subscribed => /\ conn[q] \in {"connecting", "open", "closing"} /\ ~Ending(wire[q])
                                  /\ conn[q] = "connecting" => Connected(q)
           /\ wire[q] \in Seq(Events) /\ ClosesLast(wire[q])
BY DEF Connected, SocketFits, Unaccepted, TypeOK

\* onopen, onmessage and onclose.
LEMMA SocketSees ==
    ASSUME TypeOK, NEW q \in Runs, SocketFits(q),
           OnOpen(q) \/ OnMessage(q) \/ OnFinished(q) \/ OnClose(q)
    PROVE  SocketFits(q)'
<1>1. /\ wire[q] # << >> /\ See(q) /\ UNCHANGED <<post, subscribed>>
      /\ \/ Event(q).kind = "open" /\ conn'[q] = "open"
         \/ Event(q).kind \notin {"open", "close"} /\ conn' = conn
         \/ Event(q).kind = "close" /\ conn'[q] \in {"timer", "dead"}
  <2>1. CASE OnOpen(q)
    BY <2>1 DEF OnOpen, form, server, TypeOK
  <2>2. CASE OnMessage(q)
    BY <2>2 DEF OnMessage, Kinds, StatusAfter, form, server
  <2>3. CASE OnFinished(q)
    BY <2>3 DEF OnFinished, form, server
  <2>4. CASE OnClose(q)
    BY <2>4 DEF OnClose, form, server, TypeOK
  <2> QED  BY <2>1, <2>2, <2>3, <2>4
<1>2. Event(q) = wire[q][1] /\ wire'[q] = Tail(wire[q]) /\ Connected(q)
      /\ wire[q] \in Seq(Events) /\ ClosesLast(wire[q])
  BY <1>1, SeenFacts, FitsConnected
<1>3. CASE Event(q).kind = "close"
  <2>1. wire'[q] = << >> /\ q \notin subscribed'
    BY <1>1, <1>2, <1>3, SeenCloses DEF Connected
  <2>2. conn'[q] \in {"timer", "dead"}
    BY <1>1, <1>3
  <2> QED  BY <2>1, <2>2, FreshCloses DEF SocketFits, Unaccepted
<1>4. CASE Event(q).kind # "close"
  <2>1. ClosesLast(wire'[q]) /\ (q \in subscribed' <=> ~Ending(wire'[q]))
    BY <1>1, <1>2, <1>4, SeenCloses DEF Connected
  <2>2. conn'[q] \in {"open", "closing"}
    BY <1>1, <1>2, <1>4 DEF Connected
  <2> QED  BY <2>1, <2>2 DEF SocketFits, Unaccepted
<1> QED  BY <1>3, <1>4

\* The back-off has passed.
LEMMA SocketAgain ==
    ASSUME TypeOK, NEW q \in Runs, SocketFits(q), Timer(q)
    PROVE  SocketFits(q)'
<1>1. /\ conn[q] = "timer" /\ conn'[q] \in {"dead", "connecting"}
      /\ UNCHANGED <<wire, post, subscribed>>
  BY DEF Timer, NewSocket, form, server, TypeOK
<1> QED  BY <1>1 DEF SocketFits, Unaccepted, ClosesLast

\* The handler has accepted the connection.
LEMMA SocketAccepted ==
    ASSUME TypeOK, NEW q \in Runs, SocketFits(q), Accept(q)
    PROVE  SocketFits(q)' /\ (q \in subscribed' => status[q] \in {"running", "paused"})
<1>1. conn[q] = "connecting" /\ q \notin subscribed /\ UNCHANGED <<conn, post>>
  BY DEF Accept, Unaccepted, form
<1>2. q \in subscribed' <=> status[q] \in {"running", "paused"}
  BY <1>1 DEF Accept
<1>3. \/ status[q] \in {"running", "paused"} /\ wire'[q] = <<Opening>>
      \/ status[q] = "absent" /\ wire'[q] = <<Opening, Closing>>
      \/ status[q] \in Terminal /\ wire'[q] = <<Opening, EndOf(status[q]), Closing>>
  <2>1. CASE status[q] = "absent"
    <3>1. wire' = [wire EXCEPT ![q] = <<Opening, Closing>>]
      BY <2>1 DEF Accept, Opening, Closing, Terminal
    <3> QED  BY <2>1, <3>1 DEF TypeOK
  <2>2. CASE status[q] \in Terminal
    <3>1. wire' = [wire EXCEPT ![q] = <<Opening, EndOf(status[q]), Closing>>]
      BY <2>2 DEF Accept, Opening, Closing, EndOf, Terminal
    <3> QED  BY <2>2, <3>1 DEF TypeOK
  <2>3. CASE status[q] \in {"running", "paused"}
    <3>1. wire' = [wire EXCEPT ![q] = <<Opening>>]
      BY <2>3 DEF Accept, Opening, Terminal
    <3> QED  BY <2>3, <3>1 DEF TypeOK
  <2> QED  BY <2>1, <2>2, <2>3 DEF TypeOK
<1>4. /\ ClosesLast(wire'[q]) /\ wire'[q] # << >> /\ wire'[q][1].kind = "open"
      /\ Ending(wire'[q]) <=> status[q] \notin {"running", "paused"}
  <2>1. CASE status[q] \in {"running", "paused"}
    BY <1>3, <2>1, FreshCloses DEF Terminal
  <2>2. CASE status[q] = "absent"
    BY <1>3, <2>2, FreshCloses DEF Terminal
  <2>3. CASE status[q] \in Terminal
    <3>1. wire'[q] = <<Opening, EndOf(status[q]), Closing>> /\ status[q] \notin {"running", "paused"}
      BY <1>3, <2>3 DEF Terminal
    <3>2. <<Opening, EndOf(status[q]), Closing>> # << >>
      OBVIOUS
    <3> QED  BY <3>1, <3>2, FreshCloses
  <2> QED  BY <2>1, <2>2, <2>3 DEF TypeOK
<1>5. Connected(q)'
  BY <1>1, <1>2, <1>4 DEF Connected
<1> QED  BY <1>2, <1>4, <1>5, ConnectedFits

\* An event of the bus is forwarded; the last one is followed by the close.
LEMMA SocketForwards ==
    ASSUME TypeOK, NEW q \in Runs, SocketFits(q), q \in subscribed, NEW e \in Events,
           e.kind # "close", UNCHANGED <<conn, post>>,
           \/ wire'[q] = Append(wire[q], e) /\ q \in subscribed'
           \/ wire'[q] = Append(Append(wire[q], e), Closing) /\ q \notin subscribed'
    PROVE  SocketFits(q)'
<1> DEFINE w == wire[q]
           v == Append(w, e)
<1>1. /\ w \in Seq(Events) /\ ClosesLast(w) /\ ~Ending(w)
      /\ conn[q] \in {"connecting", "open", "closing"} /\ (conn[q] = "connecting" => Connected(q))
  BY FitsConnected
<1>2. /\ v \in Seq(Events) /\ ClosesLast(v) /\ ~Ending(v) /\ v # << >>
      /\ w # << >> => v[1] = w[1]
  BY <1>1, AppendedCloses
<1>3. Closing \in Events /\ Closing.kind = "close"
  BY EventsMade DEF Closing
<1> HIDE DEF v
<1>4. /\ ClosesLast(Append(v, Closing)) /\ Ending(Append(v, Closing)) /\ Append(v, Closing) # << >>
      /\ Append(v, Closing)[1] = v[1]
  BY <1>2, <1>3, AppendedCloses
<1>5. /\ ClosesLast(wire'[q]) /\ wire'[q] # << >> /\ (w # << >> => wire'[q][1] = w[1])
      /\ q \in subscribed' <=> ~Ending(wire'[q])
  BY <1>2, <1>4 DEF v
<1>6. Connected(q)'
  BY <1>1, <1>5 DEF Connected
<1> QED  BY <1>5, <1>6, ConnectedFits

\* The connection is cut off.
LEMMA SocketCut ==
    ASSUME TypeOK, NEW q \in Runs, SocketFits(q), conn[q] \in {"connecting", "open", "closing"},
           ~Ending(wire[q]), UNCHANGED <<conn, post>>, q \notin subscribed',
           NEW k \in 0..Len(wire[q]), wire'[q] = Cut(wire[q], k)
    PROVE  SocketFits(q)'
<1>1. wire[q] \in Seq(Events) /\ ClosesLast(wire[q]) /\ (wire[q] # << >> => Connected(q))
  BY FitsConnected
<1>2. /\ ClosesLast(wire'[q]) /\ Ending(wire'[q]) /\ wire'[q] # << >>
      /\ wire'[q][1].kind = "close" \/ (wire[q] # << >> /\ wire'[q][1] = wire[q][1])
  BY <1>1, CutCloses
<1>3. Connected(q)'
  BY <1>1, <1>2 DEF Connected
<1> QED  BY <1>2, <1>3, ConnectedFits

\* The hook's cleanup and effect.
LEMMA SocketReplaced ==
    ASSUME TypeOK, KnownRuns, SocketsFit, NEW r \in Runs, Answered(r), NEW q \in Runs
    PROVE  SocketFits(q)' /\ (q \in subscribed' => q \in subscribed)
<1> DEFINE left == Leave(socket)
<1>1. /\ post[r] = "answered" /\ post' = [post EXCEPT ![r] = "known"]
      /\ conn' = [left[1] EXCEPT ![r] = "connecting"] /\ wire' = left[2]
      /\ subscribed' = left[3]
  BY DEF Answered, NewSocket
<1>2. conn[r] = "none" /\ wire[r] = << >> /\ r \notin subscribed
  BY <1>1 DEF KnownRuns
<1>3. \/ left[1] = conn /\ left[2] = wire /\ left[3] = subscribed
      \/ /\ socket \in Runs \ {r}
         /\ left[1] = [conn EXCEPT ![socket] = "closing"]
         /\ left[2] = [wire EXCEPT ![socket] = <<Closing>>]
         /\ left[3] = subscribed \ {socket}
  BY <1>2 DEF Leave, Closing, Closable, TypeOK
<1> HIDE DEF left
<1>4. q \in subscribed' => q \in subscribed
  BY <1>1, <1>3
<1>5. CASE q = r
  <2>1. conn'[q] = "connecting" /\ wire'[q] = << >> /\ q \notin subscribed'
    BY <1>1, <1>2, <1>3, <1>5 DEF TypeOK
  <2> QED  BY <2>1, FreshCloses DEF SocketFits, Unaccepted
<1>6. CASE q # r /\ conn'[q] = "closing" /\ wire'[q] = <<Closing>> /\ q \notin subscribed'
  <2>1. <<Closing>> # << >>
    OBVIOUS
  <2>2. Connected(q)' /\ ClosesLast(wire'[q])
    BY <1>6, <2>1, FreshCloses DEF Connected
  <2> QED  BY <1>4, <2>2, ConnectedFits
<1>7. CASE q # r /\ ~(conn'[q] = "closing" /\ wire'[q] = <<Closing>> /\ q \notin subscribed')
  <2>1. SameSocket(q)
    <3>1. post'[q] = post[q]
      BY <1>1, <1>7 DEF TypeOK
    <3>2. CASE left[1] = conn /\ left[2] = wire /\ left[3] = subscribed
      BY <1>1, <1>7, <3>1, <3>2 DEF SameSocket, TypeOK
    <3>3. CASE /\ socket \in Runs \ {r}
               /\ left[1] = [conn EXCEPT ![socket] = "closing"]
               /\ left[2] = [wire EXCEPT ![socket] = <<Closing>>]
               /\ left[3] = subscribed \ {socket}
      <4>1. q # socket
        BY <1>1, <1>7, <3>3 DEF TypeOK
      <4> QED  BY <1>1, <1>7, <3>1, <3>3, <4>1 DEF SameSocket, TypeOK
    <3> QED  BY <1>3, <3>2, <3>3
  <2>2. SocketFits(q)
    BY DEF SocketsFit
  <2> QED  BY <1>4, <2>1, <2>2, SocketKept
<1> QED  BY <1>4, <1>5, <1>6, <1>7

\* What a task that ends, if it does, makes of a socket.
LEMMA SocketEnds ==
    ASSUME TypeOK, NEW q \in Runs, SocketFits(q), NEW r \in Runs, NEW end \in Terminal,
           Finish(r, end), UNCHANGED <<conn, post>>
    PROVE  SocketFits(q)' /\ subscribed' = subscribed \ {r}
<1>1. subscribed' = subscribed \ {r} /\ (q # r => wire'[q] = wire[q])
  BY FinishFacts DEF Finish
<1>2. CASE q = r /\ r \in subscribed
  <2>1. /\ EndOf(end) \in Events /\ EndOf(end).kind # "close"
        /\ Closing \in Events /\ wire[q] \in Seq(Events)
    BY EventsMade DEF EndOf, Closing, TypeOK
  <2>2. wire' = [wire EXCEPT ![q] = @ \o <<EndOf(end), Closing>>]
    BY <1>2 DEF Finish, EndOf, Closing
  <2>3. wire'[q] = Append(Append(wire[q], EndOf(end)), Closing)
    BY <2>1, <2>2, AppendTwoFacts DEF TypeOK
  <2> QED  BY <1>1, <1>2, <2>1, <2>3, SocketForwards
<1>3. CASE ~(q = r /\ r \in subscribed)
  <2>1. SameSocket(q)
    BY <1>1, <1>3 DEF SameSocket, Finish
  <2> QED  BY <1>1, <2>1, SocketKept
<1> QED  BY <1>2, <1>3

LEMMA SocketStep ==
    ASSUME TypeOK, KnownRuns, SocketsFit, [Next]_vars, NEW q \in Runs
    PROVE  SocketFits(q)'
<1>0. SocketFits(q)
  BY DEF SocketsFit
<1>1. ASSUME UNCHANGED vars \/ Idle \/ SwitchTab \/ \E a \in Requests : Patch(a)
      PROVE  SocketFits(q)'
  <2>1. SameSocket(q)
    BY <1>1 DEF vars, Idle, SwitchTab, Patch, form, store, hook, server, SameSocket
  <2> QED  BY <1>0, <2>1, SocketKept
<1>2. ASSUME NEW r \in Runs, Start(r) \/ RunSpec(r) \/ PostFails(r) \/ Create(r)
      PROVE  SocketFits(q)'
  <2>1. CASE Start(r) \/ RunSpec(r)
    <3>1. UNCHANGED <<conn, wire, subscribed>> /\ post' = [post EXCEPT ![r] = "posted"]
      BY <2>1 DEF Start, RunSpec, Post, hook, server
    <3> QED  BY <1>0, <3>1, SocketKept DEF SameSocket, TypeOK
  <2>2. CASE PostFails(r) \/ Create(r)
    <3>1. /\ UNCHANGED <<conn, wire, subscribed>>
          /\ \/ post' = [post EXCEPT ![r] = "failed"]
             \/ post' = [post EXCEPT ![r] = "answered"]
      BY <2>2 DEF PostFails, Create, hook, server
    <3> QED  BY <1>0, <3>1, SocketKept DEF SameSocket, TypeOK
  <2> QED  BY <1>2, <2>1, <2>2
<1>3. ASSUME NEW r \in Runs, Answered(r) PROVE SocketFits(q)'
  BY <1>3, SocketReplaced
<1>4. ASSUME NEW r \in Runs, Browser(r) PROVE SocketFits(q)'
  <2>1. CASE q = r
    BY <1>0, <1>4, <2>1, SocketSees, SocketAgain DEF Browser
  <2>2. CASE q # r
    <3>1. UNCHANGED <<post, subscribed>>
      BY <1>4 DEF Browser, OnOpen, OnMessage, OnFinished, OnClose, Timer, form, server
    <3>2. conn'[q] = conn[q]
      BY <1>4, <2>2 DEF Browser, OnOpen, OnMessage, OnFinished, OnClose, Timer, NewSocket, TypeOK
    <3>3. wire'[q] = wire[q]
      BY <1>4, <2>2 DEF Browser, OnOpen, OnMessage, OnFinished, OnClose, Timer, NewSocket, See, TypeOK
    <3> QED  BY <1>0, <3>1, <3>2, <3>3, SocketKept DEF SameSocket
  <2> QED  BY <2>1, <2>2
<1>5. ASSUME NEW r \in Runs, Accept(r) PROVE SocketFits(q)'
  <2>1. CASE q = r
    BY <1>0, <1>5, <2>1, SocketAccepted
  <2>2. CASE q # r
    <3>1. UNCHANGED <<post, conn>> /\ (q \in subscribed' <=> q \in subscribed)
      BY <1>5, <2>2 DEF Accept, form
    <3>2. wire'[q] = wire[q]
      BY <1>5, <2>2 DEF Accept, TypeOK
    <3> QED  BY <1>0, <3>1, <3>2, SocketKept DEF SameSocket
  <2> QED  BY <2>1, <2>2
<1>6. ASSUME NEW r \in Runs, Emit(r) PROVE SocketFits(q)'
  <2>1. position[r] \in 0..Len(Script) /\ position[r] < Len(Script) /\ sent[r] \in Nat
    BY <1>6 DEF Emit, TypeOK
  <2> DEFINE frame == [id |-> sent[r] + 1, kind |-> Script[position[r] + 1].kind,
                       node |-> Script[position[r] + 1].node]
  <2>2. frame \in Events /\ frame.kind # "close"
    <3>1. /\ sent[r] + 1 \in Nat
          /\ Script[position[r] + 1].kind \in Kinds /\ Script[position[r] + 1].node \in Nodes
      BY <2>1, ScriptFacts
    <3>2. frame \in Events /\ frame.kind \in Kinds
      BY <3>1, EventsMade
    <3> QED  BY <3>2 DEF Kinds, StatusAfter
  <2>3. /\ UNCHANGED <<conn, post, subscribed>>
        /\ wire' = IF r \in subscribed THEN [wire EXCEPT ![r] = Append(@, frame)] ELSE wire
    BY <1>6 DEF Emit, form
  <2> HIDE DEF frame
  <2>4. CASE q = r /\ r \in subscribed
    <3>1. wire'[q] = Append(wire[q], frame)
      BY <2>3, <2>4 DEF TypeOK
    <3> QED  BY <1>0, <2>2, <2>3, <2>4, <3>1, SocketForwards
  <2>5. CASE ~(q = r /\ r \in subscribed)
    BY <1>0, <2>3, <2>5, SocketKept DEF SameSocket, TypeOK
  <2> QED  BY <2>4, <2>5
<1>7. ASSUME NEW r \in Runs, Break(r) PROVE SocketFits(q)'
  <2>1. PICK k \in 0..Len(wire[r]) : wire' = [wire EXCEPT ![r] = Cut(@, k)]
    BY <1>7 DEF Break
  <2>2. /\ conn[r] \in {"connecting", "open"} /\ ~Ending(wire[r]) /\ UNCHANGED <<conn, post>>
        /\ subscribed' = subscribed \ {r}
    BY <1>7 DEF Break, form
  <2>3. CASE q = r
    <3>1. wire'[q] = Cut(wire[q], k) /\ q \notin subscribed'
      BY <2>1, <2>2, <2>3 DEF TypeOK
    <3> QED  BY <1>0, <2>2, <2>3, <3>1, SocketCut
  <2>4. CASE q # r
    <3>1. wire'[q] = wire[q]
      BY <2>1, <2>4 DEF TypeOK
    <3> QED  BY <1>0, <2>2, <2>4, <3>1, SocketKept DEF SameSocket
  <2> QED  BY <2>3, <2>4
<1>8. ASSUME NEW r \in Runs, NEW end \in {"done", "error"}, TaskEnds(r, end) PROVE SocketFits(q)'
  <2>1. Finish(r, end) /\ end \in Terminal /\ UNCHANGED <<conn, post>>
    BY <1>8 DEF TaskEnds, form, Terminal
  <2> QED  BY <1>0, <2>1, SocketEnds
<1>9. ASSUME NEW r \in Runs, NEW a \in Requests, PatchArrives(r, a) \/ OtherAsks(r, a)
      PROVE  SocketFits(q)'
  <2>1. UNCHANGED <<conn, post>> /\ (UNCHANGED <<wire, subscribed>> \/ Finish(r, "killed"))
    BY <1>9 DEF PatchArrives, OtherAsks, Handle, Resume, Halt, form
  <2>2. CASE UNCHANGED <<wire, subscribed>>
    BY <1>0, <2>1, <2>2, SocketKept DEF SameSocket
  <2> QED  BY <1>0, <2>1, <2>2, SocketEnds DEF Terminal
<1>10. ASSUME Crash PROVE SocketFits(q)'
  <2>1. /\ UNCHANGED <<conn, post>> /\ subscribed' = {}
        /\ wire'[q] = IF q \in subscribed THEN Cut(wire[q], Len(wire[q])) ELSE wire[q]
    BY <1>10 DEF Crash, form
  <2>2. CASE q \in subscribed
    <3>1. conn[q] \in {"connecting", "open", "closing"} /\ ~Ending(wire[q])
      BY <1>0, <2>2, FitsConnected
    <3>2. Len(wire[q]) \in 0..Len(wire[q])
      BY DEF TypeOK
    <3> QED  BY <1>0, <2>1, <2>2, <3>1, <3>2, SocketCut
  <2>3. CASE q \notin subscribed
    BY <1>0, <2>1, <2>3, SocketKept DEF SameSocket
  <2> QED  BY <2>2, <2>3
<1> QED  BY <1>1, <1>2, <1>3, <1>4, <1>5, <1>6, <1>7, <1>8, <1>9, <1>10 DEF Next

LEMMA HandlersStep ==
    ASSUME TypeOK, KnownRuns, SocketsFit, HandlersFit, [Next]_vars
    PROVE  HandlersFit'
<1> DEFINE G == {"running", "paused", "killed"}
<1>0. \A q \in subscribed : q \in Runs /\ status[q] \in G /\ post[q] = "known"
  BY DEF HandlersFit, TypeOK, KnownRuns
<1>1. ASSUME subscribed' \subseteq subscribed, \A q \in subscribed' : status'[q] = status[q]
      PROVE  HandlersFit'
  BY <1>0, <1>1 DEF HandlersFit
<1>2. ASSUME \/ UNCHANGED vars \/ Idle \/ SwitchTab
             \/ \E a \in Requests : Patch(a)
             \/ \E r \in Runs : Start(r) \/ RunSpec(r) \/ PostFails(r)
             \/ \E r \in Runs : Browser(r)
      PROVE  HandlersFit'
  <2>1. CASE UNCHANGED vars \/ Idle \/ SwitchTab \/ \E a \in Requests : Patch(a)
    BY <1>1, <2>1 DEF vars, Idle, SwitchTab, Patch, server, task
  <2>2. CASE \E r \in Runs : Start(r) \/ RunSpec(r) \/ PostFails(r)
    BY <1>1, <2>2 DEF Start, RunSpec, Post, PostFails, server, task
  <2>3. CASE \E r \in Runs : Browser(r)
    BY <1>1, <2>3 DEF Browser, OnOpen, OnMessage, OnFinished, OnClose, Timer, server, task
  <2> QED  BY <1>2, <2>1, <2>2, <2>3
<1>3. ASSUME NEW r \in Runs, Answered(r) PROVE HandlersFit'
  <2>1. status' = status /\ subscribed' \in SUBSET Runs
    BY <1>3, ControlsTyped DEF Answered, task, TypeOK
  <2> QED  BY <1>1, <1>3, <2>1, SocketReplaced
<1>4. ASSUME NEW r \in Runs, Create(r) PROVE HandlersFit'
  <2>1. post[r] = "posted" /\ subscribed' = subscribed /\ status' = [status EXCEPT ![r] = "running"]
    BY <1>4 DEF Create
  <2> QED  BY <1>0, <1>1, <2>1 DEF TypeOK
<1>5. ASSUME NEW r \in Runs, Accept(r) PROVE HandlersFit'
  <2>1. status' = status /\ subscribed' \subseteq subscribed \cup {r}
    BY <1>5 DEF Accept, task
  <2>2. r \in subscribed' => status[r] \in G
    BY <1>5, SocketAccepted DEF SocketsFit
  <2> QED  BY <1>0, <2>1, <2>2 DEF HandlersFit
<1>6. ASSUME NEW r \in Runs, Emit(r) \/ Break(r) PROVE HandlersFit'
  <2>1. status' = status /\ subscribed' \subseteq subscribed
    BY <1>6 DEF Emit, Break, task
  <2> QED  BY <1>1, <2>1
<1>7. ASSUME NEW r \in Runs, NEW end \in {"done", "error"}, TaskEnds(r, end) PROVE HandlersFit'
  <2>1. subscribed' = subscribed \ {r} /\ status' = [status EXCEPT ![r] = end]
    BY <1>7 DEF TaskEnds, Finish
  <2> QED  BY <1>0, <1>1, <2>1 DEF TypeOK
<1>8. ASSUME NEW r \in Runs, NEW a \in Requests, PatchArrives(r, a) \/ OtherAsks(r, a)
      PROVE  HandlersFit'
  <2>1. /\ subscribed' \subseteq subscribed
        /\ \/ status' = status
           \/ \E s \in G : status' = [status EXCEPT ![r] = s]
    BY <1>8 DEF PatchArrives, OtherAsks, Handle, Resume, Halt, Finish
  <2> QED  BY <1>0, <2>1 DEF HandlersFit, TypeOK
<1>9. ASSUME Crash PROVE HandlersFit'
  BY <1>9 DEF Crash, HandlersFit
<1> QED  BY <1>2, <1>3, <1>4, <1>5, <1>6, <1>7, <1>8, <1>9 DEF Next

--------------------------------------------------------------------------------
\* The inductive invariant.

LEMMA IInvParts ==
    /\ IInv <=> /\ TypeOK /\ KnownRuns /\ StopsFit /\ OneAtATime /\ SocketsFit /\ HandlersFit
                /\ \A q \in Runs : Ordered(q) /\ EndsRight(q)
    /\ IInv' <=> /\ TypeOK' /\ KnownRuns' /\ StopsFit' /\ OneAtATime' /\ SocketsFit' /\ HandlersFit'
                 /\ \A q \in Runs : Ordered(q)' /\ EndsRight(q)'
BY OrderedRuns, EndsOfRuns DEF IInv, WiresFit

LEMMA IInvInit == Init => IInv
<1> SUFFICES ASSUME Init PROVE IInv
  OBVIOUS
<1>1. TypeOK
  BY TypeInit
<1>2. KnownRuns
  BY DEF Init, KnownRuns, Terminal
<1>3. StopsFit
  BY DEF Init, StopsFit
<1>4. OneAtATime
  BY DEF Init, OneAtATime, Pending, Reached, Blank
<1>5. ASSUME NEW q \in Runs PROVE Ordered(q) /\ EndsRight(q)
  <2>1. /\ log[q] = << >> /\ wire[q] = << >> /\ shown[q] = "absent" /\ status[q] = "absent"
        /\ DOMAIN log[q] = {} /\ DOMAIN wire[q] = {}
    BY DEF Init
  <2> QED  BY <2>1 DEF Ordered, InOrder, EndsRight, EndsAreLast, Terminal
<1>6. SocketsFit /\ HandlersFit
  BY FreshCloses DEF Init, SocketsFit, SocketFits, HandlersFit
<1> QED  BY <1>1, <1>2, <1>3, <1>4, <1>5, <1>6, IInvParts

LEMMA IInvStep == IInv /\ [Next]_vars => IInv'
<1> SUFFICES ASSUME IInv, [Next]_vars PROVE IInv'
  OBVIOUS
<1>1. /\ TypeOK /\ KnownRuns /\ StopsFit /\ OneAtATime /\ WiresFit /\ SocketsFit /\ HandlersFit
      /\ \A q \in Runs : Ordered(q) /\ EndsRight(q)
  BY IInvParts DEF IInv
<1>2. TypeOK'
  BY <1>1, TypeStep
<1>3. KnownRuns' /\ StopsFit' /\ OneAtATime'
  BY <1>1, <1>2, KnownStep, StopsStep, OneStep
<1>4. \A q \in Runs : Ordered(q)'
  BY <1>1, <1>2, OrderStep
<1>5. \A q \in Runs : EndsRight(q)'
  BY <1>1, <1>2, EndsStep
<1>6. SocketsFit' /\ HandlersFit'
  BY <1>1, SocketStep, HandlersStep DEF SocketsFit
<1> QED  BY <1>2, <1>3, <1>4, <1>5, <1>6, IInvParts

\* The invariant of the session: what is on its way to the browser continues
\* what it has, and the hook is stopped by an end that was shown.
THEOREM InvHolds == Spec => []IInv
<1>1. Init => IInv
  BY IInvInit
<1>2. IInv /\ [Next]_vars => IInv'
  BY IInvStep
<1> QED  BY <1>1, <1>2, PTL DEF Spec

\* Store, hook, wires and server records keep their types.
THEOREM TypesAreKept == Spec => []TypeOK
<1>1. IInv => TypeOK
  BY DEF IInv
<1> QED  BY <1>1, InvHolds, PTL

\* Each run's log has its frames in the order of their emission and none twice,
\* over any number of broken connections, closures of connect() and restarts.
THEOREM LogsAreInOrder == Spec => []LogInOrder
<1>1. IInv => LogInOrder
  BY DEF IInv
<1> QED  BY <1>1, InvHolds, PTL

\* The status that upsertRun got from run_finished is that of the run.
THEOREM EndsShownAreTrue == Spec => []EndShownIsTrue
<1>1. IInv => EndShownIsTrue
  BY DEF IInv, EndsFit, EndIsTrue, EndShownIsTrue, Terminal
<1> QED  BY <1>1, InvHolds, PTL

\* A run shown as running has something under way that will tell of it: a timer, a
\* connection to be accepted, events, or a handler of a run that executes.  Only the
\* end of another run, by the shared stoppedRef, and a halt before the browser had
\* connected strand it.
THEOREM RunsAreWatched == Spec => []RunningIsWatched
<1>1. IInv => RunningIsWatched
  <2> SUFFICES ASSUME IInv, active # None, shown[active] = "running"
               PROVE  IF conn[active] = "dead" THEN GivenUp(active)
                      ELSE UnderWay(active) \/ HaltUnseen(active)
    BY DEF RunningIsWatched
  <2>1. active \in Runs /\ post[active] = "known"
    BY DEF IInv, TypeOK, KnownRuns
  <2>2. CASE conn[active] = "dead"
    <3>1. stopper # None /\ shown[stopper] \in Terminal
      BY <2>1, <2>2 DEF IInv, StopsFit
    <3> QED  BY <2>2, <3>1 DEF GivenUp, Terminal
  <2>3. CASE conn[active] # "dead"
    <3>1. /\ SocketFits(active)
          /\ active \in subscribed => Executing(active) \/ HaltUnseen(active)
      BY <2>1 DEF IInv, SocketsFit, HandlersFit, Executing, HaltUnseen
    <3>2. conn[active] = "timer" \/ Unaccepted(active) \/ active \in subscribed \/ Ending(wire[active])
      BY <2>1, <2>3, <3>1 DEF SocketFits
    <3> QED  BY <2>3, <3>1, <3>2 DEF UnderWay, Ending
  <2> QED  BY <2>2, <2>3
<1> QED  BY <1>1, InvHolds, PTL

\* Without runs beside each other the canvas is of the active run, resumed ones apart.
THEOREM CanvasShowsActive == Spec => []CanvasIsOfActive
<1>1. IInv => CanvasIsOfActive
  BY DEF IInv, OneAtATime, CanvasIsOfActive
<1> QED  BY <1>1, InvHolds, PTL

================================================================================
