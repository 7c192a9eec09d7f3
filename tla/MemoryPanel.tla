------------------------------ MODULE MemoryPanel ------------------------------
(***************************************************************************)
(* The memory tab (ui/src/components/MemoryTab.tsx) and the bank it lists, *)
(* edits and imports into over HTTP (server/memory_routes.py).             *)
(*                                                                         *)
(* The tab keeps a copy of the bank that it patches itself after a write,  *)
(* and the answers of requests that are under way together come in any     *)
(* order.  A handler of the server runs to its end once it has started.    *)
(* What a user writes into a memory is its identity and the number of the  *)
(* draft.                                                                  *)
(***************************************************************************)
EXTENDS Naturals, FiniteSets

CONSTANTS
    Items,        \* ids of memories
    Stored,       \* those that the bank has at first
    MaxRequests,  \* bound on the requests of the tab
    MaxTexts,     \* bound on the texts written, by anybody
    MaxFaults     \* bound on answers lost and requests refused with a 500

NoItem == "none"
Numbers == 1..MaxRequests

ASSUME ItemsAssumption == NoItem \notin Items /\ Stored \subseteq Items
ASSUME BoundsAssumption == MaxRequests \in Nat \ {0} /\ MaxTexts \in Nat /\ MaxFaults \in Nat

VARIABLES
    items,    \* items: what the tab shows
    loading,  \* loading
    editing,  \* editing
    draft,    \* draft
    request,  \* the tab's requests, by number
    bank,     \* server: the stored memories
    clock,    \* history: how often the server has handled something
    texts,    \* how many texts have been written
    faults,   \* how many answers were lost or requests refused
    applied,  \* history: the latest time of an answer the tab has applied
    full,     \* history: the list applied last was of all memories
    excused   \* history: something happened that the tab cannot know of, and no list since

tab == <<items, loading, editing, draft>>
history == <<clock, applied, full, excused>>
vars == <<tab, request, bank, history, texts, faults>>

Texts == [of : Items, n : 0..MaxTexts]
NoText == [of |-> NoItem, n |-> 0]

\* Some of the memories, each with its text.
Contents == UNION {[S -> Texts] : S \in SUBSET Items}
Restrict(c, S) == [i \in DOMAIN c \cap S |-> c[i]]
Put(c, i, t) == [j \in DOMAIN c \cup {i} |-> IF j = i THEN t ELSE c[j]]

Nothing == [i \in {} |-> NoText]

\* The writes after which the tab patches what it shows.
Patches == {"put", "delete"}

\* `live`: the component that made the request is still mounted.  `at`: when
\* it was handled.  `answer`: what the server said, for "put" the stored memory
\* alone.
Requests ==
    [kind : {"list", "search", "import"} \cup Patches, item : Items \cup {NoItem},
     text : Texts \cup {NoText}, stage : {"unsent", "sent", "handled", "over"}, live : BOOLEAN,
     at : Nat, ok : BOOLEAN, answer : Contents]

Unsent == [kind |-> "list", item |-> NoItem, text |-> NoText, stage |-> "unsent", live |-> TRUE,
           at |-> 0, ok |-> TRUE, answer |-> Nothing]

TypeOK ==
    /\ items \in Contents
    /\ loading \in BOOLEAN
    /\ editing \in Items \cup {NoItem}
    /\ draft \in Texts \cup {NoText}
    /\ request \in [Numbers -> Requests]
    /\ bank \in Contents
    /\ clock \in Nat
    /\ texts \in 0..MaxTexts
    /\ faults \in 0..MaxFaults
    /\ applied \in 0..clock
    /\ full \in BOOLEAN
    /\ excused \in BOOLEAN

Sent(kind, item, text) ==
    [Unsent EXCEPT !.kind = kind, !.item = item, !.text = text, !.stage = "sent"]

\* The session starts on the mounted tab: its effect has sent the first list.
Init ==
    /\ items = Nothing
    /\ loading = TRUE
    /\ editing = NoItem
    /\ draft = NoText
    /\ request = [q \in Numbers |-> IF q = 1 THEN Sent("list", NoItem, NoText) ELSE Unsent]
    /\ bank = [i \in Stored |-> [of |-> i, n |-> 0]]
    /\ clock = 0
    /\ texts = 0
    /\ faults = 0
    /\ applied = 0
    /\ full = FALSE
    /\ excused = FALSE

-------------------------------------------------------------------------------
\* The tab.

\* The next request goes out, and `others` is what becomes of the earlier ones.
Send(others, kind, item, text) ==
    \E q \in Numbers :
        /\ request[q].stage = "unsent"
        /\ \A p \in Numbers : p < q => request[p].stage # "unsent"
        /\ request' = [others EXCEPT ![q] = Sent(kind, item, text)]

\* handleSearch: fetchItems of a query, or of all if it is blank.
Search(kind) ==
    /\ Send(request, kind, NoItem, NoText)
    /\ loading' = TRUE
    /\ UNCHANGED <<items, editing, draft, bank, history, texts, faults>>

\* The rows of the list: one for each memory, with its buttons when opened.
Shown(i) == i \in DOMAIN items

\* handleDelete, when the user has confirmed it.
Delete(i) ==
    /\ Shown(i)
    /\ Send(request, "delete", i, NoText)
    /\ UNCHANGED <<tab, bank, history, texts, faults>>

\* startEdit, also of another memory than the one being edited.
StartEdit_KeepsDraft(i) ==
    /\ Shown(i)
    /\ editing' = i
    /\ draft' = IF draft = NoText THEN items[i] ELSE draft
    /\ UNCHANGED <<items, loading, request, bank, history, texts, faults>>

StartEdit(i) ==
    /\ Shown(i)
    /\ editing' = i
    /\ draft' = items[i]
    /\ UNCHANGED <<items, loading, request, bank, history, texts, faults>>

\* The form is there while the memory is among those shown.
FormOpen == Shown(editing)

\* The fields of the form: a text of the same memory that was not there before.
Type ==
    /\ FormOpen
    /\ texts < MaxTexts
    /\ texts' = texts + 1
    /\ draft' = [draft EXCEPT !.n = texts + 1]
    /\ UNCHANGED <<items, loading, editing, request, bank, history, faults>>

\* saveEdit up to its await; the button stays enabled.
SaveEdit ==
    /\ FormOpen
    /\ Send(request, "put", editing, draft)
    /\ UNCHANGED <<tab, bank, history, texts, faults>>

Cancel ==
    /\ FormOpen
    /\ editing' = NoItem
    /\ UNCHANGED <<items, loading, draft, request, bank, history, texts, faults>>

\* handleImport of a file with one memory.
Import(i) ==
    /\ texts < MaxTexts
    /\ texts' = texts + 1
    /\ Send(request, "import", i, [of |-> i, n |-> texts + 1])
    /\ UNCHANGED <<tab, bank, history, faults>>

Gone == [Unsent EXCEPT !.stage = "over"]

\* A request of a component that is gone matters only if it is yet to write.
Orphaned(r) ==
    IF r.stage = "unsent" THEN r
    ELSE IF r.stage = "sent" /\ r.kind \notin {"list", "search"} THEN [r EXCEPT !.live = FALSE]
    ELSE Gone

\* Another tab and back: a new component, which asks for the list; answers of
\* earlier requests reach nobody.
Remount ==
    /\ Send([q \in Numbers |-> Orphaned(request[q])], "list", NoItem, NoText)
    /\ items' = Nothing
    /\ loading' = TRUE
    /\ editing' = NoItem
    /\ draft' = NoText
    /\ full' = FALSE
    /\ UNCHANGED <<bank, clock, applied, excused, texts, faults>>

-------------------------------------------------------------------------------
\* The server.

\* list_memory (a search finds some of them), update_memory and delete_memory,
\* which refuse what is not there, and import_memory.
Effect(r) ==
    CASE r.kind = "put" /\ r.item \in DOMAIN bank -> Put(bank, r.item, r.text)
      [] r.kind = "delete" -> Restrict(bank, Items \ {r.item})
      [] r.kind = "import" -> Put(bank, r.item, r.text)
      [] OTHER -> bank

Answers(r) ==
    CASE r.kind = "list" -> {bank}
      [] r.kind = "search" -> {Restrict(bank, S) : S \in SUBSET DOMAIN bank}
      [] r.kind = "put" -> {Restrict(Effect(r), {r.item})}
      [] OTHER -> {Nothing}

Accepted(r) == r.kind \in Patches => r.item \in DOMAIN bank

Handle(q) ==
    LET r == request[q] IN
    /\ r.stage = "sent"
    /\ bank' = Effect(r)
    /\ clock' = clock + 1
    /\ \E a \in Answers(r) :
         request' = [request EXCEPT ![q] =
                        IF r.live THEN [r EXCEPT !.stage = "handled", !.at = clock + 1,
                                                 !.ok = Accepted(r), !.answer = a]
                        ELSE Gone]
    /\ excused' = (excused \/ (bank' # bank /\ (r.kind = "import" \/ ~r.live)))
    /\ UNCHANGED <<tab, texts, faults, applied, full>>

\* The handler fails before it has changed anything.
Refuse(q) ==
    LET r == request[q] IN
    /\ r.stage = "sent"
    /\ faults < MaxFaults
    /\ faults' = faults + 1
    /\ clock' = clock + 1
    /\ request' = [request EXCEPT ![q] =
                      IF r.live THEN [r EXCEPT !.stage = "handled", !.at = clock + 1, !.ok = FALSE]
                      ELSE Gone]
    /\ excused' = (excused \/ (r.kind = "delete" /\ r.live))
    /\ UNCHANGED <<tab, bank, texts, applied, full>>

\* Somebody else, such as the writeback of an agent, writes or deletes.
Other(i) ==
    /\ texts < MaxTexts
    /\ texts' = texts + 1
    /\ bank' \in {Put(bank, i, [of |-> i, n |-> texts + 1]), Restrict(bank, Items \ {i})}
    /\ clock' = clock + 1
    /\ excused' = TRUE
    /\ UNCHANGED <<tab, request, faults, applied, full>>

-------------------------------------------------------------------------------
\* The answers.

\* fetchItems: an answer that is not ok leaves the items; loading ends anyway.
Listed_Loads(r) ==
    /\ items' = IF r.ok THEN r.answer ELSE items
    /\ loading' = IF r.ok THEN FALSE ELSE loading
    /\ UNCHANGED <<editing, draft>>

Listed(r) ==
    /\ items' = IF r.ok THEN r.answer ELSE items
    /\ loading' = FALSE
    /\ UNCHANGED <<editing, draft>>

\* handleDelete does not look at the status of the answer.
Deleted(r) ==
    /\ items' = Restrict(items, Items \ {r.item})
    /\ UNCHANGED <<loading, editing, draft>>

\* saveEdit: the stored memory replaces the one shown, if that is still there,
\* and whatever is being edited by now is closed.
Saved_Whole(r) ==
    /\ items' = IF r.ok THEN [i \in DOMAIN items |-> IF i = r.item THEN r.answer ELSE items[i]]
                ELSE items
    /\ editing' = IF r.ok THEN NoItem ELSE editing
    /\ UNCHANGED <<loading, draft>>

Saved_Silently(r) ==
    /\ editing' = IF r.ok THEN NoItem ELSE editing
    /\ UNCHANGED <<items, loading, draft>>

Saved(r) ==
    /\ items' = IF r.ok THEN [i \in DOMAIN items |-> IF i = r.item THEN r.answer[i] ELSE items[i]]
                ELSE items
    /\ editing' = IF r.ok THEN NoItem ELSE editing
    /\ UNCHANGED <<loading, draft>>

Over(q) == [request EXCEPT ![q] = Gone]

\* The tab applies an answer.  A list which nothing was handled after settles
\* what the tab could not know; an answer that comes after a later one unsettles.
Apply(q) ==
    LET r == request[q] IN
    /\ r.stage = "handled" /\ r.kind # "import"
    /\ CASE r.kind \in {"list", "search"} -> Listed(r)
         [] r.kind = "delete" -> Deleted(r)
         [] r.kind = "put" -> Saved(r)
    /\ request' = Over(q)
    /\ applied' = IF r.at > applied THEN r.at ELSE applied
    /\ LET lists == r.kind \in {"list", "search"} /\ r.ok IN
        /\ full' = IF lists THEN r.kind = "list" ELSE full
        /\ excused' = IF lists /\ r.at = clock THEN FALSE ELSE excused \/ r.at < applied
    /\ UNCHANGED <<bank, clock, texts, faults>>

\* handleImport after its await: fetchItems() of all.
Imported(q) ==
    /\ request[q].stage = "handled" /\ request[q].kind = "import"
    /\ IF request[q].ok THEN Send(Over(q), "list", NoItem, NoText) /\ loading' = TRUE
                        ELSE request' = Over(q) /\ UNCHANGED loading
    /\ UNCHANGED <<items, editing, draft, bank, history, texts, faults>>

\* An answer is lost, or the request is: fetch rejects.
Lost(q) ==
    LET r == request[q] IN
    /\ r.stage \in {"sent", "handled"}
    /\ faults < MaxFaults
    /\ faults' = faults + 1
    /\ request' = Over(q)
    /\ loading' = IF r.live /\ r.kind \in {"list", "search"} THEN FALSE ELSE loading
    /\ excused' = (excused \/ (r.stage = "handled" /\ r.kind \in Patches))
    /\ UNCHANGED <<items, editing, draft, bank, clock, applied, full, texts>>

-------------------------------------------------------------------------------
Answer(q) == Apply(q) \/ Imported(q)

Next ==
    \/ \E kind \in {"list", "search"} : Search(kind)
    \/ \E i \in Items : Delete(i) \/ StartEdit(i) \/ Import(i) \/ Other(i)
    \/ Type \/ SaveEdit \/ Cancel \/ Remount
    \/ \E q \in Numbers : Handle(q) \/ Refuse(q) \/ Answer(q) \/ Lost(q)

\* The server handles what arrives and the event loop hands over the answers.
Fairness == \A q \in Numbers : WF_vars(Handle(q)) /\ WF_vars(Answer(q))

Spec == Init /\ [][Next]_vars /\ Fairness

-------------------------------------------------------------------------------
\* Properties.

\* The tab shows what the bank has, once its own writes have been answered: its
\* patches of what it shows are those the server made.  The exceptions, until
\* the next list, are: a write by somebody else, by an import or by an earlier
\* mount; a write whose answer was lost; a delete that failed and is shown as
\* done; and answers that came out of order.
InSync ==
    ~excused /\ (\A q \in Numbers : request[q].kind \in Patches => request[q].stage # "handled")
    => /\ \A i \in DOMAIN items : i \in DOMAIN bank /\ items[i] = bank[i]
       /\ full => DOMAIN items = DOMAIN bank

\* A text written for one memory is never stored or shown as another's, however
\* the form changes between memories while saves are under way.
TextsStayApart ==
    /\ \A i \in DOMAIN bank : bank[i].of = i
    /\ \A i \in DOMAIN items : items[i].of = i

\* The tab does not say "Loading" for ever, also when requests fail.
LoadingEnds == loading ~> ~loading

-------------------------------------------------------------------------------
\* Why InSync, TextsStayApart and LoadingEnds hold: the inductive invariant of the proofs.

Handled(q) == request[q].stage = "handled"
IsList(q) == Handled(q) /\ request[q].kind \in {"list", "search"} /\ request[q].ok
IsPatch(q) == Handled(q) /\ request[q].kind \in Patches

\* Texts stay with their memories on their way too.
TextFits(r) ==
    /\ r.stage = "handled" => r.live
    /\ r.kind \in Patches \cup {"import"} => r.item \in Items
    /\ r.kind \in {"put", "import"} => r.text.of = r.item
    /\ \A i \in DOMAIN r.answer : r.answer[i].of = i
    /\ r.kind = "put" /\ r.stage = "handled" /\ r.ok => r.item \in DOMAIN r.answer

TextsFit ==
    /\ editing # NoItem => draft.of = editing
    /\ \A q \in Numbers : TextFits(request[q])

\* The server handles one request at a time.
TimesDiffer ==
    /\ \A q \in Numbers : Handled(q) => request[q].at \in 1..clock /\ request[q].at # applied
    /\ \A p, q \in Numbers : Handled(p) /\ Handled(q) /\ request[p].at = request[q].at => p = q

Agrees(c, i) == i \in DOMAIN bank /\ c[i] = bank[i]

\* A list that nothing was handled after.
FreshListsAgree ==
    \A q \in Numbers : IsList(q) /\ request[q].at = clock =>
        /\ \A i \in DOMAIN request[q].answer : Agrees(request[q].answer, i)
        /\ request[q].kind = "list" => DOMAIN bank \subseteq DOMAIN request[q].answer

\* A write of i that was handled after t, and that the tab is yet to hear of.
Patched(i, t) ==
    \E q \in Numbers : /\ IsPatch(q) /\ request[q].item = i /\ request[q].at > t
                       /\ request[q].ok \/ request[q].kind = "delete"

ShownIsRecent ==
    /\ \A i \in DOMAIN items : Agrees(items, i) \/ Patched(i, applied)
    /\ full => DOMAIN bank \subseteq DOMAIN items

AnswerIsRecent(q) ==
    LET r == request[q] IN
    /\ IsList(q) => /\ \A i \in DOMAIN r.answer : Agrees(r.answer, i) \/ Patched(i, r.at)
                    /\ r.kind = "list" => DOMAIN bank \subseteq DOMAIN r.answer
    /\ IsPatch(q) => /\ r.kind = "put" /\ r.ok => Agrees(r.answer, r.item) \/ Patched(r.item, r.at)
                     /\ r.kind = "delete" => r.item \notin DOMAIN bank

\* An answer to a write which is out of order already: it will be excused.
Late == \E q \in Numbers : IsPatch(q) /\ request[q].at < applied

AllIsRecent ==
    ~excused /\ ~Late =>
        /\ ShownIsRecent
        /\ \A q \in Numbers : Handled(q) /\ request[q].at > applied => AnswerIsRecent(q)

\* The safety half of LoadingEnds: while the tab says "Loading", a list that this
\* component asked for is under way.
Fetches(r) == r.live /\ r.kind \in {"list", "search"} /\ r.stage \in {"sent", "handled"}

LoadingIsAwaited == loading => \E q \in Numbers : Fetches(request[q])

IInv ==
    /\ TypeOK /\ TextsFit /\ TextsStayApart /\ TimesDiffer /\ FreshListsAgree /\ AllIsRecent
    /\ LoadingIsAwaited

================================================================================
