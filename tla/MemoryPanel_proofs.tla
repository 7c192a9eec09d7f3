-------------------------- MODULE MemoryPanel_proofs --------------------------
(***************************************************************************)
(* Proofs about MemoryPanel, for any memories and any number of requests,  *)
(* texts and faults.                                                       *)
(***************************************************************************)
EXTENDS MemoryPanel, TLAPS

LEMMA ContentsFacts ==
    /\ \A c \in Contents : DOMAIN c \subseteq Items /\ c \in [DOMAIN c -> Texts]
    /\ \A S \in SUBSET Items : \A c \in [S -> Texts] : c \in Contents
    /\ Nothing \in Contents /\ DOMAIN Nothing = {}
BY DEF Contents, Nothing

LEMMA RestrictFacts ==
    ASSUME NEW c \in Contents, NEW S
    PROVE  /\ Restrict(c, S) \in Contents
           /\ DOMAIN Restrict(c, S) = DOMAIN c \cap S
           /\ \A i \in DOMAIN c \cap S : Restrict(c, S)[i] = c[i]
<1>1. DOMAIN c \cap S \in SUBSET Items /\ c \in [DOMAIN c -> Texts]
  BY ContentsFacts
<1>2. Restrict(c, S) \in [DOMAIN c \cap S -> Texts]
  BY <1>1 DEF Restrict
<1> QED  BY <1>1, <1>2, ContentsFacts DEF Restrict

LEMMA PutFacts ==
    ASSUME NEW c \in Contents, NEW i \in Items, NEW t \in Texts
    PROVE  /\ Put(c, i, t) \in Contents
           /\ DOMAIN Put(c, i, t) = DOMAIN c \cup {i}
           /\ Put(c, i, t)[i] = t
           /\ \A j \in DOMAIN c \ {i} : Put(c, i, t)[j] = c[j]
<1>1. DOMAIN c \cup {i} \in SUBSET Items /\ c \in [DOMAIN c -> Texts]
  BY ContentsFacts
<1>2. Put(c, i, t) \in [DOMAIN c \cup {i} -> Texts]
  BY <1>1 DEF Put
<1> QED  BY <1>1, <1>2, ContentsFacts DEF Put

\* Each text is the one of the memory it is kept for.
Own(c) == c \in Contents /\ \A i \in DOMAIN c : c[i].of = i

LEMMA OwnFacts ==
    ASSUME NEW c, Own(c)
    PROVE  /\ Own(Nothing)
           /\ \A S : Own(Restrict(c, S))
           /\ \A i \in Items, t \in Texts : t.of = i => Own(Put(c, i, t))
<1>1. Own(Nothing)
  BY ContentsFacts DEF Own
<1>0. c \in Contents /\ \A i \in DOMAIN c : c[i].of = i
  BY DEF Own
<1>2. ASSUME NEW S PROVE Own(Restrict(c, S))
  <2>1. /\ Restrict(c, S) \in Contents
        /\ DOMAIN Restrict(c, S) = DOMAIN c \cap S
        /\ \A i \in DOMAIN c \cap S : Restrict(c, S)[i] = c[i]
    BY <1>0, RestrictFacts
  <2> QED  BY <1>0, <2>1 DEF Own
<1>3. ASSUME NEW i \in Items, NEW t \in Texts, t.of = i PROVE Own(Put(c, i, t))
  <2>1. /\ Put(c, i, t) \in Contents
        /\ DOMAIN Put(c, i, t) = DOMAIN c \cup {i}
        /\ Put(c, i, t)[i] = t
        /\ \A j \in DOMAIN c \ {i} : Put(c, i, t)[j] = c[j]
    BY <1>0, PutFacts
  <2> QED  BY <1>0, <1>3, <2>1 DEF Own
<1> QED  BY <1>1, <1>2, <1>3, Zenon

\* What the handler of a request makes of the bank and what it answers.
LEMMA HandlingIsOwn ==
    ASSUME Own(bank), NEW r \in Requests, TextFits(r)
    PROVE  Own(Effect(r)) /\ \A a \in Answers(r) : Own(a)
<1>1. r.kind \in {"put", "import"} => r.item \in Items /\ r.text \in Texts /\ r.text.of = r.item
  <2>1. r.text \in Texts \cup {NoText} /\ NoText.of = NoItem
    BY DEF Requests, NoText
  <2>2. r.kind \in {"put", "import"} => r.item \in Items /\ r.text.of = r.item
    BY DEF TextFits, Patches
  <2> QED  BY <2>1, <2>2, ItemsAssumption
<1>2. Own(Effect(r))
  <2>1. CASE r.kind \in {"put", "import"}
    <3>1. Effect(r) \in {bank, Put(bank, r.item, r.text)}
      BY <2>1 DEF Effect
    <3> QED  BY <1>1, <2>1, <3>1, OwnFacts
  <2>2. CASE r.kind \notin {"put", "import"}
    <3>1. Effect(r) \in {bank, Restrict(bank, Items \ {r.item})}
      BY <2>2 DEF Effect
    <3> QED  BY <3>1, OwnFacts
  <2> QED  BY <2>1, <2>2
<1>3. ASSUME NEW a \in Answers(r) PROVE Own(a)
  <2>1. a \in {bank, Nothing} \/ a \in {Restrict(bank, S) : S \in SUBSET DOMAIN bank}
        \/ a = Restrict(Effect(r), {r.item})
    BY DEF Answers
  <2> QED  BY <1>2, <2>1, OwnFacts
<1> QED  BY <1>2, <1>3

-------------------------------------------------------------------------------
\* The types, and that texts stay with their memories.

Base == TypeOK /\ TextsFit /\ TextsStayApart

LEMMA BaseInit == Init => Base
<1> SUFFICES ASSUME Init PROVE Base
  OBVIOUS
<1>1. Sent("list", NoItem, NoText) \in Requests /\ Unsent \in Requests
  BY ContentsFacts DEF Sent, Unsent, Requests
<1>2. TextFits(Sent("list", NoItem, NoText)) /\ TextFits(Unsent)
  BY ContentsFacts DEF Sent, Unsent, TextFits, Patches
<1>3. bank \in [Stored -> Texts] /\ \A i \in DOMAIN bank : bank[i].of = i
  BY ItemsAssumption, BoundsAssumption DEF Init, Texts
<1>4. bank \in Contents
  BY <1>3, ContentsFacts, ItemsAssumption
<1>5. TypeOK
  <2>1. request \in [Numbers -> Requests]
    BY <1>1 DEF Init
  <2>2. items \in Contents /\ draft \in Texts \cup {NoText} /\ editing \in Items \cup {NoItem}
    BY ContentsFacts DEF Init
  <2>3. clock \in Nat /\ applied \in 0..clock /\ texts \in 0..MaxTexts /\ faults \in 0..MaxFaults
    BY BoundsAssumption DEF Init
  <2>4. loading \in BOOLEAN /\ full \in BOOLEAN /\ excused \in BOOLEAN
    BY Zenon DEF Init
  <2> QED  BY <1>4, <2>1, <2>2, <2>3, <2>4 DEF TypeOK
<1>6. TextsFit
  BY <1>2 DEF Init, TextsFit
<1>7. TextsStayApart
  BY <1>3, ContentsFacts DEF Init, TextsStayApart
<1> QED  BY <1>5, <1>6, <1>7 DEF Base

\* Requests that have changed to ones that are well formed.
LEMMA RequestsKeep ==
    ASSUME Base, request' \in [Numbers -> Requests],
           \A q \in Numbers : request'[q] # request[q] => TextFits(request'[q])
    PROVE  \A q \in Numbers : TextFits(request'[q])
BY DEF Base, TextsFit

LEMMA SendFacts ==
    ASSUME NEW others \in [Numbers -> Requests], NEW kind \in {"list", "search", "import"} \cup Patches,
           NEW item \in Items \cup {NoItem}, NEW text \in Texts \cup {NoText},
           kind \in Patches \cup {"import"} => item \in Items,
           kind \in {"put", "import"} => text.of = item,
           Send(others, kind, item, text)
    PROVE  /\ request' \in [Numbers -> Requests]
           /\ \A p \in Numbers : \/ request'[p] = others[p]
                                 \/ request[p].stage = "unsent" /\ request'[p].stage = "sent"
                                    /\ TextFits(request'[p])
<1>1. PICK q \in Numbers : /\ request[q].stage = "unsent"
                           /\ request' = [others EXCEPT ![q] = Sent(kind, item, text)]
  BY DEF Send
<1>2. Sent(kind, item, text) \in Requests /\ Sent(kind, item, text).stage = "sent"
  BY ContentsFacts DEF Sent, Unsent, Requests
<1>3. TextFits(Sent(kind, item, text))
  BY ContentsFacts DEF Sent, Unsent, TextFits
<1> QED  BY <1>1, <1>2, <1>3

LEMMA GoneFacts == Gone \in Requests /\ TextFits(Gone) /\ Gone.stage = "over" /\ Gone.kind = "list"
BY ContentsFacts DEF Gone, Unsent, Requests, TextFits, Patches

LEMMA ApplyCases ==
    ASSUME TypeOK, NEW q \in Numbers, Apply(q)
    PROVE  \/ request[q].kind \in {"list", "search"} /\ Listed(request[q])
           \/ request[q].kind = "delete" /\ Deleted(request[q])
           \/ request[q].kind = "put" /\ Saved(request[q])
<1>1. request[q].kind \in {"list", "search", "put", "delete"}
  BY DEF Apply, TypeOK, Requests, Patches
<1> QED  BY <1>1 DEF Apply

LEMMA FlagsKeep ==
    ASSUME TypeOK, [Next]_vars
    PROVE  loading' \in BOOLEAN /\ full' \in BOOLEAN /\ excused' \in BOOLEAN
<1>0. loading \in BOOLEAN /\ full \in BOOLEAN /\ excused \in BOOLEAN
  BY DEF TypeOK
<1>1. ASSUME UNCHANGED vars PROVE UNCHANGED <<loading, full, excused>>
  BY <1>1 DEF vars, tab, history
<1>2. ASSUME NEW kind, Search(kind) PROVE loading' = TRUE /\ UNCHANGED <<full, excused>>
  BY <1>2 DEF Search, history
<1>3. ASSUME NEW i, Delete(i) \/ StartEdit(i) \/ Import(i) PROVE UNCHANGED <<loading, full, excused>>
  BY <1>3 DEF Delete, StartEdit, Import, history, tab
<1>4. ASSUME NEW i, Other(i) PROVE excused' = TRUE /\ UNCHANGED <<loading, full>>
  BY <1>4 DEF Other, tab
<1>5. ASSUME Type \/ SaveEdit \/ Cancel PROVE UNCHANGED <<loading, full, excused>>
  BY <1>5 DEF Type, SaveEdit, Cancel, history, tab
<1>6. ASSUME Remount PROVE loading' = TRUE /\ full' = FALSE /\ UNCHANGED excused
  BY <1>6 DEF Remount
<1>7. ASSUME NEW q \in Numbers, Handle(q) \/ Refuse(q)
      PROVE  excused' \in BOOLEAN /\ UNCHANGED <<loading, full>>
  BY <1>7 DEF Handle, Refuse, tab
<1>8. ASSUME NEW q \in Numbers, Apply(q)
      PROVE  loading' \in {loading, FALSE} /\ full' \in BOOLEAN /\ excused' \in BOOLEAN
  <2>1. loading' \in {loading, FALSE}
    BY <1>8, ApplyCases DEF Listed, Deleted, Saved
  <2>2. full' \in BOOLEAN
    <3>1. CASE request[q].kind \in {"list", "search"} /\ request[q].ok
      <4>1. full' = (request[q].kind = "list")
        BY <1>8, <3>1 DEF Apply
      <4> QED  BY <4>1
    <3>2. CASE ~(request[q].kind \in {"list", "search"} /\ request[q].ok)
      <4>1. full' = full
        BY <1>8, <3>2 DEF Apply
      <4> QED  BY <1>0, <4>1
    <3> QED  BY <3>1, <3>2
  <2>3. excused' \in BOOLEAN
    BY <1>0, <1>8 DEF Apply
  <2> QED  BY <2>1, <2>2, <2>3
<1>9. ASSUME NEW q \in Numbers, Imported(q) PROVE loading' \in {loading, TRUE} /\ UNCHANGED <<full, excused>>
  BY <1>9 DEF Imported, history
<1>10. ASSUME NEW q \in Numbers, Lost(q)
       PROVE  loading' \in {loading, FALSE} /\ excused' \in BOOLEAN /\ UNCHANGED full
  BY <1>10 DEF Lost
<1> QED
  BY <1>0, <1>1, <1>2, <1>3, <1>4, <1>5, <1>6, <1>7, <1>8, <1>9, <1>10 DEF Next, Answer

\* Base, arranged by variable and without the flags.
Kept ==
    /\ Own(items)
    /\ Own(bank)
    /\ editing \in Items \cup {NoItem} /\ draft \in Texts \cup {NoText}
    /\ editing # NoItem => draft.of = editing
    /\ request \in [Numbers -> Requests]
    /\ \A q \in Numbers : TextFits(request[q])
    /\ clock \in Nat /\ applied \in 0..clock
    /\ texts \in 0..MaxTexts /\ faults \in 0..MaxFaults

LEMMA BaseIsKept ==
    Base <=> Kept /\ loading \in BOOLEAN /\ full \in BOOLEAN /\ excused \in BOOLEAN
BY DEF Base, Kept, TypeOK, TextsFit, TextsStayApart, Own

LEMMA ShownFacts ==
    ASSUME Kept, NEW i, Shown(i)
    PROVE  i \in Items /\ items[i] \in Texts /\ items[i].of = i
BY ContentsFacts DEF Kept, Own, Shown

\* An action of the tab that sends a request and leaves what it shows.
LEMMA SendKeeps ==
    ASSUME Kept, NEW kind \in {"list", "search", "import"} \cup Patches,
           NEW item \in Items \cup {NoItem}, NEW text \in Texts \cup {NoText},
           kind \in Patches \cup {"import"} => item \in Items,
           kind \in {"put", "import"} => text.of = item,
           NEW others \in [Numbers -> Requests], \A p \in Numbers : TextFits(others[p]),
           Send(others, kind, item, text)
    PROVE  request' \in [Numbers -> Requests] /\ \A p \in Numbers : TextFits(request'[p])
<1>1. /\ request' \in [Numbers -> Requests]
      /\ \A p \in Numbers : request'[p] = others[p] \/ TextFits(request'[p])
  BY SendFacts
<1> QED  BY <1>1

LEMMA TabKeeps ==
    ASSUME Kept
    PROVE  /\ \A kind \in {"list", "search"} : Search(kind) => Kept'
           /\ \A i \in Items : Delete(i) \/ StartEdit(i) \/ Import(i) => Kept'
           /\ Type \/ SaveEdit \/ Cancel \/ Remount => Kept'
<1>0. request \in [Numbers -> Requests] /\ \A p \in Numbers : TextFits(request[p])
  BY DEF Kept
<1>1. ASSUME NEW kind \in {"list", "search"}, Search(kind) PROVE Kept'
  <2>1. Send(request, kind, NoItem, NoText) /\ kind \notin Patches \cup {"import"}
    BY <1>1 DEF Search, Patches
  <2>2. request' \in [Numbers -> Requests] /\ \A p \in Numbers : TextFits(request'[p])
    BY <1>0, <2>1, SendKeeps DEF Patches
  <2> QED  BY <1>1, <2>2 DEF Search, Kept, Own, history
<1>2. ASSUME NEW i \in Items, Delete(i) PROVE Kept'
  <2>1. Send(request, "delete", i, NoText)
    BY <1>2 DEF Delete
  <2>2. request' \in [Numbers -> Requests] /\ \A p \in Numbers : TextFits(request'[p])
    BY <1>0, <2>1, SendKeeps DEF Patches
  <2> QED  BY <1>2, <2>2 DEF Delete, Kept, Own, history, tab
<1>3. ASSUME NEW i \in Items, StartEdit(i) PROVE Kept'
  <2>1. items[i] \in Texts /\ items[i].of = i
    BY <1>3, ShownFacts DEF StartEdit
  <2> QED  BY <1>3, <2>1 DEF StartEdit, Kept, Own, history
<1>4. ASSUME NEW i \in Items, Import(i) PROVE Kept'
  <2>1. texts' = texts + 1 /\ texts' \in 0..MaxTexts
    BY <1>4, BoundsAssumption DEF Import, Kept
  <2>2. [of |-> i, n |-> texts + 1] \in Texts /\ Send(request, "import", i, [of |-> i, n |-> texts + 1])
    BY <1>4, <2>1 DEF Import, Texts
  <2>3. request' \in [Numbers -> Requests] /\ \A p \in Numbers : TextFits(request'[p])
    BY <1>0, <2>2, SendKeeps DEF Patches
  <2> QED  BY <1>4, <2>1, <2>3 DEF Import, Kept, Own, history, tab
<1>5. ASSUME Type PROVE Kept'
  <2>1. editing \in Items /\ draft.of = editing
    BY <1>5, ShownFacts, ItemsAssumption DEF Type, FormOpen, Kept
  <2>2. draft \in Texts
    BY <2>1, ItemsAssumption DEF Kept, NoText
  <2>3. texts' = texts + 1 /\ texts' \in 0..MaxTexts
    BY <1>5, BoundsAssumption DEF Type, Kept
  <2>4. draft' \in Texts /\ draft'.of = editing
    BY <1>5, <2>1, <2>2, <2>3 DEF Type, Texts
  <2> QED  BY <1>5, <2>3, <2>4 DEF Type, Kept, Own, history
<1>6. ASSUME SaveEdit PROVE Kept'
  <2>1. editing \in Items /\ draft.of = editing
    BY <1>6, ShownFacts, ItemsAssumption DEF SaveEdit, FormOpen, Kept
  <2>2. draft \in Texts \cup {NoText} /\ Send(request, "put", editing, draft)
    BY <1>6 DEF SaveEdit, Kept
  <2>3. request' \in [Numbers -> Requests] /\ \A p \in Numbers : TextFits(request'[p])
    BY <1>0, <2>1, <2>2, SendKeeps DEF Patches
  <2> QED  BY <1>6, <2>3 DEF SaveEdit, Kept, Own, history, tab
<1>7. ASSUME Cancel PROVE Kept'
  BY <1>7 DEF Cancel, Kept, Own, history
<1>8. ASSUME Remount PROVE Kept'
  <2> DEFINE others == [q \in Numbers |-> Orphaned(request[q])]
  <2>1. ASSUME NEW q \in Numbers PROVE Orphaned(request[q]) \in Requests /\ TextFits(Orphaned(request[q]))
    <3>1. CASE Orphaned(request[q]) \in {request[q], Gone}
      BY <1>0, <3>1, GoneFacts
    <3>2. CASE request[q].stage = "sent" /\ Orphaned(request[q]) = [request[q] EXCEPT !.live = FALSE]
      <4> DEFINE r == [request[q] EXCEPT !.live = FALSE]
      <4>1. r \in Requests
        BY <1>0 DEF Requests
      <4>2. /\ r.kind = request[q].kind /\ r.item = request[q].item /\ r.text = request[q].text
            /\ r.answer = request[q].answer /\ r.stage = "sent"
        BY <1>0, <3>2 DEF Requests
      <4>3. TextFits(r)
        <5> HIDE DEF r
        <5> QED  BY <1>0, <3>2, <4>2 DEF TextFits
      <4> QED  BY <3>2, <4>1, <4>3
    <3> QED  BY <3>1, <3>2 DEF Orphaned
  <2>2. others \in [Numbers -> Requests] /\ \A q \in Numbers : TextFits(others[q])
    BY <2>1
  <2>3. Send(others, "list", NoItem, NoText) /\ "list" \notin Patches \cup {"import"}
    BY <1>8 DEF Remount, Patches
  <2>4. request' \in [Numbers -> Requests] /\ \A p \in Numbers : TextFits(request'[p])
    <3> HIDE DEF others
    <3> QED  BY <2>2, <2>3, SendKeeps
  <2>5. Own(items')
    BY <1>8, ContentsFacts DEF Remount, Own
  <2> QED  BY <1>8, <2>4, <2>5 DEF Remount, Kept, Own
<1> QED  BY <1>1, <1>2, <1>3, <1>4, <1>5, <1>6, <1>7, <1>8

\* An answer that has been recorded.
LEMMA AnsweredFits ==
    ASSUME NEW r \in Requests, TextFits(r), r.live, NEW at \in Nat, NEW ok \in BOOLEAN, NEW a, Own(a),
           r.kind = "put" /\ ok => r.item \in DOMAIN a
    PROVE  LET n == [r EXCEPT !.stage = "handled", !.at = at, !.ok = ok, !.answer = a]
           IN  n \in Requests /\ TextFits(n)
<1> DEFINE n == [r EXCEPT !.stage = "handled", !.at = at, !.ok = ok, !.answer = a]
<1>1. n \in Requests
  BY DEF Own, Requests
<1>2. /\ n.kind = r.kind /\ n.item = r.item /\ n.text = r.text /\ n.live = r.live
      /\ n.stage = "handled" /\ n.ok = ok /\ n.answer = a
  BY DEF Requests
<1>3. TextFits(n)
  <2> HIDE DEF n
  <2> QED  BY <1>2 DEF TextFits, Own
<1> QED  BY <1>1, <1>3

LEMMA ServerKeeps ==
    ASSUME Kept
    PROVE  /\ \A q \in Numbers : Handle(q) \/ Refuse(q) => Kept'
           /\ \A i \in Items : Other(i) => Kept'
<1>0. request \in [Numbers -> Requests] /\ \A p \in Numbers : TextFits(request[p])
  BY DEF Kept
<1>1. ASSUME NEW q \in Numbers, Handle(q) PROVE Kept'
  <2> DEFINE r == request[q]
  <2>1. r \in Requests /\ TextFits(r)
    BY <1>0
  <2>2. PICK a \in Answers(r) :
           request' = [request EXCEPT ![q] =
                         IF r.live THEN [r EXCEPT !.stage = "handled", !.at = clock + 1,
                                                  !.ok = Accepted(r), !.answer = a]
                         ELSE Gone]
    BY <1>1 DEF Handle
  <2>3. Own(Effect(r)) /\ Own(a)
    BY <2>1, HandlingIsOwn DEF Kept
  <2>4. clock' = clock + 1 /\ clock' \in Nat /\ applied' \in 0..clock'
    BY <1>1 DEF Handle, Kept
  <2>5. r.kind = "put" /\ Accepted(r) => r.item \in DOMAIN a
    <3>1. SUFFICES ASSUME r.kind = "put", r.item \in DOMAIN bank PROVE r.item \in DOMAIN a
      BY DEF Accepted, Patches
    <3>2. a = Restrict(Effect(r), {r.item}) /\ Effect(r) = Put(bank, r.item, r.text)
      BY <3>1 DEF Answers, Effect
    <3>3. r.item \in DOMAIN Effect(r)
      BY <3>1, <3>2 DEF Put
    <3> QED  BY <2>3, <3>2, <3>3 DEF Restrict
  <2>6. Accepted(r) \in BOOLEAN
    BY DEF Accepted
  <2>7. request' \in [Numbers -> Requests] /\ \A p \in Numbers : TextFits(request'[p])
    <3>1. CASE r.live
      <4> DEFINE n == [r EXCEPT !.stage = "handled", !.at = clock + 1, !.ok = Accepted(r), !.answer = a]
      <4>1. n \in Requests /\ TextFits(n)
        BY <2>1, <2>3, <2>4, <2>5, <2>6, <3>1, AnsweredFits
      <4>2. request' = [request EXCEPT ![q] = n]
        BY <2>2, <3>1
      <4> HIDE DEF n
      <4> QED  BY <1>0, <4>1, <4>2
    <3>2. CASE ~r.live
      <4>1. request' = [request EXCEPT ![q] = Gone]
        BY <2>2, <3>2
      <4> QED  BY <1>0, <4>1, GoneFacts
    <3> QED  BY <3>1, <3>2
  <2> QED  BY <1>1, <2>3, <2>4, <2>7 DEF Handle, Kept, Own, tab
<1>2. ASSUME NEW q \in Numbers, Refuse(q) PROVE Kept'
  <2> DEFINE r == request[q]
             n == [r EXCEPT !.stage = "handled", !.at = clock + 1, !.ok = FALSE]
  <2>1. r \in Requests /\ TextFits(r)
    BY <1>0
  <2>2. clock' = clock + 1 /\ clock' \in Nat /\ applied' \in 0..clock'
    BY <1>2 DEF Refuse, Kept
  <2>3. faults' = faults + 1 /\ faults' \in 0..MaxFaults
    BY <1>2, BoundsAssumption DEF Refuse, Kept
  <2>4. r.live => n \in Requests /\ TextFits(n)
    <3>1. n \in Requests
      BY <2>1, <2>2, <1>2 DEF Requests, Refuse
    <3>2. /\ n.kind = r.kind /\ n.item = r.item /\ n.text = r.text /\ n.live = r.live
          /\ n.stage = "handled" /\ n.ok = FALSE /\ n.answer = r.answer
      BY <2>1 DEF Requests
    <3> HIDE DEF n
    <3> QED  BY <2>1, <3>1, <3>2 DEF TextFits
  <2>5. request' = [request EXCEPT ![q] = IF r.live THEN n ELSE Gone]
    BY <1>2 DEF Refuse
  <2>6. request' \in [Numbers -> Requests] /\ \A p \in Numbers : TextFits(request'[p])
    <3> HIDE DEF n
    <3> QED  BY <1>0, <2>4, <2>5, GoneFacts
  <2> QED  BY <1>2, <2>2, <2>3, <2>6 DEF Refuse, Kept, Own, tab
<1>3. ASSUME NEW i \in Items, Other(i) PROVE Kept'
  <2>1. texts' = texts + 1 /\ texts' \in 0..MaxTexts /\ texts + 1 \in 0..MaxTexts
    BY <1>3, BoundsAssumption DEF Other, Kept
  <2>2. [of |-> i, n |-> texts + 1] \in Texts /\ [of |-> i, n |-> texts + 1].of = i
    BY <2>1 DEF Texts
  <2>3. Own(bank')
    <3>1. CASE bank' = Put(bank, i, [of |-> i, n |-> texts + 1])
      BY <2>2, <3>1, OwnFacts DEF Kept
    <3>2. CASE bank' = Restrict(bank, Items \ {i})
      BY <3>2, OwnFacts DEF Kept
    <3> QED  BY <1>3, <3>1, <3>2 DEF Other
  <2>4. clock' \in Nat /\ applied' \in 0..clock'
    BY <1>3 DEF Other, Kept
  <2> QED  BY <1>3, <2>1, <2>3, <2>4 DEF Other, Kept, Own, tab
<1> QED  BY <1>1, <1>2, <1>3

LEMMA AnswerKeeps ==
    ASSUME Kept, TypeOK, TimesDiffer, NEW q \in Numbers
    PROVE  Answer(q) \/ Lost(q) => Kept'
<1>0. /\ request \in [Numbers -> Requests] /\ \A p \in Numbers : TextFits(request[p])
      /\ Over(q) \in [Numbers -> Requests] /\ \A p \in Numbers : TextFits(Over(q)[p])
  BY GoneFacts DEF Kept, Over
<1>1. ASSUME Apply(q) PROVE Kept'
  <2> DEFINE r == request[q]
  <2>1. r.answer \in Contents /\ Own(r.answer) /\ r.stage = "handled"
    BY <1>0, <1>1 DEF Requests, TextFits, Own, Apply
  <2>2. request' \in [Numbers -> Requests] /\ \A p \in Numbers : TextFits(request'[p])
    BY <1>0, <1>1 DEF Apply
  <2>3. /\ Own(items') /\ editing' \in Items \cup {NoItem} /\ draft' \in Texts \cup {NoText}
        /\ editing' # NoItem => draft'.of = editing'
    <3>1. CASE Listed(r)
      BY <2>1, <3>1 DEF Listed, Kept, Own
    <3>2. CASE Deleted(r)
      BY <3>2, OwnFacts DEF Deleted, Kept
    <3>3. CASE r.kind = "put" /\ Saved(r)
      <4>1. CASE ~r.ok
        BY <3>3, <4>1 DEF Saved, Kept
      <4>2. CASE r.ok
        <5>1. r.item \in DOMAIN r.answer
          BY <1>0, <2>1, <3>3, <4>2 DEF TextFits
        <5>2. r.answer[r.item] \in Texts /\ r.answer[r.item].of = r.item
          BY <2>1, <5>1, ContentsFacts DEF Own
        <5>3. items' = [i \in DOMAIN items |-> IF i = r.item THEN r.answer[i] ELSE items[i]]
          BY <3>3, <4>2 DEF Saved
        <5>4. DOMAIN items \in SUBSET Items /\ items \in [DOMAIN items -> Texts]
          BY ContentsFacts DEF Kept, Own
        <5>5. items' \in [DOMAIN items -> Texts] /\ \A i \in DOMAIN items' : items'[i].of = i
          BY <5>2, <5>3, <5>4 DEF Kept, Own
        <5>6. Own(items')
          BY <5>4, <5>5, ContentsFacts DEF Own
        <5> QED  BY <3>3, <4>2, <5>6 DEF Saved, Kept
      <4> QED  BY <4>1, <4>2
    <3> QED  BY <1>1, <3>1, <3>2, <3>3, ApplyCases
  <2>4. clock' = clock /\ applied' \in 0..clock
    BY <1>1 DEF Apply, TimesDiffer, Handled, Kept
  <2> QED  BY <1>1, <2>2, <2>3, <2>4 DEF Apply, Kept, Own
<1>2. ASSUME Imported(q) PROVE Kept'
  <2>1. request' \in [Numbers -> Requests] /\ \A p \in Numbers : TextFits(request'[p])
    <3>1. CASE request[q].ok
      <4>1. Send(Over(q), "list", NoItem, NoText) /\ "list" \notin Patches \cup {"import"}
        BY <1>2, <3>1 DEF Imported, Patches
      <4> QED  BY <1>0, <4>1, SendKeeps
    <3>2. CASE ~request[q].ok
      BY <1>0, <1>2, <3>2 DEF Imported
    <3> QED  BY <3>1, <3>2
  <2> QED  BY <1>2, <2>1 DEF Imported, Kept, Own, history
<1>3. ASSUME Lost(q) PROVE Kept'
  <2>1. faults' = faults + 1 /\ faults' \in 0..MaxFaults
    BY <1>3, BoundsAssumption DEF Lost, Kept
  <2> QED  BY <1>0, <1>3, <2>1 DEF Lost, Kept, Own
<1> QED  BY <1>1, <1>2, <1>3 DEF Answer

LEMMA BaseStep ==
    ASSUME Base, TimesDiffer, [Next]_vars
    PROVE  Base'
<1>1. Kept /\ TypeOK
  BY BaseIsKept DEF Base
<1>2. Kept'
  <2>1. ASSUME UNCHANGED vars PROVE Kept'
    BY <1>1, <2>1 DEF vars, tab, history, Kept, Own
  <2>2. ASSUME NEW kind \in {"list", "search"}, Search(kind) PROVE Kept'
    BY <1>1, <2>2, TabKeeps
  <2>3. ASSUME NEW i \in Items, Delete(i) \/ StartEdit(i) \/ Import(i) PROVE Kept'
    BY <1>1, <2>3, TabKeeps
  <2>4. ASSUME NEW i \in Items, Other(i) PROVE Kept'
    BY <1>1, <2>4, ServerKeeps
  <2>5. ASSUME Type \/ SaveEdit \/ Cancel \/ Remount PROVE Kept'
    BY <1>1, <2>5, TabKeeps
  <2>6. ASSUME NEW q \in Numbers, Handle(q) \/ Refuse(q) PROVE Kept'
    BY <1>1, <2>6, ServerKeeps
  <2>7. ASSUME NEW q \in Numbers, Answer(q) \/ Lost(q) PROVE Kept'
    BY <1>1, <2>7, AnswerKeeps
  <2> QED  BY <2>1, <2>2, <2>3, <2>4, <2>5, <2>6, <2>7 DEF Next
<1>3. loading' \in BOOLEAN /\ full' \in BOOLEAN /\ excused' \in BOOLEAN
  BY <1>1, FlagsKeep
<1>4. (Kept /\ loading \in BOOLEAN /\ full \in BOOLEAN /\ excused \in BOOLEAN)' => Base'
  BY BaseIsKept, PTL
<1> QED  BY <1>2, <1>3, <1>4

-------------------------------------------------------------------------------
\* What the tab shows agrees with the bank.

\* The steps that change neither bank nor items, nor the answers to writes.
Quiet ==
    \/ UNCHANGED vars
    \/ \E kind \in {"list", "search"} : Search(kind)
    \/ \E i \in Items : Delete(i) \/ StartEdit(i) \/ Import(i)
    \/ Type \/ SaveEdit \/ Cancel
    \/ \E q \in Numbers : Imported(q)

\* No answers are added, and those to writes are all there still.
AnswersStay ==
    \A p \in Numbers : /\ request'[p].stage = "handled" =>
                            request[p].stage = "handled" /\ request'[p] = request[p]
                       /\ request[p].stage = "handled" /\ request[p].kind \in Patches =>
                            request'[p] = request[p]

LEMMA SendViews ==
    ASSUME NEW others, DOMAIN others = Numbers, NEW kind, NEW item, NEW text,
           Send(others, kind, item, text)
    PROVE  \A p \in Numbers : \/ request'[p] = others[p]
                              \/ request[p].stage = "unsent" /\ request'[p].stage = "sent"
<1>1. PICK q \in Numbers : /\ request[q].stage = "unsent"
                           /\ request' = [others EXCEPT ![q] = Sent(kind, item, text)]
  BY DEF Send
<1>2. Sent(kind, item, text).stage = "sent"
  BY DEF Sent, Unsent
<1> QED  BY <1>1, <1>2

LEMMA QuietFacts ==
    ASSUME Base, Quiet
    PROVE  AnswersStay /\ UNCHANGED <<items, bank, history>>
<1>0. DOMAIN request = Numbers /\ request \in [Numbers -> Requests]
  BY DEF Base, TypeOK
<1>1. ASSUME NEW kind, NEW item, NEW text, Send(request, kind, item, text) PROVE AnswersStay
  BY <1>0, <1>1, SendViews DEF AnswersStay
<1>2. CASE UNCHANGED vars
  BY <1>2 DEF vars, tab, history, AnswersStay
<1>3. ASSUME NEW kind, Search(kind) PROVE AnswersStay /\ UNCHANGED <<items, bank, history>>
  BY <1>1, <1>3 DEF Search
<1>4. ASSUME NEW i \in Items, Delete(i) \/ Import(i) PROVE AnswersStay /\ UNCHANGED <<items, bank, history>>
  <2>1. AnswersStay
    <3>1. CASE Delete(i)
      BY <1>1, <3>1 DEF Delete
    <3>2. CASE Import(i)
      BY <1>1, <3>2 DEF Import
    <3> QED  BY <1>4, <3>1, <3>2
  <2> QED  BY <1>4, <2>1 DEF Delete, Import, tab
<1>5. ASSUME NEW i \in Items, StartEdit(i) PROVE AnswersStay /\ UNCHANGED <<items, bank, history>>
  BY <1>5 DEF StartEdit, AnswersStay
<1>6. ASSUME Type \/ Cancel PROVE AnswersStay /\ UNCHANGED <<items, bank, history>>
  BY <1>6 DEF Type, Cancel, AnswersStay
<1>7. ASSUME SaveEdit PROVE AnswersStay /\ UNCHANGED <<items, bank, history>>
  BY <1>1, <1>7 DEF SaveEdit, tab
<1>8. ASSUME NEW q \in Numbers, Imported(q) PROVE AnswersStay /\ UNCHANGED <<items, bank, history>>
  <2>1. /\ DOMAIN Over(q) = Numbers /\ Over(q)[q] = Gone
        /\ \A p \in Numbers \ {q} : Over(q)[p] = request[p]
    BY <1>0 DEF Over
  <2>2. request[q].stage = "handled" /\ request[q].kind \notin Patches
    BY <1>8 DEF Imported, Patches
  <2>3. AnswersStay
    <3>1. CASE request[q].ok
      <4>1. Send(Over(q), "list", NoItem, NoText)
        BY <1>8, <3>1 DEF Imported
      <4>2. \A p \in Numbers : \/ request'[p] = Over(q)[p]
                               \/ request[p].stage = "unsent" /\ request'[p].stage = "sent"
        BY <2>1, <4>1, SendViews
      <4> QED  BY <2>1, <2>2, <4>2, GoneFacts DEF AnswersStay
    <3>2. CASE ~request[q].ok
      BY <1>8, <2>1, <2>2, <3>2, GoneFacts DEF Imported, AnswersStay
    <3> QED  BY <3>1, <3>2
  <2> QED  BY <1>8, <2>3 DEF Imported
<1> QED  BY <1>2, <1>3, <1>4, <1>5, <1>6, <1>7, <1>8 DEF Quiet

\* How the other steps change the requests.
LEMMA Views ==
    ASSUME Base
    PROVE  /\ Remount => \A p \in Numbers : request'[p].stage # "handled"
           /\ \A q \in Numbers : Apply(q) \/ Lost(q) =>
                 /\ request'[q].stage # "handled"
                 /\ \A p \in Numbers \ {q} : request'[p] = request[p]
           /\ \A q \in Numbers : Handle(q) \/ Refuse(q) =>
                 /\ request[q].stage = "sent"
                 /\ clock' = clock + 1
                 /\ request'[q].stage = "handled" => /\ request[q].live /\ request'[q].at = clock + 1
                                                     /\ request'[q].kind = request[q].kind
                                                     /\ request'[q].item = request[q].item
                 /\ request[q].live => request'[q].stage = "handled"
                 /\ \A p \in Numbers \ {q} : request'[p] = request[p]
<1>0. DOMAIN request = Numbers /\ request \in [Numbers -> Requests]
  BY DEF Base, TypeOK
<1>1. ASSUME Remount, NEW p \in Numbers PROVE request'[p].stage # "handled"
  <2> DEFINE others == [q \in Numbers |-> Orphaned(request[q])]
  <2>1. Send(others, "list", NoItem, NoText)
    BY <1>1 DEF Remount
  <2>2. Orphaned(request[p]).stage # "handled"
    <3>1. request[p] \in Requests
      BY <1>0
    <3> QED  BY <3>1, GoneFacts DEF Orphaned, Requests
  <2>3. DOMAIN others = Numbers /\ others[p] = Orphaned(request[p])
    OBVIOUS
  <2> HIDE DEF others
  <2>4. request'[p] = others[p] \/ request'[p].stage = "sent"
    BY <2>1, <2>3, SendViews
  <2> QED  BY <2>2, <2>3, <2>4
<1>2. ASSUME NEW q \in Numbers, Apply(q) \/ Lost(q)
      PROVE  /\ request'[q].stage # "handled"
             /\ \A p \in Numbers \ {q} : request'[p] = request[p]
  <2>1. request' = [request EXCEPT ![q] = Gone]
    BY <1>2 DEF Apply, Lost, Over
  <2> QED  BY <1>0, <2>1, GoneFacts
<1>3. ASSUME NEW q \in Numbers, Handle(q) \/ Refuse(q)
      PROVE  /\ request[q].stage = "sent"
             /\ clock' = clock + 1
             /\ request'[q].stage = "handled" => /\ request[q].live /\ request'[q].at = clock + 1
                                                 /\ request'[q].kind = request[q].kind
                                                 /\ request'[q].item = request[q].item
             /\ request[q].live => request'[q].stage = "handled"
             /\ \A p \in Numbers \ {q} : request'[p] = request[p]
  <2> DEFINE r == request[q]
  <2>1. \E ok, a : request' = [request EXCEPT ![q] =
                                 IF r.live THEN [r EXCEPT !.stage = "handled", !.at = clock + 1,
                                                          !.ok = ok, !.answer = a]
                                 ELSE Gone]
    <3>1. CASE Handle(q)
      BY <3>1 DEF Handle
    <3>2. CASE Refuse(q)
      <4>1. r \in Requests
        BY <1>0
      <4>2. [r EXCEPT !.stage = "handled", !.at = clock + 1, !.ok = FALSE]
              = [r EXCEPT !.stage = "handled", !.at = clock + 1, !.ok = FALSE, !.answer = r.answer]
        BY <4>1 DEF Requests
      <4> QED  BY <3>2, <4>2 DEF Refuse
    <3> QED  BY <1>3, <3>1, <3>2
  <2>2. PICK ok, a : request' = [request EXCEPT ![q] =
                                   IF r.live THEN [r EXCEPT !.stage = "handled", !.at = clock + 1,
                                                            !.ok = ok, !.answer = a]
                                   ELSE Gone]
    BY <2>1
  <2>3. r \in Requests
    BY <1>0
  <2>4. CASE r.live
    BY <1>0, <1>3, <2>2, <2>3, <2>4 DEF Handle, Refuse, Requests
  <2>5. CASE ~r.live
    BY <1>0, <1>3, <2>2, <2>5, GoneFacts DEF Handle, Refuse
  <2> QED  BY <2>4, <2>5
<1> QED  BY <1>1, <1>2, <1>3

LEMMA StepCases ==
    ASSUME [Next]_vars
    PROVE  \/ Quiet \/ Remount
           \/ \E i \in Items : Other(i)
           \/ \E q \in Numbers : Handle(q) \/ Refuse(q) \/ Apply(q) \/ Lost(q)
BY DEF Next, Quiet, Answer

LEMMA TimesStep ==
    ASSUME Base, TimesDiffer, [Next]_vars
    PROVE  TimesDiffer'
<1>0. clock \in Nat /\ applied \in 0..clock /\ \A q \in Numbers : request[q].at \in Nat
  BY DEF Base, TypeOK, Requests
<1>1. ASSUME \A p \in Numbers : request'[p].stage = "handled" => request'[p] = request[p],
             applied' = applied, clock' \in {clock, clock + 1}
      PROVE  TimesDiffer'
  BY <1>0, <1>1 DEF TimesDiffer, Handled
<1>2. CASE Quiet
  BY <1>1, <1>2, QuietFacts DEF history, AnswersStay
<1>3. CASE Remount
  BY <1>1, <1>3, Views DEF Remount
<1>4. ASSUME NEW i \in Items, Other(i) PROVE TimesDiffer'
  BY <1>1, <1>4 DEF Other
<1>5. ASSUME NEW q \in Numbers, Handle(q) \/ Refuse(q) PROVE TimesDiffer'
  <2>1. /\ request'[q].stage = "handled" => request'[q].at = clock + 1
        /\ \A p \in Numbers \ {q} : request'[p] = request[p]
        /\ clock' = clock + 1
    BY <1>5, Views
  <2>2. applied' = applied
    BY <1>5 DEF Handle, Refuse
  <2> QED  BY <1>0, <2>1, <2>2 DEF TimesDiffer, Handled
<1>6. ASSUME NEW q \in Numbers, Apply(q) PROVE TimesDiffer'
  <2>1. /\ request'[q].stage # "handled"
        /\ \A p \in Numbers \ {q} : request'[p] = request[p]
    BY <1>6, Views
  <2>2. applied' \in {request[q].at, applied} /\ clock' = clock /\ Handled(q)
    BY <1>6 DEF Apply, Handled
  <2> QED  BY <2>1, <2>2 DEF TimesDiffer, Handled
<1>7. ASSUME NEW q \in Numbers, Lost(q) PROVE TimesDiffer'
  BY <1>1, <1>7, Views DEF Lost
<1> QED  BY <1>2, <1>3, <1>4, <1>5, <1>6, <1>7, StepCases

LEMMA FreshStep ==
    ASSUME Base, TimesDiffer, FreshListsAgree, [Next]_vars
    PROVE  FreshListsAgree'
<1>0. clock \in Nat /\ \A q \in Numbers : request[q].at \in Nat
  BY DEF Base, TypeOK, Requests
<1>1. ASSUME \A p \in Numbers : request'[p].stage = "handled" => request'[p] = request[p],
             UNCHANGED <<bank, clock>>
      PROVE  FreshListsAgree'
  BY <1>1 DEF FreshListsAgree, IsList, Handled, Agrees
<1>2. CASE Quiet
  BY <1>1, <1>2, QuietFacts DEF history, AnswersStay
<1>3. CASE Remount
  BY <1>1, <1>3, Views DEF Remount
<1>4. ASSUME NEW i \in Items, Other(i) PROVE FreshListsAgree'
  BY <1>0, <1>4 DEF Other, FreshListsAgree, IsList, Handled, TimesDiffer
<1>5. ASSUME NEW q \in Numbers, Handle(q) \/ Refuse(q) PROVE FreshListsAgree'
  <2>1. /\ \A p \in Numbers \ {q} : request'[p] = request[p]
        /\ clock' = clock + 1
        /\ request'[q].stage = "handled" => /\ request[q].live
                                            /\ request'[q].kind = request[q].kind
    BY <1>5, Views
  <2>2. \A p \in Numbers \ {q} : ~(IsList(p)' /\ request'[p].at = clock')
    BY <1>0, <2>1 DEF IsList, Handled, TimesDiffer
  <2>3. ASSUME IsList(q)'
        PROVE  /\ \A i \in DOMAIN request'[q].answer :
                    i \in DOMAIN bank' /\ request'[q].answer[i] = bank'[i]
               /\ request'[q].kind = "list" => DOMAIN bank' \subseteq DOMAIN request'[q].answer
    <3>0. request[q] \in Requests /\ request \in [Numbers -> Requests] /\ bank \in Contents
      BY DEF Base, TypeOK
    <3>1. CASE Handle(q)
      <4>1. PICK a \in Answers(request[q]) :
                request' = [request EXCEPT ![q] =
                              IF request[q].live
                              THEN [request[q] EXCEPT !.stage = "handled", !.at = clock + 1,
                                      !.ok = Accepted(request[q]), !.answer = a]
                              ELSE Gone]
        BY <3>1 DEF Handle
      <4>2. request[q].live /\ request[q].kind \in {"list", "search"}
        BY <2>1, <2>3 DEF IsList, Handled
      <4>3. request'[q].answer = a /\ request'[q].kind = request[q].kind
        BY <3>0, <4>1, <4>2 DEF Requests
      <4>4. bank' = bank
        BY <3>1, <4>2 DEF Handle, Effect
      <4>5. CASE request[q].kind = "list"
        BY <4>1, <4>3, <4>4, <4>5 DEF Answers
      <4>6. CASE request[q].kind = "search"
        <5>1. PICK S \in SUBSET DOMAIN bank : a = Restrict(bank, S)
          BY <4>1, <4>6 DEF Answers
        <5>2. DOMAIN a = DOMAIN bank \cap S /\ \A i \in DOMAIN bank \cap S : a[i] = bank[i]
          BY <3>0, <5>1, RestrictFacts
        <5> QED  BY <4>3, <4>4, <4>6, <5>2
      <4> QED  BY <4>2, <4>5, <4>6
    <3>2. CASE Refuse(q)
      <4>1. request'[q].ok = FALSE
        BY <2>1, <2>3, <3>0, <3>2 DEF Refuse, Requests, IsList, Handled
      <4> QED  BY <2>3, <4>1 DEF IsList
    <3> QED  BY <1>5, <3>1, <3>2
  <2> QED  BY <2>2, <2>3 DEF FreshListsAgree, Agrees
<1>6. ASSUME NEW q \in Numbers, Apply(q) \/ Lost(q) PROVE FreshListsAgree'
  <2>1. UNCHANGED <<bank, clock>>
    BY <1>6 DEF Apply, Lost
  <2> QED  BY <1>1, <1>6, <2>1, Views
<1> QED  BY <1>2, <1>3, <1>4, <1>5, <1>6, StepCases

\* Answers stay, and so does what they answer for.
LEMMA StaysRecent ==
    ASSUME AllIsRecent, AnswersStay, UNCHANGED <<items, bank, applied, full>>, excused => excused'
    PROVE  AllIsRecent'
<1> SUFFICES ASSUME ~excused', ~Late'
             PROVE  /\ ShownIsRecent'
                    /\ \A q \in Numbers : Handled(q)' /\ request'[q].at > applied' => AnswerIsRecent(q)'
  BY DEF AllIsRecent
<1>1. ~Late
  BY DEF Late, IsPatch, Handled, AnswersStay
<1>2. ASSUME NEW i, NEW t, Patched(i, t) PROVE Patched(i, t)'
  BY <1>2 DEF Patched, IsPatch, Handled, AnswersStay
<1>3. ShownIsRecent'
  BY <1>1, <1>2 DEF AllIsRecent, ShownIsRecent, Agrees
<1>4. ASSUME NEW q \in Numbers, Handled(q)', request'[q].at > applied' PROVE AnswerIsRecent(q)'
  <2>1. request'[q] = request[q] /\ AnswerIsRecent(q)
    BY <1>1, <1>4 DEF AllIsRecent, Handled, AnswersStay
  <2> QED  BY <1>2, <2>1 DEF AnswerIsRecent, IsList, IsPatch, Handled, Agrees
<1> QED  BY <1>3, <1>4

\* An answer has come, and what changed in the bank is what it answers for.
LEMMA ArrivalIsRecent ==
    ASSUME Base, TimesDiffer, AllIsRecent, NEW q \in Numbers,
           request[q].stage = "sent",
           \A p \in Numbers \ {q} : request'[p] = request[p],
           UNCHANGED <<items, applied, full>>, excused => excused',
           Handled(q)' => request'[q].at = clock + 1 /\ AnswerIsRecent(q)',
           ~excused' => DOMAIN bank' \subseteq DOMAIN bank,
           ~excused' => \A j \in DOMAIN bank :
                           \/ j \in DOMAIN bank' /\ bank'[j] = bank[j]
                           \/ /\ IsPatch(q)' /\ request'[q].item = j
                              /\ request'[q].ok \/ request'[q].kind = "delete"
    PROVE  AllIsRecent'
<1> SUFFICES ASSUME ~excused', ~Late'
             PROVE  /\ ShownIsRecent'
                    /\ \A p \in Numbers : Handled(p)' /\ request'[p].at > applied' => AnswerIsRecent(p)'
  BY DEF AllIsRecent
<1>0. clock \in Nat /\ applied \in 0..clock /\ \A p \in Numbers : request[p].at \in Nat
  BY DEF Base, TypeOK, Requests
<1>1. ~Late
  BY DEF Late, IsPatch, Handled
<1>2. ASSUME NEW j, NEW t \in 0..clock, Patched(j, t) PROVE Patched(j, t)'
  <2>1. PICK p \in Numbers : /\ IsPatch(p) /\ request[p].item = j /\ request[p].at > t
                             /\ request[p].ok \/ request[p].kind = "delete"
    BY <1>2 DEF Patched
  <2>2. request'[p] = request[p]
    BY <2>1 DEF IsPatch, Handled
  <2> QED  BY <2>1, <2>2 DEF Patched, IsPatch, Handled
<1>3. ASSUME NEW c, NEW j, NEW t \in 0..clock, Agrees(c, j) PROVE Agrees(c, j)' \/ Patched(j, t)'
  <2>1. CASE j \in DOMAIN bank' /\ bank'[j] = bank[j]
    BY <1>3, <2>1 DEF Agrees
  <2>2. CASE /\ IsPatch(q)' /\ request'[q].item = j
             /\ request'[q].ok \/ request'[q].kind = "delete"
    <3>1. request'[q].at > t
      BY <1>0, <2>2 DEF IsPatch
    <3> QED  BY <2>2, <3>1 DEF Patched
  <2> QED  BY <1>3, <2>1, <2>2 DEF Agrees
<1>4. ShownIsRecent'
  <2>1. ShownIsRecent
    BY <1>1 DEF AllIsRecent
  <2>2. ASSUME NEW j \in DOMAIN items' PROVE Agrees(items, j)' \/ Patched(j, applied)'
    <3>1. Agrees(items, j) \/ Patched(j, applied)
      BY <2>1 DEF ShownIsRecent
    <3>2. Agrees(items, j) => Agrees(items, j)' \/ Patched(j, applied)'
      BY <1>0, <1>3
    <3>3. Patched(j, applied) => Patched(j, applied)'
      BY <1>0, <1>2
    <3> QED  BY <3>1, <3>2, <3>3
  <2>3. full' => DOMAIN bank' \subseteq DOMAIN items'
    BY <2>1 DEF ShownIsRecent
  <2> QED  BY <2>2, <2>3 DEF ShownIsRecent
<1>5. ASSUME NEW p \in Numbers \ {q}, Handled(p)', request'[p].at > applied' PROVE AnswerIsRecent(p)'
  <2> DEFINE r == request[p]
  <2>1. request'[p] = r /\ AnswerIsRecent(p) /\ r.at \in 0..clock
    BY <1>0, <1>1, <1>5 DEF AllIsRecent, Handled, TimesDiffer
  <2>2. ASSUME IsList(p) PROVE \A j \in DOMAIN r.answer : Agrees(r.answer, j)' \/ Patched(j, r.at)'
    BY <1>2, <1>3, <2>1, <2>2 DEF AnswerIsRecent
  <2>3. ASSUME IsPatch(p), r.kind = "put", r.ok
        PROVE  Agrees(r.answer, r.item)' \/ Patched(r.item, r.at)'
    BY <1>2, <1>3, <2>1, <2>3 DEF AnswerIsRecent
  <2> QED  BY <2>1, <2>2, <2>3 DEF AnswerIsRecent, IsList, IsPatch, Handled
<1> QED  BY <1>4, <1>5

LEMMA RefuseIsRecent ==
    ASSUME Base, TimesDiffer, AllIsRecent, NEW q \in Numbers, Refuse(q)
    PROVE  AllIsRecent'
<1>0. request \in [Numbers -> Requests]
  BY DEF Base, TypeOK
<1>1. /\ request[q].stage = "sent" /\ clock' = clock + 1
      /\ \A p \in Numbers \ {q} : request'[p] = request[p]
      /\ request'[q].stage = "handled" => /\ request[q].live /\ request'[q].at = clock + 1
                                          /\ request'[q].kind = request[q].kind
  BY Views
<1>2. UNCHANGED <<items, applied, full, bank>> /\ (excused => excused')
  BY DEF Refuse, tab
<1>3. ASSUME ~excused', Handled(q)' PROVE AnswerIsRecent(q)'
  <2>1. request'[q].ok = FALSE
    BY <1>0, <1>1, <1>3 DEF Refuse, Requests, Handled
  <2>2. request'[q].kind # "delete"
    BY <1>1, <1>3 DEF Refuse, Handled
  <2> QED  BY <2>1, <2>2 DEF AnswerIsRecent, IsList
<1>4. CASE excused'
  BY <1>4 DEF AllIsRecent
<1>5. CASE ~excused'
  BY <1>1, <1>2, <1>3, <1>5, ArrivalIsRecent DEF Handled
<1> QED  BY <1>4, <1>5

LEMMA HandleIsRecent ==
    ASSUME Base, TimesDiffer, AllIsRecent, NEW q \in Numbers, Handle(q)
    PROVE  AllIsRecent'
<1> DEFINE r == request[q]
<1>0. /\ request \in [Numbers -> Requests] /\ r \in Requests /\ TextFits(r)
      /\ bank \in Contents /\ Own(Effect(r)) /\ Own(bank)
  BY HandlingIsOwn DEF Base, TypeOK, TextsFit, TextsStayApart, Own
<1>1. /\ r.stage = "sent" /\ clock' = clock + 1
      /\ \A p \in Numbers \ {q} : request'[p] = request[p]
      /\ request'[q].stage = "handled" => /\ r.live /\ request'[q].at = clock + 1
                                          /\ request'[q].kind = r.kind
                                          /\ request'[q].item = r.item
      /\ r.live => request'[q].stage = "handled"
  BY Views
<1>2. UNCHANGED <<items, applied, full>> /\ (excused => excused') /\ bank' = Effect(r)
  BY DEF Handle, tab
<1>3. PICK a \in Answers(r) :
          request' = [request EXCEPT ![q] =
                        IF r.live THEN [r EXCEPT !.stage = "handled", !.at = clock + 1,
                                                 !.ok = Accepted(r), !.answer = a]
                        ELSE Gone]
  BY DEF Handle
<1>4. r.live => request'[q].answer = a /\ request'[q].ok = Accepted(r)
  BY <1>0, <1>3 DEF Requests
<1>5. bank' = bank \/ excused' \/ (r.live /\ r.kind \in Patches)
  <2>1. r.kind \notin Patches \cup {"import"} => Effect(r) = bank
    BY DEF Effect, Patches
  <2> QED  BY <1>2, <2>1 DEF Handle
<1>6. r.kind = "put" /\ r.item \in DOMAIN bank =>
        /\ DOMAIN bank' = DOMAIN bank
        /\ \A j \in DOMAIN bank \ {r.item} : bank'[j] = bank[j]
  <2> SUFFICES ASSUME r.kind = "put", r.item \in DOMAIN bank
               PROVE  /\ DOMAIN bank' = DOMAIN bank
                      /\ \A j \in DOMAIN bank \ {r.item} : bank'[j] = bank[j]
    OBVIOUS
  <2>1. bank' = Put(bank, r.item, r.text)
    BY <1>2 DEF Effect
  <2> QED  BY <2>1 DEF Put
<1>7. r.kind = "put" /\ r.item \notin DOMAIN bank => bank' = bank /\ ~Accepted(r)
  BY <1>2 DEF Effect, Accepted, Patches
<1>8. r.kind = "delete" =>
        /\ DOMAIN bank' = DOMAIN bank \cap (Items \ {r.item})
        /\ \A j \in DOMAIN bank' : bank'[j] = bank[j]
  <2>1. r.kind = "delete" => bank' = Restrict(bank, Items \ {r.item})
    BY <1>2 DEF Effect
  <2> QED  BY <2>1 DEF Restrict
<1>9. DOMAIN bank \subseteq Items
  BY <1>0, ContentsFacts
<1>10. CASE excused'
  BY <1>10 DEF AllIsRecent
<1>11. CASE ~excused'
  <2>1. DOMAIN bank' \subseteq DOMAIN bank
    BY <1>5, <1>6, <1>7, <1>8, <1>11 DEF Patches
  <2>2. ASSUME NEW j \in DOMAIN bank, ~(j \in DOMAIN bank' /\ bank'[j] = bank[j])
        PROVE  /\ IsPatch(q)' /\ request'[q].item = j
               /\ request'[q].ok \/ request'[q].kind = "delete"
    <3>1. r.live /\ r.kind \in Patches
      BY <1>5, <1>11, <2>2
    <3>2. IsPatch(q)' /\ request'[q].item = r.item /\ request'[q].kind = r.kind
      BY <1>1, <3>1 DEF IsPatch, Handled
    <3>3. CASE r.kind = "put"
      <4>1. r.item = j
        BY <1>6, <1>7, <2>2, <3>3
      <4>2. request'[q].ok
        BY <1>4, <3>1, <4>1 DEF Accepted
      <4> QED  BY <3>2, <4>1, <4>2
    <3>4. CASE r.kind = "delete"
      BY <1>8, <1>9, <2>2, <3>2, <3>4
    <3> QED  BY <3>1, <3>3, <3>4 DEF Patches
  <2>3. ASSUME Handled(q)' PROVE AnswerIsRecent(q)'
    <3>1. r.live /\ request'[q].kind = r.kind /\ request'[q].item = r.item /\ request'[q].answer = a
          /\ request'[q].ok = Accepted(r)
      BY <1>1, <1>4, <2>3 DEF Handled
    <3>2. CASE r.kind = "list"
      <4>1. a = bank /\ bank' = bank
        BY <1>2, <3>2 DEF Answers, Effect
      <4> QED  BY <3>1, <3>2, <4>1 DEF AnswerIsRecent, IsPatch, Agrees, Patches
    <3>3. CASE r.kind = "search"
      <4>1. PICK S \in SUBSET DOMAIN bank : a = Restrict(bank, S)
        BY <3>3 DEF Answers
      <4>2. \A j \in DOMAIN a : j \in DOMAIN bank /\ a[j] = bank[j]
        BY <4>1 DEF Restrict
      <4>3. bank' = bank
        BY <1>2, <3>3 DEF Effect
      <4> QED  BY <3>1, <3>3, <4>2, <4>3 DEF AnswerIsRecent, IsPatch, Agrees, Patches
    <3>4. CASE r.kind = "put"
      <4>1. a = Restrict(bank', {r.item})
        BY <1>2, <3>4 DEF Answers
      <4>2. Accepted(r) => r.item \in DOMAIN bank' /\ a[r.item] = bank'[r.item]
        BY <1>6, <3>4, <4>1 DEF Accepted, Patches, Restrict
      <4> QED  BY <3>1, <3>4, <4>2 DEF AnswerIsRecent, IsList, Agrees
    <3>5. CASE r.kind = "delete"
      BY <1>8, <3>1, <3>5 DEF AnswerIsRecent, IsList
    <3>6. CASE r.kind = "import"
      BY <3>1, <3>6 DEF AnswerIsRecent, IsList, IsPatch, Patches
    <3>7. r.kind \in {"list", "search", "import", "put", "delete"}
      BY <1>0 DEF Requests, Patches
    <3> QED  BY <3>2, <3>3, <3>4, <3>5, <3>6, <3>7
  <2>4. Handled(q)' => request'[q].at = clock + 1
    BY <1>1 DEF Handled
  <2> QED  BY <1>1, <1>2, <2>1, <2>2, <2>3, <2>4, ArrivalIsRecent
<1> QED  BY <1>10, <1>11

LEMMA ApplyIsRecent ==
    ASSUME Base, TimesDiffer, FreshListsAgree, AllIsRecent, NEW q \in Numbers, Apply(q)
    PROVE  AllIsRecent'
<1> DEFINE r == request[q]
<1> SUFFICES ASSUME ~excused', ~Late'
             PROVE  /\ ShownIsRecent'
                    /\ \A p \in Numbers : Handled(p)' /\ request'[p].at > applied' => AnswerIsRecent(p)'
  BY DEF AllIsRecent
<1>0. /\ clock \in Nat /\ applied \in 0..clock /\ \A p \in Numbers : request[p].at \in Nat
      /\ items \in Contents /\ r \in Requests /\ bank \in Contents
  BY DEF Base, TypeOK, Requests
<1>1. /\ request'[q].stage # "handled"
      /\ \A p \in Numbers \ {q} : request'[p] = request[p]
  BY Views
<1>2. /\ UNCHANGED <<bank, clock>> /\ Handled(q) /\ r.at \in 1..clock /\ r.at # applied
      /\ applied' = IF r.at > applied THEN r.at ELSE applied
  BY DEF Apply, Handled, TimesDiffer
<1>3. full' = IF r.kind \in {"list", "search"} /\ r.ok THEN r.kind = "list" ELSE full
  BY DEF Apply
<1>4. \/ r.kind \in {"list", "search"} /\ Listed(r)
      \/ r.kind = "delete" /\ Deleted(r)
      \/ r.kind = "put" /\ Saved(r)
  BY ApplyCases DEF Base
\* A list that settles everything.
<1>5. CASE IsList(q) /\ r.at = clock
  <2>1. items' = r.answer
    BY <1>4, <1>5 DEF IsList, Listed
  <2>2. ShownIsRecent'
    BY <1>2, <1>3, <1>5, <2>1 DEF ShownIsRecent, FreshListsAgree, Agrees, IsList
  <2>3. applied' = clock
    BY <1>0, <1>2, <1>5
  <2>4. \A p \in Numbers : Handled(p)' => request'[p].at <= applied'
    BY <1>0, <1>1, <2>3 DEF Handled, TimesDiffer
  <2>5. \A p \in Numbers : Handled(p)' => request'[p].at \in Nat
    BY <1>0, <1>1 DEF Handled
  <2> QED  BY <1>0, <1>2, <2>2, <2>3, <2>4, <2>5
\* Any other answer is in order, or it would excuse.
<1>6. CASE ~(IsList(q) /\ r.at = clock)
  <2>1. ~excused /\ ~(r.at < applied)
    BY <1>2, <1>6 DEF Apply, IsList
  <2>2. r.at > applied /\ applied' = r.at
    BY <1>0, <1>2, <2>1
  <2>3. ~Late
    BY <1>0, <1>1, <2>2 DEF Late, IsPatch, Handled
  <2>4. ShownIsRecent /\ AnswerIsRecent(q)
    BY <1>2, <2>1, <2>2, <2>3 DEF AllIsRecent
  <2>5. ASSUME NEW j, NEW t \in Nat, t >= r.at, Patched(j, t) PROVE Patched(j, t)'
    <3>1. PICK p \in Numbers : /\ IsPatch(p) /\ request[p].item = j /\ request[p].at > t
                               /\ request[p].ok \/ request[p].kind = "delete"
      BY <2>5 DEF Patched
    <3>2. request'[p] = request[p]
      BY <1>0, <1>1, <2>5, <3>1
    <3> QED  BY <3>1, <3>2 DEF Patched, IsPatch, Handled
  <2>6. ASSUME NEW j, Patched(j, applied), ~(r.kind \in Patches /\ r.item = j /\ (r.ok \/ r.kind = "delete"))
        PROVE  Patched(j, applied)'
    <3>1. PICK p \in Numbers : /\ IsPatch(p) /\ request[p].item = j /\ request[p].at > applied
                               /\ request[p].ok \/ request[p].kind = "delete"
      BY <2>6 DEF Patched
    <3>2. p # q
      BY <2>6, <3>1 DEF IsPatch
    <3>3. request'[p] = request[p] /\ request[p].at # r.at
      BY <1>1, <1>2, <3>1, <3>2 DEF TimesDiffer, IsPatch
    <3>4. ~(request[p].at < applied')
      BY <3>1, <3>3 DEF Late, IsPatch, Handled
    <3>5. request[p].at > applied'
      BY <1>0, <2>2, <3>3, <3>4
    <3> QED  BY <3>1, <3>3, <3>5 DEF Patched, IsPatch, Handled
  <2>7. ASSUME NEW j \in DOMAIN items', j \in DOMAIN items, items'[j] = items[j],
               ~(r.kind \in Patches /\ r.item = j /\ (r.ok \/ r.kind = "delete"))
        PROVE  Agrees(items, j)' \/ Patched(j, applied)'
    BY <1>2, <2>4, <2>6, <2>7 DEF ShownIsRecent, Agrees
  <2>8. ASSUME NEW j, Patched(j, r.at) PROVE Patched(j, applied)'
    BY <1>0, <2>2, <2>5, <2>8
  <2>9. ShownIsRecent'
    <3>1. CASE r.kind \in {"list", "search"} /\ r.ok
      <4>1. items' = r.answer /\ full' = (r.kind = "list") /\ IsList(q)
        BY <1>2, <1>3, <1>4, <3>1 DEF Listed, IsList
      <4>2. \A j \in DOMAIN r.answer : Agrees(r.answer, j) \/ Patched(j, r.at)
        BY <2>4, <4>1 DEF AnswerIsRecent
      <4>3. \A j \in DOMAIN items' : Agrees(items, j)' \/ Patched(j, applied)'
        BY <1>2, <2>8, <4>1, <4>2 DEF Agrees
      <4>4. full' => DOMAIN bank' \subseteq DOMAIN items'
        BY <1>2, <2>4, <4>1 DEF AnswerIsRecent
      <4> QED  BY <4>3, <4>4 DEF ShownIsRecent
    <3>2. CASE r.kind \in {"list", "search"} /\ ~r.ok
      <4>1. items' = items /\ full' = full /\ r.kind \notin Patches
        BY <1>3, <1>4, <3>2 DEF Listed, Patches
      <4> QED  BY <1>2, <2>4, <2>7, <4>1 DEF ShownIsRecent
    <3>3. CASE r.kind = "delete"
      <4>1. items' = Restrict(items, Items \ {r.item}) /\ full' = full
        BY <1>3, <1>4, <3>3 DEF Deleted
      <4>2. /\ DOMAIN items' = DOMAIN items \cap (Items \ {r.item})
            /\ \A j \in DOMAIN items' : items'[j] = items[j]
        BY <4>1 DEF Restrict
      <4>3. r.item \notin DOMAIN bank
        BY <1>2, <2>4, <3>3 DEF AnswerIsRecent, IsPatch, Patches
      <4>4. \A j \in DOMAIN items' : Agrees(items, j)' \/ Patched(j, applied)'
        BY <2>7, <4>2
      <4>5. full' => DOMAIN bank' \subseteq DOMAIN items'
        BY <1>0, <1>2, <2>4, <4>1, <4>2, <4>3, ContentsFacts DEF ShownIsRecent
      <4> QED  BY <4>4, <4>5 DEF ShownIsRecent
    <3>4. CASE r.kind = "put" /\ ~r.ok
      <4>1. items' = items /\ full' = full
        BY <1>3, <1>4, <3>4 DEF Saved
      <4>2. \A j \in DOMAIN items' : Agrees(items, j)' \/ Patched(j, applied)'
        BY <2>7, <3>4, <4>1
      <4> QED  BY <1>2, <2>4, <4>1, <4>2 DEF ShownIsRecent
    <3>5. CASE r.kind = "put" /\ r.ok
      <4>1. /\ items' = [j \in DOMAIN items |-> IF j = r.item THEN r.answer[j] ELSE items[j]]
            /\ full' = full
        BY <1>3, <1>4, <3>5 DEF Saved
      <4>2. Agrees(r.answer, r.item) \/ Patched(r.item, r.at)
        BY <1>2, <2>4, <3>5 DEF AnswerIsRecent, IsPatch, Patches
      <4>3. ASSUME NEW j \in DOMAIN items' PROVE Agrees(items, j)' \/ Patched(j, applied)'
        <5>1. CASE j = r.item
          BY <1>2, <2>8, <4>1, <4>2, <5>1 DEF Agrees
        <5>2. CASE j # r.item
          BY <2>7, <4>1, <5>2
        <5> QED  BY <5>1, <5>2
      <4> QED  BY <1>2, <2>4, <4>1, <4>3 DEF ShownIsRecent
    <3> QED  BY <1>4, <3>1, <3>2, <3>3, <3>4, <3>5
  <2>10. ASSUME NEW p \in Numbers, Handled(p)', request'[p].at > applied' PROVE AnswerIsRecent(p)'
    <3>1. request'[p] = request[p] /\ Handled(p) /\ request[p].at \in Nat
      BY <1>0, <1>1, <2>10 DEF Handled
    <3>2. request[p].at > applied /\ request[p].at >= r.at
      BY <1>0, <2>2, <2>10, <3>1
    <3>3. AnswerIsRecent(p)
      BY <2>1, <2>3, <3>1, <3>2 DEF AllIsRecent
    <3>4. \A j : Patched(j, request[p].at) => Patched(j, request[p].at)'
      BY <2>5, <3>1, <3>2
    <3> QED  BY <1>2, <3>1, <3>3, <3>4 DEF AnswerIsRecent, IsList, IsPatch, Handled, Agrees
  <2> QED  BY <2>9, <2>10
<1> QED  BY <1>5, <1>6

LEMMA RecentStep ==
    ASSUME Base, TimesDiffer, FreshListsAgree, AllIsRecent, [Next]_vars
    PROVE  AllIsRecent'
<1>1. CASE Quiet
  BY <1>1, QuietFacts, StaysRecent DEF history
<1>2. CASE Remount
  <2>1. \A p \in Numbers : ~Handled(p)'
    BY <1>2, Views DEF Handled
  <2>2. DOMAIN items' = {} /\ full' = FALSE
    BY <1>2, ContentsFacts DEF Remount
  <2> QED  BY <2>1, <2>2 DEF AllIsRecent, ShownIsRecent
<1>3. ASSUME NEW i \in Items, Other(i) PROVE AllIsRecent'
  BY <1>3 DEF Other, AllIsRecent
<1>4. ASSUME NEW q \in Numbers, Lost(q) PROVE AllIsRecent'
  <2>1. CASE IsPatch(q)
    BY <1>4, <2>1 DEF Lost, IsPatch, Handled, AllIsRecent
  <2>2. CASE ~IsPatch(q)
    <3>1. AnswersStay
      BY <1>4, <2>2, Views DEF AnswersStay, IsPatch, Handled
    <3> QED  BY <1>4, <3>1, StaysRecent DEF Lost
  <2> QED  BY <2>1, <2>2
<1>5. ASSUME NEW q \in Numbers, Handle(q) \/ Refuse(q) \/ Apply(q) PROVE AllIsRecent'
  BY <1>5, HandleIsRecent, RefuseIsRecent, ApplyIsRecent
<1> QED  BY <1>1, <1>2, <1>3, <1>4, <1>5, StepCases

-------------------------------------------------------------------------------
\* Loading.

\* A request that goes out is under way, and the earlier ones are as they were
\* (apart from what `others` says).
LEMMA SendAwaits ==
    ASSUME Base, NEW others \in [Numbers -> Requests], NEW kind, NEW item, NEW text,
           \A q \in Numbers : request[q].stage = "unsent" => others[q].stage = "unsent",
           Send(others, kind, item, text)
    PROVE  /\ \A q \in Numbers : Fetches(others[q]) => Fetches(request'[q])
           /\ kind \in {"list", "search"} => \E q \in Numbers : Fetches(request'[q])
<1>1. PICK q \in Numbers : /\ request[q].stage = "unsent"
                           /\ request' = [others EXCEPT ![q] = Sent(kind, item, text)]
  BY DEF Send
<1>2. \A p \in Numbers : request'[p] = IF p = q THEN Sent(kind, item, text) ELSE others[p]
  BY <1>1
<1>3. ~Fetches(others[q])
  BY <1>1 DEF Fetches
<1>4. kind \in {"list", "search"} => Fetches(Sent(kind, item, text))
  BY DEF Fetches, Sent, Unsent
<1> QED  BY <1>2, <1>3, <1>4

\* Whatever ends the request that the tab waits for ends its loading.
LEMMA LoadingStep ==
    ASSUME Base, TimesDiffer, LoadingIsAwaited, [Next]_vars
    PROVE  LoadingIsAwaited'
<1>0. request \in [Numbers -> Requests] /\ \A q \in Numbers : TextFits(request[q])
  BY DEF Base, TypeOK, TextsFit
<1>types. Base' /\ TypeOK /\ TypeOK'
  <2>1. Base'
    BY BaseStep
  <2> QED  BY <2>1 DEF Base
<1>1. ASSUME NEW kind \in {"list", "search"}, Search(kind) PROVE LoadingIsAwaited'
  BY <1>0, <1>1, SendAwaits DEF Search, LoadingIsAwaited
<1>2. ASSUME NEW i \in Items, Delete(i) \/ Import(i) PROVE LoadingIsAwaited'
  <2>1. \A q \in Numbers : Fetches(request[q]) => Fetches(request'[q])
    BY <1>0, <1>2, SendAwaits DEF Delete, Import
  <2>2. loading' = loading
    BY <1>2 DEF Delete, Import, tab
  <2> QED  BY <2>1, <2>2 DEF LoadingIsAwaited
<1>3. ASSUME SaveEdit PROVE LoadingIsAwaited'
  <2>1. \A q \in Numbers : Fetches(request[q]) => Fetches(request'[q])
    BY <1>0, <1>3, SendAwaits DEF SaveEdit
  <2>2. loading' = loading
    BY <1>3 DEF SaveEdit, tab
  <2> QED  BY <2>1, <2>2 DEF LoadingIsAwaited
<1>4. ASSUME Remount PROVE LoadingIsAwaited'
  <2>1. [q \in Numbers |-> Orphaned(request[q])] \in [Numbers -> Requests]
    BY <1>0, GoneFacts DEF Orphaned, Requests
  <2>2. \A q \in Numbers : request[q].stage = "unsent" => Orphaned(request[q]).stage = "unsent"
    BY DEF Orphaned
  <2> QED  BY <1>4, <2>1, <2>2, SendAwaits DEF Remount, LoadingIsAwaited
<1>5. ASSUME NEW q \in Numbers, Handle(q) \/ Refuse(q) PROVE LoadingIsAwaited'
  <2>1. loading' = loading
    BY <1>5 DEF Handle, Refuse, tab
  <2>2. \A p \in Numbers \ {q} : request'[p] = request[p]
    BY <1>0, <1>5 DEF Handle, Refuse
  <2>3. ASSUME request[q].live PROVE Fetches(request[q]) => Fetches(request'[q])
    <3>1. CASE Handle(q)
      <4>1. PICK a : request' = [request EXCEPT ![q] =
                        [request[q] EXCEPT !.stage = "handled", !.at = clock + 1,
                                           !.ok = Accepted(request[q]), !.answer = a]]
        BY <2>3, <3>1 DEF Handle
      <4> QED  BY <1>0, <4>1 DEF Fetches, Requests
    <3>2. CASE Refuse(q)
      BY <1>0, <2>3, <3>2 DEF Refuse, Fetches, Requests
    <3> QED  BY <1>5, <3>1, <3>2
  <2>4. ~request[q].live => ~Fetches(request[q])
    BY DEF Fetches
  <2> QED  BY <2>1, <2>2, <2>3, <2>4 DEF LoadingIsAwaited
<1>6. ASSUME NEW q \in Numbers, Apply(q) PROVE LoadingIsAwaited'
  <2>1. CASE request[q].kind \in {"list", "search"}
    BY <1>6, <2>1 DEF Apply, Listed, LoadingIsAwaited
  <2>2. CASE request[q].kind \notin {"list", "search"}
    <3>1. loading' = loading
      BY <1>types, <1>6, <2>2, ApplyCases DEF Deleted, Saved
    <3>2. \A p \in Numbers : Fetches(request[p]) => Fetches(request'[p])
      BY <1>0, <1>6, <2>2 DEF Apply, Over, Fetches
    <3> QED  BY <3>1, <3>2 DEF LoadingIsAwaited
  <2> QED  BY <2>1, <2>2
<1>7. ASSUME NEW q \in Numbers, Imported(q) PROVE LoadingIsAwaited'
  <2>1. \A p \in Numbers : Fetches(request[p]) => Fetches(Over(q)[p])
    BY <1>0, <1>7 DEF Imported, Over, Fetches
  <2>2. CASE request[q].ok
    <3>1. Over(q) \in [Numbers -> Requests]
      BY <1>0, GoneFacts DEF Over
    <3>2. \A p \in Numbers : request[p].stage = "unsent" => Over(q)[p].stage = "unsent"
      BY <1>0, <1>7 DEF Imported, Over
    <3> QED  BY <1>7, <2>2, <3>1, <3>2, SendAwaits DEF Imported, LoadingIsAwaited
  <2>3. CASE ~request[q].ok
    BY <1>7, <2>1, <2>3 DEF Imported, LoadingIsAwaited
  <2> QED  BY <2>2, <2>3
<1>8. ASSUME NEW q \in Numbers, Lost(q) PROVE LoadingIsAwaited'
  <2>1. \A p \in Numbers \ {q} : request'[p] = request[p]
    BY <1>0, <1>8 DEF Lost, Over
  <2>2. loading' = TRUE => loading /\ ~Fetches(request[q])
    BY <1>8 DEF Lost, Fetches
  <2>3. loading' \in BOOLEAN
    BY <1>types DEF TypeOK
  <2> QED  BY <2>1, <2>2, <2>3 DEF LoadingIsAwaited
<1>9. ASSUME UNCHANGED <<loading, request>> PROVE LoadingIsAwaited'
  BY <1>9 DEF LoadingIsAwaited
<1> QED
  BY <1>1, <1>2, <1>3, <1>4, <1>5, <1>6, <1>7, <1>8, <1>9 DEF Next, Answer, StartEdit, Other, Type, Cancel, vars, tab

-------------------------------------------------------------------------------
\* The theorems.

\* IInv holds at the start and every step keeps it.
THEOREM InvHolds == Spec => []IInv
<1>1. Init => IInv
  <2> SUFFICES ASSUME Init PROVE IInv
    OBVIOUS
  <2>1. Base
    BY BaseInit
  <2>2. \A q \in Numbers : request[q].stage # "handled"
    BY DEF Init, Sent, Unsent
  <2>3. DOMAIN items = {} /\ full = FALSE
    BY ContentsFacts DEF Init
  <2>4. \A q \in Numbers : Fetches(request[q]) <=> q = 1
    BY DEF Init, Fetches, Sent, Unsent
  <2>5. 1 \in Numbers
    BY BoundsAssumption DEF Numbers
  <2> QED
    BY <2>1, <2>2, <2>3, <2>4, <2>5 DEF LoadingIsAwaited, Base, IInv, TimesDiffer, FreshListsAgree, AllIsRecent, ShownIsRecent,
       IsList, Handled
<1>2. IInv /\ [Next]_vars => IInv'
  <2> SUFFICES ASSUME IInv, [Next]_vars PROVE IInv'
    OBVIOUS
  <2>1. Base /\ TimesDiffer /\ FreshListsAgree /\ AllIsRecent /\ LoadingIsAwaited
    BY DEF IInv, Base
  <2>2. Base' /\ TimesDiffer' /\ FreshListsAgree' /\ AllIsRecent' /\ LoadingIsAwaited'
    BY <2>1, BaseStep, TimesStep, FreshStep, RecentStep, LoadingStep
  <2> QED  BY <2>2 DEF IInv, Base
<1> QED  BY <1>1, <1>2, PTL DEF Spec

\* The variables of the tab and the server keep their types, also when requests
\* fail, are lost or outlive their component.
THEOREM TypesAreKept == Spec => []TypeOK
<1>1. IInv => TypeOK
  BY DEF IInv
<1> QED  BY <1>1, InvHolds, PTL

\* Saves that are answered while another memory is being edited never store or
\* show a text as that of the other one (startEdit, saveEdit).
THEOREM TextsAreKeptApart == Spec => []TextsStayApart
<1>1. IInv => TextsStayApart
  BY DEF IInv
<1> QED  BY <1>1, InvHolds, PTL

\* With any number of requests under way and answered in any order, the tab's
\* patched copy is the bank's content wherever the tab can know (MemoryTab).
THEOREM TabIsInSync == Spec => []InSync
<1>1. IInv => InSync
  <2> SUFFICES ASSUME IInv, ~excused, \A q \in Numbers : request[q].kind \in Patches => request[q].stage # "handled"
               PROVE  /\ \A i \in DOMAIN items : i \in DOMAIN bank /\ items[i] = bank[i]
                      /\ full => DOMAIN items = DOMAIN bank
    BY DEF InSync
  <2>1. \A q \in Numbers : ~IsPatch(q)
    BY DEF IsPatch, Handled
  <2>2. ShownIsRecent
    BY <2>1 DEF IInv, AllIsRecent, Late
  <2> QED  BY <2>1, <2>2 DEF ShownIsRecent, Patched, Agrees
<1> QED  BY <1>1, InvHolds, PTL

\* "Loading" is never said without a request that will end it: every way in
\* which a list's request of this component ends, also its refusal or loss,
\* goes through the `finally` of fetchItems (MemoryTab).
THEOREM LoadingHasItsCause == Spec => []LoadingIsAwaited
<1>1. IInv => LoadingIsAwaited
  BY DEF IInv
<1> QED  BY <1>1, InvHolds, PTL

================================================================================
