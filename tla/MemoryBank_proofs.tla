--------------------------- MODULE MemoryBank_proofs ---------------------------
(***************************************************************************)
(* Proofs about MemoryBank, for any number of memories, ingestions and     *)
(* candidates.                                                             *)
(*                                                                         *)
(* An ingestion that awaits the merge LLM will write a copy of a memory,   *)
(* as old as its question.  The argument is that such a copy still fits    *)
(* (CopiesFit) when it is written: its links were links of the memory, so  *)
(* they lead to memories that were stored, and those link back unless they *)
(* have been written from an outdated copy themselves.  It counts no more  *)
(* uses than there were, and the texts it lacks are noted as overwritten.  *)
(***************************************************************************)
EXTENDS MemoryBank, TLAPS

StoreTypes ==
    /\ stored \in SUBSET Texts
    /\ item \in [Texts -> Items]
    /\ written \in SUBSET Texts
    /\ retrieved \in [Texts -> Nat]
    /\ deleted \in SUBSET Texts
    /\ stale \in SUBSET Texts
    /\ taken \in SUBSET Texts
    /\ gone \in SUBSET Texts
    /\ overwritten \in SUBSET Texts

TaskTypes ==
    /\ phase \in [Ingestions -> {"thinking", "integrating", "ended"}]
    /\ pending \in [Ingestions -> SUBSET Texts]
    /\ calls \in SUBSET Calls
    /\ turn \in Ingestions \cup {Nobody}

\* What the bank keeps about the memories.
Kept ==
    /\ StoreTypes
    /\ stored \cup deleted \subseteq written
    /\ \A i \in Texts \ stored : retrieved[i] = 0
    /\ LinksSymmetric
    /\ LinksPointToMemories
    /\ UsesCounted
    /\ DeletedStaysDeleted
    /\ TextsAccountedFor

\* What it keeps about the ingestions.
Orderly ==
    /\ TaskTypes
    /\ \A p \in Ingestions : pending[p] \subseteq written \ (stored \cup deleted)
    /\ \A p, q \in Ingestions : p # q => pending[p] \cap pending[q] = {}
    /\ \A call \in calls :
          /\ call.candidate \in written \ (stored \cup deleted)
          /\ \A p \in Ingestions : call.candidate \notin pending[p]
    /\ \A call, other \in calls : call # other => call.candidate # other.candidate
    /\ TurnIsFree

LEMMA Parts == IInv <=> Kept /\ Orderly /\ CopiesFit
BY DEF IInv, TypeOK, StoreTypes, TaskTypes, Kept, Orderly, CandidatesAreNew

NewCandidate(c) == c \in written \ (stored \cup deleted)

-------------------------------------------------------------------------------
\* What a write does to the memories and to the copies that are held of them.

LEMMA NewItemType ==
    ASSUME NEW texts \in SUBSET Texts, NEW related \in SUBSET Texts
    PROVE  NewItem(texts, related) \in Items
BY BoundsAssumption DEF NewItem, Items

\* The current memory is a copy that fits.
LEMMA CurrentFits ==
    ASSUME Kept, NEW e \in stored
    PROVE  item[e] \in Items /\ CopyFits(e, item[e])
BY DEF Kept, StoreTypes, CopyFits, LinksSymmetric, LinksPointToMemories, UsesCounted

\* The candidate becomes a memory of its own without links.
LEMMA InsertKeeps ==
    ASSUME Kept, NEW c \in Texts, c \notin stored \cup deleted,
           stored' = stored \cup {c},
           item' = [item EXCEPT ![c] = NewItem({c}, {})],
           taken' = taken \cup {c},
           written' = written \cup {c},
           UNCHANGED <<retrieved, deleted, stale, gone, overwritten>>
    PROVE  /\ Kept'
           /\ \A t \in Texts, r \in Items : CopyFits(t, r) => CopyFits(t, r)'
<1> DEFINE new == NewItem({c}, {})
<1> USE DEF Kept, StoreTypes
<1>1. new \in Items /\ new.text = {c} /\ new.uses = 0 /\ new.related = {}
  BY NewItemType DEF NewItem
<1>2. item' \in [Texts -> Items] /\ item'[c] = new
  BY <1>1
<1>3. \A i \in Texts : i # c => item'[i] = item[i]
  BY <1>1
<1> HIDE DEF new
<1>4. StoreTypes' /\ (stored \cup deleted \subseteq written)'
  BY <1>2
<1>5. LinksSymmetric'
  BY <1>1, <1>2, <1>3 DEF LinksSymmetric, LinksPointToMemories
<1>6. LinksPointToMemories'
  BY <1>1, <1>2, <1>3 DEF LinksPointToMemories
<1>7. UsesCounted' /\ (\A i \in Texts \ stored : retrieved[i] = 0)'
  BY <1>1, <1>2, <1>3 DEF UsesCounted
<1>8. DeletedStaysDeleted'
  BY DEF DeletedStaysDeleted
<1>9. TextsAccountedFor'
  <2>1. Told \cup {c} \subseteq Told'
    BY <1>1, <1>2, <1>3 DEF Told
  <2> QED  BY <2>1 DEF TextsAccountedFor
<1>10. \A t \in Texts, r \in Items : CopyFits(t, r) => CopyFits(t, r)'
  BY <1>3 DEF CopyFits
<1> QED  BY <1>4, <1>5, <1>6, <1>7, <1>8, <1>9, <1>10

\* _link, with a copy of the memory that may be outdated.
LEMMA LinkKeeps ==
    ASSUME Kept, NEW c \in Texts, NewCandidate(c), NEW e \in Texts, NEW copy \in Items,
           CopyFits(e, copy), Link(c, e, copy)
    PROVE  /\ Kept'
           /\ \A t \in Texts, r \in Items : CopyFits(t, r) => CopyFits(t, r)'
<1> DEFINE new == NewItem({c}, {e})
           linked == [copy EXCEPT !.related = @ \cup {c}]
<1> USE DEF Kept, StoreTypes
<1>1. new \in Items /\ new.text = {c} /\ new.uses = 0 /\ new.related = {e}
  BY NewItemType DEF NewItem
<1>2. /\ linked \in Items /\ linked.text = copy.text /\ linked.uses = copy.uses
      /\ linked.related = copy.related \cup {c}
  BY DEF Items
<1>3. c \notin stored \cup deleted /\ e # c /\ c \in written
  BY DEF NewCandidate, CopyFits
<1>4. /\ item' \in [Texts -> Items]
      /\ item'[c] = new
      /\ \A i \in Texts : i \notin {c, e} => item'[i] = item[i]
      /\ item'[e] = IF e \in stored THEN linked ELSE item[e]
  BY <1>1, <1>2, <1>3, SMTT(20) DEF Link
<1> HIDE DEF new, linked
<1>5. /\ stored' = stored \cup {c} /\ taken' = taken \cup {c}
      /\ UNCHANGED <<written, retrieved, deleted, gone>>
  BY DEF Link
<1>6. /\ stale \subseteq stale' /\ stale' \subseteq stale \cup {e}
      /\ e \in stored /\ e \notin stale' => copy = item[e] /\ stale' = stale
      /\ overwritten' = overwritten \cup (IF e \in stored THEN item[e].text \ copy.text
                                                        ELSE {})
  BY DEF Link, WriteOver
<1>7. StoreTypes' /\ (stored \cup deleted \subseteq written)'
  <2>1. item[e].text \subseteq Texts
    BY DEF Items
  <2> QED  BY <2>1, <1>3, <1>4, <1>5, <1>6
<1>8. LinksSymmetric'
  <2> SUFFICES ASSUME NEW i \in stored', NEW j \in stored', j \in item'[i].related
               PROVE  i \in item'[j].related \/ j \in stale'
    BY DEF LinksSymmetric
  <2>1. CASE i = c
    BY <2>1, <1>1, <1>2, <1>3, <1>4, <1>5
  <2>2. CASE i # c /\ j = c
    <3>1. i = e
      BY <2>2, <1>3, <1>4, <1>5 DEF LinksPointToMemories
    <3> QED  BY <3>1, <2>2, <1>1, <1>4
  <2>3. CASE i # c /\ j # c /\ i = e
    BY <2>3, <1>2, <1>3, <1>4, <1>5, <1>6 DEF CopyFits
  <2>4. CASE i # c /\ j # c /\ i # e
    BY <2>4, <1>2, <1>3, <1>4, <1>5, <1>6 DEF LinksSymmetric
  <2> QED  BY <2>1, <2>2, <2>3, <2>4
<1>9. LinksPointToMemories'
  BY <1>1, <1>2, <1>3, <1>4, <1>5 DEF LinksPointToMemories, CopyFits
<1>10. UsesCounted' /\ (\A i \in Texts \ stored : retrieved[i] = 0)'
  BY <1>1, <1>2, <1>3, <1>4, <1>5, <1>6 DEF UsesCounted, CopyFits
<1>11. DeletedStaysDeleted'
  BY <1>3, <1>5 DEF DeletedStaysDeleted
<1>12. TextsAccountedFor'
  <2>1. Told \subseteq Told' \cup overwritten'
    <3> SUFFICES ASSUME NEW i \in stored
                 PROVE  item[i].text \subseteq item'[i].text \cup overwritten'
      BY <1>5 DEF Told
    <3> QED  BY <1>2, <1>3, <1>4, <1>6
  <2>2. c \in Told'
    BY <1>1, <1>4, <1>5 DEF Told
  <2>3. overwritten \subseteq overwritten'
    BY <1>6
  <2> QED  BY <2>1, <2>2, <2>3, <1>5 DEF TextsAccountedFor
<1>13. ASSUME NEW t \in Texts, NEW r \in Items, CopyFits(t, r)
       PROVE  CopyFits(t, r)'
  BY <1>13, <1>2, <1>3, <1>4, <1>5, <1>6 DEF CopyFits
<1> QED  BY <1>7, <1>8, <1>9, <1>10, <1>11, <1>12, <1>13

\* update, with a copy of the memory that may be outdated.
LEMMA UpdateKeeps ==
    ASSUME Kept, NEW c \in Texts, NEW e \in Texts, NEW copy \in Items,
           CopyFits(e, copy), NEW texts \in SUBSET Texts,
           c \in texts \/ texts = copy.text,
           Update(c, e, copy, texts)
    PROVE  /\ Kept' /\ UNCHANGED <<stored, deleted, written>>
           /\ \A t \in Texts, r \in Items : CopyFits(t, r) => CopyFits(t, r)'
<1> DEFINE new == [copy EXCEPT !.text = texts]
<1> USE DEF Kept, StoreTypes
<1>1. CASE e \notin stored
  <2>1. UNCHANGED <<stored, item, written, retrieved, deleted, historyVars>>
    BY <1>1 DEF Update, historyVars
  <2> QED
    BY <2>1 DEF historyVars, LinksSymmetric, LinksPointToMemories, UsesCounted,
                DeletedStaysDeleted, TextsAccountedFor, Told, CopyFits
<1>2. CASE e \in stored
  <2>1. /\ new \in Items /\ new.text = texts /\ new.uses = copy.uses
        /\ new.related = copy.related
    BY DEF Items
  <2>2. /\ item' \in [Texts -> Items] /\ item'[e] = new
        /\ \A i \in Texts : i # e => item'[i] = item[i]
    BY <2>1, <1>2 DEF Update
  <2> HIDE DEF new
  <2>3. /\ taken' = taken \cup {c} /\ gone' = gone \cup ((copy.text \cup {c}) \ texts)
        /\ UNCHANGED <<stored, written, retrieved, deleted>>
    BY <1>2 DEF Update
  <2>4. /\ stale \subseteq stale' /\ stale' \subseteq stale \cup {e}
        /\ e \notin stale' => copy = item[e] /\ stale' = stale
        /\ overwritten' = overwritten \cup (item[e].text \ copy.text)
    BY <1>2 DEF Update, WriteOver
  <2>5. copy.text \subseteq Texts /\ item[e].text \subseteq Texts
    BY DEF Items
  <2>12. StoreTypes' /\ (stored \cup deleted \subseteq written)'
    BY <2>2, <2>3, <2>4, <2>5
  <2>6. LinksSymmetric'
    BY <2>1, <2>2, <2>3, <2>4 DEF LinksSymmetric, CopyFits
  <2>7. LinksPointToMemories'
    BY <2>1, <2>2, <2>3 DEF LinksPointToMemories, CopyFits
  <2>8. UsesCounted' /\ (\A i \in Texts \ stored : retrieved[i] = 0)'
    BY <2>1, <2>2, <2>3, <2>4, <1>2 DEF UsesCounted, CopyFits
  <2>9. DeletedStaysDeleted'
    BY <2>3 DEF DeletedStaysDeleted
  <2>10. TextsAccountedFor'
    <3>1. item[e].text \cup {c} \subseteq texts \cup gone' \cup overwritten'
      BY <2>3, <2>4
    <3>2. \A i \in stored :
             item[i].text \subseteq item'[i].text \cup gone' \cup overwritten'
      BY <3>1, <2>1, <2>2
    <3>3. texts \subseteq Told' /\ Told \subseteq Told' \cup gone' \cup overwritten'
      BY <3>2, <1>2, <2>1, <2>2, <2>3 DEF Told
    <3>4. gone \subseteq gone' /\ overwritten \subseteq overwritten'
      BY <2>3, <2>4
    <3> QED  BY <3>1, <3>3, <3>4, <2>3 DEF TextsAccountedFor
  <2>11. ASSUME NEW t \in Texts, NEW r \in Items, CopyFits(t, r)
         PROVE  CopyFits(t, r)'
    BY <2>11, <2>1, <2>2, <2>3, <2>4 DEF CopyFits
  <2> QED  BY <2>3, <2>12, <2>6, <2>7, <2>8, <2>9, <2>10, <2>11
<1> QED  BY <1>1, <1>2

\* A step that writes no memory.
LEMMA StoreStays ==
    ASSUME Kept, UNCHANGED <<storeVars, historyVars>>,
           written \subseteq written', written' \subseteq Texts
    PROVE  /\ Kept'
           /\ \A t \in Texts, r \in Items : CopyFits(t, r) => CopyFits(t, r)'
BY DEF storeVars, historyVars, Kept, StoreTypes, LinksSymmetric, LinksPointToMemories,
       UsesCounted, DeletedStaysDeleted, TextsAccountedFor, Told, CopyFits

LEMMA CopiesSurvive ==
    ASSUME CopiesFit, TaskTypes, calls' \subseteq calls,
           \A t \in Texts, r \in Items : CopyFits(t, r) => CopyFits(t, r)'
    PROVE  CopiesFit'
<1>1. \A call \in calls : call.target \in Texts /\ call.copy \in Items
  BY DEF TaskTypes, Calls
<1> QED  BY <1>1 DEF CopiesFit

-------------------------------------------------------------------------------
\* The routes and the retrievals.

LEMMA RetrieveKeeps ==
    ASSUME Kept, NEW selected \in SUBSET stored, Retrieve(selected)
    PROVE  /\ Kept'
           /\ \A t \in Texts, r \in Items : CopyFits(t, r) => CopyFits(t, r)'
<1> USE DEF Kept, StoreTypes
<1>1. \A i \in selected : item[i].uses + 1 \in 0..MaxUses
  BY BoundsAssumption DEF Retrieve, Items
<1>2. /\ item' \in [Texts -> Items]
      /\ \A i \in Texts : item'[i].text = item[i].text /\ item'[i].related = item[i].related
      /\ \A i \in selected : item'[i].uses = item[i].uses + 1
      /\ \A i \in Texts \ selected : item'[i].uses = item[i].uses
  BY <1>1 DEF Retrieve, Items
<1>3. /\ retrieved' \in [Texts -> Nat]
      /\ \A i \in selected : retrieved'[i] = retrieved[i] + 1
      /\ \A i \in Texts \ selected : retrieved'[i] = retrieved[i]
      /\ UNCHANGED <<stored, written, deleted, stale, taken, gone, overwritten>>
  BY DEF Retrieve
<1>4. Told' = Told
  BY <1>2, <1>3 DEF Told
<1>5. LinksSymmetric' /\ LinksPointToMemories'
  BY <1>2, <1>3 DEF LinksSymmetric, LinksPointToMemories
<1>6. UsesCounted' /\ (\A i \in Texts \ stored : retrieved[i] = 0)'
  <2>1. \A i \in Texts : item[i].uses \in Nat /\ retrieved[i] \in Nat
    BY DEF Items
  <2> QED  BY <1>2, <1>3, <2>1 DEF UsesCounted
<1>7. DeletedStaysDeleted' /\ TextsAccountedFor'
  BY <1>3, <1>4 DEF DeletedStaysDeleted, TextsAccountedFor
<1>8. ASSUME NEW t \in Texts, NEW r \in Items, CopyFits(t, r)
      PROVE  CopyFits(t, r)'
  <2>1. retrieved[t] \in Nat /\ retrieved'[t] \in Nat /\ r.uses \in Nat
    BY <1>3 DEF Items
  <2>2. retrieved[t] <= retrieved'[t]
    BY <1>3, <2>1
  <2>3. t \in stored' => r.uses <= retrieved'[t]
    BY <1>3, <1>8, <2>1, <2>2 DEF CopyFits
  <2> QED  BY <1>2, <1>3, <1>8, <2>3 DEF CopyFits
<1> QED  BY <1>2, <1>3, <1>5, <1>6, <1>7, <1>8

LEMMA UpdateMemoryKeeps ==
    ASSUME Kept, NEW i \in stored, NEW t \in Unwritten, NEW kept \in {{}, item[i].text},
           UpdateMemory(i, t, kept)
    PROVE  /\ Kept'
           /\ \A e \in Texts, r \in Items : CopyFits(e, r) => CopyFits(e, r)'
<1> USE DEF Kept, StoreTypes
<1>1. i \in Texts /\ t \in Texts /\ item[i].text \subseteq Texts /\ kept \subseteq Texts
  BY DEF Unwritten, Items
<1>2. /\ item' \in [Texts -> Items] /\ item'[i].text = kept \cup {t}
      /\ item'[i].uses = item[i].uses /\ item'[i].related = item[i].related
      /\ \A j \in Texts : j # i => item'[j] = item[j]
  BY <1>1, SMTT(20) DEF UpdateMemory, Items
<1>3. /\ written' = written \cup {t} /\ taken' = taken \cup {t}
      /\ gone' = gone \cup (item[i].text \ kept)
      /\ UNCHANGED <<stored, retrieved, deleted, stale, overwritten>>
  BY DEF UpdateMemory
<1>4. Told \cup {t} \subseteq Told' \cup gone'
  BY <1>1, <1>2, <1>3 DEF Told
<1>5. StoreTypes' /\ (stored \cup deleted \subseteq written)'
  BY <1>1, <1>2, <1>3
<1>6. LinksSymmetric' /\ LinksPointToMemories'
  BY <1>2, <1>3 DEF LinksSymmetric, LinksPointToMemories
<1>7. UsesCounted' /\ (\A j \in Texts \ stored : retrieved[j] = 0)'
  BY <1>2, <1>3 DEF UsesCounted
<1>8. DeletedStaysDeleted' /\ TextsAccountedFor'
  BY <1>3, <1>4 DEF DeletedStaysDeleted, TextsAccountedFor
<1>9. \A e \in Texts, r \in Items : CopyFits(e, r) => CopyFits(e, r)'
  BY <1>2, <1>3 DEF CopyFits
<1> QED  BY <1>5, <1>6, <1>7, <1>8, <1>9

LEMMA DeleteKeeps ==
    ASSUME Kept, NEW i \in stored, Delete(i)
    PROVE  /\ Kept'
           /\ \A e \in Texts, r \in Items : CopyFits(e, r) => CopyFits(e, r)'
<1> USE DEF Kept, StoreTypes
<1>1. NewItem({}, {}) \in Items
  BY NewItemType
<1>2. /\ item' \in [Texts -> Items]
      /\ \A j \in Texts : j # i => item'[j] = item[j]
  BY <1>1 DEF Delete
<1>3. /\ retrieved' \in [Texts -> Nat] /\ retrieved'[i] = 0
      /\ \A j \in Texts : j # i => retrieved'[j] = retrieved[j]
      /\ stored' = stored \ {i} /\ deleted' = deleted \cup {i}
      /\ gone' = gone \cup item[i].text
      /\ UNCHANGED <<written, stale, taken, overwritten>>
  BY DEF Delete
<1>4. Told \subseteq Told' \cup gone'
  BY <1>2, <1>3 DEF Told
<1>5. item[i].text \subseteq Texts
  BY DEF Items
<1>6. StoreTypes' /\ (stored \cup deleted \subseteq written)'
  BY <1>2, <1>3, <1>5
<1>7. LinksSymmetric' /\ LinksPointToMemories'
  BY <1>2, <1>3 DEF LinksSymmetric, LinksPointToMemories
<1>8. UsesCounted' /\ (\A j \in Texts \ stored : retrieved[j] = 0)'
  BY <1>2, <1>3 DEF UsesCounted
<1>9. DeletedStaysDeleted' /\ TextsAccountedFor'
  BY <1>3, <1>4 DEF DeletedStaysDeleted, TextsAccountedFor
<1>10. \A e \in Texts, r \in Items : CopyFits(e, r) => CopyFits(e, r)'
  BY <1>2, <1>3 DEF CopyFits
<1> QED  BY <1>6, <1>7, <1>8, <1>9, <1>10

-------------------------------------------------------------------------------
\* The ingestions.

LEMMA InvInit == Init => IInv
<1> SUFFICES ASSUME Init PROVE IInv
  OBVIOUS
<1> USE DEF Init
<1>1. item \in [Texts -> Items]
  BY NewItemType
<1>2. TypeOK
  BY <1>1 DEF TypeOK
<1>3. CandidatesAreNew /\ CopiesFit
  BY DEF CandidatesAreNew, CopiesFit
<1>4. TurnIsFree
  BY DEF TurnIsFree
<1>5. LinksSymmetric /\ LinksPointToMemories /\ UsesCounted /\ DeletedStaysDeleted
      /\ TextsAccountedFor
  BY DEF LinksSymmetric, LinksPointToMemories, UsesCounted, DeletedStaysDeleted,
         TextsAccountedFor
<1> QED  BY <1>2, <1>3, <1>4, <1>5 DEF IInv

\* A candidate that is taken up is new, and nobody else has it.
LEMMA TakenIsNew ==
    ASSUME Kept, Orderly, NEW p \in Ingestions, NEW c \in pending[p]
    PROVE  /\ c \in Texts /\ NewCandidate(c)
           /\ \A q \in Ingestions : q # p => c \notin pending[q]
           /\ \A call \in calls : call.candidate # c
BY DEF Kept, StoreTypes, Orderly, TaskTypes, NewCandidate

LEMMA DistilledKeeps ==
    ASSUME IInv, NEW p \in Ingestions, NEW cs \in SUBSET Unwritten, Distilled(p, cs)
    PROVE  IInv'
<1>1. Kept /\ Orderly /\ CopiesFit
  BY Parts
<1>2. Kept' /\ CopiesFit'
  BY <1>1, StoreStays, CopiesSurvive DEF Distilled, Unwritten, Orderly, Kept, StoreTypes
<1>3. Orderly'
  <2> USE <1>1 DEF Distilled, Orderly, Kept, StoreTypes, storeVars, historyVars, Unwritten
  <2>1. TaskTypes'
    BY DEF TaskTypes
  <2>2. pending' = [pending EXCEPT ![p] = cs] /\ calls' = calls
    OBVIOUS
  <2>3. \A q \in Ingestions : pending'[q] = IF q = p THEN cs ELSE pending[q]
    BY <2>2 DEF TaskTypes
  <2>4. (\A q \in Ingestions : pending[q] \subseteq written \ (stored \cup deleted))'
    BY <2>3
  <2>5. (\A q, o \in Ingestions : q # o => pending[q] \cap pending[o] = {})'
    BY <2>3
  <2>6. (\A call \in calls :
            /\ call.candidate \in written \ (stored \cup deleted)
            /\ \A q \in Ingestions : call.candidate \notin pending[q])'
    BY <2>2, <2>3
  <2>7. TurnIsFree'
    BY DEF TurnIsFree, TaskTypes
  <2> QED  BY <2>1, <2>2, <2>4, <2>5, <2>6, <2>7
<1> QED  BY <1>2, <1>3, Parts, PTL

\* A candidate is integrated without waiting.
LEMMA TakeIsOrderly ==
    ASSUME Kept, Orderly, NEW p \in Ingestions, NEW c \in pending[p], Take(p, c),
           stored' \subseteq stored \cup {c}, deleted' = deleted, written' = written
    PROVE  Orderly'
<1> USE DEF Take, Orderly, TaskTypes
<1>1. TaskTypes'
  OBVIOUS
<1>2. \A q \in Ingestions : pending'[q] = IF q = p THEN pending[p] \ {c} ELSE pending[q]
  OBVIOUS
<1>3. (\A q \in Ingestions : pending[q] \subseteq written \ (stored \cup deleted))'
  BY <1>2, TakenIsNew
<1>4. (\A q, o \in Ingestions : q # o => pending[q] \cap pending[o] = {})'
  BY <1>2
<1>5. (\A call \in calls :
          /\ call.candidate \in written \ (stored \cup deleted)
          /\ \A q \in Ingestions : call.candidate \notin pending[q])'
  BY <1>2, TakenIsNew
<1>6. TurnIsFree'
  BY DEF TurnIsFree
<1> QED  BY <1>1, <1>3, <1>4, <1>5, <1>6

LEMMA IntegrateKeeps ==
    ASSUME IInv, NEW p \in Ingestions, NEW c \in pending[p],
           \/ Insert(p, c)
           \/ \E e \in stored : LinkNear(p, c, e) \/ ReplaceNear(p, c, e)
    PROVE  IInv'
<1>1. Kept /\ Orderly /\ CopiesFit
  BY Parts
<1>2. c \in Texts /\ NewCandidate(c) /\ c \notin stored \cup deleted /\ c \in written
  BY <1>1, TakenIsNew DEF NewCandidate
<1>3. Take(p, c)
  BY DEF Insert, LinkNear, ReplaceNear
<1>4. /\ Kept'
      /\ \A t \in Texts, r \in Items : CopyFits(t, r) => CopyFits(t, r)'
      /\ stored' \subseteq stored \cup {c} /\ deleted' = deleted /\ written' = written
  <2>1. CASE Insert(p, c)
    <3>1. written' = written \cup {c}
      BY <2>1, <1>2 DEF Insert
    <3> QED  BY <2>1, <3>1, <1>1, <1>2, InsertKeeps DEF Insert
  <2>2. ASSUME NEW e \in stored, LinkNear(p, c, e)
        PROVE  <1>4!1 /\ <1>4!2 /\ <1>4!3
    <3>1. e \in Texts /\ item[e] \in Items /\ CopyFits(e, item[e]) /\ Link(c, e, item[e])
      BY <2>2, <1>1, CurrentFits DEF Kept, StoreTypes, LinkNear
    <3> QED  BY <3>1, <1>1, <1>2, LinkKeeps DEF Link
  <2>3. ASSUME NEW e \in stored, ReplaceNear(p, c, e)
        PROVE  <1>4!1 /\ <1>4!2 /\ <1>4!3
    <3>1. e \in Texts /\ item[e] \in Items /\ CopyFits(e, item[e])
          /\ Update(c, e, item[e], {c})
      BY <2>3, <1>1, CurrentFits DEF Kept, StoreTypes, ReplaceNear
    <3> QED  BY <3>1, <1>1, <1>2, UpdateKeeps
  <2> QED  BY <2>1, <2>2, <2>3
<1>5. Orderly'
  BY <1>1, <1>3, <1>4, TakeIsOrderly
<1>6. CopiesFit'
  BY <1>1, <1>3, <1>4, CopiesSurvive DEF Take, Orderly
<1> QED  BY <1>4, <1>5, <1>6, Parts, PTL

LEMMA AskMergeKeeps ==
    ASSUME IInv, NEW p \in Ingestions, NEW c \in pending[p], NEW e \in stored,
           AskMerge(p, c, e)
    PROVE  IInv'
<1> DEFINE asked == [by |-> p, target |-> e, copy |-> item[e], candidate |-> c]
<1>1. Kept /\ Orderly /\ CopiesFit
  BY Parts
<1>2. /\ c \in Texts /\ NewCandidate(c)
      /\ \A q \in Ingestions : q # p => c \notin pending[q]
      /\ \A call \in calls : call.candidate # c
  BY <1>1, TakenIsNew
<1>3. e \in Texts /\ item[e] \in Items /\ CopyFits(e, item[e]) /\ asked \in Calls
  BY <1>1, <1>2, CurrentFits DEF Kept, StoreTypes, Calls
<1>4. asked.by = p /\ asked.target = e /\ asked.copy = item[e] /\ asked.candidate = c
  OBVIOUS
<1>5. calls' = calls \cup {asked}
  BY DEF AskMerge
<1> HIDE DEF asked
<1>6. Kept' /\ (\A t \in Texts, r \in Items : CopyFits(t, r) => CopyFits(t, r)')
  BY <1>1, StoreStays DEF AskMerge, Kept, StoreTypes
<1>7. CopiesFit'
  <2> SUFFICES ASSUME NEW call \in calls' PROVE CopyFits(call.target, call.copy)'
    BY DEF CopiesFit
  <2>1. CASE call = asked
    BY <2>1, <1>3, <1>4, <1>6
  <2>2. CASE call \in calls
    BY <2>2, <1>1, <1>6 DEF CopiesFit, Orderly, TaskTypes, Calls
  <2> QED  BY <2>1, <2>2, <1>5
<1>8. Orderly'
  <2> USE <1>1 DEF Orderly, AskMerge, storeVars, historyVars
  <2>1. TaskTypes'
    BY <1>3, <1>5 DEF TaskTypes
  <2>2. \A q \in Ingestions : pending'[q] = IF q = p THEN pending[p] \ {c} ELSE pending[q]
    BY DEF TaskTypes
  <2>3. (\A q \in Ingestions : pending[q] \subseteq written \ (stored \cup deleted))'
    BY <2>2
  <2>4. (\A q, o \in Ingestions : q # o => pending[q] \cap pending[o] = {})'
    BY <2>2
  <2>5. (\A call \in calls :
            /\ call.candidate \in written \ (stored \cup deleted)
            /\ \A q \in Ingestions : call.candidate \notin pending[q])'
    BY <1>2, <1>4, <1>5, <2>2 DEF NewCandidate
  <2>6. (\A call, other \in calls : call # other => call.candidate # other.candidate)'
    BY <1>2, <1>4, <1>5
  <2>7. TurnIsFree'
    <3>1. phase[p] = "integrating" /\ \A call \in calls : call.by # p
      BY NobodyAssumption DEF TurnIsFree
    <3>2. p # Nobody
      BY NobodyAssumption
    <3> QED  BY <3>1, <3>2, <1>4, <1>5, NobodyAssumption DEF TurnIsFree, TaskTypes, Calls
  <2> QED  BY <2>1, <2>3, <2>4, <2>5, <2>6, <2>7
<1> QED  BY <1>6, <1>7, <1>8, Parts, PTL

LEMMA EndsKeep ==
    ASSUME IInv, NEW p \in Ingestions, Fail(p) \/ Finish(p)
    PROVE  IInv'
<1>1. Kept /\ Orderly /\ CopiesFit
  BY Parts
<1>2. UNCHANGED <<storeVars, historyVars, written>> /\ calls' \subseteq calls
  BY DEF Fail, Finish, historyVars
<1>3. Kept' /\ CopiesFit'
  BY <1>1, <1>2, StoreStays, CopiesSurvive DEF Kept, StoreTypes, Orderly
<1>4. Orderly'
  <2> USE <1>1, <1>2 DEF Orderly, storeVars, historyVars
  <2>1. TaskTypes'
    BY DEF Fail, Finish, TaskTypes
  <2>2. \A q \in Ingestions : pending'[q] \subseteq pending[q]
    BY DEF Fail, Finish, TaskTypes
  <2>3. TurnIsFree'
    BY NobodyAssumption DEF Fail, Finish, TurnIsFree, TaskTypes, Calls
  <2>4. UNCHANGED <<written, stored, deleted>>
    OBVIOUS
  <2> QED  BY <2>1, <2>2, <2>3, <2>4
<1> QED  BY <1>3, <1>4, Parts, PTL

LEMMA AnswerKeeps ==
    ASSUME IInv, NEW call \in calls, Answer(call)
    PROVE  IInv'
<1> DEFINE c == call.candidate
           e == call.target
           copy == call.copy
<1>1. Kept /\ Orderly /\ CopiesFit
  BY Parts
<1>2. /\ c \in Texts /\ NewCandidate(c) /\ e \in Texts /\ copy \in Items
      /\ CopyFits(e, copy) /\ copy.text \in SUBSET Texts
  BY <1>1 DEF Orderly, TaskTypes, Calls, CopiesFit, NewCandidate, Items
<1>3. GoOn(call)
  BY DEF Answer, AnswerMerge, AnswerReplace, AnswerKeepBoth
<1>4. /\ Kept'
      /\ \A t \in Texts, r \in Items : CopyFits(t, r) => CopyFits(t, r)'
      /\ stored' \subseteq stored \cup {c} /\ deleted' = deleted /\ written' = written
  <2>1. ASSUME NEW texts \in SUBSET Texts, c \in texts \/ texts = copy.text,
               Update(c, e, copy, texts)
        PROVE  <1>4!1 /\ <1>4!2 /\ <1>4!3
    BY <2>1, <1>1, <1>2, UpdateKeeps
  <2>2. CASE AnswerMerge(call, copy.text \cup {c})
    BY <2>1, <2>2, <1>2 DEF AnswerMerge
  <2>3. CASE AnswerMerge(call, copy.text)
    BY <2>1, <2>3, <1>2 DEF AnswerMerge
  <2>4. CASE AnswerReplace(call)
    BY <2>1, <2>4, <1>2 DEF AnswerReplace
  <2>5. CASE AnswerKeepBoth(call)
    BY <2>5, <1>1, <1>2, LinkKeeps DEF AnswerKeepBoth, Link
  <2> QED  BY <2>2, <2>3, <2>4, <2>5 DEF Answer
<1>5. CopiesFit'
  BY <1>1, <1>3, <1>4, CopiesSurvive DEF GoOn, Orderly
<1>6. Orderly'
  <2> USE <1>1, <1>3, <1>4 DEF Orderly, GoOn
  <2>1. TaskTypes'
    BY DEF TaskTypes, Calls
  <2>2. \A q \in Ingestions : pending'[q] \subseteq pending[q] /\ c \notin pending[q]
    BY DEF TaskTypes
  <2>3. calls' = calls \ {call}
    OBVIOUS
  <2>4. \A other \in calls' : other.candidate # c
    BY <2>3
  <2>5. (\A q \in Ingestions : pending[q] \subseteq written \ (stored \cup deleted))'
    BY <2>2
  <2>6. (\A q, o \in Ingestions : q # o => pending[q] \cap pending[o] = {})'
    BY <2>2
  <2>7. (\A other \in calls :
            /\ other.candidate \in written \ (stored \cup deleted)
            /\ \A q \in Ingestions : other.candidate \notin pending[q])'
    BY <2>2, <2>3, <2>4
  <2>8. TurnIsFree'
    BY DEF TurnIsFree, TaskTypes, Calls
  <2> QED  BY <2>1, <2>3, <2>5, <2>6, <2>7, <2>8
<1> QED  BY <1>4, <1>5, <1>6, Parts, PTL

LEMMA ServeKeeps ==
    ASSUME IInv, Serve
    PROVE  IInv'
<1>1. Kept /\ Orderly /\ CopiesFit
  BY Parts
<1>2. /\ Kept'
      /\ \A t \in Texts, r \in Items : CopyFits(t, r) => CopyFits(t, r)'
      /\ UNCHANGED taskVars
      /\ written \subseteq written'
      /\ (stored \cup deleted)' \subseteq stored \cup deleted \cup (written' \ written)
  <2>1. ASSUME NEW selected \in SUBSET stored, Retrieve(selected)
        PROVE  <1>2!1 /\ <1>2!2 /\ <1>2!3 /\ <1>2!4 /\ <1>2!5
    BY <2>1, <1>1, RetrieveKeeps DEF Retrieve
  <2>2. ASSUME NEW c \in Unwritten, AddManual(c)
        PROVE  <1>2!1 /\ <1>2!2 /\ <1>2!3 /\ <1>2!4 /\ <1>2!5
    <3>1. c \in Texts /\ c \notin stored \cup deleted /\ c \notin written
      BY <1>1 DEF Unwritten, Kept
    <3> QED  BY <2>2, <3>1, <1>1, InsertKeeps DEF AddManual
  <2>3. ASSUME NEW i \in stored, NEW t \in Unwritten, NEW kept \in {{}, item[i].text},
               UpdateMemory(i, t, kept)
        PROVE  <1>2!1 /\ <1>2!2 /\ <1>2!3 /\ <1>2!4 /\ <1>2!5
    BY <2>3, <1>1, UpdateMemoryKeeps DEF UpdateMemory
  <2>4. ASSUME NEW i \in stored, Delete(i)
        PROVE  <1>2!1 /\ <1>2!2 /\ <1>2!3 /\ <1>2!4 /\ <1>2!5
    BY <2>4, <1>1, DeleteKeeps DEF Delete
  <2> QED  BY <2>1, <2>2, <2>3, <2>4 DEF Serve
<1>3. CopiesFit'
  BY <1>1, <1>2, CopiesSurvive DEF taskVars, Orderly
<1>4. Orderly'
  BY <1>1, <1>2 DEF Orderly, taskVars, TaskTypes, TurnIsFree
<1> QED  BY <1>2, <1>3, <1>4, Parts, PTL

-------------------------------------------------------------------------------
\* The invariant of the bank is closed under every step.
THEOREM InductiveInvariant == Spec => []IInv
<1>1. IInv /\ [Next]_vars => IInv'
  <2> SUFFICES ASSUME IInv, [Next]_vars PROVE IInv'
    OBVIOUS
  <2>1. ASSUME NEW p \in Ingestions, Ingest(p) PROVE IInv'
    BY <2>1, DistilledKeeps, IntegrateKeeps, AskMergeKeeps, EndsKeep DEF Ingest, Integrate
  <2>2. CASE UNCHANGED vars
    <3>1. Kept /\ Orderly /\ CopiesFit
      BY Parts
    <3>2. UNCHANGED <<storeVars, historyVars, taskVars, written>>
      BY <2>2 DEF vars, storeVars, historyVars, taskVars
    <3>3. Kept' /\ CopiesFit'
      BY <3>1, <3>2, StoreStays, CopiesSurvive DEF taskVars, Kept, StoreTypes, Orderly
    <3>4. Orderly'
      BY <3>1, <3>2 DEF Orderly, taskVars, storeVars, historyVars, TaskTypes, TurnIsFree
    <3> QED  BY <3>3, <3>4, Parts, PTL
  <2> QED  BY <2>1, <2>2, AnswerKeeps, ServeKeeps DEF Next, Idle
<1> QED  BY <1>1, InvInit, PTL DEF Spec

\* Every variable of the bank keeps its type.
THEOREM TypeCorrect == Spec => []TypeOK
<1>1. IInv => TypeOK
  BY DEF IInv
<1> QED  BY <1>1, InductiveInvariant, PTL

\* A link between two memories goes both ways, unless the one that lacks it was
\* written back from an outdated copy, and leads to a memory that is, or was, in
\* the store.
THEOREM LinksAreSound == Spec => []LinksSound
<1>1. IInv => LinksSound
  BY DEF IInv, LinksSound
<1> QED  BY <1>1, InductiveInvariant, PTL

\* Ingestions do not bring back a memory that a user has deleted.  A memory counts
\* no retrieval twice and, unless it was written back from an outdated copy, every
\* one; and a text is lost only if somebody who had seen it left it out, or if it
\* came into a memory between the merge LLM's question about that memory and the
\* write-back of the answer.
THEOREM EditsOutliveIngestions == Spec => []EditsSurvive
<1>1. IInv => EditsSurvive
  BY DEF IInv, EditsSurvive
<1> QED  BY <1>1, InductiveInvariant, PTL
===============================================================================
