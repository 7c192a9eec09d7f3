------------------------------ MODULE MemoryBank ------------------------------
(***************************************************************************)
(* A memory store with the ReasoningBanks over it                          *)
(* (src/fleet/memory/bank.py, merge.py, retrieval.py), the tasks that      *)
(* ingest trajectories, the agents that retrieve and the memory routes of  *)
(* the server (src/fleet/server/memory_routes.py).                         *)
(*                                                                         *)
(* Everything runs on one event loop, and nothing but an LLM call ever     *)
(* suspends: an ingestion holds the loop (turn) from the answer of one LLM *)
(* call to the next.  A memory is named by its id, and that name stands    *)
(* for the text it was created with as well; the text of a memory is the   *)
(* set of the texts that went into it.  Which memory is nearest to a       *)
(* candidate, and how near, is left open (module MemoryStore has the       *)
(* search), and so is what a retrieval selects; scopes, confidences and    *)
(* embeddings, which decide both, are left out.                            *)
(***************************************************************************)
EXTENDS Naturals, FiniteSets

CONSTANTS
    Texts,          \* names of memories, and of the texts inducers and users write
    Ingestions,     \* calls of ingest_trajectory and matts_run
    NoInducer,      \* those of them on a bank without induction_llm
    Nobody,         \* no ingestion
    MaxCandidates,  \* candidates of a trajectory: payload[:3]
    MaxRetrieved,   \* memories a retrieval returns: its k
    MaxUses         \* bound on the use_count of a memory

ASSUME NoInducerAssumption == NoInducer \subseteq Ingestions
ASSUME NobodyAssumption == Nobody \notin Ingestions
ASSUME BoundsAssumption == MaxCandidates \in Nat /\ MaxRetrieved \in Nat /\ MaxUses \in Nat

VARIABLES
    stored,     \* ids the store holds
    item,       \* per id: the MemoryItem
    phase,      \* per ingestion: how far it has come
    pending,    \* per ingestion: candidates it has still to integrate
    calls,      \* calls of the merge LLM under way, with the item each was given
    turn,       \* the ingestion that holds the event loop
    written,    \* texts that exist
    retrieved,  \* history: how often each memory was retrieved
    deleted,    \* history: ids that were deleted
    stale,      \* history: ids a memory was written under from an outdated copy
    taken,      \* history: texts the bank has taken in
    gone,       \* history: texts a user or the merge LLM has left out
    overwritten \* history: texts an outdated copy lacked when it was written back

vars == <<stored, item, phase, pending, calls, turn, written, retrieved, deleted, stale,
          taken, gone, overwritten>>
storeVars == <<stored, item>>
taskVars == <<phase, pending, calls, turn>>
historyVars == <<retrieved, deleted, stale, taken, gone, overwritten>>

Items == [text : SUBSET Texts, uses : 0..MaxUses, related : SUBSET Texts]
Calls == [by : Ingestions, target : Texts, copy : Items, candidate : Texts]

NewItem(texts, related) == [text |-> texts, uses |-> 0, related |-> related]

TypeOK ==
    /\ stored \in SUBSET Texts
    /\ item \in [Texts -> Items]
    /\ phase \in [Ingestions -> {"thinking", "integrating", "ended"}]
    /\ pending \in [Ingestions -> SUBSET Texts]
    /\ calls \in SUBSET Calls
    /\ turn \in Ingestions \cup {Nobody}
    /\ written \in SUBSET Texts
    /\ retrieved \in [Texts -> Nat]
    /\ deleted \in SUBSET Texts
    /\ stale \in SUBSET Texts
    /\ taken \in SUBSET Texts
    /\ gone \in SUBSET Texts
    /\ overwritten \in SUBSET Texts

\* The bank is empty, and every ingestion awaits its judge or its inducer.
Init ==
    /\ stored = {}
    /\ item = [i \in Texts |-> NewItem({}, {})]
    /\ phase = [p \in Ingestions |-> "thinking"]
    /\ pending = [p \in Ingestions |-> {}]
    /\ calls = {}
    /\ turn = Nobody
    /\ written = {}
    /\ retrieved = [i \in Texts |-> 0]
    /\ deleted = {}
    /\ stale = {}
    /\ taken = {}
    /\ gone = {}
    /\ overwritten = {}

Unwritten == Texts \ written

-------------------------------------------------------------------------------
\* Writing to the store.

\* What the write-back of `copy` over a memory does to the memory's history.
WriteOver(i, copy) ==
    /\ stale' = IF copy # item[i] THEN stale \cup {i} ELSE stale
    /\ overwritten' = overwritten \cup (item[i].text \ copy.text)

\* _link: the candidate is added, then the memory it resembles is written back.
Link_OneWay(c, e, copy) ==
    /\ stored' = stored \cup {c}
    /\ item' = [item EXCEPT ![c] = NewItem({c}, {e})]
    /\ UNCHANGED <<stale, overwritten>>
    /\ taken' = taken \cup {c}
    /\ UNCHANGED <<written, retrieved, deleted, gone>>

Link(c, e, copy) ==
    /\ stored' = stored \cup {c}
    /\ IF e \in stored
         THEN /\ item' = [item EXCEPT ![c] = NewItem({c}, {e}),
                                      ![e] = [copy EXCEPT !.related = @ \cup {c}]]
              /\ WriteOver(e, copy)
         ELSE /\ item' = [item EXCEPT ![c] = NewItem({c}, {e})]
              /\ UNCHANGED <<stale, overwritten>>
    /\ taken' = taken \cup {c}
    /\ UNCHANGED <<written, retrieved, deleted, gone>>

\* update: a memory that is no longer there is a KeyError.
Update_Upserts(c, e, copy, texts) ==
    /\ stored' = stored \cup {e}
    /\ item' = [item EXCEPT ![e] = [copy EXCEPT !.text = texts]]
    /\ WriteOver(e, copy)
    /\ taken' = taken \cup {c}
    /\ gone' = gone \cup ((copy.text \cup {c}) \ texts)
    /\ UNCHANGED <<written, retrieved, deleted>>

Update_CountsUse(c, e, copy, texts) ==
    /\ UNCHANGED stored
    /\ IF e \in stored
         THEN /\ item' = [item EXCEPT ![e] = [copy EXCEPT !.text = texts, !.uses = @ + 1]]
              /\ WriteOver(e, copy)
              /\ taken' = taken \cup {c}
              /\ gone' = gone \cup ((copy.text \cup {c}) \ texts)
         ELSE UNCHANGED <<item, stale, taken, gone, overwritten>>
    /\ UNCHANGED <<written, retrieved, deleted>>

Update(c, e, copy, texts) ==
    /\ UNCHANGED stored
    /\ IF e \in stored
         THEN /\ item' = [item EXCEPT ![e] = [copy EXCEPT !.text = texts]]
              /\ WriteOver(e, copy)
              /\ taken' = taken \cup {c}
              /\ gone' = gone \cup ((copy.text \cup {c}) \ texts)
         ELSE UNCHANGED <<item, stale, taken, gone, overwritten>>
    /\ UNCHANGED <<written, retrieved, deleted>>

-------------------------------------------------------------------------------
\* Ingestion.

\* The inducer (or the contrast LLM) answers, with any number of candidates.
Distilled(p, cs) ==
    /\ turn = Nobody
    /\ phase[p] = "thinking"
    /\ Cardinality(cs) <= MaxCandidates
    /\ phase' = [phase EXCEPT ![p] = "integrating"]
    /\ pending' = [pending EXCEPT ![p] = cs]
    /\ written' = written \cup cs
    /\ turn' = p
    /\ UNCHANGED <<storeVars, calls, historyVars>>

\* integrate_candidate takes up candidate c without having to wait.
Take(p, c) ==
    /\ turn = p
    /\ c \in pending[p]
    /\ pending' = [pending EXCEPT ![p] = @ \ {c}]
    /\ UNCHANGED <<phase, calls, turn>>

\* No neighbour, or none with sim > link_thr.
Insert(p, c) ==
    /\ Take(p, c)
    /\ stored' = stored \cup {c}
    /\ item' = [item EXCEPT ![c] = NewItem({c}, {})]
    /\ taken' = taken \cup {c}
    /\ UNCHANGED <<written, retrieved, deleted, stale, gone, overwritten>>

\* link_thr < sim <= merge_thr.
LinkNear(p, c, e) ==
    /\ Take(p, c)
    /\ Link(c, e, item[e])

\* sim > merge_thr, and no LLM to ask: replace.
ReplaceNear(p, c, e) ==
    /\ p \in NoInducer
    /\ Take(p, c)
    /\ Update(c, e, item[e], {c})

\* sim > merge_thr: ask the merge LLM, and wait.
AskMerge(p, c, e) ==
    /\ p \notin NoInducer
    /\ turn = p
    /\ c \in pending[p]
    /\ pending' = [pending EXCEPT ![p] = @ \ {c}]
    /\ calls' = calls \cup {[by |-> p, target |-> e, copy |-> item[e], candidate |-> c]}
    /\ turn' = Nobody
    /\ UNCHANGED <<storeVars, phase, written, historyVars>>

\* The ingestion goes on with the answer, or ends if the memory is gone: the
\* KeyError leaves its other candidates out.
GoOn(call) ==
    /\ turn = Nobody
    /\ calls' = calls \ {call}
    /\ IF call.target \in stored
         THEN turn' = call.by /\ UNCHANGED <<phase, pending>>
         ELSE /\ phase' = [phase EXCEPT ![call.by] = "ended"]
              /\ pending' = [pending EXCEPT ![call.by] = {}]
              /\ UNCHANGED turn

\* The LLM may leave the merged fields blank: the words are kept as they were.
AnswerMerge(call, texts) ==
    /\ GoOn(call)
    /\ Update(call.candidate, call.target, call.copy, texts)

AnswerReplace(call) ==
    /\ GoOn(call)
    /\ Update(call.candidate, call.target, call.copy, {call.candidate})

AnswerKeepBoth(call) ==
    /\ GoOn(call)
    /\ Link(call.candidate, call.target, call.copy)

\* An LLM call raises or answers nonsense, an ingestion lacks an LLM, embed()
\* raises, or the task is cancelled where it waits.  What was integrated stays.
Fail(p) ==
    /\ turn \in {p, Nobody}
    /\ phase[p] # "ended"
    /\ phase' = [phase EXCEPT ![p] = "ended"]
    /\ pending' = [pending EXCEPT ![p] = {}]
    /\ calls' = {call \in calls : call.by # p}
    /\ turn' = Nobody
    /\ UNCHANGED <<storeVars, written, historyVars>>

Finish(p) ==
    /\ turn = p
    /\ pending[p] = {}
    /\ phase' = [phase EXCEPT ![p] = "ended"]
    /\ turn' = Nobody
    /\ UNCHANGED <<storeVars, pending, calls, written, historyVars>>

-------------------------------------------------------------------------------
\* Retrieval and the routes: none of them waits.

Retrieve(selected) ==
    /\ turn = Nobody
    /\ Cardinality(selected) <= MaxRetrieved
    /\ \A i \in selected : item[i].uses < MaxUses
    /\ item' = [i \in Texts |-> IF i \in selected THEN [item[i] EXCEPT !.uses = @ + 1]
                                                  ELSE item[i]]
    /\ retrieved' = [i \in Texts |-> IF i \in selected THEN retrieved[i] + 1
                                                       ELSE retrieved[i]]
    /\ UNCHANGED <<stored, taskVars, written, deleted, stale, taken, gone, overwritten>>

AddManual(c) ==
    /\ turn = Nobody
    /\ stored' = stored \cup {c}
    /\ item' = [item EXCEPT ![c] = NewItem({c}, {})]
    /\ written' = written \cup {c}
    /\ taken' = taken \cup {c}
    /\ UNCHANGED <<taskVars, retrieved, deleted, stale, gone, overwritten>>

\* PUT /memory/{id} puts the words t for some or for all that the memory says.
UpdateMemory(i, t, kept) ==
    /\ turn = Nobody
    /\ item' = [item EXCEPT ![i].text = kept \cup {t}]
    /\ written' = written \cup {t}
    /\ taken' = taken \cup {t}
    /\ gone' = gone \cup (item[i].text \ kept)
    /\ UNCHANGED <<stored, taskVars, retrieved, deleted, stale, overwritten>>

Delete(i) ==
    /\ turn = Nobody
    /\ stored' = stored \ {i}
    /\ item' = [item EXCEPT ![i] = NewItem({}, {})]
    /\ retrieved' = [retrieved EXCEPT ![i] = 0]
    /\ deleted' = deleted \cup {i}
    /\ gone' = gone \cup item[i].text
    /\ UNCHANGED <<taskVars, written, stale, taken, overwritten>>

-------------------------------------------------------------------------------
Integrate(p) ==
    \E c \in pending[p] :
        \/ Insert(p, c)
        \/ \E e \in stored : LinkNear(p, c, e) \/ ReplaceNear(p, c, e) \/ AskMerge(p, c, e)

Answer(call) ==
    \/ AnswerMerge(call, call.copy.text \cup {call.candidate})
    \/ AnswerMerge(call, call.copy.text)
    \/ AnswerReplace(call)
    \/ AnswerKeepBoth(call)

Ingest(p) ==
    \/ \E cs \in SUBSET Unwritten : Distilled(p, cs)
    \/ Integrate(p)
    \/ Fail(p)
    \/ Finish(p)

Serve ==
    \/ \E selected \in SUBSET stored : Retrieve(selected)
    \/ \E c \in Unwritten : AddManual(c)
    \/ \E i \in stored, t \in Unwritten :
          \E kept \in {{}, item[i].text} : UpdateMemory(i, t, kept)
    \/ \E i \in stored : Delete(i)

\* Nothing is being ingested, and nobody has to use the bank.
Idle == (\A p \in Ingestions : phase[p] = "ended") /\ UNCHANGED vars

Next ==
    \/ \E p \in Ingestions : Ingest(p)
    \/ \E call \in calls : Answer(call)
    \/ Serve
    \/ Idle

Spec == Init /\ [][Next]_vars

-------------------------------------------------------------------------------
\* What the bank keeps, however ingestions, retrievals, edits and deletions
\* interleave.  It does not keep what was done to a memory while the merge LLM
\* was asked about it: the answer is written over it in the copy that the question
\* was asked with (merge.py:54).  The properties say what that can harm, and
\* EveryRetrievalCounts that it does.

\* Links go both ways, but for those a write-back has dropped.
LinksSymmetric ==
    \A i, j \in stored : j \in item[i].related => i \in item[j].related \/ j \in stale

\* A link leads to a memory, or to one that was deleted: never to a candidate
\* that did not reach the store.
LinksPointToMemories == \A i \in stored : item[i].related \subseteq stored \cup deleted

\* The links are those of a graph over memories, but for write-backs.
LinksSound == LinksSymmetric /\ LinksPointToMemories

\* A memory counts its retrievals.  One that was written back from an outdated
\* copy may count fewer, but counts no retrieval twice.
UsesCounted ==
    \A i \in stored :
        /\ item[i].uses <= retrieved[i]
        /\ i \notin stale => item[i].uses = retrieved[i]

\* A memory that a user has deleted does not come back from the copies that
\* ingestions hold and will write.
DeletedStaysDeleted == stored \cap deleted = {}

\* A text that was taken in is part of a stored memory, unless somebody who had
\* seen it left it out, or it was put into a memory between the merge LLM's
\* question about that memory and the write-back of the answer.
Told == UNION {item[i].text : i \in stored}
TextsAccountedFor == taken \subseteq Told \cup gone \cup overwritten

\* What users and retrievals did to the memories outlives the ingestions under
\* way, but for an edit or a retrieval that falls between the question about a
\* memory and the write-back of the answer over that same memory: no deletion is
\* undone, no retrieval is counted twice, and a write-back harms neither a count
\* nor a text of any other memory.
EditsSurvive == UsesCounted /\ DeletedStaysDeleted /\ TextsAccountedFor

-------------------------------------------------------------------------------
\* What does not hold.

\* docs/memory.md:104: use_count is "incremented on retrieval", which
\* retrieval.py:22-23 writes back to the store.  The write-back of a merge
\* (merge.py:57) sets the count to what it was when the LLM was asked.
EveryRetrievalCounts == \A i \in stored : item[i].uses = retrieved[i]

-------------------------------------------------------------------------------
\* The inductive invariant behind the properties above.

\* Candidates are not in the store and nobody's link leads to them; what is not
\* in the store counts no uses.
CandidatesAreNew ==
    /\ stored \cup deleted \subseteq written
    /\ \A i \in Texts \ stored : retrieved[i] = 0
    /\ \A p \in Ingestions : pending[p] \subseteq written \ (stored \cup deleted)
    /\ \A p, q \in Ingestions : p # q => pending[p] \cap pending[q] = {}
    /\ \A call \in calls :
          /\ call.candidate \in written \ (stored \cup deleted)
          /\ \A p \in Ingestions : call.candidate \notin pending[p]
    /\ \A call, other \in calls : call # other => call.candidate # other.candidate

\* A copy of memory e has the links of a memory that is, or was, stored, and counts
\* no more uses than there were.
CopyFits(e, copy) ==
    /\ e \in stored \cup deleted
    /\ copy.related \subseteq stored \cup deleted
    /\ \A i \in stored \cap copy.related : e \in item[i].related \/ i \in stale
    /\ e \in stored => copy.uses <= retrieved[e]
CopiesFit == \A call \in calls : CopyFits(call.target, call.copy)

\* Who holds the event loop is integrating and awaits no answer.
TurnIsFree ==
    /\ turn # Nobody => phase[turn] = "integrating"
    /\ \A call \in calls : call.by # turn /\ phase[call.by] = "integrating"
    /\ \A call, other \in calls : call # other => call.by # other.by

IInv ==
    /\ TypeOK
    /\ CandidatesAreNew
    /\ CopiesFit
    /\ TurnIsFree
    /\ LinksSymmetric
    /\ LinksPointToMemories
    /\ UsesCounted
    /\ DeletedStaysDeleted
    /\ TextsAccountedFor
===============================================================================
