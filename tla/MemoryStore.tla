------------------------------ MODULE MemoryStore ------------------------------
(***************************************************************************)
(* SQLiteVecStore (src/fleet/memory/stores/sqlite_vec.py), the default     *)
(* store of a ReasoningBank, and the import of a bank through it           *)
(* (bank.py: import_).                                                     *)
(*                                                                         *)
(* A memory is a row of memory_items, a row of the vector table and a row  *)
(* that maps the one to the other.  The connection opens a transaction     *)
(* with the first write of an operation and commits with its last; an      *)
(* operation that raises in between leaves the transaction open, for the   *)
(* next operation to commit or a crash to undo: `work` is what the         *)
(* connection sees, `disk` what is committed.  Of a MemoryItem the scope   *)
(* and the embedding are kept.                                             *)
(***************************************************************************)
EXTENDS Naturals, FiniteSets

CONSTANTS
    Ids,        \* ids of memories
    Scopes,     \* namespaces
    Vectors,    \* embeddings of the store's dimension
    Misfit,     \* an embedding of another dimension
    Distance,   \* vec_distance_cosine, as a function on pairs of vectors
    Rows,       \* rowids
    PoolFactor, \* how many times k rows a filtered search looks at: 4
    MaxResults, \* the largest k of a search
    MaxEntries  \* bound on the entries of an import

ASSUME MisfitAssumption == Misfit \notin Vectors
ASSUME DistanceAssumption == Distance \in [Vectors \X Vectors -> Nat]
ASSUME FactorAssumption == PoolFactor \in Nat \ {0}
ASSUME BoundsAssumption == MaxResults \in Nat /\ MaxEntries \in Nat
ASSUME RowsAssumption == IsFiniteSet(Rows)

VARIABLES
    work,       \* the tables with what the open transaction has changed
    disk,       \* the tables as committed
    importing,  \* entries import_ has still to read
    spoiled     \* history: ids of which an update raised half way

vars == <<work, disk, importing, spoiled>>

Items == [scope : Scopes, vec : Vectors \cup {Misfit}]
PartialMaps(S, T) == UNION {[D -> T] : D \in SUBSET S}
Tables == [items : PartialMaps(Ids, Items), vec : PartialMaps(Rows, Vectors),
           map : PartialMaps(Rows, Ids)]

Put(f, x, y) == [z \in DOMAIN f \cup {x} |-> IF z = x THEN y ELSE f[z]]
Drop(f, S) == [z \in DOMAIN f \ S |-> f[z]]
RowsOf(t, i) == {row \in DOMAIN t.map : t.map[row] = i}

TypeOK ==
    /\ work \in Tables
    /\ disk \in Tables
    /\ importing \in 0..MaxEntries
    /\ spoiled \in SUBSET Ids

Empty == [z \in {} |-> z]

Init ==
    /\ work = [items |-> Empty, vec |-> Empty, map |-> Empty]
    /\ disk = work
    /\ importing = 0
    /\ spoiled = {}

-------------------------------------------------------------------------------
\* The tables after an operation.

Added(t, i, r, row) ==
    [items |-> Put(t.items, i, r), vec |-> Put(t.vec, row, r.vec), map |-> Put(t.map, row, i)]

\* UPDATE memory_items, then UPDATE memory_vec in the row that the map names.
Updated(t, i, r) ==
    [t EXCEPT !.items = Put(t.items, i, r),
              !.vec = [row \in DOMAIN t.vec |-> IF row \in RowsOf(t, i) THEN r.vec
                                                                      ELSE t.vec[row]]]

HalfUpdated_Unchecked(t, i, r) == Updated(t, i, r)

\* ... where the vector table refuses an embedding of another dimension.
HalfUpdated(t, i, r) == [t EXCEPT !.items = Put(t.items, i, r)]

Deleted_KeepsVector(t, i) ==
    [items |-> Drop(t.items, {i}), vec |-> t.vec, map |-> Drop(t.map, RowsOf(t, i))]

Deleted(t, i) ==
    [items |-> Drop(t.items, {i}), vec |-> Drop(t.vec, RowsOf(t, i)),
     map |-> Drop(t.map, RowsOf(t, i))]

-------------------------------------------------------------------------------
\* add, update and delete.  An add() of an id that is there raises before it has
\* written anything, and so does an update() of one that is not.

Commit_Nothing(t) == work' = t /\ UNCHANGED disk

Commit(t) == work' = t /\ disk' = t

\* sqlite-vec hands out a row that the vector table does not have.
Add(i, r) ==
    /\ i \notin DOMAIN work.items
    /\ r.vec \in Vectors
    /\ \E row \in Rows \ DOMAIN work.vec : Commit(Added(work, i, r, row))
    /\ spoiled' = spoiled \ {i}

Update(i, r) ==
    /\ i \in DOMAIN work.items
    /\ r.vec \in Vectors
    /\ Commit(Updated(work, i, r))
    /\ spoiled' = spoiled \ {i}

UpdateRaises(i, r) ==
    /\ i \in DOMAIN work.items
    /\ r.vec = Misfit
    /\ work' = HalfUpdated(work, i, r)
    /\ spoiled' = spoiled \cup {i}
    /\ UNCHANGED disk

Delete(i) ==
    /\ Commit(Deleted(work, i))
    /\ spoiled' = spoiled \ {i}

-------------------------------------------------------------------------------
\* What the bank does with the store.  An operation holds the event loop.

\* add_manual and integrate_candidate.
AddNew(i, r) == importing = 0 /\ Add(i, r) /\ UNCHANGED importing

\* The write-back of a memory the store has returned, changed or not, with the
\* embedding it came with or a new one.
WriteBack(i, r) == importing = 0 /\ Update(i, r) /\ UNCHANGED importing

WriteBackRaises(i, r) ==
    /\ importing = 0
    /\ i \in DOMAIN work.items
    /\ r.vec = work.items[i].vec
    /\ UpdateRaises(i, r)
    /\ UNCHANGED importing

Remove(i) == importing = 0 /\ Delete(i) /\ UNCHANGED importing

Import(n) == importing = 0 /\ importing' = n /\ UNCHANGED <<work, disk, spoiled>>

\* An entry that is new is added ...
ImportAdds(i, r) ==
    /\ importing > 0
    /\ Add(i, r)
    /\ importing' = importing - 1

\* ... one whose id is there raises IntegrityError, which is not a ValueError
\* (and one that is new, of another dimension, the KeyError below) ...
ImportStops(i, r) ==
    /\ importing > 0
    /\ (i \in DOMAIN work.items) # (r.vec = Misfit)
    /\ importing' = 0
    /\ UNCHANGED <<work, disk, spoiled>>

\* ... and one of another dimension raises ValueError, so that import_ goes on
\* to update(), which raises KeyError, or half way.
ImportSpoils(i, r) ==
    /\ importing > 0
    /\ UpdateRaises(i, r)
    /\ importing' = 0

\* A line that is not a MemoryItem.
ImportBreaks ==
    /\ importing > 0
    /\ importing' = 0
    /\ UNCHANGED <<work, disk, spoiled>>

\* The process ends, between two operations or statements, and starts again.
Crash ==
    /\ work' = disk
    /\ importing' = 0
    /\ UNCHANGED <<disk, spoiled>>

-------------------------------------------------------------------------------
Serve(i, r) ==
    \/ AddNew(i, r)
    \/ WriteBack(i, r)
    \/ WriteBackRaises(i, r)

ReadEntry(i, r) ==
    \/ ImportAdds(i, r)
    \/ ImportStops(i, r)
    \/ ImportSpoils(i, r)

Next ==
    \/ \E i \in Ids, r \in Items : Serve(i, r) \/ ReadEntry(i, r)
    \/ \E i \in Ids : Remove(i)
    \/ \E n \in 1..MaxEntries : Import(n)
    \/ ImportBreaks
    \/ Crash

Spec == Init /\ [][Next]_vars

-------------------------------------------------------------------------------
\* Searching.

\* The sets of n elements of S, or all of S, nearest by the distance d.
Nearest(S, d, n) ==
    {R \in SUBSET S :
        /\ Cardinality(R) = IF Cardinality(S) < n THEN Cardinality(S) ELSE n
        /\ \A x \in R, y \in S \ R : d[x] <= d[y]}

Pool_K(k) == k

Pool(k) == PoolFactor * k

Distances(v) == [row \in DOMAIN work.vec |-> Distance[<<v, work.vec[row]>>]]
InScope(s) == {row \in DOMAIN work.map : work.items[work.map[row]].scope = s}

\* What a search for k memories of scope s may return.
Results(v, s, k) ==
    UNION {Nearest(pool \cap InScope(s), Distances(v), k)
              : pool \in Nearest(DOMAIN work.vec, Distances(v), Pool(k))}

-------------------------------------------------------------------------------
\* The three tables list the same memories, whatever raised and whenever the
\* process ended: each memory has one row, and each row a memory and a vector.
OneRowEach(t) ==
    /\ DOMAIN t.vec = DOMAIN t.map
    /\ \A i \in Ids : i \in DOMAIN t.items <=> RowsOf(t, i) # {}
    /\ \A row, other \in DOMAIN t.map : t.map[row] = t.map[other] => row = other
TablesAgree == OneRowEach(work) /\ OneRowEach(disk)

\* The vector that is searched is the embedding of the memory, but for those
\* whose update raised half way.
VectorsOf(t, half) ==
    \A row \in DOMAIN t.vec :
        LET i == t.map[row]
        IN  t.vec[row] = t.items[i].vec \/ (i \in half /\ t.items[i].vec = Misfit)
VectorsFollow == VectorsOf(work, spoiled)

\* The tables fit together row by row, and what is searched is what is stored.
TablesSound == TablesAgree /\ VectorsFollow

\* The members of S that are at least as near as row.
Ahead(S, d, row) == {other \in S : d[other] <= d[row]}

\* A filtered search misses one of the k nearest memories of its scope only
\* behind more than (PoolFactor - 1) * k of other scopes.
SearchMissesTheCrowdedOut ==
    \A v \in Vectors, s \in Scopes, k \in 1..MaxResults :
        LET d == Distances(v)
        IN  \A found \in Results(v, s, k) :
                \/ found \in Nearest(InScope(s), d, k)
                \/ \E row \in InScope(s) \ found :
                      Cardinality(Ahead(DOMAIN work.vec \ InScope(s), d, row))
                          > (PoolFactor - 1) * k

-------------------------------------------------------------------------------
\* The contract the store implements: what the connection reads is the store.
SC == INSTANCE StoreContract WITH memories <- work.items, doubtful <- spoiled

\* What add, update and delete have returned from survives a crash, whatever an
\* operation that raised has left in the open transaction, and no operation or
\* crash touches a memory that it is not about.
KeepsContract == SC!Contract

-------------------------------------------------------------------------------
\* The inductive invariant: an open transaction has changed nothing but memories
\* whose update raised half way.
OpenIsSpoiled ==
    /\ DOMAIN disk.items = DOMAIN work.items /\ disk.vec = work.vec /\ disk.map = work.map
    /\ \A i \in DOMAIN work.items \ spoiled : disk.items[i] = work.items[i]

IInv ==
    /\ TypeOK
    /\ TablesAgree
    /\ VectorsFollow
    /\ VectorsOf(disk, spoiled)
    /\ OpenIsSpoiled
===============================================================================
