-------------------------- MODULE MemoryStore_proofs --------------------------
(***************************************************************************)
(* Proofs about MemoryStore, for any ids, scopes, vectors, rows and        *)
(* distance: what the three tables and their committed copy keep through   *)
(* operations that raise half way and crashes, and what a filtered search  *)
(* may miss.                                                               *)
(***************************************************************************)
EXTENDS MemoryStore, FiniteSetTheorems, WellFoundedInduction, TLAPS

-------------------------------------------------------------------------------
\* The helpers.

LEMMA PartialMap ==
    ASSUME NEW S, NEW T, NEW f
    PROVE  f \in PartialMaps(S, T) <=>
               /\ f = [z \in DOMAIN f |-> f[z]]
               /\ DOMAIN f \subseteq S
               /\ \A z \in DOMAIN f : f[z] \in T
<1>1. ASSUME f \in PartialMaps(S, T)
      PROVE  /\ f = [z \in DOMAIN f |-> f[z]]
             /\ DOMAIN f \subseteq S
             /\ \A z \in DOMAIN f : f[z] \in T
  <2>1. PICK D \in SUBSET S : f \in [D -> T]
    BY <1>1 DEF PartialMaps
  <2> QED  BY <2>1
<1>2. ASSUME f = [z \in DOMAIN f |-> f[z]], DOMAIN f \subseteq S,
             \A z \in DOMAIN f : f[z] \in T
      PROVE  f \in PartialMaps(S, T)
  <2>1. f \in [DOMAIN f -> T]
    BY <1>2
  <2> QED  BY <1>2, <2>1 DEF PartialMaps
<1> QED  BY <1>1, <1>2

LEMMA PutType ==
    ASSUME NEW S, NEW T, NEW f \in PartialMaps(S, T), NEW x \in S, NEW y \in T
    PROVE  Put(f, x, y) \in PartialMaps(S, T)
<1> DEFINE g == Put(f, x, y)
<1>1. DOMAIN f \subseteq S /\ \A z \in DOMAIN f : f[z] \in T
  BY PartialMap
<1>2. g = [z \in DOMAIN g |-> g[z]]
  BY DEF Put
<1>3. DOMAIN g \subseteq S /\ \A z \in DOMAIN g : g[z] \in T
  BY <1>1 DEF Put
<1> QED  BY <1>2, <1>3, PartialMap

LEMMA DropType ==
    ASSUME NEW S, NEW T, NEW f \in PartialMaps(S, T), NEW D
    PROVE  Drop(f, D) \in PartialMaps(S, T)
<1> DEFINE g == Drop(f, D)
<1>1. DOMAIN f \subseteq S /\ \A z \in DOMAIN f : f[z] \in T
  BY PartialMap
<1>2. g = [z \in DOMAIN g |-> g[z]]
  BY DEF Drop
<1>3. DOMAIN g \subseteq S /\ \A z \in DOMAIN g : g[z] \in T
  BY <1>1 DEF Drop
<1> QED  BY <1>2, <1>3, PartialMap

LEMMA TableParts ==
    ASSUME NEW t \in Tables
    PROVE  /\ t.items \in PartialMaps(Ids, Items)
           /\ t.vec \in PartialMaps(Rows, Vectors)
           /\ t.map \in PartialMaps(Rows, Ids)
           /\ DOMAIN t.items \subseteq Ids /\ DOMAIN t.vec \subseteq Rows
           /\ \A row \in DOMAIN t.map : t.map[row] \in Ids
           /\ \A row \in DOMAIN t.vec : t.vec[row] \in Vectors
<1>1. /\ t.items \in PartialMaps(Ids, Items)
      /\ t.vec \in PartialMaps(Rows, Vectors)
      /\ t.map \in PartialMaps(Rows, Ids)
  BY DEF Tables
<1> QED  BY <1>1, PartialMap

-------------------------------------------------------------------------------
\* The tables after an operation.

\* Tables that are as they should be, with half-updated memories among `half`.
Sound(t, half) == t \in Tables /\ OneRowEach(t) /\ VectorsOf(t, half)

\* A row leads to a memory.
LEMMA RowsAreOfMemories ==
    ASSUME NEW t \in Tables, OneRowEach(t), NEW row \in DOMAIN t.vec
    PROVE  row \in DOMAIN t.map /\ t.map[row] \in DOMAIN t.items
<1>1. row \in DOMAIN t.map /\ t.map[row] \in Ids
  BY TableParts DEF OneRowEach
<1>2. row \in RowsOf(t, t.map[row])
  BY <1>1 DEF RowsOf
<1> QED  BY <1>1, <1>2 DEF OneRowEach

LEMMA AddedIsSound ==
    ASSUME NEW t, NEW half, Sound(t, half), NEW i \in Ids, i \notin DOMAIN t.items,
           NEW r \in Items, r.vec \in Vectors, NEW row \in Rows, row \notin DOMAIN t.vec
    PROVE  Sound(Added(t, i, r, row), half \ {i})
<1> DEFINE u == Added(t, i, r, row)
<1>1. t \in Tables /\ OneRowEach(t) /\ VectorsOf(t, half)
  BY DEF Sound
<1>2. /\ u.items = Put(t.items, i, r) /\ u.vec = Put(t.vec, row, r.vec)
      /\ u.map = Put(t.map, row, i)
      /\ u = [items |-> u.items, vec |-> u.vec, map |-> u.map]
  BY DEF Added
<1> HIDE DEF u
<1>3. u \in Tables
  <2>1. /\ u.items \in PartialMaps(Ids, Items) /\ u.vec \in PartialMaps(Rows, Vectors)
        /\ u.map \in PartialMaps(Rows, Ids)
    BY <1>1, <1>2, TableParts, PutType
  <2> QED  BY <1>2, <2>1 DEF Tables
<1>4. /\ DOMAIN u.items = DOMAIN t.items \cup {i} /\ u.items[i] = r
      /\ \A j \in DOMAIN t.items : u.items[j] = t.items[j]
  BY <1>2 DEF Put
<1>5. /\ DOMAIN u.vec = DOMAIN t.vec \cup {row} /\ u.vec[row] = r.vec
      /\ \A x \in DOMAIN t.vec : u.vec[x] = t.vec[x]
  BY <1>2 DEF Put
<1>6. /\ DOMAIN u.map = DOMAIN t.map \cup {row} /\ u.map[row] = i
      /\ \A x \in DOMAIN t.map : u.map[x] = t.map[x]
  BY <1>1, <1>2 DEF Put, OneRowEach
<1>7. \A x \in DOMAIN t.map : t.map[x] # i
  BY <1>1, RowsAreOfMemories DEF OneRowEach
<1>8. RowsOf(u, i) = {row} /\ \A j \in Ids : j # i => RowsOf(u, j) = RowsOf(t, j)
  BY <1>1, <1>6, <1>7 DEF RowsOf, OneRowEach
<1>9. OneRowEach(u)
  <2>1. DOMAIN u.vec = DOMAIN u.map
    BY <1>1, <1>5, <1>6 DEF OneRowEach
  <2>2. \A j \in Ids : j \in DOMAIN u.items <=> RowsOf(u, j) # {}
    BY <1>1, <1>4, <1>8 DEF OneRowEach
  <2>3. \A x, y \in DOMAIN u.map : u.map[x] = u.map[y] => x = y
    BY <1>1, <1>6, <1>7 DEF OneRowEach
  <2> QED  BY <2>1, <2>2, <2>3 DEF OneRowEach
<1>10. VectorsOf(u, half \ {i})
  <2> SUFFICES ASSUME NEW x \in DOMAIN u.vec
               PROVE  \/ u.vec[x] = u.items[u.map[x]].vec
                      \/ u.map[x] \in half \ {i} /\ u.items[u.map[x]].vec = Misfit
    BY DEF VectorsOf
  <2>1. CASE x = row
    BY <2>1, <1>4, <1>5, <1>6
  <2>2. CASE x \in DOMAIN t.vec
    <3>1. x \in DOMAIN t.map /\ t.map[x] \in DOMAIN t.items
      BY <2>2, <1>1, RowsAreOfMemories
    <3> QED  BY <2>2, <3>1, <1>1, <1>4, <1>5, <1>6, <1>7 DEF VectorsOf
  <2> QED  BY <2>1, <2>2, <1>5
<1> QED  BY <1>3, <1>9, <1>10 DEF Sound, u

LEMMA UpdatedIsSound ==
    ASSUME NEW t, NEW half, Sound(t, half), NEW i \in DOMAIN t.items,
           NEW r \in Items, r.vec \in Vectors
    PROVE  /\ Sound(Updated(t, i, r), half \ {i})
           /\ Updated(t, i, r).items = Put(t.items, i, r)
<1> DEFINE u == Updated(t, i, r)
           vec == [row \in DOMAIN t.vec |-> IF row \in RowsOf(t, i) THEN r.vec ELSE t.vec[row]]
<1>1. t \in Tables /\ OneRowEach(t) /\ VectorsOf(t, half)
  BY DEF Sound
<1>2. /\ u.items = Put(t.items, i, r) /\ u.vec = vec /\ u.map = t.map
      /\ u = [items |-> u.items, vec |-> u.vec, map |-> u.map]
  <2>1. t = [items |-> t.items, vec |-> t.vec, map |-> t.map]
    BY <1>1 DEF Tables
  <2> HIDE DEF vec
  <2>2. u = [t EXCEPT !.items = Put(t.items, i, r), !.vec = vec]
    BY DEF Updated, vec
  <2> HIDE DEF u
  <2> QED  BY <2>1, <2>2
<1>3. /\ vec = [row \in DOMAIN vec |-> vec[row]]
      /\ DOMAIN vec = DOMAIN t.vec
      /\ \A row \in DOMAIN t.vec : vec[row] = IF row \in RowsOf(t, i) THEN r.vec
                                                                    ELSE t.vec[row]
  OBVIOUS
<1> HIDE DEF u, vec
<1>4. i \in Ids
  BY <1>1, TableParts
<1>5. u \in Tables
  <2>1. u.items \in PartialMaps(Ids, Items) /\ u.map \in PartialMaps(Rows, Ids)
    BY <1>1, <1>2, <1>4, TableParts, PutType
  <2>2. DOMAIN vec \subseteq Rows /\ \A row \in DOMAIN vec : vec[row] \in Vectors
    BY <1>1, <1>3, TableParts
  <2>3. u.vec \in PartialMaps(Rows, Vectors)
    BY <1>2, <1>3, <2>2, PartialMap
  <2> QED  BY <1>2, <2>1, <2>3 DEF Tables
<1>6. /\ DOMAIN u.items = DOMAIN t.items /\ u.items[i] = r
      /\ \A j \in DOMAIN t.items : j # i => u.items[j] = t.items[j]
  BY <1>2 DEF Put
<1>7. \A j : RowsOf(u, j) = RowsOf(t, j)
  BY <1>2 DEF RowsOf
<1>8. OneRowEach(u)
  BY <1>1, <1>2, <1>3, <1>6, <1>7 DEF OneRowEach
<1>9. VectorsOf(u, half \ {i})
  <2> SUFFICES ASSUME NEW row \in DOMAIN u.vec
               PROVE  \/ u.vec[row] = u.items[u.map[row]].vec
                      \/ u.map[row] \in half \ {i} /\ u.items[u.map[row]].vec = Misfit
    BY DEF VectorsOf
  <2>1. row \in DOMAIN t.map /\ t.map[row] \in DOMAIN t.items /\ row \in DOMAIN t.vec
    BY <1>1, <1>2, <1>3, RowsAreOfMemories
  <2>2. CASE t.map[row] = i
    BY <2>1, <2>2, <1>2, <1>3, <1>6 DEF RowsOf
  <2>3. CASE t.map[row] # i
    BY <2>1, <2>3, <1>1, <1>2, <1>3, <1>6 DEF RowsOf, VectorsOf
  <2> QED  BY <2>2, <2>3
<1> QED  BY <1>2, <1>5, <1>8, <1>9 DEF Sound, u

\* An update that raised has changed the memory and not its vector.
LEMMA HalfUpdatedIsSound ==
    ASSUME NEW t, NEW half, Sound(t, half), NEW i \in DOMAIN t.items,
           NEW r \in Items, r.vec = Misfit
    PROVE  /\ Sound(HalfUpdated(t, i, r), half \cup {i})
           /\ HalfUpdated(t, i, r).items = Put(t.items, i, r)
           /\ HalfUpdated(t, i, r).vec = t.vec /\ HalfUpdated(t, i, r).map = t.map
<1> DEFINE u == HalfUpdated(t, i, r)
<1>1. t \in Tables /\ OneRowEach(t) /\ VectorsOf(t, half)
  BY DEF Sound
<1>2. /\ u.items = Put(t.items, i, r) /\ u.vec = t.vec /\ u.map = t.map
      /\ u = [items |-> u.items, vec |-> u.vec, map |-> u.map]
  BY <1>1 DEF HalfUpdated, Tables
<1> HIDE DEF u
<1>3. u \in Tables
  <2>1. i \in Ids
    BY <1>1, TableParts
  <2>2. /\ u.items \in PartialMaps(Ids, Items) /\ u.vec \in PartialMaps(Rows, Vectors)
        /\ u.map \in PartialMaps(Rows, Ids)
    BY <1>1, <1>2, <2>1, TableParts, PutType
  <2> QED  BY <1>2, <2>2 DEF Tables
<1>4. /\ DOMAIN u.items = DOMAIN t.items /\ u.items[i] = r
      /\ \A j \in DOMAIN t.items : j # i => u.items[j] = t.items[j]
  BY <1>2 DEF Put
<1>5. \A j : RowsOf(u, j) = RowsOf(t, j)
  BY <1>2 DEF RowsOf
<1>6. OneRowEach(u)
  BY <1>1, <1>2, <1>4, <1>5 DEF OneRowEach
<1>7. VectorsOf(u, half \cup {i})
  BY <1>1, <1>2, <1>4, RowsAreOfMemories DEF VectorsOf
<1> QED  BY <1>2, <1>3, <1>6, <1>7 DEF Sound, u

LEMMA DeletedIsSound ==
    ASSUME NEW t, NEW half, Sound(t, half), NEW i \in Ids
    PROVE  Sound(Deleted(t, i), half \ {i})
<1> DEFINE u == Deleted(t, i)
<1>1. t \in Tables /\ OneRowEach(t) /\ VectorsOf(t, half)
  BY DEF Sound
<1>2. /\ u.items = Drop(t.items, {i}) /\ u.vec = Drop(t.vec, RowsOf(t, i))
      /\ u.map = Drop(t.map, RowsOf(t, i))
      /\ u = [items |-> u.items, vec |-> u.vec, map |-> u.map]
  BY DEF Deleted
<1> HIDE DEF u
<1>3. u \in Tables
  <2>1. /\ u.items \in PartialMaps(Ids, Items) /\ u.vec \in PartialMaps(Rows, Vectors)
        /\ u.map \in PartialMaps(Rows, Ids)
    BY <1>1, <1>2, TableParts, DropType
  <2> QED  BY <1>2, <2>1 DEF Tables
<1>4. /\ DOMAIN u.items = DOMAIN t.items \ {i}
      /\ \A j \in DOMAIN t.items : j # i => u.items[j] = t.items[j]
  BY <1>2 DEF Drop
<1>5. /\ DOMAIN u.vec = DOMAIN t.vec \ RowsOf(t, i)
      /\ DOMAIN u.map = DOMAIN t.map \ RowsOf(t, i)
      /\ \A row \in DOMAIN t.vec \ RowsOf(t, i) :
            u.vec[row] = t.vec[row] /\ u.map[row] = t.map[row]
  BY <1>1, <1>2 DEF Drop, OneRowEach
<1>6. RowsOf(u, i) = {} /\ \A j \in Ids : j # i => RowsOf(u, j) = RowsOf(t, j)
  BY <1>1, <1>5 DEF RowsOf, OneRowEach
<1>7. OneRowEach(u)
  BY <1>1, <1>4, <1>5, <1>6 DEF OneRowEach
<1>8. VectorsOf(u, half \ {i})
  <2> SUFFICES ASSUME NEW row \in DOMAIN u.vec
               PROVE  \/ u.vec[row] = u.items[u.map[row]].vec
                      \/ u.map[row] \in half \ {i} /\ u.items[u.map[row]].vec = Misfit
    BY DEF VectorsOf
  <2>1. row \in DOMAIN t.vec /\ t.map[row] \in DOMAIN t.items /\ t.map[row] # i
    BY <1>1, <1>5, RowsAreOfMemories DEF RowsOf
  <2> QED  BY <2>1, <1>1, <1>4, <1>5 DEF VectorsOf
<1> QED  BY <1>3, <1>7, <1>8 DEF Sound, u

-------------------------------------------------------------------------------
\* The operations.

LEMMA Parts ==
    IInv <=> /\ Sound(work, spoiled) /\ Sound(disk, spoiled)
             /\ importing \in 0..MaxEntries
             /\ spoiled \in SUBSET Ids
             /\ OpenIsSpoiled
BY DEF IInv, TypeOK, TablesAgree, VectorsFollow, Sound

LEMMA PartsNext ==
    ASSUME Sound(work', spoiled'), Sound(disk', spoiled'), importing' \in 0..MaxEntries,
           spoiled' \in SUBSET Ids, OpenIsSpoiled'
    PROVE  IInv'
BY DEF IInv, TypeOK, TablesAgree, VectorsFollow, Sound

LEMMA InvInit == Init => IInv
<1> SUFFICES ASSUME Init PROVE IInv
  OBVIOUS
<1>1. \A S, T : Empty \in PartialMaps(S, T)
  <2> TAKE S, T
  <2>1. Empty = [z \in DOMAIN Empty |-> Empty[z]] /\ DOMAIN Empty = {}
    BY DEF Empty
  <2> QED  BY <2>1, PartialMap
<1>2. DOMAIN Empty = {}
  BY DEF Empty
<1>3. work \in Tables /\ OneRowEach(work) /\ VectorsOf(work, spoiled)
  BY <1>1, <1>2 DEF Init, Tables, OneRowEach, VectorsOf, RowsOf
<1>4. importing \in 0..MaxEntries /\ spoiled \in SUBSET Ids
  BY BoundsAssumption DEF Init
<1>5. OpenIsSpoiled
  BY <1>2 DEF Init, OpenIsSpoiled
<1> QED  BY <1>3, <1>4, <1>5, Parts DEF Init, Sound

LEMMA AddKeeps ==
    ASSUME IInv, NEW i \in Ids, NEW r \in Items, Add(i, r),
           importing' \in 0..MaxEntries
    PROVE  IInv'
<1>1. Sound(work, spoiled) /\ i \notin DOMAIN work.items /\ r.vec \in Vectors
  BY Parts DEF Add
<1>2. PICK row \in Rows \ DOMAIN work.vec : Commit(Added(work, i, r, row))
  BY DEF Add
<1> DEFINE t == Added(work, i, r, row)
<1>3. Sound(t, spoiled \ {i}) /\ t.items = Put(work.items, i, r)
  BY <1>1, AddedIsSound DEF Added
<1> HIDE DEF t
<1>4. work' = t /\ disk' = t /\ spoiled' = spoiled \ {i}
  BY <1>2 DEF Commit, Add, t
<1>5. spoiled' \in SUBSET Ids /\ OpenIsSpoiled'
  BY <1>4, Parts DEF OpenIsSpoiled
<1> QED  BY <1>3, <1>4, <1>5, PartsNext

LEMMA UpdateKeeps ==
    ASSUME IInv, NEW i \in Ids, NEW r \in Items, Update(i, r),
           importing' \in 0..MaxEntries
    PROVE  IInv'
<1> DEFINE t == Updated(work, i, r)
<1>1. Sound(work, spoiled) /\ i \in DOMAIN work.items /\ r.vec \in Vectors
  BY Parts DEF Update
<1>2. Sound(t, spoiled \ {i}) /\ t.items = Put(work.items, i, r)
  BY <1>1, UpdatedIsSound
<1> HIDE DEF t
<1>3. work' = t /\ disk' = t /\ spoiled' = spoiled \ {i}
  BY DEF Commit, Update, t
<1>4. spoiled' \in SUBSET Ids /\ OpenIsSpoiled'
  BY <1>3, Parts DEF OpenIsSpoiled
<1> QED  BY <1>2, <1>3, <1>4, PartsNext

LEMMA UpdateRaisesKeeps ==
    ASSUME IInv, NEW i \in Ids, NEW r \in Items, UpdateRaises(i, r),
           importing' \in 0..MaxEntries
    PROVE  IInv'
<1> DEFINE t == HalfUpdated(work, i, r)
<1>1. Sound(work, spoiled) /\ i \in DOMAIN work.items /\ r.vec = Misfit
  BY Parts DEF UpdateRaises
<1>2. /\ Sound(t, spoiled \cup {i}) /\ t.items = Put(work.items, i, r)
      /\ t.vec = work.vec /\ t.map = work.map
  BY <1>1, HalfUpdatedIsSound
<1> HIDE DEF t
<1>3. work' = t /\ spoiled' = spoiled \cup {i} /\ UNCHANGED disk
  BY DEF UpdateRaises, t
<1>4. Sound(disk', spoiled')
  BY <1>3, Parts DEF Sound, VectorsOf
<1>5. OpenIsSpoiled'
  BY <1>1, <1>2, <1>3, Parts DEF OpenIsSpoiled, Put
<1>6. spoiled' \in SUBSET Ids
  BY <1>3, Parts
<1> QED  BY <1>2, <1>3, <1>4, <1>5, <1>6, PartsNext

LEMMA DeleteKeeps ==
    ASSUME IInv, NEW i \in Ids, Delete(i), importing' \in 0..MaxEntries
    PROVE  IInv'
<1> DEFINE t == Deleted(work, i)
<1>1. Sound(t, spoiled \ {i}) /\ t.items = Drop(work.items, {i})
  BY Parts, DeletedIsSound DEF Deleted
<1> HIDE DEF t
<1>2. work' = t /\ disk' = t /\ spoiled' = spoiled \ {i}
  BY DEF Commit, Delete, t
<1>3. spoiled' \in SUBSET Ids /\ OpenIsSpoiled'
  BY <1>2, Parts DEF OpenIsSpoiled
<1> QED  BY <1>1, <1>2, <1>3, PartsNext

\* A crash leaves what was committed, which is in order too.
LEMMA CrashKeeps ==
    ASSUME IInv, Crash
    PROVE  IInv'
<1>1. importing' \in 0..MaxEntries
  BY BoundsAssumption DEF Crash
<1>2. work' = disk /\ UNCHANGED <<disk, spoiled>>
  BY DEF Crash
<1>3. OpenIsSpoiled'
  BY <1>2, Parts DEF OpenIsSpoiled
<1> QED  BY <1>1, <1>2, <1>3, Parts, PartsNext

LEMMA StutterKeeps ==
    ASSUME IInv, UNCHANGED <<work, disk, spoiled>>, importing' \in 0..MaxEntries
    PROVE  IInv'
<1>1. OpenIsSpoiled'
  BY Parts DEF OpenIsSpoiled
<1> QED  BY <1>1, Parts, PartsNext

\* The invariant of the store is closed under every step.
THEOREM InductiveInvariant == Spec => []IInv
<1>1. IInv /\ [Next]_vars => IInv'
  <2> SUFFICES ASSUME IInv, [Next]_vars PROVE IInv'
    OBVIOUS
  <2>1. importing \in 0..MaxEntries
    BY Parts
  <2>2. ASSUME NEW i \in Ids, NEW r \in Items, Serve(i, r) PROVE IInv'
    BY <2>1, <2>2, AddKeeps, UpdateKeeps, UpdateRaisesKeeps
       DEF Serve, AddNew, WriteBack, WriteBackRaises
  <2>3. ASSUME NEW i \in Ids, NEW r \in Items, ReadEntry(i, r) PROVE IInv'
    <3>1. CASE ImportAdds(i, r)
      <4>1. importing' \in 0..MaxEntries
        BY <2>1, <3>1, BoundsAssumption DEF ImportAdds
      <4> QED  BY <3>1, <4>1, AddKeeps DEF ImportAdds
    <3>2. CASE ImportStops(i, r)
      BY <3>2, StutterKeeps, BoundsAssumption DEF ImportStops
    <3>3. CASE ImportSpoils(i, r)
      BY <3>3, UpdateRaisesKeeps, BoundsAssumption DEF ImportSpoils
    <3> QED  BY <2>3, <3>1, <3>2, <3>3 DEF ReadEntry
  <2>4. ASSUME NEW i \in Ids, Remove(i) PROVE IInv'
    BY <2>1, <2>4, DeleteKeeps DEF Remove
  <2>5. ASSUME NEW n \in 1..MaxEntries, Import(n) PROVE IInv'
    BY <2>5, StutterKeeps, BoundsAssumption DEF Import
  <2>6. CASE ImportBreaks
    BY <2>6, StutterKeeps, BoundsAssumption DEF ImportBreaks
  <2>7. CASE UNCHANGED vars
    BY <2>1, <2>7, StutterKeeps DEF vars
  <2> QED  BY <2>2, <2>3, <2>4, <2>5, <2>6, <2>7, CrashKeeps DEF Next
<1> QED  BY <1>1, InvInit, PTL DEF Spec

\* Every variable of the store keeps its type.
THEOREM TypeCorrect == Spec => []TypeOK
<1>1. IInv => TypeOK
  BY DEF IInv
<1> QED  BY <1>1, InductiveInvariant, PTL

\* The tables list the same memories, in the open transaction and on disk, and a
\* search looks at the memories' embeddings, but for updates that raised.
THEOREM TablesAreSound == Spec => []TablesSound
<1>1. IInv => TablesSound
  BY DEF IInv, TablesSound
<1> QED  BY <1>1, InductiveInvariant, PTL

-------------------------------------------------------------------------------
\* The store implements the contract.

LEMMA AddTakes ==
    ASSUME NEW i \in Ids, NEW r \in Items, Add(i, r)
    PROVE  SC!Take(i, r)
<1>1. PICK row \in Rows \ DOMAIN work.vec : Commit(Added(work, i, r, row))
  BY DEF Add
<1>2. work'.items = Put(work.items, i, r) /\ spoiled' = spoiled \ {i}
  BY <1>1 DEF Commit, Added, Add
<1> QED  BY <1>2 DEF SC!Take, SC!OthersStay, Put

LEMMA UpdateTakes ==
    ASSUME IInv, NEW i \in Ids, NEW r \in Items, Update(i, r)
    PROVE  SC!Take(i, r)
<1>1. Sound(work, spoiled) /\ i \in DOMAIN work.items /\ r.vec \in Vectors
  BY Parts DEF Update
<1>2. work'.items = Put(work.items, i, r) /\ spoiled' = spoiled \ {i}
  BY <1>1, UpdatedIsSound DEF Commit, Update
<1> QED  BY <1>2 DEF SC!Take, SC!OthersStay, Put

LEMMA UpdateRaisesBotches ==
    ASSUME IInv, NEW i \in Ids, NEW r \in Items, UpdateRaises(i, r)
    PROVE  SC!Botch(i)
<1>1. Sound(work, spoiled) /\ i \in DOMAIN work.items /\ r.vec = Misfit
  BY Parts DEF UpdateRaises
<1>2. work'.items = Put(work.items, i, r) /\ spoiled' = spoiled \cup {i}
  BY <1>1, HalfUpdatedIsSound DEF UpdateRaises
<1> QED  BY <1>1, <1>2 DEF SC!Botch, SC!OthersStay, Put

LEMMA DeleteForgets ==
    ASSUME NEW i \in Ids, Delete(i)
    PROVE  SC!Forget(i)
<1>1. work'.items = Drop(work.items, {i}) /\ spoiled' = spoiled \ {i}
  BY DEF Commit, Deleted, Delete
<1> QED  BY <1>1 DEF SC!Forget, SC!OthersStay, Drop

\* What a crash undoes is what an update that raised has done.
LEMMA CrashRestarts ==
    ASSUME IInv, Crash
    PROVE  SC!Restart
BY Parts DEF Crash, OpenIsSpoiled, SC!Restart

LEMMA ContractNext == IInv /\ [Next]_vars => [SC!SNext]_(SC!contractVars)
<1> SUFFICES ASSUME IInv, [Next]_vars
             PROVE  SC!SNext \/ UNCHANGED SC!contractVars
  OBVIOUS
<1>1. ASSUME NEW i \in Ids, NEW r \in Items, Serve(i, r)
      PROVE  SC!SNext
  BY <1>1, AddTakes, UpdateTakes, UpdateRaisesBotches
  DEF Serve, AddNew, WriteBack, WriteBackRaises, SC!SNext
<1>2. ASSUME NEW i \in Ids, NEW r \in Items, ReadEntry(i, r)
      PROVE  SC!SNext \/ UNCHANGED SC!contractVars
  BY <1>2, AddTakes, UpdateRaisesBotches
  DEF ReadEntry, ImportAdds, ImportStops, ImportSpoils, SC!SNext, SC!contractVars
<1>3. ASSUME NEW i \in Ids, Remove(i)
      PROVE  SC!SNext
  BY <1>3, DeleteForgets DEF Remove, SC!SNext
<1>4. CASE Crash
  BY <1>4, CrashRestarts DEF SC!SNext
<1>5. ASSUME UNCHANGED <<work, spoiled>>
      PROVE  UNCHANGED SC!contractVars
  BY <1>5 DEF SC!contractVars
<1> QED
  BY <1>1, <1>2, <1>3, <1>4, <1>5 DEF Next, Import, ImportBreaks, vars

\* What the store has taken is there, as last written, until it is deleted, over
\* any number of crashes and whatever updates of other memories have raised.
THEOREM StoreImplementsContract == Spec => KeepsContract
<1>1. Init => SC!SInit
  BY DEF Init, Empty, SC!SInit
<1>2. Spec => SC!SInit /\ [][SC!SNext]_(SC!contractVars)
  BY <1>1, ContractNext, InductiveInvariant, PTL DEF Spec
<1> QED  BY <1>2 DEF KeepsContract, SC!Contract

-------------------------------------------------------------------------------
\* Searching.

\* `found` are k of `mine` and the nearest, or there is a crowd of others.
NearestOrCrowded(all, mine, d, k, n, found) ==
    \/ found \in Nearest(mine, d, k)
    \/ \E row \in mine \ found : Cardinality(Ahead(all \ mine, d, row)) > (n - 1) * k

\* Filtering the n * k nearest misses one of the k nearest of `mine` only behind
\* more than (n - 1) * k that are not.
LEMMA FilteredPool ==
    ASSUME NEW all, IsFiniteSet(all), NEW mine, mine \subseteq all, NEW d,
           \A row \in all : d[row] \in Nat,
           NEW k \in Nat, NEW n \in Nat, NEW size, size = n * k,
           NEW pool \in Nearest(all, d, size), NEW found \in Nearest(pool \cap mine, d, k)
    PROVE  NearestOrCrowded(all, mine, d, k, n, found)
<1> SUFFICES \/ found \in Nearest(mine, d, k)
             \/ \E row \in mine \ found :
                   Cardinality(Ahead(all \ mine, d, row)) > (n - 1) * k
  BY DEF NearestOrCrowded
<1>1. pool \subseteq all /\ found \subseteq pool \cap mine
  BY DEF Nearest
<1>2. \A S \in SUBSET all : IsFiniteSet(S) /\ Cardinality(S) \in Nat
  BY FS_Subset, FS_CardinalityType
<1>3. n * k \in Nat /\ (n - 1) * k = n * k - k
  OBVIOUS
<1>4. CASE mine \subseteq pool
  <2>1. pool \cap mine = mine
    BY <1>4
  <2> QED  BY <2>1
<1>5. CASE ~(mine \subseteq pool) /\ Cardinality(pool \cap mine) < k
  <2>1. PICK row \in mine : row \notin pool
    BY <1>5
  <2>2. Cardinality(pool) = n * k
    <3>1. Cardinality(pool) # Cardinality(all)
      BY <1>1, <2>1, FS_Subset
    <3> QED  BY <3>1 DEF Nearest
  <2> DEFINE ahead == Ahead(all \ mine, d, row)
  <2>3. pool \ mine \subseteq ahead
    BY <1>1, <2>1 DEF Nearest, Ahead
  <2>4. Cardinality(pool \ mine) = n * k - Cardinality(pool \cap mine)
    BY <1>1, <1>2, <2>2, FS_Difference
  <2>5. Cardinality(pool \ mine) <= Cardinality(ahead)
    <3>1. ahead \subseteq all
      BY DEF Ahead
    <3> HIDE DEF ahead
    <3> QED  BY <1>2, <2>3, <3>1, FS_Subset
  <2>6. ahead \subseteq all /\ pool \cap mine \subseteq all /\ pool \ mine \subseteq all
    BY <1>1 DEF Ahead
  <2> HIDE DEF ahead
  <2>7. Cardinality(ahead) > (n - 1) * k
    BY <1>2, <1>3, <1>5, <2>4, <2>5, <2>6
  <2>8. row \notin found
    BY <1>1, <2>1
  <2> QED  BY <2>7, <2>8 DEF ahead
<1>6. CASE ~(mine \subseteq pool) /\ Cardinality(pool \cap mine) >= k
  <2>1. Cardinality(mine) \in Nat /\ Cardinality(pool \cap mine) \in Nat
        /\ Cardinality(pool \cap mine) <= Cardinality(mine)
    BY <1>1, <1>2, FS_Subset
  <2>2. Cardinality(found) = IF Cardinality(mine) < k THEN Cardinality(mine) ELSE k
    BY <1>6, <2>1 DEF Nearest
  <2>3. ASSUME NEW x \in found, NEW y \in mine \ found
        PROVE  d[x] <= d[y]
    <3>1. CASE y \in pool
      BY <3>1 DEF Nearest
    <3>2. CASE y \notin pool
      BY <1>1, <3>2 DEF Nearest
    <3> QED  BY <3>1, <3>2
  <2> QED  BY <1>1, <2>2, <2>3 DEF Nearest
<1>7. Cardinality(pool \cap mine) < k \/ Cardinality(pool \cap mine) >= k
  BY <1>1, <1>2
<1> QED  BY <1>4, <1>5, <1>6, <1>7

\* A set of numbers that is not empty has a least one.
LEMMA LeastExists ==
    ASSUME NEW X, X \subseteq Nat, X # {}
    PROVE  \E x \in X : \A y \in X : x <= y
<1>1. PICK x \in X : \A y \in X : <<y, x>> \notin OpToRel(<, Nat)
  BY WFMin, NatLessThanWellFounded, Zenon
<1>2. \A y \in X : ~(y < x)
  BY <1>1, Zenon DEF OpToRel
<1> QED  BY <1>2

\* R holds n of S, and none that is farther than one of the rest.
NearestOf(S, d, n, R) ==
    /\ R \subseteq S /\ Cardinality(R) = n
    /\ \A x \in R, y \in S \ R : d[x] <= d[y]

\* There are n nearest elements for every n up to the size of the set: the nearest
\* n+1 are the nearest n and the nearest of the rest.
LEMMA NearestOfExist ==
    ASSUME NEW S, IsFiniteSet(S), NEW d, \A x \in S : d[x] \in Nat,
           NEW n \in Nat, n <= Cardinality(S)
    PROVE  \E R : NearestOf(S, d, n, R)
<1> DEFINE Bad == {m \in 0..n : ~\E R : NearestOf(S, d, m, R)}
<1>1. NearestOf(S, d, 0, {})
  BY FS_EmptySet DEF NearestOf
<1>2. CASE Bad = {}
  BY <1>2
<1>3. CASE Bad # {}
  <2>1. PICK m \in Bad : \A j \in Bad : m <= j
    <3>1. Bad \subseteq Nat
      OBVIOUS
    <3> HIDE DEF Bad
    <3> QED  BY <1>3, <3>1, LeastExists
  <2>2. m \in 1..n /\ m - 1 \in 0..n /\ m - 1 \notin Bad
    BY <1>1, <2>1
  <2>3. PICK R : NearestOf(S, d, m - 1, R)
    BY <2>2
  <2>4. /\ IsFiniteSet(R) /\ R \subseteq S /\ Cardinality(R) = m - 1
        /\ \A x \in R, y \in S \ R : d[x] <= d[y]
    BY <2>3, FS_Subset DEF NearestOf
  <2>5. R # S
    BY <2>2, <2>4, FS_CardinalityType
  <2> DEFINE X == {d[x] : x \in S \ R}
  <2>6. X \subseteq Nat /\ X # {}
    BY <2>4, <2>5
  <2>7. PICK y \in S \ R : \A x \in S \ R : d[y] <= d[x]
    <3>1. PICK least \in X : \A z \in X : least <= z
      BY <2>6, LeastExists
    <3> QED  BY <3>1
  <2> DEFINE Q == R \cup {y}
  <2>8. Cardinality(Q) = m
    <3>1. Cardinality(Q) = Cardinality(R) + 1
      BY <2>4, <2>7, FS_AddElement
    <3> QED  BY <2>2, <2>4, <3>1
  <2>9. \A x \in Q, z \in S \ Q : d[x] <= d[z]
    BY <2>4, <2>7
  <2>10. NearestOf(S, d, m, Q)
    BY <2>4, <2>7, <2>8, <2>9 DEF NearestOf
  <2> QED  BY <2>1, <2>10
<1> QED  BY <1>2, <1>3

LEMMA NearestExist ==
    ASSUME NEW S, IsFiniteSet(S), NEW d, \A x \in S : d[x] \in Nat, NEW n \in Nat
    PROVE  Nearest(S, d, n) # {}
<1> DEFINE size == IF Cardinality(S) < n THEN Cardinality(S) ELSE n
<1>1. size \in Nat /\ size <= Cardinality(S)
  BY FS_CardinalityType
<1>2. PICK R : NearestOf(S, d, size, R)
  <2> HIDE DEF size
  <2> QED  BY <1>1, NearestOfExist
<1>3. R \in Nearest(S, d, n)
  BY <1>2 DEF NearestOf, Nearest
<1> QED  BY <1>3

\* What a search looks at.
LEMMA SearchFacts ==
    ASSUME IInv, NEW v \in Vectors, NEW s \in Scopes, NEW k \in 1..MaxResults
    PROVE  /\ IsFiniteSet(DOMAIN work.vec) /\ InScope(s) \subseteq DOMAIN work.vec
           /\ \A row \in DOMAIN work.vec : Distances(v)[row] \in Nat
           /\ k \in Nat /\ Pool(k) \in Nat /\ PoolFactor \in Nat /\ Pool(k) = PoolFactor * k
<1>1. work \in Tables /\ OneRowEach(work)
  BY Parts DEF Sound
<1>2. DOMAIN work.vec \subseteq Rows /\ \A row \in DOMAIN work.vec : work.vec[row] \in Vectors
  BY <1>1, TableParts
<1>3. IsFiniteSet(DOMAIN work.vec)
  BY <1>2, RowsAssumption, FS_Subset
<1>4. InScope(s) \subseteq DOMAIN work.vec
  BY <1>1 DEF InScope, OneRowEach
<1>5. \A row \in DOMAIN work.vec : Distances(v)[row] \in Nat
  BY <1>2, DistanceAssumption DEF Distances
<1>6. k \in Nat /\ PoolFactor \in Nat /\ Pool(k) = PoolFactor * k
  BY BoundsAssumption, FactorAssumption DEF Pool
<1> QED  BY <1>3, <1>4, <1>5, <1>6

\* A search filtered by scope misses a near memory only in a crowd of others.
THEOREM SearchIsNearlyComplete == Spec => []SearchMissesTheCrowdedOut
<1>1. ASSUME IInv PROVE SearchMissesTheCrowdedOut
  <2> SUFFICES ASSUME NEW v \in Vectors, NEW s \in Scopes, NEW k \in 1..MaxResults,
                      NEW found \in Results(v, s, k)
               PROVE  NearestOrCrowded(DOMAIN work.vec, InScope(s), Distances(v), k,
                                       PoolFactor, found)
    BY DEF SearchMissesTheCrowdedOut, NearestOrCrowded
  <2> DEFINE all == DOMAIN work.vec
             mine == InScope(s)
             d == Distances(v)
             size == Pool(k)
  <2>1. /\ IsFiniteSet(all) /\ mine \subseteq all /\ \A row \in all : d[row] \in Nat
        /\ k \in Nat /\ PoolFactor \in Nat /\ size = PoolFactor * k
    BY <1>1, SearchFacts
  <2>2. PICK pool \in Nearest(all, d, size) : found \in Nearest(pool \cap mine, d, k)
    BY DEF Results
  <2> HIDE DEF all, mine, d, size
  <2>3. NearestOrCrowded(all, mine, d, k, PoolFactor, found)
    BY <2>1, <2>2, FilteredPool
  <2> QED  BY <2>3 DEF all, mine, d
<1> QED  BY <1>1, InductiveInvariant, PTL

\* A search has an answer, whatever is stored and however many are asked for.
THEOREM SearchAnswers ==
    Spec => [](\A v \in Vectors, s \in Scopes, k \in 1..MaxResults : Results(v, s, k) # {})
<1>1. IInv => \A v \in Vectors, s \in Scopes, k \in 1..MaxResults : Results(v, s, k) # {}
  <2> SUFFICES ASSUME IInv, NEW v \in Vectors, NEW s \in Scopes, NEW k \in 1..MaxResults
               PROVE  Results(v, s, k) # {}
    OBVIOUS
  <2> DEFINE all == DOMAIN work.vec
             mine == InScope(s)
             d == Distances(v)
  <2>1. /\ IsFiniteSet(all) /\ mine \subseteq all /\ \A row \in all : d[row] \in Nat
        /\ k \in Nat /\ Pool(k) \in Nat
    BY SearchFacts
  <2> HIDE DEF all, mine, d
  <2>2. PICK pool : pool \in Nearest(all, d, Pool(k))
    BY <2>1, NearestExist
  <2>3. pool \subseteq all
    BY <2>2 DEF Nearest
  <2>4. IsFiniteSet(pool \cap mine) /\ \A row \in pool \cap mine : d[row] \in Nat
    BY <2>1, <2>3, FS_Subset
  <2>5. PICK found : found \in Nearest(pool \cap mine, d, k)
    BY <2>1, <2>4, NearestExist
  <2> QED  BY <2>2, <2>5 DEF Results, all, mine, d
<1> QED  BY <1>1, InductiveInvariant, PTL
===============================================================================
