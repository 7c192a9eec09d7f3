----------------------------- MODULE MCMemoryStore -----------------------------
(* Instances of MemoryStore: embeddings are points on a line.  Ids and rowids
   are interchangeable. *)
EXTENDS MemoryStore, TLC

MCVectors == 0..1
MCDistance == [p \in MCVectors \X MCVectors |-> IF p[1] = p[2] THEN 0 ELSE 1]
Interchangeable == Permutations(Ids) \cup Permutations(Rows)
===============================================================================
