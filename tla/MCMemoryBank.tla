----------------------------- MODULE MCMemoryBank -----------------------------
(* Instances of MemoryBank.  Names are interchangeable. *)
EXTENDS MemoryBank, TLC

Interchangeable == Permutations(Texts)
===============================================================================
