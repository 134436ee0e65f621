--------------------------- MODULE MCPreparations ---------------------------
(* Preparations for TLC: callers of one kind are interchangeable.           *)
EXTENDS Preparations, TLC

Interchangeable == Permutations(Resumers) \cup Permutations(Inspectors)
=============================================================================
