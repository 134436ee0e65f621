----------------------------- MODULE MCWritePath -----------------------------
(* WritePath for TLC.  Callers are interchangeable in the safety runs.      *)
EXTENDS WritePath, TLC

Interchangeable == Permutations(Callers)
=============================================================================
