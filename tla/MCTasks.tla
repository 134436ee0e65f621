------------------------------ MODULE MCTasks ------------------------------
(* Tasks for TLC: tasks and reads are interchangeable, nothing is replaced. *)
EXTENDS Tasks, TLC

Interchangeable == Permutations(TaskIds) \cup Permutations(Reads)
=============================================================================
