---------------------------- MODULE MCAgentLoop ----------------------------
(* AgentLoop for TLC.  Messages that no log restores are interchangeable;   *)
(* the runs that check liveness do not use the symmetry.                    *)
EXTENDS AgentLoop

Interchangeable == Permutations(Message \ Restored)
=============================================================================
