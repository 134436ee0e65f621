--------------------------- MODULE MCContinuation ---------------------------
(* Continuation for TLC: a child of a host-owned agent, and its own child. *)
EXTENDS Continuation, TLC
CONSTANTS p, c, root
Line == p :> root @@ c :> p
=============================================================================
