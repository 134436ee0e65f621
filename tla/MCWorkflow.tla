----------------------------- MODULE MCWorkflow -----------------------------
(* Workflow for TLC: two agent calls that share one slot or have one each. *)
EXTENDS Workflow
=============================================================================
