---------------------------- MODULE MCToolCalls ----------------------------
(* ToolCalls for TLC: the number of calls is small, nothing is replaced.   *)
EXTENDS ToolCalls
=============================================================================
