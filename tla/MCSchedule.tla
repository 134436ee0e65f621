----------------------------- MODULE MCSchedule -----------------------------
(* Schedule for TLC: a one-shot and a fixed rate, in ticks.                 *)
EXTENDS Schedule
Once(n)  == [after |-> n, every |-> 0]
Every(n) == [after |-> n, every |-> n]
TwoRules == {Once(2), Every(1)}
=============================================================================
