-------------------------- MODULE MCCrashRecovery --------------------------
(* CrashRecovery for TLC: small bounds, nothing is replaced.               *)
EXTENDS CrashRecovery
=============================================================================
