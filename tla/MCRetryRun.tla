----------------------------- MODULE MCRetryRun -----------------------------
(* Small instances of RetryRun for TLC. *)
EXTENDS RetryRun

NoFaults  == {}
AllFaults == {"raise", "cancel", "crash"}
=============================================================================
