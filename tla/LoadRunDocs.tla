---------------------------- MODULE LoadRunDocs ----------------------------
(* What the documentation says of a completed run.  The code does not keep  *)
(* it, and a run refutes it.                                                *)
EXTENDS LoadRun

\* docs/usage/running-loads.md: completed means "All steps completed with no
\* failures beyond the error threshold": at the least, and unless the threshold
\* lets everything fail, no step of the run had every one of its jobs fail.
CompletedIsWithinThreshold ==
    runStatus = "completed" /\ ErrorThresholdPct < 100 =>
        \A s \in Steps : LET ran == {j \in Partitions(s) : job[j] # "none"} IN
                         ran # {} => \E j \in ran : job[j] # "failed"
=============================================================================
