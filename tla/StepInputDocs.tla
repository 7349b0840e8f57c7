--------------------------- MODULE StepInputDocs ---------------------------
(* What the documentation says of the retry of a step.  The code does not   *)
(* keep it, and a run refutes it.                                           *)
EXTENDS StepInput

\* docs/usage/running-loads.md: a retry has "new partitions consisting only
\* of the failed rows from the previous attempt": at the least, every row it
\* sends was one of that attempt.
RetryStaysInAttempt ==
    \A r \in DOMAIN runs : runs[r].of # 0 =>
        Range(Rows(runs[r].jobs)) \subseteq Range(Rows(runs[runs[r].of].jobs))
=============================================================================
