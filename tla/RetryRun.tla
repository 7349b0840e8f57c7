------------------------------ MODULE RetryRun ------------------------------
(***************************************************************************)
(* The retry of one step: execute_retry_run.  It is a new LoadRun whose    *)
(* partitions were already built, from the rows that failed before, when   *)
(* the retry was requested.  It shares the partition executor with a full  *)
(* run but none of its safety net: no circuit breaker, no look at the run's *)
(* status, no handler for cancellation and no backstop.                    *)
(***************************************************************************)
EXTENDS PartitionJobs, FiniteSetsExt

ASSUME RetryHasOneStep   == NSteps = 1
ASSUME RetryHasNoBreaker == BreakerThreshold = 0   \* RunContext without threshold

VARIABLES
    control,    \* where the coroutine is
    outcome,    \* the terminal status it means to announce
    notified    \* the status passed to fire_terminal_notifications

retryVars == <<control, outcome, notified>>
vars == <<runStatus, jobVars, abortPc, retryVars>>

RetryControl == {"queued", "preparing", "gathering", "concluding", "publishing",
                 "done", "dead"}

TypeOK ==
    /\ JobsTypeOK
    /\ control \in RetryControl
    /\ outcome \in {"none", "completed", "completed_with_errors", "failed"}
    /\ notified \in {"none", "completed", "completed_with_errors", "failed"}

Init ==
    /\ JobsInit
    /\ runStatus = "pending"
    /\ abortPc = "idle"
    /\ control = "queued"
    /\ outcome = "none"
    /\ notified = "none"

MarkFailed ==
    /\ runStatus' = "failed"
    /\ outcome' = "failed"
    /\ control' = "publishing"

\* The step was deleted since the retry was requested: the run fails before
\* it is ever running.
StepMissing ==
    /\ control = "queued"
    /\ MarkFailed
    /\ UNCHANGED <<jobVars, notified>>

Start ==
    /\ control = "queued"
    /\ runStatus' = "running"
    /\ control' = "preparing"
    /\ UNCHANGED <<jobVars, outcome, notified>>

\* No access token, or the output storage does not resolve.
PrepareFails ==
    /\ control = "preparing"
    /\ MarkFailed
    /\ UNCHANGED <<jobVars, notified>>

\* One JobRecord and one coroutine for each prepared partition.
SpawnPartitions ==
    /\ control = "preparing"
    /\ \E n \in 1..MaxParts :
          LET New == {j \in Jobs : j[2] < n} IN
          /\ job' = [j \in Jobs |-> IF j \in New THEN "pending" ELSE job[j]]
          /\ pc'  = [j \in Jobs |-> IF j \in New THEN "waiting" ELSE pc[j]]
    /\ control' = "gathering"
    /\ UNCHANGED <<runStatus, sfJobId, sf, result, ctx, abortCalled, outcome, notified>>

Sweep ==
    /\ control = "gathering" /\ Gathered(1)
    /\ job' = Swept(1)
    /\ control' = "concluding"
    /\ UNCHANGED <<runStatus, sfJobId, sf, pc, result, ctx, abortCalled, outcome, notified>>

TotalErrors == MapThenSumSet(LAMBDA j : result[j].errors, Jobs)

\* The status is written whatever the row says: an abort is overwritten.
\* Partitions that never loaded a row count no errors.
Conclude ==
    /\ control = "concluding"
    /\ outcome' = IF TotalErrors > 0 THEN "completed_with_errors" ELSE "completed"
    /\ runStatus' = outcome'
    /\ control' = "publishing"
    /\ UNCHANGED <<jobVars, notified>>

Publish ==
    /\ control = "publishing"
    /\ notified' = outcome
    /\ control' = "done"
    /\ UNCHANGED <<runStatus, jobVars, outcome>>

\* The task is cancelled, its process dies, or an exception leaves it: in
\* each case nothing is written and the run keeps the status it has.
Perish ==
    /\ control \notin {"done", "dead"}
    /\ \/ /\ "raise" \in Faults /\ (control = "gathering" => Gathered(1))
          /\ UNCHANGED <<pc, abortPc>>
       \/ "cancel" \in Faults /\ pc' = Killed /\ UNCHANGED abortPc
       \/ "crash" \in Faults /\ pc' = Killed /\ abortPc' = "idle"
    /\ control' = "dead"
    /\ UNCHANGED <<runStatus, job, sfJobId, sf, result, ctx, abortCalled, outcome, notified>>

RetryProgress ==
    \/ StepMissing \/ Start \/ PrepareFails \/ SpawnPartitions
    \/ Sweep \/ Conclude \/ Publish

Next ==
    \/ RetryProgress /\ UNCHANGED abortPc
    \/ Perish
    \/ AbortEndpoint /\ UNCHANGED retryVars
    \/ \E j \in Jobs :
          /\ ProcessPartition(j) \/ SalesforceStep(j)
          /\ UNCHANGED <<runStatus, abortPc, retryVars>>

Spec == Init /\ [][Next]_vars

\* As for a full run: coroutines that can run do, nothing else is assumed.
Fairness ==
    /\ WF_vars(RetryProgress /\ UNCHANGED abortPc)
    /\ \A j \in Jobs :
          WF_vars(PartitionProgress(j) /\ UNCHANGED <<runStatus, abortPc, retryVars>>)

FairSpec == Spec /\ Fairness

-----------------------------------------------------------------------------
(* What must never go wrong.                                               *)

\* A retry that ends as completed or completed with errors has no coroutine
\* alive and no JobRecord left unfinished, whatever its coroutines raised:
\* prepare_retry_step can only pick up finished rows.
RetrySettles ==
    outcome \in {"completed", "completed_with_errors"} =>
        \A j \in Jobs : pc[j] \notin Running /\ job[j] \notin Unfinished

\* Every retry ends and tells its subscribers, whatever exceptions its
\* partitions meet, unless its own task perishes, as long as polling is capped.
RetryEnds ==
    (control = "queued") ~> (control = "dead" \/ (control = "done" /\ notified # "none"))

\* The retry keeps the contract of a run, though it has no backstop: after a
\* fault it says nothing rather than something wrong.
Contract == INSTANCE RunContract
    WITH status <- runStatus, active <- {j \in Jobs : pc[j] \in Running}, told <- notified
KeepsContract == Contract!Spec

\* The shape of the state, and that a retry which says it ended has settled its rows.
RetryIsSound == TypeOK /\ RetrySettles

-----------------------------------------------------------------------------
(* Why: the inductive invariant.                                           *)

\* The coroutine of the retry waits for those of its partitions.
CoroutinesAreGathered ==
    control # "gathering" => \A j \in Jobs : pc[j] \notin Running

\* From the sweep on no row is left unfinished, unless something failed or
\* perished before the retry got there.
SweptRowsStay ==
    control = "concluding" \/ outcome \in {"completed", "completed_with_errors"} =>
        \A j \in Jobs : job[j] \notin Unfinished

\* The outcome is known from Conclude or MarkFailed on, and told at the end.
OutcomeFollowsControl ==
    /\ control \in {"queued", "preparing", "gathering", "concluding"} => outcome = "none"
    /\ control \in {"publishing", "done"} => outcome # "none"
    /\ control # "done" => notified = "none"

\* The run's row, as far as the abort endpoint leaves it alone.
StatusFollowsControl ==
    /\ control = "queued" => runStatus \in {"pending", "aborted"}
    /\ control \in {"preparing", "gathering", "concluding"} => runStatus \in {"running", "aborted"}
    /\ control = "publishing" => runStatus \in {outcome, "aborted"}

RetryIInv ==
    TypeOK /\ CoroutinesAreGathered /\ SweptRowsStay /\ OutcomeFollowsControl /\ StatusFollowsControl
=============================================================================
