------------------------------- MODULE LoadRun -------------------------------
(***************************************************************************)
(* One full run of a load plan: the run coordinator and the step executor  *)
(* around the partitions of PartitionJobs.  The coordinator is one         *)
(* coroutine with one database session; it marks the run running,          *)
(* prepares, executes the plan's steps one after the other, and records    *)
(* and announces how the run ended.  `control' says at which await it is.  *)
(***************************************************************************)
EXTENDS PartitionJobs, FiniteSetsExt

CONSTANTS
    QuerySteps,          \* the steps whose operation is query or queryAll
    ErrorThresholdPct,   \* LoadPlan.error_threshold_pct
    AbortOnStepFailure   \* LoadPlan.abort_on_step_failure

ASSUME QueryStepsAssumption   == QuerySteps \subseteq Steps
ASSUME ThresholdAssumption    == ErrorThresholdPct \in 0..100
ASSUME AbortOnStepAssumption  == AbortOnStepFailure \in BOOLEAN

VARIABLES
    control,   \* where the coordinator is
    step,      \* the step it is at; 0 before the first, NSteps + 1 after the last
    failedSteps,  \* the steps that exceeded the threshold (any_step_failed)
    outcome,   \* the terminal status the coordinator means to announce
    notified   \* the status passed to the one fire_terminal_notifications

coordVars == <<control, step, failedSteps, outcome, notified>>
vars == <<runStatus, jobVars, abortPc, coordVars>>

InStep == {"gathering", "querying"}
InBody == {"preparing", "looping", "entering", "raised", "evaluating", "aborting",
           "recording", "publishing"} \cup InStep
CoordControl == {"queued", "announcing", "leaving", "cancelled", "unwinding",
                 "backstopping", "done", "dead"} \cup InBody

TypeOK ==
    /\ JobsTypeOK
    /\ control \in CoordControl
    /\ step \in 0..NSteps + 1
    /\ failedSteps \subseteq Steps
    /\ outcome \in {"none"} \cup TerminalRun
    /\ notified \in {"none"} \cup TerminalRun

Init ==
    /\ JobsInit
    /\ runStatus = "pending"
    /\ abortPc = "idle"
    /\ control = "queued"
    /\ step = 0
    /\ failedSteps = {}
    /\ outcome = "none"
    /\ notified = "none"

-----------------------------------------------------------------------------
(* Before the first step.                                                  *)

\* The status is overwritten whatever it was: an abort of the pending run
\* does not survive it.
Start ==
    /\ control = "queued"
    /\ runStatus' = "running"
    /\ control' = "announcing"
    /\ UNCHANGED <<jobVars, step, failedSteps, outcome, notified>>

\* publish_run_started, still outside the try block of the backstop.
Announce ==
    /\ control = "announcing"
    /\ control' = "preparing"
    /\ UNCHANGED <<runStatus, jobVars, step, failedSteps, outcome, notified>>

\* Preflight counting never decides anything; output storage and access
\* token resolve.
Prepare ==
    /\ control = "preparing"
    /\ control' = "looping"
    /\ step' = 1
    /\ UNCHANGED <<runStatus, jobVars, failedSteps, outcome, notified>>

\* _mark_run_failed and _mark_run_failed_fresh, on the way to the announcement.
MarkFailed ==
    /\ runStatus' = "failed"
    /\ outcome' = "failed"
    /\ control' = "publishing"

PrepareFails ==
    /\ control = "preparing"
    /\ MarkFailed
    /\ UNCHANGED <<jobVars, step, failedSteps, notified>>

-----------------------------------------------------------------------------
(* The step loop.                                                          *)

\* db.refresh(run) at the top of the loop: the only place where the
\* coordinator looks for an abort.
SeeAbort ==
    /\ control = "looping" /\ step \in Steps
    /\ runStatus = "aborted"
    /\ outcome' = "aborted"
    /\ control' = "publishing"
    /\ UNCHANGED <<runStatus, jobVars, step, failedSteps, notified>>

EnterStep ==
    /\ control = "looping" /\ step \in Steps
    /\ runStatus # "aborted"
    /\ control' = "entering"
    /\ UNCHANGED <<runStatus, jobVars, step, failedSteps, outcome, notified>>

\* No file matched, or no file had a data row: execute_step returns (0, 0).
SkipStep ==
    /\ control = "entering" /\ step \notin QuerySteps
    /\ control' = "evaluating"
    /\ UNCHANGED <<runStatus, jobVars, step, failedSteps, outcome, notified>>

\* One pending JobRecord and one coroutine for each of n partitions.
SpawnPartitions ==
    /\ control = "entering" /\ step \notin QuerySteps
    /\ \E n \in 1..MaxParts :
          LET New == {j \in Partitions(step) : j[2] < n} IN
          /\ job' = [j \in Jobs |-> IF j \in New THEN "pending" ELSE job[j]]
          /\ pc'  = [j \in Jobs |-> IF j \in New THEN "waiting" ELSE pc[j]]
    /\ control' = "gathering"
    /\ UNCHANGED <<runStatus, sfJobId, sf, result, ctx, abortCalled,
                   step, failedSteps, outcome, notified>>

\* InputStorageError or any other exception before the partitions exist, and
\* what a query step raised: the run fails, its rows are left as they are.
StepFails ==
    /\ control \in {"entering", "raised"}
    /\ MarkFailed
    /\ UNCHANGED <<jobVars, step, failedSteps, notified>>

\* Every coroutine has returned; rows that an exception left unfinished fail.
Sweep ==
    /\ control = "gathering" /\ Gathered(step)
    /\ job' = Swept(step)
    /\ control' = "evaluating"
    /\ UNCHANGED <<runStatus, sfJobId, sf, pc, result, ctx, abortCalled,
                   step, failedSteps, outcome, notified>>

\* The UPDATE of the sweep itself raises.
SweepFails ==
    /\ "raise" \in Faults
    /\ control = "gathering" /\ Gathered(step)
    /\ MarkFailed
    /\ UNCHANGED <<jobVars, step, failedSteps, notified>>

\* A query step has a single JobRecord and runs in the coordinator itself.
QueryJob == <<step, 0>>

CreateQueryJob ==
    /\ control = "entering" /\ step \in QuerySteps
    /\ SetJob(QueryJob, "pending")
    /\ Goto(QueryJob, "query_created")
    /\ control' = "querying"
    /\ UNCHANGED <<runStatus, sfJobId, sf, result, ctx, abortCalled,
                   step, failedSteps, outcome, notified>>

BeginQuery ==
    /\ control = "querying" /\ pc[QueryJob] = "query_created"
    /\ SetJob(QueryJob, "in_progress")
    /\ Goto(QueryJob, "query_running")
    /\ UNCHANGED <<runStatus, sfJobId, sf, result, ctx, abortCalled, coordVars>>

\* run_bulk_query returns n rows, or raises: that counts as one error.  The
\* commit and the publication after it are one step here.
EndQuery ==
    /\ control = "querying" /\ pc[QueryJob] = "query_running"
    /\ \/ /\ SetJob(QueryJob, "job_complete")
          /\ \E n \in 0..MaxRows :
                result' = [result EXCEPT ![QueryJob] = [success |-> n, errors |-> 0]]
       \/ /\ SetJob(QueryJob, "failed")
          /\ result' = [result EXCEPT ![QueryJob] = [success |-> 0, errors |-> 1]]
    /\ Goto(QueryJob, "returned")
    /\ control' = "evaluating"
    /\ UNCHANGED <<runStatus, sfJobId, sf, ctx, abortCalled,
                   step, failedSteps, outcome, notified>>

\* An exception that the query step does not catch, in a commit or in what it
\* publishes between two of them: the row stays where the last commit left it.
QueryRaises ==
    /\ "raise" \in Faults
    /\ control = "querying" /\ pc[QueryJob] \in InQuery
    /\ \/ UNCHANGED job
       \/ pc[QueryJob] = "query_created" /\ SetJob(QueryJob, "in_progress")
       \/ pc[QueryJob] = "query_running" /\ \E s \in {"job_complete", "failed"} : SetJob(QueryJob, s)
    /\ Goto(QueryJob, "returned")
    /\ control' = "raised"
    /\ UNCHANGED <<runStatus, sfJobId, sf, result, ctx, abortCalled,
                   step, failedSteps, outcome, notified>>

\* gather_results, and what it adds up to.
GatherResults(s) == [j \in Partitions(s) |-> result[j]]
StepErrors(res)  == MapThenSumSet(LAMBDA j : res[j].errors, DOMAIN res)
StepRecords(res) == StepErrors(res) + MapThenSumSet(LAMBDA j : res[j].success, DOMAIN res)

\* error_rate > threshold; a step without records has an error rate of 0.
OverThreshold(res) == 100 * StepErrors(res) > ErrorThresholdPct * StepRecords(res)
Exceeded(s) == OverThreshold(GatherResults(s))

\* Mutant: any_step_failed only remembers the latest step.
EvaluateStep_ForgetsEarlier ==
    /\ control = "evaluating"
    /\ failedSteps' = IF Exceeded(step) THEN {step} ELSE {}
    /\ IF (Exceeded(step) /\ AbortOnStepFailure) \/ ctx.tripped
       THEN control' = "aborting" /\ UNCHANGED step
       ELSE control' = "looping" /\ step' = step + 1
    /\ UNCHANGED <<runStatus, jobVars, outcome, notified>>

\* After each step: the error threshold first, then the circuit breaker.
EvaluateStep ==
    /\ control = "evaluating"
    /\ failedSteps' = IF Exceeded(step) THEN failedSteps \cup {step} ELSE failedSteps
    /\ IF (Exceeded(step) /\ AbortOnStepFailure) \/ ctx.tripped
       THEN control' = "aborting" /\ UNCHANGED step
       ELSE control' = "looping" /\ step' = step + 1
    /\ UNCHANGED <<runStatus, jobVars, outcome, notified>>

\* _abort_remaining_jobs: abort_job for whatever is in flight at Salesforce,
\* then every row that is not finished becomes aborted.
InFlight == {j \in Jobs : job[j] \in {"uploading", "upload_complete", "in_progress"}}

AbortRemainingJobs ==
    /\ control = "aborting"
    /\ abortCalled' = [j \in Jobs |-> abortCalled[j] \/ (j \in InFlight /\ sfJobId[j])]
    /\ \E refused \in SUBSET InFlight :
          sf' = [j \in Jobs |-> IF j \in InFlight \ refused /\ sfJobId[j] /\ sf[j] \in SfLive
                                THEN "Aborted" ELSE sf[j]]
    /\ job' = [j \in Jobs |-> IF job[j] \in Unfinished THEN "aborted" ELSE job[j]]
    /\ control' = "recording"
    /\ UNCHANGED <<runStatus, sfJobId, pc, result, ctx, step, failedSteps, outcome, notified>>

\* The run is aborted by its threshold or its breaker.
RecordAbort ==
    /\ control = "recording"
    /\ runStatus' = "aborted"
    /\ outcome' = "aborted"
    /\ control' = "publishing"
    /\ UNCHANGED <<jobVars, step, failedSteps, notified>>

\* All steps are done.  The status is written without another look at the
\* row: an abort that came in during the last step is overwritten.
Finalise ==
    /\ control = "looping" /\ step = NSteps + 1
    /\ outcome' = IF failedSteps # {} THEN "completed_with_errors" ELSE "completed"
    /\ runStatus' = outcome'
    /\ control' = "publishing"
    /\ UNCHANGED <<jobVars, step, failedSteps, notified>>

-----------------------------------------------------------------------------
(* How a run ends.                                                         *)

\* Mutant: no guard against a second notification for the same run.
NotifyOnce_EveryCall(status) == notified' = status

\* fire_terminal_notifications: the first call for a run id wins.
NotifyOnce(status) == notified' = IF notified = "none" THEN status ELSE notified

\* The terminal WebSocket event, then the notification.
Publish ==
    /\ control = "publishing"
    /\ NotifyOnce(outcome)
    /\ control' = "leaving"
    /\ UNCHANGED <<runStatus, jobVars, step, failedSteps, outcome>>

\* An exception that no handler of the body catches: the database fails, or
\* publishing does, anywhere outside execute_step.
BodyRaises ==
    /\ "raise" \in Faults
    /\ control \in InBody \ ({"entering"} \cup InStep)
    /\ control' = "unwinding"
    /\ UNCHANGED <<runStatus, jobVars, step, failedSteps, outcome, notified>>

\* The task is cancelled at an await of the body; gather first cancels the
\* coroutines it waits for.  Leaving the body is an await only inside the
\* Salesforce client's context, that is, before Finalise.
Cancel ==
    /\ "cancel" \in Faults
    /\ \/ control \in InBody
       \/ control = "leaving" /\ step \in Steps
    /\ pc' = Killed
    /\ control' = "cancelled"
    /\ UNCHANGED <<runStatus, job, sfJobId, sf, result, ctx, abortCalled,
                   step, failedSteps, outcome, notified>>

\* Cancelled, or struck by an exception, before the try block is entered:
\* nothing handles it and the run stays as it is.
PerishEarly ==
    /\ {"cancel", "raise"} \cap Faults # {}
    /\ control \in {"queued", "announcing"}
    /\ control' = "dead"
    /\ UNCHANGED <<runStatus, jobVars, step, failedSteps, outcome, notified>>

\* _mark_run_aborted_fresh, whatever the status is by now.
HandleCancel ==
    /\ control = "cancelled"
    /\ runStatus' = "aborted"
    /\ NotifyOnce("aborted")
    /\ control' = "unwinding"
    /\ UNCHANGED <<jobVars, step, failedSteps, outcome>>

\* Mutant: the finally block does nothing.
Backstop_Absent ==
    /\ control \in {"leaving", "unwinding"}
    /\ control' = "done"
    /\ UNCHANGED <<runStatus, jobVars, step, failedSteps, outcome, notified>>

\* The finally block: _backstop_mark_failed_if_running reads the status ...
Backstop ==
    /\ control \in {"leaving", "unwinding"}
    /\ control' = IF runStatus = "running" THEN "backstopping" ELSE "done"
    /\ UNCHANGED <<runStatus, jobVars, step, failedSteps, outcome, notified>>

\* ... and writes it in a second round trip.
BackstopWrite ==
    /\ control = "backstopping"
    /\ runStatus' = "failed"
    /\ NotifyOnce("failed")
    /\ control' = "done"
    /\ UNCHANGED <<jobVars, step, failedSteps, outcome>>

\* The process dies.  Nothing recovers the run at the next boot.
Crash ==
    /\ "crash" \in Faults
    /\ control \notin {"done", "dead"}
    /\ pc' = Killed
    /\ control' = "dead"
    /\ abortPc' = "idle"
    /\ UNCHANGED <<runStatus, job, sfJobId, sf, result, ctx, abortCalled,
                   step, failedSteps, outcome, notified>>

-----------------------------------------------------------------------------
(* The steps a coordinator that is not struck by a fault goes on taking.   *)
CoordProgress ==
    \/ Start \/ Announce \/ Prepare \/ PrepareFails
    \/ SeeAbort \/ EnterStep \/ SkipStep \/ SpawnPartitions \/ StepFails \/ Sweep
    \/ CreateQueryJob \/ BeginQuery
    \/ EvaluateStep \/ AbortRemainingJobs \/ RecordAbort \/ Finalise
    \/ Publish \/ HandleCancel \/ Backstop \/ BackstopWrite

Coordinator == CoordProgress \/ EndQuery \/ QueryRaises \/ SweepFails \/ BodyRaises \/ Cancel \/ PerishEarly

Next ==
    \/ Coordinator /\ UNCHANGED abortPc
    \/ Crash
    \/ AbortEndpoint /\ UNCHANGED coordVars
    \/ \E j \in Jobs :
          /\ ProcessPartition(j) \/ SalesforceStep(j)
          /\ UNCHANGED <<runStatus, abortPc, coordVars>>

Spec == Init /\ [][Next]_vars

\* The event loop runs every coroutine that can run, and an HTTP request or
\* a database round trip ends.  Nothing is assumed of Salesforce, of the
\* user, or of the faults: only the cap on its poll loop ends a query.
Fairness ==
    /\ WF_vars(CoordProgress /\ UNCHANGED abortPc)
    /\ PollCap => WF_vars(EndQuery /\ UNCHANGED abortPc)
    /\ \A j \in Jobs :
          WF_vars(PartitionProgress(j) /\ UNCHANGED <<runStatus, abortPc, coordVars>>)

FairSpec == Spec /\ Fairness

-----------------------------------------------------------------------------
(* What must never go wrong.                                               *)

\* Steps run one after the other: once a step has a JobRecord, no coroutine
\* of an earlier step is alive and no row of it is unfinished, even when
\* coroutines fail with exceptions nobody handles (execute_step, gather and
\* the sweep after it).
StepsAreSequential ==
    \A i, j \in Jobs :
        StepOf(i) < StepOf(j) /\ job[j] # "none" =>
            pc[i] \notin Running /\ job[i] \notin Unfinished

\* When the threshold or the breaker aborts a run, its step has already been
\* gathered and swept: _abort_remaining_jobs never finds a job to abort.
NothingInFlightAtAbort ==
    control = "aborting" =>
        \A j \in Jobs : pc[j] \notin Running /\ job[j] \notin Unfinished

\* An exception ended the step, or a cancellation, a crash or the backstop
\* cut the run short: nobody sweeps what the step left behind.
CutShort ==
    \/ outcome = "failed"
    \/ outcome = "none" /\ control \in {"cancelled", "unwinding", "backstopping", "done", "dead"}

\* What is announced is settled.  Once the coordinator has its verdict, or has
\* told anybody anything, no coroutine is alive; a row is unfinished only in
\* the step under way, while the sweep is still to come, or for good if the
\* run was cut short there.  So a run announced as completed, with or without
\* errors, left no row unfinished, nor did one that its threshold, its breaker
\* or the abort it found aborted, rows the endpoint passed over included.  A run
\* announced as aborted because it was cancelled, or as failed, may have.
SettledWhenAnnounced ==
    /\ outcome # "none" \/ notified # "none" => \A j \in Jobs : pc[j] \notin Running
    /\ \A j \in Jobs : job[j] \in Unfinished =>
          /\ StepOf(j) = step
          /\ control \in InStep \cup {"raised"} \/ CutShort
    /\ notified \in {"completed", "completed_with_errors"} =>
          \A j \in Jobs : job[j] \notin Unfinished

\* A completed run ran every step, kept every step within the threshold and
\* never tripped its breaker; one completed with errors had a step over the
\* threshold and a plan that lets it continue.  The errors of a step are those
\* its jobs' results report: a partition that failed before its results, or
\* by an exception, counts none (see LoadRunDocs).
CompletedIsEarned ==
    /\ runStatus = "completed" =>
          step = NSteps + 1 /\ ~ctx.tripped /\ \A s \in Steps : ~Exceeded(s)
    /\ runStatus = "completed_with_errors" =>
          /\ step = NSteps + 1 /\ ~ctx.tripped /\ ~AbortOnStepFailure
          /\ \E s \in Steps : Exceeded(s)

\* Once the breaker has tripped, only coroutines that were already past its
\* check can still create a job: fewer than the semaphore has slots, and
\* never one that was waiting, in this step or a later one.
TripStopsSubmission ==
    ctx.tripped =>
        Cardinality({j \in Jobs : pc[j] \in {"cleared", "creating"}}) < MaxParallel

\* When the coordinator's task ends by itself, however it got there, the run
\* has a terminal status: the backstop leaves no run behind as running.
DoneIsTerminal == control = "done" => runStatus \in TerminalRun

\* The status the subscribers were told is the run's final status, unless an
\* abort or a cancellation overtook the announcement.
NotifiedIsFinal ==
    control = "done" /\ notified # "none" => runStatus \in {notified, "aborted"}

\* A JobRecord that is complete or failed never changes again: neither the
\* sweep, the abort endpoint, the coordinator nor its own coroutine touches it.
\* One that the endpoint or the coordinator aborted is written over by its own
\* coroutine, which does not look, and by nobody else: it is final as soon as
\* that coroutine has ended.
FinishedRowsAreFinal ==
    [][\A j \in Jobs :
          /\ job[j] \in {"job_complete", "failed"} => job'[j] = job[j]
          /\ job[j] = "aborted" /\ pc[j] \notin Running => job'[j] = "aborted"]_job

\* A terminal status is only ever replaced by `aborted', and only `aborted'
\* is ever replaced by something else: a run that failed never completes, and
\* one that completed never fails.
OnlyAbortRewritesTerminal ==
    [][(runStatus \in TerminalRun) =>
          runStatus = "aborted" \/ runStatus' = "aborted"]_runStatus

\* Every run that is started ends, whatever Salesforce does, as long as polling
\* is capped: it tells its subscribers, unless its process or its task dies
\* before the handlers are in place or an exception unwinds it; and then the
\* backstop lets it end.
RunEnds ==
    /\ (control = "queued") ~>
          (control \in {"dead", "unwinding"} \/ (control = "done" /\ notified # "none"))
    /\ (control = "unwinding") ~> (control \in {"done", "dead"})

-----------------------------------------------------------------------------
(* The inductive invariant behind the safety properties: how the rows, the *)
(* coroutines and the verdict depend on where the coordinator is.          *)

BeforeVerdict == {"queued", "announcing", "preparing", "looping", "entering",
                  "raised", "evaluating", "aborting", "recording"} \cup InStep
BetweenSteps  == BeforeVerdict \ (InStep \cup {"raised"})

StepFollowsControl ==
    /\ control \in {"queued", "announcing", "preparing"} => step = 0
    /\ control \in {"entering", "raised", "evaluating"} \cup InStep => step \in Steps

\* Coroutines are alive only while the coordinator waits for them.
CoroutinesFollowControl ==
    \A j \in Jobs : pc[j] \in Running =>
        \/ control = "gathering" /\ StepOf(j) = step /\ pc[j] \notin InQuery
        \/ control = "querying" /\ j = QueryJob /\ pc[j] \in InQuery

\* Rows appear step by step, and only the current step has unfinished ones.
RowsFollowStep ==
    \A j \in Jobs :
        /\ job[j] # "none" => StepOf(j) <= step
        /\ control \in {"looping", "entering"} /\ job[j] # "none" => StepOf(j) < step
        /\ job[j] \in Unfinished =>
              StepOf(j) = step /\ control \notin BetweenSteps /\ outcome \in {"none", "failed"}
        /\ control = "querying" /\ job[j] \in Unfinished => j = QueryJob

\* A coroutine that will still write its row finds it unfinished or aborted.
RowsAwaitCoroutines ==
    \A j \in Jobs :
        pc[j] \in Running \ {"failing", "succeeding"} => job[j] \in Unfinished \cup {"aborted"}

StatusFollowsControl ==
    /\ runStatus = "pending" => control \in {"queued", "dead"}
    /\ control = "queued" => runStatus \in {"pending", "aborted"}
    /\ control \in (BeforeVerdict \ {"queued"}) \cup {"backstopping"} =>
          runStatus \in {"running", "aborted"}
    /\ control = "publishing" => runStatus \in {outcome, "aborted"}

VerdictFollowsControl ==
    /\ control \in BeforeVerdict => outcome = "none"
    /\ control \in BeforeVerdict \cup {"publishing", "backstopping"} => notified = "none"
    /\ control \in {"publishing", "leaving"} => outcome # "none"
    /\ notified # "none" => runStatus \in {notified, "aborted"}
    /\ notified \in {"completed", "completed_with_errors"} => outcome = notified

IInv ==
    /\ TypeOK
    /\ StepFollowsControl
    /\ CoroutinesFollowControl
    /\ RowsFollowStep
    /\ RowsAwaitCoroutines
    /\ StatusFollowsControl
    /\ VerdictFollowsControl
    /\ DoneIsTerminal

\* No more coroutines hold a slot than the semaphore has, and a tripped
\* breaker leaves fewer on their way to a submission.
SlotsInv == Cardinality(Holders) <= MaxParallel /\ TripStopsSubmission

\* The coordinator's memory of its steps is what their results say: the failed steps
\* are those over the threshold, a plan that stops at one has passed none, and a step
\* that comes next, or the end, finds the breaker closed.
EarnedSoFar ==
    /\ \A s \in Steps : s < step => (s \in failedSteps <=> Exceeded(s))
    /\ AbortOnStepFailure => \A s \in failedSteps : s >= step
    /\ control \in BeforeVerdict \ {"aborting", "recording"} => \A s \in failedSteps : s < step
    /\ control \in BeforeVerdict \ {"gathering", "evaluating", "aborting", "recording"} => ~ctx.tripped
    /\ step = NSteps + 1 => ~ctx.tripped
    /\ runStatus = "completed" => step = NSteps + 1 /\ failedSteps = {}
    /\ runStatus = "completed_with_errors" => step = NSteps + 1 /\ failedSteps # {}

-----------------------------------------------------------------------------
\* The coordinator keeps the contract of a run: batches of coroutines never
\* overlap, nothing is concluded while one is alive, and after the
\* notification the run can only still be marked aborted.
Contract == INSTANCE RunContract
    WITH status <- runStatus, active <- {j \in Jobs : pc[j] \in Running}, told <- notified
KeepsContract == Contract!Spec
=============================================================================
