---------------------------- MODULE PartitionJobs ----------------------------
(***************************************************************************)
(* The partition executor of the load engine, and everything it shares     *)
(* with its surroundings: the load_run and job_record rows of the          *)
(* database, the Bulk API jobs at Salesforce, the run's in-memory          *)
(* RunContext with its circuit breaker, and the abort endpoint.            *)
(*                                                                         *)
(* A step of a plan is split into partitions; each partition is one        *)
(* coroutine, one JobRecord row and at most one Salesforce job, so all     *)
(* three are indexed by <<step, partition index>>.  Every coroutine has    *)
(* its own database session and never re-reads its row, so what it writes  *)
(* replaces whatever another session wrote there in between.               *)
(*                                                                         *)
(* The coordinators that spawn the coroutines and wait for them extend     *)
(* this module: LoadRun for a full run, RetryRun for the retry of a step.  *)
(***************************************************************************)
EXTENDS Integers, FiniteSets

CONSTANTS
    NSteps,            \* number of steps in the plan
    MaxParts,          \* bound: the most partitions a step is split into
    MaxParallel,       \* LoadPlan.max_parallel_jobs: size of the run's semaphore
    BreakerThreshold,  \* LoadPlan.consecutive_failure_threshold, 0 = no breaker
    MaxRows,           \* bound: the most rows in a partition
    PollCap,           \* sf_job_max_poll_seconds > 0 (0 opts out of the cap)
    Faults             \* the faults this instance may suffer

ASSUME StepsAssumption       == NSteps \in Nat \ {0}
ASSUME PartsAssumption       == MaxParts \in Nat \ {0}
ASSUME ParallelAssumption    == MaxParallel \in Nat \ {0}
ASSUME BreakerAssumption     == BreakerThreshold \in Nat
ASSUME RowsAssumption        == MaxRows \in Nat
ASSUME PollCapAssumption     == PollCap \in BOOLEAN
ASSUME FaultsAssumption      == Faults \subseteq {"raise", "cancel", "crash"}

Steps == 1..NSteps
Jobs  == Steps \X (0..MaxParts - 1)
StepOf(j) == j[1]

TerminalRun == {"completed", "completed_with_errors", "failed", "aborted"}
RunStatus   == {"pending", "running"} \cup TerminalRun

\* JobRecord.status; "none" is a row that does not exist yet.
Unfinished == {"pending", "uploading", "upload_complete", "in_progress"}
Finished   == {"job_complete", "failed", "aborted"}
JobStatus  == {"none"} \cup Unfinished \cup Finished

\* The job at Salesforce; "InProgress" stands for UploadComplete as well.
SfLive     == {"Open", "InProgress"}
SfTerminal == {"JobComplete", "Failed", "Aborted"}
SfState    == {"none"} \cup SfLive \cup SfTerminal

\* Where a partition's coroutine is.  In Holding it holds a semaphore slot.
Holding == {"cleared", "creating", "created", "uploading", "uploaded",
            "marking", "polling", "downloading", "failing", "succeeding"}
InQuery == {"query_created", "query_running"}
Running == {"waiting"} \cup Holding \cup InQuery
Control == {"idle", "returned", "stopped"} \cup Running

VARIABLES
    runStatus,    \* load_run.status
    job,          \* job_record.status of every partition
    sfJobId,      \* job_record.sf_job_id is set
    sf,           \* state of the partition's job at Salesforce
    pc,           \* control state of every partition's coroutine
    result,       \* gather_results: what each coroutine returned
    ctx,          \* RunContext: the circuit breaker
    abortCalled,  \* bulk_client.abort_job was called for the partition's job
    abortPc       \* the abort endpoint: has it read the run's status?

jobVars == <<job, sfJobId, sf, pc, result, ctx, abortCalled>>

NoRows  == [success |-> 0, errors |-> 0]
RowPair == [success: Nat, errors: Nat]

JobsInit ==
    /\ job         = [j \in Jobs |-> "none"]
    /\ sfJobId     = [j \in Jobs |-> FALSE]
    /\ sf          = [j \in Jobs |-> "none"]
    /\ pc          = [j \in Jobs |-> "idle"]
    /\ result      = [j \in Jobs |-> NoRows]
    /\ ctx         = [failures |-> 0, tripped |-> FALSE]
    /\ abortCalled = [j \in Jobs |-> FALSE]

JobsTypeOK ==
    /\ runStatus \in RunStatus
    /\ job \in [Jobs -> JobStatus]
    /\ sfJobId \in [Jobs -> BOOLEAN]
    /\ sf \in [Jobs -> SfState]
    /\ pc \in [Jobs -> Control]
    /\ result \in [Jobs -> RowPair]
    /\ ctx \in [failures: Nat, tripped: BOOLEAN]
    /\ abortCalled \in [Jobs -> BOOLEAN]
    /\ abortPc \in {"idle", "read"}

-----------------------------------------------------------------------------
(* The coroutine of one partition: process_partition.  Each action ends    *)
(* where the code awaits, so that other coroutines, the abort endpoint and *)
(* Salesforce can take steps between any two of them.                      *)

Goto(j, loc) == pc' = [pc EXCEPT ![j] = loc]
SetJob(j, s) == job' = [job EXCEPT ![j] = s]

\* Mutant: the slot is released by hand, and not on the failure paths.
Holders_LeakOnFailure ==
    {j \in Jobs : pc[j] \in Holding \/ (pc[j] = "returned" /\ job[j] = "failed")}

Holders == {j \in Jobs : pc[j] \in Holding}

SlotFree == Cardinality(Holders) < MaxParallel

\* Mutant: the breaker is not consulted before submitting.
MustSkip_AbortOnly == runStatus = "aborted"

\* The two checks made once the slot is taken.
MustSkip == runStatus = "aborted" \/ ctx.tripped

\* A slot is free and the run is neither aborted nor tripped: go ahead.
ClearPartition(j) ==
    /\ pc[j] = "waiting" /\ SlotFree /\ ~MustSkip
    /\ Goto(j, "cleared")
    /\ UNCHANGED <<job, sfJobId, sf, result, ctx, abortCalled>>

\* A slot is free but the run was aborted or its breaker has tripped.
SkipPartition(j) ==
    /\ pc[j] = "waiting" /\ SlotFree /\ MustSkip
    /\ SetJob(j, "aborted")
    /\ Goto(j, "returned")
    /\ UNCHANGED <<sfJobId, sf, result, ctx, abortCalled>>

MarkUploading(j) ==
    /\ pc[j] = "cleared"
    /\ SetJob(j, "uploading")
    /\ Goto(j, "creating")
    /\ UNCHANGED <<sfJobId, sf, result, ctx, abortCalled>>

CreateJob(j) ==
    /\ pc[j] = "creating"
    /\ sf' = [sf EXCEPT ![j] = "Open"]
    /\ Goto(j, "created")
    /\ UNCHANGED <<job, sfJobId, result, ctx, abortCalled>>

\* BulkAPIError from create_job.  The request may have reached Salesforce
\* and its response been lost: then an open job exists that no row names.
CreateJobFails(j) ==
    /\ pc[j] = "creating"
    /\ sf' \in {[sf EXCEPT ![j] = s] : s \in {"none", "Open"}}
    /\ SetJob(j, "failed")
    /\ Goto(j, "failing")
    /\ UNCHANGED <<sfJobId, result, ctx, abortCalled>>

RecordSfJobId(j) ==
    /\ pc[j] = "created"
    /\ sfJobId' = [sfJobId EXCEPT ![j] = TRUE]
    /\ Goto(j, "uploading")
    /\ UNCHANGED <<job, sf, result, ctx, abortCalled>>

UploadAndClose(j) ==
    /\ pc[j] = "uploading" /\ sf[j] = "Open"
    /\ sf' = [sf EXCEPT ![j] = "InProgress"]
    /\ Goto(j, "uploaded")
    /\ UNCHANGED <<job, sfJobId, result, ctx, abortCalled>>

\* BulkAPIError from upload_csv or close_job; a lost response to close_job
\* leaves a job that Salesforce goes on to process.
UploadFails(j) ==
    /\ pc[j] = "uploading"
    /\ \/ UNCHANGED sf
       \/ sf[j] = "Open" /\ sf' = [sf EXCEPT ![j] = "InProgress"]
    /\ SetJob(j, "failed")
    /\ Goto(j, "failing")
    /\ UNCHANGED <<sfJobId, result, ctx, abortCalled>>

MarkUploadComplete(j) ==
    /\ pc[j] = "uploaded"
    /\ SetJob(j, "upload_complete")
    /\ Goto(j, "marking")
    /\ UNCHANGED <<sfJobId, sf, result, ctx, abortCalled>>

MarkInProgress(j) ==
    /\ pc[j] = "marking"
    /\ SetJob(j, "in_progress")
    /\ Goto(j, "polling")
    /\ UNCHANGED <<sfJobId, sf, result, ctx, abortCalled>>

\* A poll that sees a terminal state ends the loop; one that does not only
\* writes progress counters and the heartbeat, and is a stuttering step.
PollTerminal(j) ==
    /\ pc[j] = "polling" /\ sf[j] \in SfTerminal
    /\ Goto(j, "downloading")
    /\ UNCHANGED <<job, sfJobId, sf, result, ctx, abortCalled>>

PollFails(j) ==
    /\ pc[j] = "polling"
    /\ SetJob(j, "failed")
    /\ Goto(j, "failing")
    /\ UNCHANGED <<sfJobId, sf, result, ctx, abortCalled>>

\* Mutant: reaching the cap is only logged.
PollTimesOut_LogOnly(j) ==
    /\ PollCap
    /\ pc[j] = "polling" /\ sf[j] \in SfLive
    /\ UNCHANGED jobVars

\* The cap on the poll loop: best-effort abort at Salesforce, then failure.
PollTimesOut(j) ==
    /\ PollCap
    /\ pc[j] = "polling" /\ sf[j] \in SfLive
    /\ abortCalled' = [abortCalled EXCEPT ![j] = TRUE]
    /\ sf' \in {[sf EXCEPT ![j] = s] : s \in {sf[j], "Aborted"}}
    /\ SetJob(j, "failed")
    /\ Goto(j, "failing")
    /\ UNCHANGED <<sfJobId, result, ctx>>

\* What the three result downloads report.  A download that fails counts
\* nothing, and so does a failed or aborted job that processed nothing.
Downloaded ==
    {r \in [success: 0..MaxRows, errors: 0..MaxRows] :
        r.success + r.errors <= MaxRows}

FinalStatus(s) == CASE s = "JobComplete" -> "job_complete"
                    [] s = "Aborted"     -> "aborted"
                    [] OTHER             -> "failed"

DownloadResults(j) ==
    /\ pc[j] = "downloading"
    /\ \E r \in Downloaded : result' = [result EXCEPT ![j] = r]
    /\ SetJob(j, FinalStatus(sf[j]))
    /\ Goto(j, CASE sf[j] = "JobComplete" -> "succeeding"
                 [] sf[j] = "Aborted"     -> "returned"
                 [] OTHER                 -> "failing")
    /\ UNCHANGED <<sfJobId, sf, ctx, abortCalled>>

\* update_circuit_breaker(success=TRUE)
BreakerSuccess == [ctx EXCEPT !.failures = 0]

\* update_circuit_breaker(success=FALSE)
BreakerFailure ==
    IF BreakerThreshold = 0
    THEN ctx
    ELSE [failures |-> ctx.failures + 1,
          tripped  |-> ctx.tripped \/ ctx.failures + 1 >= BreakerThreshold]

\* The last thing a coroutine does before it gives its slot back.
SettleBreaker(j) ==
    /\ \/ pc[j] = "succeeding" /\ ctx' = BreakerSuccess
       \/ pc[j] = "failing"    /\ ctx' = BreakerFailure
    /\ Goto(j, "returned")
    /\ UNCHANGED <<job, sfJobId, sf, result, abortCalled>>

\* An exception that is no BulkAPIError (a database, storage or publishing
\* error, a malformed response): nothing more is written, not even to the
\* breaker, and gather collects the exception instead of the counts.
Raise(j) ==
    /\ "raise" \in Faults
    /\ pc[j] \in {"waiting"} \cup Holding
    /\ result' = [result EXCEPT ![j] = NoRows]
    /\ Goto(j, "returned")
    /\ UNCHANGED <<job, sfJobId, sf, ctx, abortCalled>>

\* The steps a scheduled coroutine goes on taking; the HTTP client's
\* timeouts make every request of these end in one of its outcomes.
PartitionProgress(j) ==
    \/ ClearPartition(j) \/ SkipPartition(j)
    \/ MarkUploading(j) \/ CreateJob(j) \/ CreateJobFails(j)
    \/ RecordSfJobId(j) \/ UploadAndClose(j) \/ UploadFails(j)
    \/ MarkUploadComplete(j) \/ MarkInProgress(j)
    \/ PollTerminal(j) \/ PollTimesOut(j)
    \/ DownloadResults(j) \/ SettleBreaker(j)

ProcessPartition(j) == PartitionProgress(j) \/ PollFails(j) \/ Raise(j)

-----------------------------------------------------------------------------
(* Salesforce, as the code sees it: a closed job ends in some terminal     *)
(* state, and an administrator or its age can abort one still open.        *)

SalesforceStep(j) ==
    /\ \/ sf[j] = "InProgress" /\ sf' \in {[sf EXCEPT ![j] = s] : s \in SfTerminal}
       \/ sf[j] = "Open"       /\ sf' = [sf EXCEPT ![j] = "Aborted"]
    /\ UNCHANGED <<job, sfJobId, pc, result, ctx, abortCalled>>

-----------------------------------------------------------------------------
(* The abort endpoint: load_run_service.abort_run.  It reads the run in    *)
(* one round trip to the database and writes in another.                   *)

AbortRead ==
    /\ abortPc = "idle" /\ runStatus \in {"pending", "running"}
    /\ abortPc' = "read"
    /\ UNCHANGED <<runStatus, job>>

\* The jobs the UPDATE cascades to.
AbortCascade == {"pending", "uploading", "in_progress"}

\* Mutant: the UPDATE forgets its filter on the row's status.
AbortWrite_EveryRow ==
    /\ abortPc = "read"
    /\ abortPc' = "idle"
    /\ runStatus' = "aborted"
    /\ job' = [j \in Jobs |-> IF job[j] = "none" THEN "none" ELSE "aborted"]

AbortWrite ==
    /\ abortPc = "read"
    /\ abortPc' = "idle"
    /\ runStatus' = "aborted"
    /\ job' = [j \in Jobs |-> IF job[j] \in AbortCascade THEN "aborted" ELSE job[j]]

AbortEndpoint ==
    /\ AbortRead \/ AbortWrite
    /\ UNCHANGED <<sfJobId, sf, pc, result, ctx, abortCalled>>

-----------------------------------------------------------------------------
(* Operators the coordinators share.                                       *)

Partitions(s) == {j \in Jobs : StepOf(j) = s}

\* Mutant: the coordinator goes on when the first coroutine has returned.
Gathered_FirstReturn(s) == \E j \in Partitions(s) : pc[j] = "returned"

\* asyncio.gather is done when every coroutine it was given has returned.
Gathered(s) == \A j \in Partitions(s) : pc[j] \notin Running

\* Mutant: the sweep only looks for jobs that were being uploaded.
Swept_UploadsOnly(s) == [j \in Jobs |-> IF StepOf(j) = s /\ job[j] = "uploading"
                                        THEN "failed" ELSE job[j]]

\* The UPDATE after gather that fails the rows an exception left behind.
Swept(s) == [j \in Jobs |-> IF StepOf(j) = s /\ job[j] \in Unfinished
                            THEN "failed" ELSE job[j]]

\* The coroutines die with their task or their process, in mid-step.
Killed == [j \in Jobs |-> IF pc[j] \in Running THEN "stopped" ELSE pc[j]]
-----------------------------------------------------------------------------
(* What the proofs about both coordinators cite of a step of coroutine j:   *)
(* what it leaves to the other coroutines and to its own row.  Once a row   *)
(* has its final status, its coroutine does not write it again.             *)
OnlyItsOwn(j) ==
    /\ \A i \in Jobs \ {j} : pc'[i] = pc[i] /\ job'[i] = job[i]
    /\ pc[j] \notin Running => pc'[j] = pc[j] /\ job'[j] = job[j]
    /\ pc[j] \in {"failing", "succeeding"} => job'[j] = job[j] /\ pc'[j] \notin Running
    /\ pc[j] \in InQuery => pc'[j] = pc[j] /\ job'[j] = job[j]
    /\ pc'[j] \in InQuery => pc[j] \in InQuery
    /\ job'[j] # "none" \/ job[j] = "none"
    /\ pc'[j] \in Running \ {"failing", "succeeding"} =>
          job'[j] = job[j] \/ job'[j] \in Unfinished
=============================================================================
