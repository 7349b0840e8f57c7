----------------------------- MODULE LoadRunProofs -----------------------------
(***************************************************************************)
(* Proofs about LoadRun for every plan: any number of steps, partitions,   *)
(* slots and rows, any threshold, and any of the faults.                   *)
(***************************************************************************)
EXTENDS LoadRun, FiniteSetTheorems, TLAPS

-----------------------------------------------------------------------------
(* The steps of the partitions, of Salesforce and of the abort endpoint:    *)
(* they keep the types, and a coroutine changes only what is its own.       *)

\* The bounds of the model keep their meaning: counts of rows are numbers.
LEMMA RowsAreCounted == \A r \in Downloaded : r \in RowPair
  BY RowsAssumption, SMT DEF Downloaded, RowPair

\* A step of a coroutine keeps the types of everything it shares.
LEMMA PartitionTypes ==
    ASSUME JobsTypeOK, NEW j \in Jobs, ProcessPartition(j),
           UNCHANGED <<runStatus, abortPc>>
    PROVE  JobsTypeOK'
<1> USE DEF JobsTypeOK, JobStatus, Unfinished, Finished, SfState, SfLive, SfTerminal,
            Control, Running, Holding, InQuery, Goto, SetJob
<1>1. CASE ClearPartition(j) BY <1>1 DEF ClearPartition
<1>2. CASE SkipPartition(j) BY <1>2 DEF SkipPartition
<1>3. CASE MarkUploading(j) BY <1>3 DEF MarkUploading
<1>4. CASE CreateJob(j) BY <1>4 DEF CreateJob
<1>5. CASE CreateJobFails(j) BY <1>5 DEF CreateJobFails
<1>6. CASE RecordSfJobId(j) BY <1>6 DEF RecordSfJobId
<1>7. CASE UploadAndClose(j) BY <1>7 DEF UploadAndClose
<1>8. CASE UploadFails(j) BY <1>8 DEF UploadFails
<1>9. CASE MarkUploadComplete(j) BY <1>9 DEF MarkUploadComplete
<1>10. CASE MarkInProgress(j) BY <1>10 DEF MarkInProgress
<1>11. CASE PollTerminal(j) BY <1>11 DEF PollTerminal
<1>12. CASE PollTimesOut(j) BY <1>12 DEF PollTimesOut
<1>13. CASE DownloadResults(j)
  <2>1. result' \in [Jobs -> RowPair]
    BY <1>13, RowsAreCounted DEF DownloadResults
  <2>2. FinalStatus(sf[j]) \in JobStatus
    BY DEF FinalStatus
  <2>. QED BY <1>13, <2>1, <2>2 DEF DownloadResults
<1>14. CASE SettleBreaker(j)
  <2>1. ctx' \in [failures: Nat, tripped: BOOLEAN]
    <3>1. ctx.failures \in Nat /\ ctx.tripped \in BOOLEAN
      OBVIOUS
    <3>2. ctx.failures + 1 \in Nat
      BY <3>1
    <3>3. (ctx.tripped \/ ctx.failures + 1 >= BreakerThreshold) \in BOOLEAN
      BY Zenon
    <3>4. BreakerFailure \in [failures: Nat, tripped: BOOLEAN]
      BY <3>2, <3>3, Zenon DEF BreakerFailure
    <3>5. BreakerSuccess \in [failures: Nat, tripped: BOOLEAN]
      BY DEF BreakerSuccess
    <3>. QED BY <1>14, <3>4, <3>5, Zenon DEF SettleBreaker
  <2>. QED BY <1>14, <2>1 DEF SettleBreaker
<1>15. CASE PollFails(j) BY <1>15 DEF PollFails
<1>16. CASE Raise(j) BY <1>16, SMT DEF Raise, NoRows, RowPair
<1>. QED
  BY <1>1, <1>2, <1>3, <1>4, <1>5, <1>6, <1>7, <1>8, <1>9, <1>10, <1>11, <1>12,
     <1>13, <1>14, <1>15, <1>16 DEF ProcessPartition, PartitionProgress

\* So does a step of Salesforce.
LEMMA SalesforceTypes ==
    ASSUME JobsTypeOK, NEW j \in Jobs, SalesforceStep(j),
           UNCHANGED <<runStatus, abortPc>>
    PROVE  JobsTypeOK'
  BY DEF JobsTypeOK, SalesforceStep, SfState, SfLive, SfTerminal

\* And a step of the abort endpoint.
LEMMA AbortTypes ==
    ASSUME JobsTypeOK, AbortEndpoint
    PROVE  JobsTypeOK'
<1>1. CASE AbortRead BY <1>1 DEF AbortEndpoint, AbortRead, JobsTypeOK
<1>2. CASE AbortWrite
  BY <1>2 DEF AbortEndpoint, AbortWrite, JobsTypeOK, RunStatus, TerminalRun,
              JobStatus, Unfinished, Finished
<1>. QED BY <1>1, <1>2 DEF AbortEndpoint

\* A coroutine changes its own row and its own control state, and only while
\* it is alive; once its row has a final status it does not write it again.
LEMMA PartitionStep ==
    ASSUME JobsTypeOK, NEW j \in Jobs, ProcessPartition(j)
    PROVE  OnlyItsOwn(j)
<1> USE DEF OnlyItsOwn, JobsTypeOK, Unfinished, Running, Holding, InQuery, Goto, SetJob
<1>1. CASE ClearPartition(j) BY <1>1 DEF ClearPartition
<1>2. CASE SkipPartition(j) BY <1>2 DEF SkipPartition
<1>3. CASE MarkUploading(j) BY <1>3 DEF MarkUploading
<1>4. CASE CreateJob(j) BY <1>4 DEF CreateJob
<1>5. CASE CreateJobFails(j) BY <1>5 DEF CreateJobFails
<1>6. CASE RecordSfJobId(j) BY <1>6 DEF RecordSfJobId
<1>7. CASE UploadAndClose(j) BY <1>7 DEF UploadAndClose
<1>8. CASE UploadFails(j) BY <1>8 DEF UploadFails
<1>9. CASE MarkUploadComplete(j) BY <1>9 DEF MarkUploadComplete
<1>10. CASE MarkInProgress(j) BY <1>10 DEF MarkInProgress
<1>11. CASE PollTerminal(j) BY <1>11 DEF PollTerminal
<1>12. CASE PollTimesOut(j) BY <1>12 DEF PollTimesOut
<1>13. CASE DownloadResults(j) BY <1>13 DEF DownloadResults, FinalStatus
<1>14. CASE SettleBreaker(j) BY <1>14 DEF SettleBreaker
<1>15. CASE PollFails(j) BY <1>15 DEF PollFails
<1>16. CASE Raise(j) BY <1>16 DEF Raise
<1>. QED
  BY <1>1, <1>2, <1>3, <1>4, <1>5, <1>6, <1>7, <1>8, <1>9, <1>10, <1>11, <1>12,
     <1>13, <1>14, <1>15, <1>16 DEF ProcessPartition, PartitionProgress

-----------------------------------------------------------------------------
(* Facts that the steps of the proof share.                                *)

\* A step number is a natural number, and the number after a step is in range.
LEMMA StepNumbers ==
    /\ \A s \in Steps : s \in Nat /\ s + 1 \in 0..NSteps + 1 /\ s \in 0..NSteps + 1
    /\ 0 \in 0..NSteps + 1 /\ 1 \in 0..NSteps + 1
    /\ \A j \in Jobs : StepOf(j) \in Steps
    /\ \A s \in Steps : <<s, 0>> \in Jobs
  BY StepsAssumption, PartsAssumption DEF Steps, Jobs, StepOf

\* A coroutine that is killed with its task is not running, and the others
\* stay where they were.
LEMMA KilledType ==
    ASSUME JobsTypeOK
    PROVE  /\ Killed \in [Jobs -> Control]
           /\ \A j \in Jobs : Killed[j] \notin Running
  BY DEF JobsTypeOK, Killed, Control, Running, Holding, InQuery

-----------------------------------------------------------------------------
(* Types.                                                                  *)

\* The initial state has the types it should.
LEMMA InitTypes == Init => TypeOK
<1> SUFFICES ASSUME Init PROVE TypeOK
  OBVIOUS
<1>1. JobsTypeOK
  BY SMT DEF Init, JobsInit, JobsTypeOK, RunStatus, JobStatus, SfState, Control, RowPair, NoRows
<1>2. step \in 0..NSteps + 1
  BY StepNumbers DEF Init
<1>. QED BY <1>1, <1>2 DEF Init, TypeOK, CoordControl

\* The steps of the coordinator that end or touch no coroutine.
LEMMA CoordTypes ==
    ASSUME TypeOK, StepFollowsControl, Coordinator /\ UNCHANGED abortPc
    PROVE  TypeOK'
<1> USE DEF TypeOK, JobsTypeOK, jobVars, CoordControl, InBody, InStep, RunStatus, TerminalRun
<1>1. CASE Start BY <1>1 DEF Start
<1>2. CASE Announce BY <1>2 DEF Announce
<1>3. CASE Prepare BY <1>3, StepNumbers DEF Prepare
<1>4. CASE PrepareFails BY <1>4 DEF PrepareFails, MarkFailed
<1>5. CASE SeeAbort BY <1>5 DEF SeeAbort
<1>6. CASE EnterStep BY <1>6 DEF EnterStep
<1>7. CASE SkipStep BY <1>7 DEF SkipStep
<1>8. CASE SpawnPartitions
  <2>1. job' \in [Jobs -> JobStatus] /\ pc' \in [Jobs -> Control]
    BY <1>8 DEF SpawnPartitions, JobStatus, Unfinished, Control, Running
  <2>. QED BY <1>8, <2>1 DEF SpawnPartitions
<1>9. CASE StepFails BY <1>9 DEF StepFails, MarkFailed
<1>10. CASE Sweep BY <1>10 DEF Sweep, Swept, JobStatus, Finished
<1>11. CASE CreateQueryJob
  BY <1>11 DEF CreateQueryJob, SetJob, Goto, JobStatus, Unfinished, Control, Running, InQuery
<1>12. CASE BeginQuery
  BY <1>12 DEF BeginQuery, SetJob, Goto, JobStatus, Unfinished, Control, Running, InQuery, coordVars
<1>13. CASE EvaluateStep
  <2>1. step' \in 0..NSteps + 1
    BY <1>13, StepNumbers DEF EvaluateStep, StepFollowsControl
  <2>2. failedSteps' \subseteq Steps
    BY <1>13, <2>1 DEF EvaluateStep, StepFollowsControl
  <2>. QED BY <1>13, <2>1, <2>2 DEF EvaluateStep
<1>14. CASE AbortRemainingJobs
  <2>1. abortCalled' \in [Jobs -> BOOLEAN]
    BY <1>14, Zenon DEF AbortRemainingJobs
  <2>2. sf' \in [Jobs -> SfState]
    BY <1>14 DEF AbortRemainingJobs, SfState, SfTerminal
  <2>3. job' \in [Jobs -> JobStatus]
    BY <1>14 DEF AbortRemainingJobs, JobStatus, Finished
  <2>. QED BY <1>14, <2>1, <2>2, <2>3 DEF AbortRemainingJobs
<1>15. CASE RecordAbort BY <1>15 DEF RecordAbort
<1>16. CASE Finalise BY <1>16 DEF Finalise
<1>17. CASE Publish BY <1>17 DEF Publish, NotifyOnce
<1>18. CASE HandleCancel BY <1>18 DEF HandleCancel, NotifyOnce
<1>19. CASE Backstop BY <1>19 DEF Backstop
<1>20. CASE BackstopWrite BY <1>20 DEF BackstopWrite, NotifyOnce
<1>21. CASE EndQuery
  <2>1. result' \in [Jobs -> RowPair]
    BY <1>21, RowsAssumption DEF EndQuery, RowPair
  <2>2. job' \in [Jobs -> JobStatus] /\ pc' \in [Jobs -> Control]
    BY <1>21 DEF EndQuery, SetJob, Goto, JobStatus, Finished, Control
  <2>. QED BY <1>21, <2>1, <2>2 DEF EndQuery
<1>22. CASE SweepFails BY <1>22 DEF SweepFails, MarkFailed
<1>23. CASE BodyRaises BY <1>23 DEF BodyRaises
<1>24. CASE Cancel BY <1>24, KilledType DEF Cancel
<1>25. CASE PerishEarly BY <1>25 DEF PerishEarly
<1>26. CASE QueryRaises
  <2>1. job' \in [Jobs -> JobStatus] /\ pc' \in [Jobs -> Control]
    BY <1>26 DEF QueryRaises, SetJob, Goto, JobStatus, Unfinished, Finished, Control
  <2>. QED BY <1>26, <2>1 DEF QueryRaises
<1>. QED
  BY <1>1, <1>2, <1>3, <1>4, <1>5, <1>6, <1>7, <1>8, <1>9, <1>10, <1>11, <1>12,
     <1>13, <1>14, <1>15, <1>16, <1>17, <1>18, <1>19, <1>20, <1>21, <1>22, <1>23,
     <1>24, <1>25, <1>26 DEF Coordinator, CoordProgress

-----------------------------------------------------------------------------
(* The invariant, one part at a time, over the steps of the coordinator.   *)

\* The step counter is where the coordinator's control says.
LEMMA CoordStep ==
    ASSUME TypeOK, StepFollowsControl, Coordinator
    PROVE  StepFollowsControl'
<1> USE DEF StepFollowsControl, InBody, InStep, TypeOK, CoordControl
<1>1. CASE Start BY <1>1 DEF Start
<1>2. CASE Announce BY <1>2 DEF Announce
<1>3. CASE Prepare
  BY <1>3 DEF Prepare
<1>4. CASE PrepareFails BY <1>4 DEF PrepareFails, MarkFailed
<1>5. CASE SeeAbort BY <1>5 DEF SeeAbort
<1>6. CASE EnterStep
  BY <1>6 DEF EnterStep
<1>7. CASE SkipStep BY <1>7 DEF SkipStep
<1>8. CASE SpawnPartitions BY <1>8 DEF SpawnPartitions
<1>9. CASE StepFails BY <1>9 DEF StepFails, MarkFailed
<1>10. CASE Sweep BY <1>10 DEF Sweep
<1>11. CASE CreateQueryJob BY <1>11 DEF CreateQueryJob
<1>12. CASE BeginQuery BY <1>12 DEF BeginQuery, coordVars
<1>13. CASE EvaluateStep BY <1>13 DEF EvaluateStep
<1>14. CASE AbortRemainingJobs BY <1>14 DEF AbortRemainingJobs
<1>15. CASE RecordAbort BY <1>15 DEF RecordAbort
<1>16. CASE Finalise BY <1>16 DEF Finalise
<1>17. CASE Publish BY <1>17 DEF Publish, NotifyOnce
<1>18. CASE HandleCancel BY <1>18 DEF HandleCancel, NotifyOnce
<1>19. CASE Backstop BY <1>19 DEF Backstop
<1>20. CASE BackstopWrite BY <1>20 DEF BackstopWrite, NotifyOnce
<1>21. CASE EndQuery BY <1>21 DEF EndQuery
<1>22. CASE SweepFails BY <1>22 DEF SweepFails, MarkFailed
<1>23. CASE BodyRaises BY <1>23 DEF BodyRaises
<1>24. CASE Cancel BY <1>24 DEF Cancel
<1>25. CASE PerishEarly BY <1>25 DEF PerishEarly
<1>26. CASE QueryRaises BY <1>26 DEF QueryRaises
<1>. QED
  BY <1>1, <1>2, <1>3, <1>4, <1>5, <1>6, <1>7, <1>8, <1>9, <1>10, <1>11, <1>12, <1>13, <1>14, <1>15, <1>16, <1>17, <1>18, <1>19, <1>20, <1>21, <1>22, <1>23, <1>24, <1>25, <1>26
     DEF Coordinator, CoordProgress

\* What the row says of the run agrees with where the coordinator is.
LEMMA CoordStatus ==
    ASSUME TypeOK, StatusFollowsControl, VerdictFollowsControl, Coordinator
    PROVE  StatusFollowsControl'
<1> USE DEF StatusFollowsControl, VerdictFollowsControl, BeforeVerdict, InBody, InStep, TypeOK, CoordControl
<1>1. CASE Start BY <1>1 DEF Start
<1>2. CASE Announce BY <1>2 DEF Announce
<1>3. CASE Prepare BY <1>3 DEF Prepare
<1>4. CASE PrepareFails BY <1>4 DEF PrepareFails, MarkFailed
<1>5. CASE SeeAbort BY <1>5 DEF SeeAbort
<1>6. CASE EnterStep BY <1>6 DEF EnterStep
<1>7. CASE SkipStep BY <1>7 DEF SkipStep
<1>8. CASE SpawnPartitions BY <1>8 DEF SpawnPartitions
<1>9. CASE StepFails BY <1>9 DEF StepFails, MarkFailed
<1>10. CASE Sweep BY <1>10 DEF Sweep
<1>11. CASE CreateQueryJob BY <1>11 DEF CreateQueryJob
<1>12. CASE BeginQuery BY <1>12 DEF BeginQuery, coordVars
<1>13. CASE EvaluateStep BY <1>13 DEF EvaluateStep
<1>14. CASE AbortRemainingJobs BY <1>14 DEF AbortRemainingJobs
<1>15. CASE RecordAbort BY <1>15 DEF RecordAbort
<1>16. CASE Finalise BY <1>16 DEF Finalise
<1>17. CASE Publish BY <1>17 DEF Publish, NotifyOnce
<1>18. CASE HandleCancel BY <1>18 DEF HandleCancel, NotifyOnce
<1>19. CASE Backstop BY <1>19 DEF Backstop
<1>20. CASE BackstopWrite BY <1>20 DEF BackstopWrite, NotifyOnce
<1>21. CASE EndQuery BY <1>21 DEF EndQuery
<1>22. CASE SweepFails BY <1>22 DEF SweepFails, MarkFailed
<1>23. CASE BodyRaises BY <1>23 DEF BodyRaises
<1>24. CASE Cancel BY <1>24 DEF Cancel
<1>25. CASE PerishEarly BY <1>25 DEF PerishEarly
<1>26. CASE QueryRaises BY <1>26 DEF QueryRaises
<1>. QED
  BY <1>1, <1>2, <1>3, <1>4, <1>5, <1>6, <1>7, <1>8, <1>9, <1>10, <1>11, <1>12, <1>13, <1>14, <1>15, <1>16, <1>17, <1>18, <1>19, <1>20, <1>21, <1>22, <1>23, <1>24, <1>25, <1>26
     DEF Coordinator, CoordProgress

\* The verdict and the notification agree with where the coordinator is.
LEMMA CoordVerdict ==
    ASSUME TypeOK, StatusFollowsControl, VerdictFollowsControl, Coordinator
    PROVE  VerdictFollowsControl'
<1> USE DEF StatusFollowsControl, VerdictFollowsControl, BeforeVerdict, InBody, InStep, TypeOK, CoordControl, JobsTypeOK, RunStatus, TerminalRun
<1>1. CASE Start BY <1>1 DEF Start
<1>2. CASE Announce BY <1>2 DEF Announce
<1>3. CASE Prepare BY <1>3 DEF Prepare
<1>4. CASE PrepareFails BY <1>4 DEF PrepareFails, MarkFailed
<1>5. CASE SeeAbort BY <1>5 DEF SeeAbort
<1>6. CASE EnterStep BY <1>6 DEF EnterStep
<1>7. CASE SkipStep BY <1>7 DEF SkipStep
<1>8. CASE SpawnPartitions BY <1>8 DEF SpawnPartitions
<1>9. CASE StepFails BY <1>9 DEF StepFails, MarkFailed
<1>10. CASE Sweep BY <1>10 DEF Sweep
<1>11. CASE CreateQueryJob BY <1>11 DEF CreateQueryJob
<1>12. CASE BeginQuery BY <1>12 DEF BeginQuery, coordVars
<1>13. CASE EvaluateStep BY <1>13 DEF EvaluateStep
<1>14. CASE AbortRemainingJobs BY <1>14 DEF AbortRemainingJobs
<1>15. CASE RecordAbort BY <1>15 DEF RecordAbort
<1>16. CASE Finalise BY <1>16 DEF Finalise
<1>17. CASE Publish BY <1>17 DEF Publish, NotifyOnce
<1>18. CASE HandleCancel BY <1>18 DEF HandleCancel, NotifyOnce
<1>19. CASE Backstop BY <1>19 DEF Backstop
<1>20. CASE BackstopWrite BY <1>20 DEF BackstopWrite, NotifyOnce
<1>21. CASE EndQuery BY <1>21 DEF EndQuery
<1>22. CASE SweepFails BY <1>22 DEF SweepFails, MarkFailed
<1>23. CASE BodyRaises BY <1>23 DEF BodyRaises
<1>24. CASE Cancel BY <1>24 DEF Cancel
<1>25. CASE PerishEarly BY <1>25 DEF PerishEarly
<1>26. CASE QueryRaises BY <1>26 DEF QueryRaises
<1>. QED
  BY <1>1, <1>2, <1>3, <1>4, <1>5, <1>6, <1>7, <1>8, <1>9, <1>10, <1>11, <1>12, <1>13, <1>14, <1>15, <1>16, <1>17, <1>18, <1>19, <1>20, <1>21, <1>22, <1>23, <1>24, <1>25, <1>26
     DEF Coordinator, CoordProgress

\* A coordinator that ends leaves a terminal status.
LEMMA CoordDone ==
    ASSUME TypeOK, StatusFollowsControl, DoneIsTerminal, Coordinator
    PROVE  DoneIsTerminal'
<1> USE DEF StatusFollowsControl, DoneIsTerminal, BeforeVerdict, InBody, InStep, TypeOK, JobsTypeOK, RunStatus, TerminalRun
<1>1. CASE Start BY <1>1 DEF Start
<1>2. CASE Announce BY <1>2 DEF Announce
<1>3. CASE Prepare BY <1>3 DEF Prepare
<1>4. CASE PrepareFails BY <1>4 DEF PrepareFails, MarkFailed
<1>5. CASE SeeAbort BY <1>5 DEF SeeAbort
<1>6. CASE EnterStep BY <1>6 DEF EnterStep
<1>7. CASE SkipStep BY <1>7 DEF SkipStep
<1>8. CASE SpawnPartitions BY <1>8 DEF SpawnPartitions
<1>9. CASE StepFails BY <1>9 DEF StepFails, MarkFailed
<1>10. CASE Sweep BY <1>10 DEF Sweep
<1>11. CASE CreateQueryJob BY <1>11 DEF CreateQueryJob
<1>12. CASE BeginQuery BY <1>12 DEF BeginQuery, coordVars
<1>13. CASE EvaluateStep BY <1>13 DEF EvaluateStep
<1>14. CASE AbortRemainingJobs BY <1>14 DEF AbortRemainingJobs
<1>15. CASE RecordAbort BY <1>15 DEF RecordAbort
<1>16. CASE Finalise BY <1>16 DEF Finalise
<1>17. CASE Publish BY <1>17 DEF Publish, NotifyOnce
<1>18. CASE HandleCancel BY <1>18 DEF HandleCancel, NotifyOnce
<1>19. CASE Backstop BY <1>19 DEF Backstop
<1>20. CASE BackstopWrite BY <1>20 DEF BackstopWrite, NotifyOnce
<1>21. CASE EndQuery BY <1>21 DEF EndQuery
<1>22. CASE SweepFails BY <1>22 DEF SweepFails, MarkFailed
<1>23. CASE BodyRaises BY <1>23 DEF BodyRaises
<1>24. CASE Cancel BY <1>24 DEF Cancel
<1>25. CASE PerishEarly BY <1>25 DEF PerishEarly
<1>26. CASE QueryRaises BY <1>26 DEF QueryRaises
<1>. QED
  BY <1>1, <1>2, <1>3, <1>4, <1>5, <1>6, <1>7, <1>8, <1>9, <1>10, <1>11, <1>12, <1>13, <1>14, <1>15, <1>16, <1>17, <1>18, <1>19, <1>20, <1>21, <1>22, <1>23, <1>24, <1>25, <1>26
     DEF Coordinator, CoordProgress

\* Only the coordinator's current step has live coroutines.
LEMMA CoordCoroutines ==
    ASSUME TypeOK, CoroutinesFollowControl, Coordinator
    PROVE  CoroutinesFollowControl'
<1> USE DEF CoroutinesFollowControl, jobVars, InBody, InStep, TypeOK, JobsTypeOK, QueryJob
<1>1. CASE Start BY <1>1, KilledType DEF Start
<1>2. CASE Announce BY <1>2, KilledType DEF Announce
<1>3. CASE Prepare BY <1>3, KilledType DEF Prepare
<1>4. CASE PrepareFails BY <1>4, KilledType DEF PrepareFails, MarkFailed
<1>5. CASE SeeAbort BY <1>5, KilledType DEF SeeAbort
<1>6. CASE EnterStep BY <1>6, KilledType DEF EnterStep
<1>7. CASE SkipStep BY <1>7, KilledType DEF SkipStep
<1>8. CASE SpawnPartitions BY <1>8, KilledType DEF SpawnPartitions, Partitions, InQuery
<1>9. CASE StepFails BY <1>9, KilledType DEF StepFails, MarkFailed
<1>10. CASE Sweep BY <1>10, KilledType DEF Sweep, Gathered, Partitions
<1>11. CASE CreateQueryJob BY <1>11, KilledType DEF CreateQueryJob, Goto, SetJob, Running, Holding, InQuery
<1>12. CASE BeginQuery BY <1>12, KilledType DEF BeginQuery, coordVars, Goto, SetJob, Running, Holding, InQuery
<1>13. CASE EvaluateStep BY <1>13, KilledType DEF EvaluateStep
<1>14. CASE AbortRemainingJobs BY <1>14, KilledType DEF AbortRemainingJobs
<1>15. CASE RecordAbort BY <1>15, KilledType DEF RecordAbort
<1>16. CASE Finalise BY <1>16, KilledType DEF Finalise
<1>17. CASE Publish BY <1>17, KilledType DEF Publish, NotifyOnce
<1>18. CASE HandleCancel BY <1>18, KilledType DEF HandleCancel, NotifyOnce
<1>19. CASE Backstop BY <1>19, KilledType DEF Backstop
<1>20. CASE BackstopWrite BY <1>20, KilledType DEF BackstopWrite, NotifyOnce
<1>21. CASE EndQuery BY <1>21, KilledType DEF EndQuery, Goto, SetJob, Running, Holding, InQuery
<1>22. CASE SweepFails BY <1>22, KilledType DEF SweepFails, MarkFailed, Gathered, Partitions
<1>23. CASE BodyRaises BY <1>23, KilledType DEF BodyRaises
<1>24. CASE Cancel BY <1>24, KilledType DEF Cancel
<1>25. CASE PerishEarly BY <1>25, KilledType DEF PerishEarly
<1>26. CASE QueryRaises BY <1>26, KilledType DEF QueryRaises, Goto, SetJob, Running, Holding, InQuery
<1>. QED
  BY <1>1, <1>2, <1>3, <1>4, <1>5, <1>6, <1>7, <1>8, <1>9, <1>10, <1>11, <1>12, <1>13, <1>14, <1>15, <1>16, <1>17, <1>18, <1>19, <1>20, <1>21, <1>22, <1>23, <1>24, <1>25, <1>26
     DEF Coordinator, CoordProgress

\* Rows appear step by step, and are finished before the coordinator moves on.
LEMMA CoordRows ==
    ASSUME TypeOK, StepFollowsControl, CoroutinesFollowControl, RowsFollowStep, VerdictFollowsControl, Coordinator
    PROVE  RowsFollowStep'
<1> USE DEF StepFollowsControl, RowsFollowStep, VerdictFollowsControl, BetweenSteps, BeforeVerdict, jobVars, InBody, InStep, TypeOK, CoordControl, JobsTypeOK, QueryJob
<1>1. CASE Start BY <1>1, StepNumbers DEF Start
<1>2. CASE Announce BY <1>2, StepNumbers DEF Announce
<1>3. CASE Prepare BY <1>3, StepNumbers DEF Prepare
<1>4. CASE PrepareFails BY <1>4, StepNumbers DEF PrepareFails, MarkFailed
<1>5. CASE SeeAbort BY <1>5, StepNumbers DEF SeeAbort
<1>6. CASE EnterStep BY <1>6, StepNumbers DEF EnterStep
<1>7. CASE SkipStep BY <1>7, StepNumbers DEF SkipStep
<1>8. CASE SpawnPartitions BY <1>8, StepNumbers DEF SpawnPartitions, Partitions
<1>9. CASE StepFails BY <1>9, StepNumbers DEF StepFails, MarkFailed
<1>10. CASE Sweep BY <1>10, StepNumbers DEF Sweep, Swept, Unfinished
<1>11. CASE CreateQueryJob BY <1>11, StepNumbers DEF CreateQueryJob, SetJob, Unfinished, StepOf
<1>12. CASE BeginQuery BY <1>12, StepNumbers DEF BeginQuery, coordVars, SetJob, Unfinished, StepOf
<1>13. CASE EvaluateStep BY <1>13, StepNumbers DEF EvaluateStep
<1>14. CASE AbortRemainingJobs BY <1>14, StepNumbers DEF AbortRemainingJobs, Unfinished
<1>15. CASE RecordAbort BY <1>15, StepNumbers DEF RecordAbort
<1>16. CASE Finalise BY <1>16, StepNumbers DEF Finalise
<1>17. CASE Publish BY <1>17, StepNumbers DEF Publish, NotifyOnce
<1>18. CASE HandleCancel BY <1>18, StepNumbers DEF HandleCancel, NotifyOnce
<1>19. CASE Backstop BY <1>19, StepNumbers DEF Backstop
<1>20. CASE BackstopWrite BY <1>20, StepNumbers DEF BackstopWrite, NotifyOnce
<1>21. CASE EndQuery
  <2>1. QueryJob \in Jobs /\ StepOf(QueryJob) = step
    BY <1>21, StepNumbers DEF EndQuery, StepOf
  <2>2. \A j \in Jobs \ {QueryJob} : job'[j] = job[j]
    BY <1>21 DEF EndQuery, SetJob
  <2>3. job'[QueryJob] \notin Unfinished
    BY <1>21, <2>1 DEF EndQuery, SetJob, Unfinished
  <2>4. control = "querying" /\ control' = "evaluating" /\ UNCHANGED <<step, outcome>>
    BY <1>21 DEF EndQuery
  <2>5. job[QueryJob] # "none" \/ job'[QueryJob] # "none"
    BY <1>21, <2>1 DEF EndQuery, SetJob
  <2>6. \A j \in Jobs : job'[j] \notin Unfinished
    BY <2>2, <2>3, <2>4
  <2>. QED BY <2>1, <2>2, <2>4, <2>6, StepNumbers
<1>22. CASE SweepFails BY <1>22, StepNumbers DEF SweepFails, MarkFailed
<1>23. CASE BodyRaises BY <1>23, StepNumbers DEF BodyRaises
<1>24. CASE Cancel BY <1>24, StepNumbers DEF Cancel
<1>25. CASE PerishEarly BY <1>25, StepNumbers DEF PerishEarly
<1>26. CASE QueryRaises
  <2>1. QueryJob \in Jobs /\ StepOf(QueryJob) = step
    BY <1>26, StepNumbers DEF QueryRaises, StepOf
  <2>2. \A j \in Jobs \ {QueryJob} : job'[j] = job[j]
    BY <1>26 DEF QueryRaises, SetJob
  <2>3. control = "querying" /\ control' = "raised" /\ UNCHANGED <<step, outcome>> /\ outcome = "none"
    BY <1>26 DEF QueryRaises
  <2>. QED BY <2>1, <2>2, <2>3, StepNumbers
<1>. QED
  BY <1>1, <1>2, <1>3, <1>4, <1>5, <1>6, <1>7, <1>8, <1>9, <1>10, <1>11, <1>12, <1>13, <1>14, <1>15, <1>16, <1>17, <1>18, <1>19, <1>20, <1>21, <1>22, <1>23, <1>24, <1>25, <1>26
     DEF Coordinator, CoordProgress

\* A coroutine that is started or goes on finds its row unfinished.
LEMMA CoordAwait ==
    ASSUME TypeOK, StepFollowsControl, CoroutinesFollowControl, RowsAwaitCoroutines, Coordinator
    PROVE  RowsAwaitCoroutines'
<1> USE DEF StepFollowsControl, CoroutinesFollowControl, RowsAwaitCoroutines, jobVars, InBody, InStep, TypeOK, JobsTypeOK, QueryJob
<1>1. CASE Start BY <1>1, KilledType, StepNumbers DEF Start
<1>2. CASE Announce BY <1>2, KilledType, StepNumbers DEF Announce
<1>3. CASE Prepare BY <1>3, KilledType, StepNumbers DEF Prepare
<1>4. CASE PrepareFails BY <1>4, KilledType, StepNumbers DEF PrepareFails, MarkFailed
<1>5. CASE SeeAbort BY <1>5, KilledType, StepNumbers DEF SeeAbort
<1>6. CASE EnterStep BY <1>6, KilledType, StepNumbers DEF EnterStep
<1>7. CASE SkipStep BY <1>7, KilledType, StepNumbers DEF SkipStep
<1>8. CASE SpawnPartitions BY <1>8, KilledType, StepNumbers DEF SpawnPartitions, Partitions, Unfinished
<1>9. CASE StepFails BY <1>9, KilledType, StepNumbers DEF StepFails, MarkFailed
<1>10. CASE Sweep BY <1>10, KilledType, StepNumbers DEF Sweep, Swept, Gathered, Partitions
<1>11. CASE CreateQueryJob BY <1>11, KilledType, StepNumbers DEF CreateQueryJob, SetJob, Unfinished, Goto
<1>12. CASE BeginQuery BY <1>12, KilledType, StepNumbers DEF BeginQuery, coordVars, SetJob, Goto, Unfinished
<1>13. CASE EvaluateStep BY <1>13, KilledType, StepNumbers DEF EvaluateStep
<1>14. CASE AbortRemainingJobs BY <1>14, KilledType, StepNumbers DEF AbortRemainingJobs, Unfinished
<1>15. CASE RecordAbort BY <1>15, KilledType, StepNumbers DEF RecordAbort
<1>16. CASE Finalise BY <1>16, KilledType, StepNumbers DEF Finalise
<1>17. CASE Publish BY <1>17, KilledType, StepNumbers DEF Publish, NotifyOnce
<1>18. CASE HandleCancel BY <1>18, KilledType, StepNumbers DEF HandleCancel, NotifyOnce
<1>19. CASE Backstop BY <1>19, KilledType, StepNumbers DEF Backstop
<1>20. CASE BackstopWrite BY <1>20, KilledType, StepNumbers DEF BackstopWrite, NotifyOnce
<1>21. CASE EndQuery BY <1>21, KilledType, StepNumbers DEF EndQuery, SetJob, Goto, Running, Holding, InQuery
<1>22. CASE SweepFails BY <1>22, KilledType, StepNumbers DEF SweepFails, MarkFailed
<1>23. CASE BodyRaises BY <1>23, KilledType, StepNumbers DEF BodyRaises
<1>24. CASE Cancel BY <1>24, KilledType, StepNumbers DEF Cancel
<1>25. CASE PerishEarly BY <1>25, KilledType, StepNumbers DEF PerishEarly
<1>26. CASE QueryRaises BY <1>26, KilledType, StepNumbers DEF QueryRaises, SetJob, Goto, Running, Holding, InQuery
<1>. QED
  BY <1>1, <1>2, <1>3, <1>4, <1>5, <1>6, <1>7, <1>8, <1>9, <1>10, <1>11, <1>12, <1>13, <1>14, <1>15, <1>16, <1>17, <1>18, <1>19, <1>20, <1>21, <1>22, <1>23, <1>24, <1>25, <1>26
     DEF Coordinator, CoordProgress

-----------------------------------------------------------------------------
(* The invariant over the steps of the others.                             *)

\* A coroutine steps only while the coordinator waits for it, and changes
\* only its own row.
LEMMA PartitionInv ==
    ASSUME IInv, NEW j \in Jobs, ProcessPartition(j),
           UNCHANGED <<runStatus, abortPc, coordVars>>
    PROVE  IInv'
<1> USE DEF IInv, coordVars
<1>1. OnlyItsOwn(j)
  BY PartitionStep DEF TypeOK
<1>2. TypeOK'
  BY PartitionTypes DEF TypeOK
<1>3. StepFollowsControl' /\ StatusFollowsControl' /\ VerdictFollowsControl' /\ DoneIsTerminal'
  BY DEF StepFollowsControl, StatusFollowsControl, VerdictFollowsControl, DoneIsTerminal
<1>4. CoroutinesFollowControl'
  BY <1>1 DEF CoroutinesFollowControl, OnlyItsOwn, QueryJob
<1>5. RowsFollowStep'
  <2>1. pc[j] \in Running => control \in InStep /\ StepOf(j) = step
    BY DEF CoroutinesFollowControl, InStep, QueryJob, StepOf
  <2>2. pc[j] \in Running => outcome = "none"
    BY <2>1 DEF VerdictFollowsControl, BeforeVerdict
  <2>3. CASE job'[j] = job[j]
    BY <2>3, <1>1 DEF RowsFollowStep, OnlyItsOwn, QueryJob
  <2>4. CASE job'[j] # job[j]
    <3>1. pc[j] \in Running
      BY <2>4, <1>1 DEF OnlyItsOwn
    <3>2. control = "gathering" /\ StepOf(j) = step /\ outcome = "none"
      BY <2>4, <3>1, <2>1, <2>2, <1>1 DEF OnlyItsOwn, CoroutinesFollowControl
    <3>3. step \in Nat
      BY <3>2, StepNumbers DEF StepFollowsControl, InStep
    <3>. QED
      BY <3>2, <3>3, <1>1 DEF RowsFollowStep, OnlyItsOwn, BetweenSteps, BeforeVerdict, InStep
  <2>. QED BY <2>3, <2>4
<1>6. RowsAwaitCoroutines'
  BY <1>1 DEF RowsAwaitCoroutines, OnlyItsOwn
<1>. QED BY <1>2, <1>3, <1>4, <1>5, <1>6

\* Salesforce changes neither a row nor a coroutine.
LEMMA SalesforceInv ==
    ASSUME IInv, NEW j \in Jobs, SalesforceStep(j),
           UNCHANGED <<runStatus, abortPc, coordVars>>
    PROVE  IInv'
<1> USE DEF IInv, coordVars, SalesforceStep
<1>1. TypeOK'
  BY SalesforceTypes DEF TypeOK
<1>. QED
  BY <1>1 DEF StepFollowsControl, StatusFollowsControl, VerdictFollowsControl, DoneIsTerminal,
              CoroutinesFollowControl, QueryJob, RowsFollowStep, RowsAwaitCoroutines

\* The abort endpoint only makes rows and the run aborted, which the
\* invariant allows everywhere.
LEMMA AbortInv ==
    ASSUME IInv, AbortEndpoint, UNCHANGED coordVars
    PROVE  IInv'
<1> USE DEF IInv, coordVars, AbortEndpoint
<1>1. TypeOK'
  BY AbortTypes DEF TypeOK
<1>2. CASE AbortRead
  BY <1>1, <1>2 DEF AbortRead, StepFollowsControl, StatusFollowsControl, VerdictFollowsControl,
     DoneIsTerminal, CoroutinesFollowControl, QueryJob, RowsFollowStep, RowsAwaitCoroutines
<1>3. CASE AbortWrite
  <2>1. \A j \in Jobs : job'[j] # job[j] => job[j] \in Unfinished /\ job'[j] = "aborted"
    BY <1>3 DEF AbortWrite, AbortCascade, Unfinished
  <2>2. StepFollowsControl' /\ CoroutinesFollowControl'
    BY <1>3 DEF StepFollowsControl, CoroutinesFollowControl, QueryJob
  <2>3. RowsFollowStep'
    BY <2>1 DEF RowsFollowStep, QueryJob, Unfinished
  <2>4. RowsAwaitCoroutines'
    BY <2>1 DEF RowsAwaitCoroutines
  <2>5. StatusFollowsControl' /\ VerdictFollowsControl' /\ DoneIsTerminal'
    BY <1>3 DEF AbortWrite, StatusFollowsControl, VerdictFollowsControl, DoneIsTerminal, TerminalRun
  <2>. QED BY <1>1, <2>2, <2>3, <2>4, <2>5
<1>. QED BY <1>2, <1>3

\* A crash stops every coroutine and leaves the rows as they are.
LEMMA CrashInv ==
    ASSUME IInv, Crash
    PROVE  IInv'
<1> USE DEF IInv, Crash
<1>1. TypeOK'
  BY KilledType DEF TypeOK, JobsTypeOK, CoordControl
<1>2. CoroutinesFollowControl' /\ RowsAwaitCoroutines'
  BY KilledType DEF CoroutinesFollowControl, RowsAwaitCoroutines, TypeOK
<1>3. RowsFollowStep'
  BY DEF RowsFollowStep, BetweenSteps, BeforeVerdict, InStep
<1>. QED
  BY <1>1, <1>2, <1>3 DEF StepFollowsControl, StatusFollowsControl, VerdictFollowsControl,
     DoneIsTerminal, BeforeVerdict, InStep

-----------------------------------------------------------------------------
(* The theorems.                                                           *)

LEMMA InitInv == Init => IInv
<1> SUFFICES ASSUME Init PROVE IInv
  OBVIOUS
<1>1. \A j \in Jobs : pc[j] \notin Running /\ job[j] = "none"
  BY DEF Init, JobsInit, Running, Holding, InQuery
<1>2. CoroutinesFollowControl /\ RowsFollowStep /\ RowsAwaitCoroutines
  BY <1>1 DEF CoroutinesFollowControl, RowsFollowStep, RowsAwaitCoroutines, Unfinished
<1>3. StepFollowsControl /\ StatusFollowsControl /\ VerdictFollowsControl /\ DoneIsTerminal
  BY DEF Init, StepFollowsControl, StatusFollowsControl, VerdictFollowsControl, DoneIsTerminal,
         BeforeVerdict, InStep
<1>. QED BY <1>2, <1>3, InitTypes DEF IInv

LEMMA NextInv == IInv /\ [Next]_vars => IInv'
<1> SUFFICES ASSUME IInv, [Next]_vars PROVE IInv'
  OBVIOUS
<1>1. CASE Coordinator /\ UNCHANGED abortPc
  BY <1>1, CoordTypes, CoordStep, CoordStatus, CoordVerdict, CoordDone, CoordCoroutines,
     CoordRows, CoordAwait DEF IInv
<1>2. CASE Crash
  BY <1>2, CrashInv
<1>3. CASE AbortEndpoint /\ UNCHANGED coordVars
  BY <1>3, AbortInv
<1>4. CASE \E j \in Jobs : /\ ProcessPartition(j) \/ SalesforceStep(j)
                           /\ UNCHANGED <<runStatus, abortPc, coordVars>>
  BY <1>4, PartitionInv, SalesforceInv
<1>5. CASE UNCHANGED vars
  BY <1>5 DEF vars, jobVars, coordVars, IInv, TypeOK, JobsTypeOK, StepFollowsControl,
     StatusFollowsControl, VerdictFollowsControl, DoneIsTerminal, CoroutinesFollowControl,
     QueryJob, RowsFollowStep, RowsAwaitCoroutines
<1>. QED BY <1>1, <1>2, <1>3, <1>4, <1>5 DEF Next

\* The invariant holds in every state of every run.
THEOREM Invariance == Spec => []IInv
  BY InitInv, NextInv, PTL DEF Spec

\* Every variable keeps its type, whatever the size of the plan.
THEOREM TypeCorrect == Spec => []TypeOK
<1>1. IInv => TypeOK
  BY DEF IInv
<1>. QED BY <1>1, Invariance, PTL

\* No coroutine and no unfinished row of an earlier step survives the
\* beginning of a later one, in any interleaving and under any fault.
THEOREM SequentialSteps == Spec => []StepsAreSequential
<1>1. IInv => StepsAreSequential
  <2> SUFFICES ASSUME IInv, NEW i \in Jobs, NEW j \in Jobs,
                      StepOf(i) < StepOf(j), job[j] # "none"
               PROVE  pc[i] \notin Running /\ job[i] \notin Unfinished
    BY DEF StepsAreSequential
  <2>1. StepOf(i) # step
    <3>1. StepOf(j) <= step
      BY DEF IInv, RowsFollowStep
    <3>2. StepOf(i) \in Nat /\ StepOf(j) \in Nat
      BY StepNumbers
    <3>3. step \in Int
      BY StepsAssumption DEF IInv, TypeOK
    <3>. QED BY <3>1, <3>2, <3>3
  <2>2. pc[i] \notin Running
    BY <2>1 DEF IInv, CoroutinesFollowControl, QueryJob, StepOf
  <2>3. job[i] \notin Unfinished
    BY <2>1 DEF IInv, RowsFollowStep
  <2>. QED BY <2>2, <2>3
<1>. QED BY <1>1, Invariance, PTL

\* What is announced is settled: no coroutine is alive, and a row is unfinished
\* only if the run was cut short in its step; never under a completed run.
THEOREM AnnouncedIsSettled == Spec => [](NothingInFlightAtAbort /\ SettledWhenAnnounced)
<1>1. IInv => NothingInFlightAtAbort
  BY DEF IInv, NothingInFlightAtAbort, CoroutinesFollowControl, RowsFollowStep,
         BetweenSteps, BeforeVerdict, InStep
<1>2. IInv => SettledWhenAnnounced
  <2> SUFFICES ASSUME IInv PROVE SettledWhenAnnounced
    OBVIOUS
  <2>1. outcome # "none" \/ notified # "none" => \A j \in Jobs : pc[j] \notin Running
    BY DEF IInv, CoroutinesFollowControl, VerdictFollowsControl, BeforeVerdict, InStep
  <2>2. \A j \in Jobs : job[j] \in Unfinished =>
           StepOf(j) = step /\ (control \in InStep \cup {"raised"} \/ CutShort)
    <3>1. control \in {"publishing", "leaving"} => outcome # "none"
      BY DEF IInv, VerdictFollowsControl
    <3>. QED BY <3>1 DEF IInv, TypeOK, CoordControl, InBody, RowsFollowStep, BetweenSteps, BeforeVerdict, CutShort
  <2>3. notified \in {"completed", "completed_with_errors"} => \A j \in Jobs : job[j] \notin Unfinished
    BY DEF IInv, RowsFollowStep, VerdictFollowsControl
  <2>. QED BY <2>1, <2>2, <2>3 DEF SettledWhenAnnounced
<1>. QED BY <1>1, <1>2, Invariance, PTL

\* A coordinator that ends by itself leaves a terminal status, and the one
\* its subscribers were told unless an abort overtook it.
THEOREM EndsTerminal == Spec => [](DoneIsTerminal /\ NotifiedIsFinal)
<1>1. IInv => DoneIsTerminal /\ NotifiedIsFinal
  BY DEF IInv, NotifiedIsFinal, VerdictFollowsControl
<1>. QED BY <1>1, Invariance, PTL

\* Once a JobRecord is complete or failed nobody writes it again: not its
\* coroutine, the sweep, the coordinator or the abort endpoint.  One that is
\* aborted is written again by its own live coroutine only.
THEOREM RowsStayFinished == Spec => FinishedRowsAreFinal
<1> DEFINE Keeps == \A j \in Jobs :
               /\ job[j] \in {"job_complete", "failed"} => job'[j] = job[j]
               /\ job[j] = "aborted" /\ pc[j] \notin Running => job'[j] = "aborted"
<1>1. IInv /\ [Next]_vars => Keeps
  <2> SUFFICES ASSUME IInv, [Next]_vars PROVE Keeps
    OBVIOUS
  <2>1. CASE UNCHANGED vars
    BY <2>1 DEF vars, jobVars
  <2>2. CASE Crash
    BY <2>2 DEF Crash
  <2>3. CASE AbortEndpoint /\ UNCHANGED coordVars
    BY <2>3 DEF AbortEndpoint, AbortRead, AbortWrite, AbortCascade
  <2>4. CASE \E j \in Jobs : /\ ProcessPartition(j) \/ SalesforceStep(j)
                             /\ UNCHANGED <<runStatus, abortPc, coordVars>>
    <3>1. PICK i \in Jobs : ProcessPartition(i) \/ SalesforceStep(i)
      BY <2>4
    <3>2. CASE SalesforceStep(i)
      BY <3>2 DEF SalesforceStep
    <3>3. CASE ProcessPartition(i)
      <4>1. OnlyItsOwn(i)
        BY <3>3, PartitionStep DEF IInv, TypeOK
      <4>. QED BY <4>1 DEF OnlyItsOwn, IInv, RowsAwaitCoroutines, Unfinished
    <3>. QED BY <3>1, <3>2, <3>3
  <2>5. CASE Coordinator /\ UNCHANGED abortPc
    <3>1. CASE SpawnPartitions \/ CreateQueryJob
      <4>1. control = "entering" /\ \A j \in Jobs : StepOf(j) = step => job[j] = "none"
        BY <3>1, StepNumbers
           DEF SpawnPartitions, CreateQueryJob, IInv, RowsFollowStep, StepFollowsControl, Steps
      <4>2. QueryJob \in Jobs /\ StepOf(QueryJob) = step
        BY <4>1, StepNumbers DEF IInv, StepFollowsControl, StepOf, QueryJob
      <4>. QED BY <3>1, <4>1, <4>2 DEF SpawnPartitions, CreateQueryJob, Partitions, SetJob, IInv, TypeOK, JobsTypeOK
    <3>2. CASE Sweep
      BY <3>2 DEF Sweep, Swept, Unfinished
    <3>3. CASE BeginQuery \/ EndQuery \/ QueryRaises
      <4>1. /\ QueryJob \in Jobs /\ job[QueryJob] \notin {"job_complete", "failed"}
            /\ pc[QueryJob] \in Running
        BY <3>3, StepNumbers DEF BeginQuery, EndQuery, QueryRaises, IInv, StepFollowsControl, InStep, QueryJob,
           RowsAwaitCoroutines, Running, Holding, InQuery, Unfinished
      <4>. QED BY <3>3, <4>1 DEF BeginQuery, EndQuery, QueryRaises, SetJob, IInv, TypeOK, JobsTypeOK
    <3>4. CASE AbortRemainingJobs
      BY <3>4 DEF AbortRemainingJobs, Unfinished
    <3>5. CASE UNCHANGED job
      BY <3>5
    <3>. QED
      BY <2>5, <3>1, <3>2, <3>3, <3>4, <3>5 DEF Coordinator, CoordProgress, jobVars, Start, Announce,
         Prepare, PrepareFails, SeeAbort, EnterStep, SkipStep, StepFails, EvaluateStep, RecordAbort,
         Finalise, Publish, HandleCancel, Backstop, BackstopWrite, SweepFails, BodyRaises, Cancel,
         PerishEarly
  <2>. QED BY <2>1, <2>2, <2>3, <2>4, <2>5 DEF Next
<1>2. IInv /\ [Next]_vars => [Keeps]_job
  BY <1>1
<1>. QED BY <1>2, Invariance, PTL DEF Spec, FinishedRowsAreFinal

\* A terminal status is only replaced by `aborted', and only `aborted' is
\* replaced by anything else.
THEOREM TerminalStatusStays == Spec => OnlyAbortRewritesTerminal
<1> DEFINE Stays == runStatus \in TerminalRun => runStatus = "aborted" \/ runStatus' = "aborted"
<1>1. IInv /\ [Next]_vars => [Stays]_runStatus
  <2> SUFFICES ASSUME IInv, [Next]_vars, runStatus' # runStatus PROVE Stays
    OBVIOUS
  <2>1. CASE Coordinator
    <3>1. CASE control \in BeforeVerdict \cup {"backstopping"}
      BY <3>1 DEF IInv, StatusFollowsControl, TerminalRun
    <3>2. CASE HandleCancel
      BY <3>2 DEF HandleCancel
    <3>. QED
      BY <2>1, <3>1, <3>2 DEF Coordinator, CoordProgress, BeforeVerdict, InStep, Start, Announce,
         Prepare, PrepareFails, SeeAbort, EnterStep, SkipStep, SpawnPartitions, StepFails, Sweep,
         CreateQueryJob, BeginQuery, EndQuery, QueryRaises, EvaluateStep, AbortRemainingJobs, RecordAbort,
         Finalise, Publish, Backstop, BackstopWrite, SweepFails, BodyRaises, Cancel, PerishEarly
  <2>2. CASE AbortEndpoint
    BY <2>2 DEF AbortEndpoint, AbortRead, AbortWrite
  <2>. QED BY <2>1, <2>2 DEF Next, Crash, vars
<1>. QED BY <1>1, Invariance, PTL DEF Spec, OnlyAbortRewritesTerminal

-----------------------------------------------------------------------------
(* The circuit breaker and the semaphore.                                  *)

\* There are finitely many partitions, so sets of them can be counted.
LEMMA JobsAreFinite ==
    ASSUME NEW S \in SUBSET Jobs
    PROVE  IsFiniteSet(S) /\ Cardinality(S) \in Nat
<1>1. IsFiniteSet(Steps) /\ IsFiniteSet(0..MaxParts - 1)
  BY FS_Interval, StepsAssumption, PartsAssumption DEF Steps
<1>2. IsFiniteSet(Jobs)
  BY <1>1, FS_Product DEF Jobs
<1>. QED BY <1>2, FS_Subset, FS_CardinalityType

\* A set of partitions has no more elements than one that includes it.
LEMMA SmallerSet ==
    ASSUME NEW S \in SUBSET Jobs, NEW T \in SUBSET S
    PROVE  Cardinality(T) <= Cardinality(S)
  BY JobsAreFinite, FS_Subset

\* The coroutines on their way to create_job.
Submitting == {j \in Jobs : pc[j] \in {"cleared", "creating"}}

LEMMA FewerSubmitting ==
    ASSUME SlotsInv, Submitting' \subseteq Submitting, Holders' \subseteq Holders, ctx'.tripped = ctx.tripped
    PROVE  SlotsInv'
<1>1. Cardinality(Holders') <= Cardinality(Holders)
  BY SmallerSet DEF Holders
<1>2. Cardinality(Submitting') <= Cardinality(Submitting)
  BY SmallerSet DEF Submitting
<1>. QED
  BY <1>1, <1>2, JobsAreFinite, ParallelAssumption
     DEF SlotsInv, TripStopsSubmission, Submitting, Holders

\* A coroutine takes a slot only when one is free and the breaker has not
\* tripped, and trips the breaker only while it still holds its own slot.
LEMMA PartitionSlots ==
    ASSUME TypeOK, SlotsInv, NEW j \in Jobs, ProcessPartition(j)
    PROVE  SlotsInv'
<1> USE DEF TypeOK, JobsTypeOK, Goto
<1>1. CASE ClearPartition(j)
  <2>1. Holders' = Holders \cup {j} /\ ctx' = ctx /\ ~ctx.tripped
    BY <1>1 DEF ClearPartition, Holders, Holding, MustSkip
  <2>2. Cardinality(Holders) < MaxParallel /\ Holders \in SUBSET Jobs
    BY <1>1 DEF ClearPartition, SlotFree, Holders
  <2>3. Cardinality(Holders') <= Cardinality(Holders) + 1
    BY <2>1, <2>2, JobsAreFinite, FS_AddElement
  <2>4. Cardinality(Holders') \in Nat
    BY JobsAreFinite DEF Holders
  <2>. QED
    BY <2>1, <2>2, <2>3, <2>4, JobsAreFinite, ParallelAssumption DEF SlotsInv, TripStopsSubmission
<1>2. CASE SettleBreaker(j)
  <2>1. Holders' \subseteq Holders /\ Submitting' \subseteq Submitting
    BY <1>2 DEF SettleBreaker, Holders, Submitting, Holding
  <2>2. Submitting' \subseteq Holders \ {j} /\ j \in Holders
    BY <1>2 DEF SettleBreaker, Holders, Submitting, Holding
  <2>3. Cardinality(Holders \ {j}) = Cardinality(Holders) - 1
    BY <2>2, JobsAreFinite, FS_RemoveElement DEF Holders
  <2>4. Cardinality(Submitting') <= Cardinality(Holders \ {j})
    BY <2>2, SmallerSet DEF Holders
  <2>5. Cardinality(Holders') <= Cardinality(Holders)
    BY <2>1, SmallerSet DEF Holders
  <2>6. /\ Cardinality(Submitting') \in Nat
        /\ Cardinality(Holders') \in Nat
        /\ Cardinality(Holders) \in Nat
    BY JobsAreFinite DEF Submitting, Holders
  <2>. QED
    BY <2>3, <2>4, <2>5, <2>6, ParallelAssumption DEF SlotsInv, TripStopsSubmission, Submitting
<1>3. CASE ~ClearPartition(j) /\ ~SettleBreaker(j)
  <2>1. Holders' \subseteq Holders /\ Submitting' \subseteq Submitting /\ UNCHANGED ctx
    BY <1>3 DEF Holders, Submitting, Holding, ProcessPartition, PartitionProgress, jobVars,
       SkipPartition, MarkUploading, CreateJob, CreateJobFails, RecordSfJobId, UploadAndClose,
       UploadFails, MarkUploadComplete, MarkInProgress, PollTerminal, PollTimesOut,
       DownloadResults, PollFails, Raise
  <2>. QED BY <2>1, FewerSubmitting
<1>. QED BY <1>1, <1>2, <1>3

\* The coordinator, the abort endpoint, Salesforce and a crash give no slot
\* to anybody and leave the breaker alone.
LEMMA OtherSlots ==
    ASSUME TypeOK, SlotsInv,
           \/ Coordinator
           \/ Crash
           \/ AbortEndpoint
           \/ \E j \in Jobs : SalesforceStep(j)
           \/ UNCHANGED vars
    PROVE  SlotsInv'
<1>1. ctx' = ctx /\ \A j \in Jobs : pc'[j] = pc[j] \/ pc'[j] \notin Holding
  <2>1. \A j \in Jobs : Killed[j] = pc[j] \/ Killed[j] \notin Holding
    BY DEF Killed, Holding
  <2>2. CASE Cancel \/ Crash
    BY <2>1, <2>2 DEF Cancel, Crash
  <2>3. CASE SpawnPartitions
    BY <2>3 DEF SpawnPartitions, Holding
  <2>4. CASE CreateQueryJob \/ BeginQuery \/ EndQuery \/ QueryRaises
    BY <2>4 DEF CreateQueryJob, BeginQuery, EndQuery, QueryRaises, Goto, Holding, TypeOK, JobsTypeOK
  <2>5. CASE UNCHANGED <<pc, ctx>>
    BY <2>5
  <2>. QED
    BY <2>2, <2>3, <2>4, <2>5 DEF Coordinator, CoordProgress, jobVars, vars, Start, Announce,
       Prepare, PrepareFails, SeeAbort, EnterStep, SkipStep, StepFails, Sweep, EvaluateStep,
       AbortRemainingJobs, RecordAbort, Finalise, Publish, HandleCancel, Backstop, BackstopWrite,
       SweepFails, BodyRaises, PerishEarly, AbortEndpoint, SalesforceStep
<1>2. Holders' \subseteq Holders /\ Submitting' \subseteq Submitting
  BY <1>1 DEF Holders, Submitting, Holding
<1>. QED BY <1>1, <1>2, FewerSubmitting

\* Whatever the number of slots, the breaker's threshold and the number of
\* partitions: after the trip only coroutines already past the check submit,
\* and they are fewer than the slots.
THEOREM BreakerStopsSubmission == Spec => []TripStopsSubmission
<1>1. Init => SlotsInv
  <2> SUFFICES ASSUME Init PROVE SlotsInv
    OBVIOUS
  <2>1. Holders = {} /\ ~ctx.tripped
    BY DEF Init, JobsInit, Holders, Holding
  <2>. QED BY <2>1, FS_EmptySet, ParallelAssumption DEF SlotsInv, TripStopsSubmission
<1>2. TypeOK /\ SlotsInv /\ [Next]_vars => SlotsInv'
  BY PartitionSlots, OtherSlots DEF Next
<1>3. SlotsInv => TripStopsSubmission
  BY DEF SlotsInv
<1>. QED BY <1>1, <1>2, <1>3, TypeCorrect, PTL DEF Spec

-----------------------------------------------------------------------------
(* The verdict of a run is the one its results justify.                    *)

\* A step whose results stay as they are stays on its side of the threshold.
LEMMA SameResults ==
    ASSUME NEW s \in Steps, \A j \in Partitions(s) : result'[j] = result[j]
    PROVE  Exceeded(s)' = Exceeded(s)
<1>1. GatherResults(s)' = GatherResults(s)
  BY DEF GatherResults, Partitions
<1>. QED BY <1>1 DEF Exceeded

\* Only a coroutine that is alive has a result to give, and only its own.
LEMMA ResultIsOwn ==
    ASSUME JobsTypeOK, NEW j \in Jobs, ProcessPartition(j)
    PROVE  pc[j] \in Running \ InQuery /\ \A i \in Jobs \ {j} : result'[i] = result[i]
<1> USE DEF JobsTypeOK, Running, Holding, InQuery
<1>1. CASE DownloadResults(j) \/ Raise(j)
  BY <1>1 DEF DownloadResults, Raise
<1>2. CASE ~DownloadResults(j) /\ ~Raise(j)
  BY <1>2 DEF ProcessPartition, PartitionProgress, ClearPartition, SkipPartition, MarkUploading, CreateJob,
     CreateJobFails, RecordSfJobId, UploadAndClose, UploadFails, MarkUploadComplete, MarkInProgress,
     PollTerminal, PollTimesOut, PollFails, SettleBreaker
<1>. QED BY <1>1, <1>2

\* What the coordinator remembers stays true while the steps behind it keep their results.
LEMMA MemoryStands ==
    ASSUME IInv, EarnedSoFar, UNCHANGED <<runStatus, step, failedSteps, control>>,
           ctx' = ctx \/ control = "gathering",
           \A j \in Jobs : StepOf(j) < step => result'[j] = result[j]
    PROVE  EarnedSoFar'
<1>1. \A s \in Steps : s < step => Exceeded(s)' = Exceeded(s)
  BY SameResults DEF Partitions
<1>2. control = "gathering" => step # NSteps + 1
  BY StepsAssumption DEF IInv, StepFollowsControl, InStep, Steps
<1>. QED BY <1>1, <1>2 DEF EarnedSoFar, BeforeVerdict, InStep

\* An evaluated step joins the failed ones exactly if it exceeded the threshold.
LEMMA EvaluationIsRight ==
    ASSUME IInv, EarnedSoFar, EvaluateStep
    PROVE  EarnedSoFar'
<1>1. /\ control = "evaluating" /\ step \in Steps /\ UNCHANGED <<runStatus, jobVars>>
      /\ runStatus \in {"running", "aborted"}
  BY DEF EvaluateStep, IInv, StepFollowsControl, StatusFollowsControl, BeforeVerdict
<1>2. \A s \in Steps : Exceeded(s)' = Exceeded(s)
  BY <1>1, SameResults DEF jobVars, Partitions
<1>3. failedSteps \subseteq Steps /\ \A s \in failedSteps : s < step
  BY <1>1 DEF EarnedSoFar, BeforeVerdict, IInv, TypeOK
<1>4. failedSteps' = IF Exceeded(step) THEN failedSteps \cup {step} ELSE failedSteps
  BY DEF EvaluateStep
<1>5. Steps \subseteq Nat /\ step \in Nat /\ NSteps \in Nat
  BY <1>1, StepsAssumption DEF Steps
<1>6. CASE (Exceeded(step) /\ AbortOnStepFailure) \/ ctx.tripped
  <2>1. control' = "aborting" /\ step' = step /\ step # NSteps + 1
    BY <1>1, <1>5, <1>6 DEF EvaluateStep, Steps
  <2>2. \A s \in Steps : s < step' => (s \in failedSteps' <=> Exceeded(s)')
    BY <1>2, <1>4, <1>5, <2>1 DEF EarnedSoFar
  <2>3. AbortOnStepFailure => \A s \in failedSteps' : s >= step'
    BY <1>3, <1>4, <1>5, <2>1 DEF EarnedSoFar
  <2>. QED BY <1>1, <2>1, <2>2, <2>3 DEF EarnedSoFar, BeforeVerdict
<1>7. CASE ~((Exceeded(step) /\ AbortOnStepFailure) \/ ctx.tripped)
  <2>1. control' = "looping" /\ step' = step + 1 /\ ~ctx.tripped /\ ctx' = ctx
    BY <1>1, <1>7 DEF EvaluateStep, jobVars
  <2>2. \A s \in Steps : s < step' => (s \in failedSteps' <=> Exceeded(s)')
    <3>1. SUFFICES ASSUME NEW s \in Steps, s < step' PROVE s \in failedSteps' <=> Exceeded(s)'
      OBVIOUS
    <3>2. CASE s < step
      BY <1>2, <1>4, <1>5, <3>2 DEF EarnedSoFar
    <3>3. CASE s = step
      <4>1. step \notin failedSteps
        BY <1>3, <1>5
      <4>. QED BY <1>2, <1>4, <3>3, <4>1
    <3>. QED BY <1>5, <2>1, <3>1, <3>2, <3>3
  <2>3. AbortOnStepFailure => failedSteps' = {}
    BY <1>3, <1>4, <1>5, <1>7 DEF EarnedSoFar
  <2>4. \A s \in failedSteps' : s < step'
    BY <1>3, <1>4, <1>5, <2>1
  <2>. QED BY <1>1, <2>1, <2>2, <2>3, <2>4 DEF EarnedSoFar
<1>. QED BY <1>6, <1>7

\* A coordinator that records, announces or fails a run changes nothing it judged by.
LEMMA CoordEarned ==
    ASSUME IInv, EarnedSoFar, Coordinator
    PROVE  EarnedSoFar'
<1>1. CASE EvaluateStep
  BY <1>1, EvaluationIsRight
<1>2. CASE EndQuery
  <2>1. /\ control = "querying" /\ control' = "evaluating" /\ UNCHANGED <<runStatus, ctx, step, failedSteps>>
        /\ \A j \in Jobs : j # QueryJob => result'[j] = result[j]
    BY <1>2 DEF EndQuery, IInv, TypeOK, JobsTypeOK
  <2>2. \A s \in Steps : s < step => Exceeded(s)' = Exceeded(s)
    <3>1. SUFFICES ASSUME NEW s \in Steps, s < step PROVE Exceeded(s)' = Exceeded(s)
      OBVIOUS
    <3>2. step \in Steps /\ Steps \subseteq Nat
      BY <2>1, StepsAssumption DEF IInv, StepFollowsControl, InStep, Steps
    <3>3. QueryJob \notin Partitions(s)
      BY <3>1, <3>2 DEF Partitions, StepOf, QueryJob
    <3>. QED BY <2>1, <3>3, SameResults DEF Partitions
  <2>. QED BY <2>1, <2>2 DEF EarnedSoFar, BeforeVerdict, InStep
<1>3. CASE Prepare
  <2>1. /\ control = "preparing" /\ control' = "looping" /\ step' = 1 /\ UNCHANGED <<runStatus, jobVars, failedSteps>>
        /\ runStatus \in {"running", "aborted"} /\ step = 0
    BY <1>3 DEF Prepare, IInv, StatusFollowsControl, StepFollowsControl, BeforeVerdict
  <2>2. failedSteps = {}
    BY <2>1, StepsAssumption DEF EarnedSoFar, BeforeVerdict, IInv, TypeOK, Steps
  <2>3. \A s \in Steps : ~(s < 1)
    BY StepsAssumption DEF Steps
  <2>. QED BY <2>1, <2>2, <2>3 DEF EarnedSoFar, BeforeVerdict, jobVars
<1>4. CASE Finalise
  <2>1. /\ step = NSteps + 1 /\ UNCHANGED <<jobVars, step, failedSteps>> /\ control' = "publishing" /\ control = "looping"
        /\ runStatus' = IF failedSteps # {} THEN "completed_with_errors" ELSE "completed"
    BY <1>4 DEF Finalise
  <2>2. \A s \in Steps : Exceeded(s)' = Exceeded(s)
    BY <2>1, SameResults DEF jobVars, Partitions
  <2>. QED BY <2>1, <2>2 DEF EarnedSoFar, BeforeVerdict, jobVars
<1>5. CASE ~EvaluateStep /\ ~EndQuery /\ ~Prepare /\ ~Finalise
  <2>1. UNCHANGED <<result, ctx, step, failedSteps>>
    BY <1>5 DEF Coordinator, CoordProgress, jobVars, Start, Announce, PrepareFails, SeeAbort, EnterStep, SkipStep,
       SpawnPartitions, StepFails, Sweep, CreateQueryJob, BeginQuery, QueryRaises, AbortRemainingJobs, RecordAbort, Publish,
       HandleCancel, Backstop, BackstopWrite, SweepFails, BodyRaises, Cancel, PerishEarly, coordVars
  <2>2. runStatus' = runStatus \/ runStatus' \notin {"completed", "completed_with_errors"}
    BY <1>5 DEF Coordinator, CoordProgress, Start, Announce, PrepareFails, SeeAbort, EnterStep, SkipStep, MarkFailed,
       SpawnPartitions, StepFails, Sweep, CreateQueryJob, BeginQuery, QueryRaises, AbortRemainingJobs, RecordAbort, Publish,
       HandleCancel, Backstop, BackstopWrite, SweepFails, BodyRaises, Cancel, PerishEarly, coordVars
  <2>3. control' \in BeforeVerdict \ {"aborting", "recording"} =>
           /\ control \in BeforeVerdict \ {"aborting", "recording"}
           /\ control' \notin {"gathering", "evaluating"} => control \notin {"gathering", "evaluating"}
    BY <1>5 DEF Coordinator, CoordProgress, Start, Announce, PrepareFails, SeeAbort, EnterStep, SkipStep, MarkFailed,
       SpawnPartitions, StepFails, Sweep, CreateQueryJob, BeginQuery, QueryRaises, AbortRemainingJobs, RecordAbort, Publish,
       HandleCancel, Backstop, BackstopWrite, SweepFails, BodyRaises, Cancel, PerishEarly, coordVars,
       BeforeVerdict, InStep, InBody
  <2>4. \A s \in Steps : Exceeded(s)' = Exceeded(s)
    BY <2>1, SameResults DEF Partitions
  <2>. QED BY <2>1, <2>2, <2>3, <2>4 DEF EarnedSoFar
<1>. QED BY <1>1, <1>2, <1>3, <1>4, <1>5

\* A coroutine gives its result, and may trip the breaker, only in the step at hand.
LEMMA PartitionEarned ==
    ASSUME IInv, EarnedSoFar, NEW j \in Jobs, ProcessPartition(j),
           UNCHANGED <<runStatus, abortPc, coordVars>>
    PROVE  EarnedSoFar'
<1>1. pc[j] \in Running \ InQuery /\ \A i \in Jobs \ {j} : result'[i] = result[i]
  BY ResultIsOwn DEF IInv, TypeOK
<1>2. control = "gathering" /\ StepOf(j) = step
  BY <1>1 DEF IInv, CoroutinesFollowControl
<1>3. \A i \in Jobs : StepOf(i) < step => i # j
  BY <1>2, StepNumbers
<1>. QED BY <1>1, <1>2, <1>3, MemoryStands DEF coordVars

\* A completed run ran every step within its threshold and kept its breaker closed; one
\* completed with errors had a step over the threshold and a plan that lets it continue,
\* whatever the plan, the threshold and the results.
THEOREM CompletedStaysEarned == Spec => []CompletedIsEarned
<1>1. Init => EarnedSoFar
  BY StepsAssumption DEF Init, JobsInit, EarnedSoFar, Steps
<1>2. IInv /\ EarnedSoFar /\ [Next]_vars => EarnedSoFar'
  <2> SUFFICES ASSUME IInv, EarnedSoFar, [Next]_vars PROVE EarnedSoFar'
    OBVIOUS
  <2>1. CASE Coordinator
    BY <2>1, CoordEarned
  <2>2. CASE Crash
    <3>1. UNCHANGED <<runStatus, result, ctx, step, failedSteps>> /\ control' = "dead"
      BY <2>2 DEF Crash
    <3>2. \A s \in Steps : Exceeded(s)' = Exceeded(s)
      BY <3>1, SameResults DEF Partitions
    <3>. QED BY <3>1, <3>2 DEF EarnedSoFar, BeforeVerdict, InStep
  <2>3. CASE AbortEndpoint /\ UNCHANGED coordVars
    <3>1. /\ UNCHANGED <<result, ctx, coordVars>>
          /\ runStatus' = runStatus \/ runStatus' = "aborted"
      BY <2>3 DEF AbortEndpoint, AbortRead, AbortWrite, jobVars
    <3>2. \A s \in Steps : Exceeded(s)' = Exceeded(s)
      BY <3>1, SameResults DEF Partitions
    <3>. QED BY <3>1, <3>2 DEF EarnedSoFar, coordVars
  <2>4. CASE \E j \in Jobs : /\ ProcessPartition(j) \/ SalesforceStep(j)
                             /\ UNCHANGED <<runStatus, abortPc, coordVars>>
    <3>1. PICK j \in Jobs : /\ ProcessPartition(j) \/ SalesforceStep(j)
                            /\ UNCHANGED <<runStatus, abortPc, coordVars>>
      BY <2>4
    <3>2. CASE ProcessPartition(j)
      BY <3>1, <3>2, PartitionEarned
    <3>3. CASE SalesforceStep(j)
      BY <3>1, <3>3, MemoryStands DEF SalesforceStep, coordVars
    <3>. QED BY <3>1, <3>2, <3>3
  <2>5. CASE UNCHANGED vars
    BY <2>5, MemoryStands DEF vars, jobVars, coordVars
  <2>. QED BY <2>1, <2>2, <2>3, <2>4, <2>5 DEF Next
<1>3. IInv /\ EarnedSoFar => CompletedIsEarned
  <2> SUFFICES ASSUME IInv, EarnedSoFar PROVE CompletedIsEarned
    OBVIOUS
  <2>1. failedSteps \subseteq Steps /\ \A s \in Steps : s < NSteps + 1
    BY StepsAssumption DEF IInv, TypeOK, Steps
  <2>2. Steps \subseteq Nat /\ NSteps \in Nat
    BY StepsAssumption DEF Steps
  <2>3. runStatus = "completed" =>
          step = NSteps + 1 /\ ~ctx.tripped /\ \A s \in Steps : ~Exceeded(s)
    BY <2>1 DEF EarnedSoFar
  <2>4. ASSUME runStatus = "completed_with_errors"
        PROVE  step = NSteps + 1 /\ ~ctx.tripped /\ ~AbortOnStepFailure /\ \E s \in Steps : Exceeded(s)
    <3>1. PICK s \in failedSteps : s \in Steps /\ s < step
      BY <2>1, <2>4 DEF EarnedSoFar
    <3>. QED BY <2>2, <2>4, <3>1 DEF EarnedSoFar
  <2>. QED BY <2>3, <2>4 DEF CompletedIsEarned
<1>. QED BY <1>1, <1>2, <1>3, Invariance, PTL DEF Spec

-----------------------------------------------------------------------------
(* LoadRun implements RunContract.                                         *)

\* The jobs being worked on, as the contract sees them.
Active == {j \in Jobs : pc[j] \in Running}

\* Nobody works while the coordinator is elsewhere than in a step.
LEMMA IdleOutsideSteps ==
    ASSUME IInv, control \notin InStep \/ (control = "gathering" /\ Gathered(step))
    PROVE  Active = {}
  BY DEF IInv, CoroutinesFollowControl, InStep, Active, Gathered, Partitions

\* The step of a coroutine is that of a job that goes on or finishes.
LEMMA PartitionKeepsContract ==
    ASSUME IInv, NEW j \in Jobs, ProcessPartition(j), UNCHANGED <<runStatus, abortPc, coordVars>>
    PROVE  Contract!FinishJob \/ UNCHANGED Contract!contractVars
<1>1. OnlyItsOwn(j)
  BY PartitionStep DEF IInv, TypeOK
<1>2. Active' = Active \/ (j \in Active /\ Active' = Active \ {j})
  BY <1>1 DEF Active, OnlyItsOwn
<1>. QED
  BY <1>2 DEF Active, Contract!FinishJob, Contract!contractVars, coordVars

\* Each step of the coordinator is a step of the contract, or none.
LEMMA CoordKeepsContract ==
    ASSUME IInv, Coordinator
    PROVE  [Contract!Next]_(Contract!contractVars)
<1> USE DEF IInv, TypeOK, JobsTypeOK, InStep, Contract!contractVars
<1>0. control \in BeforeVerdict \cup {"backstopping"} => runStatus \in {"pending", "running", "aborted"} /\ notified = "none"
  BY DEF StatusFollowsControl, VerdictFollowsControl, BeforeVerdict
<1>1. CASE Start
  <2>1. Active = {} /\ notified = "none" /\ runStatus \in {"pending", "aborted"}
    BY <1>1, IdleOutsideSteps DEF Start, StatusFollowsControl, VerdictFollowsControl, BeforeVerdict
  <2>2. Contract!Begin
    BY <1>1, <2>1 DEF Start, Contract!Begin, Contract!Open, Active, jobVars
  <2>. QED BY <2>2 DEF Contract!Next
<1>2. CASE SpawnPartitions \/ CreateQueryJob
  <2>1. Active = {} /\ notified = "none" /\ runStatus \in {"running", "aborted"}
    BY <1>2, IdleOutsideSteps
       DEF SpawnPartitions, CreateQueryJob, StatusFollowsControl, VerdictFollowsControl, BeforeVerdict
  <2>2. step \in Steps /\ <<step, 0>> \in Jobs /\ StepOf(<<step, 0>>) = step
    BY <1>2, StepNumbers DEF SpawnPartitions, CreateQueryJob, StepFollowsControl, StepOf
  <2>3. Active' \in (SUBSET Jobs) \ {{}}
    <3>1. CASE SpawnPartitions
      <4>1. pc'[<<step, 0>>] = "waiting"
        BY <3>1, <2>2, PartsAssumption DEF SpawnPartitions, Partitions
      <4>. QED BY <4>1, <2>2 DEF Active, Running
    <3>2. CASE CreateQueryJob
      BY <3>2, <2>2 DEF CreateQueryJob, QueryJob, Goto, Active, Running, InQuery
    <3>. QED BY <1>2, <3>1, <3>2
  <2>4. Contract!StartBatch
    BY <1>2, <2>1, <2>3 DEF SpawnPartitions, CreateQueryJob, Contract!StartBatch, Contract!Open, Active
  <2>. QED BY <2>4 DEF Contract!Next
<1>3. CASE EndQuery \/ QueryRaises
  <2>1. QueryJob \in Active /\ Active' = Active \ {QueryJob}
    <3>1. QueryJob \in Jobs
      BY <1>3, StepNumbers DEF EndQuery, QueryRaises, StepFollowsControl, QueryJob
    <3>2. pc[QueryJob] \in InQuery
      BY <1>3, <3>1 DEF EndQuery, QueryRaises, InQuery
    <3>. QED BY <1>3, <3>1, <3>2 DEF EndQuery, QueryRaises, Goto, Active, Running, Holding, InQuery
  <2>2. Contract!FinishJob
    BY <1>3, <2>1 DEF EndQuery, QueryRaises, Contract!FinishJob, Active
  <2>. QED BY <2>2 DEF Contract!Next
<1>4. CASE PrepareFails \/ StepFails \/ SweepFails \/ RecordAbort \/ Finalise \/ BackstopWrite
  <2>1. Active = {}
    BY <1>4, IdleOutsideSteps DEF PrepareFails, StepFails, SweepFails, RecordAbort, Finalise, BackstopWrite
  <2>2. notified = "none" /\ runStatus \in {"pending", "running", "aborted"}
    BY <1>4, <1>0 DEF PrepareFails, StepFails, SweepFails, RecordAbort, Finalise, BackstopWrite, BeforeVerdict
  <2>3. runStatus' \in Contract!Terminal /\ notified' \in {"none", runStatus'} /\ UNCHANGED pc
    BY <1>4, <2>2 DEF PrepareFails, StepFails, SweepFails, RecordAbort, Finalise, BackstopWrite,
       MarkFailed, NotifyOnce, jobVars, Contract!Terminal
  <2>4. Contract!Conclude
    BY <2>1, <2>2, <2>3 DEF Contract!Conclude, Contract!Open, Active
  <2>. QED BY <2>4 DEF Contract!Next
<1>5. CASE Publish
  <2>1. Active = {} /\ notified = "none" /\ outcome \in Contract!Terminal /\ runStatus \in {outcome, "aborted"}
    BY <1>5, IdleOutsideSteps DEF Publish, StatusFollowsControl, VerdictFollowsControl, TerminalRun, Contract!Terminal
  <2>2. Contract!Tell
    BY <1>5, <2>1 DEF Publish, NotifyOnce, Contract!Tell, Contract!Open, Contract!Terminal, Active, jobVars
  <2>. QED BY <2>2 DEF Contract!Next
<1>6. CASE HandleCancel
  <2>1. Contract!Abort
    BY <1>6 DEF HandleCancel, NotifyOnce, Contract!Abort, jobVars
  <2>. QED BY <2>1 DEF Contract!Next
<1>7. CASE Cancel
  <2>1. Contract!Die
    BY <1>7, KilledType DEF Cancel, Contract!Die
  <2>. QED BY <2>1 DEF Contract!Next
<1>8. CASE BeginQuery
  <2>1. Active' = Active
    BY <1>8 DEF BeginQuery, Goto, Active, Running, InQuery
  <2>. QED BY <1>8, <2>1 DEF BeginQuery, Active, coordVars
<1>9. CASE UNCHANGED <<runStatus, pc, notified>>
  BY <1>9
<1>. QED
  BY <1>1, <1>2, <1>3, <1>4, <1>5, <1>6, <1>7, <1>8, <1>9 DEF Coordinator, CoordProgress, jobVars,
     Announce, Prepare, SeeAbort, EnterStep, SkipStep, Sweep, EvaluateStep, AbortRemainingJobs,
     Backstop, BodyRaises, PerishEarly

\* The run engine implements the contract of a run, for every plan and under
\* every fault: one notification, no overlapping batches, nothing concluded
\* while work goes on.
THEOREM ContractKept == Spec => KeepsContract
<1>1. Init => Contract!Init
  <2> SUFFICES ASSUME Init PROVE Contract!Init
    OBVIOUS
  <2>1. Active = {}
    BY DEF Init, JobsInit, Active, Running, Holding, InQuery
  <2>. QED BY <2>1 DEF Init, Contract!Init, Active
<1>2. IInv /\ [Next]_vars => [Contract!Next]_(Contract!contractVars)
  <2> SUFFICES ASSUME IInv, [Next]_vars PROVE [Contract!Next]_(Contract!contractVars)
    OBVIOUS
  <2>1. CASE Coordinator
    BY <2>1, CoordKeepsContract
  <2>2. CASE Crash
    <3>1. Contract!Die
      BY <2>2, KilledType DEF Crash, Contract!Die, IInv, TypeOK
    <3>. QED BY <3>1 DEF Contract!Next
  <2>3. CASE AbortEndpoint /\ UNCHANGED coordVars
    <3>1. Contract!Abort \/ UNCHANGED Contract!contractVars
      BY <2>3 DEF AbortEndpoint, AbortRead, AbortWrite, coordVars, Contract!Abort, Contract!contractVars
    <3>. QED BY <3>1 DEF Contract!Next
  <2>4. CASE \E j \in Jobs : /\ ProcessPartition(j) \/ SalesforceStep(j)
                             /\ UNCHANGED <<runStatus, abortPc, coordVars>>
    BY <2>4, PartitionKeepsContract DEF SalesforceStep, coordVars, Contract!Next, Contract!contractVars
  <2>5. CASE UNCHANGED vars
    BY <2>5 DEF vars, jobVars, coordVars, Contract!contractVars
  <2>. QED BY <2>1, <2>2, <2>3, <2>4, <2>5 DEF Next
<1>. QED BY <1>1, <1>2, Invariance, PTL DEF Spec, KeepsContract, Contract!Spec
=============================================================================
