---------------------------- MODULE RetryProofs ----------------------------
(* The proofs about the retry of a step: of RetryRun, its coroutines, for    *)
(* any number of partitions, slots and rows and any of the faults; and of    *)
(* StepInput, the rows its jobs carry, for any files, sizes and results.     *)
EXTENDS RetryRun, StepInput, FiniteSetTheorems, SequenceTheorems, WellFoundedInduction, TLAPS

-----------------------------------------------------------------------------
(* RetryRun.                                                                 *)

\* The bounds of the model keep their meaning: counts of rows are numbers.
LEMMA RowsAreCounted == \A r \in Downloaded : r \in RowPair
  BY RowsAssumption, SMT DEF Downloaded, RowPair

\* A step of a coroutine keeps the types of everything it shares, and changes
\* only its own row and its own control state.
LEMMA PartitionKeeps ==
    ASSUME JobsTypeOK, NEW j \in Jobs, ProcessPartition(j),
           UNCHANGED <<runStatus, abortPc>>
    PROVE  JobsTypeOK' /\ OnlyItsOwn(j)
<1>0. FinalStatus(sf[j]) \in JobStatus
  BY DEF FinalStatus, JobStatus, Finished
<1> USE DEF OnlyItsOwn, JobsTypeOK, JobStatus, Unfinished, Finished, SfState, SfLive, SfTerminal,
            Control, Running, Holding, InQuery, Goto, SetJob
<1>1. CASE ClearPartition(j) BY <1>1 DEF ClearPartition
<1>2. CASE SkipPartition(j) BY <1>2 DEF SkipPartition
<1>3. CASE MarkUploading(j) BY <1>3 DEF MarkUploading
<1>4. CASE CreateJob(j) BY <1>4 DEF CreateJob
<1>5. CASE CreateJobFails(j) BY <1>5 DEF CreateJobFails
<1>6. CASE RecordSfJobId(j) BY <1>6 DEF RecordSfJobId
<1>7. CASE UploadAndClose(j) BY <1>7 DEF UploadAndClose
<1>8. CASE UploadFails(j) BY <1>8 DEF UploadFails
<1>9. CASE MarkUploadComplete(j) BY <1>9 DEF MarkUploadComplete
<1>10. CASE MarkInProgress(j) BY <1>10 DEF MarkInProgress
<1>11. CASE PollTerminal(j) BY <1>11 DEF PollTerminal
<1>12. CASE PollTimesOut(j) BY <1>12 DEF PollTimesOut
<1>13. CASE DownloadResults(j)
  <2>1. result' \in [Jobs -> RowPair]
    BY <1>13, RowsAreCounted DEF DownloadResults
  <2>2. OnlyItsOwn(j)
    BY <1>13 DEF DownloadResults, FinalStatus
  <2> HIDE DEF OnlyItsOwn
  <2>3. JobsTypeOK'
    BY <1>0, <1>13, <2>1 DEF DownloadResults
  <2>. QED BY <2>2, <2>3
<1>14. CASE SettleBreaker(j)
  <2>1. ctx' \in [failures: Nat, tripped: BOOLEAN]
    <3>1. ctx.failures \in Nat /\ ctx.tripped \in BOOLEAN
      OBVIOUS
    <3>2. ctx.failures + 1 \in Nat
      BY <3>1
    <3>3. (ctx.tripped \/ ctx.failures + 1 >= BreakerThreshold) \in BOOLEAN
      BY Zenon
    <3>4. BreakerFailure \in [failures: Nat, tripped: BOOLEAN]
      BY <3>2, <3>3, Zenon DEF BreakerFailure
    <3>5. BreakerSuccess \in [failures: Nat, tripped: BOOLEAN]
      BY DEF BreakerSuccess
    <3>. QED BY <1>14, <3>4, <3>5, Zenon DEF SettleBreaker
  <2>. QED BY <1>14, <2>1 DEF SettleBreaker
<1>15. CASE PollFails(j) BY <1>15 DEF PollFails
<1>16. CASE Raise(j) BY <1>16, SMT DEF Raise, NoRows, RowPair
<1>. QED
  BY <1>1, <1>2, <1>3, <1>4, <1>5, <1>6, <1>7, <1>8, <1>9, <1>10, <1>11, <1>12,
     <1>13, <1>14, <1>15, <1>16 DEF ProcessPartition, PartitionProgress

\* A step of Salesforce keeps the types.
LEMMA SalesforceTypes ==
    ASSUME JobsTypeOK, NEW j \in Jobs, SalesforceStep(j),
           UNCHANGED <<runStatus, abortPc>>
    PROVE  JobsTypeOK'
  BY DEF JobsTypeOK, SalesforceStep, SfState, SfLive, SfTerminal

\* And a step of the abort endpoint.
LEMMA AbortTypes ==
    ASSUME JobsTypeOK, AbortEndpoint
    PROVE  JobsTypeOK'
<1>1. CASE AbortRead BY <1>1 DEF AbortEndpoint, AbortRead, JobsTypeOK
<1>2. CASE AbortWrite
  BY <1>2 DEF AbortEndpoint, AbortWrite, JobsTypeOK, RunStatus, TerminalRun,
              JobStatus, Unfinished, Finished
<1>. QED BY <1>1, <1>2 DEF AbortEndpoint

\* The one step of a retry is the step of all its partitions.
LEMMA OneStep ==
    /\ \A j \in Jobs : StepOf(j) = 1
    /\ <<1, 0>> \in Jobs
  BY RetryHasOneStep, PartsAssumption DEF Steps, Jobs, StepOf

\* So gather waits for all of them and the sweep visits all of their rows.
LEMMA GatherAndSweepTakeAll ==
    /\ Gathered(1) <=> \A j \in Jobs : pc[j] \notin Running
    /\ Swept(1) = [j \in Jobs |-> IF job[j] \in Unfinished THEN "failed" ELSE job[j]]
  BY OneStep DEF Gathered, Partitions, Swept

\* A coroutine that dies with the task is not running any more.
LEMMA KilledAreStopped ==
    ASSUME JobsTypeOK
    PROVE  Killed \in [Jobs -> Control] /\ \A j \in Jobs : Killed[j] \notin Running
  BY DEF JobsTypeOK, Killed, Control, Running, Holding, InQuery

\* The retry starts with nothing running.
LEMMA RetryInit == Init => RetryIInv
<1> SUFFICES ASSUME Init PROVE RetryIInv
  OBVIOUS
<1>1. JobsTypeOK
  BY SMT DEF Init, JobsInit, JobsTypeOK, RunStatus, JobStatus, SfState, Control, RowPair, NoRows
<1>2. \A j \in Jobs : pc[j] \notin Running
  BY DEF Init, JobsInit, Running, Holding, InQuery
<1>. QED
  BY <1>1, <1>2 DEF Init, RetryIInv, TypeOK, RetryControl, CoroutinesAreGathered, SweptRowsStay,
     OutcomeFollowsControl, StatusFollowsControl

\* The steps of the retry's own coroutine.
LEMMA ProgressKeeps ==
    ASSUME RetryIInv, RetryProgress, UNCHANGED abortPc
    PROVE  RetryIInv'
<1> USE DEF RetryIInv, TypeOK, RetryControl, jobVars
<1> USE DEF CoroutinesAreGathered, SweptRowsStay, OutcomeFollowsControl, StatusFollowsControl
<1>1. CASE StepMissing
  BY <1>1 DEF StepMissing, MarkFailed, JobsTypeOK, RunStatus, TerminalRun
<1>2. CASE Start
  BY <1>2 DEF Start, JobsTypeOK, RunStatus
<1>3. CASE PrepareFails
  BY <1>3 DEF PrepareFails, MarkFailed, JobsTypeOK, RunStatus, TerminalRun
<1>4. CASE SpawnPartitions
  <2>1. job' \in [Jobs -> JobStatus] /\ pc' \in [Jobs -> Control]
    BY <1>4 DEF SpawnPartitions, JobsTypeOK, JobStatus, Unfinished, Control, Running
  <2>. QED BY <1>4, <2>1 DEF SpawnPartitions, JobsTypeOK
<1>5. CASE Sweep
  <2>1. job' \in [Jobs -> JobStatus] /\ \A j \in Jobs : job'[j] \notin Unfinished
    BY <1>5, GatherAndSweepTakeAll DEF Sweep, JobsTypeOK, JobStatus, Unfinished, Finished
  <2>. QED BY <1>5, <2>1, GatherAndSweepTakeAll DEF Sweep, JobsTypeOK
<1>6. CASE Conclude
  <2>1. /\ outcome' \in {"completed", "completed_with_errors"} /\ runStatus' = outcome'
        /\ control = "concluding" /\ control' = "publishing"
        /\ UNCHANGED <<jobVars, notified>>
    BY <1>6 DEF Conclude
  <2>. QED BY <2>1 DEF JobsTypeOK, RunStatus, TerminalRun
<1>7. CASE Publish
  BY <1>7 DEF Publish, JobsTypeOK
<1>. QED BY <1>1, <1>2, <1>3, <1>4, <1>5, <1>6, <1>7 DEF RetryProgress

\* The retry perishes, and whatever it left stays as it is.
LEMMA PerishKeeps == ASSUME RetryIInv, Perish PROVE RetryIInv'
<1>1. pc' \in [Jobs -> Control] /\ \A j \in Jobs : pc'[j] \notin Running
  <2>1. CASE pc' = Killed
    BY <2>1, KilledAreStopped DEF RetryIInv, TypeOK
  <2>2. CASE pc' = pc /\ (control = "gathering" => Gathered(1))
    BY <2>2, GatherAndSweepTakeAll DEF RetryIInv, TypeOK, JobsTypeOK, CoroutinesAreGathered
  <2>. QED BY <2>1, <2>2 DEF Perish
<1>. QED
  BY <1>1 DEF Perish, RetryIInv, TypeOK, JobsTypeOK, RetryControl, CoroutinesAreGathered, SweptRowsStay,
     OutcomeFollowsControl, StatusFollowsControl

\* A partition, Salesforce or the abort endpoint takes a step.
LEMMA OthersKeep ==
    ASSUME RetryIInv, UNCHANGED retryVars,
           \/ AbortEndpoint
           \/ \E j \in Jobs : /\ ProcessPartition(j) \/ SalesforceStep(j)
                              /\ UNCHANGED <<runStatus, abortPc>>
    PROVE  RetryIInv'
<1> USE DEF RetryIInv, TypeOK, retryVars, CoroutinesAreGathered, SweptRowsStay, OutcomeFollowsControl,
            StatusFollowsControl
<1>1. CASE AbortEndpoint
  <2>1. JobsTypeOK'
    BY <1>1, AbortTypes
  <2>2. pc' = pc /\ runStatus' \in {runStatus, "aborted"}
        /\ \A j \in Jobs : job'[j] \in Unfinished => job[j] \in Unfinished
    BY <1>1 DEF AbortEndpoint, AbortRead, AbortWrite, Unfinished
  <2>. QED BY <2>1, <2>2
<1>2. ASSUME NEW j \in Jobs, ProcessPartition(j), UNCHANGED <<runStatus, abortPc>>
      PROVE  RetryIInv'
  <2>1. JobsTypeOK' /\ OnlyItsOwn(j)
    BY <1>2, PartitionKeeps
  <2>. QED BY <1>2, <2>1 DEF OnlyItsOwn
<1>3. ASSUME NEW j \in Jobs, SalesforceStep(j), UNCHANGED <<runStatus, abortPc>>
      PROVE  RetryIInv'
  <2>1. JobsTypeOK'
    BY <1>3, SalesforceTypes
  <2>. QED BY <1>3, <2>1 DEF SalesforceStep
<1>. QED BY <1>1, <1>2, <1>3

\* Each step of the retry keeps its invariant.
LEMMA RetryStepKeeps == RetryIInv /\ [Next]_vars => RetryIInv'
<1> SUFFICES ASSUME RetryIInv, [Next]_vars PROVE RetryIInv'
  OBVIOUS
<1>1. CASE UNCHANGED vars
  BY <1>1 DEF vars, jobVars, retryVars, RetryIInv, TypeOK, JobsTypeOK, CoroutinesAreGathered,
              SweptRowsStay, OutcomeFollowsControl, StatusFollowsControl
<1>. QED BY <1>1, ProgressKeeps, PerishKeeps, OthersKeep DEF Next

\* The invariant holds in every state of a retry.
THEOREM RetryInvariance == Spec => []RetryIInv
BY RetryInit, RetryStepKeeps, PTL DEF Spec

\* A retry that calls itself completed, with errors or without, has no
\* coroutine alive and no JobRecord left unfinished, whatever its partitions
\* raised and whenever it was aborted.
THEOREM RetryStaysSound == Spec => []RetryIsSound
<1>1. RetryIInv => RetryIsSound
  <2> SUFFICES ASSUME RetryIInv PROVE RetrySettles
    BY DEF RetryIInv, RetryIsSound
  <2>1. outcome \in {"completed", "completed_with_errors"} => control # "gathering"
    BY DEF RetryIInv, OutcomeFollowsControl
  <2>. QED BY <2>1 DEF RetrySettles, RetryIInv, CoroutinesAreGathered, SweptRowsStay
<1>. QED BY <1>1, RetryInvariance, PTL

-----------------------------------------------------------------------------
(* RetryRun implements RunContract.                                        *)

\* The jobs being worked on, as the contract sees them.
Active == {j \in Jobs : pc[j] \in Running}

\* Nobody works before the partitions are spawned nor after they are gathered.
LEMMA IdleOutsideGather ==
    ASSUME RetryIInv, control # "gathering" \/ Gathered(1)
    PROVE  Active = {}
  BY GatherAndSweepTakeAll DEF RetryIInv, CoroutinesAreGathered, Active

\* Each step of the retry's coroutine is a step of the contract, or none.
LEMMA ProgressKeepsContract ==
    ASSUME RetryIInv, RetryProgress
    PROVE  [Contract!Next]_(Contract!contractVars)
<1> USE DEF RetryIInv, TypeOK, OutcomeFollowsControl, StatusFollowsControl, jobVars
<1>1. CASE Start
  <2>1. Active = {} /\ notified = "none" /\ runStatus \in {"pending", "aborted"}
    BY <1>1, IdleOutsideGather DEF Start
  <2>2. Contract!Begin
    BY <1>1, <2>1 DEF Start, Contract!Begin, Contract!Open, Active
  <2>. QED BY <2>2 DEF Contract!Next
<1>2. CASE StepMissing \/ PrepareFails \/ Conclude
  <2>1. Active = {} /\ notified = "none" /\ runStatus \in {"pending", "running", "aborted"}
    BY <1>2, IdleOutsideGather DEF StepMissing, PrepareFails, Conclude
  <2>2. runStatus' \in Contract!Terminal /\ UNCHANGED <<pc, notified>>
    BY <1>2 DEF StepMissing, PrepareFails, Conclude, MarkFailed, Contract!Terminal
  <2>3. Contract!Conclude
    BY <2>1, <2>2 DEF Contract!Conclude, Contract!Open, Active
  <2>. QED BY <2>3 DEF Contract!Next
<1>3. CASE SpawnPartitions
  <2>1. Active = {} /\ notified = "none" /\ runStatus \in {"running", "aborted"}
    BY <1>3, IdleOutsideGather DEF SpawnPartitions
  <2>2. pc'[<<1, 0>>] = "waiting"
    BY <1>3, OneStep, PartsAssumption DEF SpawnPartitions
  <2>3. Active' \in (SUBSET Jobs) \ {{}}
    BY <2>2, OneStep DEF Active, Running
  <2>4. Contract!StartBatch
    BY <1>3, <2>1, <2>3 DEF SpawnPartitions, Contract!StartBatch, Contract!Open, Active
  <2>. QED BY <2>4 DEF Contract!Next
<1>4. CASE Sweep
  BY <1>4 DEF Sweep, Contract!contractVars
<1>5. CASE Publish
  <2>1. /\ Active = {} /\ notified = "none"
        /\ outcome \in Contract!Terminal /\ runStatus \in {outcome, "aborted"}
    BY <1>5, IdleOutsideGather DEF Publish, Contract!Terminal
  <2>2. Contract!Tell
    BY <1>5, <2>1 DEF Publish, Contract!Tell, Contract!Open, Contract!Terminal, Active
  <2>. QED BY <2>2 DEF Contract!Next
<1>. QED BY <1>1, <1>2, <1>3, <1>4, <1>5 DEF RetryProgress

\* The step of a coroutine is that of a job that goes on or finishes.
LEMMA PartitionStepKeepsContract ==
    ASSUME RetryIInv, NEW j \in Jobs, ProcessPartition(j) \/ SalesforceStep(j),
           UNCHANGED <<runStatus, abortPc, retryVars>>
    PROVE  Contract!FinishJob \/ UNCHANGED Contract!contractVars
<1>1. Active' = Active \/ (j \in Active /\ Active' = Active \ {j})
  <2>1. CASE ProcessPartition(j)
    BY <2>1, PartitionKeeps DEF RetryIInv, TypeOK, Active, OnlyItsOwn
  <2>2. CASE SalesforceStep(j)
    BY <2>2 DEF SalesforceStep, Active
  <2>. QED BY <2>1, <2>2
<1>. QED BY <1>1 DEF Active, Contract!FinishJob, Contract!contractVars, retryVars

\* The retry keeps the contract of a run without a backstop: under every fault
\* it tells its subscribers once and truly, or not at all.
THEOREM RetryKeepsContract == Spec => KeepsContract
<1>1. Init => Contract!Init
  <2> SUFFICES ASSUME Init PROVE Contract!Init
    OBVIOUS
  <2>1. Active = {}
    BY DEF Init, JobsInit, Active, Running, Holding, InQuery
  <2>. QED BY <2>1 DEF Init, Contract!Init, Active
<1>2. RetryIInv /\ [Next]_vars => [Contract!Next]_(Contract!contractVars)
  <2> SUFFICES ASSUME RetryIInv, [Next]_vars PROVE [Contract!Next]_(Contract!contractVars)
    OBVIOUS
  <2>1. CASE RetryProgress
    BY <2>1, ProgressKeepsContract
  <2>2. CASE Perish
    <3>1. CASE pc' = Killed
      BY <2>2, <3>1, KilledAreStopped DEF Perish, Contract!Die, Contract!Next, RetryIInv, TypeOK
    <3>2. CASE pc' = pc
      BY <2>2, <3>2 DEF Perish, Contract!contractVars
    <3>. QED BY <2>2, <3>1, <3>2 DEF Perish
  <2>3. CASE AbortEndpoint /\ UNCHANGED retryVars
    <3>1. Contract!Abort \/ UNCHANGED Contract!contractVars
      BY <2>3 DEF AbortEndpoint, AbortRead, AbortWrite, retryVars, Contract!Abort, Contract!contractVars
    <3>. QED BY <3>1 DEF Contract!Next
  <2>4. CASE \E j \in Jobs : /\ ProcessPartition(j) \/ SalesforceStep(j)
                             /\ UNCHANGED <<runStatus, abortPc, retryVars>>
    BY <2>4, PartitionStepKeepsContract DEF Contract!Next
  <2>5. CASE UNCHANGED vars
    BY <2>5 DEF vars, jobVars, retryVars, Contract!contractVars
  <2>. QED BY <2>1, <2>2, <2>3, <2>4, <2>5 DEF Next
<1>. QED BY <1>1, <1>2, RetryInvariance, PTL DEF Spec, KeepsContract, Contract!Spec

-----------------------------------------------------------------------------
(* StepInput: numbers and concatenations.                                    *)

\* A set of numbers up to n has a smallest one.
LEMMA SmallestOf ==
    ASSUME NEW n \in Nat, NEW B \in SUBSET (0..n), B # {}
    PROVE  \E m \in B : \A k \in B : m <= k
<1> DEFINE Upto == {0..b : b \in B}
<1>1. IsFiniteSet(0..n)
  BY FS_Interval
<1>2. Upto \subseteq FiniteSubsetsOf(0..n) /\ Upto # {}
  <2>1. \A U \in Upto : U \in SUBSET (0..n)
    OBVIOUS
  <2>2. Upto # {}
    OBVIOUS
  <2> HIDE DEF Upto
  <2>3. \A U \in SUBSET (0..n) : IsFiniteSet(U)
    BY <1>1, FS_Subset
  <2>. QED BY <2>1, <2>2, <2>3 DEF FiniteSubsetsOf
<1>3. PICK T \in Upto : \A U \in Upto : <<U, T>> \notin StrictSubsetOrdering(0..n)
  <2> HIDE DEF Upto
  <2>. QED BY <1>1, <1>2, FS_StrictSubsetOrderingWellFounded, WFMin
<1>4. PICK m \in B : T = 0..m
  OBVIOUS
<1>5. ASSUME NEW k \in B, k < m
      PROVE  FALSE
  <2>1. 0..k \in Upto /\ 0..k \in SUBSET (0..n) /\ T \in SUBSET (0..n)
    BY <1>4
  <2>2. 0..k \subseteq T /\ m \in T /\ m \notin 0..k
    BY <1>4, <1>5
  <2>3. <<0..k, T>> \in StrictSubsetOrdering(0..n)
    BY <2>1, <2>2, SMT DEF StrictSubsetOrdering
  <2>. QED BY <1>3, <2>1, <2>3
<1>. QED BY <1>5

\* What holds of 0, and of p + 1 when it holds of p, holds of every number up to n.
LEMMA UptoInduction ==
    ASSUME NEW n \in Nat, NEW G \in SUBSET (0..n), 0 \in G,
           \A p \in 0..n : p < n /\ p \in G => p + 1 \in G
    PROVE  G = 0..n
<1>1. SUFFICES ASSUME (0..n) \ G # {} PROVE FALSE
  OBVIOUS
<1>2. PICK m \in (0..n) \ G : \A k \in (0..n) \ G : m <= k
  <2> DEFINE B == (0..n) \ G
  <2>1. B \in SUBSET (0..n) /\ B # {}
    BY <1>1
  <2> HIDE DEF B
  <2>2. \E m \in B : \A k \in B : m <= k
    BY <2>1, SmallestOf
  <2>. QED BY <2>2 DEF B
<1>3. m # 0 /\ m - 1 \in 0..n /\ m - 1 < n /\ ~(m <= m - 1)
  BY <1>2
<1>4. m - 1 \in G
  BY <1>2, <1>3
<1>5. (m - 1) + 1 \in G
  BY <1>3, <1>4
<1>. QED BY <1>2, <1>5

\* f joins the sequences R[1], R[2], ... one by one, up to the n-th.
Joining(f, n, R) == f[0] = <<>> /\ \A p \in 1..n : f[p] = f[p - 1] \o R[p]

\* The concatenations of the first p sequences of n, for every p, are a function.
LEMMA Concatenations ==
    ASSUME NEW S, NEW n \in Nat, NEW R, \A p \in 1..n : R[p] \in Seq(S)
    PROVE  \E f \in [0..n -> Seq(S)] : Joining(f, n, R)
<1> USE DEF Joining
<1> DEFINE Good(f, m) == f \in [0..n -> Seq(S)] /\ Joining(f, m, R)
           G == {m \in 0..n : \E f : Good(f, m)}
<1>1. 0 \in G
  <2> DEFINE g == [p \in 0..n |-> <<>>]
  <2>1. g \in [0..n -> Seq(S)]
    BY EmptySeq
  <2>2. g[0] = <<>> /\ 1..0 = {}
    OBVIOUS
  <2> HIDE DEF g
  <2>3. Good(g, 0)
    BY <2>1, <2>2
  <2>4. 0 \in 0..n
    OBVIOUS
  <2> HIDE DEF Good
  <2>. QED BY <2>3, <2>4
<1>2. ASSUME NEW m \in 0..n, m < n, m \in G
      PROVE  m + 1 \in G
  <2>1. PICK f : Good(f, m)
    BY <1>2
  <2> DEFINE v == f[m] \o R[m + 1]
             g == [f EXCEPT ![m + 1] = v]
  <2>2. f[m] \in Seq(S) /\ R[m + 1] \in Seq(S) /\ m + 1 \in 0..n
    BY <1>2, <2>1
  <2>3. v \in Seq(S)
    BY <2>2, ConcatProperties
  <2>4. g \in [0..n -> Seq(S)] /\ g[0] = <<>> /\ g[m + 1] = v /\ \A p \in 0..m : g[p] = f[p]
    <3> HIDE DEF v
    <3>. QED BY <2>1, <2>2, <2>3
  <2>5. ASSUME NEW p \in 1..(m + 1)
        PROVE  g[p] = g[p - 1] \o R[p]
    <3>1. CASE p = m + 1
      <4>1. p - 1 = m /\ g[p - 1] = f[m]
        BY <3>1, <2>4
      <4>. QED BY <2>4, <3>1, <4>1
    <3>2. CASE p # m + 1
      <4>1. p \in 1..m /\ p \in 0..m /\ p - 1 \in 0..m
        BY <3>2
      <4>2. g[p] = f[p] /\ g[p - 1] = f[p - 1]
        BY <2>4, <4>1
      <4>. QED BY <2>1, <4>1, <4>2
    <3>. QED BY <3>1, <3>2
  <2>6. Good(g, m + 1)
    <3> HIDE DEF g
    <3>. QED BY <2>4, <2>5
  <2>. QED BY <2>2, <2>6
<1>3. n \in G
  <2>1. G \in SUBSET (0..n)
    OBVIOUS
  <2> HIDE DEF G
  <2>2. G = 0..n
    BY <1>1, <1>2, <2>1, UptoInduction
  <2>. QED BY <2>2
<1>. QED BY <1>3

-----------------------------------------------------------------------------
(* FlattenSeq.                                                               *)

\* The recursion of FlattenSeq has the concatenations for its only solution.
LEMMA FlattenIsJoining ==
    ASSUME NEW V, NEW ss \in Seq(Seq(V)),
           NEW f \in [0..Len(ss) -> Seq(V)], Joining(f, Len(ss), ss)
    PROVE  FlattenSeq(ss) = f[Len(ss)]
<1> DEFINE n == Len(ss)
           Step(g) == [i \in 1..n |-> IF i = 1 THEN ss[i] ELSE g[i - 1] \o ss[i]]
<1>0. n \in Nat /\ n = Len(ss) /\ \A i \in 1..n : ss[i] \in Seq(V)
  OBVIOUS
<1> HIDE DEF n
<1>a. f \in [0..n -> Seq(V)] /\ f[0] = <<>> /\ \A p \in 1..n : f[p] = f[p - 1] \o ss[p]
  BY <1>0 DEF Joining
<1>1. CASE n = 0
  <2>1. ss = <<>>
    BY <1>0, <1>1, EmptySeq
  <2>2. FlattenSeq(ss) = ss
    BY <1>0, <1>1 DEF FlattenSeq
  <2>. QED BY <1>0, <1>a, <1>1, <2>1, <2>2
<1>2. CASE n # 0
  <2>1. n \in Nat /\ n > 0 /\ f[1] = ss[1]
    <3>1. 1 \in 1..n /\ 1 - 1 = 0 /\ n > 0
      BY <1>0, <1>2
    <3>2. ss[1] \in Seq(V) /\ f[1] = <<>> \o ss[1]
      BY <1>0, <1>a, <3>1
    <3>. QED BY <1>0, <3>1, <3>2, ConcatEmptySeq
  <2> DEFINE h == [i \in 1..n |-> f[i]]
             g == CHOOSE x : x = Step(x)
  <2>2. h = Step(h)
    <3>1. \A i \in 1..n : h[i] = IF i = 1 THEN ss[i] ELSE h[i - 1] \o ss[i]
      <4> TAKE i \in 1..n
      <4>1. f[i] = f[i - 1] \o ss[i] /\ h[i] = f[i]
        BY <1>a
      <4>2. CASE i = 1
        BY <2>1, <4>1, <4>2
      <4>3. CASE i # 1
        <5>1. i - 1 \in 1..n
          BY <2>1, <4>3
        <5>2. h[i - 1] = f[i - 1]
          BY <5>1
        <5>. QED BY <4>1, <4>3, <5>2
      <4>. QED BY <4>2, <4>3
    <3>. QED BY <3>1
  <2>3. g = Step(g)
    BY <2>2
  <2>4. FlattenSeq(ss) = g[n]
    BY <1>0, <1>2 DEF FlattenSeq
  <2> HIDE DEF g, h
  <2> DEFINE G == {p \in 0..n : p = 0 \/ g[p] = f[p]}
  <2>5. G = 0..n
    <3>1. 0 \in G
      OBVIOUS
    <3>2. ASSUME NEW p \in 0..n, p < n, p \in G
          PROVE  p + 1 \in G
      <4>1. p + 1 \in 1..n /\ (p + 1) - 1 = p
        BY <2>1, <3>2
      <4>2. g[p + 1] = IF p + 1 = 1 THEN ss[p + 1] ELSE g[p] \o ss[p + 1]
        BY <2>3, <4>1
      <4>3. f[p + 1] = f[p] \o ss[p + 1]
        BY <1>a, <4>1
      <4>a. p + 1 \in 0..n
        BY <4>1
      <4>4. CASE p = 0
        <5>1. p + 1 = 1
          BY <4>4
        <5>2. g[p + 1] = f[p + 1]
          BY <2>1, <4>2, <5>1
        <5>. QED BY <4>a, <5>2
      <4>5. CASE p # 0
        <5>1. g[p] = f[p] /\ p + 1 # 1
          BY <2>1, <3>2, <4>5
        <5>2. g[p + 1] = f[p + 1]
          BY <4>2, <4>3, <5>1
        <5>. QED BY <4>a, <5>2
      <4>. QED BY <4>4, <4>5
    <3>3. G \in SUBSET (0..n)
      OBVIOUS
    <3> HIDE DEF G
    <3>. QED BY <2>1, <3>1, <3>2, <3>3, UptoInduction
  <2>. QED BY <1>0, <1>2, <2>1, <2>4, <2>5
<1>. QED BY <1>1, <1>2

\* A sequence of sequences has its concatenations, and FlattenSeq is the last.
LEMMA FlattenJoins ==
    ASSUME NEW V, NEW ss \in Seq(Seq(V))
    PROVE  /\ \E f \in [0..Len(ss) -> Seq(V)] : Joining(f, Len(ss), ss) /\ FlattenSeq(ss) = f[Len(ss)]
           /\ FlattenSeq(ss) \in Seq(V)
<1>1. Len(ss) \in Nat /\ \A p \in 1..Len(ss) : ss[p] \in Seq(V)
  OBVIOUS
<1>2. PICK f \in [0..Len(ss) -> Seq(V)] : Joining(f, Len(ss), ss)
  BY <1>1, Concatenations
<1>3. FlattenSeq(ss) = f[Len(ss)]
  BY <1>2, FlattenIsJoining
<1>4. f[Len(ss)] \in Seq(V)
  BY <1>1
<1>. QED BY <1>2, <1>3, <1>4

\* Three sequences are joined in any order.
AnyOrder(x, y, z) == (x \o y) \o z = x \o (y \o z)

LEMMA ThreeJoined ==
    ASSUME NEW V, NEW x \in Seq(V), NEW y \in Seq(V), NEW z \in Seq(V)
    PROVE  AnyOrder(x, y, z)
<1> USE DEF AnyOrder
<1>1. x \o y \in Seq(V) /\ y \o z \in Seq(V) /\ Len(x \o y) = Len(x) + Len(y) /\ Len(y \o z) = Len(y) + Len(z)
  BY ConcatProperties
<1>. QED BY <1>1, SMT

\* Two sequences of sequences after one another.
LEMMA FlattenConcat ==
    ASSUME NEW V, NEW a \in Seq(Seq(V)), NEW b \in Seq(Seq(V))
    PROVE  FlattenSeq(a \o b) = FlattenSeq(a) \o FlattenSeq(b)
<1> DEFINE c == a \o b
           m == Len(a)
           n == Len(b)
<1>1. /\ c \in Seq(Seq(V)) /\ Len(c) = m + n /\ m \in Nat /\ n \in Nat
      /\ \A p \in 1..m : c[p] = a[p]
      /\ \A p \in 1..n : c[m + p] = b[p] /\ b[p] \in Seq(V)
  BY ConcatProperties
<1>b. m = Len(a) /\ n = Len(b)
  OBVIOUS
<1>n. m \in Nat /\ n \in Nat
  OBVIOUS
<1> HIDE DEF c, m, n
<1>2. PICK f \in [0..(m + n) -> Seq(V)] : Joining(f, m + n, c) /\ FlattenSeq(c) = f[m + n]
  <2>1. \E f \in [0..Len(c) -> Seq(V)] : Joining(f, Len(c), c) /\ FlattenSeq(c) = f[Len(c)]
    BY <1>1, FlattenJoins
  <2>. QED BY <1>1, <2>1
<1>3. PICK h \in [0..n -> Seq(V)] : Joining(h, n, b) /\ FlattenSeq(b) = h[n]
  BY <1>b, FlattenJoins
<1>4. FlattenSeq(a) = f[m]
  <2> DEFINE g == [p \in 0..m |-> f[p]]
  <2>1. g \in [0..m -> Seq(V)]
    <3>1. 0..m \subseteq 0..(m + n)
      BY <1>n
    <3>. QED BY <1>2, <3>1
  <2>2. g[0] = <<>> /\ \A p \in 1..m : g[p] = g[p - 1] \o a[p]
    <3>1. \A p \in 1..m : p \in 1..(m + n) /\ p \in 0..m /\ p - 1 \in 0..m
      BY <1>1
    <3>2. f[0] = <<>> /\ \A p \in 1..(m + n) : f[p] = f[p - 1] \o c[p]
      BY <1>2 DEF Joining
    <3>3. \A p \in 0..m : g[p] = f[p]
      OBVIOUS
    <3>4. 0 \in 0..m
      BY <1>1
    <3> HIDE DEF g
    <3>. QED BY <1>1, <3>1, <3>2, <3>3, <3>4
  <2>3. g[m] = f[m]
    BY <1>1
  <2> HIDE DEF g
  <2>. QED BY <1>b, <2>1, <2>2, <2>3, FlattenIsJoining DEF Joining
<1> DEFINE G == {p \in 0..n : f[m + p] = f[m] \o h[p]}
<1>5. G = 0..n
  <2>1. 0 \in G
    <3>1. h[0] = <<>> /\ f[m] \in Seq(V) /\ m + 0 = m /\ 0 \in 0..n
      BY <1>n, <1>2, <1>3 DEF Joining
    <3>2. f[m] \o <<>> = f[m]
      BY <3>1, ConcatEmptySeq
    <3>. QED BY <3>1, <3>2
  <2>2. ASSUME NEW p \in 0..n, p < n, p \in G
        PROVE  p + 1 \in G
    <3>1. p + 1 \in 1..n /\ (p + 1) - 1 = p /\ m + (p + 1) \in 1..(m + n) /\ (m + (p + 1)) - 1 = m + p
      BY <1>1, <2>2
    <3>2. f[m + (p + 1)] = f[m + p] \o c[m + (p + 1)]
      BY <1>2, <3>1 DEF Joining
    <3>3. h[p + 1] = h[p] \o b[p + 1]
      BY <1>3, <3>1 DEF Joining
    <3>4. f[m] \in Seq(V) /\ h[p] \in Seq(V) /\ b[p + 1] \in Seq(V)
      <4>1. m \in 0..(m + n) /\ p \in 0..n /\ p + 1 \in 1..n
        BY <1>1, <3>1
      <4>2. b[p + 1] \in Seq(V)
        BY <1>1, <4>1
      <4>. QED BY <1>2, <1>3, <4>1, <4>2
    <3>5. (f[m] \o h[p]) \o b[p + 1] = f[m] \o (h[p] \o b[p + 1])
      <4> DEFINE x == f[m]
                 y == h[p]
                 z == b[p + 1]
      <4>1. x \in Seq(V) /\ y \in Seq(V) /\ z \in Seq(V)
        BY <3>4
      <4> HIDE DEF x, y, z, G
      <4>2. AnyOrder(x, y, z)
        BY <4>1, ThreeJoined, Zenon
      <4>. QED BY <4>2 DEF x, y, z, AnyOrder
    <3>6. f[m + p] = f[m] \o h[p] /\ c[m + (p + 1)] = b[p + 1] /\ p + 1 \in 0..n
      <4>1. f[m + p] = f[m] \o h[p]
        BY <2>2
      <4>2. c[m + (p + 1)] = b[p + 1]
        BY <1>1, <3>1
      <4>3. p + 1 \in 0..n
        BY <1>n, <3>1
      <4>. QED BY <4>1, <4>2, <4>3
    <3>. QED BY <3>2, <3>3, <3>5, <3>6
  <2>3. G \in SUBSET (0..n)
    OBVIOUS
  <2> HIDE DEF G
  <2>. QED BY <1>1, <2>1, <2>2, <2>3, UptoInduction
<1>6. f[m + n] = f[m] \o h[n]
  <2>1. n \in G
    <3> HIDE DEF G
    <3>. QED BY <1>n, <1>5
  <2>. QED BY <2>1
<1>. QED BY <1>2, <1>3, <1>4, <1>6 DEF c
-----------------------------------------------------------------------------
(* What a concatenation holds, and whether it holds it once.                 *)

\* The sequences of ss have nothing twice, neither one of them nor two.
Apart(ss) ==
    \A i, k \in DOMAIN ss : \A p \in DOMAIN ss[i], q \in DOMAIN ss[k] :
        ss[i][p] = ss[k][q] => i = k /\ p = q

\* A concatenation has nothing twice when its parts have not and share nothing.
LEMMA ConcatOnce ==
    ASSUME NEW V, NEW x \in Seq(V), NEW y \in Seq(V)
    PROVE  IsInjective(x \o y) <=> /\ IsInjective(x) /\ IsInjective(y)
                                   /\ Range(x) \cap Range(y) = {}
<1> DEFINE c == x \o y
           m == Len(x)
           n == Len(y)
<1>1. /\ m \in Nat /\ n \in Nat /\ DOMAIN x = 1..m /\ DOMAIN y = 1..n /\ DOMAIN c = 1..(m + n)
      /\ \A p \in 1..m : c[p] = x[p]
      /\ \A p \in 1..n : c[m + p] = y[p]
  BY ConcatProperties
<1> HIDE DEF c, m, n
<1>2. \A p \in 1..(m + n) : p \in 1..m \/ (p - m \in 1..n /\ m + (p - m) = p)
  BY <1>1
<1>3. ASSUME IsInjective(c)
      PROVE  IsInjective(x) /\ IsInjective(y) /\ Range(x) \cap Range(y) = {}
  <2>1. IsInjective(x)
    <3>1. \A p \in 1..m : p \in 1..(m + n)
      BY <1>1
    <3>. QED BY <1>1, <1>3, <3>1 DEF IsInjective
  <2>2. IsInjective(y)
    <3>1. \A p \in 1..n : m + p \in 1..(m + n)
      BY <1>1
    <3> SUFFICES ASSUME NEW p \in 1..n, NEW q \in 1..n, y[p] = y[q] PROVE p = q
      BY <1>1 DEF IsInjective
    <3>2. c[m + p] = c[m + q] /\ m + p \in DOMAIN c /\ m + q \in DOMAIN c
      BY <1>1, <3>1
    <3>3. m + p = m + q
      BY <1>3, <3>2 DEF IsInjective
    <3>. QED BY <1>1, <3>3
  <2>3. \A p \in 1..m, q \in 1..n : x[p] # y[q]
    <3> SUFFICES ASSUME NEW p \in 1..m, NEW q \in 1..n, x[p] = y[q] PROVE FALSE
      OBVIOUS
    <3>1. p \in 1..(m + n) /\ m + q \in 1..(m + n) /\ p # m + q
      BY <1>1
    <3>2. c[p] = c[m + q]
      BY <1>1
    <3>. QED BY <1>1, <1>3, <3>1, <3>2 DEF IsInjective
  <2>. QED BY <1>1, <2>1, <2>2, <2>3 DEF Range
<1>4. ASSUME IsInjective(x), IsInjective(y), Range(x) \cap Range(y) = {}
      PROVE  IsInjective(c)
  <2> SUFFICES ASSUME NEW p \in 1..(m + n), NEW q \in 1..(m + n), c[p] = c[q] PROVE p = q
    BY <1>1 DEF IsInjective
  <2>1. \A i \in 1..m, k \in 1..n : x[i] # y[k]
    BY <1>1, <1>4 DEF Range
  <2>2. CASE p \in 1..m /\ q \in 1..m
    BY <1>1, <1>4, <2>2 DEF IsInjective
  <2>3. CASE p \in 1..m /\ q \notin 1..m
    <3>1. q - m \in 1..n /\ c[q] = y[q - m] /\ c[p] = x[p]
      BY <1>1, <1>2, <2>3
    <3>. QED BY <2>1, <2>3, <3>1
  <2>4. CASE p \notin 1..m /\ q \in 1..m
    <3>1. p - m \in 1..n /\ c[p] = y[p - m] /\ c[q] = x[q]
      BY <1>1, <1>2, <2>4
    <3>. QED BY <2>1, <2>4, <3>1
  <2>5. CASE p \notin 1..m /\ q \notin 1..m
    <3>1. p - m \in 1..n /\ c[p] = y[p - m] /\ q - m \in 1..n /\ c[q] = y[q - m]
      BY <1>1, <1>2, <2>5
    <3>2. p - m = q - m
      BY <1>1, <1>4, <3>1 DEF IsInjective
    <3>. QED BY <1>1, <3>2
  <2>. QED BY <2>2, <2>3, <2>4, <2>5
<1>. QED BY <1>3, <1>4 DEF c

\* FlattenSeq holds what its parts hold, and holds it once exactly when they are apart.
LEMMA FlattenHolds ==
    ASSUME NEW V, NEW ss \in Seq(Seq(V))
    PROVE  /\ \A v : v \in Range(FlattenSeq(ss)) <=> \E i \in DOMAIN ss : v \in Range(ss[i])
           /\ IsInjective(FlattenSeq(ss)) <=> Apart(ss)
<1> DEFINE n == Len(ss)
<1>1. n \in Nat /\ DOMAIN ss = 1..n /\ \A i \in 1..n : ss[i] \in Seq(V)
  OBVIOUS
<1>2. PICK f \in [0..n -> Seq(V)] : Joining(f, n, ss) /\ FlattenSeq(ss) = f[n]
  BY FlattenJoins
<1> HIDE DEF n
<1> DEFINE Held(k) == \A v : v \in Range(f[k]) <=> \E i \in 1..k : v \in Range(ss[i])
           Once(k) == IsInjective(f[k]) <=>
                        \A i, j \in 1..k : \A p \in DOMAIN ss[i], q \in DOMAIN ss[j] :
                            ss[i][p] = ss[j][q] => i = j /\ p = q
           G == {k \in 0..n : Held(k) /\ Once(k)}
<1>3. 0 \in G
  <2>1. f[0] = <<>> /\ 1..0 = {} /\ Range(<<>>) = {} /\ IsInjective(<<>>)
    BY <1>2 DEF Joining, Range, IsInjective
  <2>2. 0 \in 0..n
    BY <1>1
  <2>3. Held(0) /\ Once(0)
    BY <2>1
  <2>. QED BY <2>2, <2>3
<1>4. ASSUME NEW k \in 0..n, k < n, k \in G
      PROVE  k + 1 \in G
  <2> DEFINE s == ss[k + 1]
  <2>1. k + 1 \in 1..n /\ k + 1 \in 0..n /\ (k + 1) - 1 = k
    BY <1>1, <1>4
  <2>2. s \in Seq(V) /\ f[k] \in Seq(V) /\ f[k + 1] = f[k] \o s
    BY <1>1, <1>2, <2>1 DEF Joining
  <2>3. Held(k) /\ Once(k)
    BY <1>4
  <2>4. Range(f[k + 1]) = Range(f[k]) \cup Range(s)
    BY <2>2, RangeConcatenation
  <2>5. \A i : i \in 1..(k + 1) <=> i \in 1..k \/ i = k + 1
    BY <1>1
  <2>6. Held(k + 1)
    BY <2>3, <2>4, <2>5
  <2>7. IsInjective(f[k + 1]) <=> /\ IsInjective(f[k]) /\ IsInjective(s)
                                  /\ Range(f[k]) \cap Range(s) = {}
    BY <2>2, ConcatOnce
  <2>8. Range(f[k]) \cap Range(s) = {} <=>
            \A i \in 1..k : \A p \in DOMAIN ss[i], q \in DOMAIN s : ss[i][p] # s[q]
    <3>1. ASSUME Range(f[k]) \cap Range(s) = {},
                 NEW i \in 1..k, NEW p \in DOMAIN ss[i], NEW q \in DOMAIN s, ss[i][p] = s[q]
          PROVE  FALSE
      <4>1. ss[i][p] \in Range(ss[i]) /\ s[q] \in Range(s)
        BY DEF Range
      <4>2. s[q] \in Range(f[k])
        BY <2>3, <3>1, <4>1
      <4>. QED BY <3>1, <4>1, <4>2
    <3>2. ASSUME \A i \in 1..k : \A p \in DOMAIN ss[i], q \in DOMAIN s : ss[i][p] # s[q],
                 NEW v, v \in Range(f[k]), v \in Range(s)
          PROVE  FALSE
      <4>1. PICK i \in 1..k : v \in Range(ss[i])
        BY <2>3, <3>2
      <4>2. PICK p \in DOMAIN ss[i] : v = ss[i][p]
        BY <4>1 DEF Range
      <4>3. PICK q \in DOMAIN s : v = s[q]
        BY <3>2 DEF Range
      <4>. QED BY <3>2, <4>2, <4>3
    <3>. QED BY <3>1, <3>2
  <2>9. k + 1 \notin 1..k
    BY <1>1
  <2>10. Once(k + 1)
    <3>1. ASSUME IsInjective(f[k + 1]),
                 NEW i \in 1..(k + 1), NEW j \in 1..(k + 1),
                 NEW p \in DOMAIN ss[i], NEW q \in DOMAIN ss[j], ss[i][p] = ss[j][q]
          PROVE  i = j /\ p = q
      <4>1. CASE i = k + 1 /\ j = k + 1
        BY <2>7, <3>1, <4>1 DEF IsInjective
      <4>2. CASE i # k + 1 /\ j # k + 1
        BY <2>3, <2>5, <2>7, <3>1, <4>2
      <4>3. CASE i # k + 1 /\ j = k + 1
        <5>1. i \in 1..k /\ q \in DOMAIN s /\ ss[i][p] = s[q]
          BY <2>5, <3>1, <4>3
        <5>. QED BY <2>7, <2>8, <3>1, <5>1
      <4>4. CASE i = k + 1 /\ j # k + 1
        <5>1. j \in 1..k /\ p \in DOMAIN s /\ ss[j][q] = s[p]
          BY <2>5, <3>1, <4>4
        <5>. QED BY <2>7, <2>8, <3>1, <5>1
      <4>. QED BY <4>1, <4>2, <4>3, <4>4
    <3>2. ASSUME \A i, j \in 1..(k + 1) : \A p \in DOMAIN ss[i], q \in DOMAIN ss[j] :
                    ss[i][p] = ss[j][q] => i = j /\ p = q
          PROVE  IsInjective(f[k + 1])
      <4>1. IsInjective(f[k])
        BY <2>3, <2>5, <3>2
      <4>2. IsInjective(s)
        BY <2>5, <3>2 DEF IsInjective
      <4>3. \A i \in 1..k : \A p \in DOMAIN ss[i], q \in DOMAIN s : ss[i][p] # s[q]
        BY <2>5, <2>9, <3>2
      <4>. QED BY <2>7, <2>8, <4>1, <4>2, <4>3
    <3>. QED BY <3>1, <3>2
  <2> HIDE DEF Held, Once
  <2>. QED BY <2>1, <2>6, <2>10
<1>5. n \in G
  <2>1. G \in SUBSET (0..n)
    OBVIOUS
  <2> HIDE DEF G
  <2>2. G = 0..n
    BY <1>1, <1>3, <1>4, <2>1, UptoInduction
  <2>. QED BY <1>1, <2>2
<1>6. Held(n) /\ Once(n)
  BY <1>5
<1>. QED BY <1>1, <1>2, <1>6 DEF Apart
\* What is picked are the elements at those positions, once when they were there once.
LEMMA PickedHolds ==
    ASSUME NEW V, NEW s \in Seq(V), NEW at
    PROVE  /\ Picked(s, at) \in Seq(V)
           /\ \A v : v \in Range(Picked(s, at)) <=> \E i \in DOMAIN s \cap at : v = s[i]
           /\ IsInjective(s) => IsInjective(Picked(s, at))
<1> DEFINE ss == [i \in DOMAIN s |-> IF i \in at THEN <<s[i]>> ELSE <<>>]
<1>1. DOMAIN s = 1..Len(s) /\ Len(s) \in Nat /\ \A i \in DOMAIN s : s[i] \in V
  OBVIOUS
<1>2. \A i \in DOMAIN s : ss[i] \in Seq(V)
  BY <1>1
<1>3. ss \in Seq(Seq(V)) /\ DOMAIN ss = DOMAIN s
  <2>1. ss \in [1..Len(s) -> Seq(V)]
    BY <1>1, <1>2
  <2>. QED BY <1>1, <2>1
<1>4. \A i \in DOMAIN s : \A p \in DOMAIN ss[i] : i \in at /\ p = 1 /\ ss[i][p] = s[i]
  OBVIOUS
<1>5. \A i \in DOMAIN s \cap at : 1 \in DOMAIN ss[i] /\ ss[i][1] = s[i]
  OBVIOUS
<1>6. Picked(s, at) = FlattenSeq(ss)
  BY DEF Picked
<1> HIDE DEF ss
<1>7. Picked(s, at) \in Seq(V)
  BY <1>3, <1>6, FlattenJoins
<1>8. \A v : v \in Range(Picked(s, at)) <=> \E i \in DOMAIN ss : v \in Range(ss[i])
  BY <1>3, <1>6, FlattenHolds
<1>9. \A v : (\E i \in DOMAIN ss : v \in Range(ss[i])) <=> \E i \in DOMAIN s \cap at : v = s[i]
  BY <1>3, <1>4, <1>5 DEF Range
<1>10. IsInjective(s) => Apart(ss)
  BY <1>3, <1>4 DEF Apart, IsInjective
<1>11. IsInjective(Picked(s, at)) <=> Apart(ss)
  BY <1>3, <1>6, FlattenHolds
<1>. QED BY <1>7, <1>8, <1>9, <1>10, <1>11

\* Flattened twice, in either order.
LEMMA FlattenNested ==
    ASSUME NEW V, NEW xs \in Seq(Seq(Seq(V)))
    PROVE  /\ [i \in DOMAIN xs |-> FlattenSeq(xs[i])] \in Seq(Seq(V))
           /\ FlattenSeq(FlattenSeq(xs)) = FlattenSeq([i \in DOMAIN xs |-> FlattenSeq(xs[i])])
<1> DEFINE n == Len(xs)
           ys == [i \in DOMAIN xs |-> FlattenSeq(xs[i])]
<1>1. n \in Nat /\ DOMAIN xs = 1..n /\ \A i \in 1..n : xs[i] \in Seq(Seq(V))
  OBVIOUS
<1>2. \A i \in 1..n : ys[i] \in Seq(V) /\ ys[i] = FlattenSeq(xs[i])
  BY <1>1, FlattenJoins
<1>3. ys \in Seq(Seq(V)) /\ Len(ys) = n
  <2>1. ys \in [1..n -> Seq(V)]
    BY <1>1, <1>2
  <2>. QED BY <1>1, <2>1
<1>4. PICK f \in [0..n -> Seq(Seq(V))] : Joining(f, n, xs) /\ FlattenSeq(xs) = f[n]
  BY FlattenJoins
<1> HIDE DEF ys
<1>5. PICK h \in [0..n -> Seq(V)] : Joining(h, n, ys) /\ FlattenSeq(ys) = h[n]
  <2>1. \E h \in [0..Len(ys) -> Seq(V)] : Joining(h, Len(ys), ys) /\ FlattenSeq(ys) = h[Len(ys)]
    BY <1>3, FlattenJoins
  <2>. QED BY <1>3, <2>1
<1> HIDE DEF n
<1> DEFINE G == {k \in 0..n : FlattenSeq(f[k]) = h[k]}
<1>6. 0 \in G
  <2>1. f[0] = <<>> /\ h[0] = <<>> /\ FlattenSeq(<<>>) = <<>>
    BY <1>4, <1>5 DEF Joining, FlattenSeq
  <2>2. 0 \in 0..n
    BY <1>1
  <2>. QED BY <2>1, <2>2
<1>7. ASSUME NEW k \in 0..n, k < n, k \in G
      PROVE  k + 1 \in G
  <2>1. k + 1 \in 1..n /\ k + 1 \in 0..n /\ (k + 1) - 1 = k
    BY <1>1, <1>7
  <2>2. f[k + 1] = f[k] \o xs[k + 1] /\ h[k + 1] = h[k] \o ys[k + 1]
    BY <1>4, <1>5, <2>1 DEF Joining
  <2>3. f[k] \in Seq(Seq(V)) /\ xs[k + 1] \in Seq(Seq(V))
    BY <1>1, <1>4, <2>1
  <2>4. FlattenSeq(f[k + 1]) = FlattenSeq(f[k]) \o FlattenSeq(xs[k + 1])
    BY <2>2, <2>3, FlattenConcat
  <2>5. ys[k + 1] = FlattenSeq(xs[k + 1]) /\ FlattenSeq(f[k]) = h[k]
    BY <1>2, <1>7, <2>1
  <2>. QED BY <2>1, <2>2, <2>4, <2>5
<1>8. n \in G
  <2>1. G \in SUBSET (0..n)
    OBVIOUS
  <2> HIDE DEF G
  <2>2. G = 0..n
    BY <1>1, <1>6, <1>7, <2>1, UptoInduction
  <2>. QED BY <1>1, <2>2
<1>. QED BY <1>3, <1>4, <1>5, <1>8 DEF ys

-----------------------------------------------------------------------------
(* Partitions.                                                               *)

Buffers(V) == [out : Seq(Seq(V)), buf : Seq(V)]

\* One row more: the buffer grows, or is full and becomes a partition.
Filled(b, row, n) ==
    IF Len(Append(b.buf, row)) = n THEN [out |-> Append(b.out, Append(b.buf, row)), buf |-> <<>>]
    ELSE [out |-> b.out, buf |-> Append(b.buf, row)]
Filling(f, k, rows, n) ==
    f[0] = [out |-> <<>>, buf |-> <<>>] /\ \A p \in 1..k : f[p] = Filled(f[p - 1], rows[p], n)

\* A row more keeps the buffer and the partitions what they are.
LEMMA FilledIsBuffers ==
    ASSUME NEW V, NEW b \in Buffers(V), NEW row \in V, NEW n \in Nat
    PROVE  Filled(b, row, n) \in Buffers(V)
<1>1. Append(b.buf, row) \in Seq(V) /\ <<>> \in Seq(V) /\ b.out \in Seq(Seq(V)) /\ b.buf \in Seq(V)
  BY DEF Buffers
<1>2. Append(b.out, Append(b.buf, row)) \in Seq(Seq(V))
  BY <1>1, AppendProperties
<1>. QED BY <1>1, <1>2 DEF Filled, Buffers

\* The recursion of partition_csv has a solution.
LEMMA BuffersExist ==
    ASSUME NEW V, NEW rows \in Seq(V), NEW n \in Nat
    PROVE  \E f \in [0..Len(rows) -> Buffers(V)] : Filling(f, Len(rows), rows, n)
<1> DEFINE N == Len(rows)
           Good(f, m) == f \in [0..N -> Buffers(V)] /\ Filling(f, m, rows, n)
           G == {m \in 0..N : \E f : Good(f, m)}
           none == [out |-> <<>>, buf |-> <<>>]
<1>0. N \in Nat /\ N = Len(rows) /\ \A p \in 1..N : rows[p] \in V
  OBVIOUS
<1> HIDE DEF N
<1>1. 0 \in G
  <2> DEFINE g == [p \in 0..N |-> none]
  <2>1. g \in [0..N -> Buffers(V)]
    BY EmptySeq DEF Buffers
  <2>2. g[0] = none /\ 1..0 = {} /\ 0 \in 0..N
    BY <1>0
  <2> HIDE DEF g
  <2>3. Good(g, 0)
    BY <2>1, <2>2 DEF Filling
  <2> HIDE DEF Good
  <2>. QED BY <2>2, <2>3
<1>2. ASSUME NEW m \in 0..N, m < N, m \in G
      PROVE  m + 1 \in G
  <2>1. PICK f : Good(f, m)
    BY <1>2
  <2> DEFINE v == Filled(f[m], rows[m + 1], n)
             g == [f EXCEPT ![m + 1] = v]
  <2>2. f[m] \in Buffers(V) /\ rows[m + 1] \in V /\ m + 1 \in 0..N
    <3>1. m + 1 \in 1..N /\ m + 1 \in 0..N
      BY <1>0, <1>2
    <3>. QED BY <1>0, <2>1, <3>1
  <2>3. v \in Buffers(V)
    BY <2>2, FilledIsBuffers
  <2> HIDE DEF v
  <2>4. g \in [0..N -> Buffers(V)] /\ g[m + 1] = v /\ \A p \in 0..m : g[p] = f[p]
    <3>1. \A p \in 0..m : p \in 0..N /\ p # m + 1
      BY <1>0, <1>2
    <3>. QED BY <2>1, <2>2, <2>3, <3>1
  <2> HIDE DEF g
  <2>5. ASSUME NEW p \in 1..(m + 1)
        PROVE  g[p] = Filled(g[p - 1], rows[p], n)
    <3>1. CASE p = m + 1
      <4>1. p - 1 = m /\ m \in 0..m
        BY <3>1
      <4>2. g[p - 1] = f[m]
        BY <2>4, <4>1
      <4>. QED BY <2>4, <3>1, <4>2 DEF v
    <3>2. CASE p # m + 1
      <4>1. p \in 1..m /\ p \in 0..m /\ p - 1 \in 0..m
        BY <3>2
      <4>2. g[p] = f[p] /\ g[p - 1] = f[p - 1]
        BY <2>4, <4>1
      <4>3. f[p] = Filled(f[p - 1], rows[p], n)
        BY <2>1, <4>1 DEF Filling
      <4>. QED BY <4>2, <4>3
    <3>. QED BY <3>1, <3>2
  <2>6. g[0] = none
    <3>1. 0 \in 0..m
      OBVIOUS
    <3>. QED BY <2>1, <2>4, <3>1 DEF Filling
  <2>7. Good(g, m + 1)
    BY <2>4, <2>5, <2>6 DEF Filling
  <2> HIDE DEF Good
  <2>. QED BY <2>2, <2>7
<1>3. N \in G
  <2>1. G \in SUBSET (0..N)
    OBVIOUS
  <2> HIDE DEF G
  <2>2. G = 0..N
    BY <1>0, <1>1, <1>2, <2>1, UptoInduction
  <2>. QED BY <1>0, <2>2
<1>. QED BY <1>0, <1>3

\* Buffered fills its buffer row by row.
LEMMA BufferedFills ==
    ASSUME NEW V, NEW rows \in Seq(V), NEW n \in Nat
    PROVE  Filling(Buffered(rows, n), Len(rows), rows, n)
<1> DEFINE N == Len(rows)
           Step(g) == [k \in 0..N |->
                IF k = 0 THEN [out |-> <<>>, buf |-> <<>>]
                ELSE LET buf == Append(g[k - 1].buf, rows[k]) IN
                     IF Len(buf) = n THEN [out |-> Append(g[k - 1].out, buf), buf |-> <<>>]
                     ELSE [out |-> g[k - 1].out, buf |-> buf]]
<1>0. N \in Nat
  OBVIOUS
<1>1. Buffered(rows, n) = CHOOSE g : g = Step(g)
  BY DEF Buffered
<1> HIDE DEF N
<1>2. PICK f \in [0..N -> Buffers(V)] : Filling(f, N, rows, n)
  BY BuffersExist DEF N
<1>3. f = Step(f)
  <2>1. \A k \in 0..N : k # 0 => k \in 1..N
    BY <1>0
  <2>. QED BY <1>2, <2>1 DEF Filling, Filled
<1>4. Buffered(rows, n) = Step(Buffered(rows, n))
  BY <1>1, <1>3
<1>5. Filling(Buffered(rows, n), N, rows, n)
  <2> DEFINE g == Buffered(rows, n)
  <2>1. g = Step(g)
    BY <1>4
  <2> HIDE DEF g
  <2>2. g[0] = [out |-> <<>>, buf |-> <<>>]
    BY <1>0, <2>1
  <2>3. \A p \in 1..N : g[p] = Filled(g[p - 1], rows[p], n)
    <3> TAKE p \in 1..N
    <3>1. p \in 0..N /\ p # 0
      BY <1>0
    <3>. QED BY <2>1, <3>1 DEF Filled
  <2>4. Filling(g, N, rows, n)
    BY <2>2, <2>3 DEF Filling
  <2>. QED BY <2>4 DEF g
<1>. QED BY <1>5 DEF N
\* One sequence more is joined to the others.
LEMMA FlattenAppend ==
    ASSUME NEW V, NEW ss \in Seq(Seq(V)), NEW s \in Seq(V)
    PROVE  FlattenSeq(Append(ss, s)) = FlattenSeq(ss) \o s
<1>1. <<s>> \in Seq(Seq(V)) /\ Len(<<s>>) = 1 /\ Append(ss, s) = ss \o <<s>>
  BY AppendIsConcat
<1>2. FlattenSeq(<<s>>) = s
  <2> DEFINE one == <<s>>
  <2>1. one \in Seq(Seq(V)) /\ Len(one) = 1 /\ one[1] = s
    BY <1>1
  <2> HIDE DEF one
  <2>2. PICK f \in [0..Len(one) -> Seq(V)] : Joining(f, Len(one), one) /\ FlattenSeq(one) = f[Len(one)]
    BY <2>1, FlattenJoins
  <2>3. 1 \in 1..1 /\ 1 - 1 = 0
    OBVIOUS
  <2>4. f[0] = <<>> /\ f[1] = f[0] \o s
    BY <2>1, <2>2, <2>3 DEF Joining
  <2>5. <<>> \o s = s
    BY ConcatEmptySeq
  <2>. QED BY <2>1, <2>2, <2>4, <2>5 DEF one
<1>. QED BY <1>1, <1>2, FlattenConcat

\* An element more at the end is at the end of both.
LEMMA JoinedAppend ==
    ASSUME NEW V, NEW x \in Seq(V), NEW y \in Seq(V), NEW e \in V
    PROVE  x \o Append(y, e) = Append(x \o y, e)
<1>1. x \o y \in Seq(V) /\ Len(x \o y) = Len(x) + Len(y)
  BY ConcatProperties
<1>. QED BY <1>1

\* A prefix and the next row are the next prefix.
LEMMA OneRowMore ==
    ASSUME NEW V, NEW rows \in Seq(V), NEW k \in Nat, k < Len(rows)
    PROVE  Append(SubSeq(rows, 1, k), rows[k + 1]) = SubSeq(rows, 1, k + 1)
OBVIOUS

\* After k rows they are all in the full partitions or in the buffer, which is not full.
BufferOf(V, b, rows, n) ==
    /\ b \in Buffers(V) /\ Len(b.buf) < n
    /\ \A i \in DOMAIN b.out : Len(b.out[i]) = n
    /\ FlattenSeq(b.out) \o b.buf = rows

\* That is so after every row.
LEMMA BufferHolds ==
    ASSUME NEW V, NEW rows \in Seq(V), NEW n \in Nat \ {0}, NEW f, NEW k \in 0..Len(rows),
           Filling(f, Len(rows), rows, n)
    PROVE  BufferOf(V, f[k], SubSeq(rows, 1, k), n)
<1> USE DEF BufferOf
<1> DEFINE N == Len(rows)
           Holds(p) == BufferOf(V, f[p], SubSeq(rows, 1, p), n)
           G == {p \in 0..N : Holds(p)}
<1>0. N \in Nat /\ k \in 0..N
  OBVIOUS
<1>a. f[0] = [out |-> <<>>, buf |-> <<>>] /\ \A p \in 1..N : f[p] = Filled(f[p - 1], rows[p], n)
  BY DEF Filling
<1>1. 0 \in G
  <2>1. FlattenSeq(<<>>) = <<>> /\ SubSeq(rows, 1, 0) = <<>>
    BY DEF FlattenSeq
  <2>2. f[0] \in Buffers(V) /\ f[0].out = <<>> /\ f[0].buf = <<>>
    BY <1>a, EmptySeq DEF Buffers
  <2>3. Len(<<>>) < n /\ DOMAIN <<>> = {} /\ <<>> \o <<>> = <<>>
    OBVIOUS
  <2>4. Holds(0)
    BY <2>1, <2>2, <2>3
  <2> HIDE DEF Holds
  <2>5. 0 \in 0..N
    BY <1>0
  <2>. QED BY <2>4, <2>5
<1>2. ASSUME NEW p \in 0..N, p < N, p \in G
      PROVE  p + 1 \in G
  <2> DEFINE out == f[p].out
             old == f[p].buf
             row == rows[p + 1]
             buf == Append(old, row)
  <2>1. p + 1 \in 1..N /\ p + 1 \in 0..N /\ (p + 1) - 1 = p /\ p \in Nat
    BY <1>0, <1>2
  <2>2. /\ out \in Seq(Seq(V)) /\ old \in Seq(V) /\ Len(old) < n /\ Len(old) \in Nat
        /\ \A i \in DOMAIN out : Len(out[i]) = n
        /\ FlattenSeq(out) \o old = SubSeq(rows, 1, p)
    <3>1. Holds(p)
      BY <1>2
    <3>2. f[p].out \in Seq(Seq(V)) /\ f[p].buf \in Seq(V)
      BY <3>1 DEF Buffers
    <3>3. Len(f[p].buf) \in Nat
      BY <3>2
    <3>. QED BY <3>1, <3>2, <3>3
  <2>3. row \in V /\ buf \in Seq(V) /\ Len(buf) = Len(old) + 1 /\ FlattenSeq(out) \in Seq(V)
    <3>1. row \in V
      BY <2>1
    <3>. QED BY <2>2, <3>1, FlattenJoins
  <2>4. f[p + 1] = IF Len(buf) = n THEN [out |-> Append(out, buf), buf |-> <<>>]
                   ELSE [out |-> out, buf |-> buf]
    BY <1>a, <2>1 DEF Filled
  <2>5. FlattenSeq(out) \o buf = SubSeq(rows, 1, p + 1)
    <3>1. FlattenSeq(out) \o buf = Append(FlattenSeq(out) \o old, row)
      <4> DEFINE x == FlattenSeq(out)
      <4>1. x \in Seq(V) /\ old \in Seq(V) /\ row \in V
        BY <2>2, <2>3
      <4> HIDE DEF x, old, row
      <4>2. x \o Append(old, row) = Append(x \o old, row)
        BY <4>1, JoinedAppend
      <4>. QED BY <4>2 DEF x
    <3>2. Append(SubSeq(rows, 1, p), row) = SubSeq(rows, 1, p + 1)
      BY <2>1, OneRowMore
    <3>. QED BY <2>2, <3>1, <3>2
  <2> HIDE DEF out, old, row, buf
  <2>6. CASE Len(buf) = n
    <3>1. f[p + 1].out = Append(out, buf) /\ f[p + 1].buf = <<>>
          /\ f[p + 1] = [out |-> Append(out, buf), buf |-> <<>>]
      BY <2>4, <2>6
    <3>2. FlattenSeq(Append(out, buf)) = FlattenSeq(out) \o buf
      BY <2>2, <2>3, FlattenAppend
    <3>3. (FlattenSeq(out) \o buf) \o <<>> = FlattenSeq(out) \o buf
      <4>1. FlattenSeq(out) \o buf \in Seq(V)
        BY <2>3, ConcatProperties
      <4>. QED BY <4>1, ConcatEmptySeq
    <3>4. Append(out, buf) \in Seq(Seq(V)) /\ Len(Append(out, buf)) = Len(out) + 1
          /\ \A i \in 1..Len(out) + 1 : Append(out, buf)[i] = IF i <= Len(out) THEN out[i] ELSE buf
      BY <2>2, <2>3, AppendProperties
    <3>5. \A i \in DOMAIN Append(out, buf) : Len(Append(out, buf)[i]) = n
      <4> TAKE i \in DOMAIN Append(out, buf)
      <4>1. i \in 1..Len(out) + 1 /\ (i <= Len(out) => i \in DOMAIN out)
        BY <2>2, <3>4
      <4>. QED BY <2>2, <2>6, <3>4, <4>1
    <3>6. f[p + 1] \in Buffers(V) /\ Len(f[p + 1].buf) < n
      BY <3>1, <3>4, EmptySeq DEF Buffers
    <3>7. Holds(p + 1)
      BY <2>5, <3>1, <3>2, <3>3, <3>5, <3>6
    <3> HIDE DEF Holds
    <3>. QED BY <2>1, <3>7
  <2>7. CASE Len(buf) # n
    <3>1. f[p + 1].out = out /\ f[p + 1].buf = buf /\ f[p + 1] = [out |-> out, buf |-> buf]
      BY <2>4, <2>7
    <3>2. f[p + 1] \in Buffers(V) /\ Len(f[p + 1].buf) < n
      BY <2>2, <2>3, <2>7, <3>1 DEF Buffers
    <3>3. Holds(p + 1)
      BY <2>2, <2>5, <3>1, <3>2
    <3> HIDE DEF Holds
    <3>. QED BY <2>1, <3>3
  <2>. QED BY <2>6, <2>7
<1>3. k \in G
  <2>1. G \in SUBSET (0..N)
    OBVIOUS
  <2> HIDE DEF G
  <2>2. G = 0..N
    BY <1>0, <1>1, <1>2, <2>1, UptoInduction
  <2>. QED BY <1>0, <2>2
<1>. QED BY <1>3

\* partition_csv cuts the rows of a file, in order, into partitions that are full but
\* for the last.
PartOf(part, rows, n) ==
    /\ Len(part) \in 1..n /\ Range(part) \subseteq Range(rows)
    /\ Len(part) = n \/ Last(part) = Last(rows)

\* The partitions of a file are its rows, in order, and full but for the last.
LEMMA PartitionCsvHolds ==
    ASSUME NEW V, NEW rows \in Seq(V), NEW n \in Nat \ {0}
    PROVE  /\ PartitionCsv(rows, n) \in Seq(Seq(V))
           /\ FlattenSeq(PartitionCsv(rows, n)) = rows
           /\ \A i \in DOMAIN PartitionCsv(rows, n) : PartOf(PartitionCsv(rows, n)[i], rows, n)
<1> DEFINE N == Len(rows)
           end == Buffered(rows, n)[N]
           out == end.out
           buf == end.buf
           parts == PartitionCsv(rows, n)
<1>1. N \in 0..N /\ SubSeq(rows, 1, N) = rows
  OBVIOUS
<1>2. /\ end \in Buffers(V) /\ Len(buf) < n
      /\ \A i \in DOMAIN out : Len(out[i]) = n
      /\ FlattenSeq(out) \o buf = rows
  <2>1. Filling(Buffered(rows, n), N, rows, n)
    BY BufferedFills
  <2>2. BufferOf(V, end, SubSeq(rows, 1, N), n)
    BY <1>1, <2>1, BufferHolds
  <2>. QED BY <1>1, <2>2 DEF BufferOf
<1>3. parts = IF buf = <<>> THEN out ELSE Append(out, buf)
  BY DEF PartitionCsv
<1>4. out \in Seq(Seq(V)) /\ buf \in Seq(V) /\ FlattenSeq(out) \in Seq(V)
  BY <1>2, FlattenJoins DEF Buffers
<1> HIDE DEF end, parts
<1>5. parts \in Seq(Seq(V)) /\ FlattenSeq(parts) = rows
  <2> HIDE DEF out, buf
  <2>1. CASE buf = <<>>
    <3>1. FlattenSeq(out) \o buf = FlattenSeq(out)
      BY <1>4, <2>1, ConcatEmptySeq
    <3>. QED BY <1>2, <1>3, <1>4, <2>1, <3>1
  <2>2. CASE buf # <<>>
    <3>1. Append(out, buf) \in Seq(Seq(V)) /\ FlattenSeq(Append(out, buf)) = FlattenSeq(out) \o buf
      BY <1>4, FlattenAppend, AppendProperties
    <3>. QED BY <1>2, <1>3, <2>2, <3>1
  <2>. QED BY <2>1, <2>2
<1>6. ASSUME NEW i \in DOMAIN parts
      PROVE  PartOf(parts[i], rows, n)
  <2>1. Range(parts[i]) \subseteq Range(rows)
    BY <1>5, FlattenHolds
  <2>2. \/ i \in DOMAIN out /\ parts[i] = out[i]
        \/ buf # <<>> /\ parts[i] = buf
    <3>1. CASE buf = <<>>
      BY <1>3, <1>6, <3>1
    <3>2. CASE buf # <<>>
      <4>1. /\ parts = Append(out, buf) /\ Len(parts) = Len(out) + 1
            /\ \A p \in 1..Len(out) + 1 : parts[p] = IF p <= Len(out) THEN out[p] ELSE buf
        BY <1>3, <1>4, <3>2, AppendProperties
      <4>2. i \in 1..Len(out) + 1 /\ (i <= Len(out) => i \in DOMAIN out)
        BY <1>4, <1>5, <1>6, <4>1
      <4>. QED BY <3>2, <4>1, <4>2
    <3>. QED BY <3>1, <3>2
  <2>3. CASE i \in DOMAIN out /\ parts[i] = out[i]
    BY <1>2, <2>1, <2>3 DEF PartOf
  <2>4. CASE buf # <<>> /\ parts[i] = buf
    <3>1. Len(buf) \in 1..n
      BY <1>2, <1>4, <2>4, EmptySeq
    <3>2. Last(rows) = Last(buf)
      <4> DEFINE x == FlattenSeq(out)
                 y == buf
                 a == Len(x)
                 b == Len(y)
      <4>1. x \in Seq(V) /\ y \in Seq(V) /\ rows = x \o y /\ b > 0
        BY <1>2, <1>4, <3>1
      <4>2. a \in Nat /\ b \in Nat
        BY <4>1
      <4> HIDE DEF x, y
      <4>3. Len(rows) = a + b /\ \A p \in 1..(a + b) : rows[p] = IF p <= a THEN x[p] ELSE y[p - a]
        BY <4>1, ConcatProperties
      <4> HIDE DEF a, b
      <4>4. a + b \in 1..(a + b) /\ ~(a + b <= a) /\ (a + b) - a = b
        BY <4>1, <4>2
      <4>5. rows[a + b] = y[b]
        BY <4>3, <4>4
      <4>. QED BY <4>3, <4>5 DEF Last, b, y
    <3>. QED BY <2>1, <2>4, <3>1, <3>2 DEF PartOf
  <2>. QED BY <2>2, <2>3, <2>4
<1>. QED BY <1>5, <1>6 DEF parts

\* The partitions of several files are the partitions of each.
LEMMA PartitionFilesHolds ==
    ASSUME NEW V, NEW contents \in Seq(Seq(V)), NEW n \in Nat \ {0}
    PROVE  /\ PartitionFiles(contents, n) \in Seq(Seq(V))
           /\ FlattenSeq(PartitionFiles(contents, n)) = FlattenSeq(contents)
           /\ \A i \in DOMAIN PartitionFiles(contents, n) :
                \E f \in DOMAIN contents : PartOf(PartitionFiles(contents, n)[i], contents[f], n)
<1> DEFINE N == Len(contents)
           xs == [i \in DOMAIN contents |-> PartitionCsv(contents[i], n)]
           parts == PartitionFiles(contents, n)
<1>1. N \in Nat /\ DOMAIN contents = 1..N /\ \A i \in 1..N : contents[i] \in Seq(V)
  OBVIOUS
<1>2. DOMAIN xs = 1..N /\ \A i \in 1..N : xs[i] = PartitionCsv(contents[i], n) /\ xs[i] \in Seq(Seq(V))
  BY <1>1, PartitionCsvHolds
<1>3. xs \in Seq(Seq(Seq(V)))
  <2>1. xs \in [1..N -> Seq(Seq(V))]
    BY <1>1, <1>2
  <2>. QED BY <1>1, <2>1
<1>4. parts = FlattenSeq(xs)
  BY DEF PartitionFiles
<1> HIDE DEF xs, parts
<1>5. parts \in Seq(Seq(V))
  BY <1>3, <1>4, FlattenJoins
<1>6. FlattenSeq(parts) = FlattenSeq(contents)
  <2>1. FlattenSeq(FlattenSeq(xs)) = FlattenSeq([i \in DOMAIN xs |-> FlattenSeq(xs[i])])
    BY <1>3, FlattenNested
  <2>2. \A i \in 1..N : FlattenSeq(xs[i]) = contents[i]
    BY <1>1, <1>2, PartitionCsvHolds
  <2>3. [i \in DOMAIN xs |-> FlattenSeq(xs[i])] = contents
    BY <1>1, <1>2, <2>2
  <2>. QED BY <1>4, <2>1, <2>3
<1>7. ASSUME NEW i \in DOMAIN parts
      PROVE  \E f \in DOMAIN contents : PartOf(parts[i], contents[f], n)
  <2>1. parts[i] \in Range(parts)
    BY DEF Range
  <2>2. PICK f \in DOMAIN xs : parts[i] \in Range(xs[f])
    BY <1>3, <1>4, <2>1, FlattenHolds
  <2>3. PICK k \in DOMAIN xs[f] : parts[i] = xs[f][k]
    BY <2>2 DEF Range
  <2>4. f \in DOMAIN contents /\ contents[f] \in Seq(V) /\ xs[f] = PartitionCsv(contents[f], n)
    BY <1>1, <1>2
  <2>5. PartOf(xs[f][k], contents[f], n)
    BY <2>4, PartitionCsvHolds
  <2>. QED BY <2>3, <2>4, <2>5
<1>. QED BY <1>5, <1>6, <1>7 DEF parts

-----------------------------------------------------------------------------
(* Files and result files.                                                   *)

\* What is left of sequences that are apart is apart.
LEMMA Thinned ==
    ASSUME NEW V, NEW ss \in Seq(Seq(V)), NEW tt \in Seq(Seq(V)), Apart(ss),
           DOMAIN tt = DOMAIN ss,
           \A i \in DOMAIN tt : IsInjective(tt[i]) /\ Range(tt[i]) \subseteq Range(ss[i])
    PROVE  Apart(tt)
<1> SUFFICES ASSUME NEW i \in DOMAIN tt, NEW k \in DOMAIN tt,
                    NEW p \in DOMAIN tt[i], NEW q \in DOMAIN tt[k], tt[i][p] = tt[k][q]
             PROVE  i = k /\ p = q
  BY DEF Apart
<1>1. PICK a \in DOMAIN ss[i] : ss[i][a] = tt[i][p]
  BY DEF Range
<1>2. PICK b \in DOMAIN ss[k] : ss[k][b] = tt[k][q]
  BY DEF Range
<1>3. i = k
  BY <1>1, <1>2 DEF Apart
<1>. QED BY <1>3 DEF IsInjective

\* A pattern finds a path once.
LEMMA FilesFound ==
    DiscoverFiles(dir) \in Seq(DOMAIN Paths) /\ IsInjective(DiscoverFiles(dir))
<1> DEFINE all == [i \in DOMAIN Paths |-> i]
           found == {i \in DOMAIN Paths :
                       /\ dir[i] # Absent
                       /\ Provider = "s3" => IsCsv(Paths[i])
                       /\ GlobMatch(Paths[i], Pattern)}
<1>1. all \in Seq(DOMAIN Paths) /\ IsInjective(all)
  BY PathsAreSegments DEF IsInjective
<1>2. DiscoverFiles(dir) = Picked(all, found)
  BY DEF DiscoverFiles
<1> HIDE DEF all, found
<1>. QED BY <1>1, <1>2, PickedHolds

\* The files at some paths, when none is absent, have every row once.
LEMMA FilesAreApart ==
    ASSUME NEW d \in Dirs, NEW paths \in Seq(DOMAIN Paths)
    PROVE  /\ [i \in DOMAIN paths |-> d[paths[i]]] \in Seq(Seq(Nat))
           /\ (IsInjective(paths) /\ Absent \notin Range([i \in DOMAIN paths |-> d[paths[i]]]))
                => Apart([i \in DOMAIN paths |-> d[paths[i]]])
<1> DEFINE src == [i \in DOMAIN paths |-> d[paths[i]]]
           N == Len(paths)
<1>1. N \in Nat /\ DOMAIN paths = 1..N /\ \A i \in 1..N : paths[i] \in DOMAIN Paths
  OBVIOUS
<1>2. DOMAIN src = 1..N /\ \A i \in 1..N : src[i] = d[paths[i]] /\ src[i] \in Seq(Nat)
  BY <1>1, RowsAreDistinct
<1> HIDE DEF N
<1>3. src \in Seq(Seq(Nat))
  <2>1. src \in [1..N -> Seq(Nat)]
    BY <1>1, <1>2
  <2> HIDE DEF src
  <2>. QED BY <1>1, <2>1
<1>4. ASSUME IsInjective(paths), Absent \notin Range(src)
      PROVE  Apart(src)
  <2> SUFFICES ASSUME NEW i \in 1..N, NEW k \in 1..N,
                      NEW p \in DOMAIN src[i], NEW q \in DOMAIN src[k], src[i][p] = src[k][q]
               PROVE  i = k /\ p = q
    BY <1>2 DEF Apart
  <2>1. src[i] # Absent /\ src[k] # Absent
    BY <1>2, <1>4 DEF Range
  <2> HIDE DEF src
  <2>2. /\ paths[i] \in DOMAIN Paths /\ d[paths[i]] # Absent /\ d[paths[i]] = src[i]
        /\ paths[k] \in DOMAIN Paths /\ d[paths[k]] # Absent /\ d[paths[k]] = src[k]
    BY <1>1, <1>2, <2>1
  <2>3. paths[i] = paths[k] /\ p = q
    <3>1. /\ paths[i] \in {f \in DOMAIN Paths : d[f] # Absent}
          /\ paths[k] \in {f \in DOMAIN Paths : d[f] # Absent}
      BY <2>2
    <3>2. /\ p \in DOMAIN d[paths[i]] /\ q \in DOMAIN d[paths[k]]
          /\ d[paths[i]][p] = d[paths[k]][q]
      BY <2>2
    <3>3. \A g, h \in {f \in DOMAIN Paths : d[f] # Absent} :
             \A a \in DOMAIN d[g], b \in DOMAIN d[h] : d[g][a] = d[h][b] => g = h /\ a = b
      BY RowsAreDistinct
    <3> DEFINE Held == {f \in DOMAIN Paths : d[f] # Absent}
               u == paths[i]
               v == paths[k]
    <3> HIDE DEF Held, u, v
    <3>4. /\ u \in Held /\ v \in Held /\ p \in DOMAIN d[u] /\ q \in DOMAIN d[v] /\ d[u][p] = d[v][q]
      BY <3>1, <3>2 DEF Held, u, v
    <3>5. \A g, h \in Held : \A a \in DOMAIN d[g], b \in DOMAIN d[h] : d[g][a] = d[h][b] => g = h /\ a = b
      BY <3>3 DEF Held
    <3>6. u = v /\ p = q
      BY <3>4, <3>5
    <3>. QED BY <3>6 DEF u, v
  <2>4. i = k
    BY <1>1, <1>4, <2>3 DEF IsInjective
  <2>. QED BY <2>3, <2>4
<1>. QED BY <1>3, <1>4 DEF src

\* What the step would read now are rows.
LEMMA SourceIsRows ==
    ASSUME dir \in Dirs
    PROVE  SourceNow \in Seq(Seq(Nat))
  BY FilesFound, FilesAreApart DEF SourceNow

\* An export is one file.
LEMMA OneFile ==
    ASSUME NEW s \in Seq(Nat), IsInjective(s)
    PROVE  /\ <<s>> \in Seq(Seq(Nat)) /\ Apart(<<s>>)
           /\ \A v : v \in Range(FlattenSeq(<<s>>)) <=> v \in Range(s)
<1> DEFINE ss == <<s>>
<1>1. ss \in Seq(Seq(Nat)) /\ DOMAIN ss = {1} /\ ss[1] = s
  OBVIOUS
<1> HIDE DEF ss
<1>2. Apart(ss)
  BY <1>1 DEF Apart, IsInjective
<1>3. \A v : v \in Range(FlattenSeq(ss)) <=> v \in Range(s)
  BY <1>1, FlattenHolds
<1>. QED BY <1>1, <1>2, <1>3 DEF ss

-----------------------------------------------------------------------------
(* The partitions of a retry.                                                *)

\* The positions of a job that its result files say were not loaded.
Reported(j) ==
    {p \in Positions(j) : \/ "errors" \in j.files \ j.gone /\ p \in j.bad
                          \/ "unprocessed" \in j.files \ j.gone /\ p \in Left(j)}

\* Reading both result files of a job finds each of those rows once.
LEMMA ResultRowsHold ==
    ASSUME NEW j \in JobRecord
    PROVE  /\ ResultRows(j) \in Seq(Nat)
           /\ \A v : v \in Range(ResultRows(j)) <=> \E p \in Reported(j) : j.rows[p] = v
           /\ IsInjective(j.rows) => IsInjective(ResultRows(j))
<1> DEFINE rows == j.rows
           x == IF "errors" \in j.files \ j.gone THEN Picked(j.rows, j.bad) ELSE <<>>
           y == IF "unprocessed" \in j.files \ j.gone THEN Picked(j.rows, Left(j)) ELSE <<>>
           Bad == {p \in DOMAIN rows : "errors" \in j.files \ j.gone /\ p \in j.bad}
           Unsent == {p \in DOMAIN rows : "unprocessed" \in j.files \ j.gone /\ p \in Left(j)}
<1>1. rows \in Seq(Nat) /\ ResultRows(j) = x \o y
  BY DEF JobRecord, ResultRows
<1>2. /\ x \in Seq(Nat) /\ \A v : v \in Range(x) <=> \E p \in Bad : v = rows[p]
      /\ IsInjective(rows) => IsInjective(x)
  <2>1. CASE "errors" \in j.files \ j.gone
    <3>1. x = Picked(rows, j.bad) /\ \A p : p \in Bad <=> p \in DOMAIN rows \cap j.bad
      BY <2>1
    <3> HIDE DEF x, Bad, rows
    <3>. QED BY <1>1, <3>1, PickedHolds
  <2>2. CASE "errors" \notin j.files \ j.gone
    <3>1. x = <<>> /\ Bad = {}
      BY <2>2
    <3> HIDE DEF x, Bad
    <3>. QED BY <3>1, EmptySeq DEF Range, IsInjective
  <2>. QED BY <2>1, <2>2
<1>3. /\ y \in Seq(Nat) /\ \A v : v \in Range(y) <=> \E p \in Unsent : v = rows[p]
      /\ IsInjective(rows) => IsInjective(y)
  <2>1. CASE "unprocessed" \in j.files \ j.gone
    <3>1. y = Picked(rows, Left(j)) /\ \A p : p \in Unsent <=> p \in DOMAIN rows \cap Left(j)
      BY <2>1
    <3> HIDE DEF y, Unsent, rows
    <3>. QED BY <1>1, <3>1, PickedHolds
  <2>2. CASE "unprocessed" \notin j.files \ j.gone
    <3>1. y = <<>> /\ Unsent = {}
      BY <2>2
    <3> HIDE DEF y, Unsent
    <3>. QED BY <3>1, EmptySeq DEF Range, IsInjective
  <2>. QED BY <2>1, <2>2
<1>4. Bad \cap Unsent = {} /\ Bad \subseteq DOMAIN rows /\ Unsent \subseteq DOMAIN rows
      /\ Reported(j) = Bad \cup Unsent
  BY DEF Left, Reported, Positions
<1> HIDE DEF x, y, Bad, Unsent, rows
<1>5. x \o y \in Seq(Nat) /\ \A v : v \in Range(x \o y) <=> v \in Range(x) \/ v \in Range(y)
  <2>1. x \o y \in Seq(Nat)
    BY <1>2, <1>3, ConcatProperties
  <2>2. Range(x \o y) = Range(x) \cup Range(y)
    BY <1>2, <1>3, RangeConcatenation
  <2>. QED BY <2>1, <2>2
<1>6. ASSUME IsInjective(rows)
      PROVE  IsInjective(x \o y)
  <2>1. Range(x) \cap Range(y) = {}
    BY <1>2, <1>3, <1>4, <1>6 DEF IsInjective
  <2>. QED BY <1>2, <1>3, <1>6, <2>1, ConcatOnce
<1>. QED BY <1>1, <1>2, <1>3, <1>4, <1>5, <1>6 DEF rows

\* What flattens to nothing, and to one sequence.
LEMMA FlattenFew ==
    /\ FlattenSeq(<<>>) = <<>>
    /\ \A V : \A s \in Seq(V) : FlattenSeq(<<s>>) = s
<1>1. FlattenSeq(<<>>) = <<>>
  BY DEF FlattenSeq
<1>2. ASSUME NEW V, NEW s \in Seq(V)
      PROVE  FlattenSeq(<<s>>) = s
  <2> DEFINE none == <<>>
             one == <<s>>
  <2>1. none \in Seq(Seq(V)) /\ one = Append(none, s) /\ none = <<>>
    OBVIOUS
  <2> HIDE DEF none, one
  <2>2. FlattenSeq(one) = FlattenSeq(none) \o s
    BY <2>1, FlattenAppend
  <2>3. FlattenSeq(none) = none
    BY <1>1, <2>1
  <2>4. none \o s = s
    BY <2>1, ConcatEmptySeq
  <2>. QED BY <2>2, <2>3, <2>4 DEF one
<1>. QED BY <1>1, <1>2

\* The rows of some of the sequences of ss.
LEMMA PickedRows ==
    ASSUME NEW V, NEW ss \in Seq(Seq(V)), NEW at
    PROVE  /\ Picked(ss, at) \in Seq(Seq(V))
           /\ \A v : v \in Range(FlattenSeq(Picked(ss, at)))
                        <=> \E i \in DOMAIN ss \cap at : v \in Range(ss[i])
           /\ Apart(ss) => IsInjective(FlattenSeq(Picked(ss, at)))
<1> DEFINE N == Len(ss)
           xs == [i \in DOMAIN ss |-> IF i \in at THEN <<ss[i]>> ELSE <<>>]
           tt == [i \in DOMAIN xs |-> FlattenSeq(xs[i])]
<1>1. N \in Nat /\ DOMAIN ss = 1..N /\ \A i \in 1..N : ss[i] \in Seq(V)
  OBVIOUS
<1>2. DOMAIN xs = 1..N /\ \A i \in 1..N : xs[i] = IF i \in at THEN <<ss[i]>> ELSE <<>>
  BY <1>1
<1>3. \A i \in 1..N : xs[i] \in Seq(Seq(V))
  <2>1. \A s \in Seq(V) : <<s>> \in Seq(Seq(V))
    OBVIOUS
  <2>. QED BY <1>1, <1>2, <2>1, EmptySeq
<1>4. xs \in Seq(Seq(Seq(V))) /\ Picked(ss, at) = FlattenSeq(xs)
  <2>1. xs \in [1..N -> Seq(Seq(V))]
    BY <1>2, <1>3
  <2>2. Picked(ss, at) = FlattenSeq(xs)
    BY DEF Picked
  <2> HIDE DEF xs, N
  <2>. QED BY <1>1, <2>1, <2>2
<1> HIDE DEF xs, N
<1>5. Picked(ss, at) \in Seq(Seq(V)) /\ tt \in Seq(Seq(V)) /\ FlattenSeq(Picked(ss, at)) = FlattenSeq(tt)
  BY <1>4, FlattenJoins, FlattenNested
<1>6. DOMAIN tt = 1..N /\ \A i \in 1..N : tt[i] = IF i \in at THEN ss[i] ELSE <<>>
  BY <1>1, <1>2, FlattenFew
<1> HIDE DEF tt
<1>7. \A v : v \in Range(FlattenSeq(tt)) <=> \E i \in DOMAIN ss \cap at : v \in Range(ss[i])
  <2>1. \A i \in 1..N : \A v : v \in Range(tt[i]) <=> i \in at /\ v \in Range(ss[i])
    BY <1>6, EmptySeq DEF Range
  <2>. QED BY <1>1, <1>5, <1>6, <2>1, FlattenHolds
<1>8. ASSUME Apart(ss)
      PROVE  IsInjective(FlattenSeq(tt))
  <2>1. ASSUME NEW i \in 1..N
        PROVE  IsInjective(tt[i]) /\ Range(tt[i]) \subseteq Range(ss[i])
    <3>1. CASE i \in at
      <4>1. tt[i] = ss[i]
        BY <1>6, <3>1
      <4>2. IsInjective(ss[i])
        BY <1>1, <1>8 DEF Apart, IsInjective
      <4>. QED BY <4>1, <4>2
    <3>2. CASE i \notin at
      <4>1. tt[i] = <<>>
        BY <1>6, <3>2
      <4>. QED BY <4>1, EmptySeq DEF IsInjective, Range
    <3>. QED BY <3>1, <3>2
  <2>2. Apart(tt)
    BY <1>1, <1>5, <1>6, <1>8, <2>1, Thinned
  <2>. QED BY <1>5, <2>2, FlattenHolds
<1>. QED BY <1>5, <1>7, <1>8

\* The rows that Track A pools.
Pool(jobs) == FlattenSeq([i \in DOMAIN jobs |-> ResultRows(jobs[i])])

\* The rows of jobs are a sequence of sequences.
LEMMA JobsAreRows ==
    ASSUME NEW jobs \in Seq(JobRecord)
    PROVE  /\ RowsOf(jobs) \in Seq(Seq(Nat)) /\ DOMAIN RowsOf(jobs) = DOMAIN jobs
           /\ \A i \in DOMAIN jobs : RowsOf(jobs)[i] = jobs[i].rows
           /\ \A i \in DOMAIN jobs : jobs[i] \in JobRecord /\ jobs[i].rows \in Seq(Nat)
<1> DEFINE N == Len(jobs)
           ss == RowsOf(jobs)
<1>1. N \in Nat /\ DOMAIN jobs = 1..N /\ \A i \in 1..N : jobs[i] \in JobRecord
  OBVIOUS
<1>2. \A i \in 1..N : jobs[i].rows \in Seq(Nat)
  BY <1>1 DEF JobRecord
<1>3. DOMAIN ss = 1..N /\ \A i \in 1..N : ss[i] = jobs[i].rows
  BY <1>1 DEF RowsOf
<1>4. ss \in [1..N -> Seq(Nat)]
  BY <1>1, <1>2 DEF RowsOf
<1> HIDE DEF ss, N
<1>5. ss \in Seq(Seq(Nat))
  BY <1>1, <1>4
<1>. QED BY <1>1, <1>2, <1>3, <1>5 DEF ss

\* Track A pools the reported rows of all the jobs, each once.
LEMMA PoolHolds ==
    ASSUME NEW jobs \in Seq(JobRecord)
    PROVE  /\ Pool(jobs) \in Seq(Nat)
           /\ \A v : v \in Range(Pool(jobs))
                <=> \E i \in DOMAIN jobs : \E p \in Reported(jobs[i]) : jobs[i].rows[p] = v
           /\ Apart(RowsOf(jobs)) => IsInjective(Pool(jobs))
<1> DEFINE N == Len(jobs)
           ss == RowsOf(jobs)
           tt == [i \in DOMAIN jobs |-> ResultRows(jobs[i])]
<1>1. /\ N \in Nat /\ DOMAIN jobs = 1..N
      /\ ss \in Seq(Seq(Nat)) /\ DOMAIN ss = 1..N
      /\ \A i \in 1..N : jobs[i] \in JobRecord /\ ss[i] = jobs[i].rows
  BY JobsAreRows
<1>2. /\ DOMAIN tt = 1..N
      /\ \A i \in 1..N : tt[i] = ResultRows(jobs[i])
  BY <1>1
<1>3. /\ \A i \in 1..N : tt[i] \in Seq(Nat)
      /\ \A i \in 1..N : \A v : v \in Range(tt[i]) <=> \E p \in Reported(jobs[i]) : jobs[i].rows[p] = v
      /\ \A i \in 1..N : IsInjective(ss[i]) => IsInjective(tt[i])
  BY <1>1, <1>2, ResultRowsHold
<1>4. tt \in Seq(Seq(Nat))
  <2>1. tt \in [1..N -> Seq(Nat)]
    BY <1>2, <1>3
  <2> HIDE DEF tt, N
  <2>. QED BY <1>1, <2>1
<1>5. Pool(jobs) = FlattenSeq(tt)
  BY DEF Pool
<1> HIDE DEF tt, ss, N
<1>6. Pool(jobs) \in Seq(Nat)
  BY <1>4, <1>5, FlattenJoins
<1>7. \A v : v \in Range(FlattenSeq(tt))
                <=> \E i \in 1..N : \E p \in Reported(jobs[i]) : jobs[i].rows[p] = v
  <2>1. \A v : v \in Range(FlattenSeq(tt)) <=> \E i \in DOMAIN tt : v \in Range(tt[i])
    BY <1>4, FlattenHolds
  <2> TAKE v
  <2>2. \A i \in 1..N : v \in Range(tt[i]) <=> \E p \in Reported(jobs[i]) : jobs[i].rows[p] = v
    BY <1>3
  <2>. QED BY <1>2, <2>1, <2>2, Zenon
<1>8. ASSUME Apart(ss)
      PROVE  IsInjective(FlattenSeq(tt))
  <2>1. ASSUME NEW i \in 1..N
        PROVE  IsInjective(tt[i]) /\ Range(tt[i]) \subseteq Range(ss[i])
    <3>1. IsInjective(ss[i])
      BY <1>1, <1>8 DEF Apart, IsInjective
    <3>2. Reported(jobs[i]) \subseteq DOMAIN ss[i]
      BY <1>1 DEF Reported, Positions
    <3>3. Range(tt[i]) \subseteq Range(ss[i])
      BY <1>1, <1>3, <3>2 DEF Range
    <3>. QED BY <1>3, <3>1, <3>3
  <2>2. Apart(tt)
    BY <1>1, <1>2, <1>4, <1>8, <2>1, Thinned
  <2>. QED BY <1>4, <2>2, FlattenHolds
<1>. QED BY <1>1, <1>5, <1>6, <1>7, <1>8 DEF ss

\* Track A cuts what it pools; nothing it cuts is empty or too large.
LEMMA TrackAHolds ==
    ASSUME NEW r, runs[r].jobs \in Seq(JobRecord), size \in Nat \ {0}
    PROVE  /\ TrackA(r) \in Seq(Seq(Nat))
           /\ FlattenSeq(TrackA(r)) = Pool(runs[r].jobs)
           /\ \A i \in DOMAIN TrackA(r) : Len(TrackA(r)[i]) \in 1..size
<1> DEFINE pool == Pool(runs[r].jobs)
<1>1. pool \in Seq(Nat) /\ TrackA(r) = PartitionCsv(pool, size)
  BY PoolHolds DEF TrackA, Pool
<1> HIDE DEF pool
<1>2. /\ TrackA(r) \in Seq(Seq(Nat)) /\ FlattenSeq(TrackA(r)) = pool
      /\ \A i \in DOMAIN TrackA(r) : PartOf(TrackA(r)[i], pool, size)
  BY <1>1, PartitionCsvHolds
<1>3. \A i \in DOMAIN TrackA(r) : Len(TrackA(r)[i]) \in 1..size
  BY <1>2 DEF PartOf
<1>. QED BY <1>2, <1>3 DEF pool

\* Track B takes whole partitions of what the source holds now.
LEMMA TrackBHolds ==
    ASSUME NEW r, NEW seen, dir \in Dirs, size \in Nat \ {0}
    PROVE  /\ TrackB(r, seen) \in Seq(Seq(Nat))
           /\ \A i \in DOMAIN TrackB(r, seen) : Len(TrackB(r, seen)[i]) \in 1..size
<1> DEFINE now == PartitionFiles(SourceNow, size)
           at == TrackBIndexes(r, seen)
<1>1. SourceNow \in Seq(Seq(Nat))
  BY SourceIsRows
<1>2. now \in Seq(Seq(Nat)) /\ \A i \in DOMAIN now : \E f \in DOMAIN SourceNow : PartOf(now[i], SourceNow[f], size)
  BY <1>1, PartitionFilesHolds
<1>3. TrackB(r, seen) = Picked(now, at)
  BY DEF TrackB
<1> HIDE DEF now, at
<1>4. /\ TrackB(r, seen) \in Seq(Seq(Nat))
      /\ \A v : v \in Range(TrackB(r, seen)) <=> \E i \in DOMAIN now \cap at : v = now[i]
  BY <1>2, <1>3, PickedHolds
<1>5. ASSUME NEW i \in DOMAIN TrackB(r, seen)
      PROVE  Len(TrackB(r, seen)[i]) \in 1..size
  <2>1. TrackB(r, seen)[i] \in Range(TrackB(r, seen))
    BY DEF Range
  <2>2. PICK k \in DOMAIN now : TrackB(r, seen)[i] = now[k]
    BY <1>4, <2>1
  <2>3. Len(now[k]) \in 1..size
    BY <1>2 DEF PartOf
  <2>. QED BY <2>2, <2>3
<1>. QED BY <1>4, <1>5

\* What a retry carries: the rows that were reported, and the whole of the jobs without
\* result files, when their partitions are still what they were.  None of it is there twice.
LEMMA RetryCarries ==
    ASSUME NEW r, NEW seen, runs[r].jobs \in Seq(JobRecord), dir \in Dirs, size \in Nat \ {0},
           seen \subseteq DOMAIN runs[r].jobs, \A i \in seen : runs[r].jobs[i].files = {},
           TrackBIndexes(r, seen) # {} => RowsOf(runs[r].jobs) = PartitionFiles(SourceNow, size)
    PROVE  LET jobs == runs[r].jobs
               parts == TrackA(r) \o TrackB(r, seen)
           IN  /\ \A v : v \in Range(FlattenSeq(parts))
                    <=> \/ \E i \in DOMAIN jobs : \E p \in Reported(jobs[i]) : jobs[i].rows[p] = v
                        \/ \E i \in TrackBIndexes(r, seen) : v \in Range(jobs[i].rows)
               /\ Apart(RowsOf(jobs)) => IsInjective(FlattenSeq(parts))
<1> DEFINE jobs == runs[r].jobs
           parts == TrackA(r) \o TrackB(r, seen)
           x == FlattenSeq(TrackA(r))
           y == FlattenSeq(TrackB(r, seen))
           at == TrackBIndexes(r, seen)
           now == PartitionFiles(SourceNow, size)
           ss == RowsOf(jobs)
<1>1. /\ ss \in Seq(Seq(Nat)) /\ DOMAIN ss = DOMAIN jobs
      /\ \A i \in DOMAIN jobs : ss[i] = jobs[i].rows
  BY JobsAreRows
<1>2. at \subseteq DOMAIN jobs /\ \A i \in at : Reported(jobs[i]) = {}
  BY DEF TrackBIndexes, Reported
<1>3. TrackA(r) \in Seq(Seq(Nat)) /\ TrackB(r, seen) \in Seq(Seq(Nat)) /\ x = Pool(jobs)
  BY TrackAHolds, TrackBHolds
<1>4. x \in Seq(Nat) /\ y \in Seq(Nat)
  BY <1>3, FlattenJoins
<1>5. FlattenSeq(parts) = x \o y
  BY <1>3, FlattenConcat
<1>6. /\ \A v : v \in Range(x) <=> \E i \in DOMAIN jobs : \E p \in Reported(jobs[i]) : jobs[i].rows[p] = v
      /\ Apart(ss) => IsInjective(x)
  BY <1>3, PoolHolds
<1>7. now \in Seq(Seq(Nat)) /\ TrackB(r, seen) = Picked(now, at)
  BY SourceIsRows, PartitionFilesHolds DEF TrackB
<1> HIDE DEF now
<1>8. /\ \A v : v \in Range(y) <=> \E i \in DOMAIN now \cap at : v \in Range(now[i])
      /\ Apart(now) => IsInjective(y)
  BY <1>7, PickedRows
<1>9. /\ \A v : v \in Range(y) <=> \E i \in at : v \in Range(jobs[i].rows)
      /\ Apart(ss) => IsInjective(y)
  <2>1. CASE at = {}
    <3>1. \A v : v \notin Range(y)
      BY <1>8, <2>1
    <3>2. IsInjective(y)
      BY <3>1 DEF IsInjective, Range
    <3>. QED BY <2>1, <3>1, <3>2
  <2>2. CASE at # {}
    <3>1. now = ss
      BY <2>2 DEF now
    <3>2. DOMAIN now \cap at = at /\ \A i \in at : now[i] = jobs[i].rows
      BY <1>1, <1>2, <3>1
    <3> HIDE DEF y, at, ss
    <3>. QED BY <1>8, <3>1, <3>2
  <2>. QED BY <2>1, <2>2
<1>10. Range(x \o y) = Range(x) \cup Range(y)
  <2> HIDE DEF x, y
  <2>. QED BY <1>4, RangeConcatenation
<1>11. ASSUME Apart(ss)
       PROVE  IsInjective(x \o y)
  <2>1. Range(x) \cap Range(y) = {}
    <3>1. SUFFICES ASSUME NEW v, v \in Range(x), v \in Range(y) PROVE FALSE
      OBVIOUS
    <3>2. PICK i \in DOMAIN jobs : \E p \in Reported(jobs[i]) : jobs[i].rows[p] = v
      BY <1>6, <3>1
    <3>3. PICK p \in Reported(jobs[i]) : jobs[i].rows[p] = v
      BY <3>2
    <3>4. PICK k \in at : v \in Range(jobs[k].rows)
      BY <1>9, <3>1
    <3>5. PICK q \in DOMAIN jobs[k].rows : jobs[k].rows[q] = v
      BY <3>4 DEF Range
    <3>6. p \in DOMAIN ss[i] /\ q \in DOMAIN ss[k] /\ ss[i][p] = ss[k][q] /\ k \in DOMAIN ss
      BY <1>1, <1>2, <3>3, <3>5 DEF Reported, Positions
    <3>7. i = k
      BY <1>1, <1>11, <3>6 DEF Apart
    <3>. QED BY <1>2, <3>3, <3>7
  <2>2. IsInjective(x) /\ IsInjective(y)
    BY <1>6, <1>9, <1>11
  <2> HIDE DEF x, y
  <2>. QED BY <1>4, <2>1, <2>2, ConcatOnce
<1> HIDE DEF x, y, ss, at, parts
<1>12. \A v : v \in Range(FlattenSeq(parts)) <=> v \in Range(x) \/ v \in Range(y)
  BY <1>5, <1>10
<1>. QED BY <1>5, <1>6, <1>9, <1>11, <1>12 DEF parts, ss, at

-----------------------------------------------------------------------------
(* The runs.                                                                 *)

\* The types of the runs and of their jobs.
LEMMA RunsAreRecords ==
    ASSUME RecordsOK
    PROVE  /\ Len(runs) \in Nat /\ DOMAIN runs = 1..Len(runs)
           /\ \A r \in DOMAIN runs : runs[r] \in RunRecord /\ runs[r].jobs \in Seq(JobRecord)
           /\ \A r \in DOMAIN runs : \A i \in DOMAIN runs[r].jobs : runs[r].jobs[i] \in JobRecord
<1>1. runs \in Seq(RunRecord)
  BY DEF RecordsOK
<1>2. \A r \in DOMAIN runs : runs[r] \in RunRecord
  BY <1>1
<1>3. \A r \in DOMAIN runs : runs[r].jobs \in Seq(JobRecord)
  BY <1>2 DEF RunRecord
<1>. QED BY <1>1, <1>2, <1>3

\* The upsets that Budget counts.
LEMMA UpsetsAreCounted ==
    \A S, x : LET C(U) == Cardinality(U \cap {"unknown", "lost", "stuck"})
              IN  C(S) \in Nat /\ C(S \cup {x}) \in Nat /\ C(S \cup {x}) <= C(S) + 1
<1> SUFFICES ASSUME NEW S, NEW x
             PROVE  LET C(U) == Cardinality(U \cap {"unknown", "lost", "stuck"})
                    IN  C(S) \in Nat /\ C(S \cup {x}) \in Nat /\ C(S \cup {x}) <= C(S) + 1
  OBVIOUS
<1> DEFINE K == {"unknown", "lost", "stuck"}
           T == S \cap K
           T2 == (S \cup {x}) \cap K
<1>1. IsFiniteSet(K)
  <2>1. IsFiniteSet({"unknown"}) /\ K = ({"unknown"} \cup {"lost"}) \cup {"stuck"}
    BY FS_Singleton
  <2>2. IsFiniteSet({"unknown"} \cup {"lost"})
    BY <2>1, FS_AddElement
  <2>. QED BY <2>1, <2>2, FS_AddElement
<1>2. IsFiniteSet(T) /\ IsFiniteSet(T2)
  BY <1>1, FS_Subset
<1>3. Cardinality(T) \in Nat /\ Cardinality(T2) \in Nat
  BY <1>2, FS_CardinalityType
<1>4. Cardinality(T2) <= Cardinality(T) + 1
  <2>1. IsFiniteSet(T \cup {x}) /\ Cardinality(T \cup {x}) \in {Cardinality(T), Cardinality(T) + 1}
    BY <1>2, FS_AddElement
  <2>2. T2 \in SUBSET (T \cup {x})
    OBVIOUS
  <2>3. Cardinality(T2) <= Cardinality(T \cup {x})
    BY <2>1, <2>2, FS_Subset
  <2>. QED BY <1>3, <2>1, <2>3
<1>. QED BY <1>3, <1>4

\* A step begins with one run that has done nothing.
LEMMA InputInitIInv == InputInit => InputIInv
<1> SUFFICES ASSUME InputInit PROVE InputIInv
  OBVIOUS
<1> DEFINE run == NewRun(0, "pending", 0, <<>>)
<1>1. /\ runs = <<run>> /\ Len(runs) = 1 /\ DOMAIN runs = {1} /\ runs[1] = run
      /\ run.of = 0 /\ run.st = "pending" /\ run.paths = <<>> /\ run.src = <<>> /\ run.cap = 0
      /\ run.jobs = <<>> /\ DOMAIN run.jobs = {}
  BY DEF InputInit, NewRun
<1>2. run \in RunRecord
  <2>1. \A S : <<>> \in Seq(S)
    OBVIOUS
  <2>. QED BY <2>1 DEF RunRecord, RunStates, NewRun
<1> HIDE DEF run
<1>3. changes = 0 /\ upsets = {} /\ 1 <= MaxEvents
  BY SizesAreNumbers DEF InputInit
<1>4. Cardinality(upsets \cap {"unknown", "lost", "stuck"}) = 0
  <2>1. upsets \cap {"unknown", "lost", "stuck"} = {}
    BY <1>3
  <2>. QED BY <2>1, FS_EmptySet
<1>5. RecordsOK
  <2>1. runs \in Seq(RunRecord)
    BY <1>1, <1>2
  <2>. QED BY <1>1, <1>3, <1>4, <2>1, SizesAreNumbers DEF RecordsOK, Budget
<1>6. InputTypeOK
  <2>1. AnyOf(Dirs) \in Dirs /\ AnyOf(Exports) \in Exports
    BY RowsAreDistinct DEF AnyOf
  <2>2. /\ mode \in {"local", "s3"} /\ source \in {"default", "connection", "missing"}
        /\ chained \in BOOLEAN /\ size \in Sizes
    BY DEF InputInit
  <2>3. dir \in Dirs /\ export \in [0..1 -> Exports] /\ output \in Outputs
    <3>1. CASE chained
      BY <2>1, <3>1 DEF InputInit
    <3>2. CASE ~chained
      <4>1. dir \in Dirs /\ export = [r \in 0..1 |-> AnyOf(Exports)] /\ output = "none"
        BY <3>2 DEF InputInit
      <4>. QED BY <2>1, <4>1, OutputIsOptional
    <3>. QED BY <3>1, <3>2
  <2>4. Len(runs) \in 1..MaxEvents
    BY <1>1, <1>3, SizesAreNumbers
  <2>. QED BY <1>1, <1>3, <2>2, <2>3, <2>4 DEF InputTypeOK, RunStates
<1>7. RunsFollowOrder /\ JobsFollowOrder /\ RetryHasWork /\ ResultsAreKept /\ RetriesAreSingle /\ RetriedHaveEnded
  <2>1. Live(1) = {}
    BY <1>1 DEF Live
  <2>. QED BY <1>1, <2>1, EmptySeq DEF RunsFollowOrder, JobsFollowOrder, RetryHasWork, ResultsAreKept,
                                       RetriesAreSingle, RetriedHaveEnded, IsInjective
<1>8. ChainedReadsOwnExport /\ FirstRunIsSource /\ RowsDescend /\ RowsGoOn
  <2>1. Rows(run.jobs) = <<>>
    <3>1. RowsOf(run.jobs) = <<>>
      BY <1>1 DEF RowsOf
    <3>. QED BY <3>1, FlattenFew DEF Rows
  <2>2. Range(Rows(run.jobs)) = {} /\ IsInjective(Rows(run.jobs))
    BY <2>1, EmptySeq DEF Range, IsInjective
  <2>. QED BY <1>1, <2>2 DEF ChainedReadsOwnExport, FirstRunIsSource, RowsDescend, RowsGoOn
<1>. QED BY <1>5, <1>6, <1>7, <1>8 DEF InputIInv

\* What is said of the runs stays true when none of them changes.
LEMMA SameRuns ==
    ASSUME InputIInv, UNCHANGED <<runs, upsets, chained, export>>
    PROVE  /\ (RunsFollowOrder /\ JobsFollowOrder /\ RetryHasWork /\ ChainedReadsOwnExport)'
           /\ (FirstRunIsSource /\ ResultsAreKept /\ RetriesAreSingle /\ RetriedHaveEnded)'
           /\ (RowsDescend /\ RowsGoOn)'
<1> USE DEF InputIInv
<1>1. RunsFollowOrder' /\ JobsFollowOrder' /\ RetryHasWork' /\ ChainedReadsOwnExport'
  BY DEF RunsFollowOrder, JobsFollowOrder, RetryHasWork, ChainedReadsOwnExport, Terminal, Live
<1>2. FirstRunIsSource' /\ ResultsAreKept' /\ RetriesAreSingle' /\ RetriedHaveEnded'
  BY DEF FirstRunIsSource, ResultsAreKept, RetriesAreSingle, RetriedHaveEnded, Retried, Live
<1>3. RowsDescend'
  <2>1. \A r, row : NotLoaded(r, row)' <=> NotLoaded(r, row)
    BY DEF NotLoaded
  <2>2. RowsDescend
    OBVIOUS
  <2>. QED BY <2>1, <2>2, Zenon DEF RowsDescend
<1>4. RowsGoOn'
  BY DEF RowsGoOn, Loads, Carried, Retried
<1>. QED BY <1>1, <1>2, <1>3, <1>4

\* The files, the size and the connection change around the runs.
LEMMA ChangesKeep ==
    ASSUME InputIInv, EditFiles \/ Resize \/ DeleteConnection
    PROVE  InputIInv'
<1>1. /\ UNCHANGED <<runs, upsets, chained, export, mode, output>>
      /\ Budget < MaxEvents /\ changes' = changes + 1
      /\ dir' \in Dirs /\ size' \in Sizes /\ source' \in {"default", "connection", "missing"}
  BY DEF EditFiles, Resize, DeleteConnection, Change, InputIInv, InputTypeOK
<1>2. InputTypeOK'
  BY <1>1 DEF InputIInv, InputTypeOK, RunStates, Positions
<1>3. RecordsOK'
  <2> DEFINE c == Cardinality(upsets \cap {"unknown", "lost", "stuck"})
  <2>1. c \in Nat /\ Len(runs) \in Nat /\ changes \in Nat /\ runs \in Seq(RunRecord) /\ MaxEvents \in Nat
    BY UpsetsAreCounted, RunsAreRecords, SizesAreNumbers DEF InputIInv, RecordsOK
  <2>2. Cardinality((upsets \cap {"unknown", "lost", "stuck"}))' = c
    BY <1>1
  <2> HIDE DEF c
  <2>3. Len(runs) + c + changes < MaxEvents
    BY <1>1 DEF Budget, c
  <2>4. Len(runs)' + c + changes' <= MaxEvents
    BY <1>1, <2>1, <2>3
  <2>. QED BY <1>1, <2>1, <2>2, <2>4 DEF RecordsOK, Budget, RunRecord, JobRecord
<1>. QED BY <1>1, <1>2, <1>3, SameRuns DEF InputIInv

\* Nothing changes when nothing is done.
LEMMA StutterKeeps ==
    ASSUME InputIInv, UNCHANGED inputVars
    PROVE  InputIInv'
<1> USE DEF inputVars, settings
<1>1. InputTypeOK'
  BY DEF InputIInv, InputTypeOK, RunStates, Positions
<1>2. RecordsOK'
  BY DEF InputIInv, RecordsOK, Budget, RunRecord, JobRecord
<1>. QED BY <1>1, <1>2, SameRuns DEF InputIInv

\* A run that has yet to read is the only one.
LEMMA FirstRunAlone ==
    ASSUME InputIInv, NEW r \in DOMAIN runs, runs[r].st \in {"pending", "reading"}
    PROVE  r = 1 /\ Len(runs) = 1
<1>1. r = 1
  BY DEF InputIInv, RunsFollowOrder
<1>2. CASE 2 \in DOMAIN runs
  <2>1. runs[2].of \in 1..(2 - 1) /\ Terminal(runs[2].of)
    BY <1>2 DEF InputIInv, RunsFollowOrder
  <2>2. runs[2].of = 1
    BY <2>1
  <2>. QED BY <1>1, <2>1, <2>2 DEF Terminal
<1>3. CASE 2 \notin DOMAIN runs
  BY <1>1, <1>3, RunsAreRecords DEF InputIInv, RunsFollowOrder
<1>. QED BY <1>2, <1>3

\* A run with a job under way has not been retried, unless it was too early.
LEMMA LiveIsLast ==
    ASSUME InputIInv, NEW r \in DOMAIN runs, Live(r) # {}, "early" \notin upsets
    PROVE  /\ ~Retried(r)
           /\ "doubled" \notin upsets => r = Len(runs)
<1>2. ~Retried(r)
  BY DEF InputIInv, RetriedHaveEnded
<1>3. ASSUME "doubled" \notin upsets
      PROVE  r = Len(runs)
  <2>1. Len(runs) \in Nat /\ r \in 1..Len(runs)
    BY RunsAreRecords DEF InputIInv
  <2>2. CASE r < Len(runs)
    <3>1. r + 1 \in DOMAIN runs /\ (r + 1) - 1 = r
      BY <2>1, <2>2, RunsAreRecords DEF InputIInv
    <3>2. runs[r + 1].of = r
      BY <1>3, <3>1 DEF InputIInv, RetriesAreSingle
    <3>. QED BY <1>2, <3>1, <3>2 DEF Retried
  <2>. QED BY <2>1, <2>2
<1>. QED BY <1>2, <1>3

\* Where the rows of jobs are, and that they are there once.
LEMMA RowsHold ==
    ASSUME NEW jobs \in Seq(JobRecord)
    PROVE  /\ Rows(jobs) \in Seq(Nat)
           /\ \A v : v \in Range(Rows(jobs))
                <=> \E i \in DOMAIN jobs : \E p \in Positions(jobs[i]) : jobs[i].rows[p] = v
           /\ IsInjective(Rows(jobs)) <=> Apart(RowsOf(jobs))
<1> DEFINE ss == RowsOf(jobs)
<1>1. /\ ss \in Seq(Seq(Nat)) /\ DOMAIN ss = DOMAIN jobs
      /\ \A i \in DOMAIN jobs : ss[i] = jobs[i].rows
  BY JobsAreRows
<1>2. Rows(jobs) = FlattenSeq(ss)
  BY DEF Rows
<1> HIDE DEF ss
<1>3. \A v : v \in Range(FlattenSeq(ss)) <=> \E i \in DOMAIN ss : v \in Range(ss[i])
  BY <1>1, FlattenHolds
<1>4. \A i \in DOMAIN jobs : \A v : v \in Range(ss[i]) <=> \E p \in Positions(jobs[i]) : jobs[i].rows[p] = v
  BY <1>1 DEF Range, Positions
<1>5. \A v : v \in Range(FlattenSeq(ss))
                <=> \E i \in DOMAIN jobs : \E p \in Positions(jobs[i]) : jobs[i].rows[p] = v
  <2> TAKE v
  <2>1. \A i \in DOMAIN jobs : v \in Range(ss[i]) <=> \E p \in Positions(jobs[i]) : jobs[i].rows[p] = v
    BY <1>4
  <2>. QED BY <1>1, <1>3, <2>1, Zenon
<1>6. FlattenSeq(ss) \in Seq(Nat) /\ (IsInjective(FlattenSeq(ss)) <=> Apart(ss))
  BY <1>1, FlattenJoins, FlattenHolds
<1>. QED BY <1>2, <1>5, <1>6 DEF ss

\* The jobs that partitions become.
LEMMA PendingJobsHold ==
    ASSUME NEW parts \in Seq(Seq(Nat))
    PROVE  /\ PendingJobs(parts) \in Seq(JobRecord) /\ DOMAIN PendingJobs(parts) = DOMAIN parts
           /\ Len(PendingJobs(parts)) = Len(parts)
           /\ \A i \in DOMAIN parts : /\ PendingJobs(parts)[i] = Pending(parts[i])
                                      /\ PendingJobs(parts)[i] = Pending(PendingJobs(parts)[i].rows)
                                      /\ PendingJobs(parts)[i].rows = parts[i]
           /\ RowsOf(PendingJobs(parts)) = parts
           /\ parts = <<>> <=> PendingJobs(parts) = <<>>
<1> DEFINE N == Len(parts)
           jobs == PendingJobs(parts)
<1>1. N \in Nat /\ DOMAIN parts = 1..N /\ \A i \in 1..N : parts[i] \in Seq(Nat)
  OBVIOUS
<1>2. DOMAIN jobs = 1..N /\ \A i \in 1..N : jobs[i] = Pending(parts[i])
  BY <1>1 DEF PendingJobs
<1>3. \A s \in Seq(Nat) : Pending(s) \in JobRecord /\ Pending(s).rows = s
  BY DEF Pending, JobRecord, ResultFiles
<1>4. jobs \in [1..N -> JobRecord]
  BY <1>1, <1>2, <1>3 DEF PendingJobs
<1> HIDE DEF jobs, N
<1>5. jobs \in Seq(JobRecord) /\ Len(jobs) = N
  BY <1>1, <1>2, <1>4
<1>6. RowsOf(jobs) = parts
  <2>1. \A i \in 1..N : jobs[i].rows = parts[i]
    BY <1>1, <1>2, <1>3
  <2>2. [i \in DOMAIN jobs |-> jobs[i].rows] = [i \in 1..N |-> parts[i]]
    BY <1>2, <2>1
  <2>. QED BY <1>1, <2>2 DEF RowsOf
<1>7. (parts = <<>>) <=> (jobs = <<>>)
  BY <1>1, <1>5, EmptySeq DEF N
<1>. QED BY <1>1, <1>2, <1>3, <1>5, <1>6, <1>7 DEF jobs, N

\* What a run that is still alone becomes, when it searches and when it reads.
LEMMA AloneKeeps ==
    ASSUME InputIInv, Len(runs) = 1, UNCHANGED <<settings, upsets>>,
           NEW parts \in Seq(Seq(Nat)), NEW x \in RunRecord,
           runs' \in Seq(RunRecord), Len(runs') = 1, runs'[1] = x,
           x.of = 0, IsInjective(x.paths), x.jobs = PendingJobs(parts),
           x.st = "loading" <=> parts # <<>>, x.st # "aborted",
           x.st \in {"pending", "reading", "failed"} => parts = <<>>,
           chained => /\ x.src \in {<<>>, <<export[1].rows>>}
                      /\ Range(FlattenSeq(parts)) \subseteq Range(export[1].rows),
           parts # <<>> => /\ x.cap > 0 /\ IsInjective(FlattenSeq(x.src))
                           /\ parts = PartitionFiles(x.src, x.cap)
    PROVE  InputIInv'
<1> DEFINE jobs == PendingJobs(parts)
<1>1. DOMAIN runs' = {1} /\ DOMAIN runs = {1}
  <2>1. Len(runs) \in Nat /\ DOMAIN runs = 1..Len(runs) /\ DOMAIN runs' = 1..Len(runs')
    BY RunsAreRecords DEF InputIInv
  <2>. QED BY <2>1
<1>2. /\ jobs \in Seq(JobRecord) /\ DOMAIN jobs = DOMAIN parts /\ Len(jobs) = Len(parts)
      /\ \A i \in DOMAIN jobs : /\ jobs[i] = Pending(parts[i]) /\ jobs[i] = Pending(jobs[i].rows)
                                /\ jobs[i].rows = parts[i]
      /\ RowsOf(jobs) = parts /\ ((parts = <<>>) <=> (jobs = <<>>))
  BY PendingJobsHold
<1>3. /\ \A i \in DOMAIN jobs : /\ jobs[i].status = "pending" /\ jobs[i].ok = {} /\ jobs[i].bad = {}
                                /\ jobs[i].files = {} /\ jobs[i].gone = {}
      /\ \A s : Pending(s).status = "pending"
  <2>1. \A s : /\ Pending(s).status = "pending" /\ Pending(s).ok = {} /\ Pending(s).bad = {}
               /\ Pending(s).files = {} /\ Pending(s).gone = {}
    BY DEF Pending
  <2> HIDE DEF jobs
  <2>2. \A i \in DOMAIN jobs : jobs[i] = Pending(parts[i])
    BY <1>2
  <2>. QED BY <2>1, <2>2
<1>4. /\ Rows(jobs) = FlattenSeq(parts)
      /\ \A v : v \in Range(Rows(jobs)) <=> \E i \in DOMAIN jobs : \E p \in Positions(jobs[i]) : jobs[i].rows[p] = v
  BY <1>2, RowsHold DEF Rows
<1>5. x.jobs = jobs /\ x.cap \in Nat /\ x.src \in Seq(Seq(Nat))
  BY DEF RunRecord
<1> HIDE DEF jobs
<1>6. jobs # <<>> => DOMAIN jobs # {}
  BY <1>2, EmptySeq
<1>7. InputTypeOK'
  <2>1. x.st \in RunStates /\ x.of \in 0..(1 - 1)
    BY DEF RunRecord
  <2>2. \A i \in DOMAIN jobs :
                LET j == jobs[i] IN
                /\ j.status \in {"pending", "job_complete", "failed", "stuck"}
                /\ j.ok \subseteq Positions(j) /\ j.bad \subseteq Positions(j) \ j.ok
                /\ j.gone \subseteq j.files /\ j.files \subseteq ResultFiles
    BY <1>3
  <2>3. Len(runs') \in 1..MaxEvents
    BY SizesAreNumbers
  <2>4. /\ mode' = mode /\ source' = source /\ dir' = dir /\ size' = size /\ chained' = chained
        /\ export' = export /\ output' = output /\ upsets' = upsets
    BY DEF settings
  <2>. QED BY <1>1, <1>5, <2>1, <2>2, <2>3, <2>4 DEF InputIInv, InputTypeOK, RunStates, Positions
<1>8. RecordsOK'
  <2>1. changes' = changes /\ upsets' = upsets
    BY DEF settings
  <2>. QED BY <2>1 DEF InputIInv, RecordsOK, Budget, RunRecord, RunStates, JobRecord
<1>9. RunsFollowOrder' /\ RetriesAreSingle'
  BY <1>1 DEF RunsFollowOrder, RetriesAreSingle
<1>10. JobsFollowOrder'
  <2>1. runs'[1].jobs = jobs /\ runs'[1].st = x.st
    BY <1>5
  <2>2. Live(1)' = DOMAIN jobs
    BY <1>3, <2>1 DEF Live
  <2>3. x.st \in {"loading", "aborted"} <=> DOMAIN jobs # {}
    BY <1>2, <1>6, EmptySeq
  <2>4. x.st \in {"pending", "reading", "failed"} => jobs = <<>>
    BY <1>2
  <2>. QED BY <1>1, <1>2, <2>1, <2>2, <2>3, <2>4 DEF JobsFollowOrder
<1>11. RetryHasWork' /\ ResultsAreKept' /\ RetriedHaveEnded'
  BY <1>1, <1>3, <1>5 DEF RetryHasWork, ResultsAreKept, RetriedHaveEnded, Retried
<1>12. ChainedReadsOwnExport' /\ FirstRunIsSource'
  <2>1. chained' = chained /\ export' = export
    BY DEF settings
  <2>. QED BY <1>1, <1>2, <1>4, <1>5, <2>1 DEF ChainedReadsOwnExport, FirstRunIsSource
<1>13. RowsDescend'
  <2>1. IsInjective(Rows(jobs))
    <3>1. CASE parts = <<>>
      BY <1>4, <3>1, FlattenFew, EmptySeq DEF IsInjective
    <3>2. CASE parts # <<>>
      <4>1. x.cap \in Nat \ {0}
        BY <1>5, <3>2
      <4>2. FlattenSeq(PartitionFiles(x.src, x.cap)) = FlattenSeq(x.src)
        BY <1>5, <4>1, PartitionFilesHolds
      <4>. QED BY <1>4, <3>2, <4>2
    <3>. QED BY <3>1, <3>2
  <2>2. 1..(1 - 1) = {}
    OBVIOUS
  <2>. QED BY <1>1, <1>5, <2>1, <2>2 DEF RowsDescend
<1>14. RowsGoOn'
  <2>1. SUFFICES ASSUME NEW row \in Range(Rows(jobs)) PROVE Carried(row)'
    BY <1>1, <1>5 DEF RowsGoOn
  <2>2. PICK i \in DOMAIN jobs : \E p \in Positions(jobs[i]) : jobs[i].rows[p] = row
    BY <1>4, <2>1
  <2>3. \E p \in Positions(jobs[i]) \ jobs[i].ok : jobs[i].rows[p] = row
    BY <1>3, <2>2
  <2>4. jobs[i].status = "pending" /\ runs'[1].jobs = jobs /\ 1 \in DOMAIN runs'
    BY <1>1, <1>3, <1>5
  <2>5. /\ runs'[1].jobs[i].status = "pending"
        /\ \E p \in Positions(runs'[1].jobs[i]) \ runs'[1].jobs[i].ok : runs'[1].jobs[i].rows[p] = row
    BY <2>3, <2>4
  <2>6. i \in DOMAIN runs'[1].jobs
    BY <2>2, <2>4
  <2>. QED BY <2>4, <2>5, <2>6 DEF Carried, Positions
<1>. QED BY <1>7, <1>8, <1>9, <1>10, <1>11, <1>12, <1>13, <1>14 DEF InputIInv

\* One run is replaced and the others stay.
LEMMA RunReplaced ==
    ASSUME runs \in Seq(RunRecord), NEW r \in DOMAIN runs, NEW y \in RunRecord,
           runs' = [runs EXCEPT ![r] = y]
    PROVE  /\ runs' \in Seq(RunRecord) /\ Len(runs') = Len(runs) /\ DOMAIN runs' = DOMAIN runs
           /\ runs'[r] = y /\ \A s \in DOMAIN runs \ {r} : runs'[s] = runs[s]
  OBVIOUS

\* A run finds files, or the export of the step before, or nothing.
LEMMA DiscoverKeeps ==
    ASSUME InputIInv, NEW r \in DOMAIN runs, Discover(r)
    PROVE  InputIInv'
<1> DEFINE run == runs[1]
           x == runs'[1]
           found == DiscoverFiles(dir)
           none == <<>>
<1>1. r = 1 /\ Len(runs) = 1 /\ run.st = "pending"
  BY FirstRunAlone DEF Discover
<1>2. UNCHANGED <<settings, upsets>>
  BY DEF Discover
<1>3. /\ run \in RunRecord /\ run.of = 0 /\ IsInjective(run.paths) /\ run.jobs = <<>>
      /\ chained => run.src \in {<<>>, <<export[1].rows>>}
  BY <1>1, RunsAreRecords DEF InputIInv, RunsFollowOrder, JobsFollowOrder, FirstRunIsSource
<1>4. found \in Seq(DOMAIN Paths) /\ IsInjective(found)
  BY FilesFound
<1>5. \E paths, st : /\ runs' = [runs EXCEPT ![1].paths = paths, ![1].st = st]
                     /\ paths \in {run.paths, found} /\ st \in {"reading", "failed", "done"}
  <2> HIDE DEF found
  <2>1. CASE chained
    <3> DEFINE st == IF Resolves(UpstreamRecord(1)) THEN "reading" ELSE "failed"
    <3>1. runs' = [runs EXCEPT ![1].st = st] /\ st \in {"reading", "failed"}
      BY <1>1, <2>1 DEF Discover
    <3> HIDE DEF st
    <3>2. [runs EXCEPT ![1].st = st] = [runs EXCEPT ![1].paths = run.paths, ![1].st = st]
      BY <1>3, <1>1, RunsAreRecords DEF InputIInv, RunRecord
    <3>. QED BY <3>1, <3>2
  <2>2. CASE ~chained /\ source = "missing"
    <3>1. runs' = [runs EXCEPT ![1].st = "failed"]
      BY <1>1, <2>2 DEF Discover
    <3>2. [runs EXCEPT ![1].st = "failed"] = [runs EXCEPT ![1].paths = run.paths, ![1].st = "failed"]
      BY <1>3, <1>1, RunsAreRecords DEF InputIInv, RunRecord
    <3>. QED BY <3>1, <3>2
  <2>3. CASE ~chained /\ source # "missing"
    <3> DEFINE st == IF found = <<>> THEN "done" ELSE "reading"
    <3>1. runs' = [runs EXCEPT ![1].paths = found, ![1].st = st]
      BY <1>1, <2>3 DEF Discover, found
    <3>2. st \in {"reading", "done"}
      OBVIOUS
    <3> HIDE DEF st
    <3>. QED BY <3>1, <3>2
  <2>. QED BY <2>1, <2>2, <2>3
<1>6. PICK paths, st : /\ runs' = [runs EXCEPT ![1].paths = paths, ![1].st = st]
                       /\ paths \in {run.paths, found} /\ st \in {"reading", "failed", "done"}
  BY <1>5
<1>7. runs \in Seq(RunRecord) /\ 1 \in DOMAIN runs
  BY <1>1 DEF InputIInv, RecordsOK
<1>8. paths \in Seq(DOMAIN Paths) /\ IsInjective(paths)
  BY <1>3, <1>4, <1>6 DEF RunRecord
<1> HIDE DEF found
<1>9. /\ x = [run EXCEPT !.paths = paths, !.st = st] /\ x \in RunRecord
      /\ x.of = 0 /\ x.paths = paths /\ x.st = st /\ x.src = run.src /\ x.jobs = <<>>
  BY <1>3, <1>6, <1>7, <1>8 DEF RunRecord, RunStates
<1>10. runs' \in Seq(RunRecord) /\ Len(runs') = 1
  <2>1. [run EXCEPT !.paths = paths, !.st = st] \in RunRecord
    BY <1>9
  <2>2. runs' = [runs EXCEPT ![1] = [run EXCEPT !.paths = paths, !.st = st]]
    BY <1>6, <1>7
  <2>. QED BY <1>1, <1>7, <2>1, <2>2, RunReplaced
<1>11. none \in Seq(Seq(Nat)) /\ PendingJobs(none) = <<>> /\ Range(FlattenSeq(none)) = {}
  <2>1. none \in Seq(Seq(Nat)) /\ none = <<>>
    OBVIOUS
  <2>2. Range(none) = {}
    BY EmptySeq DEF Range
  <2> HIDE DEF none
  <2>. QED BY <2>1, <2>2, PendingJobsHold, FlattenFew
<1>12. none = <<>>
  OBVIOUS
<1> HIDE DEF x, run, none
<1>13. x = runs'[1]
  BY DEF x
<1>14. /\ x.st = "loading" <=> none # <<>>
       /\ x.st # "aborted"
       /\ x.st \in {"pending", "reading", "failed"} => none = <<>>
       /\ x.jobs = PendingJobs(none)
  BY <1>6, <1>9, <1>11, <1>12
<1>15. chained => /\ x.src \in {<<>>, <<export[1].rows>>}
                  /\ Range(FlattenSeq(none)) \subseteq Range(export[1].rows)
  BY <1>3, <1>9, <1>11
<1>16. none # <<>> => /\ x.cap > 0 /\ IsInjective(FlattenSeq(x.src))
                      /\ none = PartitionFiles(x.src, x.cap)
  BY <1>12
<1>17. x.of = 0 /\ IsInjective(x.paths) /\ x \in RunRecord
  BY <1>8, <1>9
<1>. QED BY <1>1, <1>2, <1>10, <1>11, <1>13, <1>14, <1>15, <1>16, <1>17, AloneKeeps

\* The rows of an export are its own.
LEMMA ExportsAreRows ==
    ASSUME InputTypeOK, NEW r \in 0..1
    PROVE  export[r].rows \in Seq(Nat) /\ IsInjective(export[r].rows)
<1>1. export[r] \in Exports
  BY DEF InputTypeOK
<1>. QED BY <1>1, RowsAreDistinct

\* A run reads its source and cuts it.
LEMMA ReadPartitionsKeeps ==
    ASSUME InputIInv, NEW r \in DOMAIN runs, ReadPartitions(r)
    PROVE  InputIInv'
<1> DEFINE run == runs[1]
           x == runs'[1]
           own == export[1].rows
           src == IF chained THEN <<own>> ELSE [i \in DOMAIN run.paths |-> dir[run.paths[i]]]
           parts == PartitionFiles(src, EffectiveSize)
           none == <<>>
<1>1. r = 1 /\ Len(runs) = 1 /\ run.st = "reading"
  BY FirstRunAlone DEF ReadPartitions
<1>2. UNCHANGED <<settings, upsets>>
  BY DEF ReadPartitions
<1>3. /\ run \in RunRecord /\ run.of = 0 /\ IsInjective(run.paths) /\ run.jobs = <<>>
      /\ chained => run.src \in {<<>>, <<own>>}
      /\ run.paths \in Seq(DOMAIN Paths)
  BY <1>1, RunsAreRecords DEF InputIInv, RunsFollowOrder, JobsFollowOrder, FirstRunIsSource, RunRecord
<1>4. own \in Seq(Nat) /\ IsInjective(own) /\ dir \in Dirs
  <2>1. InputTypeOK /\ 1 \in 0..1
    BY DEF InputIInv
  <2>. QED BY <2>1, ExportsAreRows DEF InputTypeOK
<1> HIDE DEF own
<1>5. EffectiveSize \in Nat \ {0}
  BY SizesAreNumbers DEF EffectiveSize, NoSize, InputIInv, InputTypeOK
<1>6. /\ src \in Seq(Seq(Nat)) /\ (Absent \notin Range(src) => Apart(src))
      /\ chained => src = <<own>> /\ \A v : v \in Range(FlattenSeq(src)) <=> v \in Range(own)
  <2>1. CASE chained
    BY <1>4, <2>1, OneFile
  <2>2. CASE ~chained
    <3> DEFINE s == [i \in DOMAIN run.paths |-> dir[run.paths[i]]]
    <3>1. src = s /\ s \in Seq(Seq(Nat)) /\ (Absent \notin Range(s) => Apart(s))
      BY <1>3, <1>4, <2>2, FilesAreApart
    <3>. QED BY <2>2, <3>1
  <2>. QED BY <2>1, <2>2
<1>7. runs' = IF Absent \in Range(src)
              THEN [runs EXCEPT ![1].st = "failed"]
              ELSE [runs EXCEPT ![1].st = IF parts = <<>> THEN "done" ELSE "loading",
                                ![1].src = src, ![1].cap = EffectiveSize,
                                ![1].jobs = PendingJobs(parts)]
  BY <1>1 DEF ReadPartitions, UpstreamRecord, own
<1> HIDE DEF src
<1>8. parts \in Seq(Seq(Nat)) /\ FlattenSeq(parts) = FlattenSeq(src)
  BY <1>5, <1>6, PartitionFilesHolds
<1>9. runs \in Seq(RunRecord) /\ 1 \in DOMAIN runs
  BY <1>1 DEF InputIInv, RecordsOK
<1>10. none \in Seq(Seq(Nat)) /\ PendingJobs(none) = <<>> /\ Range(FlattenSeq(none)) = {} /\ none = <<>>
  <2>1. none \in Seq(Seq(Nat)) /\ none = <<>>
    OBVIOUS
  <2>2. Range(none) = {}
    BY EmptySeq DEF Range
  <2> HIDE DEF none
  <2>. QED BY <2>1, <2>2, PendingJobsHold, FlattenFew
<1>11. CASE Absent \in Range(src)
  <2> DEFINE y == [run EXCEPT !.st = "failed"]
  <2>1. /\ y \in RunRecord /\ y.of = 0 /\ y.paths = run.paths /\ y.st = "failed"
        /\ y.src = run.src /\ y.jobs = <<>>
    BY <1>3 DEF RunRecord, RunStates
  <2>2. runs' = [runs EXCEPT ![1] = y]
    BY <1>7, <1>9, <1>11
  <2> HIDE DEF y, run
  <2>3. runs' \in Seq(RunRecord) /\ Len(runs') = 1 /\ runs'[1] = y
    BY <1>1, <1>9, <2>1, <2>2, RunReplaced
  <2> HIDE DEF none, x
  <2>. QED BY <1>1, <1>2, <1>3, <1>10, <2>1, <2>3, AloneKeeps DEF own
<1>12. CASE Absent \notin Range(src)
  <2> DEFINE st == IF parts = <<>> THEN "done" ELSE "loading"
             y == [run EXCEPT !.st = st, !.src = src, !.cap = EffectiveSize, !.jobs = PendingJobs(parts)]
  <2> HIDE DEF parts
  <2>1. st \in {"done", "loading"} /\ (st = "loading" <=> parts # <<>>)
    OBVIOUS
  <2>2. PendingJobs(parts) \in Seq(JobRecord)
    BY <1>8, PendingJobsHold
  <2>3. runs' = [runs EXCEPT ![1] = y]
    BY <1>7, <1>9, <1>12
  <2> HIDE DEF st
  <2>4. /\ y \in RunRecord /\ y.of = 0 /\ y.paths = run.paths /\ y.st = st
        /\ y.src = src /\ y.cap = EffectiveSize /\ y.jobs = PendingJobs(parts)
    BY <1>3, <1>5, <1>6, <2>1, <2>2 DEF RunRecord, RunStates
  <2> HIDE DEF y, run
  <2>5. runs' \in Seq(RunRecord) /\ Len(runs') = 1 /\ runs'[1] = y
    BY <1>1, <1>9, <2>3, <2>4, RunReplaced
  <2>6. IsInjective(FlattenSeq(src))
    BY <1>6, <1>12, FlattenHolds
  <2>7. chained => /\ y.src \in {<<>>, <<own>>} /\ Range(FlattenSeq(parts)) \subseteq Range(own)
    BY <1>6, <1>8, <2>4
  <2>8. /\ y.cap > 0 /\ IsInjective(FlattenSeq(y.src)) /\ parts = PartitionFiles(y.src, y.cap)
    BY <1>5, <2>4, <2>6 DEF parts
  <2>9. y.st \in {"pending", "reading", "failed"} => parts = <<>>
    BY <2>1, <2>4
  <2> HIDE DEF none, x
  <2>. QED BY <1>1, <1>2, <1>3, <1>8, <2>1, <2>4, <2>5, <2>7, <2>8, <2>9, AloneKeeps DEF own
<1>. QED BY <1>11, <1>12

\* A job is another one, with the same rows, and its run may have another state.
JobBecomes(r, i, j, st) ==
    /\ runs' \in Seq(RunRecord) /\ Len(runs') = Len(runs) /\ DOMAIN runs' = DOMAIN runs
    /\ \A s \in DOMAIN runs :
          /\ runs'[s].of = runs[s].of /\ runs'[s].paths = runs[s].paths
          /\ runs'[s].src = runs[s].src /\ runs'[s].cap = runs[s].cap
          /\ runs'[s].st = IF s = r THEN st ELSE runs[s].st
          /\ DOMAIN runs'[s].jobs = DOMAIN runs[s].jobs /\ Len(runs'[s].jobs) = Len(runs[s].jobs)
          /\ RowsOf(runs'[s].jobs) = RowsOf(runs[s].jobs)
          /\ \A k \in DOMAIN runs[s].jobs :
                /\ runs'[s].jobs[k] = IF s = r /\ k = i THEN j ELSE runs[s].jobs[k]
                /\ runs'[s].jobs[k].rows = runs[s].jobs[k].rows

\* Replacing a job by one with the same rows is that.
LEMMA JobReplaced ==
    ASSUME runs \in Seq(RunRecord), NEW r \in DOMAIN runs, NEW i \in DOMAIN runs[r].jobs,
           NEW j \in JobRecord, j.rows = runs[r].jobs[i].rows, NEW st \in RunStates,
           runs' = [runs EXCEPT ![r].jobs[i] = j, ![r].st = st]
    PROVE  JobBecomes(r, i, j, st)
<1> DEFINE jobs == [runs[r].jobs EXCEPT ![i] = j]
           y == [runs[r] EXCEPT !.jobs = jobs, !.st = st]
<1>1. runs[r] \in RunRecord /\ runs[r].jobs \in Seq(JobRecord)
  <2>1. runs[r] \in RunRecord
    OBVIOUS
  <2>. QED BY <2>1 DEF RunRecord
<1>2. /\ jobs \in Seq(JobRecord) /\ DOMAIN jobs = DOMAIN runs[r].jobs /\ Len(jobs) = Len(runs[r].jobs)
      /\ \A k \in DOMAIN jobs : jobs[k] = IF k = i THEN j ELSE runs[r].jobs[k]
  BY <1>1
<1>3. \A k \in DOMAIN jobs : jobs[k].rows = runs[r].jobs[k].rows
  BY <1>2
<1>4. RowsOf(jobs) = RowsOf(runs[r].jobs)
  BY <1>2, <1>3 DEF RowsOf
<1>5. runs' = [runs EXCEPT ![r] = y]
  OBVIOUS
<1> HIDE DEF jobs
<1>6. /\ y \in RunRecord /\ y.of = runs[r].of /\ y.paths = runs[r].paths /\ y.src = runs[r].src
      /\ y.cap = runs[r].cap /\ y.st = st /\ y.jobs = jobs
  BY <1>1, <1>2 DEF RunRecord
<1> HIDE DEF y
<1>7. /\ runs' \in Seq(RunRecord) /\ Len(runs') = Len(runs) /\ DOMAIN runs' = DOMAIN runs
      /\ runs'[r] = y /\ \A s \in DOMAIN runs \ {r} : runs'[s] = runs[s]
  BY <1>5, <1>6, RunReplaced
<1>8. ASSUME NEW s \in DOMAIN runs
      PROVE  /\ runs'[s].of = runs[s].of /\ runs'[s].paths = runs[s].paths
             /\ runs'[s].src = runs[s].src /\ runs'[s].cap = runs[s].cap
             /\ runs'[s].st = IF s = r THEN st ELSE runs[s].st
             /\ DOMAIN runs'[s].jobs = DOMAIN runs[s].jobs /\ Len(runs'[s].jobs) = Len(runs[s].jobs)
             /\ RowsOf(runs'[s].jobs) = RowsOf(runs[s].jobs)
             /\ \A k \in DOMAIN runs[s].jobs :
                   /\ runs'[s].jobs[k] = IF s = r /\ k = i THEN j ELSE runs[s].jobs[k]
                   /\ runs'[s].jobs[k].rows = runs[s].jobs[k].rows
  <2>1. CASE s = r
    <3>1. runs'[s] = y
      BY <1>7, <2>1
    <3>. QED BY <1>2, <1>3, <1>4, <1>6, <2>1, <3>1
  <2>2. CASE s # r
    <3>1. runs'[s] = runs[s]
      BY <1>7, <2>2
    <3>. QED BY <2>2, <3>1
  <2>. QED BY <2>1, <2>2
<1>. QED BY <1>7, <1>8 DEF JobBecomes

\* What only looks at the rows and at the order of the runs is kept.
LEMMA JobKeepsShape ==
    ASSUME InputIInv, NEW r \in DOMAIN runs, NEW i \in DOMAIN runs[r].jobs, NEW j \in JobRecord, NEW st,
           JobBecomes(r, i, j, st), UNCHANGED settings,
           upsets \subseteq upsets', upsets' \subseteq {"unknown", "lost", "stuck", "doubled", "moved", "early"},
           Budget' <= MaxEvents,
           j.ok \subseteq Positions(j), j.bad \subseteq Positions(j) \ j.ok, j.gone \subseteq j.files,
           Terminal(r) => st \in {"aborted", "done", "failed"}, r # 1 => st \in {"loading", "aborted", "done"}
    PROVE  /\ InputTypeOK' /\ RecordsOK' /\ RunsFollowOrder' /\ RetryHasWork'
           /\ ChainedReadsOwnExport' /\ FirstRunIsSource' /\ RetriesAreSingle'
<1> USE DEF settings
<1>0. /\ Len(runs) \in Nat /\ DOMAIN runs = 1..Len(runs)
      /\ runs' \in Seq(RunRecord) /\ Len(runs') = Len(runs) /\ DOMAIN runs' = DOMAIN runs
      /\ 1 \in DOMAIN runs
  BY RunsAreRecords DEF InputIInv, JobBecomes, RunsFollowOrder
<1>a. \A s \in DOMAIN runs :
          /\ runs'[s].of = runs[s].of /\ runs'[s].paths = runs[s].paths
          /\ runs'[s].src = runs[s].src /\ runs'[s].cap = runs[s].cap
          /\ runs'[s].st = IF s = r THEN st ELSE runs[s].st
          /\ DOMAIN runs'[s].jobs = DOMAIN runs[s].jobs /\ Len(runs'[s].jobs) = Len(runs[s].jobs)
          /\ RowsOf(runs'[s].jobs) = RowsOf(runs[s].jobs)
  BY DEF JobBecomes
<1>b. \A s \in DOMAIN runs : \A k \in DOMAIN runs[s].jobs :
                /\ runs'[s].jobs[k] = IF s = r /\ k = i THEN j ELSE runs[s].jobs[k]
                /\ runs'[s].jobs[k].rows = runs[s].jobs[k].rows
  BY DEF JobBecomes
<1>c. /\ \A s \in DOMAIN runs : runs[s].jobs \in Seq(JobRecord) /\ runs'[s].jobs \in Seq(JobRecord)
      /\ \A s \in DOMAIN runs : runs'[s].st \in RunStates
  <2>1. \A s \in DOMAIN runs : runs[s].jobs \in Seq(JobRecord)
    BY RunsAreRecords DEF InputIInv
  <2>2. \A s \in DOMAIN runs : runs'[s] \in RunRecord
    BY <1>0
  <2>3. \A x \in RunRecord : x.jobs \in Seq(JobRecord) /\ x.st \in RunStates
    BY DEF RunRecord
  <2>. QED BY <2>1, <2>2, <2>3
<1>d. \A s \in DOMAIN runs : (runs'[s].jobs = <<>>) <=> (runs[s].jobs = <<>>)
  BY <1>a, <1>c, EmptySeq
<1>1. InputTypeOK'
  <2>1. \A s \in DOMAIN runs : runs'[s].of \in 0..(s - 1) /\ runs'[s].st \in RunStates
    <3>1. \A s \in DOMAIN runs : runs[s].of \in 0..(s - 1)
      BY DEF InputIInv, InputTypeOK
    <3>. QED BY <1>a, <1>c, <3>1
  <2>2. /\ j.status \in {"pending", "job_complete", "failed", "stuck"}
        /\ j.gone \subseteq j.files /\ j.files \subseteq ResultFiles
    BY DEF JobRecord
  <2>3. ASSUME NEW s \in DOMAIN runs, NEW k \in DOMAIN runs[s].jobs
        PROVE  LET a == runs'[s].jobs[k] IN
                /\ a.status \in {"pending", "job_complete", "failed", "stuck"}
                /\ a.ok \subseteq Positions(a) /\ a.bad \subseteq Positions(a) \ a.ok
                /\ a.gone \subseteq a.files /\ a.files \subseteq ResultFiles
    <3>1. CASE s = r /\ k = i
      <4>1. runs'[s].jobs[k] = j
        BY <1>b, <3>1
      <4>. QED BY <2>2, <4>1
    <3>2. CASE ~(s = r /\ k = i)
      <4>1. runs'[s].jobs[k] = runs[s].jobs[k]
        BY <1>b, <3>2
      <4>. QED BY <4>1 DEF InputIInv, InputTypeOK
    <3>. QED BY <3>1, <3>2
  <2>4. Len(runs') \in 1..MaxEvents
    BY <1>0 DEF InputIInv, InputTypeOK
  <2>. QED BY <1>0, <1>a, <2>1, <2>3, <2>4 DEF InputIInv, InputTypeOK, RunStates, Positions
<1>2. RecordsOK'
  BY <1>0 DEF InputIInv, RecordsOK, RunRecord, JobRecord
<1>3. RunsFollowOrder'
  <2>1. Len(runs') > 0 /\ runs'[1].of = 0 /\ IsInjective(runs'[1].paths)
    BY <1>0, <1>a DEF InputIInv, RunsFollowOrder
  <2>2. \A s \in DOMAIN runs : runs[s].st \in {"aborted", "done", "failed"} => runs'[s].st \in {"aborted", "done", "failed"}
    BY <1>a DEF Terminal
  <2>3. ASSUME NEW s \in DOMAIN runs \ {1}
        PROVE  /\ runs'[s].of \in 1..(s - 1) /\ runs'[runs'[s].of].st \in {"aborted", "done", "failed"}
               /\ runs'[s].st \in {"loading", "aborted", "done"} /\ runs'[s].src = <<>>
    <3>1. /\ runs[s].of \in 1..(s - 1) /\ runs[runs[s].of].st \in {"aborted", "done", "failed"}
          /\ runs[s].st \in {"loading", "aborted", "done"} /\ runs[s].src = <<>>
      BY DEF InputIInv, RunsFollowOrder, Terminal
    <3>2. runs[s].of \in DOMAIN runs
      BY <1>0, <3>1
    <3>. QED BY <1>a, <2>2, <3>1, <3>2
  <2>. QED BY <1>0, <2>1, <2>3 DEF RunsFollowOrder, Terminal
<1>4. RetryHasWork'
  BY <1>0, <1>a, <1>b, <1>d DEF InputIInv, RetryHasWork
<1>5. \A s \in DOMAIN runs : Rows(runs'[s].jobs) = Rows(runs[s].jobs)
  BY <1>a DEF Rows
<1>6. ChainedReadsOwnExport'
  BY <1>0, <1>5 DEF InputIInv, ChainedReadsOwnExport
<1>7. FirstRunIsSource'
  BY <1>0, <1>a, <1>d DEF InputIInv, FirstRunIsSource
<1>8. RetriesAreSingle'
  BY <1>0, <1>a DEF InputIInv, RetriesAreSingle
<1>. QED BY <1>1, <1>2, <1>3, <1>4, <1>6, <1>7, <1>8

\* What Loads is, element by element.
LoadsIn(rs, row) ==
    UNION {UNION {{<<r, i, p>> : p \in
        {p \in rs[r].jobs[i].ok : rs[r].jobs[i].rows[p] = row}} :
            i \in DOMAIN rs[r].jobs} : r \in DOMAIN rs}
LoadedAt(rs, row, r, i, p) ==
    /\ r \in DOMAIN rs /\ i \in DOMAIN rs[r].jobs
    /\ p \in rs[r].jobs[i].ok /\ rs[r].jobs[i].rows[p] = row

\* Loads has an element for every place where the row was loaded.
LEMMA LoadsHold ==
    ASSUME NEW rs, NEW row
    PROVE  /\ \A x : x \in LoadsIn(rs, row) <=> \E r, i, p : LoadedAt(rs, row, r, i, p) /\ x = <<r, i, p>>
           /\ LoadsIn(rs, row) # {} <=> \E r, i, p : LoadedAt(rs, row, r, i, p)
<1>1. ASSUME NEW x
      PROVE  x \in LoadsIn(rs, row) <=> \E r, i, p : LoadedAt(rs, row, r, i, p) /\ x = <<r, i, p>>
  <2>1. x \in LoadsIn(rs, row) <=>
           \E r \in DOMAIN rs : \E i \in DOMAIN rs[r].jobs :
             \E p \in {p \in rs[r].jobs[i].ok : rs[r].jobs[i].rows[p] = row} : x = <<r, i, p>>
    <3> DEFINE At(r, i) == {<<r, i, p>> : p \in {p \in rs[r].jobs[i].ok : rs[r].jobs[i].rows[p] = row}}
               In(r) == UNION {At(r, i) : i \in DOMAIN rs[r].jobs}
    <3>1. \A r, i : x \in At(r, i) <=> \E p \in {p \in rs[r].jobs[i].ok : rs[r].jobs[i].rows[p] = row} : x = <<r, i, p>>
      OBVIOUS
    <3>2. LoadsIn(rs, row) = UNION {In(r) : r \in DOMAIN rs}
      BY DEF LoadsIn
    <3> HIDE DEF At
    <3>3. \A r : x \in In(r) <=> \E i \in DOMAIN rs[r].jobs : x \in At(r, i)
      OBVIOUS
    <3> HIDE DEF In
    <3>4. x \in LoadsIn(rs, row) <=> \E r \in DOMAIN rs : x \in In(r)
      BY <3>2
    <3>. QED BY <3>1, <3>3, <3>4, Zenon
  <2>. QED BY <2>1 DEF LoadedAt
<1>2. \A r, i, p : LoadedAt(rs, row, r, i, p) => <<r, i, p>> \in LoadsIn(rs, row)
  BY <1>1
<1>. QED BY <1>1, <1>2, Zenon

\* Now and after a step.
LEMMA LoadsAre ==
    ASSUME NEW row
    PROVE  /\ Loads(row) = LoadsIn(runs, row)
           /\ Loads(row)' = LoadsIn(runs', row)
  BY DEF Loads, LoadsIn

\* What is said of single rows is kept when a job that loaded nothing yet ends.
LEMMA JobKeepsRows ==
    ASSUME InputIInv, NEW r \in DOMAIN runs, NEW i \in DOMAIN runs[r].jobs, NEW j \in JobRecord, NEW st,
           JobBecomes(r, i, j, st), upsets \subseteq upsets',
           "lost" \notin upsets' =>
              /\ j.gone = {} /\ j.files \in {{}, ResultFiles}
              /\ j.files = {} => j.status # "job_complete"
              /\ runs[r].jobs[i].ok = {},
           "stuck" \notin upsets' => j.status # "stuck",
           upsets' \cap {"lost", "stuck", "early"} = {} => Retryable(j) /\ ~Retried(r),
           (upsets' \cap {"lost", "unknown", "stuck"} = {} /\ j.files = {}) => j.ok = {},
           upsets' = {} => r = Len(runs)
    PROVE  ResultsAreKept' /\ RowsDescend' /\ RowsGoOn'
<1>0. /\ Len(runs) \in Nat /\ DOMAIN runs = 1..Len(runs) /\ DOMAIN runs' = DOMAIN runs
      /\ \A s \in DOMAIN runs : DOMAIN runs'[s].jobs = DOMAIN runs[s].jobs /\ runs'[s].of = runs[s].of
  BY RunsAreRecords DEF InputIInv, JobBecomes
<1>a. \A s \in DOMAIN runs : \A k \in DOMAIN runs[s].jobs :
                /\ runs'[s].jobs[k] = IF s = r /\ k = i THEN j ELSE runs[s].jobs[k]
                /\ runs'[s].jobs[k].rows = runs[s].jobs[k].rows
  BY DEF JobBecomes
<1>b. \A s \in DOMAIN runs : Rows(runs'[s].jobs) = Rows(runs[s].jobs)
  BY DEF JobBecomes, Rows
<1>1. ResultsAreKept'
  <2>1. SUFFICES ASSUME NEW s \in DOMAIN runs, NEW k \in DOMAIN runs[s].jobs
                 PROVE  LET x == runs'[s].jobs[k] IN
                        /\ "lost" \notin upsets' =>
                              /\ x.gone = {} /\ x.files \in {{}, ResultFiles}
                              /\ x.files = {} => x.status # "job_complete"
                        /\ "stuck" \notin upsets' => x.status # "stuck"
                        /\ (upsets' \cap {"lost", "unknown", "stuck"} = {} /\ x.files = {}) => x.ok = {}
    BY <1>0 DEF ResultsAreKept, ResultFiles
  <2>2. CASE s = r /\ k = i
    <3>1. runs'[s].jobs[k] = j
      BY <1>a, <2>2
    <3>. QED BY <3>1
  <2>3. CASE ~(s = r /\ k = i)
    <3>1. runs'[s].jobs[k] = runs[s].jobs[k]
      BY <1>a, <2>3
    <3>. QED BY <3>1 DEF InputIInv, ResultsAreKept
  <2>. QED BY <2>2, <2>3
<1>2. RowsDescend'
  <2>1. SUFFICES ASSUME upsets' = {}, NEW s \in DOMAIN runs
                 PROVE  /\ IsInjective(Rows(runs'[s].jobs))
                        /\ \A row \in Range(Rows(runs'[s].jobs)) : \A q \in 1..(s - 1) : NotLoaded(q, row)'
    BY <1>0 DEF RowsDescend
  <2>2. upsets = {} /\ r = Len(runs)
    BY <2>1
  <2>3. IsInjective(Rows(runs'[s].jobs))
    BY <1>b, <2>2 DEF InputIInv, RowsDescend
  <2>4. ASSUME NEW row \in Range(Rows(runs'[s].jobs)), NEW q \in 1..(s - 1)
        PROVE  NotLoaded(q, row)'
    <3>1. NotLoaded(q, row)
      BY <1>b, <2>2, <2>4 DEF InputIInv, RowsDescend
    <3>2. q \in DOMAIN runs /\ q # r
      <4>1. s \in Nat /\ s <= Len(runs) /\ q \in Nat /\ q >= 1 /\ q <= s - 1
        BY <1>0
      <4>2. \A n, a, b \in Nat : (a <= n /\ b >= 1 /\ b <= a - 1) => b \in 1..n /\ b # n
        OBVIOUS
      <4>3. q \in 1..Len(runs) /\ q # Len(runs)
        BY <1>0, <4>1, <4>2
      <4>. QED BY <1>0, <2>2, <4>3
    <3>3. DOMAIN runs'[q].jobs = DOMAIN runs[q].jobs /\ \A k \in DOMAIN runs[q].jobs : runs'[q].jobs[k] = runs[q].jobs[k]
      BY <1>0, <1>a, <3>2
    <3>. QED BY <3>1, <3>3 DEF NotLoaded, Positions
  <2>. QED BY <2>3, <2>4
<1>3. RowsGoOn'
  <2>1. SUFFICES ASSUME upsets' \cap {"lost", "moved", "stuck", "early"} = {},
                        NEW s \in DOMAIN runs, NEW row \in Range(Rows(runs'[s].jobs))
                 PROVE  Loads(row)' # {} \/ Carried(row)'
    BY <1>0 DEF RowsGoOn
  <2>2. /\ upsets \cap {"lost", "moved", "stuck", "early"} = {} /\ "lost" \notin upsets'
        /\ upsets' \cap {"lost", "stuck", "early"} = {}
    BY <2>1
  <2>3. Loads(row) # {} \/ Carried(row)
    BY <1>b, <2>1, <2>2 DEF InputIInv, RowsGoOn
  <2>4. CASE Loads(row) # {}
    <3>1. PICK t, k, p : LoadedAt(runs, row, t, k, p)
      BY <2>4, LoadsAre, LoadsHold
    <3>2. t \in DOMAIN runs /\ k \in DOMAIN runs[t].jobs /\ ~(t = r /\ k = i)
      BY <2>2, <3>1 DEF LoadedAt
    <3>3. runs'[t].jobs[k] = runs[t].jobs[k]
      BY <1>a, <3>2
    <3>4. LoadedAt(runs', row, t, k, p)
      BY <1>0, <3>1, <3>2, <3>3 DEF LoadedAt
    <3>. QED BY <3>4, LoadsAre, LoadsHold
  <2>5. CASE Carried(row)
    <3>0. PICK t \in DOMAIN runs : \E k \in DOMAIN runs[t].jobs :
             LET x == runs[t].jobs[k] IN
             /\ x.status = "pending" \/ (Retryable(x) /\ ~Retried(t))
             /\ \E p \in Positions(x) \ x.ok : x.rows[p] = row
      BY <2>5 DEF Carried
    <3>1. PICK k \in DOMAIN runs[t].jobs :
             LET x == runs[t].jobs[k] IN
             /\ x.status = "pending" \/ (Retryable(x) /\ ~Retried(t))
             /\ \E p \in Positions(x) \ x.ok : x.rows[p] = row
      BY <3>0
    <3>2. ~Retried(t) => ~Retried(t)'
      BY <1>0 DEF Retried
    <3>3. CASE ~(t = r /\ k = i)
      <4>1. runs'[t].jobs[k] = runs[t].jobs[k] /\ t \in DOMAIN runs' /\ k \in DOMAIN runs'[t].jobs
        BY <1>0, <1>a, <3>3
      <4>2. LET x == runs'[t].jobs[k] IN
             /\ x.status = "pending" \/ (Retryable(x) /\ ~Retried(t)')
             /\ \E p \in Positions(x) \ x.ok : x.rows[p] = row
        BY <3>1, <3>2, <4>1
      <4>3. Carried(row)'
        BY <4>1, <4>2 DEF Carried, Positions, Retryable
      <4>. QED BY <4>3
    <3>4. CASE t = r /\ k = i
      <4>1. PICK p \in Positions(runs[t].jobs[k]) : runs[t].jobs[k].rows[p] = row
        BY <3>1
      <4>2. /\ runs'[t].jobs[k] = j /\ t \in DOMAIN runs' /\ k \in DOMAIN runs'[t].jobs
            /\ p \in Positions(j) /\ j.rows[p] = row
        <5>1. j.rows = runs[t].jobs[k].rows /\ runs'[t].jobs[k] = j
          BY <1>a, <3>4
        <5>. QED BY <1>0, <4>1, <5>1 DEF Positions
      <4>3. CASE p \in j.ok
        <5>1. LoadedAt(runs', row, t, k, p)
          BY <4>2, <4>3 DEF LoadedAt
        <5>. QED BY <5>1, LoadsAre, LoadsHold
      <4>4. CASE p \notin j.ok
        <5>1. Retryable(j) /\ ~Retried(t)'
          BY <2>2, <3>2, <3>4
        <5>2. LET x == runs'[t].jobs[k] IN
                /\ x.status = "pending" \/ (Retryable(x) /\ ~Retried(t)')
                /\ \E q \in Positions(x) \ x.ok : x.rows[q] = row
          BY <4>2, <4>4, <5>1
        <5>3. Carried(row)'
          BY <4>2, <5>2 DEF Carried, Positions, Retryable
        <5>. QED BY <5>3
      <4>. QED BY <4>3, <4>4
    <3>. QED BY <3>3, <3>4
  <2>. QED BY <2>3, <2>4, <2>5
<1>. QED BY <1>1, <1>2, <1>3

\* One upset more is within the bound when there is room.
LEMMA BudgetHolds ==
    ASSUME RecordsOK, Len(runs') = Len(runs), changes' = changes,
           \/ upsets' = upsets
           \/ Budget < MaxEvents /\ \E x : upsets' = upsets \cup {x}
    PROVE  Budget' <= MaxEvents
<1>1. CASE upsets' = upsets
  <2>1. Budget' = Budget
    BY <1>1 DEF Budget
  <2>. QED BY <2>1 DEF RecordsOK
<1>2. CASE Budget < MaxEvents /\ \E x : upsets' = upsets \cup {x}
  <2>1. PICK x : upsets' = upsets \cup {x}
    BY <1>2
  <2> DEFINE c == Cardinality(upsets \cap {"unknown", "lost", "stuck"})
             d == Cardinality((upsets \cup {x}) \cap {"unknown", "lost", "stuck"})
             n == Len(runs)
  <2>2. c \in Nat /\ d \in Nat /\ d <= c + 1
    BY UpsetsAreCounted
  <2>3. n \in Nat /\ changes \in Nat /\ MaxEvents \in Nat
    BY RunsAreRecords, SizesAreNumbers DEF RecordsOK
  <2>4. Budget = n + c + changes /\ Budget' = n + d + changes
    BY <2>1 DEF Budget
  <2> HIDE DEF c, d, n
  <2>. QED BY <1>2, <2>2, <2>3, <2>4
<1>. QED BY <1>1, <1>2

\* What a run has live jobs for, after a step that changes one run only.
LEMMA OtherJobsFollow ==
    ASSUME InputIInv, NEW r \in DOMAIN runs, NEW i \in DOMAIN runs[r].jobs, NEW j, NEW st,
           JobBecomes(r, i, j, st), NEW s \in DOMAIN runs, s # r
    PROVE  runs'[s].jobs = runs[s].jobs /\ runs'[s].st = runs[s].st /\ Live(s)' = Live(s)
<1> DEFINE a == runs[s].jobs
           b == runs'[s].jobs
<1>1. a \in Seq(JobRecord) /\ b \in Seq(JobRecord)
  <2>1. runs'[s] \in RunRecord
    BY DEF JobBecomes
  <2>. QED BY <2>1, RunsAreRecords DEF InputIInv, RunRecord
<1>2. Len(a) = Len(b) /\ (\A k \in DOMAIN a : b[k] = a[k]) /\ runs'[s].st = runs[s].st
  BY DEF JobBecomes
<1> HIDE DEF a, b
<1>3. b = a
  BY <1>1, <1>2
<1>. QED BY <1>2, <1>3 DEF a, b, Live

\* A job under way, and what it may become.
LEMMA LiveJob ==
    ASSUME InputIInv, NEW r \in DOMAIN runs, NEW i \in Live(r)
    PROVE  LET j == runs[r].jobs[i] IN
           /\ i \in DOMAIN runs[r].jobs /\ runs[r].st \in {"loading", "aborted"}
           /\ j \in JobRecord /\ j.rows \in Seq(Nat) /\ j = Pending(j.rows)
           /\ j.ok = {} /\ j.bad = {} /\ j.files = {} /\ j.gone = {}
           /\ Positions(j) \in SUBSET Nat
<1> DEFINE j == runs[r].jobs[i]
<1>1. i \in DOMAIN runs[r].jobs /\ j = Pending(j.rows) /\ runs[r].st \in {"loading", "aborted"}
  BY DEF Live, InputIInv, JobsFollowOrder
<1>2. j \in JobRecord
  BY <1>1, RunsAreRecords DEF InputIInv
<1>3. j.rows \in Seq(Nat)
  BY <1>2 DEF JobRecord
<1> HIDE DEF j
<1>4. j.ok = {} /\ j.bad = {} /\ j.files = {} /\ j.gone = {}
  BY <1>1 DEF Pending
<1>5. Positions(j) \in SUBSET Nat
  BY <1>3 DEF Positions
<1>. QED BY <1>1, <1>2, <1>3, <1>4, <1>5 DEF j

\* A job ends, or its record is left as it is.
LEMMA FinishKeeps ==
    ASSUME InputIInv, NEW r \in DOMAIN runs, NEW i \in Live(r),
           NEW j \in JobRecord, j.rows = runs[r].jobs[i].rows, j.status # "pending",
           Finish(r, i, j), UNCHANGED settings,
           \/ upsets' = upsets
           \/ Budget < MaxEvents /\ \E x \in {"unknown", "lost", "stuck"} : upsets' = upsets \cup {x},
           j.ok \subseteq Positions(j), j.bad \subseteq Positions(j) \ j.ok, j.gone = {},
           "lost" \notin upsets' => j.files \in {{}, ResultFiles} /\ (j.files = {} => j.status # "job_complete"),
           "stuck" \notin upsets' => j.status # "stuck",
           (upsets' \cap {"lost", "unknown", "stuck"} = {} /\ j.files = {}) => j.ok = {}
    PROVE  InputIInv'
<1> DEFINE jobs == runs[r].jobs
           st == IF Live(r) = {i} THEN "done" ELSE runs[r].st
<1>1. /\ i \in DOMAIN jobs /\ jobs[i].ok = {} /\ runs[r].st \in {"loading", "aborted"}
  BY LiveJob
<1>2. runs \in Seq(RunRecord)
  BY DEF InputIInv, RecordsOK
<1>3. runs' = [runs EXCEPT ![r].jobs[i] = j, ![r].st = st]
  <2>1. runs' = [runs EXCEPT ![r].jobs[i] = j, ![r].st = IF Live(r) = {i} THEN "done" ELSE @]
    BY DEF Finish
  <2>2. CASE Live(r) = {i}
    BY <2>1, <2>2
  <2>3. CASE Live(r) # {i}
    BY <1>2, <2>1, <2>3
  <2>. QED BY <2>2, <2>3
<1>4. st \in {"loading", "aborted", "done"} /\ st \in RunStates /\ (st = "done" <=> Live(r) = {i})
  BY <1>1 DEF RunStates
<1> HIDE DEF st
<1>5. JobBecomes(r, i, j, st)
  BY <1>1, <1>2, <1>3, <1>4, JobReplaced
<1>6. Budget' <= MaxEvents
  <2>1. Len(runs') = Len(runs) /\ changes' = changes
    BY <1>5 DEF JobBecomes, settings
  <2>. QED BY <2>1, BudgetHolds DEF InputIInv
<1>7. upsets \subseteq upsets' /\ upsets' \subseteq {"unknown", "lost", "stuck", "doubled", "moved", "early"}
  BY DEF InputIInv, InputTypeOK
<1>8. "early" \notin upsets' => ~Retried(r) /\ ("doubled" \notin upsets' => r = Len(runs))
  <2>1. Live(r) # {}
    OBVIOUS
  <2>. QED BY <1>7, <2>1, LiveIsLast
<1>9. /\ InputTypeOK' /\ RecordsOK' /\ RunsFollowOrder' /\ RetryHasWork'
      /\ ChainedReadsOwnExport' /\ FirstRunIsSource' /\ RetriesAreSingle'
  <2>1. Terminal(r) => st \in {"aborted", "done", "failed"}
    BY <1>3, <1>4 DEF Terminal, st
  <2>2. j.gone \subseteq j.files
    OBVIOUS
  <2>. QED BY <1>1, <1>4, <1>5, <1>6, <1>7, <2>1, <2>2, JobKeepsShape
<1>10. ResultsAreKept' /\ RowsDescend' /\ RowsGoOn'
  <2>1. upsets' \cap {"lost", "stuck", "early"} = {} => Retryable(j) /\ ~Retried(r)
    <3>1. SUFFICES ASSUME upsets' \cap {"lost", "stuck", "early"} = {} PROVE Retryable(j)
      BY <1>8
    <3>2. "lost" \notin upsets' /\ "stuck" \notin upsets'
      BY <3>1
    <3>3. j.status \in {"pending", "job_complete", "failed", "stuck"}
      BY DEF JobRecord
    <3>. QED BY <3>2, <3>3 DEF Retryable, ResultFiles
  <2>2. upsets' = {} => r = Len(runs)
    BY <1>8
  <2>. QED BY <1>1, <1>5, <1>7, <2>1, <2>2, JobKeepsRows
<1>11. /\ DOMAIN runs' = DOMAIN runs /\ runs'[r].st = st /\ DOMAIN runs'[r].jobs = DOMAIN jobs
       /\ \A k \in DOMAIN jobs : runs'[r].jobs[k] = IF k = i THEN j ELSE jobs[k]
       /\ \A s \in DOMAIN runs : runs'[s].of = runs[s].of
  BY <1>5 DEF JobBecomes
<1>12. Live(r)' = Live(r) \ {i}
  BY <1>11 DEF Live
<1>13. \A s \in DOMAIN runs \ {r} : runs'[s].jobs = runs[s].jobs /\ runs'[s].st = runs[s].st /\ Live(s)' = Live(s)
  BY <1>1, <1>5, OtherJobsFollow
<1>14. JobsFollowOrder'
  <2>1. ASSUME NEW s \in DOMAIN runs
        PROVE  /\ runs'[s].st \in {"pending", "reading", "failed"} => runs'[s].jobs = <<>>
               /\ runs'[s].st \in {"loading", "aborted"} <=> Live(s)' # {}
               /\ \A k \in Live(s)' : runs'[s].jobs[k] = Pending(runs'[s].jobs[k].rows)
    <3>1. CASE s = r
      <4>1. st \in {"loading", "aborted"} <=> Live(r) \ {i} # {}
        BY <1>4
      <4>2. \A k \in Live(r) \ {i} : runs'[r].jobs[k] = Pending(runs'[r].jobs[k].rows)
        BY <1>11 DEF Live, InputIInv, JobsFollowOrder
      <4>. QED BY <1>4, <1>11, <1>12, <3>1, <4>1, <4>2
    <3>2. CASE s # r
      BY <1>13, <3>2 DEF InputIInv, JobsFollowOrder
    <3>. QED BY <3>1, <3>2
  <2>. QED BY <1>11, <2>1 DEF JobsFollowOrder
<1>15. RetriedHaveEnded'
  <2>1. \A s \in DOMAIN runs : Retried(s)' => Retried(s)
    BY <1>11 DEF Retried
  <2>2. \A s \in DOMAIN runs : Live(s)' \subseteq Live(s)
    BY <1>12, <1>13
  <2>. QED BY <1>7, <1>11, <2>1, <2>2 DEF RetriedHaveEnded, InputIInv
<1>. QED BY <1>9, <1>10, <1>14, <1>15 DEF InputIInv

\* A run is aborted while its jobs go on.
LEMMA AbortRunKeeps ==
    ASSUME InputIInv, NEW r \in DOMAIN runs, AbortRun(r)
    PROVE  InputIInv'
<1> DEFINE y == [runs[r] EXCEPT !.st = "aborted"]
<1>1. /\ runs[r].st = "loading" /\ UNCHANGED <<settings, upsets>> /\ runs' = [runs EXCEPT ![r] = y]
  BY DEF AbortRun
<1>2. runs \in Seq(RunRecord) /\ runs[r] \in RunRecord
  BY RunsAreRecords DEF InputIInv, RecordsOK
<1>3. /\ y \in RunRecord /\ y.of = runs[r].of /\ y.paths = runs[r].paths /\ y.src = runs[r].src
      /\ y.cap = runs[r].cap /\ y.jobs = runs[r].jobs /\ y.st = "aborted"
  BY <1>2 DEF RunRecord, RunStates
<1> HIDE DEF y
<1>4. /\ runs' \in Seq(RunRecord) /\ Len(runs') = Len(runs) /\ DOMAIN runs' = DOMAIN runs
      /\ runs'[r] = y /\ \A s \in DOMAIN runs \ {r} : runs'[s] = runs[s]
  BY <1>1, <1>2, <1>3, RunReplaced
<1>5. \A s \in DOMAIN runs : /\ runs'[s].of = runs[s].of /\ runs'[s].paths = runs[s].paths
                             /\ runs'[s].src = runs[s].src /\ runs'[s].cap = runs[s].cap
                             /\ runs'[s].jobs = runs[s].jobs
                             /\ runs'[s].st = IF s = r THEN "aborted" ELSE runs[s].st
  <2> TAKE s \in DOMAIN runs
  <2>1. CASE s = r
    BY <1>3, <1>4, <2>1
  <2>2. CASE s # r
    BY <1>4, <2>2
  <2>. QED BY <2>1, <2>2
<1>6. \A s \in DOMAIN runs : Live(s)' = Live(s)
  BY <1>5 DEF Live
<1>7. upsets' = upsets /\ changes' = changes /\ chained' = chained /\ export' = export
  BY <1>1 DEF settings
<1>8. InputTypeOK'
  <2>1. \A s \in DOMAIN runs : runs'[s].st \in RunStates
    BY <1>5 DEF InputIInv, InputTypeOK, RunStates
  <2>2. /\ mode' = mode /\ source' = source /\ dir' = dir /\ size' = size /\ output' = output
    BY <1>1 DEF settings
  <2>. QED BY <1>4, <1>5, <1>7, <2>1, <2>2 DEF InputIInv, InputTypeOK, Positions
<1>9. RecordsOK'
  <2>1. Budget' = Budget
    BY <1>4, <1>7 DEF Budget
  <2>. QED BY <1>4, <1>7, <2>1 DEF InputIInv, RecordsOK, RunRecord, RunStates, JobRecord
<1>10. RunsFollowOrder'
  <2>1. Len(runs') > 0 /\ 1 \in DOMAIN runs /\ runs'[1].of = 0 /\ IsInjective(runs'[1].paths)
    <3>1. 1 \in DOMAIN runs
      BY RunsAreRecords DEF InputIInv, RunsFollowOrder
    <3>. QED BY <1>4, <1>5, <3>1 DEF InputIInv, RunsFollowOrder
  <2>2. ASSUME NEW s \in DOMAIN runs \ {1}
        PROVE  /\ runs'[s].of \in 1..(s - 1) /\ runs'[runs'[s].of].st \in {"aborted", "done", "failed"}
               /\ runs'[s].st \in {"loading", "aborted", "done"} /\ runs'[s].src = <<>>
    <3>1. /\ runs[s].of \in 1..(s - 1) /\ Terminal(runs[s].of)
          /\ runs[s].st \in {"loading", "aborted", "done"} /\ runs[s].src = <<>>
      BY DEF InputIInv, RunsFollowOrder
    <3>2. runs[s].of \in DOMAIN runs
      BY <3>1, RunsAreRecords DEF InputIInv
    <3>. QED BY <1>5, <3>1, <3>2 DEF Terminal
  <2>. QED BY <1>4, <2>1, <2>2 DEF RunsFollowOrder, Terminal
<1>11. JobsFollowOrder'
  BY <1>1, <1>4, <1>5, <1>6 DEF InputIInv, JobsFollowOrder
<1>12. RetryHasWork' /\ ChainedReadsOwnExport'
  BY <1>4, <1>5, <1>7 DEF InputIInv, RetryHasWork, ChainedReadsOwnExport
<1>13. FirstRunIsSource'
  <2>1. 1 \in DOMAIN runs
    BY RunsAreRecords DEF InputIInv, RunsFollowOrder
  <2>. QED BY <1>5, <1>7, <2>1 DEF InputIInv, FirstRunIsSource
<1>14. ResultsAreKept' /\ RetriesAreSingle'
  BY <1>4, <1>5, <1>7 DEF InputIInv, ResultsAreKept, RetriesAreSingle
<1>15. \A s \in DOMAIN runs : Retried(s)' <=> Retried(s)
  BY <1>4, <1>5 DEF Retried
<1>16. RetriedHaveEnded'
  BY <1>4, <1>6, <1>7, <1>15 DEF InputIInv, RetriedHaveEnded
<1>17. \A s \in DOMAIN runs : \A row : NotLoaded(s, row)' <=> NotLoaded(s, row)
  BY <1>5 DEF NotLoaded, Positions
<1>18. RowsDescend'
  <2>1. \A s \in DOMAIN runs : \A q \in 1..(s - 1) : q \in DOMAIN runs
    BY RunsAreRecords DEF InputIInv
  <2>. QED BY <1>4, <1>5, <1>7, <1>17, <2>1 DEF InputIInv, RowsDescend
<1>19. \A row : Loads(row) # {} => Loads(row)' # {}
  <2> SUFFICES ASSUME NEW row, Loads(row) # {} PROVE Loads(row)' # {}
    OBVIOUS
  <2>1. PICK t, k, p : LoadedAt(runs, row, t, k, p)
    BY LoadsAre, LoadsHold
  <2>2. LoadedAt(runs', row, t, k, p)
    BY <1>4, <1>5, <2>1 DEF LoadedAt
  <2>. QED BY <2>2, LoadsAre, LoadsHold
<1>20. \A row : Carried(row) => Carried(row)'
  BY <1>4, <1>5, <1>15 DEF Carried, Retryable, Positions
<1>21. RowsGoOn'
  BY <1>4, <1>5, <1>7, <1>19, <1>20 DEF InputIInv, RowsGoOn
<1>. QED BY <1>8, <1>9, <1>10, <1>11, <1>12, <1>13, <1>14, <1>16, <1>18, <1>21 DEF InputIInv

\* A job that never ran failed and loaded nothing.
LEMMA JobNeverRanKeeps ==
    ASSUME InputIInv, NEW r \in DOMAIN runs, JobNeverRan(r)
    PROVE  InputIInv'
<1>1. PICK i \in Live(r) : Finish(r, i, [runs[r].jobs[i] EXCEPT !.status = "failed"])
  BY DEF JobNeverRan
<1> DEFINE j == runs[r].jobs[i]
           k == [j EXCEPT !.status = "failed"]
<1>2. Finish(r, i, k) /\ UNCHANGED <<settings, upsets>>
  BY <1>1 DEF JobNeverRan
<1>3. /\ j \in JobRecord /\ j.ok = {} /\ j.bad = {} /\ j.files = {} /\ j.gone = {}
  BY LiveJob
<1> HIDE DEF j
<1>4. /\ k \in JobRecord /\ k.rows = j.rows /\ k.status = "failed"
      /\ k.ok = {} /\ k.bad = {} /\ k.files = {} /\ k.gone = {}
  BY <1>3 DEF JobRecord
<1> HIDE DEF k
<1>. QED BY <1>2, <1>4, FinishKeeps DEF j

\* A job of unknown outcome failed, has no results and may have loaded rows.
LEMMA JobOutcomeUnknownKeeps ==
    ASSUME InputIInv, NEW r \in DOMAIN runs, JobOutcomeUnknown(r)
    PROVE  InputIInv'
<1>1. PICK i \in Live(r) : \E ok \in SUBSET Positions(runs[r].jobs[i]) :
         Finish(r, i, [runs[r].jobs[i] EXCEPT !.status = "failed", !.ok = ok])
  BY DEF JobOutcomeUnknown
<1> DEFINE j == runs[r].jobs[i]
<1>2. /\ UNCHANGED settings /\ Budget < MaxEvents /\ upsets' = upsets \cup {"unknown"}
  BY DEF JobOutcomeUnknown, Upset
<1>3. PICK ok \in SUBSET Positions(j) : Finish(r, i, [j EXCEPT !.status = "failed", !.ok = ok])
  BY <1>1
<1> DEFINE k == [j EXCEPT !.status = "failed", !.ok = ok]
<1>4. /\ j \in JobRecord /\ j.bad = {} /\ j.files = {} /\ j.gone = {} /\ Positions(j) \in SUBSET Nat
  BY LiveJob
<1>5. Finish(r, i, k)
  BY <1>3
<1> HIDE DEF j
<1>6. /\ k \in JobRecord /\ k.rows = j.rows /\ k.status = "failed"
      /\ k.ok = ok /\ k.bad = {} /\ k.files = {} /\ k.gone = {} /\ Positions(k) = Positions(j)
  <2>1. ok \in SUBSET Nat
    BY <1>4
  <2>. QED BY <1>4, <2>1 DEF JobRecord, Positions
<1>7. "unknown" \in upsets'
  BY <1>2
<1> HIDE DEF k
<1>. QED BY <1>2, <1>5, <1>6, <1>7, FinishKeeps DEF j

\* The record of a job that nobody wrote any more may hide rows that were loaded.
LEMMA JobStuckKeeps ==
    ASSUME InputIInv, NEW r \in DOMAIN runs, JobStuck(r)
    PROVE  InputIInv'
<1>1. PICK i \in Live(r) : \E ok \in SUBSET Positions(runs[r].jobs[i]) :
         Finish(r, i, [runs[r].jobs[i] EXCEPT !.status = "stuck", !.ok = ok])
  BY DEF JobStuck
<1> DEFINE j == runs[r].jobs[i]
<1>2. /\ UNCHANGED settings /\ Budget < MaxEvents /\ upsets' = upsets \cup {"stuck"}
  BY DEF JobStuck, Upset
<1>3. PICK ok \in SUBSET Positions(j) : Finish(r, i, [j EXCEPT !.status = "stuck", !.ok = ok])
  BY <1>1
<1> DEFINE k == [j EXCEPT !.status = "stuck", !.ok = ok]
<1>4. /\ j \in JobRecord /\ j.bad = {} /\ j.files = {} /\ j.gone = {} /\ Positions(j) \in SUBSET Nat
  BY LiveJob
<1>5. Finish(r, i, k)
  BY <1>3
<1> HIDE DEF j
<1>6. /\ k \in JobRecord /\ k.rows = j.rows /\ k.status = "stuck"
      /\ k.ok = ok /\ k.bad = {} /\ k.files = {} /\ k.gone = {} /\ Positions(k) = Positions(j)
  <2>1. ok \in SUBSET Nat
    BY <1>4
  <2>. QED BY <1>4, <2>1 DEF JobRecord, Positions
<1>7. "stuck" \in upsets'
  BY <1>2
<1> HIDE DEF k
<1>. QED BY <1>2, <1>5, <1>6, <1>7, FinishKeeps DEF j

\* A job that ended keeps both its result files, or the loss of one is an upset.
LEMMA JobEndsKeeps ==
    ASSUME InputIInv, NEW r \in DOMAIN runs, JobEnds(r)
    PROVE  InputIInv'
<1> DEFINE Status(j, ok, bad) == IF ok \cup bad = Positions(j) THEN "job_complete" ELSE "failed"
           Ended(i, ok, bad, files) ==
              /\ LET j == runs[r].jobs[i]
                 IN  Finish(r, i, [j EXCEPT !.status = Status(j, ok, bad), !.ok = ok, !.bad = bad, !.files = files])
              /\ IF files = ResultFiles THEN UNCHANGED upsets
                 ELSE Budget < MaxEvents /\ Upset({"lost"})
<1>1. PICK i \in Live(r) :
         \E ok \in SUBSET Positions(runs[r].jobs[i]), files \in SUBSET ResultFiles :
         \E bad \in SUBSET (Positions(runs[r].jobs[i]) \ ok) : Ended(i, ok, bad, files)
  BY DEF JobEnds
<1>2. PICK ok \in SUBSET Positions(runs[r].jobs[i]), files \in SUBSET ResultFiles :
         \E bad \in SUBSET (Positions(runs[r].jobs[i]) \ ok) : Ended(i, ok, bad, files)
  BY <1>1
<1>3. PICK bad \in SUBSET (Positions(runs[r].jobs[i]) \ ok) : Ended(i, ok, bad, files)
  BY <1>2
<1> DEFINE j == runs[r].jobs[i]
           st == Status(j, ok, bad)
           k == [j EXCEPT !.status = st, !.ok = ok, !.bad = bad, !.files = files]
<1>4. /\ j \in JobRecord /\ j.gone = {} /\ Positions(j) \in SUBSET Nat
  BY LiveJob
<1>5. st \in {"job_complete", "failed"}
  OBVIOUS
<1>6. /\ Finish(r, i, k) /\ UNCHANGED settings
      /\ IF files = ResultFiles THEN UNCHANGED upsets ELSE Budget < MaxEvents /\ Upset({"lost"})
  BY <1>3 DEF JobEnds
<1> HIDE DEF j, st, Ended
<1>7. /\ k \in JobRecord /\ k.rows = j.rows /\ k.status \in {"job_complete", "failed"}
      /\ k.ok = ok /\ k.bad = bad /\ k.files = files /\ k.gone = {} /\ Positions(k) = Positions(j)
  <2>1. ok \in SUBSET Nat /\ bad \in SUBSET Nat /\ bad \in SUBSET (Positions(j) \ ok) /\ ok \in SUBSET Positions(j)
    BY <1>4 DEF j
  <2>. QED BY <1>4, <1>5, <2>1 DEF JobRecord, Positions
<1>8. k.ok \subseteq Positions(k) /\ k.bad \subseteq Positions(k) \ k.ok
  BY <1>7 DEF j
<1> HIDE DEF k
<1>9. CASE files = ResultFiles
  <2>1. upsets' = upsets /\ files # {}
    BY <1>6, <1>9 DEF ResultFiles
  <2>. QED BY <1>6, <1>7, <1>8, <1>9, <2>1, FinishKeeps DEF j
<1>10. CASE files # ResultFiles
  <2>1. Budget < MaxEvents /\ upsets' = upsets \cup {"lost"}
    BY <1>6, <1>10 DEF Upset
  <2>2. "lost" \in upsets'
    BY <2>1
  <2>. QED BY <1>6, <1>7, <1>8, <2>1, <2>2, FinishKeeps DEF j
<1>. QED BY <1>9, <1>10

\* A result file that is lost is one of a job that ended.
LEMMA LoseResultFileKeeps ==
    ASSUME InputIInv, NEW r \in DOMAIN runs, LoseResultFile(r)
    PROVE  InputIInv'
<1>1. /\ Terminal(r) /\ UNCHANGED settings /\ Budget < MaxEvents /\ upsets' = upsets \cup {"lost"}
  BY DEF LoseResultFile, Upset
<1>2. PICK i \in DOMAIN runs[r].jobs :
        \E f \in runs[r].jobs[i].files : runs' = [runs EXCEPT ![r].jobs[i].gone = @ \cup {f}]
  BY DEF LoseResultFile
<1>3. PICK f \in runs[r].jobs[i].files : runs' = [runs EXCEPT ![r].jobs[i].gone = @ \cup {f}]
  BY <1>2
<1> DEFINE o == runs[r].jobs[i]
           j == [o EXCEPT !.gone = @ \cup {f}]
           st == runs[r].st
<1>4. /\ o \in JobRecord /\ runs \in Seq(RunRecord) /\ runs[r] \in RunRecord
      /\ runs[r].jobs \in Seq(JobRecord)
  BY RunsAreRecords DEF InputIInv, RecordsOK
<1>5. runs' = [runs EXCEPT ![r].jobs[i] = j, ![r].st = st]
  <2>1. [runs EXCEPT ![r].jobs[i].gone = @ \cup {f}] = [runs EXCEPT ![r].jobs[i] = j]
    OBVIOUS
  <2>2. [runs[r] EXCEPT !.jobs[i] = j] = [runs[r] EXCEPT !.jobs[i] = j, !.st = st]
    BY <1>4 DEF RunRecord
  <2>. QED BY <1>3, <2>1, <2>2
<1>6. /\ j \in JobRecord /\ j.rows = o.rows /\ j.ok = o.ok /\ j.bad = o.bad
      /\ j.files = o.files /\ j.gone = o.gone \cup {f} /\ j.status = o.status
      /\ Positions(j) = Positions(o)
  <2>1. o.gone \cup {f} \in SUBSET ResultFiles
    BY <1>4 DEF JobRecord
  <2> HIDE DEF o
  <2>. QED BY <1>4, <2>1 DEF JobRecord, Positions
<1>7. /\ o.ok \subseteq Positions(o) /\ o.bad \subseteq Positions(o) \ o.ok /\ o.gone \subseteq o.files
  BY DEF InputIInv, InputTypeOK
<1>8. st \in {"aborted", "done", "failed"} /\ st \in RunStates
  BY <1>1 DEF Terminal, RunStates
<1> HIDE DEF j
<1>9. JobBecomes(r, i, j, st)
  <2>1. j.rows = runs[r].jobs[i].rows
    BY <1>6
  <2>. QED BY <1>4, <1>5, <1>6, <1>8, <2>1, JobReplaced
<1>10. Budget' <= MaxEvents
  <2>1. Len(runs') = Len(runs) /\ changes' = changes
    BY <1>1, <1>9 DEF JobBecomes, settings
  <2>. QED BY <1>1, <2>1, BudgetHolds DEF InputIInv
<1>11. /\ InputTypeOK' /\ RecordsOK' /\ RunsFollowOrder' /\ RetryHasWork'
       /\ ChainedReadsOwnExport' /\ FirstRunIsSource' /\ RetriesAreSingle'
  <2>1. upsets \subseteq upsets' /\ upsets' \subseteq {"unknown", "lost", "stuck", "doubled", "moved", "early"}
    BY <1>1 DEF InputIInv, InputTypeOK
  <2>2. r # 1 => st \in {"loading", "aborted", "done"}
    BY DEF InputIInv, RunsFollowOrder
  <2>3. j.ok \subseteq Positions(j) /\ j.bad \subseteq Positions(j) \ j.ok /\ j.gone \subseteq j.files
    BY <1>6, <1>7
  <2>. QED BY <1>1, <1>6, <1>8, <1>9, <1>10, <2>1, <2>2, <2>3, JobKeepsShape
<1>12. ResultsAreKept' /\ RowsDescend' /\ RowsGoOn'
  <2>1. upsets \subseteq upsets' /\ "lost" \in upsets'
    BY <1>1
  <2>2. "stuck" \notin upsets' => j.status # "stuck"
    BY <1>6, <2>1 DEF InputIInv, ResultsAreKept
  <2>. QED BY <1>6, <1>9, <2>1, <2>2, JobKeepsRows
<1>13. /\ DOMAIN runs' = DOMAIN runs /\ runs'[r].st = runs[r].st /\ DOMAIN runs'[r].jobs = DOMAIN runs[r].jobs
       /\ \A k \in DOMAIN runs[r].jobs : runs'[r].jobs[k] = IF k = i THEN j ELSE runs[r].jobs[k]
       /\ \A s \in DOMAIN runs : runs'[s].of = runs[s].of
       /\ \A s \in DOMAIN runs : (runs'[s].jobs = <<>>) <=> (runs[s].jobs = <<>>)
  <2>1. \A s \in DOMAIN runs : runs'[s].jobs \in Seq(JobRecord) /\ runs[s].jobs \in Seq(JobRecord)
    <3>1. \A s \in DOMAIN runs : runs'[s] \in RunRecord
      BY <1>9 DEF JobBecomes
    <3>. QED BY <3>1, RunsAreRecords DEF InputIInv, RunRecord
  <2>. QED BY <1>9, <2>1, EmptySeq DEF JobBecomes
<1>14. i \notin Live(r)
  <2>1. o.files # {}
    BY <1>3
  <2>. QED BY <2>1, LiveJob
<1>15. Live(r)' = Live(r) /\ \A k \in Live(r) : runs'[r].jobs[k] = runs[r].jobs[k]
  BY <1>6, <1>13, <1>14 DEF Live
<1>16. \A s \in DOMAIN runs \ {r} : runs'[s].jobs = runs[s].jobs /\ runs'[s].st = runs[s].st /\ Live(s)' = Live(s)
  BY <1>9, OtherJobsFollow
<1>17. JobsFollowOrder'
  <2>1. ASSUME NEW s \in DOMAIN runs
        PROVE  /\ runs'[s].st \in {"pending", "reading", "failed"} => runs'[s].jobs = <<>>
               /\ runs'[s].st \in {"loading", "aborted"} <=> Live(s)' # {}
               /\ \A k \in Live(s)' : runs'[s].jobs[k] = Pending(runs'[s].jobs[k].rows)
    <3>1. CASE s = r
      BY <1>13, <1>15, <3>1 DEF InputIInv, JobsFollowOrder
    <3>2. CASE s # r
      BY <1>16, <3>2 DEF InputIInv, JobsFollowOrder
    <3>. QED BY <3>1, <3>2
  <2>. QED BY <1>13, <2>1 DEF JobsFollowOrder
<1>18. RetriedHaveEnded'
  <2>1. \A s \in DOMAIN runs : (Retried(s)' => Retried(s)) /\ Live(s)' = Live(s)
    BY <1>13, <1>15, <1>16 DEF Retried
  <2>. QED BY <1>1, <1>13, <2>1 DEF RetriedHaveEnded, InputIInv
<1>. QED BY <1>11, <1>12, <1>17, <1>18 DEF InputIInv

\* A job without results that did not move has its partition back.
LEMMA UnmovedHolds ==
    ASSUME InputIInv, NEW r \in DOMAIN runs, NEW seen \in SUBSET Live(r), ~Moved(r, seen), TrackBIndexes(r, seen) # {}
    PROVE  RowsOf(runs[r].jobs) = PartitionFiles(SourceNow, size)
<1>1. runs[r].of = 0 /\ runs[r].src = SourceNow /\ runs[r].cap = size
  BY DEF Moved
<1>2. r = 1
  BY <1>1 DEF InputIInv, RunsFollowOrder
<1>3. runs[r].jobs # <<>>
  BY EmptySeq DEF TrackBIndexes, Live
<1>. QED BY <1>1, <1>2, <1>3 DEF InputIInv, FirstRunIsSource

\* The partitions of a retry are partitions, none empty or too large.
LEMMA RetryPartitions ==
    ASSUME InputIInv, NEW r \in DOMAIN runs, NEW seen, size # NoSize
    PROVE  LET parts == TrackA(r) \o TrackB(r, seen) IN
           /\ size \in Nat \ {0} /\ dir \in Dirs
           /\ parts \in Seq(Seq(Nat)) /\ \A i \in DOMAIN parts : Len(parts[i]) \in 1..size
<1> DEFINE a == TrackA(r)
           b == TrackB(r, seen)
           parts == a \o b
<1>1. size \in Nat \ {0} /\ dir \in Dirs /\ runs[r].jobs \in Seq(JobRecord)
  BY SizesAreNumbers, RunsAreRecords DEF InputIInv, InputTypeOK, NoSize
<1>2. /\ a \in Seq(Seq(Nat)) /\ b \in Seq(Seq(Nat))
      /\ \A i \in DOMAIN a : Len(a[i]) \in 1..size
      /\ \A i \in DOMAIN b : Len(b[i]) \in 1..size
  BY <1>1, TrackAHolds, TrackBHolds
<1> HIDE DEF a, b
<1>3. parts \in Seq(Seq(Nat)) /\ \A v : v \in Range(parts) <=> v \in Range(a) \/ v \in Range(b)
  BY <1>2, ConcatProperties, RangeConcatenation
<1> HIDE DEF parts
<1>4. ASSUME NEW i \in DOMAIN parts PROVE Len(parts[i]) \in 1..size
  <2>1. parts[i] \in Range(parts)
    BY DEF Range
  <2>2. (\E k \in DOMAIN a : parts[i] = a[k]) \/ (\E k \in DOMAIN b : parts[i] = b[k])
    BY <1>3, <2>1 DEF Range
  <2>. QED BY <1>2, <2>2
<1>. QED BY <1>1, <1>3, <1>4 DEF parts, a, b

\* The rows of a retry are rows of the run; when all the results were kept they are those
\* that were not loaded, of every job that can be retried.
LEMMA RetryRows ==
    ASSUME InputIInv, NEW r \in DOMAIN runs, NEW seen \in SUBSET Live(r), size # NoSize, ~Moved(r, seen)
    PROVE  LET jobs == runs[r].jobs
               sent == Range(FlattenSeq(TrackA(r) \o TrackB(r, seen)))
           IN  /\ sent \subseteq Range(Rows(jobs))
               /\ upsets = {} => \A v \in sent : NotLoaded(r, v)
               /\ upsets = {} => IsInjective(FlattenSeq(TrackA(r) \o TrackB(r, seen)))
               /\ "lost" \notin upsets =>
                     \A i \in DOMAIN jobs : \A p \in Positions(jobs[i]) \ jobs[i].ok :
                        Retryable(jobs[i]) => jobs[i].rows[p] \in sent
<1> DEFINE jobs == runs[r].jobs
           parts == TrackA(r) \o TrackB(r, seen)
           sent == Range(FlattenSeq(parts))
           at == TrackBIndexes(r, seen)
<1>1. size \in Nat \ {0} /\ dir \in Dirs /\ jobs \in Seq(JobRecord)
  BY RetryPartitions, RunsAreRecords DEF InputIInv
<1>0. seen \subseteq DOMAIN jobs /\ \A i \in seen : jobs[i].files = {}
  <2>1. \A i \in Live(r) : i \in DOMAIN jobs /\ jobs[i].files = {}
    BY LiveJob
  <2>. QED BY <2>1
<1>2. at # {} => RowsOf(jobs) = PartitionFiles(SourceNow, size)
  BY UnmovedHolds
<1>3. /\ \A v : v \in sent
            <=> \/ \E i \in DOMAIN jobs : \E p \in Reported(jobs[i]) : jobs[i].rows[p] = v
                \/ \E i \in at : v \in Range(jobs[i].rows)
      /\ Apart(RowsOf(jobs)) => IsInjective(FlattenSeq(parts))
  BY <1>0, <1>1, <1>2, RetryCarries
<1>4. at \subseteq DOMAIN jobs /\ \A i \in at : jobs[i].files = {}
  BY <1>0 DEF TrackBIndexes
<1>5. \A i \in DOMAIN jobs : Reported(jobs[i]) \subseteq Positions(jobs[i]) \ jobs[i].ok
  BY DEF Reported, Left, InputIInv, InputTypeOK
<1>6. \A v : v \in Range(Rows(jobs)) <=> \E i \in DOMAIN jobs : \E p \in Positions(jobs[i]) : jobs[i].rows[p] = v
  BY <1>1, RowsHold
<1>7. \A i \in DOMAIN jobs : \A v : v \in Range(jobs[i].rows) <=> \E p \in Positions(jobs[i]) : jobs[i].rows[p] = v
  BY DEF Range, Positions
<1> HIDE DEF sent, at
<1>8. sent \subseteq Range(Rows(jobs))
  <2> SUFFICES ASSUME NEW v \in sent PROVE v \in Range(Rows(jobs))
    OBVIOUS
  <2>1. CASE \E i \in DOMAIN jobs : \E p \in Reported(jobs[i]) : jobs[i].rows[p] = v
    BY <1>5, <1>6, <2>1
  <2>2. CASE \E i \in at : v \in Range(jobs[i].rows)
    <3>1. PICK i \in at : v \in Range(jobs[i].rows)
      BY <2>2
    <3>2. i \in DOMAIN jobs /\ \E p \in Positions(jobs[i]) : jobs[i].rows[p] = v
      BY <1>4, <1>7, <3>1
    <3>. QED BY <1>6, <3>2
  <2>. QED BY <1>3, <2>1, <2>2
<1>9. ASSUME upsets = {}
      PROVE  (\A v \in sent : NotLoaded(r, v)) /\ IsInjective(FlattenSeq(parts))
  <2>1. \A i \in at : jobs[i].ok = {}
    BY <1>4, <1>9 DEF InputIInv, ResultsAreKept
  <2>2. ASSUME NEW v \in sent PROVE NotLoaded(r, v)
    <3>1. \E i \in DOMAIN jobs : \E p \in Positions(jobs[i]) \ jobs[i].ok : jobs[i].rows[p] = v
      <4>1. CASE \E i \in DOMAIN jobs : \E p \in Reported(jobs[i]) : jobs[i].rows[p] = v
        BY <1>5, <4>1
      <4>2. CASE \E i \in at : v \in Range(jobs[i].rows)
        BY <1>4, <1>7, <2>1, <4>2
      <4>. QED BY <1>3, <4>1, <4>2
    <3>. QED BY <3>1 DEF NotLoaded
  <2>3. Apart(RowsOf(jobs))
    BY <1>1, <1>9, RowsHold DEF InputIInv, RowsDescend
  <2>. QED BY <1>3, <2>2, <2>3
<1>10. ASSUME "lost" \notin upsets, NEW i \in DOMAIN jobs, NEW p \in Positions(jobs[i]) \ jobs[i].ok, Retryable(jobs[i])
       PROVE  jobs[i].rows[p] \in sent
  <2>1. jobs[i].gone = {} /\ jobs[i].files \in {{}, ResultFiles}
    BY <1>10 DEF InputIInv, ResultsAreKept
  <2>2. CASE jobs[i].files = {}
    <3>1. i \in at
      BY <1>10, <2>2 DEF at, TrackBIndexes
    <3>. QED BY <1>3, <1>7, <3>1
  <2>3. CASE jobs[i].files = ResultFiles
    <3>1. p \in Reported(jobs[i])
      BY <2>1, <2>3 DEF Reported, Left, ResultFiles
    <3>. QED BY <1>3, <3>1
  <2>. QED BY <2>1, <2>2, <2>3
<1>. QED BY <1>8, <1>9, <1>10 DEF sent

\* A retry is a new run, the last, with the rows that were not loaded.
LEMMA NewRetryKeeps ==
    ASSUME InputIInv, NEW r \in DOMAIN runs, RetryStep(r)
    PROVE  InputIInv'
<1>0. PICK seen \in SUBSET Live(r) :
        /\ TrackBIndexes(r, seen) # {} => ~chained /\ source # "missing"
        /\ LET parts == TrackA(r) \o TrackB(r, seen) IN
              /\ parts # <<>>
              /\ runs' = Append(runs, NewRun(r, "loading", size, PendingJobs(parts)))
        /\ Upset((IF Retried(r) THEN {"doubled"} ELSE {}) \cup (IF Moved(r, seen) THEN {"moved"} ELSE {})
                 \cup (IF Live(r) # {} THEN {"early"} ELSE {}))
  BY DEF RetryStep
<1> DEFINE n == Len(runs)
           parts == TrackA(r) \o TrackB(r, seen)
           jobs == PendingJobs(parts)
           x == NewRun(r, "loading", size, jobs)
           what == (IF Retried(r) THEN {"doubled"} ELSE {}) \cup (IF Moved(r, seen) THEN {"moved"} ELSE {})
                   \cup (IF Live(r) # {} THEN {"early"} ELSE {})
<1>1. /\ Terminal(r) /\ Budget < MaxEvents /\ size # NoSize /\ UNCHANGED settings
      /\ TrackBIndexes(r, seen) # {} => ~chained
      /\ parts # <<>> /\ runs' = Append(runs, x) /\ upsets' = upsets \cup what
  BY <1>0 DEF RetryStep, Upset
<1>2. /\ size \in Nat \ {0} /\ parts \in Seq(Seq(Nat))
      /\ \A i \in DOMAIN parts : Len(parts[i]) \in 1..size
  BY <1>1, RetryPartitions
<1>3. /\ n \in Nat /\ DOMAIN runs = 1..n /\ runs \in Seq(RunRecord) /\ r \in 1..n /\ n + 1 # 1
      /\ \A s \in 1..n : runs[s].jobs \in Seq(JobRecord)
  BY RunsAreRecords DEF InputIInv, RecordsOK
<1>4. /\ "doubled" \notin upsets' => ~Retried(r)
      /\ "moved" \notin upsets' => ~Moved(r, seen)
      /\ "early" \notin upsets' => Live(r) = {}
      /\ chained => ~Moved(r, seen)
      /\ upsets \subseteq upsets' /\ upsets' \subseteq {"unknown", "lost", "stuck", "doubled", "moved", "early"}
      /\ upsets' \cap {"unknown", "lost", "stuck"} = upsets \cap {"unknown", "lost", "stuck"}
  BY <1>1 DEF InputIInv, InputTypeOK, Moved
<1> HIDE DEF parts, what
<1>5. /\ jobs \in Seq(JobRecord) /\ DOMAIN jobs = DOMAIN parts /\ Len(jobs) = Len(parts)
      /\ \A i \in DOMAIN jobs : /\ jobs[i] = Pending(parts[i]) /\ jobs[i] = Pending(jobs[i].rows)
                                /\ jobs[i].rows = parts[i]
      /\ RowsOf(jobs) = parts /\ jobs # <<>>
  BY <1>1, <1>2, PendingJobsHold
<1> HIDE DEF jobs
<1>6. \A i \in DOMAIN jobs : /\ jobs[i].status = "pending" /\ jobs[i].ok = {} /\ jobs[i].bad = {}
                             /\ jobs[i].files = {} /\ jobs[i].gone = {}
  <2>1. \A s : /\ Pending(s).status = "pending" /\ Pending(s).ok = {} /\ Pending(s).bad = {}
               /\ Pending(s).files = {} /\ Pending(s).gone = {}
    BY DEF Pending
  <2>. QED BY <1>5, <2>1
<1>7. /\ Rows(jobs) = FlattenSeq(parts)
      /\ \A v : v \in Range(Rows(jobs)) <=> \E i \in DOMAIN jobs : \E p \in Positions(jobs[i]) : jobs[i].rows[p] = v
  BY <1>5, RowsHold DEF Rows
<1>8. /\ x \in RunRecord /\ x.of = r /\ x.st = "loading" /\ x.paths = <<>> /\ x.src = <<>>
      /\ x.cap = size /\ x.jobs = jobs
  BY <1>2, <1>3, <1>5 DEF NewRun, RunRecord, RunStates
<1> HIDE DEF x
<1>9. /\ runs' \in Seq(RunRecord) /\ Len(runs') = n + 1 /\ DOMAIN runs' = 1..(n + 1)
      /\ runs'[n + 1] = x /\ \A s \in 1..n : runs'[s] = runs[s]
  BY <1>1, <1>3, <1>8
<1>10. \A s \in DOMAIN runs' : s \in 1..n \/ s = n + 1
  BY <1>3, <1>9
<1> HIDE DEF n
<1>11. RecordsOK'
  <2> DEFINE c == Cardinality(upsets \cap {"unknown", "lost", "stuck"})
  <2>1. c \in Nat /\ changes \in Nat /\ MaxEvents \in Nat /\ changes' = changes
    BY <1>1, UpsetsAreCounted, SizesAreNumbers DEF InputIInv, RecordsOK, settings
  <2>2. Budget = n + c + changes /\ Budget' = (n + 1) + c + changes
    BY <1>4, <1>9, <2>1 DEF Budget, n
  <2> HIDE DEF c
  <2>3. Budget' <= MaxEvents
    BY <1>1, <1>3, <2>1, <2>2
  <2>. QED BY <1>9, <2>1, <2>3 DEF RecordsOK, RunRecord, RunStates, JobRecord
<1>12. InputTypeOK'
  <2>1. Len(runs') \in 1..MaxEvents
    <3>1. Cardinality(upsets' \cap {"unknown", "lost", "stuck"}) \in Nat /\ changes' \in Nat
      BY <1>4, <1>11, UpsetsAreCounted DEF RecordsOK
    <3>2. (n + 1) + Cardinality(upsets' \cap {"unknown", "lost", "stuck"}) + changes' <= MaxEvents
      BY <1>9, <1>11 DEF RecordsOK, Budget
    <3>. QED BY <1>3, <1>9, <3>1, <3>2, SizesAreNumbers
  <2>2. \A s \in DOMAIN runs' : runs'[s].of \in 0..(s - 1) /\ runs'[s].st \in RunStates
    BY <1>3, <1>8, <1>9, <1>10 DEF InputIInv, InputTypeOK, RunStates
  <2>3. ASSUME NEW s \in DOMAIN runs', NEW k \in DOMAIN runs'[s].jobs
        PROVE  LET a == runs'[s].jobs[k] IN
                /\ a.status \in {"pending", "job_complete", "failed", "stuck"}
                /\ a.ok \subseteq Positions(a) /\ a.bad \subseteq Positions(a) \ a.ok
                /\ a.gone \subseteq a.files /\ a.files \subseteq ResultFiles
    <3>1. CASE s \in 1..n
      BY <1>3, <1>9, <3>1 DEF InputIInv, InputTypeOK
    <3>2. CASE s = n + 1
      <4>1. runs'[s].jobs = jobs
        BY <1>8, <1>9, <3>2
      <4>. QED BY <1>6, <4>1
    <3>. QED BY <1>10, <3>1, <3>2
  <2>4. /\ mode' = mode /\ source' = source /\ dir' = dir /\ size' = size /\ chained' = chained
        /\ export' = export /\ output' = output
    BY <1>1 DEF settings
  <2>. QED BY <1>4, <2>1, <2>2, <2>3, <2>4 DEF InputIInv, InputTypeOK, RunStates, Positions
<1>13. RunsFollowOrder'
  <2>1. Len(runs') > 0 /\ runs'[1].of = 0 /\ IsInjective(runs'[1].paths)
    BY <1>3, <1>9 DEF InputIInv, RunsFollowOrder
  <2>2. ASSUME NEW s \in DOMAIN runs' \ {1}
        PROVE  /\ runs'[s].of \in 1..(s - 1) /\ runs'[runs'[s].of].st \in {"aborted", "done", "failed"}
               /\ runs'[s].st \in {"loading", "aborted", "done"} /\ runs'[s].src = <<>>
    <3>1. CASE s \in 1..n
      <4>1. /\ runs[s].of \in 1..(s - 1) /\ runs[runs[s].of].st \in {"aborted", "done", "failed"}
            /\ runs[s].st \in {"loading", "aborted", "done"} /\ runs[s].src = <<>>
        BY <1>3, <3>1 DEF InputIInv, RunsFollowOrder, Terminal
      <4>2. runs[s].of \in 1..n
        BY <1>3, <3>1, <4>1
      <4>. QED BY <1>9, <3>1, <4>1, <4>2
    <3>2. CASE s = n + 1
      BY <1>1, <1>3, <1>8, <1>9, <3>2 DEF Terminal
    <3>. QED BY <1>10, <3>1, <3>2
  <2>. QED BY <2>1, <2>2 DEF RunsFollowOrder, Terminal
<1>14. JobsFollowOrder'
  <2>1. \A s \in 1..n : /\ runs'[s] = runs[s] /\ s \in DOMAIN runs
    BY <1>3, <1>9
  <2>2. runs'[n + 1].st = "loading" /\ runs'[n + 1].jobs = jobs
    BY <1>8, <1>9
  <2>3. DOMAIN jobs # {}
    BY <1>5, EmptySeq
  <2>5. ASSUME NEW s \in DOMAIN runs'
        PROVE  /\ runs'[s].st \in {"pending", "reading", "failed"} => runs'[s].jobs = <<>>
               /\ runs'[s].st \in {"loading", "aborted"} <=> Live(s)' # {}
               /\ \A i \in Live(s)' : runs'[s].jobs[i] = Pending(runs'[s].jobs[i].rows)
    <3>1. CASE s \in 1..n
      <4>1. Live(s)' = Live(s)
        BY <2>1, <3>1 DEF Live
      <4>. QED BY <2>1, <3>1, <4>1 DEF InputIInv, JobsFollowOrder
    <3>2. CASE s = n + 1
      <4>1. runs'[s].st = "loading" /\ runs'[s].jobs = jobs
        BY <2>2, <3>2
      <4>2. Live(s)' = DOMAIN jobs
        BY <1>6, <4>1 DEF Live
      <4>. QED BY <1>5, <2>3, <4>1, <4>2
    <3>. QED BY <1>10, <3>1, <3>2
  <2>. QED BY <2>5 DEF JobsFollowOrder
<1>15. RetryHasWork'
  <2>1. ASSUME NEW s \in DOMAIN runs', runs'[s].of # 0
        PROVE  /\ runs'[s].jobs # <<>>
               /\ \A i \in DOMAIN runs'[s].jobs : Len(runs'[s].jobs[i].rows) \in 1..runs'[s].cap
    <3>1. CASE s \in 1..n
      BY <1>3, <1>9, <2>1, <3>1 DEF InputIInv, RetryHasWork
    <3>2. CASE s = n + 1
      <4>1. runs'[s].jobs = jobs /\ runs'[s].cap = size
        BY <1>8, <1>9, <3>2
      <4>2. \A i \in DOMAIN jobs : Len(jobs[i].rows) \in 1..size
        BY <1>2, <1>5
      <4>. QED BY <1>5, <4>1, <4>2
    <3>. QED BY <1>10, <3>1, <3>2
  <2>. QED BY <2>1 DEF RetryHasWork
<1>16. ChainedReadsOwnExport'
  <2>1. chained' = chained /\ export' = export
    BY <1>1 DEF settings
  <2>2. SUFFICES ASSUME chained, NEW s \in DOMAIN runs'
                 PROVE  Range(Rows(runs'[s].jobs)) \subseteq Range(export[1].rows)
    BY <2>1 DEF ChainedReadsOwnExport
  <2>3. CASE s \in 1..n
    BY <1>3, <1>9, <2>2, <2>3 DEF InputIInv, ChainedReadsOwnExport
  <2>4. CASE s = n + 1
    <3>1. Range(Rows(jobs)) \subseteq Range(Rows(runs[r].jobs))
      BY <1>1, <1>4, <1>7, <2>2, RetryRows DEF parts
    <3>2. Range(Rows(runs[r].jobs)) \subseteq Range(export[1].rows)
      BY <2>2 DEF InputIInv, ChainedReadsOwnExport
    <3>. QED BY <1>8, <1>9, <2>4, <3>1, <3>2
  <2>. QED BY <1>10, <2>3, <2>4
<1>17. FirstRunIsSource'
  <2>1. runs'[1] = runs[1]
    BY <1>3, <1>9
  <2>2. chained' = chained /\ export' = export
    BY <1>1 DEF settings
  <2>. QED BY <2>1, <2>2 DEF InputIInv, FirstRunIsSource
<1>18. ResultsAreKept'
  <2>1. ASSUME NEW s \in DOMAIN runs', NEW k \in DOMAIN runs'[s].jobs
        PROVE  LET j == runs'[s].jobs[k] IN
               /\ "lost" \notin upsets' =>
                     /\ j.gone = {} /\ j.files \in {{}, ResultFiles}
                     /\ j.files = {} => j.status # "job_complete"
               /\ "stuck" \notin upsets' => j.status # "stuck"
               /\ (upsets' \cap {"lost", "unknown", "stuck"} = {} /\ j.files = {}) => j.ok = {}
    <3>1. CASE s \in 1..n
      <4>1. runs'[s].jobs[k] = runs[s].jobs[k] /\ s \in DOMAIN runs /\ k \in DOMAIN runs[s].jobs
        BY <1>3, <1>9, <3>1
      <4>2. /\ "lost" \notin upsets' => "lost" \notin upsets
            /\ "stuck" \notin upsets' => "stuck" \notin upsets
            /\ upsets' \cap {"lost", "unknown", "stuck"} = {} => upsets \cap {"lost", "unknown", "stuck"} = {}
        BY <1>4
      <4>. QED BY <4>1, <4>2 DEF InputIInv, ResultsAreKept
    <3>2. CASE s = n + 1
      <4>1. runs'[s].jobs = jobs
        BY <1>8, <1>9, <3>2
      <4>. QED BY <1>6, <4>1
    <3>. QED BY <1>10, <3>1, <3>2
  <2>. QED BY <2>1 DEF ResultsAreKept, ResultFiles
<1>19. "doubled" \notin upsets' => r = n
  <2> SUFFICES ASSUME "doubled" \notin upsets', r # n PROVE FALSE
    OBVIOUS
  <2>1. "doubled" \notin upsets /\ ~Retried(r)
    BY <1>4
  <2>2. r + 1 \in DOMAIN runs /\ (r + 1) - 1 = r
    BY <1>3
  <2>3. runs[r + 1].of = r
    BY <2>1, <2>2 DEF InputIInv, RetriesAreSingle
  <2>. QED BY <2>1, <2>2, <2>3 DEF Retried
<1>20. RetriesAreSingle'
  <2>1. SUFFICES ASSUME "doubled" \notin upsets', NEW s \in DOMAIN runs'
                 PROVE  runs'[s].of = s - 1
    BY DEF RetriesAreSingle
  <2>2. CASE s \in 1..n
    BY <1>3, <1>4, <1>9, <2>1, <2>2 DEF InputIInv, RetriesAreSingle
  <2>3. CASE s = n + 1
    BY <1>3, <1>8, <1>9, <1>19, <2>1, <2>3
  <2>. QED BY <1>10, <2>2, <2>3
<1>24. RetriedHaveEnded'
  <2>1. SUFFICES ASSUME "early" \notin upsets', NEW s \in DOMAIN runs', Retried(s)'
                 PROVE  Live(s)' = {}
    BY DEF RetriedHaveEnded
  <2>2. PICK k \in DOMAIN runs' : runs'[k].of = s
    BY <2>1 DEF Retried
  <2>3. "early" \notin upsets /\ Live(r) = {}
    BY <1>4, <2>1
  <2>4. s \in 1..n
    <3>1. runs'[k].of \in 0..(k - 1) /\ k \in 1..(n + 1)
      BY <1>9, <1>12, <2>2 DEF InputTypeOK
    <3>. QED BY <1>3, <1>9, <2>2, <3>1
  <2>5. Live(s)' = Live(s) /\ s \in DOMAIN runs
    BY <1>3, <1>9, <2>4 DEF Live
  <2>6. CASE k = n + 1
    BY <1>8, <1>9, <2>2, <2>3, <2>5, <2>6
  <2>7. CASE k \in 1..n
    <3>1. Retried(s)
      BY <1>3, <1>9, <2>2, <2>7 DEF Retried
    <3>. QED BY <2>3, <2>5, <3>1 DEF InputIInv, RetriedHaveEnded
  <2>. QED BY <1>10, <2>2, <2>6, <2>7
<1>21. \A q \in 1..n : \A row : NotLoaded(q, row) => NotLoaded(q, row)'
  BY <1>9 DEF NotLoaded, Positions
<1>22. RowsDescend'
  <2>1. SUFFICES ASSUME upsets' = {}, NEW s \in DOMAIN runs'
                 PROVE  /\ IsInjective(Rows(runs'[s].jobs))
                        /\ \A row \in Range(Rows(runs'[s].jobs)) : \A q \in 1..(s - 1) : NotLoaded(q, row)'
    BY DEF RowsDescend
  <2>2. upsets = {} /\ ~Moved(r, seen) /\ r = n
    BY <1>4, <1>19, <2>1
  <2>3. CASE s \in 1..n
    <3>1. runs'[s].jobs = runs[s].jobs /\ s \in DOMAIN runs
      BY <1>3, <1>9, <2>3
    <3>2. \A q \in 1..(s - 1) : q \in 1..n
      BY <1>3, <2>3
    <3>. QED BY <1>21, <2>2, <3>1, <3>2 DEF InputIInv, RowsDescend
  <2>4. CASE s = n + 1
    <3>1. runs'[s].jobs = jobs
      BY <1>8, <1>9, <2>4
    <3>2. /\ Range(Rows(jobs)) \subseteq Range(Rows(runs[r].jobs))
          /\ \A v \in Range(Rows(jobs)) : NotLoaded(r, v)
          /\ IsInjective(Rows(jobs))
      BY <1>1, <1>7, <2>2, RetryRows DEF parts
    <3>3. ASSUME NEW row \in Range(Rows(jobs)), NEW q \in 1..(s - 1)
          PROVE  NotLoaded(q, row)'
      <4>1. q \in 1..n /\ (q = r \/ q \in 1..(r - 1))
        BY <1>3, <2>2, <2>4
      <4>2. CASE q = r
        BY <1>21, <3>2, <4>1, <4>2
      <4>3. CASE q \in 1..(r - 1)
        <5>1. NotLoaded(q, row)
          BY <2>2, <3>2, <4>3 DEF InputIInv, RowsDescend
        <5>. QED BY <1>21, <4>1, <5>1
      <4>. QED BY <4>1, <4>2, <4>3
    <3>. QED BY <3>1, <3>2, <3>3
  <2>. QED BY <1>10, <2>3, <2>4
<1>23. RowsGoOn'
  <2>1. SUFFICES ASSUME upsets' \cap {"lost", "moved", "stuck", "early"} = {}, NEW s \in DOMAIN runs',
                        NEW row \in Range(Rows(runs'[s].jobs))
                 PROVE  Loads(row)' # {} \/ Carried(row)'
    BY DEF RowsGoOn
  <2>2. /\ upsets \cap {"lost", "moved", "stuck", "early"} = {} /\ "lost" \notin upsets
        /\ ~Moved(r, seen) /\ Live(r) = {}
    BY <1>4, <2>1
  <2>3. ASSUME row \in Range(Rows(jobs))
        PROVE  Carried(row)'
    <3>1. PICK i \in DOMAIN jobs : \E p \in Positions(jobs[i]) : jobs[i].rows[p] = row
      BY <1>7, <2>3
    <3>2. \E p \in Positions(jobs[i]) \ jobs[i].ok : jobs[i].rows[p] = row
      BY <1>6, <3>1
    <3>3. jobs[i].status = "pending" /\ runs'[n + 1].jobs = jobs /\ n + 1 \in DOMAIN runs'
      BY <1>3, <1>6, <1>8, <1>9
    <3>4. /\ runs'[n + 1].jobs[i].status = "pending"
          /\ \E p \in Positions(runs'[n + 1].jobs[i]) \ runs'[n + 1].jobs[i].ok : runs'[n + 1].jobs[i].rows[p] = row
      BY <3>2, <3>3
    <3>5. i \in DOMAIN runs'[n + 1].jobs
      BY <3>1, <3>3
    <3>. QED BY <3>3, <3>4, <3>5 DEF Carried, Positions
  <2>4. CASE s = n + 1
    BY <1>8, <1>9, <2>1, <2>3, <2>4
  <2>5. CASE s \in 1..n
    <3>1. Loads(row) # {} \/ Carried(row)
      BY <1>3, <1>9, <2>1, <2>2, <2>5 DEF InputIInv, RowsGoOn
    <3>2. CASE Loads(row) # {}
      <4>1. PICK t, k, p : LoadedAt(runs, row, t, k, p)
        BY <3>2, LoadsAre, LoadsHold
      <4>2. LoadedAt(runs', row, t, k, p)
        <5>1. t \in 1..n
          BY <1>3, <4>1 DEF LoadedAt
        <5>2. runs'[t] = runs[t] /\ t \in DOMAIN runs'
          BY <1>3, <1>9, <5>1
        <5>. QED BY <4>1, <5>2 DEF LoadedAt
      <4>. QED BY <4>2, LoadsAre, LoadsHold
    <3>3. CASE Carried(row)
      <4>1. PICK t \in DOMAIN runs : \E k \in DOMAIN runs[t].jobs :
               LET j == runs[t].jobs[k] IN
               /\ j.status = "pending" \/ (Retryable(j) /\ ~Retried(t))
               /\ \E p \in Positions(j) \ j.ok : j.rows[p] = row
        BY <3>3 DEF Carried
      <4>2. PICK k \in DOMAIN runs[t].jobs :
               LET j == runs[t].jobs[k] IN
               /\ j.status = "pending" \/ (Retryable(j) /\ ~Retried(t))
               /\ \E p \in Positions(j) \ j.ok : j.rows[p] = row
        BY <4>1
      <4>3. t \in 1..n /\ runs'[t] = runs[t] /\ t \in DOMAIN runs'
        BY <1>3, <1>9
      <4>4. CASE t # r
        <5>1. ~Retried(t) => ~Retried(t)'
          BY <1>3, <1>8, <1>9, <1>10, <4>4 DEF Retried
        <5>2. LET j == runs'[t].jobs[k] IN
               /\ j.status = "pending" \/ (Retryable(j) /\ ~Retried(t)')
               /\ \E p \in Positions(j) \ j.ok : j.rows[p] = row
          BY <4>2, <4>3, <5>1
        <5>3. k \in DOMAIN runs'[t].jobs
          BY <4>3
        <5>4. Carried(row)'
          BY <4>3, <5>2, <5>3 DEF Carried, Positions, Retryable
        <5>. QED BY <5>4
      <4>5. CASE t = r
        <5>1. runs[r].jobs[k].status # "pending" /\ k \in DOMAIN runs[r].jobs
          BY <2>2, <4>5 DEF Live
        <5>2. PICK p \in Positions(runs[r].jobs[k]) \ runs[r].jobs[k].ok : runs[r].jobs[k].rows[p] = row
          BY <4>2, <4>5
        <5>3. Retryable(runs[r].jobs[k])
          BY <4>2, <4>5, <5>1
        <5>4. runs[r].jobs[k].rows[p] \in Range(FlattenSeq(parts))
          BY <1>1, <2>2, <5>1, <5>3, RetryRows DEF parts
        <5>. QED BY <1>7, <2>3, <5>2, <5>4
      <4>. QED BY <4>4, <4>5
    <3>. QED BY <3>1, <3>2, <3>3
  <2>. QED BY <1>10, <2>4, <2>5
<1>. QED BY <1>11, <1>12, <1>13, <1>14, <1>15, <1>16, <1>17, <1>18, <1>20, <1>22, <1>23, <1>24 DEF InputIInv

\* Every step keeps the invariant.
LEMMA InputNextKeeps ==
    ASSUME InputIInv, [InputNext]_inputVars
    PROVE  InputIInv'
<1>1. CASE UNCHANGED inputVars
  BY <1>1, StutterKeeps
<1>2. CASE EditFiles \/ Resize \/ DeleteConnection
  BY <1>2, ChangesKeep
<1>3. ASSUME NEW r \in DOMAIN runs,
             \/ Discover(r) \/ ReadPartitions(r)
             \/ AbortRun(r) \/ JobNeverRan(r) \/ JobOutcomeUnknown(r) \/ JobStuck(r) \/ JobEnds(r)
             \/ RetryStep(r) \/ LoseResultFile(r)
      PROVE  InputIInv'
  BY <1>3, DiscoverKeeps, ReadPartitionsKeeps, AbortRunKeeps, JobNeverRanKeeps, JobOutcomeUnknownKeeps,
     JobStuckKeeps, JobEndsKeeps, NewRetryKeeps, LoseResultFileKeeps
<1>. QED BY <1>1, <1>2, <1>3 DEF InputNext

\* The partitions of the full run cover its source.
LEMMA PartitionsCover == InputIInv => PartitionsCoverSource
<1> SUFFICES ASSUME InputIInv, NEW r \in DOMAIN runs, runs[r].of = 0, runs[r].jobs # <<>>
             PROVE  LET src == runs[r].src  jobs == runs[r].jobs  cap == runs[r].cap IN
                    /\ Rows(jobs) = FlattenSeq(src)
                    /\ \A i \in DOMAIN jobs :
                          /\ Len(jobs[i].rows) \in 1..cap
                          /\ \E f \in DOMAIN src :
                                /\ Range(jobs[i].rows) \subseteq Range(src[f])
                                /\ Len(jobs[i].rows) = cap \/ Last(jobs[i].rows) = Last(src[f])
  BY DEF PartitionsCoverSource
<1> DEFINE src == runs[r].src
           jobs == runs[r].jobs
           cap == runs[r].cap
           parts == PartitionFiles(src, cap)
<1>1. r = 1
  BY DEF InputIInv, RunsFollowOrder
<1>2. src \in Seq(Seq(Nat)) /\ cap \in Nat \ {0} /\ RowsOf(jobs) = parts /\ jobs \in Seq(JobRecord)
  <2>1. cap > 0 /\ RowsOf(jobs) = parts
    BY <1>1 DEF InputIInv, FirstRunIsSource
  <2>2. src \in Seq(Seq(Nat)) /\ cap \in Nat /\ jobs \in Seq(JobRecord)
    BY RunsAreRecords DEF InputIInv, RunRecord
  <2>. QED BY <2>1, <2>2
<1>3. DOMAIN parts = DOMAIN jobs /\ \A i \in DOMAIN jobs : parts[i] = jobs[i].rows
  BY <1>2, JobsAreRows
<1> HIDE DEF src, cap, jobs
<1>4. /\ FlattenSeq(parts) = FlattenSeq(src)
      /\ \A i \in DOMAIN parts : \E f \in DOMAIN src : PartOf(parts[i], src[f], cap)
  BY <1>2, PartitionFilesHolds
<1>5. Rows(jobs) = FlattenSeq(src)
  BY <1>2, <1>4 DEF Rows
<1>6. \A i \in DOMAIN jobs : \E f \in DOMAIN src : PartOf(jobs[i].rows, src[f], cap)
  BY <1>3, <1>4
<1> HIDE DEF parts
<1>. QED BY <1>5, <1>6 DEF PartOf, src, cap, jobs

\* Two places where a row was loaded are one.
LEMMA LoadedInOnePlace ==
    ASSUME InputIInv, upsets = {}, NEW row, NEW r, NEW i, NEW p, NEW s, NEW k, NEW q,
           LoadedAt(runs, row, r, i, p), LoadedAt(runs, row, s, k, q)
    PROVE  r = s /\ i = k /\ p = q
<1>1. ASSUME NEW a \in DOMAIN runs, NEW b, NEW c, NEW d, NEW e,
             b \in DOMAIN runs[a].jobs, c \in Positions(runs[a].jobs[b]), runs[a].jobs[b].rows[c] = row,
             d \in DOMAIN runs[a].jobs, e \in Positions(runs[a].jobs[d]), runs[a].jobs[d].rows[e] = row
      PROVE  b = d /\ c = e
  <2>1. runs[a].jobs \in Seq(JobRecord)
    BY RunsAreRecords DEF InputIInv
  <2>2. Apart(RowsOf(runs[a].jobs))
    BY <2>1, RowsHold DEF InputIInv, RowsDescend
  <2> DEFINE ss == RowsOf(runs[a].jobs)
  <2>3. /\ b \in DOMAIN ss /\ c \in DOMAIN ss[b] /\ d \in DOMAIN ss /\ e \in DOMAIN ss[d]
        /\ ss[b][c] = ss[d][e]
    BY <1>1, <2>1, JobsAreRows DEF Positions
  <2> HIDE DEF ss
  <2>4. Apart(ss)
    BY <2>2 DEF ss
  <2>. QED BY <2>3, <2>4 DEF Apart
<1>2. \A a, b, c : LoadedAt(runs, row, a, b, c) =>
         /\ a \in DOMAIN runs /\ b \in DOMAIN runs[a].jobs /\ c \in Positions(runs[a].jobs[b])
         /\ c \in runs[a].jobs[b].ok /\ runs[a].jobs[b].rows[c] = row
  BY DEF LoadedAt, InputIInv, InputTypeOK
<1>3. ASSUME NEW a, NEW b, NEW c, NEW x, NEW y, NEW z,
             LoadedAt(runs, row, a, b, c), LoadedAt(runs, row, x, y, z)
      PROVE  ~(a < x)
  <2>1. SUFFICES ASSUME a < x PROVE FALSE
    OBVIOUS
  <2>2. a \in DOMAIN runs /\ x \in DOMAIN runs /\ a \in 1..(x - 1)
    <3>1. a \in DOMAIN runs /\ x \in DOMAIN runs
      BY <1>2, <1>3
    <3>. QED BY <2>1, <3>1, RunsAreRecords DEF InputIInv
  <2>3. row \in Range(Rows(runs[x].jobs))
    <3>1. runs[x].jobs \in Seq(JobRecord)
      BY <2>2, RunsAreRecords DEF InputIInv
    <3>2. y \in DOMAIN runs[x].jobs /\ z \in Positions(runs[x].jobs[y]) /\ runs[x].jobs[y].rows[z] = row
      BY <1>2, <1>3
    <3>. QED BY <3>1, <3>2, RowsHold
  <2>4. NotLoaded(a, row)
    BY <2>2, <2>3 DEF InputIInv, RowsDescend
  <2>5. PICK d \in DOMAIN runs[a].jobs :
           \E e \in Positions(runs[a].jobs[d]) \ runs[a].jobs[d].ok : runs[a].jobs[d].rows[e] = row
    BY <2>4 DEF NotLoaded
  <2>6. PICK e \in Positions(runs[a].jobs[d]) \ runs[a].jobs[d].ok : runs[a].jobs[d].rows[e] = row
    BY <2>5
  <2>7. b = d /\ c = e
    <3>1. b \in DOMAIN runs[a].jobs /\ c \in Positions(runs[a].jobs[b]) /\ runs[a].jobs[b].rows[c] = row
      BY <1>2, <1>3
    <3>2. e \in Positions(runs[a].jobs[d]) /\ runs[a].jobs[d].rows[e] = row
      BY <2>6
    <3>. QED BY <1>1, <2>2, <3>1, <3>2
  <2>. QED BY <1>2, <1>3, <2>6, <2>7
<1>4. r = s
  <2>1. r \in DOMAIN runs /\ s \in DOMAIN runs /\ ~(r < s) /\ ~(s < r)
    BY <1>2, <1>3
  <2>. QED BY <2>1, RunsAreRecords DEF InputIInv
<1>. QED BY <1>1, <1>2, <1>4

\* So a row is loaded in one place at most.
LEMMA RowsLoadOnce == InputIInv => NoRowTwice
<1> SUFFICES ASSUME InputIInv, upsets = {}, NEW row PROVE Cardinality(Loads(row)) <= 1
  BY DEF NoRowTwice
<1>1. \A x, y \in Loads(row) : x = y
  <2> TAKE x, y \in Loads(row)
  <2>1. PICK r, i, p : LoadedAt(runs, row, r, i, p) /\ x = <<r, i, p>>
    BY LoadsAre, LoadsHold
  <2>2. PICK s, k, q : LoadedAt(runs, row, s, k, q) /\ y = <<s, k, q>>
    BY LoadsAre, LoadsHold
  <2>. QED BY <2>1, <2>2, LoadedInOnePlace
<1>2. CASE Loads(row) = {}
  BY <1>2, FS_EmptySet
<1>3. CASE Loads(row) # {}
  <2>1. PICK x : x \in Loads(row)
    BY <1>3
  <2>2. Loads(row) = {x}
    BY <1>1, <2>1
  <2>. QED BY <2>2, FS_Singleton
<1>. QED BY <1>2, <1>3

\* And a row that was read is loaded or has a way.
LEMMA RowsStay == InputIInv => NoRowForgotten
<1> SUFFICES ASSUME InputIInv, upsets \cap {"lost", "moved", "stuck", "early"} = {}, NEW r \in DOMAIN runs,
                    NEW row \in RowsRead(r), runs[r].jobs # <<>>
             PROVE  Loads(row) # {} \/ Carried(row)
  BY DEF NoRowForgotten
<1>1. r = 1
  <2>1. SUFFICES ASSUME r # 1 PROVE FALSE
    OBVIOUS
  <2>2. runs[r].src = <<>>
    BY <2>1 DEF InputIInv, RunsFollowOrder
  <2>3. row \in Range(<<>>)
    BY <2>2, FlattenFew DEF RowsRead
  <2>. QED BY <2>3, EmptySeq DEF Range
<1>2. Rows(runs[r].jobs) = FlattenSeq(runs[r].src)
  BY <1>1, PartitionsCover DEF PartitionsCoverSource, InputIInv, RunsFollowOrder
<1>3. row \in Range(Rows(runs[r].jobs))
  BY <1>2 DEF RowsRead
<1>. QED BY <1>3 DEF InputIInv, RowsGoOn

\* For any files, pattern and sizes, the runs of a step, their jobs and their results keep together ...
THEOREM InputInvariance == InputSpec => []InputIInv
  BY InputInitIInv, InputNextKeeps, PTL DEF InputSpec

\* ... so the jobs of a full run carry its source, once and in order ...
THEOREM JobsCarry == InputSpec => []JobsCarrySource
<1>1. InputIInv => JobsCarrySource
  BY PartitionsCover DEF InputIInv, JobsCarrySource
<1>. QED BY <1>1, InputInvariance, PTL

\* ... no row is loaded twice ...
THEOREM RowsLoadedOnce == InputSpec => []NoRowTwice
  BY RowsLoadOnce, InputInvariance, PTL

\* ... and none is forgotten, through any number of retries.
THEOREM RowsKeepAWay == InputSpec => []NoRowForgotten
  BY RowsStay, InputInvariance, PTL
=============================================================================
