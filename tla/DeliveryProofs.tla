--------------------------- MODULE DeliveryProofs ---------------------------
(* The proofs about what reaches people outside: about EmailDelivery, for   *)
(* any number of requests and workers, any retry budget, backoff, lease and *)
(* staleness, and any crashes; and about NotificationDispatch, for any      *)
(* number of runs and subscriptions on either database, whatever raises, is *)
(* removed or crashes in between.                                           *)
EXTENDS EmailDelivery, NotificationDispatch, TLAPS

-----------------------------------------------------------------------------
(* EmailDelivery.                                                           *)

\* What an invariant of all rows has to show of a step that writes one row.
LEMMA BackoffIsBounded == \A k : BackoffSeconds(k) \subseteq 0..(Cap + Base)
  BY Zenon DEF BackoffSeconds

\* The constants every leaf about time needs.
LEMMA Times ==
    /\ MaxAttempts \in Nat /\ MaxAttempts > 0
    /\ Base \in Nat /\ Cap \in Nat /\ Lease \in Nat /\ Stale \in Nat /\ SendTime \in Nat
    /\ SendTime <= Lease + Stale
  BY AttemptsArePositive, TimesAreNatural, StaleCoversSend

\* An attempt's lease is never so old that a boot takes the row for stranded.
LEMMA LiveSendsAreNotStranded ==
    ASSUME TypeOK, AttemptHoldsLease, NEW r \in Requests, task[r] = "attempting"
    PROVE  ~Stranded(r) /\ lease[r] >= -Stale
<1>1. lease[r] = Lease - SendTime + busy[r] /\ claimedBy[r] # Nobody
  BY Times DEF TypeOK, AttemptHoldsLease
<1>2. busy[r] \in Nat
  BY Times DEF TypeOK
<1>3. lease[r] >= -Stale
  BY <1>1, <1>2, Times
<1>. QED BY <1>1, <1>2, <1>3, Times DEF Stranded

-----------------------------------------------------------------------------
(* The invariant holds initially, and one lemma for each kind of step.      *)

LEMMA InitIInv == Init => IInv
<1> SUFFICES ASSUME Init PROVE IInv
  OBVIOUS
<1>1. TypeOK
  <2>1. crashes \in 0..MaxCrashes
    BY CrashesAreNatural DEF Init
  <2>2. lease \in [Requests -> (-(Stale + 1))..Lease]
    BY Times DEF Init
  <2>. QED BY <2>1, <2>2, Times DEF Init, TypeOK
<1>. QED BY <1>1 DEF Init, IInv, KeysAreUnique, NoRowNoWork, AttemptHoldsLease, SendsAreCounted

LEMMA SendStepTypes ==
    ASSUME IInv, NEW r \in Requests, SendStep(r) \/ AttemptRaises(r)
    PROVE  TypeOK'
<1> USE Times DEF IInv, TypeOK, DeliveryStatus, Unsettled
<1>1. CASE LookUp(r)
  BY <1>1 DEF LookUp, rowVars
<1>2. CASE Insert(r)
  <2>1. sends[r] = 0
    BY <1>2 DEF Insert, NoRowNoWork
  <2>. QED BY <1>2, <2>1 DEF Insert, Claim, BeginAttempt
<1>3. CASE LoseInsertRace(r)
  BY <1>3 DEF LoseInsertRace, rowVars
<1>4. CASE Accepted(r)
  BY <1>4 DEF Accepted, Release, EndAttempt, ReturnToCaller
<1>5. CASE ScheduleRetry(r)
  <2>1. wait' \in [Requests -> 0..(Cap + Base)]
    BY <1>5, BackoffIsBounded DEF ScheduleRetry
  <2>2. attempts' \in [Requests -> 0..MaxAttempts]
    BY <1>5 DEF ScheduleRetry, HasRetriesLeft
  <2>. QED BY <1>5, <2>1, <2>2 DEF ScheduleRetry, Release, EndAttempt, ReturnToCaller
<1>6. CASE GiveUp(r)
  <2>1. attempts' \in [Requests -> 0..MaxAttempts]
    BY <1>6 DEF GiveUp, SendsAreCounted
  <2>. QED BY <1>6, <2>1 DEF GiveUp, Release, EndAttempt, ReturnToCaller
<1>7. CASE Reclaim(r)
  <2>1. sends' \in [Requests -> 0..MaxAttempts]
    BY <1>7 DEF Reclaim, BeginAttempt, SendsAreCounted
  <2>. QED BY <1>7, <2>1 DEF Reclaim, Claim, BeginAttempt
<1>8. CASE ClaimLost(r)
  BY <1>8 DEF ClaimLost, rowVars
<1>9. CASE AttemptRaises(r)
  BY <1>9 DEF AttemptRaises, EndAttempt, ReturnToCaller, rowVars
<1>. QED BY <1>1, <1>2, <1>3, <1>4, <1>5, <1>6, <1>7, <1>8, <1>9 DEF SendStep

LEMMA SendStepRows ==
    ASSUME IInv, NEW r \in Requests, SendStep(r) \/ AttemptRaises(r)
    PROVE  (KeysAreUnique /\ NoRowNoWork /\ AttemptHoldsLease /\ SendsAreCounted)'
<1> USE Times DEF IInv, TypeOK, DeliveryStatus, Unsettled,
                  KeysAreUnique, NoRowNoWork, AttemptHoldsLease, SendsAreCounted
<1>1. CASE LookUp(r)
  BY <1>1 DEF LookUp, rowVars
<1>2. CASE Insert(r)
  <2>1. \A s \in Requests : KeyOf[r] # NoKey /\ KeyOf[s] = KeyOf[r] => status[s] = "none"
    BY <1>2 DEF Insert, Holding
  <2>2. KeysAreUnique'
    BY <1>2, <2>1 DEF Insert
  <2>3. sends[r] = 0 /\ attempts[r] = 0
    BY <1>2 DEF Insert
  <2>4. claimedBy'[r] # Nobody /\ lease'[r] - busy'[r] = Lease - SendTime
    BY <1>2, WorkersAreNamed DEF Insert, Claim, BeginAttempt
  <2>5. AttemptHoldsLease'
    BY <1>2, <2>4 DEF Insert, Claim, BeginAttempt
  <2>6. NoRowNoWork' /\ SendsAreCounted'
    BY <1>2, <2>3 DEF Insert, BeginAttempt
  <2>. QED BY <2>2, <2>5, <2>6
<1>3. CASE LoseInsertRace(r)
  BY <1>3 DEF LoseInsertRace, rowVars
<1>4. CASE Accepted(r)
  BY <1>4 DEF Accepted, Release, EndAttempt, ReturnToCaller
<1>5. CASE ScheduleRetry(r)
  BY <1>5 DEF ScheduleRetry, HasRetriesLeft, Release, EndAttempt, ReturnToCaller
<1>6. CASE GiveUp(r)
  BY <1>6 DEF GiveUp, Release, EndAttempt, ReturnToCaller
<1>7. CASE Reclaim(r)
  <2>1. claimedBy'[r] # Nobody /\ lease'[r] - busy'[r] = Lease - SendTime
    BY <1>7, WorkersAreNamed DEF Reclaim, Claim, BeginAttempt
  <2>2. AttemptHoldsLease'
    BY <1>7, <2>1 DEF Reclaim, Claim, BeginAttempt
  <2>. QED BY <1>7, <2>2 DEF Reclaim, Claimable, BeginAttempt
<1>8. CASE ClaimLost(r)
  BY <1>8 DEF ClaimLost, rowVars
<1>9. CASE AttemptRaises(r)
  BY <1>9 DEF AttemptRaises, EndAttempt, ReturnToCaller, rowVars
<1>. QED BY <1>1, <1>2, <1>3, <1>4, <1>5, <1>6, <1>7, <1>8, <1>9 DEF SendStep

LEMMA CrashKeeps == ASSUME IInv, NEW w \in Workers, Crash(w) PROVE IInv'
<1> USE Times, CrashesAreNatural DEF IInv, TypeOK, Crash, rowVars
<1>1. TypeOK'
  <2>1. crashes' \in 0..MaxCrashes
    OBVIOUS
  <2>2. up' \in [Workers -> BOOLEAN]
    OBVIOUS
  <2>. QED BY <2>1, <2>2
<1>. QED BY <1>1 DEF KeysAreUnique, NoRowNoWork, AttemptHoldsLease, SendsAreCounted

LEMMA BootKeeps == ASSUME IInv, NEW w \in Workers, Boot(w) PROVE IInv'
<1>1. TypeOK'
  BY Times DEF IInv, TypeOK, Boot, DeliveryStatus
<1>2. \A r \in Requests : task[r] = "attempting" => ~Stranded(r)
  BY LiveSendsAreNotStranded DEF IInv
<1>3. \A r \in Requests : status'[r] = "none" <=> status[r] = "none"
  BY DEF Boot, IInv, TypeOK, Stranded, Unsettled
<1>4. KeysAreUnique' /\ NoRowNoWork' /\ SendsAreCounted'
  BY <1>3 DEF Boot, IInv, KeysAreUnique, NoRowNoWork, SendsAreCounted
<1>5. AttemptHoldsLease'
  BY <1>2 DEF Boot, IInv, TypeOK, AttemptHoldsLease
<1>. QED BY <1>1, <1>4, <1>5 DEF IInv

LEMMA TickKeeps == ASSUME IInv, Tick PROVE IInv'
<1> USE Times DEF IInv, TypeOK, Tick
<1>1. TypeOK'
  <2>1. lease' \in [Requests -> (-(Stale + 1))..Lease]
    OBVIOUS
  <2>2. wait' \in [Requests -> 0..(Cap + Base)]
    OBVIOUS
  <2>3. busy' \in [Requests -> 0..SendTime]
    OBVIOUS
  <2>. QED BY <2>1, <2>2, <2>3
<1>2. AttemptHoldsLease'
  <2> SUFFICES ASSUME NEW r \in Requests, task[r] = "attempting"
      PROVE  /\ status[r] \in Unsettled /\ claimedBy[r] # Nobody
             /\ lease'[r] - busy'[r] = Lease - SendTime
    BY DEF AttemptHoldsLease
  <2>1. lease[r] >= -Stale
    BY LiveSendsAreNotStranded
  <2>2. claimedBy[r] # Nobody /\ lease[r] - busy[r] = Lease - SendTime /\ status[r] \in Unsettled
    BY DEF AttemptHoldsLease
  <2>3. lease'[r] = lease[r] - 1 /\ busy'[r] = busy[r] - 1
    BY <2>1, <2>2
  <2>. QED BY <2>2, <2>3
<1>. QED BY <1>1, <1>2 DEF KeysAreUnique, NoRowNoWork, SendsAreCounted

LEMMA NextIInv == IInv /\ [Next]_vars => IInv'
<1> SUFFICES ASSUME IInv, [Next]_vars PROVE IInv'
  OBVIOUS
<1>1. CASE \E r \in Requests : SendStep(r) \/ AttemptRaises(r)
  BY <1>1, SendStepTypes, SendStepRows DEF IInv
<1>2. CASE \E w \in Workers : Crash(w) \/ Boot(w)
  BY <1>2, CrashKeeps, BootKeeps
<1>3. CASE Tick
  BY <1>3, TickKeeps
<1>4. CASE UNCHANGED vars
  BY <1>4 DEF vars, IInv, TypeOK, KeysAreUnique, NoRowNoWork, AttemptHoldsLease, SendsAreCounted
<1>. QED BY <1>1, <1>2, <1>3, <1>4 DEF Next

-----------------------------------------------------------------------------

\* The strengthening of the email properties is inductive.
THEOREM EmailInvariance == Spec => []IInv
  BY InitIInv, NextIInv, PTL DEF Spec

\* Every column and every process keeps its type: attempts never exceed the
\* budget and no deadline leaves its range.
THEOREM EmailTypeCorrect == Spec => []TypeOK
<1>1. IInv => TypeOK
  BY DEF IInv
<1>. QED BY <1>1, EmailInvariance, PTL

\* One row's worth of sends for each idempotency key, within the budget.
THEOREM KeysDeliverOnce == Spec => []OneDeliveryPerKey
<1>1. IInv => OneDeliveryPerKey
  <2> SUFFICES ASSUME IInv, NEW r \in Requests, NEW s \in Requests
      PROVE  /\ (KeyOf[r] # NoKey /\ KeyOf[r] = KeyOf[s] /\ sends[r] > 0 /\ sends[s] > 0 => r = s)
             /\ sends[r] <= MaxAttempts
    BY DEF OneDeliveryPerKey
  <2>1. sends[r] <= MaxAttempts
    BY Times DEF IInv, TypeOK
  <2>. QED BY <2>1 DEF IInv, SendsAreCounted, KeysAreUnique
<1>. QED BY <1>1, EmailInvariance, PTL

\* The boot sweep leaves the sends of other processes alone.
THEOREM SweepIsSafe == Spec => SweepSparesLiveSends
<1>1. IInv /\ [Next]_vars =>
        [\A r \in Requests :
            (task[r] = "attempting" /\ task'[r] = "attempting") => status'[r] = status[r]]_vars
  <2> SUFFICES ASSUME IInv, Next, NEW r \in Requests,
                      task[r] = "attempting", task'[r] = "attempting"
      PROVE  status'[r] = status[r]
    BY DEF vars
  <2>1. CASE \E q \in Requests : SendStep(q) \/ AttemptRaises(q)
    <3>1. PICK q \in Requests : SendStep(q) \/ AttemptRaises(q)
      BY <2>1
    <3>. QED
      BY <3>1 DEF IInv, TypeOK, NoRowNoWork, SendStep, LookUp, Insert, LoseInsertRace, Accepted,
         ScheduleRetry, GiveUp, Reclaim, ClaimLost, AttemptRaises, EndAttempt, BeginAttempt, rowVars
  <2>2. CASE \E w \in Workers : Crash(w) \/ Boot(w)
    BY <2>2, LiveSendsAreNotStranded DEF IInv, Crash, Boot, rowVars
  <2>3. CASE Tick
    BY <2>3 DEF Tick
  <2>. QED BY <2>1, <2>2, <2>3 DEF Next
<1>. QED BY <1>1, EmailInvariance, PTL DEF Spec, SweepSparesLiveSends

\* A settled row is never written with another status.
THEOREM SettledStays == Spec => SettledIsFinal
<1>1. IInv /\ [Next]_vars =>
        [\A r \in Requests : status[r] \in Settled => status'[r] = status[r]]_status
  <2> SUFFICES ASSUME IInv, Next, NEW r \in Requests, status[r] \in Settled
      PROVE  status'[r] = status[r]
    BY DEF vars
  <2>1. CASE \E q \in Requests : SendStep(q) \/ AttemptRaises(q)
    <3>1. PICK q \in Requests : SendStep(q) \/ AttemptRaises(q)
      BY <2>1
    <3>. QED
      BY <3>1 DEF IInv, TypeOK, NoRowNoWork, AttemptHoldsLease, Settled, Unsettled, SendStep, LookUp,
         Insert, LoseInsertRace, Accepted, ScheduleRetry, GiveUp, Reclaim, ClaimLost, AttemptRaises,
         Claimable, rowVars
  <2>2. CASE \E w \in Workers : Crash(w) \/ Boot(w)
    BY <2>2 DEF Crash, Boot, Stranded, Settled, Unsettled, rowVars
  <2>3. CASE Tick
    BY <2>3 DEF Tick
  <2>. QED BY <2>1, <2>2, <2>3 DEF Next
<1>. QED BY <1>1, EmailInvariance, PTL DEF Spec, SettledIsFinal

-----------------------------------------------------------------------------
(* NotificationDispatch.                                                    *)

\* What the assumptions say of the constants that leaves need.
LEMMA Names ==
    /\ MaxPosts \in Nat /\ MaxPosts > 0
    /\ NoHolder \notin Runs /\ NoSub \notin Subs
    /\ Outcomes \subseteq TerminalRun
  BY PostsArePositive, NamesAreDistinct, OutcomesAreTerminal DEF TerminalRun

\* A table of pairs keeps its type when one entry is written.
LEMMA PairUpdate ==
    ASSUME NEW D, NEW S, NEW V, NEW f \in [D -> [S -> V]], NEW d \in D, NEW s, NEW v \in V
    PROVE  [f EXCEPT ![d][s] = v] \in [D -> [S -> V]]
  OBVIOUS

LEMMA MailUpdate ==
    ASSUME DispatchTypeOK, NEW d \in Runs, NEW s,
           NEW st \in {"none", "unsettled", "orphaned", "sent", "failed"},
           mail' = [mail EXCEPT ![d][s] = st]
    PROVE  mail' \in [Runs -> [Subs -> {"none", "unsettled", "orphaned", "sent", "failed"}]]
<1> DEFINE V == {"none", "unsettled", "orphaned", "sent", "failed"}
<1>1. mail \in [Runs -> [Subs -> V]] /\ st \in V
  BY DEF DispatchTypeOK
<1> HIDE DEF V
<1>2. mail' \in [Runs -> [Subs -> V]]
  BY <1>1, PairUpdate
<1>. QED BY <1>2 DEF V

\* What a message to EmailService leaves: the three ways it can end.
LEMMA SendEmailStep ==
    ASSUME NEW d, SendEmail(d)
    PROVE  /\ pc[d] = "sending" /\ ChannelOf[sub[d]] = "email"
           /\ pc' = [pc EXCEPT ![d] = "committing"]
           /\ UNCHANGED <<crashed, fired, told, todo, sub, posts, note, rows, alive, lock>>
           /\ \E st, res :
                 /\ <<st, res>> \in {<<"sent", "accepted">>, <<"unsettled", "pending">>,
                                        <<"failed", "rejected">>}
                 /\ mail' = [mail EXCEPT ![d][sub[d]] = st]
                 /\ result' = [result EXCEPT ![d] = res]
  BY DEF SendEmail, Channel, SetMail, Answer, fireVars

\* What an exception of the email channel leaves: a row like any, or none.
LEMMA EmailRaisesStep ==
    ASSUME NEW d, EmailRaises(d)
    PROVE  /\ pc[d] = "sending" /\ ChannelOf[sub[d]] = "email"
           /\ pc' = [pc EXCEPT ![d] = "committing"]
           /\ result' = [result EXCEPT ![d] = "raised"]
           /\ UNCHANGED <<crashed, fired, told, todo, sub, posts, note, rows, alive, lock>>
           /\ \/ UNCHANGED mail
              \/ \E st \in {"orphaned", "sent", "failed"} :
                    mail' = [mail EXCEPT ![d][sub[d]] = st]
  BY DEF EmailRaises, Channel, SetMail, Answer, fireVars

\* Neither touches the email of another pair.
LEMMA MailOfOne ==
    ASSUME DispatchTypeOK, NEW d \in Runs, SendEmail(d) \/ EmailRaises(d)
    PROVE  \A e \in Runs, s \in Subs : mail'[e][s] = mail[e][s] \/ (e = d /\ s = sub[d])
<1>1. UNCHANGED mail \/ \E st : mail' = [mail EXCEPT ![d][sub[d]] = st]
  <2>1. CASE SendEmail(d)
    BY <2>1, SendEmailStep
  <2>2. CASE EmailRaises(d)
    BY <2>2, EmailRaisesStep
  <2>. QED BY <2>1, <2>2
<1>. QED BY <1>1 DEF DispatchTypeOK

LEMMA InitDispatchIInv == DispatchInit => DispatchIInv
<1> SUFFICES ASSUME DispatchInit PROVE DispatchIInv
  OBVIOUS
<1> USE Names DEF DispatchInit
<1>1. DispatchTypeOK
  <2>1. posts \in [Runs -> 0..(MaxPosts - 1)]
    OBVIOUS
  <2>2. /\ rows \in [Runs -> [Subs -> Nat]]
        /\ note \in [Runs -> [Subs -> {"none", "open", "pending", "sent", "failed", "raised"}]]
        /\ mail \in [Runs -> [Subs -> {"none", "unsettled", "orphaned", "sent", "failed"}]]
    OBVIOUS
  <2>3. /\ told \in [Runs -> TerminalRun \cup {"none"}]
        /\ pc \in [Runs -> {"none", "selecting", "fanning", "flushing", "sending", "committing", "done"}]
        /\ todo \in [Runs -> SUBSET Subs]
        /\ sub \in [Runs -> Subs \cup {NoSub}]
        /\ result \in [Runs -> {"none", "accepted", "pending", "rejected", "raised"}]
    OBVIOUS
  <2>. QED BY <2>1, <2>2, <2>3 DEF DispatchTypeOK
<1>2. OneRowPerSubscriber /\ LockFollowsOpenRow /\ RowsTellTheTruth
  BY DEF OneRowPerSubscriber, LockFollowsOpenRow, RowsTellTheTruth
<1>3. GuardKnowsTasks /\ OneInHand /\ AheadIsUntouched /\ VisitsWereAskedFor /\ ResultMatchesMail
  BY DEF GuardKnowsTasks, OneInHand, InHand, AheadIsUntouched, Untouched, VisitsWereAskedFor,
         ResultMatchesMail
<1>. QED BY <1>1, <1>2, <1>3 DEF DispatchIInv, DeliveriesAreRight

-----------------------------------------------------------------------------
(* Every step keeps the types.                                              *)

LEMMA TaskTypes ==
    ASSUME DispatchTypeOK, UNCHANGED engine, NEW d \in Runs,
           Fire(d) \/ DispatchStep(d) \/ SelectFails(d) \/ EmailRaises(d) \/ CommitFails(d)
    PROVE  DispatchTypeOK'
<1> USE Names DEF DispatchTypeOK, fireVars, taskVars, deliveryVars
<1>1. CASE Fire(d)
  BY <1>1 DEF Fire
<1>2. CASE Select(d)
  BY <1>2 DEF Select, Matching
<1>3. CASE SelectFails(d)
  BY <1>3 DEF SelectFails
<1>4. CASE TakeNext(d)
  BY <1>4 DEF TakeNext
<1>5. CASE Finish(d)
  BY <1>5 DEF Finish
<1>6. CASE Flush(d)
  BY <1>6, PairUpdate DEF Flush, SetNote, Acquire
<1>7. CASE FlushFails(d)
  BY <1>7 DEF FlushFails, NextSub
<1>8. CASE SendEmail(d)
  <2>1. PICK st \in {"none", "unsettled", "orphaned", "sent", "failed"} :
             mail' = [mail EXCEPT ![d][sub[d]] = st]
    BY <1>8, SendEmailStep
  <2>2. mail' \in [Runs -> [Subs -> {"none", "unsettled", "orphaned", "sent", "failed"}]]
    BY <2>1, MailUpdate
  <2>. QED BY <1>8, <2>2, ZenonT(40) DEF SendEmail, Answer
<1>9. CASE EmailRaises(d)
  <2>1. mail' \in [Runs -> [Subs -> {"none", "unsettled", "orphaned", "sent", "failed"}]]
    <3>1. CASE UNCHANGED mail
      BY <3>1
    <3>2. CASE \E st \in {"orphaned", "sent", "failed"} :
                   mail' = [mail EXCEPT ![d][sub[d]] = st]
      <4>1. PICK st \in {"none", "unsettled", "orphaned", "sent", "failed"} :
                 mail' = [mail EXCEPT ![d][sub[d]] = st]
        BY <3>2
      <4>. QED BY <4>1, MailUpdate
    <3>. QED BY <1>9, <3>1, <3>2, EmailRaisesStep
  <2>2. /\ pc' = [pc EXCEPT ![d] = "committing"]
        /\ result' = [result EXCEPT ![d] = "raised"]
        /\ UNCHANGED <<crashed, fired, told, todo, sub, posts, note, rows, alive, lock>>
    BY <1>9, EmailRaisesStep
  <2>. QED BY <2>1, <2>2, ZenonT(40)
<1>10. CASE EmailTimesOut(d)
  BY <1>10 DEF EmailTimesOut, Answer
<1>11. CASE Post(d)
  <2>1. posts' \in [Runs -> 0..(MaxPosts - 1)]
    <3>1. posts' = posts \/ (posts[d] + 1 < MaxPosts /\ posts' = [posts EXCEPT ![d] = @ + 1])
      BY <1>11 DEF Post, Answer
    <3>2. posts[d] + 1 < MaxPosts => posts[d] + 1 \in 0..(MaxPosts - 1)
      OBVIOUS
    <3>. QED BY <3>1, <3>2
  <2>2. /\ pc' \in [Runs -> {"none", "selecting", "fanning", "flushing", "sending", "committing", "done"}]
        /\ result' \in [Runs -> {"none", "accepted", "pending", "rejected", "raised"}]
        /\ UNCHANGED <<fireVars, todo, sub, note, rows, mail, alive, lock>>
    BY <1>11, ZenonT(40) DEF Post, Answer
  <2>. QED BY <2>1, <2>2
<1>12. CASE Commit(d)
  <2>1. StatusOf(result[d]) \in {"none", "pending", "sent", "failed", "raised"}
    BY DEF StatusOf
  <2>2. note' \in [Runs -> [Subs -> {"none", "open", "pending", "sent", "failed", "raised"}]]
    <3> DEFINE V == {"none", "open", "pending", "sent", "failed", "raised"}
    <3>1. note \in [Runs -> [Subs -> V]] /\ StatusOf(result[d]) \in V
      BY <2>1
    <3>2. note' = [note EXCEPT ![d][sub[d]] = StatusOf(result[d])]
      BY <1>12 DEF Commit, SetNote
    <3> HIDE DEF V, DispatchTypeOK
    <3>3. note' \in [Runs -> [Subs -> V]]
      BY <3>1, <3>2, PairUpdate
    <3>. QED BY <3>3 DEF V
  <2>4. rows' \in [Runs -> [Subs -> Nat]]
    <3>1. rows' = [rows EXCEPT ![d][sub[d]] = @ + 1]
      BY <1>12 DEF Commit
    <3>2. CASE sub[d] \in Subs
      BY <3>1, <3>2
    <3>3. CASE sub[d] \notin Subs
      BY <3>1, <3>3
    <3>. QED BY <3>2, <3>3
  <2>3. lock' \in Runs \cup {NoHolder}
    BY <1>12 DEF Commit, ReleaseLock
  <2>. QED BY <1>12, <2>2, <2>3, <2>4 DEF Commit, NextSub
<1>13. CASE CommitFails(d)
  <2>1. note' \in [Runs -> [Subs -> {"none", "open", "pending", "sent", "failed", "raised"}]]
    BY <1>13, PairUpdate DEF CommitFails, SetNote
  <2>2. lock' \in Runs \cup {NoHolder}
    BY <1>13 DEF CommitFails, ReleaseLock
  <2>3. 0 \in 0..(MaxPosts - 1)
    OBVIOUS
  <2>. QED BY <1>13, <2>1, <2>2, <2>3 DEF CommitFails, NextSub
<1>. QED
  BY <1>1, <1>2, <1>3, <1>4, <1>5, <1>6, <1>7, <1>8, <1>9, <1>10, <1>11, <1>12, <1>13
     DEF DispatchStep

LEMMA AroundTypes ==
    ASSUME DispatchTypeOK, UNCHANGED engine,
           \/ \E d \in Runs, s \in Subs : EmailSettles(d, s) \/ BootSweeps(d, s)
           \/ \E s \in Subs : RemoveSub(s)
           \/ ProcessDies
    PROVE  DispatchTypeOK'
<1> USE Names DEF DispatchTypeOK, fireVars, taskVars
<1>1. CASE \E d \in Runs, s \in Subs : EmailSettles(d, s) \/ BootSweeps(d, s)
  <2>1. PICK d \in Runs, s \in Subs : EmailSettles(d, s) \/ BootSweeps(d, s)
    BY <1>1
  <2>2. mail' \in [Runs -> [Subs -> {"none", "unsettled", "orphaned", "sent", "failed"}]]
    <3>1. PICK st \in {"none", "unsettled", "orphaned", "sent", "failed"} : mail' = [mail EXCEPT ![d][s] = st]
      BY <2>1 DEF EmailSettles, BootSweeps
    <3>. QED BY <3>1, MailUpdate
  <2>. QED BY <2>1, <2>2 DEF EmailSettles, BootSweeps
<1>2. CASE \E s \in Subs : RemoveSub(s)
  BY <1>2 DEF RemoveSub
<1>3. CASE ProcessDies
  <2>1. mail' \in [Runs -> [Subs -> {"none", "unsettled", "orphaned", "sent", "failed"}]]
    BY <1>3 DEF ProcessDies
  <2>. QED BY <1>3, <2>1, Names DEF ProcessDies
<1>. QED BY <1>1, <1>2, <1>3

-----------------------------------------------------------------------------

\* What one POST leaves: an answer, or one more attempt to make.
LEMMA PostStep ==
    ASSUME NEW d, Post(d)
    PROVE  /\ pc[d] = "sending" /\ ChannelOf[sub[d]] = "webhook"
           /\ pc' = [pc EXCEPT ![d] = "committing"] \/ pc' = pc
           /\ UNCHANGED <<crashed, fired, told, todo, sub, note, rows, mail, alive, lock>>
  BY DEF Post, Channel, Answer, fireVars

\* What the guard knows and what a task has in hand, at every step of a task.
LEMMA TaskKeepsHands ==
    ASSUME DispatchIInv, DispatchTypeOK', NEW d \in Runs,
           Fire(d) \/ DispatchStep(d) \/ SelectFails(d) \/ EmailRaises(d) \/ CommitFails(d)
    PROVE  (GuardKnowsTasks /\ OneInHand)'
<1> USE Names DEF DispatchIInv, DeliveriesAreRight, DispatchTypeOK, fireVars, taskVars, deliveryVars,
              GuardKnowsTasks, OneInHand, InHand
<1>1. CASE Fire(d)
  BY <1>1 DEF Fire
<1>2. CASE Select(d)
  BY <1>2 DEF Select, Matching
<1>3. CASE SelectFails(d)
  BY <1>3 DEF SelectFails
<1>4. CASE TakeNext(d)
  BY <1>4 DEF TakeNext
<1>5. CASE Finish(d)
  BY <1>5 DEF Finish
<1>6. CASE Flush(d)
  BY <1>6 DEF Flush, SetNote
<1>7. CASE FlushFails(d)
  BY <1>7 DEF FlushFails, NextSub
<1>8. CASE SendEmail(d) \/ EmailRaises(d)
  <2>1. /\ pc[d] = "sending" /\ pc' = [pc EXCEPT ![d] = "committing"]
        /\ UNCHANGED <<crashed, fired, told, todo, sub>>
    <3>1. CASE SendEmail(d)
      BY <3>1, SendEmailStep
    <3>2. CASE EmailRaises(d)
      BY <3>2, EmailRaisesStep
    <3>. QED BY <1>8, <3>1, <3>2
  <2>2. \A e \in Runs : pc'[e] = pc[e] \/ (pc[e] = "sending" /\ pc'[e] = "committing")
    BY <2>1
  <2>. QED BY <2>1, <2>2
<1>10. CASE EmailTimesOut(d)
  BY <1>10 DEF EmailTimesOut, Channel, Answer
<1>11. CASE Post(d)
  <2>1. \A e \in Runs : pc'[e] = pc[e] \/ (pc[e] = "sending" /\ pc'[e] = "committing")
    <3>1. pc' = pc \/ (pc[d] = "sending" /\ pc' = [pc EXCEPT ![d] = "committing"])
      BY <1>11, PostStep
    <3>. QED BY <3>1
  <2>2. UNCHANGED <<crashed, fired, told, todo, sub>>
    BY <1>11, PostStep
  <2>. QED BY <2>1, <2>2
<1>12. CASE Commit(d)
  BY <1>12 DEF Commit, SetNote, StatusOf, NextSub
<1>13. CASE CommitFails(d)
  BY <1>13 DEF CommitFails, SetNote, NextSub
<1>. QED
  BY <1>1, <1>2, <1>3, <1>4, <1>5, <1>6, <1>7, <1>8, <1>10, <1>11, <1>12, <1>13
     DEF DispatchStep

\* Every step of a task touches the subscription in hand and no other.
LEMMA TaskKeepsRows ==
    ASSUME DispatchIInv, DispatchTypeOK', NEW d \in Runs,
           Fire(d) \/ DispatchStep(d) \/ SelectFails(d) \/ EmailRaises(d) \/ CommitFails(d)
    PROVE  (OneRowPerSubscriber /\ AheadIsUntouched)'
<1> USE Names DEF DispatchIInv, DeliveriesAreRight, DispatchTypeOK, fireVars, taskVars, deliveryVars,
              OneInHand, InHand, AheadIsUntouched, Untouched, OneRowPerSubscriber, ResultMatchesMail
<1>1. CASE Fire(d)
  <2>1. pc[d] = "none"
    BY <1>1 DEF Fire, GuardKnowsTasks
  <2>2. OneRowPerSubscriber'
    BY <1>1, <2>1 DEF Fire
  <2>3. AheadIsUntouched'
    BY <1>1, <2>1 DEF Fire
  <2>. QED BY <2>2, <2>3
<1>2. CASE Select(d)
  BY <1>2 DEF Select, Matching
<1>3. CASE SelectFails(d)
  BY <1>3 DEF SelectFails
<1>4. CASE TakeNext(d)
  BY <1>4 DEF TakeNext
<1>5. CASE Finish(d)
  BY <1>5 DEF Finish
<1>6. CASE Flush(d)
  BY <1>6 DEF Flush, SetNote
<1>7. CASE FlushFails(d)
  BY <1>7 DEF FlushFails, NextSub
<1>8. CASE SendEmail(d)
  <2>1. OneRowPerSubscriber'
    BY <1>8, SendEmailStep
  <2>2. \A e \in Runs, s \in Subs : mail'[e][s] = mail[e][s] \/ (e = d /\ s = sub[d])
    BY <1>8, MailOfOne
  <2>3. AheadIsUntouched'
    <3>1. /\ pc[d] = "sending" /\ pc' = [pc EXCEPT ![d] = "committing"]
          /\ UNCHANGED <<todo, sub, note, rows>>
      BY <1>8, SendEmailStep
    <3>. QED BY <2>2, <3>1
  <2>. QED BY <2>1, <2>3
<1>9. CASE EmailRaises(d)
  <2>1. OneRowPerSubscriber'
    BY <1>9, EmailRaisesStep
  <2>2. \A e \in Runs, s \in Subs : mail'[e][s] = mail[e][s] \/ (e = d /\ s = sub[d])
    BY <1>9, MailOfOne
  <2>3. AheadIsUntouched'
    <3>1. /\ pc[d] = "sending" /\ pc' = [pc EXCEPT ![d] = "committing"]
          /\ UNCHANGED <<todo, sub, note, rows>>
      BY <1>9, EmailRaisesStep
    <3>. QED BY <2>2, <3>1
  <2>. QED BY <2>1, <2>3
<1>10. CASE EmailTimesOut(d)
  BY <1>10 DEF EmailTimesOut, Channel, Answer
<1>11. CASE Post(d)
  BY <1>11 DEF Post, Channel, Answer
<1>12. CASE Commit(d)
  BY <1>12 DEF Commit, SetNote, StatusOf, NextSub
<1>13. CASE CommitFails(d)
  BY <1>13 DEF CommitFails, SetNote, NextSub
<1>. QED
  BY <1>1, <1>2, <1>3, <1>4, <1>5, <1>6, <1>7, <1>8, <1>9, <1>10, <1>11, <1>12, <1>13
     DEF DispatchStep

\* Every step of a task leaves rows that tell what the channel did.
LEMMA TaskKeepsTruth ==
    ASSUME DispatchIInv, DispatchTypeOK', NEW d \in Runs,
           Fire(d) \/ DispatchStep(d) \/ SelectFails(d) \/ EmailRaises(d) \/ CommitFails(d)
    PROVE  (RowsTellTheTruth /\ VisitsWereAskedFor /\ ResultMatchesMail)'
<1> USE Names DEF DispatchIInv, DeliveriesAreRight, DispatchTypeOK, fireVars, taskVars, deliveryVars,
              GuardKnowsTasks, OneInHand, InHand, AheadIsUntouched, Untouched, OneRowPerSubscriber, RowsTellTheTruth, VisitsWereAskedFor, ResultMatchesMail, TerminalRun, FailedRun
<1>1. CASE Fire(d)
  BY <1>1 DEF Fire
<1>2. CASE Select(d)
  BY <1>2 DEF Select, Matching
<1>3. CASE SelectFails(d)
  BY <1>3 DEF SelectFails
<1>4. CASE TakeNext(d)
  BY <1>4 DEF TakeNext
<1>5. CASE Finish(d)
  BY <1>5 DEF Finish
<1>6. CASE Flush(d)
  BY <1>6 DEF Flush, SetNote
<1>7. CASE FlushFails(d)
  BY <1>7 DEF FlushFails, NextSub
<1>8. CASE SendEmail(d)
  <2>1. \A e \in Runs, s \in Subs : mail'[e][s] = mail[e][s] \/ (e = d /\ s = sub[d])
    BY <1>8, MailOfOne
  <2>2. /\ pc[d] = "sending" /\ note[d][sub[d]] = "open"
        /\ UNCHANGED <<told, todo, sub, note, rows>>
        /\ pc' = [pc EXCEPT ![d] = "committing"]
    BY <1>8, SendEmailStep
  <2>3. /\ result'[d] = "accepted" => mail'[d][sub[d]] = "sent"
        /\ result'[d] = "rejected" => mail'[d][sub[d]] = "failed"
        /\ result'[d] # "none" /\ mail'[d][sub[d]] # "none" /\ ChannelOf[sub[d]] = "email"
        /\ result'[d] # "pending" => mail'[d][sub[d]] # "unsettled"
        /\ \A e \in Runs \ {d} : result'[e] = result[e]
    <3>1. sub[d] \in Subs
      BY <2>2
    <3>2. PICK st, res :
             /\ <<st, res>> \in {<<"sent", "accepted">>, <<"unsettled", "pending">>,
                                    <<"failed", "rejected">>}
             /\ mail' = [mail EXCEPT ![d][sub[d]] = st]
             /\ result' = [result EXCEPT ![d] = res]
      BY <1>8, SendEmailStep
    <3>3. mail'[d][sub[d]] = st /\ result'[d] = res
      BY <3>1, <3>2
    <3>4. ChannelOf[sub[d]] = "email" /\ \A e \in Runs \ {d} : result'[e] = result[e]
      BY <1>8, <3>2, SendEmailStep
    <3>. QED BY <3>2, <3>3, <3>4
  <2>4. RowsTellTheTruth'
    BY <2>1, <2>2
  <2>5. VisitsWereAskedFor'
    BY <2>2
  <2>6. ResultMatchesMail'
    BY <2>1, <2>2, <2>3
  <2>. QED BY <2>4, <2>5, <2>6
<1>9. CASE EmailRaises(d)
  <2>1. \A e \in Runs, s \in Subs : mail'[e][s] = mail[e][s] \/ (e = d /\ s = sub[d])
    BY <1>9, MailOfOne
  <2>2. /\ pc[d] = "sending" /\ note[d][sub[d]] = "open" /\ sub[d] \in Subs
        /\ UNCHANGED <<told, todo, sub, note, rows>>
        /\ pc' = [pc EXCEPT ![d] = "committing"] /\ result' = [result EXCEPT ![d] = "raised"]
    BY <1>9, EmailRaisesStep
  <2>3. mail'[d][sub[d]] # "unsettled"
    <3>1. UNCHANGED mail \/ \E st \in {"orphaned", "sent", "failed"} :
                               mail' = [mail EXCEPT ![d][sub[d]] = st]
      BY <1>9, EmailRaisesStep
    <3>. QED BY <2>2, <3>1
  <2>4. RowsTellTheTruth'
    BY <2>1, <2>2, <2>3
  <2>5. VisitsWereAskedFor'
    BY <2>2
  <2>6. ResultMatchesMail'
    BY <2>1, <2>2, <2>3
  <2>. QED BY <2>4, <2>5, <2>6
<1>10. CASE EmailTimesOut(d)
  BY <1>10 DEF EmailTimesOut, Channel, Answer
<1>11. CASE Post(d)
  BY <1>11 DEF Post, Channel, Answer
<1>12. CASE Commit(d)
  BY <1>12 DEF Commit, SetNote, StatusOf, NextSub
<1>13. CASE CommitFails(d)
  BY <1>13 DEF CommitFails, SetNote, NextSub
<1>. QED
  BY <1>1, <1>2, <1>3, <1>4, <1>5, <1>6, <1>7, <1>8, <1>9, <1>10, <1>11, <1>12, <1>13
     DEF DispatchStep

\* The lock is taken with the row and let go with it.
LEMMA TaskKeepsLock ==
    ASSUME DispatchIInv, DispatchTypeOK', OneRowPerSubscriber', OneInHand', UNCHANGED engine, NEW d \in Runs,
           Fire(d) \/ DispatchStep(d) \/ SelectFails(d) \/ EmailRaises(d) \/ CommitFails(d)
    PROVE  LockFollowsOpenRow'
<1> DEFINE Open(e) == pc[e] \in {"sending", "committing"}
<1>1. \A e \in Runs : lock = e <=> SingleWriter /\ Open(e)
  BY DEF DispatchIInv, DeliveriesAreRight, LockFollowsOpenRow, OneRowPerSubscriber, OneInHand, InHand
<1>2. SUFFICES \A e \in Runs : lock' = e <=> SingleWriter /\ Open(e)'
  BY DEF LockFollowsOpenRow, OneRowPerSubscriber, OneInHand, InHand, SingleWriter
<1> USE Names DEF DispatchTypeOK, fireVars, deliveryVars
<1>3. DispatchTypeOK
  BY DEF DispatchIInv, DeliveriesAreRight
<1>4. CASE Fire(d)
  BY <1>1, <1>3, <1>4 DEF Fire, DispatchIInv, GuardKnowsTasks
<1>5. CASE Flush(d)
  <2>1. \A e \in Runs : pc'[e] = IF e = d THEN "sending" ELSE pc[e]
    BY <1>3, <1>5 DEF Flush
  <2>. QED BY <1>1, <1>5, <2>1 DEF Flush, CanWrite, Acquire, SingleWriter
<1>6. CASE Commit(d) \/ CommitFails(d)
  <2>1. \A e \in Runs : pc'[e] = IF e = d THEN "fanning" ELSE pc[e]
    BY <1>3, <1>6 DEF Commit, CommitFails, NextSub
  <2>. QED BY <1>1, <1>6, <2>1 DEF Commit, CommitFails, ReleaseLock, SingleWriter
<1>7. CASE SendEmail(d)
  <2>1. \A e \in Runs : Open(e)' <=> Open(e)
    BY <1>3, <1>7, SendEmailStep
  <2>. QED BY <1>1, <1>7, <2>1, SendEmailStep DEF SingleWriter
<1>8. CASE Post(d)
  <2>1. pc[d] = "sending" /\ (pc' = [pc EXCEPT ![d] = "committing"] \/ pc' = pc) /\ lock' = lock
    BY <1>8, PostStep
  <2>2. \A e \in Runs : Open(e)' <=> Open(e)
    BY <1>3, <2>1
  <2>. QED BY <1>1, <2>1, <2>2 DEF SingleWriter
<1>9. CASE Select(d) \/ SelectFails(d) \/ TakeNext(d) \/ Finish(d) \/ FlushFails(d)
  <2>1. \A e \in Runs : Open(e)' <=> Open(e)
    BY <1>3, <1>9 DEF Select, SelectFails, TakeNext, Finish, FlushFails, NextSub
  <2>2. lock' = lock
    BY <1>9 DEF Select, SelectFails, TakeNext, Finish, FlushFails
  <2>. QED BY <1>1, <2>1, <2>2 DEF SingleWriter
<1>10. CASE EmailTimesOut(d)
  BY <1>1, <1>3, <1>10 DEF EmailTimesOut, Channel, Answer
<1>11. CASE EmailRaises(d)
  <2>1. \A e \in Runs : Open(e)' <=> Open(e)
    BY <1>3, <1>11, EmailRaisesStep
  <2>. QED BY <1>1, <1>11, <2>1, EmailRaisesStep DEF SingleWriter
<1>. QED BY <1>4, <1>5, <1>6, <1>7, <1>8, <1>9, <1>10, <1>11 DEF DispatchStep

-----------------------------------------------------------------------------
(* What goes on around the dispatch keeps the invariant too.                *)

LEMMA SettlingKeeps ==
    ASSUME DispatchIInv, DispatchTypeOK', UNCHANGED engine, NEW d \in Runs, NEW s \in Subs,
           EmailSettles(d, s) \/ BootSweeps(d, s)
    PROVE  DispatchIInv'
<1> USE DEF EmailSettles, BootSweeps, DispatchIInv, DeliveriesAreRight, DispatchTypeOK, fireVars, taskVars
<1>1. /\ \A e \in Runs, t \in Subs : mail'[e][t] = mail[e][t] \/ (e = d /\ t = s)
      /\ mail[d][s] \in {"unsettled", "orphaned"} /\ mail'[d][s] \in {"sent", "failed"}
      /\ UNCHANGED <<crashed, fired, told, pc, todo, sub, result, note, rows, alive, lock>>
  OBVIOUS
<1>2. OneRowPerSubscriber' /\ LockFollowsOpenRow' /\ GuardKnowsTasks' /\ OneInHand' /\ VisitsWereAskedFor'
  BY DEF OneRowPerSubscriber, LockFollowsOpenRow, SingleWriter, GuardKnowsTasks, OneInHand, InHand,
         VisitsWereAskedFor
<1>3. RowsTellTheTruth'
  BY <1>1 DEF RowsTellTheTruth
<1>4. AheadIsUntouched'
  <2> SUFFICES ASSUME NEW e \in Runs, NEW t \in Subs,
                      pc[e] \in {"none", "selecting"} \/ t \in todo[e] \/ (pc[e] = "flushing" /\ sub[e] = t)
               PROVE  rows[e][t] = 0 /\ note[e][t] = "none" /\ mail'[e][t] = "none"
    BY <1>1 DEF AheadIsUntouched, Untouched
  <2>1. rows[e][t] = 0 /\ note[e][t] = "none" /\ mail[e][t] = "none"
    BY DEF AheadIsUntouched, Untouched
  <2>2. ~(e = d /\ t = s)
    BY <1>1, <2>1
  <2>. QED BY <1>1, <2>1, <2>2
<1>5. ResultMatchesMail'
  <2> SUFFICES ASSUME NEW e \in Runs, pc[e] \in {"sending", "committing"}
               PROVE  /\ rows[e][sub[e]] = 0
                      /\ pc[e] = "sending" => mail'[e][sub[e]] = "none"
                      /\ pc[e] = "committing" =>
                            /\ result[e] # "none"
                            /\ ChannelOf[sub[e]] = "email" =>
                                  /\ result[e] = "accepted" => mail'[e][sub[e]] = "sent"
                                  /\ result[e] = "rejected" => mail'[e][sub[e]] = "failed"
                            /\ result[e] = "pending" =>
                                  ChannelOf[sub[e]] = "email" /\ mail'[e][sub[e]] # "none"
                            /\ result[e] # "pending" => mail'[e][sub[e]] # "unsettled"
    BY <1>1 DEF ResultMatchesMail
  <2>1. sub[e] \in Subs
    BY DEF OneInHand, InHand
  <2>2. CASE e = d /\ sub[e] = s
    BY <1>1, <2>2 DEF ResultMatchesMail
  <2>3. CASE ~(e = d /\ sub[e] = s)
    BY <1>1, <2>1, <2>3 DEF ResultMatchesMail
  <2>. QED BY <2>2, <2>3
<1>. QED BY <1>2, <1>3, <1>4, <1>5

LEMMA RemovalKeeps ==
    ASSUME DispatchIInv, DispatchTypeOK', UNCHANGED engine, NEW s \in Subs, RemoveSub(s)
    PROVE  DispatchIInv'
<1> USE DEF RemoveSub, DispatchIInv, DeliveriesAreRight, DispatchTypeOK, fireVars, taskVars
<1>1. \A e \in Runs, t \in Subs :
        /\ note'[e][t] = IF t = s THEN "none" ELSE note[e][t]
        /\ note[e][s] # "open"
  OBVIOUS
<1>2. OneRowPerSubscriber'
  BY <1>1 DEF OneRowPerSubscriber
<1>3. LockFollowsOpenRow'
  BY <1>1 DEF LockFollowsOpenRow, SingleWriter
<1>4. RowsTellTheTruth'
  BY <1>1 DEF RowsTellTheTruth
<1>5. GuardKnowsTasks' /\ OneInHand' /\ VisitsWereAskedFor' /\ ResultMatchesMail'
  BY DEF GuardKnowsTasks, OneInHand, InHand, VisitsWereAskedFor, ResultMatchesMail
<1>6. AheadIsUntouched'
  BY <1>1 DEF AheadIsUntouched, Untouched
<1>. QED BY <1>2, <1>3, <1>4, <1>5, <1>6

LEMMA DeathKeeps ==
    ASSUME DispatchIInv, DispatchTypeOK', UNCHANGED engine, ProcessDies
    PROVE  DispatchIInv'
<1> USE Names DEF ProcessDies, DispatchIInv, DeliveriesAreRight, DispatchTypeOK
<1>1. \A e \in Runs, t \in Subs :
        /\ note'[e][t] = IF note[e][t] = "open" THEN "none" ELSE note[e][t]
        /\ pc'[e] = IF pc[e] = "none" THEN "none" ELSE "done"
        /\ todo'[e] = {} /\ sub'[e] = NoSub
        /\ mail'[e][t] # mail[e][t] =>
              /\ mail'[e][t] = "orphaned"
              /\ mail[e][t] = "unsettled" \/ (pc[e] = "sending" /\ t = sub[e])
        /\ mail'[e][t] # "unsettled"
  <2>1. PICK left \in SUBSET InMail :
             mail' = [d \in Runs |-> [s \in Subs |->
                         IF mail[d][s] = "unsettled" \/ (d \in left /\ s = sub[d])
                         THEN "orphaned" ELSE mail[d][s]]]
    OBVIOUS
  <2>2. \A d \in left : pc[d] = "sending"
    BY DEF InMail, Channel
  <2>. QED BY <2>1, <2>2
<1>2. OneRowPerSubscriber'
  BY <1>1 DEF OneRowPerSubscriber
<1>3. LockFollowsOpenRow'
  BY <1>1 DEF LockFollowsOpenRow
<1>4. RowsTellTheTruth'
  BY <1>1 DEF RowsTellTheTruth, OneRowPerSubscriber
<1>5. GuardKnowsTasks' /\ OneInHand' /\ VisitsWereAskedFor' /\ ResultMatchesMail'
  BY <1>1 DEF GuardKnowsTasks, OneInHand, InHand, VisitsWereAskedFor, ResultMatchesMail
<1>6. AheadIsUntouched'
  <2>1. UNCHANGED rows
    OBVIOUS
  <2>2. ASSUME NEW e \in Runs, NEW t \in Subs, pc[e] = "none"
        PROVE  rows[e][t] = 0 /\ note'[e][t] = "none" /\ mail'[e][t] = "none"
    <3>1. rows[e][t] = 0 /\ note[e][t] = "none" /\ mail[e][t] = "none"
      BY <2>2 DEF AheadIsUntouched, Untouched
    <3>. QED BY <1>1, <2>2, <3>1
  <2>. QED BY <1>1, <2>1, <2>2 DEF AheadIsUntouched, Untouched
<1>. QED BY <1>2, <1>3, <1>4, <1>5, <1>6

-----------------------------------------------------------------------------
(* The theorem.                                                             *)

LEMMA NextDispatchIInv == DispatchIInv /\ [DispatchNext]_dispatchVars => DispatchIInv'
<1> SUFFICES ASSUME DispatchIInv, [DispatchNext]_dispatchVars PROVE DispatchIInv'
  OBVIOUS
<1>1. DispatchTypeOK
  BY DEF DispatchIInv, DeliveriesAreRight
<1>2. CASE UNCHANGED dispatchVars
  BY <1>2 DEF dispatchVars, DispatchIInv, DeliveriesAreRight, DispatchTypeOK, OneRowPerSubscriber, LockFollowsOpenRow,
              SingleWriter, RowsTellTheTruth, GuardKnowsTasks, OneInHand, InHand, AheadIsUntouched,
              Untouched, VisitsWereAskedFor, ResultMatchesMail
<1>3. CASE DispatchNext
  <2>1. UNCHANGED engine
    BY <1>3 DEF DispatchNext
  <2>2. ASSUME NEW d \in Runs,
               Fire(d) \/ DispatchStep(d) \/ SelectFails(d) \/ EmailRaises(d) \/ CommitFails(d)
        PROVE  DispatchIInv'
    <3>1. DispatchTypeOK'
      BY <1>1, <2>1, <2>2, TaskTypes
    <3>2. OneRowPerSubscriber' /\ OneInHand' /\ GuardKnowsTasks' /\ AheadIsUntouched'
      BY <2>2, <3>1, TaskKeepsHands, TaskKeepsRows
    <3>3. RowsTellTheTruth' /\ VisitsWereAskedFor' /\ ResultMatchesMail'
      BY <2>2, <3>1, TaskKeepsTruth
    <3>4. LockFollowsOpenRow'
      BY <2>1, <2>2, <3>1, <3>2, TaskKeepsLock
    <3>. QED BY <3>1, <3>2, <3>3, <3>4 DEF DispatchIInv, DeliveriesAreRight
  <2>3. ASSUME NEW d \in Runs, NEW s \in Subs, EmailSettles(d, s) \/ BootSweeps(d, s)
        PROVE  DispatchIInv'
    BY <1>1, <2>1, <2>3, AroundTypes, SettlingKeeps
  <2>4. ASSUME NEW s \in Subs, RemoveSub(s)
        PROVE  DispatchIInv'
    BY <1>1, <2>1, <2>4, AroundTypes, RemovalKeeps
  <2>5. ASSUME ProcessDies
        PROVE  DispatchIInv'
    BY <1>1, <2>1, <2>5, AroundTypes, DeathKeeps
  <2>. QED BY <1>3, <2>2, <2>3, <2>4, <2>5 DEF DispatchNext
<1>. QED BY <1>2, <1>3

\* However many exit paths fire, whatever raises, is removed or crashes: no
\* subscriber gets a second row for a run, no uncommitted row outlives its
\* dispatch, SQLite's lock is held exactly while one is open, and a row says
\* what became of the email it names, for a status its subscriber asked for.
THEOREM DeliveriesStayRight == DispatchSpec => []DeliveriesAreRight
<1>1. DispatchIInv => DeliveriesAreRight
  BY DEF DispatchIInv
<1>. QED BY <1>1, InitDispatchIInv, NextDispatchIInv, PTL DEF DispatchSpec
=============================================================================
