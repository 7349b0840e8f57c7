--------------------------- MODULE EmailDelivery ---------------------------
(***************************************************************************)
(* Outbound email: EmailService.send and its retry task over the           *)
(* email_delivery table, shared by several worker processes.  A row is      *)
(* inserted already leased to its sender; a transient failure releases the *)
(* lease and leaves the retry to an asyncio task of the same process; a    *)
(* booting process fails the rows that look abandoned.                     *)
(*                                                                         *)
(* Time is what is left of each deadline, and Tick takes one unit of all   *)
(* of them.  Request r inserts at most one row, which r also names.        *)
(***************************************************************************)
EXTENDS Integers

CONSTANTS
    Requests,       \* calls of EmailService.send
    Workers,        \* backend processes
    KeyOf, NoKey,   \* the idempotency key a request carries, NoKey if none
    Nobody,         \* claimed_by of a row without a lease
    MaxAttempts,    \* email_max_retries + 1
    Base, Cap,      \* email_retry_backoff_seconds, ..._max_seconds
    Lease,          \* email_claim_lease_seconds
    Stale,          \* email_pending_stale_minutes
    SendTime,       \* the longest one attempt can take: every phase of an SMTP
                    \* session has email_timeout_seconds of its own
    Noop,           \* email_backend = "noop"
    MaxCrashes,     \* bound: how often a process may die
    Faults          \* which of "raise" and "crash" may happen

ASSUME WorkersAreNamed    == Nobody \notin Workers
ASSUME AttemptsArePositive == MaxAttempts \in Nat \ {0}
ASSUME TimesAreNatural    == Base \in Nat /\ Cap \in Nat /\ Lease \in Nat
                                /\ Stale \in Nat /\ SendTime \in Nat
ASSUME CrashesAreNatural  == MaxCrashes \in Nat
\* An attempt is over before its lease counts as abandoned.
ASSUME StaleCoversSend    == SendTime <= Lease + Stale

VARIABLES
    \* the table email_delivery
    status, attempts, claimedBy,
    lease,      \* time left until claim_expires_at, below zero once expired
    wait,       \* time left until next_attempt_at
    \* the processes
    up,         \* is the worker running
    call,       \* where EmailService.send is
    host,       \* the worker that serves the request
    task,       \* what the process does for the row; "dropped" once an
                \* exception or the end of the process cut it short
    busy,       \* time left of the attempt in progress
    sends,      \* backend.send calls made for the row
    crashes

rowVars == <<status, attempts, claimedBy, lease, wait>>
procVars == <<up, call, host, task, busy, sends, crashes>>
vars == <<status, attempts, claimedBy, lease, wait,
          up, call, host, task, busy, sends, crashes>>

DeliveryStatus == {"pending", "sending", "sent", "failed", "skipped"}
Unsettled == {"pending", "sending"}
Settled   == {"sent", "failed", "skipped"}

TypeOK ==
    /\ status    \in [Requests -> DeliveryStatus \cup {"none"}]
    /\ attempts  \in [Requests -> 0..MaxAttempts]
    /\ claimedBy \in [Requests -> Workers \cup {Nobody}]
    /\ lease     \in [Requests -> (-(Stale + 1))..Lease]
    /\ wait      \in [Requests -> 0..(Cap + Base)]
    /\ up        \in [Workers -> BOOLEAN]
    /\ call      \in [Requests -> {"idle", "inserting", "waiting", "returned", "lost"}]
    /\ host      \in [Requests -> Workers]
    /\ task      \in [Requests -> {"none", "attempting", "sleeping", "dropped"}]
    /\ busy      \in [Requests -> 0..SendTime]
    /\ sends     \in [Requests -> 0..MaxAttempts]
    /\ crashes   \in 0..MaxCrashes

\* Any subset of the workers is running already; the others boot later.
Init ==
    /\ status    = [r \in Requests |-> "none"]
    /\ attempts  = [r \in Requests |-> 0]
    /\ claimedBy = [r \in Requests |-> Nobody]
    /\ lease     = [r \in Requests |-> 0]
    /\ wait      = [r \in Requests |-> 0]
    /\ up        \in [Workers -> BOOLEAN]
    /\ call      = [r \in Requests |-> "idle"]
    /\ host      \in [Requests -> Workers]
    /\ task      = [r \in Requests |-> "none"]
    /\ busy      = [r \in Requests |-> 0]
    /\ sends     = [r \in Requests |-> 0]
    /\ crashes   = 0

-----------------------------------------------------------------------------
(* The row, as the helpers of delivery_log write it.                       *)

Release(r) ==
    /\ claimedBy' = [claimedBy EXCEPT ![r] = Nobody]
    /\ lease' = [lease EXCEPT ![r] = 0]

Claim(r) ==
    /\ claimedBy' = [claimedBy EXCEPT ![r] = host[r]]
    /\ lease' = [lease EXCEPT ![r] = Lease]

\* Mutant: the claim does not look at the row's status.
Claimable_AnyStatus(r) ==
    /\ status[r] # "none"
    /\ claimedBy[r] = Nobody \/ lease[r] < 0
    /\ wait[r] = 0

\* The WHERE clause of the claim: any unsettled row without a live lease
\* whose retry is due.
Claimable(r) ==
    /\ status[r] \in Unsettled
    /\ claimedBy[r] = Nobody \/ lease[r] < 0
    /\ wait[r] = 0

\* The UNIQUE constraint on idempotency_key: the rows that hold r's key.
Holding(r) == {s \in Requests : KeyOf[r] # NoKey /\ KeyOf[s] = KeyOf[r] /\ status[s] # "none"}

\* Mutant: the sweep takes every expired lease, without the margin.
Stranded_Expired(r) ==
    /\ status[r] \in Unsettled
    /\ claimedBy[r] = Nobody \/ lease[r] < 0

\* The WHERE clause of the boot sweep.
Stranded(r) ==
    /\ status[r] \in Unsettled
    /\ claimedBy[r] = Nobody \/ lease[r] < -Stale

\* min(base * 2^k, cap) plus a jitter of up to base.
BackoffSeconds(k) ==
    LET raw == IF Base * 2^k < Cap THEN Base * 2^k ELSE Cap
    IN  {d \in 0..(Cap + Base) : raw <= d /\ d <= raw + Base}

-----------------------------------------------------------------------------
(* EmailService.send                                                       *)

\* Step 1: a row with the same idempotency key is returned as it is.
LookUp(r) ==
    /\ call[r] = "idle" /\ up[host[r]]
    /\ call' = [call EXCEPT ![r] = IF Holding(r) = {} THEN "inserting" ELSE "returned"]
    /\ UNCHANGED <<rowVars, up, host, task, busy, sends, crashes>>

BeginAttempt(r) ==
    /\ task' = [task EXCEPT ![r] = "attempting"]
    /\ busy' = [busy EXCEPT ![r] = SendTime]
    /\ sends' = [sends EXCEPT ![r] = @ + 1]

\* Mutant: the column is not unique, the lookup is the only protection.
Insert_NotUnique(r) ==
    /\ call[r] = "inserting"
    /\ status' = [status EXCEPT ![r] = "pending"]
    /\ Claim(r)
    /\ BeginAttempt(r)
    /\ call' = [call EXCEPT ![r] = "waiting"]
    /\ UNCHANGED <<attempts, wait, up, host, crashes>>

\* Step 2: the insert commits a row leased to this worker, and the first
\* attempt begins.  Another request may have inserted the key since LookUp.
Insert(r) ==
    /\ call[r] = "inserting" /\ Holding(r) = {}
    /\ status' = [status EXCEPT ![r] = "pending"]
    /\ Claim(r)
    /\ BeginAttempt(r)
    /\ call' = [call EXCEPT ![r] = "waiting"]
    /\ UNCHANGED <<attempts, wait, up, host, crashes>>

\* The insert raises IntegrityError and the other request's row is returned.
LoseInsertRace(r) ==
    /\ call[r] = "inserting" /\ Holding(r) # {}
    /\ call' = [call EXCEPT ![r] = "returned"]
    /\ UNCHANGED <<rowVars, up, host, task, busy, sends, crashes>>

-----------------------------------------------------------------------------
(* EmailService._attempt and _retry_loop                                   *)

\* send returns after its first attempt, whatever that attempt came to.
ReturnToCaller(r) ==
    call' = [call EXCEPT ![r] = IF @ = "waiting" THEN "returned" ELSE @]

EndAttempt(r, next) ==
    /\ task' = [task EXCEPT ![r] = next]
    /\ busy' = [busy EXCEPT ![r] = 0]
    /\ ReturnToCaller(r)
    /\ UNCHANGED <<up, host, sends, crashes>>

Accepted(r) ==
    /\ task[r] = "attempting"
    /\ status' = [status EXCEPT ![r] = IF Noop THEN "skipped" ELSE "sent"]
    /\ Release(r)
    /\ EndAttempt(r, "none")
    /\ UNCHANGED <<attempts, wait>>

HasRetriesLeft(r) == attempts[r] + 1 < MaxAttempts

\* Mutant: the row is released for its retry but no task is created.
ScheduleRetry_NoTask(r) ==
    /\ task[r] = "attempting" /\ ~Noop
    /\ HasRetriesLeft(r)
    /\ status' = [status EXCEPT ![r] = "pending"]
    /\ attempts' = [attempts EXCEPT ![r] = @ + 1]
    /\ \E delay \in BackoffSeconds(attempts[r]) : wait' = [wait EXCEPT ![r] = delay]
    /\ Release(r)
    /\ EndAttempt(r, "none")

\* A transient failure with attempts left: the row goes back to pending
\* without a lease and a task sleeps until the retry is due.
ScheduleRetry(r) ==
    /\ task[r] = "attempting" /\ ~Noop
    /\ HasRetriesLeft(r)
    /\ status' = [status EXCEPT ![r] = "pending"]
    /\ attempts' = [attempts EXCEPT ![r] = @ + 1]
    /\ \E delay \in BackoffSeconds(attempts[r]) : wait' = [wait EXCEPT ![r] = delay]
    /\ Release(r)
    /\ EndAttempt(r, "sleeping")

\* A permanent failure, or the last attempt failed.
GiveUp(r) ==
    /\ task[r] = "attempting" /\ ~Noop
    /\ status' = [status EXCEPT ![r] = "failed"]
    /\ attempts' = [attempts EXCEPT ![r] = @ + 1]
    /\ wait' = [wait EXCEPT ![r] = 0]
    /\ Release(r)
    /\ EndAttempt(r, "none")

\* The backend raises (SMTP without a password) or the write that records
\* the outcome does: the row stays as it is and nobody works on it.
AttemptRaises(r) ==
    /\ "raise" \in Faults
    /\ task[r] = "attempting"
    /\ EndAttempt(r, "dropped")
    /\ UNCHANGED rowVars

\* The retry task wakes up and wins the claim.
Reclaim(r) ==
    /\ task[r] = "sleeping" /\ wait[r] = 0 /\ Claimable(r)
    /\ status' = [status EXCEPT ![r] = "sending"]
    /\ Claim(r)
    /\ BeginAttempt(r)
    /\ UNCHANGED <<attempts, wait, up, call, host, crashes>>

\* ... or loses it, and ends.
ClaimLost(r) ==
    /\ task[r] = "sleeping" /\ wait[r] = 0 /\ ~Claimable(r)
    /\ task' = [task EXCEPT ![r] = "none"]
    /\ UNCHANGED <<rowVars, up, call, host, busy, sends, crashes>>

-----------------------------------------------------------------------------
(* Processes and time                                                      *)

\* A worker dies with its calls and tasks; the table keeps what was committed.
Crash(w) ==
    /\ "crash" \in Faults /\ crashes < MaxCrashes /\ up[w]
    /\ up' = [up EXCEPT ![w] = FALSE]
    /\ call' = [r \in Requests |->
                  IF host[r] = w /\ call[r] \in {"inserting", "waiting"} THEN "lost" ELSE call[r]]
    /\ task' = [r \in Requests |->
                  IF host[r] = w /\ task[r] # "none" THEN "dropped" ELSE task[r]]
    /\ busy' = [r \in Requests |-> IF host[r] = w THEN 0 ELSE busy[r]]
    /\ crashes' = crashes + 1
    /\ UNCHANGED <<rowVars, host, sends>>

\* The lifespan of a booting worker sweeps the table once.
Boot(w) ==
    /\ ~up[w]
    /\ up' = [up EXCEPT ![w] = TRUE]
    /\ status'    = [r \in Requests |-> IF Stranded(r) THEN "failed" ELSE status[r]]
    /\ claimedBy' = [r \in Requests |-> IF Stranded(r) THEN Nobody ELSE claimedBy[r]]
    /\ lease'     = [r \in Requests |-> IF Stranded(r) THEN 0 ELSE lease[r]]
    /\ UNCHANGED <<attempts, wait, call, host, task, busy, sends, crashes>>

\* Time passes, but an attempt does not outlive its longest duration.
Tick ==
    /\ \A r \in Requests : task[r] = "attempting" => busy[r] > 0
    /\ lease' = [r \in Requests |->
                   IF claimedBy[r] # Nobody /\ lease[r] >= -Stale THEN lease[r] - 1 ELSE lease[r]]
    /\ wait'  = [r \in Requests |-> IF wait[r] > 0 THEN wait[r] - 1 ELSE 0]
    /\ busy'  = [r \in Requests |-> IF task[r] = "attempting" THEN busy[r] - 1 ELSE busy[r]]
    /\ UNCHANGED <<status, attempts, claimedBy, up, call, host, task, sends, crashes>>

SendStep(r) ==
    \/ LookUp(r) \/ Insert(r) \/ LoseInsertRace(r)
    \/ Accepted(r) \/ ScheduleRetry(r) \/ GiveUp(r)
    \/ Reclaim(r) \/ ClaimLost(r)

Next ==
    \/ \E r \in Requests : SendStep(r) \/ AttemptRaises(r)
    \/ \E w \in Workers : Crash(w) \/ Boot(w)
    \/ Tick

Spec == Init /\ [][Next]_vars

\* The event loop runs what can run, attempts are bounded by their timeouts,
\* and time goes on.  Nothing obliges a process to boot.
FairSpec == Spec /\ WF_vars(Tick) /\ \A r \in Requests : WF_vars(SendStep(r))

-----------------------------------------------------------------------------
(* The inductive invariant.                                                *)

\* Requests that share a key share a row.
KeysAreUnique ==
    \A r, s \in Requests :
        KeyOf[r] # NoKey /\ KeyOf[r] = KeyOf[s] /\ status[r] # "none" /\ status[s] # "none"
            => r = s

\* No row: nothing was claimed, sent or begun for the request.
NoRowNoWork ==
    \A r \in Requests :
        (status[r] = "none" \/ call[r] \in {"idle", "inserting"}) =>
            status[r] = "none" /\ task[r] = "none" /\ sends[r] = 0 /\ attempts[r] = 0

\* An attempt works on an unsettled row, and its lease started with it.
AttemptHoldsLease ==
    \A r \in Requests : task[r] = "attempting" =>
        /\ status[r] \in Unsettled
        /\ claimedBy[r] # Nobody
        /\ lease[r] - busy[r] = Lease - SendTime

\* Every send of a row was counted as an attempt, but for the one that is
\* still going on or was cut short; then nobody sends the row again.
SendsAreCounted ==
    \A r \in Requests :
        /\ task[r] = "sleeping"   => sends[r] <= attempts[r] /\ attempts[r] < MaxAttempts
        /\ task[r] = "attempting" => sends[r] <= attempts[r] + 1 /\ attempts[r] < MaxAttempts
        /\ sends[r] > 0 => status[r] # "none"

IInv == TypeOK /\ KeysAreUnique /\ NoRowNoWork /\ AttemptHoldsLease /\ SendsAreCounted

-----------------------------------------------------------------------------
(* What must never go wrong.                                               *)

\* Requests that carry the same key put at most one row's worth of sends on
\* the wire between them, however their lookups and inserts interleave, and
\* no row is handed to the backend more often than its retry budget allows,
\* whatever crashes and sweeps happen in between.
OneDeliveryPerKey ==
    \A r, s \in Requests :
        /\ KeyOf[r] # NoKey /\ KeyOf[r] = KeyOf[s] /\ sends[r] > 0 /\ sends[s] > 0 => r = s
        /\ sends[r] <= MaxAttempts

\* A booting process never fails a row another process is sending at that
\* moment, even when the send has outlived its lease.
SweepSparesLiveSends ==
    [][\A r \in Requests :
          (task[r] = "attempting" /\ task'[r] = "attempting") => status'[r] = status[r]]_vars

\* A settled delivery is settled for good: no late answer, retry or sweep
\* changes it, so what the caller or the delivery log once showed stays true.
SettledIsFinal ==
    [][\A r \in Requests : status[r] \in Settled => status'[r] = status[r]]_status

\* Every email that got a row is settled, through all its retries and whatever
\* other processes die, boot and sweep, unless an exception or the end of its
\* own process cut the work on it short.
EveryEmailSettles ==
    \A r \in Requests :
        (status[r] \in Unsettled) ~> (status[r] \in Settled \/ task[r] = "dropped")
=============================================================================
