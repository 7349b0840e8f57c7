# sf-bulk-loader in TLA+

The Salesforce Bulk Loader is a FastAPI application. A user defines a *load plan* of ordered *steps*; a
*run* of the plan splits the CSV files of each step into *partitions* and loads each partition as one
Bulk API 2.0 job. Everything runs as coroutines of one process, on one database that all of them and all
HTTP requests share. This directory models the parts of the backend that carry its own logic, checks them
with TLC on small instances and proves what matters most with TLAPS for every instance.

Paths are relative to the repository; `services/` stands for `backend/app/services/`.

## 1. Inventory

| Component | State it keeps | Operations | What is hard | What makes it correct |
|---|---|---|---|---|
| Run coordinator (`services/run_coordinator.py`) | `load_run.status`, the local variables of its coroutine | start, preflight, step loop, threshold and breaker decisions, finalise, cancellation, backstop; the retry of a step | every `await` lets other tasks in; five ways out; status read and written in different round trips | one terminal status, announced once, that the steps' results justify; nothing concluded while work goes on |
| Step executor (`services/step_executor.py`) | the JobRecords of a step | partition, spawn, gather, sweep, query steps | coroutines that fail with any exception | steps never overlap; no row stays unfinished |
| Partition executor (`services/partition_executor.py`, `run_context.py`, `result_persistence.py`) | one JobRecord, its Salesforce job, a semaphore slot, the circuit breaker | create, upload, close, poll, download | stale ORM objects overwrite what others wrote; lost responses; breaker and slots shared by all | a finished row stays finished; every waiting partition gets a slot; a tripped breaker stops submissions |
| Abort endpoint and retry requests (`services/load_run_service.py`) | run and job rows | abort a run; prepare the retry of a step | check and write in two round trips, against running coroutines | abort is not undone; no row is retried twice |
| Salesforce client (`services/salesforce_bulk.py`) | jobs at Salesforce | HTTP with retries | lost responses, retried requests | no job is created twice or forgotten |
| Bulk queries (`services/bulk_query_executor.py`) | a query job, its result pages | create, poll, page | poll cap, partial pages | the file is the whole result of one job, or there is none |
| Token cache (`services/salesforce_auth.py`) | access token and expiry per connection | get, refresh | concurrent refreshes | a token in use is not expired |
| Plan and step services (`services/load_plan_service.py`, `load_step_service.py`, `step_reference_resolver.py`, `api/load_steps.py`) | plans, steps and their sequence, connections they use | create, duplicate, edit, reorder, delete | every check reads what another request may change before the commit | a plan that can be run stays so; references stay in the plan; a plan with runs stays |
| CSV processor and storages (`services/csv_processor.py`, `input_storage.py`, `output_storage.py`) | files | discover, partition, rebuild the partitions of a retry, list, preview | a retry reads files, sizes and numbers that may have changed; result files that are missing; two storages that should behave alike | every row is in exactly one partition; no row is loaded twice or forgotten through any number of retries |
| Run events and WebSockets (`services/run_event_publisher.py`, `utils/ws_manager.py`) | open sockets per run | publish, subscribe | a socket that dies while being written to | no event for a run whose end was announced |
| Notifications (`services/notifications/`) | `_fired_run_ids`, subscriptions, delivery rows | fire, dispatch, channels | several exit paths fire; a transaction open during the channel's calls; SQLite's one writer; crashes with open rows | one row per subscriber, whatever the others answered; the lock is given up |
| Email (`services/email/`) | `email_delivery` rows with leases, backoff tasks | send, claim, retry, boot sweep, reap stale | leases that expire under a live sender; retry lost at a crash | an email ends as sent, failed or skipped, and is sent at most once per claim |
| Settings (`services/settings/`) | `app_setting` rows, a TTL cache | get, set | a get that fills the cache after a set cleared it | a value is never served stale beyond its TTL |
| Authentication (`services/auth.py`, `auth_lockout.py`, `rate_limit.py`, `totp.py`, `pat.py`, `api/auth*.py`) | users, login attempts, tokens, backup codes, sliding windows in memory | login in two phases, lockout tiers, enrolment, reset, personal access tokens | counters read and written by concurrent requests; one-time codes; a watermark in fractions of the seconds that tokens are dated in | guesses are bounded; a live lock stays; a code is accepted once; earlier tokens end |
| Users and administration (`api/admin_users.py`, `api/invitations.py`, `api/profile.py`) | users and their states | invite, accept, promote, demote, deactivate, delete, change the address | the last administrator; links that outlive what happened to their user | an active administrator remains; a deleted user stays deleted; the latest link wins |
| Observability (`backend/app/observability/`) | metrics, spans, logs | record | none | out of scope: records, never decides |
| Database, models and migrations (`backend/app/database.py`, `models/`, `alembic/`) | connection pool | sessions | waiting partitions hold connections | no deadlock of the pool |
| HTTP API (`api/`) | none of its own | validation, permission checks | none beyond the services it calls | out of scope except where named above |
| Frontend (`frontend/`) | React Query caches | pages, polling | polling stops at terminal states | out of scope in this development so far |
| Cutover script (`backend/scripts/migrate_sqlite_to_postgres.py`) | two databases and the revision each is stamped with | validate, migrate, verify | pages without a snapshot; two transactions; a lost commit; writers that were not stopped | a migration is there as a whole or not at all, and is the source |
| MCP server, Electron shell, infrastructure, tests | - | - | - | out of scope |

How they interact. A request creates a `pending` run row and a background task that becomes the
coordinator. The coordinator spawns a step's coroutines and waits for them in `asyncio.gather`. They share
the run's semaphore and its `RunContext`, the database and Salesforce; the abort endpoint shares the
database with all of them and nothing else. The coordinator ends by writing the run's status, publishing a
WebSocket event and firing the notifications, which go out through the email service or a webhook.

## 2. Modules

| Module | What it is |
|---|---|
| `PartitionJobs` | the partition coroutine (`process_partition`), the rows it shares, Salesforce, the abort endpoint |
| `LoadRun` | EXTENDS `PartitionJobs`: the coordinator of a full run and the step executor; properties; the inductive invariant |
| `RetryRun` | EXTENDS `PartitionJobs`: the coordinator of a step's retry |
| `RunContract` | the abstract specification of a run that both implement |
| `EmailDelivery` | `EmailService` and the delivery log, over several worker processes that die and boot |
| `NotificationDispatch` | the fan-out of a run's end to its subscribers, on PostgreSQL and on SQLite |
| `QueryExport` | a query step in detail: token, query job, pages, output file, record |
| `StepInput` | what jobs are made of: files, partitions, and the partitions of a retry; listing and preview |
| `LoadRunDocs`, `StepInputDocs` | what the documentation says of a completed run and of a retry, and the code does not keep |
| `PlanEdit` | plans, steps and connections, edited by several clients |
| `SignIn` | rate limiter, lockout, second factor, and the remedies |
| `Accounts` | the states of users, their links and tokens, and which access tokens are let in |
| `Migration` | the cutover from SQLite to PostgreSQL |
| `MCLoadRun`, `MCRetryRun`, `MCEmailDelivery`, `MCNotification`, `MCQueryExport`, `MCStepInput`, `MCPlanEdit`, `MCSignIn`, `MCAccounts`, `MCMigration` | instances for TLC |
| `LoadRunProofs`, `RetryProofs` (retry runs and the rows they carry), `DeliveryProofs` (emails and notifications), `PlanEditProofs`, `AccountsProofs`, `SignInProofs`, `QueryExportProofs`, `MigrationProofs` | lemmas, theorems and proofs |

How they compose: `LoadRun` and `RetryRun` extend `PartitionJobs` with a coordinator each, and both refine
`RunContract`. `NotificationDispatch` begins where `RunContract` ends: its `Fire` is the notification a run
sends, from any of its exit paths. It knows of `EmailDelivery` only the status of the row that
`EmailService.send` returned, and its later settling by a retry (`EmailSettles`) or by a boot (`BootSweeps`).

`QueryExport` is the query step that `LoadRun` has as one action: its ends are the success, the failure and
the exception (`QueryRaises`) there. `StepInput` is the data of the jobs whose control is `LoadRun` and `RetryRun`: it says
which rows a job carries and leaves out when jobs run. `PlanEdit` is what the plan is before a run reads it.
`SignIn` and `Accounts` share the user row: a lock that falls in `SignIn` is the action `LockOut` of `Accounts`, a
sign-in the action `Login`.

### How the model corresponds to the code

*Granularity.* The backend is one event loop, so code between two `await`s is atomic. Each action of
`PartitionJobs` ends at an `await` that commits to the database or waits for Salesforce; where a handler
awaits twice and the first await changes something another actor can see, it is two actions
(`AbortRead`/`AbortWrite`, `Backstop`/`BackstopWrite`, `CreateJob`/`RecordSfJobId`).

*Rows.* `job[j]` is `job_record.status`, `sfJobId[j]` whether the row names a Salesforce job, `runStatus`
is `load_run.status`. A coroutine never re-reads its row and the ORM writes the changed columns by primary
key, so its write replaces whatever is there: `SetJob` has no guard on the old status.

*Coroutines.* `pc[j]` is the await a partition's coroutine is at. `Holding` is the part of
`process_partition` inside `async with semaphore`, so `SlotFree` counts the coroutines there.

*Coordinator.* `control` is the await the coordinator is at; `outcome` is the status it is about to
announce and `notified` the status its one notification carried. `MarkFailed` stands for both
`_mark_run_failed` and `_mark_run_failed_fresh`.

*Salesforce* is outside the repository: `SalesforceStep` lets a closed job end in any terminal state at any
time, and an open one be aborted.

*Faults.* `Faults` says which faults an instance suffers: `raise`, an exception no handler names, at
awaits of the coordinator and of the coroutines; `cancel`, the cancellation of the coordinator's task; `crash`, the
end of the process. `BulkAPIError`s, lost responses and the poll timeout always happen.

*Left out of the run modules.* A database that fails inside the handlers of `_execute_run` themselves; progress counters and
heartbeats of the poll loop (they touch no modelled variable); preflight counting, which decides
nothing; deletion of the run's rows while it runs.

*Emails.* A row of `email_delivery` is a request's entry in `status`, `attempts`, `claimedBy`, `lease`
and `wait`; `call` is where `EmailService.send` is and `task` what the process that serves the request does
for the row. The columns that hold times are modelled by what is left until then: `Tick` takes one unit
of all of them, and a lease is counted down to `-(Stale + 1)`, past which only "abandoned" can be said of it.
`Claimable` and `Stranded` are the WHERE clauses of the claim and of the boot sweep.
`BackoffSeconds` is the exponential delay with its cap and any jitter. `busy` bounds an attempt: each phase
of an SMTP session has `email_timeout_seconds` of its own. `StaleCoversSend` assumes that an attempt
is over before its lease counts as abandoned. The defaults give 60 s + 15 min for sessions of
about two minutes; the settings do not enforce it.

*Notifications.* `pc` is the await a run's dispatch task is at, `note` the `notification_delivery` row,
"open" while the transaction that inserted it is, and `mail` the email row it leads to. The transaction of
`_dispatch` is open while the channel works, which on SQLite (`SingleWriter`) holds the one write
lock: every other writer, the channel's own email insert included, waits for `lock` or raises after the
busy timeout. The `engine` of a deployment is chosen in `DispatchInit` (its names differ from those of `EmailDelivery`, so
that one module of proofs can extend both). A process that dies (`ProcessDies`) takes `_fired_run_ids` and the tasks with it, and no exit path of the run is left to
fire. `_FIRED_CACHE_CAP` (2048) is taken to be more than the runs that end between two exit paths
of one run. A channel that raises may have raised after `EmailService` committed its row (the commit that follows the
send, for example): `EmailRaises` leaves such a row sent, failed, or pending with no task to retry it (`orphaned`), beside a
`notification_delivery` row that says failed and names no email (`raised`). Only a later boot ends an orphaned row
(`BootSweeps`); a dispatch that dies in the middle of a send leaves one too (`InMail`). The test endpoint, which dispatches without a run, and the texts of the messages are left out.

*Query steps.* `pc` is the await `run_bulk_query` is at and `attempt` how often its current request was sent
again; the client and the executor have a `_request` loop each, with the same text, and `TryAgain` is both. `sf` are the
query jobs at Salesforce, `job` the one whose id the step knows. A page is a sequence of tokens for header,
newline and rows, and arrives in chunks, so the header is stripped wherever a chunk may end. `out` is the writer of
either storage: the temporary file that `os.replace` moves, or the parts of a multipart upload. `conn` is the
token as the connection row has it and `caller` who is in `get_access_token`; other callers are followed until they hold
a token. A crash loses the memory of the process and keeps what the storage and the database have. Waits between
attempts take no time, polls sleep one tick, and `MaxStore` bounds how long the
storing of an answered token takes. The step counts its rows by the lines of the file: `Broken` are the rows with a line
break in a quoted field, which `CountRows` counts twice. The answer of `CreateMultipartUpload` can be lost like any
other; the upload then is in the storage and nobody knows its id (`orphan`).

*Rows.* In `StepInput` a row is a number and keeps it wherever it goes, so that "loaded twice" and "forgotten" can
be said at all. A job has its rows, the positions Salesforce accepted, and the result files it was left with.
Jobs are finished in order, because no rule of this code looks at that order. A run has a status of its own, which `AbortRun` sets at
once while its jobs go on (`Live`), and only the status decides whether it may be retried. `"failed"` stands for failed and
aborted, `"stuck"` for a job whose record stays unfinished for good although its coroutine has ended; a job that is
incomplete has left rows unprocessed. Between the runs files, the partition size and the
connection may be changed (`Change`), and `upsets` remembers what a retry cannot make up for: a result file that was
lost, a job whose results are unknown or whose record is stuck, a second retry of one run, a retry while jobs of the run go on
(`early`), a source that moved under a job without results.
`prepare_retry_step` refuses what it refuses; where it raises instead (a step without a partition size, a chained
step with a job without results) it creates nothing, and the action is not enabled. That a
retry aborts old jobs at Salesforce, and headers that differ from file to file, are left out. The matcher of patterns and the
writer of partitions (`Buffered`, a row at a time) are recursive functions.

*Plans.* A request of `PlanEdit` loads (`Begin...`), is checked against the tables as they are then, and commits
later, writing the columns that differ from the row it loaded; `overtaken` says that another commit came between. The
database's own constraints (foreign keys, the unique index on names) are checked again at the commit, and where only they
matter (`Duplicate`, `CreatePlan`, `CreateRun`) the request is one action. The NOT NULL reference of
a plan to its Salesforce connection decides nothing here and is left out.

*Sign-in.* `pc` is the handler a request is in, `seen`, `fac` and `kept` the rows it loaded. `Written` is SQLAlchemy's
unit of work: only columns whose value differs from the loaded one are written, so two requests that both
count a failure write the same number. From its first write to its commit a transaction is alone, as on SQLite.
`store` are the limiter's deques: they live in one process, and a refused hit takes no room. They and the rows of `login_attempt` are
logs: sets of entries with a number and a time, so that two of one moment are two, and what a window of them holds can be compared with
what it held before. One tick is one TOTP period; both windows,
the locks and the pending token are counted in it. The wrong codes of the second phase are rate-limited and not counted
by tier 1, as in the code. A login attempt whose row fails to insert is swallowed by the handler: the attempt is then not
counted, and the property counts the written ones. The reset of a second factor by an administrator is three steps, as its
handler awaits twice: it loads the factor (`AdminLoads`), counts the codes (`CountCodes`) and deletes each that it found
(`Reset2fa`); `unseen` are the codes minted after it had counted. The command that recovers an administrator
flushes its user row before it looks, so nobody comes between, and keeps factor and codes if asked to (`AdminRecover`).

*Accounts.* Two ticks are one second, because a token is dated in whole seconds and a watermark may have fractions: that is where
a fresh token can be refused. A request that only inserts after its check is one action. `token` holds the rows of
all four token tables. `raced`, `settled`, `superseded`, `changed` and `redeemed` are history. The expiry of a link
is in the model and is not reached for every kind at this bound.

*Migration.* A table is a function from keys to rows, `up` a reference to the table before, `peer` one to
the own table, which is what `_self_ref_fk_columns` defers. The tables are in foreign-key order, as the script sorts
them. `tx` is the target inside the migration's transaction and `tgt` as committed; others may write to either
database between any two pages. The commit's answer can be lost, with and without the commit. That both URLs are
reachable and of the right kind is a precondition; the summary only warns and is left out. The health endpoint answers exactly when a backend
runs. Counting all tables is one step, deleting them in reverse order is one step. Two migrations at once are not modelled.

## 3. Runs

| Run | Instance | What it shows |
|---|---|---|
| `load_run` | a DML step of up to 2 partitions, then a query step; 1 slot; breaker at 1; threshold 50 %; the plan continues over failed steps; every fault | the safety properties on every way a run can end, the inductive invariant, which final status the results justify (`CompletedIsEarned`), that a tripped breaker stops the waiting partition, that every run ends, which needs the waiting partition to get its turn, and that `LoadRun` implements `RunContract` |
| `doc_completed_run` | a step of up to 2 partitions, 2 slots, threshold 10 %, the plan aborts on a failed step; no faults | a run is completed although every job of its step failed (section 5) |
| `retry_run` | 2 partitions, 2 slots, every fault | the retry of a step settles, keeps the contract, and ends |
| `email_delivery` | three requests, two of them with one key; two workers; 2 attempts; lease and stale margin 1, attempts up to 2; exceptions and one crash | the safety properties of the delivery log, and that an email settles unless the work on it was cut short |
| `notification_dispatch` | two runs, an email and a webhook subscriber, every fault, on SQLite or PostgreSQL | one row per subscriber, rows that tell the truth also beside a channel that raises after its email was sent, everyone's turn, and a write lock that follows the open row and is given up |
| `query_export` | local storage or S3; two callers of the token; 2 retries; two pages of up to two rows; poll cap 2 | a file is the whole result or absent, the record follows it and counts its lines, what stays in the storage could not be removed or lost its id, a job at Salesforce is the known one or a lost answer, a job given up has no result, tokens last, the step ends |
| `step_input` | two folders, four paths, sizes 1 (the default, for NULL) and 2, either storage, a chained step with three kinds of export; three events (runs, retries, losses, edits), aborts at any time | partitions cover the source; no row is loaded twice or forgotten through aborts and retries; a retry has work; listing, browsing, matching and preview agree with what a run reads |
| `plan_edit` | two clients, three requests of every kind, two plans, four steps, one connection | what concurrent edits cannot do to a plan |
| `sign_in` | one account, two requests at once, five in all; thresholds 2 and 4; the limiter's window of one period, tier 1's window and lock of two | the bound on guesses, the windows, one-time codes, codes that go with their factor but for those a reset had not counted, and a lock that stays |
| `accounts` | two administrators and an invited user, two requests at once, four in all, two tokens, two seconds | administrators, deleted users, links, watermarks and the tokens that changes hand out, under overlapping requests |
| `migration` | two tables, three keys, pages and samples of one row; eleven starting points; two commands, two writes of others | a migration is all or nothing and faithful; the stamp tells the schema unless the source was upgraded under it; verify is neither deaf nor jumpy |
| `doc_retry_rows` | four paths with one file of two rows, one export, three events | a retry of a retry sends rows that were loaded (section 5) |

Where a component has many small promises, a run checks them as one named conjunction, and its definition names the parts:

| Property | Parts |
|---|---|
| `RetryIsSound` | `TypeOK`, `RetrySettles` |
| `DeliveriesAreRight` | `TypeOK`, `OneRowPerSubscriber`, `LockFollowsOpenRow`, `RowsTellTheTruth` |
| `ResultIsWhole`, `LeftoversAreKnown` | `TypeOK`, `FileIsWhole`, `RecordFollowsFile`; `NothingLeftBehind`, `JobsAreKnownOrLost`, `UnfinishedJobsHaveNoResult` |
| `JobsCarrySource`, `ViewsAgree` | `InputTypeOK`, `PartitionsCoverSource`, `RetryHasWork`, `ChainedReadsOwnExport`; `GlobIsAnExpansion`, `PreviewIsAWindow`, `BrowsingFindsInputs`, `ListingsAgree`, `PreviewTellsRun` |
| `TablesAreSound`, `EditsKeepPlan` | `TypeOK`, `ReferencesStayInPlan`, `NamesAreUnique`, `RunsKeepTheirPlan`; `PlanStaysRunnable`, `AppendedIsLast`, `OutputIsKept` |
| `GuessesAreBounded`, `CodesAreSpent` | `TypeOK`, `GuessBound`, `WindowNeverExceeded`; `BackupCodeOnce`, `TotpStepOnce`, `CodesFollowFactor` |
| `LinksAreSpent`, `SessionsFollowPassword`, `EndedStaysEnded` | `TypeOK`, `RedeemedOnce`, `ResetEndsSiblings`; `EarlierSessionsEnd`, `FreshTokenWorks`; `TombstoneStays`, `LatestChangeWins`, `RevocationKept` |
| `CopyIsFaithful`, `TargetIsSafe`, `VerifyTellsTruth` | `TypeOK`, `FaithfulCopy`, `CopiesWhatStays`, `SoundSourceIsCopied`; `AllOrNothing`, `StampIsSchema`, `OnlyForceOverwrites`; `NoFalseAlarm`, `SmallTablesAreCompared` |

Some of these hold only with an exception, and the exception is in the formula, because it is what the code does:
two requests that overlap can take the last administrator away (`AdminsRemain`), accept one TOTP step twice
(`TotpStepOnce`), date a revocation twice (`RevocationKept`) or set the watermark back (`EarlierSessionsEnd`); the token of
an invitation accepted past the beginning of a second is not good in that second (`FreshTokenWorks`, `MidSecond`); codes minted
while a reset deletes what it had counted outlive the factor (`CodesFollowFactor`, `unseen`); a run that was cut
short, by a cancellation, an exception or a crash, leaves rows of its last step unfinished (`SettledWhenAnnounced`, `CutShort`);
a channel that raises leaves a row that names no email (`RowsTellTheTruth`, `raised`); an edit that another
overtook, or of a query step that others read, can leave a plan that cannot be run (`PlanStaysRunnable`); a retry counts
on result files and sources that are still there, and on jobs that have ended (`NoRowTwice`, `NoRowForgotten`); a source that loses rows while it is
copied is not copied whole (`CopiesWhatStays`). The properties say that nothing else does.

*Bounds.* Two steps are the least that show an overlap between steps and a step forgotten by the next.
Two partitions are the least that compete for one slot, and with one slot the second is the one that waits while
the first trips the breaker; that both are under way at once, and finish in either order, is the case of `retry_run`, which
has the same coroutines (`PartitionJobs`) and two slots. One row per partition gives 0 %, 50 % and 100 % errors over two
partitions, and 50 % sits exactly on the threshold of `load_run`; the failing query, which counts one error, exceeds
it. A plan that aborts on a failed step is in `doc_completed_run` and in the theorems, which hold for both.

An attempt that outlives its lease needs `SendTime > Lease`, a sweep that could take it a `Stale` smaller
than the rest; with 2, 1 and 1 `StaleCoversSend` is tight. Two workers are one that sends and one that
boots; two attempts are a first try and a retry. Two subscribers are one that fails and one after it, and two
runs are the least that compete for the lock. `Outcomes` holds one status that every subscription asks for
and one that only some do.

Pages of one row put a boundary between any two rows; a page that ends inside a chunk needs two rows. The poll cap
of 2 ends after more polls than one, and `MaxRetries = 2` distinguishes the last attempt from a later one. A third event in
`step_input` is what a retry of a retry needs, and size 2 over files of two rows and of one gives a
full and a partial partition; one key per page makes S3 continue every listing. Two clients with three requests are an
edit, the one that overtakes it, and one that set the stage. Two requests under threshold 2 are the least that overlap at the
threshold, and the fifth finds the lock of a second tier; `IpLimit` 4 and `UserLimit` 2 are both reached. The lock lasts exactly as long as
the window, as by default (15 minutes each), which is the least for which the bound on guesses holds. Two administrators are the
least that can demote each other; four requests are two that overlap and what went before (an invitation, a
mail). In `migration` the second command is a verify after a migrate, a second migrate, or a migrate after a refused one; of the
starting points each breaks one thing (a NULL, a dangling reference, a cell of another key, other revisions, a
target that is not empty, a backend that runs).

Deadlock is not checked: the modelled systems may stop (a run that ended or whose process died).

*Fairness.* The `FairSpec` of the run modules assumes weak fairness of each coroutine's own progress and of the coordinator's: the event loop
is a FIFO queue, the HTTP client has timeouts, and so every await of the code itself returns. It assumes nothing of
Salesforce, of users or of faults: a job may stay in progress forever. What ends a run then is the
poll cap, so the instances set `PollCap` (the default; `sf_job_max_poll_seconds = 0` opts out,
and then nothing ends a run whose job never does). `EmailDelivery` assumes that time passes and that the
event loop runs what is due: every attempt has a timeout and every sleep an end. It assumes neither that
a process boots nor that it stays alive. `NotificationDispatch` assumes that a dispatch that can go on does, a lock
timeout included; it assumes nothing of email retries, which may never end, nor of a boot. `QueryExport` assumes that its process
goes on while it lives (`QueryStep`, which includes its sleeps); Salesforce may keep a job in progress forever. The other modules
are about safety and assume nothing.

## 4. Proofs

Each theorem holds for every value of the constants that the named assumptions of its module allow: any number of
steps, partitions, slots and rows, of requests and workers, of subscriptions, clients, users, pages and retries.

| Module | Theorem | Statement |
|---|---|---|
| `LoadRunProofs` | `TypeCorrect` | `Spec => []TypeOK` |
| | `Invariance` | `Spec => []IInv` |
| | `SequentialSteps` | `Spec => []StepsAreSequential` |
| | `AnnouncedIsSettled` | `Spec => [](NothingInFlightAtAbort /\ SettledWhenAnnounced)` |
| | `EndsTerminal` | `Spec => [](DoneIsTerminal /\ NotifiedIsFinal)` |
| | `RowsStayFinished` | `Spec => FinishedRowsAreFinal` |
| | `TerminalStatusStays` | `Spec => OnlyAbortRewritesTerminal` |
| | `BreakerStopsSubmission` | `Spec => []TripStopsSubmission` |
| | `CompletedStaysEarned` | `Spec => []CompletedIsEarned` |
| | `ContractKept` | `Spec => KeepsContract`, that is, `LoadRun` implements `RunContract` |
| `RetryProofs` | `RetryInvariance` | `Spec => []RetryIInv` |
| | `RetryStaysSound` | `Spec => []RetryIsSound` |
| | `RetryKeepsContract` | `Spec => KeepsContract`, that is, `RetryRun` implements `RunContract` |
| | `InputInvariance` | `InputSpec => []InputIInv` |
| | `JobsCarry` | `InputSpec => []JobsCarrySource` |
| | `RowsLoadedOnce` | `InputSpec => []NoRowTwice` |
| | `RowsKeepAWay` | `InputSpec => []NoRowForgotten` |
| `DeliveryProofs` | `EmailTypeCorrect` | `Spec => []TypeOK` |
| | `KeysDeliverOnce` | `Spec => []OneDeliveryPerKey` |
| | `SweepIsSafe` | `Spec => SweepSparesLiveSends` |
| | `SettledStays` | `Spec => SettledIsFinal` |
| | `DeliveriesStayRight` | `DispatchSpec => []DeliveriesAreRight` |
| `QueryExportProofs` | `QueryInvariance` | `Spec => []QueryIInv` |
| | `ResultStaysWhole` | `Spec => []ResultIsWhole` |
| | `LeftoversStayKnown` | `Spec => []LeftoversAreKnown` |
| | `TokensOutlast` | `Spec => TokenLasts`, if `MaxStore + Buffer < Lifetime` |
| `PlanEditProofs` | `EditInvariance` | `Spec => []PlanEditIInv` |
| | `TablesStaySound` | `Spec => []TablesAreSound` |
| | `EditsKeepPlans` | `Spec => EditsKeepPlan` |
| `AccountsProofs` | `AccountsInvariance` | `Spec => []AccountsIInv` |
| | `LinksStaySpent` | `Spec => []LinksAreSpent` |
| | `SessionsFollow` | `Spec => SessionsFollowPassword` |
| | `AdminsStay` | `Spec => AdminsRemain` |
| | `EndedIsKept` | `Spec => EndedStaysEnded` |
| `SignInProofs` | `InvariantHolds` | `Spec => []SignInIInv` |
| | `CodesSpent` | `Spec => []CodesAreSpent` |
| | `GuessesBounded` | `Spec => []GuessesAreBounded`, if `Tier1Window <= Tier1Lock` |
| | `WindowsHold` | `Spec => [](TypeOK /\ WindowNeverExceeded)` |
| | `LiveLockHolds` | `Spec => LiveLockStays` |
| `MigrationProofs` | `MigrationInvariance` | `Spec => []MigrationIInv` |
| | `CopyStaysFaithful` | `Spec => []CopyIsFaithful` |
| | `TargetStaysSafe` | `Spec => TargetIsSafe` |
| | `VerifyStaysTruthful` | `Spec => VerifyTellsTruth` |

None of these properties is inductive by itself. Every component has one inductive invariant, of which the theorems
above are consequences. TLC checked each on the instance of its component's run first; only that of `LoadRun`, whose
parts the run needs, stays among the run's properties.

*Runs* (`IInv` of `LoadRun`, `RetryIInv`). That two steps do not overlap depends on
where coroutines can be alive at all (`CoroutinesFollowControl`) and on which rows exist
(`RowsFollowStep`); that a finished row stays finished depends on what rows the coroutines that can still write
find (`RowsAwaitCoroutines`); and what a coordinator may conclude depends on what the status
can be at each of its awaits (`StatusFollowsControl`, `VerdictFollowsControl`). For both coordinators the
sixteen actions of a coroutine come down to one fact, `OnlyItsOwn`: a coroutine changes its own row and
control state, only while it is alive. `BreakerStopsSubmission` has an invariant of its own,
`SlotsInv`: no more holders than slots, and the breaker only trips while the coroutine that trips it
holds its slot. `CompletedStaysEarned` needs that what the coordinator remembers of earlier steps is still what their
results say (`EarnedSoFar`): whether a step is over the threshold depends only on the results gathered from its coroutines
(`GatherResults`), and those stand once the step is behind. A retry has one step, and its invariant says the same of it in less: its coroutines are gathered
before it goes on (`CoroutinesAreGathered`), the rows it swept stay settled (`SweptRowsStay`), and outcome and
status follow its control.

*Rows* (`InputIInv`, with `RowsAreDistinct`: each row of the storage, and of an export, is a row of its own). That the
partitions cover the source is a fact about the writer: at every row, what it has flushed and what it has buffered are the
rows so far (`BufferHolds`), so a file cut into partitions and joined again is the file (`PartitionCsvHolds`,
`PartitionFilesHolds`). That it goes on to hold in a run's jobs is `FirstRunIsSource`. What a retry carries
depends on the results of the run before: a job's results are kept or there are none, and then it loaded nothing
(`ResultsAreKept`). Only a run whose status is terminal is retried (`RunsFollowOrder`, `JobsFollowOrder`), but the jobs of an
aborted one may go on, and what they have loaded since the retry looked is not known to it: unless `upsets` says that this
happened, a retried run has no job alive (`RetriedHaveEnded`). No row is loaded twice because
a retry has only rows that every run before it has and did not load (`RowsDescend`); it needs that retries form a
chain (`RetriesAreSingle`), which two retries of one run break, as `upsets` records. No row is forgotten because each is
loaded, or waits in a job, or is one that the next retry picks up (`RowsGoOn`). Where `upsets` names what a retry
cannot make up for, the properties and the invariant are silent about just that, and `doc_retry_rows` shows what happens then.

*Emails* (`IInv` of `EmailDelivery`, with `StaleCoversSend` among the assumptions). That a sweep spares a live send
cannot be seen from status and lease alone: the
invariant `AttemptHoldsLease` says that lease and attempt were counted down together since they began, so that an
attempt that is still allowed to run (`busy >= 0`) has a lease above `-Stale`. The bound on sends needs
`SendsAreCounted`: a row is sent again only by the task that counted its last attempt. `OneDeliveryPerKey`
is `KeysAreUnique` together with the fact that a request without a row has sent nothing (`NoRowNoWork`).

*Notifications* (`DispatchIInv`). One row per subscriber needs the guard: a run has a task only if
`_fired_run_ids` knows it (`GuardKnowsTasks`), the subscription in hand is no longer to visit (`OneInHand`), and one
that is still to visit has no row (`AheadIsUntouched`). A row is true because a visit was asked for
(`VisitsWereAskedFor`) and because the result the channel returned is the one its email row had
(`ResultMatchesMail`). A channel that raises has no result to match: its row is `raised`, and of its email only this is
known, that no retry of it is to come.

*Queries* (`QueryIInv`). That the file is whole does not follow from the chunk that is written; it follows from
`WrittenSoFar`: at any time what is written together with what is to come of the page is one page more than before,
whatever the chunks were. With it go the fixed result of a complete job (`ResultStands`), the writer's state at each
await (`WriterFollowsStep`), when a file can exist (`FileFollowsCommit`), the count of create requests
(`RequestsAreCounted`) and who may still be asking for a token (`CallsComeFirst`). That the record counts the lines of
the file is a consequence: a whole file has each row of the job once, and `Broken` ones two lines each. `TokensOutlast` needs that an
answered token is stored before its life less the buffer has passed: 6900 seconds for an UPDATE and a commit. The code does not
look at the clock again, so without this it would be false.

*Plans* (`PlanEditIInv`, with `MaxPlans >= 1` and `MaxSteps >= 2`, which the initial tables need). The
database's constraints (`RowsOK`, and the properties themselves) are what every commit is checked against;
`RequestsAreWhole`, `CheckedReferencesStay` and `UsedStepsHaveRuns` say what still holds of what a request loaded and checked. For
`EditsKeepPlan` the proof shows in addition that a request nobody overtook finds the tables as it checked them (`FreshChecksHold`).

*Accounts* (`AccountsIInv`, with `MaxTime >= 3`, room for the clock `Init` starts with). A link is spent once because the
update that spends it is conditional (`SpentAreUsed`) and because tokens belong to users that exist (`TokensHaveOwners`); a session of before a
password change is refused because the watermark covers every change that no other overlapped
(`MarksCoverChanges`); a fresh token is good because its handler truncates the watermark to the token's second, or, for an
invitation, because it was accepted at the very beginning of one. `RequestsAreOK` says of each request in flight what its handler had checked: which token it
holds, which it made, and that it looked at the row first.

*Sign-in* (`SignInIInv`, with `MaxTime >= 2`, where `Init` starts the clock). The bound on guesses is no invariant by itself: it counts over a
window, and a window that moves on forgets. `GuessesToCome` states it for every beginning of a window that still counts, and adds the
requests with a password to try to the guesses that were made. A request turns from the one into the other when it fails; a new
one is only let in while no lock is live, and then the guesses are fewer than the threshold, because as many as the threshold have
locked the account until the lock's length after that beginning (`GuessesLock`). This is where the lock must last no
shorter than the window. The defaults are 15 minutes for both; no code compares the two settings, and with a shorter lock the bound
is false. `LocksAreBounded` says what a request with a password loaded, so that its
commit cannot shorten the lock that fell meanwhile. The limiter needs only that no hit the window holds was reaped (`HitsAreKept`),
and that a hit is admitted when the deque has room. One-time codes need what tells a used code from another: it is gone (`UnspentCodes`) or
not above the counter (`StepsAreCounted`), and a request that will write the counter loaded a factor (`FactorsAreLoaded`). What a reset under way
has not counted of the codes is unseen (`CountedCodes`), so only such codes can outlive their factor.

*Cutover* (`MigrationIInv`; tables are numbered parents first, keys are finitely many numbers, and each start is a pair of
databases whose columns hold what their types allow). That a migration that is done has copied the source follows from `CopySoFar`:
the tables before the one in hand as a whole, of this one the keys the offset has passed, without their peers, and
nothing of those after it. What the offset has passed is a matter of ranks: a page takes the next ranks (`PageIsNext`), a
table ends only when no rank is left (`EmptyPageIsTheEnd`), and as an insert makes ranks only grow (`RankGrows`), a row
that stays is not skipped by others' writes (`NothingIsMissed`). That a sound source is never refused needs in addition what
validation established and time cannot undo unless the source is upgraded under the migration (`ChecksHold`: revisions only grow, an empty target stays empty if nobody
writes to it). That no row is lost without both flags follows from `TargetIsKept`: the transaction has every row
of the target, also those others insert meanwhile. What verify says rests on what it has compared so far (`VerifiedSoFar`).

*Induction*. The library's induction theorems take an operator, which the provers at hand cannot instantiate, so where a
proof needs induction it is done in first-order terms: `PlanEditProofs` takes a minimal element
of a finite set under a strict order, `MigrationProofs` the smallest or largest of finitely many keys, and `QueryExportProofs` a least counterexample in `0..n`, from which it shows that the
recursive function that joins the pages exists and has its type. `RetryProofs` does the same for the writer of partitions
(`UptoInduction`, `BuffersExist`) and for `FlattenSeq`, of which it proves what the rows of files and of jobs need: how it splits, which
elements it has, and that it has them once if the parts do.

Only model-checked:

- liveness, which is out of the prover's reach: `RunEnds`, `RetryEnds`, `EveryEmailSettles`,
  `EverySubscriberHasItsTurn`, `LockIsReleased`, `QueryEnds`;
- `ViewsAgree` of `StepInput`: it compares two ways to compute the same from the same data (a glob and its expansions, a
  listing and its pages, a preview and the rows), which is induction over patterns and paths, not over steps.

## 5. Where code and documentation differ

Two of the divergences have a run each:

| Run | The documentation says | The code |
|---|---|---|
| `doc_completed_run` | completed means "no failures beyond the error threshold" (`docs/usage/running-loads.md:64`) | a partition that fails before its results, as when its job cannot be created, counts no error (`partition_executor.py:157`), so a run completes with every partition of a step failed |
| `doc_retry_rows` | a retry has "new partitions consisting only of the failed rows from the previous attempt" (`docs/usage/running-loads.md`) | a job without result files is found again by its number in the partitions of the whole source, and a retry numbers its jobs anew; so a retry of a retry can send rows that were loaded, and leave out those that failed |

The actions of the models show the others.

Runs:

- aborted means that the run was stopped (`docs/usage/running-loads.md:67`), but an abort during the last step is
  overwritten with the final status (`run_coordinator.py:902`; `Finalise` has no guard on `runStatus`);
- a run goes pending, running, terminal (`docs/architecture.md`), but `Start` sets `running` over `aborted`;
- a job's status only moves forward (`docs/architecture.md`), but a coroutine writes its next status over the
  `aborted` of the endpoint (`MarkUploading` and the actions after it have no guard on the row);
- the abort cascades to in-flight jobs (docstring of `abort_run`), but `AbortCascade` leaves out `upload_complete`;
- the backend aborts in-flight Bulk API jobs (`docs/usage/running-loads.md`), but `AbortEndpoint` leaves `sf` alone;
- a retry happens "within the existing run" (`docs/usage/running-loads.md:96`), but `prepare_retry_step` makes a new
  `load_run`, and nothing keeps two requests from making two;
- a retry needs a run in a terminal state (`load_run_service.py:155`), which an abort sets before the coroutines end: a retry
  of a run just aborted sends again rows that its jobs may still load (`early` in `StepInput`);
- a job that is left unfinished by a run that was cut short is in no terminal state, and a retry passes it over: its
  rows can be had only by a new run (`stuck`);
- a step without a partition size falls back to the default (comment at `csv_processor.py:361`), but a retry of one
  raises first; the retry of a chained step (described at `docs/usage/chaining-steps.md:127`) raises when a job has no result files, as
  its pattern is NULL. Missing result files are skipped silently, and the rows of all files are pooled
  under the header of the first;
- a query job that timed out is left at Salesforce; the query of an updated connection runs with the cached token until it expires.

Emails and notifications:

- the boot sweep only touches rows whose lease expired long ago (`docs/specs/implemented/email-service-spec.md:388`), but a
  row that waits for its retry has no lease, and the sweep takes rows without one (`delivery_log.py:245`);
- any worker can pick up an email's retry (the email specification), but only `Reclaim`, by the process that
  scheduled it, does; this is why `EveryEmailSettles` excepts dropped work;
- an email notification has an email row (`models/notification_delivery.py:4`), but on SQLite its insert waits for
  the lock that the dispatch holds, until it fails (`dispatcher.py:226`);
- a notification's row will reflect the eventual outcome (`services/notifications/channels/base.py:28-31`), but
  `EmailSettles` leaves `note` alone;
- the SMTP backend "never raises" (`services/email/backends/smtp.py:178`) and raises at line 186, after `EmailService` committed its row:
  the notification then says failed and names no email, beside an email that waits for a boot (`raised`, `orphaned`);
- notifications must not affect run status (`services/notifications/__init__.py`), but on
  SQLite `lock` is held through up to three posts of ten seconds each, longer than the busy timeout of a run's write.

What is said of SQLite concerns the transaction's extent, not its isolation: it does not occur on PostgreSQL,
where no writer waits for another's lock.

Accounts:

- `accept_invitation` "returns a JWT so the user is immediately logged in" (`api/invitations.py:161`), but it dates the
  watermark in fractions of a second and the token in whole seconds, so unless a second begins in between the token is
  refused; the other handlers truncate the watermark for this reason (`Truncated`);
- `must_reset_password` is described as cleared (`docs/specs/implemented/multi-user-rbac.md:92`), but nothing ever clears it;
- the comment on `password_changed_at` (`models/user.py`) has it moved by an email change, but the confirmation of one
  leaves it alone;
- a reset of a second factor deletes "every row in `user_backup_code`" (`api/admin_users.py:728`), but only if it counted some:
  codes that the owner mints after the count can stay without a factor (`unseen`);
- a second revocation of a personal access token keeps the first date, but not when two requests overlap.

Plans and connections:

- a step reads an earlier step (`docs/usage/chaining-steps.md`, `docs/specs/named-step-outputs.md:77`), which an
  update checks for the step that reads; moving the query step that is read checks nothing of its readers (`load_steps.py:206`);
- a connection that a plan writes to is not deleted (`api/input_connections.py:142`), but the check and the
  delete are apart, and a plan that chose it in between loses its output; its direction can be changed while it is in use.

Input:

- the row count of a query counts physical lines, and a quoted field may hold several (`bulk_query_executor.py:692`,
  `CountRows`); S3 discovery keeps only `.csv`
  keys, local discovery keeps what the pattern matches.

Cutover (`docs/deployment/migrating-to-postgres.md`):

- the target is "left empty" by a failure; it is left as it was, which after `--force` may not be empty;
- "rolled back" is printed when the answer of the commit was lost, although it may have been committed;
- rows that are deleted from a live source while it is read in pages shift those after them over a page's border, and
  `verify` compares counts that may agree again; a NULL that the target will refuse is only a warning for `migrate`, and references to nothing are not looked for by `validate`. Values longer than
  the target's columns (line 161) are kept out of the model by the assumption on `Starts`: they are refused as a NULL is.

## 6. Plan

Modelled so far: runs, retries, emails, notifications, queries, input, plans, sign-in, accounts, cutover. What comes next:

| What | How | Properties |
|---|---|---|
| `SettingsStore` | `services/settings/service.py`: get in three steps, set in two | a value is served no later than a TTL after it was replaced; an email's timeout stays below its lease |
| `ConnPool` | database sessions that partitions take before their slot | somebody can always go on |
| `LiveRun` | WebSocket subscribers of a run | nothing after the end event |

### Not modelled

- *Settings*: the values other modules read are their constants. Known hazards: a `get` that fills the cache after a `set` cleared it
  (`settings/service.py:93`), and the email timeout and lease, which nothing compares (`settings/registry.py:388`).
- *Sessions and pool*: a partition takes a database session before it waits for a slot (`partition_executor.py:100`).
- *Run events and WebSockets*: events are hints; every page that gets them polls the API as well.
- *Recovery of runs*: there is none to model. A run whose process died stays running (`run_coordinator.py:376`), an email whose
  retry task died or whose backend raised (`email/service.py:510`, `backends/smtp.py:186`) waits for the sweep of the next boot, which
  fails it; the properties on ends except these.
- *Frontend, MCP server, Electron shell*: views over the HTTP API, without state of their own that decides anything.
- *Observability, infrastructure, documentation tooling, alembic revisions*: record, package and deploy.
- *Encodings, quoting, hashing, signatures, token formats and message texts*: data that no property tells apart.
