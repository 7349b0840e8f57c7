------------------------ MODULE NotificationDispatch ------------------------
(***************************************************************************)
(* Telling the subscribers of a run that it ended:                         *)
(* fire_terminal_notifications starts one background task for a run, and   *)
(* NotificationDispatcher fans out to the matching subscriptions one after *)
(* the other.  For each it flushes a notification_delivery row, calls the  *)
(* channel, and commits.  The transaction stays open while the channel     *)
(* talks to the outside: on SQLite that holds the only write lock of the   *)
(* database, for which EmailService and the running loads wait too.        *)
(***************************************************************************)
EXTENDS Naturals, FiniteSets

CONSTANTS
    Runs,           \* runs that end
    Subs,           \* subscriptions to their plan or to every plan
    ChannelOf,      \* Subs -> {"email", "webhook"}
    TriggerOf,      \* Subs -> {"terminal_any", "terminal_fail_only"}
    Engines,        \* the databases a deployment may run on
    Outcomes,       \* bound: the terminal statuses the runs end with
    MaxPosts,       \* MAX_ATTEMPTS of post_json_with_retry
    NoHolder, NoSub, \* no holder of the lock; no subscription in hand
    DispatchFaults  \* which of "raise", "crash" and "remove" may happen

ASSUME PostsArePositive == MaxPosts \in Nat \ {0}
ASSUME EnginesAreKnown  == Engines \subseteq {"sqlite", "postgresql"}
ASSUME OutcomesAreTerminal ==
    Outcomes \subseteq {"completed", "completed_with_errors", "failed", "aborted"}
ASSUME NamesAreDistinct == NoHolder \notin Runs /\ NoSub \notin Subs
\* _FIRED_CACHE_CAP, 2048, is more than the runs that end between the first
\* and the last exit path of one run, so the set is never cleared in between.

VARIABLES
    crashed,    \* the process, and every coordinator in it, is gone
    fired,      \* _fired_run_ids
    told,       \* the status given to the run's task
    pc,         \* where each run's dispatch task is
    todo,       \* subscriptions its fan-out still has to visit
    sub,        \* the subscription it is visiting
    posts,      \* HTTP attempts made for it
    result,     \* the ChannelResult
    note,       \* status of the notification_delivery row, "open" if uncommitted;
                \* "raised" is failed, for an exception the channel answered for:
                \* its email_delivery_id is null
    rows,       \* rows ever committed for a run and subscription
    mail,       \* the email_delivery row that EmailService keeps; sent or
                \* skipped, it is "sent" here as it is to EmailChannel; one
                \* that is pending, but has no task to retry it, is "orphaned"
    alive,      \* subscriptions that still exist
    lock,       \* the run whose dispatch holds SQLite's write lock
    engine      \* the database of this deployment

fireVars == <<crashed, fired, told>>
taskVars == <<pc, todo, sub, posts, result>>
deliveryVars == <<note, rows, mail, alive>>
dispatchVars == <<crashed, fired, told, pc, todo, sub, posts, result, note, rows, mail, alive,
                  lock, engine>>

TerminalRun  == {"completed", "completed_with_errors", "failed", "aborted"}
FailedRun    == {"completed_with_errors", "failed", "aborted"}

DispatchTypeOK ==
    /\ crashed \in BOOLEAN
    /\ fired \subseteq Runs
    /\ told \in [Runs -> TerminalRun \cup {"none"}]
    /\ pc \in [Runs -> {"none", "selecting", "fanning", "flushing", "sending", "committing", "done"}]
    /\ todo \in [Runs -> SUBSET Subs]
    /\ sub \in [Runs -> Subs \cup {NoSub}]
    /\ posts \in [Runs -> 0..(MaxPosts - 1)]
    /\ result \in [Runs -> {"none", "accepted", "pending", "rejected", "raised"}]
    /\ note \in [Runs -> [Subs -> {"none", "open", "pending", "sent", "failed", "raised"}]]
    /\ rows \in [Runs -> [Subs -> Nat]]
    /\ mail \in [Runs -> [Subs -> {"none", "unsettled", "orphaned", "sent", "failed"}]]
    /\ alive \subseteq Subs
    /\ lock \in Runs \cup {NoHolder}
    /\ engine \in Engines

DispatchInit ==
    /\ crashed = FALSE
    /\ fired = {}
    /\ told = [d \in Runs |-> "none"]
    /\ pc = [d \in Runs |-> "none"]
    /\ todo = [d \in Runs |-> {}]
    /\ sub = [d \in Runs |-> NoSub]
    /\ posts = [d \in Runs |-> 0]
    /\ result = [d \in Runs |-> "none"]
    /\ note = [d \in Runs |-> [s \in Subs |-> "none"]]
    /\ rows = [d \in Runs |-> [s \in Subs |-> 0]]
    /\ mail = [d \in Runs |-> [s \in Subs |-> "none"]]
    /\ alive = Subs
    /\ lock = NoHolder
    /\ engine \in Engines

-----------------------------------------------------------------------------
(* The database lock: with one writer, the first write of a transaction     *)
(* waits for it and raises "database is locked" when the wait is too long.  *)

SingleWriter == engine = "sqlite"

CanWrite == ~SingleWriter \/ lock = NoHolder
MayTimeOut == SingleWriter /\ lock # NoHolder
Acquire(d) == lock' = IF SingleWriter THEN d ELSE lock
ReleaseLock(d) == lock' = IF lock = d THEN NoHolder ELSE lock

-----------------------------------------------------------------------------
(* fire_terminal_notifications and dispatch_run                            *)

\* Mutant: no guard, every exit path starts a task.
Fire_EveryTime(d) ==
    /\ ~crashed /\ pc[d] \in {"none", "done"}
    /\ fired' = fired \cup {d}
    /\ \E status \in Outcomes : told' = [told EXCEPT ![d] = status]
    /\ pc' = [pc EXCEPT ![d] = "selecting"]
    /\ UNCHANGED <<crashed, todo, sub, posts, result, deliveryVars, lock>>

\* An exit path of run d reports a terminal status.  Only the first one
\* starts a task; the others find the run in the set and return.
Fire(d) ==
    /\ ~crashed /\ d \notin fired
    /\ fired' = fired \cup {d}
    /\ \E status \in Outcomes : told' = [told EXCEPT ![d] = status]
    /\ pc' = [pc EXCEPT ![d] = "selecting"]
    /\ UNCHANGED <<crashed, todo, sub, posts, result, deliveryVars, lock>>

Matching(status) ==
    {s \in alive : TriggerOf[s] = "terminal_any" \/ status \in FailedRun}

Select(d) ==
    /\ pc[d] = "selecting"
    /\ todo' = [todo EXCEPT ![d] = Matching(told[d])]
    /\ pc' = [pc EXCEPT ![d] = "fanning"]
    /\ UNCHANGED <<fireVars, sub, posts, result, deliveryVars, lock>>

\* The run row is gone, or the query raises: the task ends.
SelectFails(d) ==
    /\ "raise" \in DispatchFaults
    /\ pc[d] = "selecting"
    /\ pc' = [pc EXCEPT ![d] = "done"]
    /\ UNCHANGED <<fireVars, todo, sub, posts, result, deliveryVars, lock>>

TakeNext(d) ==
    /\ pc[d] = "fanning"
    /\ \E s \in todo[d] :
          /\ sub' = [sub EXCEPT ![d] = s]
          /\ todo' = [todo EXCEPT ![d] = @ \ {s}]
    /\ pc' = [pc EXCEPT ![d] = "flushing"]
    /\ UNCHANGED <<fireVars, posts, result, deliveryVars, lock>>

Finish(d) ==
    /\ pc[d] = "fanning" /\ todo[d] = {}
    /\ pc' = [pc EXCEPT ![d] = "done"]
    /\ UNCHANGED <<fireVars, todo, sub, posts, result, deliveryVars, lock>>

-----------------------------------------------------------------------------
(* _dispatch: one subscription                                             *)

SetNote(d, status) == note' = [note EXCEPT ![d][sub[d]] = status]

\* Back to the fan-out with nothing in hand.
NextSub(d) ==
    /\ pc' = [pc EXCEPT ![d] = "fanning"]
    /\ sub' = [sub EXCEPT ![d] = NoSub]
    /\ posts' = [posts EXCEPT ![d] = 0]
    /\ result' = [result EXCEPT ![d] = "none"]
    /\ UNCHANGED todo

Flush(d) ==
    /\ pc[d] = "flushing" /\ sub[d] \in alive /\ CanWrite
    /\ SetNote(d, "open")
    /\ Acquire(d)
    /\ pc' = [pc EXCEPT ![d] = "sending"]
    /\ UNCHANGED <<fireVars, todo, sub, posts, result, rows, mail, alive>>

\* The subscription was deleted since Select, or the database stays locked:
\* the exception is logged and the fan-out goes on without a row.
FlushFails(d) ==
    /\ pc[d] = "flushing"
    /\ sub[d] \notin alive \/ MayTimeOut
    /\ NextSub(d)
    /\ UNCHANGED <<fireVars, deliveryVars, lock>>

Channel(d, ch) == pc[d] = "sending" /\ ChannelOf[sub[d]] = ch

Answer(d, res) ==
    /\ result' = [result EXCEPT ![d] = res]
    /\ pc' = [pc EXCEPT ![d] = "committing"]
    /\ UNCHANGED <<fireVars, todo, sub, posts, note, rows, alive, lock>>

SetMail(d, status) == mail' = [mail EXCEPT ![d][sub[d]] = status]

\* EmailService commits an email_delivery row of its own and makes its first
\* attempt: accepted, left to a retry, or given up.
SendEmail(d) ==
    /\ Channel(d, "email") /\ CanWrite
    /\ \/ SetMail(d, "sent")      /\ Answer(d, "accepted")
       \/ SetMail(d, "unsettled") /\ Answer(d, "pending")
       \/ SetMail(d, "failed")    /\ Answer(d, "rejected")

\* The channel answers for an exception: there is no email_delivery row (the
\* template does not render, the insert fails), or one that EmailService has
\* committed and left (the backend raises, as SMTP does without a password, or
\* the commit after the send fails), or one whose outcome it could not return.
EmailRaises(d) ==
    /\ Channel(d, "email")
    /\ "raise" \in DispatchFaults
    /\ Answer(d, "raised")
    /\ \/ UNCHANGED mail
       \/ CanWrite /\ \E status \in {"orphaned", "sent", "failed"} : SetMail(d, status)

\* Mutant: the insert waits for as long as it takes.
EmailTimesOut_Waits(d) ==
    /\ Channel(d, "email") /\ MayTimeOut
    /\ UNCHANGED <<fireVars, taskVars, deliveryVars, lock>>

\* The insert of the email_delivery row waits for the lock that this very
\* dispatch holds, until it raises "database is locked".
EmailTimesOut(d) ==
    /\ Channel(d, "email") /\ MayTimeOut
    /\ Answer(d, "raised")
    /\ UNCHANGED mail

\* One POST: a 2xx and a plain 4xx end the attempts, anything else is
\* retried until they are used up.
Post(d) ==
    /\ Channel(d, "webhook")
    /\ UNCHANGED mail
    /\ \/ Answer(d, "accepted")
       \/ Answer(d, "rejected")
       \/ /\ posts[d] + 1 < MaxPosts
          /\ posts' = [posts EXCEPT ![d] = @ + 1]
          /\ UNCHANGED <<fireVars, pc, todo, sub, result, note, rows, alive, lock>>

StatusOf(res) ==
    CASE res = "accepted" -> "sent"
      [] res = "rejected" -> "failed"
      [] OTHER            -> res

\* Mutant: a failed notification ends the fan-out.
Commit_StopsAtFailure(d) ==
    /\ pc[d] = "committing"
    /\ SetNote(d, StatusOf(result[d]))
    /\ rows' = [rows EXCEPT ![d][sub[d]] = @ + 1]
    /\ ReleaseLock(d)
    /\ pc' = [pc EXCEPT ![d] = IF result[d] \in {"rejected", "raised"} THEN "done" ELSE "fanning"]
    /\ sub' = [sub EXCEPT ![d] = NoSub]
    /\ posts' = [posts EXCEPT ![d] = 0]
    /\ result' = [result EXCEPT ![d] = "none"]
    /\ UNCHANGED <<todo, fireVars, mail, alive>>

Commit(d) ==
    /\ pc[d] = "committing"
    /\ SetNote(d, StatusOf(result[d]))
    /\ rows' = [rows EXCEPT ![d][sub[d]] = @ + 1]
    /\ ReleaseLock(d)
    /\ NextSub(d)
    /\ UNCHANGED <<fireVars, mail, alive>>

\* The commit raises: the row is rolled back, whatever the channel did.
CommitFails(d) ==
    /\ "raise" \in DispatchFaults
    /\ pc[d] = "committing"
    /\ SetNote(d, "none")
    /\ ReleaseLock(d)
    /\ NextSub(d)
    /\ UNCHANGED <<fireVars, rows, mail, alive>>

-----------------------------------------------------------------------------
(* What goes on around the dispatch                                        *)

\* The retry task of EmailService settles its own row; nobody writes what
\* came of it into the notification_delivery row.
EmailSettles(d, s) ==
    /\ mail[d][s] = "unsettled" /\ CanWrite
    /\ \E status \in {"sent", "failed"} : mail' = [mail EXCEPT ![d][s] = status]
    /\ UNCHANGED <<fireVars, taskVars, note, rows, alive, lock>>

\* The next boot gives up what the retry tasks of this process left.
BootSweeps(d, s) ==
    /\ crashed /\ mail[d][s] = "orphaned"
    /\ mail' = [mail EXCEPT ![d][s] = "failed"]
    /\ UNCHANGED <<fireVars, taskVars, note, rows, alive, lock>>

\* A user deletes a subscription; its delivery rows go with it.  The foreign
\* key makes the DELETE wait for a dispatch that has the row open.
RemoveSub(s) ==
    /\ "remove" \in DispatchFaults /\ s \in alive /\ CanWrite
    /\ \A d \in Runs : note[d][s] # "open"
    /\ alive' = alive \ {s}
    /\ note' = [d \in Runs |-> [note[d] EXCEPT ![s] = "none"]]
    /\ UNCHANGED <<fireVars, taskVars, rows, mail, lock>>

\* An email that the process dies over: its row is committed, or not yet.
InMail == {d \in Runs : Channel(d, "email") /\ CanWrite}

\* The process dies: open transactions roll back, the guard and the tasks
\* are gone, and so are the coordinators that could fire again.
ProcessDies ==
    /\ "crash" \in DispatchFaults /\ ~crashed
    /\ crashed' = TRUE
    /\ fired' = {}
    /\ pc' = [d \in Runs |-> IF pc[d] = "none" THEN "none" ELSE "done"]
    /\ todo' = [d \in Runs |-> {}]
    /\ sub' = [d \in Runs |-> NoSub]
    /\ posts' = [d \in Runs |-> 0]
    /\ result' = [d \in Runs |-> "none"]
    /\ note' = [d \in Runs |-> [s \in Subs |-> IF note[d][s] = "open" THEN "none" ELSE note[d][s]]]
    /\ \E left \in SUBSET InMail :
          mail' = [d \in Runs |-> [s \in Subs |->
                      IF mail[d][s] = "unsettled" \/ (d \in left /\ s = sub[d])
                      THEN "orphaned" ELSE mail[d][s]]]
    /\ lock' = NoHolder
    /\ UNCHANGED <<told, rows, alive>>

DispatchStep(d) ==
    \/ Select(d) \/ TakeNext(d) \/ Finish(d)
    \/ Flush(d) \/ FlushFails(d)
    \/ SendEmail(d) \/ EmailTimesOut(d) \/ Post(d)
    \/ Commit(d)

DispatchNext ==
    /\ \/ \E d \in Runs : Fire(d) \/ DispatchStep(d)
          \/ SelectFails(d) \/ EmailRaises(d) \/ CommitFails(d)
       \/ \E d \in Runs, s \in Subs : EmailSettles(d, s) \/ BootSweeps(d, s)
       \/ \E s \in Subs : RemoveSub(s)
       \/ ProcessDies
    /\ UNCHANGED engine

DispatchSpec == DispatchInit /\ [][DispatchNext]_dispatchVars

\* A dispatch task that can go on does; nothing is assumed of email retries.
FairDispatchSpec ==
    DispatchSpec /\ \A d \in Runs : WF_dispatchVars(DispatchStep(d) /\ UNCHANGED engine)

-----------------------------------------------------------------------------
(* What must never go wrong.                                               *)

\* However many exit paths of a run fire and whatever crashes or raises in
\* between, no subscriber gets a second row for the run, and no row is left
\* by a transaction that did not commit.
OneRowPerSubscriber ==
    \A d \in Runs, s \in Subs :
        /\ rows[d][s] <= 1
        /\ note[d][s] = "open" <=> (pc[d] \in {"sending", "committing"} /\ sub[d] = s)

\* On SQLite the write lock belongs to a dispatch with its row open and to
\* nobody else: no exit path of _dispatch keeps it.
LockFollowsOpenRow ==
    \A d \in Runs :
        lock = d <=> (SingleWriter /\ \E s \in Subs : note[d][s] = "open")

\* The rows tell the truth: there is one only for a status the subscriber
\* asked for; one that says sent, or names a failed email, belongs to an email
\* that ended so; one that says pending to an email that was left to a retry,
\* whose end it does not follow; and an email with a retry to come has no row
\* that calls it sent or failed.  The exception is a row for an exception of
\* the channel, which names no email: it says failed, and an email may have been sent
\* for it, or lie unsettled until a boot gives it up.
RowsTellTheTruth ==
    \A d \in Runs, s \in Subs :
        /\ note[d][s] # "none" /\ told[d] = "completed" => TriggerOf[s] = "terminal_any"
        /\ ChannelOf[s] = "email" /\ note[d][s] \in {"sent", "failed"} => mail[d][s] = note[d][s]
        /\ note[d][s] = "pending" => ChannelOf[s] = "email" /\ mail[d][s] # "none"
        /\ mail[d][s] = "unsettled" => note[d][s] \in {"open", "pending", "none"}

\* Every subscription that matches has its turn: a subscriber before it that
\* is deleted, fails or raises does not end the fan-out.
EverySubscriberHasItsTurn ==
    \A d \in Runs, s \in Subs : (s \in todo[d]) ~> (s \notin todo[d])

\* Even on SQLite, where EmailService waits for a lock its own caller holds,
\* a dispatch always comes to an end and lets other writers in.
LockIsReleased == (lock # NoHolder) ~> (lock = NoHolder)

\* The shape of the state, and the delivery rows: one per subscriber, true ones, and
\* SQLite's lock held exactly while one is open.
DeliveriesAreRight == DispatchTypeOK /\ OneRowPerSubscriber /\ LockFollowsOpenRow /\ RowsTellTheTruth

-----------------------------------------------------------------------------
(* Why: the inductive invariant.                                           *)

InHand == {"flushing", "sending", "committing"}

\* No transaction has touched the pair: no row, no email, nothing committed.
Untouched(d, s) == rows[d][s] = 0 /\ note[d][s] = "none" /\ mail[d][s] = "none"

\* A run has a task exactly if the guard has seen it, until the process dies.
GuardKnowsTasks ==
    \A d \in Runs :
        /\ pc[d] = "none" => d \notin fired /\ told[d] = "none"
        /\ ~crashed /\ d \notin fired => pc[d] = "none"

\* A task has a subscription in hand exactly between TakeNext and NextSub,
\* and never one that it still has to visit.
OneInHand ==
    \A d \in Runs :
        /\ sub[d] \in Subs <=> pc[d] \in InHand
        /\ sub[d] \notin todo[d]
        /\ pc[d] \in {"none", "selecting"} => todo[d] = {}

\* Everything ahead of the fan-out is untouched.
AheadIsUntouched ==
    \A d \in Runs, s \in Subs :
        \/ pc[d] \in {"none", "selecting"}
        \/ s \in todo[d]
        \/ pc[d] = "flushing" /\ sub[d] = s
        => Untouched(d, s)

\* Whoever is visited, or will be, asked for the status of the run.
VisitsWereAskedFor ==
    \A d \in Runs, s \in Subs :
        (s \in todo[d] \/ sub[d] = s) /\ told[d] = "completed" => TriggerOf[s] = "terminal_any"

\* What the open transaction knows: it has committed no row yet, EmailService
\* has none before the channel is called, and afterwards the result says how
\* its row ended, unless it left it to a retry.
ResultMatchesMail ==
    \A d \in Runs :
        /\ pc[d] \in {"sending", "committing"} => rows[d][sub[d]] = 0
        /\ pc[d] = "sending" => mail[d][sub[d]] = "none"
        /\ pc[d] = "committing" =>
              /\ result[d] # "none"
              /\ ChannelOf[sub[d]] = "email" =>
                    /\ result[d] = "accepted" => mail[d][sub[d]] = "sent"
                    /\ result[d] = "rejected" => mail[d][sub[d]] = "failed"
              /\ result[d] = "pending" => ChannelOf[sub[d]] = "email" /\ mail[d][sub[d]] # "none"
              /\ result[d] # "pending" => mail[d][sub[d]] # "unsettled"

DispatchIInv ==
    DeliveriesAreRight /\ GuardKnowsTasks /\ OneInHand /\ AheadIsUntouched /\ VisitsWereAskedFor
        /\ ResultMatchesMail
=============================================================================
