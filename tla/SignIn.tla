------------------------------- MODULE SignIn -------------------------------
(***************************************************************************)
(* Signing in to one local account of the web application: the rate        *)
(* limiter, the two tiers of lockout, the second factor with its replay    *)
(* counter and its backup codes, and the administrator's remedies, by      *)
(* requests that run concurrently.                                         *)
(*                                                                         *)
(* A request loads the rows it needs, decides, and commits.  Between the   *)
(* load and the commit other requests run, and the commit writes only the  *)
(* columns whose value differs from the loaded one (SQLAlchemy's unit of   *)
(* work).  From its first write to its commit a transaction is alone:      *)
(* SQLite has one writer at a time.                                        *)
(*                                                                         *)
(* One tick of the clock is one TOTP period.                               *)
(***************************************************************************)
EXTENDS Naturals, FiniteSets

CONSTANTS
    Requests,        \* HTTP requests (and CLI commands) in flight at once
    IpLimit,         \* login_rate_limit_attempts
    UserLimit,       \* _USER_RATE_LIMIT_ATTEMPTS of the second phase
    RateWindow,      \* width of both sliding windows
    Tier1Threshold, Tier1Window, Tier1Lock,
    Tier2Threshold, Tier2Locks, Tier2Window,
    MfaTtl,          \* life of a pending second-factor token
    MaxCalls,        \* bound on the requests that get past the rate limiter
    MaxTime,         \* bound on the clock
    MaxMints         \* bound on enrolments and regenerations together

ASSUME SignInAssumption ==
    /\ IsFiniteSet(Requests)
    /\ {IpLimit, UserLimit, RateWindow, Tier1Window, Tier2Window} \subseteq Nat
    /\ {Tier1Threshold, Tier1Lock, Tier2Threshold, Tier2Locks} \subseteq Nat \ {0}
    /\ {MfaTtl, MaxCalls, MaxMints} \subseteq Nat \ {0}
    /\ MaxTime \in Nat /\ MaxTime > 1

VARIABLES
    now,         \* the clock
    store,       \* rate limiter: bucket -> the hits it still holds
    account,     \* columns of the user row
    rows,        \* login_attempt: the failures that tier 1 counts
    autos,       \* login_attempt: the tier1_auto rows
    factor,      \* the user_totp row; id 0 when there is none
    codes,       \* unconsumed backup codes, each named by the mint it is of
    mints,       \* mints so far
    unseen,      \* history: codes minted while a reset that had counted them was under way
    pending,     \* expiry of the newest pending token, by its must_enroll flag
    require2fa,  \* the tenant setting
    session,     \* whether the owner holds an accepted access token
    calls,       \* requests so far (a bound)
    pc, seen, fac, kept,   \* per request: location, loaded user, factor and codes
    guesses,     \* history: the rows of wrong passwords
    relief,      \* history: when a lock was last lifted, 0 for never
    admitted,    \* history: bucket -> every hit it admitted
    spent, used, overlapped   \* history

db == <<account, rows, autos, factor, codes, mints, unseen>>
local == <<calls, pc, seen, fac, kept>>
history == <<guesses, relief, admitted, spent, used, overlapped>>
vars == <<now, store, db, pending, require2fa, session, local, history>>

Time == 1..MaxTime
Buckets == {"ip", "user"}
Limit == [ip |-> IpLimit, user |-> UserLimit]
NoFactor == [id |-> 0, last |-> 0]
NobodySeen == [status |-> "active", failed |-> 0, until |-> 0]
SignInLocations == {"password", "totp", "backup", "enrol"}
OwnLocations == {"confirm", "regenerate", "disable"}
AdminLocations == {"unlock", "recover", "reset"}
UsesAccount == SignInLocations \cup {"unlock", "recover"}
UsesFactor == {"totp", "regenerate", "disable", "reset"}

\* A log holds entries of a time, each with a number of its own; the next one,
\* and those that a window of w ticks holds.
Entry(log) == [id |-> Cardinality(log) + 1, at |-> now]
InWindow(log, w) == {e \in log : e.at + w >= now}

Init ==
    /\ now = 2             \* so that no TOTP step in reach is 0, which stands for none
    /\ store = [k \in Buckets |-> {}]
    /\ account = NobodySeen
    /\ rows = {}
    /\ autos = {}
    /\ factor = NoFactor
    /\ codes = {}
    /\ mints = 0
    /\ unseen = {}
    /\ pending = [e \in BOOLEAN |-> 0]
    /\ require2fa \in BOOLEAN
    /\ session = FALSE
    /\ calls = 0
    /\ pc = [r \in Requests |-> "idle"]
    /\ seen = [r \in Requests |-> NobodySeen]
    /\ fac = [r \in Requests |-> NoFactor]
    /\ kept = [r \in Requests |-> {}]
    /\ guesses = {}
    /\ relief = 0
    /\ admitted = [k \in Buckets |-> {}]
    /\ spent = [c \in 1..MaxMints |-> 0]
    /\ used = [s \in 0..(MaxTime + 1) |-> 0]
    /\ overlapped = FALSE

---------------------------------------------------------------------------
(* The rate limiter: hits older than the window are reaped, then counted.  *)

Reaped(k) == InWindow(store[k], RateWindow)

CheckAndRecord(k, ok) ==
    LET hit == Entry(admitted[k]) IN
    /\ ok = (Cardinality(Reaped(k)) < Limit[k])
    /\ store' = [store EXCEPT ![k] = IF ok THEN Reaped(k) \cup {hit} ELSE Reaped(k)]
    /\ admitted' = IF ok THEN [admitted EXCEPT ![k] = @ \cup {hit}] ELSE admitted

---------------------------------------------------------------------------
(* Loading and leaving.                                                    *)

LockedOut == account.until > now
MayAuthenticate == account.status = "active" /\ ~LockedOut

Enter(r, loc) ==
    /\ calls < MaxCalls
    /\ calls' = calls + 1
    /\ pc' = [pc EXCEPT ![r] = loc]
    /\ seen' = [seen EXCEPT ![r] = IF loc \in UsesAccount THEN account ELSE @]
    /\ fac' = [fac EXCEPT ![r] = IF loc \in UsesFactor THEN factor ELSE @]
    /\ kept' = [kept EXCEPT ![r] = IF loc = "backup" THEN codes ELSE @]

Leave(r) ==
    /\ UNCHANGED calls
    /\ pc' = [pc EXCEPT ![r] = "idle"]
    /\ seen' = [seen EXCEPT ![r] = NobodySeen]
    /\ fac' = [fac EXCEPT ![r] = NoFactor]
    /\ kept' = [kept EXCEPT ![r] = {}]

\* A column is written only when the new value differs from the loaded one.
Written(old, new, current) == IF old = new THEN current ELSE new

---------------------------------------------------------------------------
(* The first phase: email and password.                                    *)

LoginLimited(r) ==
    /\ pc[r] = "idle"
    /\ CheckAndRecord("ip", FALSE)
    /\ UNCHANGED <<now, db, pending, require2fa, session, local, guesses, relief,
                   spent, used, overlapped>>

LoginRejected(r) ==
    /\ pc[r] = "idle"
    /\ CheckAndRecord("ip", TRUE)
    /\ ~MayAuthenticate
    /\ rows' \in {rows, rows \cup {Entry(rows)}}
    /\ UNCHANGED <<now, account, autos, factor, codes, mints, unseen, pending, require2fa,
                   session, local, guesses, relief, spent, used, overlapped>>

LoginLoads(r) ==
    /\ pc[r] = "idle"
    /\ CheckAndRecord("ip", TRUE)
    /\ MayAuthenticate
    /\ Enter(r, "password")
    /\ UNCHANGED <<now, db, pending, require2fa, session, guesses, relief, spent,
                   used, overlapped>>

\* Mutant: the threshold is exceeded, not reached, before tier 1 locks.
FailedAttempt_OffByOne(r, counted) ==
    LET row == seen[r]
        count == row.failed + 1
        rows1 == IF counted THEN rows \cup {Entry(rows)} ELSE rows
        autos1 == autos \cup {Entry(autos)}
        recent == Cardinality(InWindow(rows1, Tier1Window))
        tier1 == recent > Tier1Threshold /\ row.until <= now
        hard == \/ count >= Tier2Threshold
                \/ tier1 /\ Cardinality(InWindow(autos1, Tier2Window)) >= Tier2Locks
    IN
    /\ rows' = rows1
    /\ account' = [account EXCEPT
            !.failed = count,
            !.status = IF hard THEN "locked" ELSE @,
            !.until = IF tier1 /\ count < Tier2Threshold THEN now + Tier1Lock ELSE @]
    /\ autos' = IF tier1 /\ count < Tier2Threshold THEN autos1 ELSE autos
\* The failed attempt of request r: the count, then tier 2 by the count, then
\* tier 1 by the attempt rows, then tier 2 by repeated tier-1 locks.
FailedAttempt(r, counted) ==
    LET row == seen[r]
        count == row.failed + 1
        rows1 == IF counted THEN rows \cup {Entry(rows)} ELSE rows
        autos1 == autos \cup {Entry(autos)}
        recent == Cardinality(InWindow(rows1, Tier1Window))
        tier1 == recent >= Tier1Threshold /\ row.until <= now
        hard == \/ count >= Tier2Threshold
                \/ tier1 /\ Cardinality(InWindow(autos1, Tier2Window)) >= Tier2Locks
    IN
    /\ rows' = rows1
    /\ account' = [account EXCEPT
            !.failed = count,
            !.status = IF hard THEN "locked" ELSE @,
            !.until = IF tier1 /\ count < Tier2Threshold THEN now + Tier1Lock ELSE @]
    /\ autos' = IF tier1 /\ count < Tier2Threshold THEN autos1 ELSE autos

\* The insert of the attempt row may fail: that is logged, and the request goes on.
WrongPassword(r) ==
    /\ pc[r] = "password"
    /\ \/ FailedAttempt(r, TRUE) /\ guesses' = guesses \cup {Entry(rows)}
       \/ FailedAttempt(r, FALSE) /\ UNCHANGED guesses
    /\ Leave(r)
    /\ UNCHANGED <<now, store, factor, codes, mints, unseen, pending, require2fa, session,
                   relief, admitted, spent, used, overlapped>>

MfaChallenge(r) ==
    /\ pc[r] = "password"
    /\ factor.id # 0 \/ require2fa
    /\ pending' = [pending EXCEPT ![factor.id = 0] = now + MfaTtl]
    /\ Leave(r)
    /\ UNCHANGED <<now, store, db, require2fa, session, history>>

\* Mutant: the lockout columns are written whatever was loaded.
LoginSucceeds_Blind(r) ==
    /\ account' = [account EXCEPT !.failed = 0, !.until = 0]
    /\ session' = TRUE
    /\ relief' = now
LoginSucceeds(r) ==
    /\ account' = [account EXCEPT !.failed = Written(seen[r].failed, 0, @),
                                  !.until = Written(seen[r].until, 0, @)]
    /\ session' = TRUE
    /\ relief' = now

PasswordOnly(r) ==
    /\ pc[r] = "password"
    /\ factor.id = 0 /\ ~require2fa
    /\ LoginSucceeds(r)
    /\ Leave(r)
    /\ UNCHANGED <<now, store, rows, autos, factor, codes, mints, unseen, pending, require2fa,
                   guesses, admitted, spent, used, overlapped>>

---------------------------------------------------------------------------
(* The second phase.                                                       *)

TokenFor(enroll) == pending[enroll] > now /\ MayAuthenticate

Login2faLimited(r) ==
    /\ pc[r] = "idle"
    /\ TokenFor(FALSE)
    /\ CheckAndRecord("user", FALSE)
    /\ UNCHANGED <<now, db, pending, require2fa, session, local, guesses, relief,
                   spent, used, overlapped>>

Login2faLoads(r, method) ==
    /\ pc[r] = "idle"
    /\ TokenFor(FALSE)
    /\ CheckAndRecord("user", TRUE)
    /\ (method = "totp") => (factor.id # 0)
    /\ Enter(r, method)
    /\ UNCHANGED <<now, db, pending, require2fa, session, guesses, relief, spent,
                   used, overlapped>>

VerifyCode(step, last) == step + 1 >= now /\ step <= now + 1 /\ step > last

\* The UPDATE of the factor row finds it: an ORM flush that matches no row raises.
FactorStillThere(r) == factor.id = fac[r].id

AdvanceCounter(r, step) ==
    /\ factor' = [factor EXCEPT !.last = step]
    /\ used' = [used EXCEPT ![step] = @ + 1]
    /\ overlapped' = (overlapped \/ factor # fac[r])

TotpAccepted(r, step) ==
    /\ pc[r] = "totp"
    /\ VerifyCode(step, fac[r].last)
    /\ FactorStillThere(r)
    /\ AdvanceCounter(r, step)
    /\ LoginSucceeds(r)
    /\ Leave(r)
    /\ UNCHANGED <<now, store, rows, autos, codes, mints, unseen, pending, require2fa,
                   guesses, admitted, spent>>

\* Mutant: the consuming UPDATE is not conditional on the code being unconsumed.
Consume_Blind(r, c) == c \in kept[r]
Consume(r, c) == c \in kept[r] \cap codes

BackupCodeAccepted(r, c) ==
    /\ pc[r] = "backup"
    /\ Consume(r, c)
    /\ codes' = codes \ {c}
    /\ spent' = [spent EXCEPT ![c] = @ + 1]
    /\ LoginSucceeds(r)
    /\ Leave(r)
    /\ UNCHANGED <<now, store, rows, autos, factor, mints, unseen, pending, require2fa,
                   guesses, admitted, used, overlapped>>

\* A wrong code, a replayed one, or a backup code consumed since it was read: the
\* attempt row is one tier 1 does not count, the failure count is advanced.
MfaCodeRejected(r) ==
    /\ pc[r] \in {"totp", "backup"}
    /\ FailedAttempt(r, FALSE)
    /\ Leave(r)
    /\ UNCHANGED <<now, store, factor, codes, mints, unseen, pending, require2fa, session,
                   history>>

\* The factor was deleted or replaced under a verified code: the flush raises.
FlushFails(r) ==
    /\ \/ pc[r] \in {"totp", "regenerate"} /\ ~FactorStillThere(r)
       \/ pc[r] \in {"enrol", "confirm"} /\ factor.id # 0
    /\ Leave(r)
    /\ UNCHANGED <<now, store, db, pending, require2fa, session, history>>

---------------------------------------------------------------------------
(* Enrolment, forced or by choice, and what the owner does with the factor. *)

EnrollVerifyLoads(r) ==
    /\ pc[r] = "idle"
    /\ TokenFor(TRUE)
    /\ factor.id = 0
    /\ Enter(r, "enrol")
    /\ UNCHANGED <<now, store, db, pending, require2fa, session, history>>

MintBackupCodes(keep) ==
    /\ mints < MaxMints
    /\ mints' = mints + 1
    /\ codes' = keep \cup {mints'}
    /\ unseen' = IF \E a \in Requests : pc[a] = "counted" THEN unseen \cup {mints'} ELSE unseen

InsertFactor(step) ==
    /\ factor.id = 0
    /\ VerifyCode(step, 0)
    /\ MintBackupCodes(codes)
    /\ factor' = [id |-> mints', last |-> step]
    /\ used' = [s \in DOMAIN used |-> IF s = step THEN 1 ELSE 0]

EnrollAndVerify(r, step) ==
    /\ pc[r] = "enrol"
    /\ InsertFactor(step)
    /\ LoginSucceeds(r)
    /\ Leave(r)
    /\ UNCHANGED <<now, store, rows, autos, pending, require2fa, guesses, admitted,
                   spent, overlapped>>

OwnerLoads(r, loc) ==
    /\ pc[r] = "idle"
    /\ session
    /\ MayAuthenticate
    /\ (loc = "confirm") <=> (factor.id = 0)
    /\ (loc = "disable") => ~require2fa
    /\ Enter(r, loc)
    /\ UNCHANGED <<now, store, db, pending, require2fa, session, history>>

EnrollConfirm(r, step) ==
    /\ pc[r] = "confirm"
    /\ InsertFactor(step)
    /\ session' = TRUE
    /\ Leave(r)
    /\ UNCHANGED <<now, store, account, rows, autos, pending, require2fa, guesses,
                   relief, admitted, spent, overlapped>>

Regenerate(r, step) ==
    /\ pc[r] = "regenerate"
    /\ VerifyCode(step, fac[r].last)
    /\ FactorStillThere(r)
    /\ MintBackupCodes({})
    /\ AdvanceCounter(r, step)
    /\ Leave(r)
    /\ UNCHANGED <<now, store, account, rows, autos, pending, require2fa, session,
                   guesses, relief, admitted, spent>>

DisableFactor(r, step) ==
    /\ pc[r] = "disable"
    /\ VerifyCode(step, fac[r].last)
    /\ codes' = {}
    /\ factor' = NoFactor
    /\ Leave(r)
    /\ UNCHANGED <<now, store, account, rows, autos, mints, unseen, pending, require2fa,
                   session, history>>

\* A wrong password or code leaves everything as it was.
OwnerRejected(r) ==
    /\ pc[r] \in OwnLocations \cup {"enrol"}
    /\ Leave(r)
    /\ UNCHANGED <<now, store, db, pending, require2fa, session, history>>

---------------------------------------------------------------------------
(* The remedies of an administrator, over HTTP and on the command line.    *)

AdminLoads(r, loc) ==
    /\ pc[r] = "idle"
    /\ (loc = "unlock") => (account # NobodySeen)    \* a bound: others change nothing
    /\ (loc = "recover") => (account # NobodySeen \/ factor.id # 0 \/ codes # {})
    /\ (loc = "reset") => (session \/ factor.id # 0 \/ codes # {})
    /\ Enter(r, loc)
    /\ UNCHANGED <<now, store, db, pending, require2fa, session, history>>

ClearLockout(r) ==
    /\ account' = [status |-> Written(seen[r].status, "active", account.status),
                   failed |-> Written(seen[r].failed, 0, account.failed),
                   until |-> Written(seen[r].until, 0, account.until)]
    /\ relief' = now

Unlock(r) ==
    /\ pc[r] = "unlock"
    /\ ClearLockout(r)
    /\ Leave(r)
    /\ UNCHANGED <<now, store, rows, autos, factor, codes, mints, unseen, pending, require2fa,
                   session, guesses, admitted, spent, used, overlapped>>

\* The flush of the user row, before the factor and the codes are looked for, makes
\* the rest alone: each is deleted if it is there, unless the 2FA is to be kept.
AdminRecover(r) ==
    /\ pc[r] = "recover"
    /\ ClearLockout(r)
    /\ \/ factor' = NoFactor /\ codes' = {}
       \/ UNCHANGED <<factor, codes>>
    /\ Leave(r)
    /\ UNCHANGED <<now, store, rows, autos, mints, unseen, pending, require2fa, session,
                   guesses, admitted, spent, used, overlapped>>

\* Reset2fa has looked for the factor, waits, and counts the codes; nothing is
\* written yet and others run.
CountCodes(r) ==
    /\ pc[r] = "reset"
    /\ pc' = [pc EXCEPT ![r] = "counted"]
    /\ kept' = [kept EXCEPT ![r] = codes]
    /\ UNCHANGED <<now, store, db, pending, require2fa, session, calls, seen, fac, history>>

\* Mutant: the codes are left to the owner.
Reset2fa_FactorOnly(r) ==
    /\ pc[r] = "counted"
    /\ factor' = IF fac[r].id # 0 THEN NoFactor ELSE factor
    /\ session' = FALSE
    /\ Leave(r)
    /\ UNCHANGED <<now, store, account, rows, autos, codes, mints, unseen, pending,
                   require2fa, history>>

\* It deletes whatever is there now of the two, each if it had found any.
Reset2fa(r) ==
    /\ pc[r] = "counted"
    /\ factor' = IF fac[r].id # 0 THEN NoFactor ELSE factor
    /\ codes' = IF kept[r] # {} THEN {} ELSE codes
    /\ session' = FALSE
    /\ Leave(r)
    /\ UNCHANGED <<now, store, account, rows, autos, mints, unseen, pending, require2fa,
                   history>>

Tick ==
    /\ now < MaxTime
    /\ now' = now + 1
    /\ UNCHANGED <<store, db, pending, require2fa, session, local, history>>

Next ==
    \/ Tick
    \/ \E r \in Requests :
        \/ LoginLimited(r) \/ LoginRejected(r) \/ LoginLoads(r)
        \/ WrongPassword(r) \/ MfaChallenge(r) \/ PasswordOnly(r)
        \/ Login2faLimited(r) \/ MfaCodeRejected(r) \/ FlushFails(r)
        \/ EnrollVerifyLoads(r) \/ OwnerRejected(r)
        \/ Unlock(r) \/ AdminRecover(r) \/ CountCodes(r) \/ Reset2fa(r)
        \/ \E m \in {"totp", "backup"} : Login2faLoads(r, m)
        \/ \E loc \in OwnLocations : OwnerLoads(r, loc)
        \/ \E loc \in AdminLocations : AdminLoads(r, loc)
        \/ \E c \in 1..MaxMints : BackupCodeAccepted(r, c)
        \/ \E s \in DOMAIN used :
            \/ TotpAccepted(r, s) \/ EnrollAndVerify(r, s) \/ EnrollConfirm(r, s)
            \/ Regenerate(r, s) \/ DisableFactor(r, s)

Spec == Init /\ [][Next]_vars

---------------------------------------------------------------------------
UserRow == [status : {"active", "locked"}, failed : Nat, until : Nat]
FactorRow == [id : 0..MaxMints, last : 0..(MaxTime + 1)]

\* The entries of a log are numbered from one on, and none is of the future.
IsLog(log) ==
    /\ IsFiniteSet(log)
    /\ log \subseteq [id : 1..Cardinality(log), at : 1..now]

\* The shape of the state: the rows, the buckets (a refused hit takes no room in
\* one) and what each request holds.
TypeOK ==
    /\ now \in Time /\ calls \in 0..MaxCalls
    /\ \A k \in Buckets : IsLog(admitted[k]) /\ store[k] \subseteq admitted[k]
    /\ \A k \in Buckets : Cardinality(store[k]) <= Limit[k]
    /\ store = [k \in Buckets |-> store[k]] /\ admitted = [k \in Buckets |-> admitted[k]]
    /\ account \in UserRow
    /\ IsLog(rows) /\ IsLog(autos) /\ guesses \subseteq rows
    /\ factor \in FactorRow
    /\ codes \subseteq 1..mints
    /\ mints \in 0..MaxMints /\ unseen \subseteq 1..mints
    /\ pending \in [BOOLEAN -> Nat]
    /\ require2fa \in BOOLEAN /\ session \in BOOLEAN
    /\ pc \in [Requests -> {"idle", "counted"} \cup SignInLocations \cup OwnLocations
                               \cup AdminLocations]
    /\ seen \in [Requests -> UserRow]
    /\ fac \in [Requests -> FactorRow]
    /\ kept \in [Requests -> SUBSET (1..MaxMints)]
    /\ relief \in 0..now
    /\ spent \in [1..MaxMints -> Nat] /\ used \in [0..(MaxTime + 1) -> Nat]
    /\ overlapped \in BOOLEAN

\* Tier 1 bounds the wrong passwords that are tried within one window, however
\* many requests overlap: the threshold and the requests that were under way when
\* the lock fell.  A success or an unlock in the window voids the bound: they lift
\* the lock.  A lock shorter than the window would void it too, and a guess whose
\* attempt row could not be inserted is not among those counted.
GuessBound ==
    \/ relief # 0 /\ relief + Tier1Window > now
    \/ Cardinality({g \in guesses : g.at + Tier1Window > now})
          <= Tier1Threshold + Cardinality(Requests) - 1

\* No stretch of time as wide as the window admits more hits than the limit, for
\* either bucket, wherever the stretch begins.
WindowNeverExceeded ==
    \A k \in Buckets : Cardinality(InWindow(admitted[k], RateWindow)) <= Limit[k]

\* A backup code signs in once, also when two requests read it unconsumed.
BackupCodeOnce == \A c \in 1..MaxMints : spent[c] <= 1

\* A TOTP step is accepted once per secret, unless two verifications overlapped:
\* the counter is read, compared and written back without a condition.
TotpStepOnce == overlapped \/ \A s \in DOMAIN used : used[s] <= 1

\* Backup codes exist only beside the factor they recover, through every race of
\* enrolment, regeneration, disabling, recovery and reset.  The exception: codes that
\* were minted after a reset had counted them stay when it deletes their factor.
CodesFollowFactor == (factor.id = 0) => (codes \subseteq unseen)

\* A lock that is still running is lifted by an administrator, or by a sign-in that
\* loaded the row with an earlier, expired lock on it; a sign-in that loaded no lock
\* leaves alone the lock that fell meanwhile.
LiveLockStays ==
    [][ (account.until > now /\ account'.until < account.until)
        => \E r \in Requests :
            /\ pc'[r] = "idle"
            /\ \/ pc[r] \in {"unlock", "recover"}
               \/ pc[r] \in SignInLocations /\ seen[r].until # 0 ]_vars

\* The shape of the state, and the two bounds on guesses: wrong passwords within one
\* window of the lock, and hits within one window of the limiter.
GuessesAreBounded == TypeOK /\ GuessBound /\ WindowNeverExceeded

\* A one-time code is used once: no backup code and no TOTP step signs in twice, and
\* no backup code outlives its factor, but for one that a reset did not count.
CodesAreSpent == BackupCodeOnce /\ TotpStepOnce /\ CodesFollowFactor

---------------------------------------------------------------------------
(* The inductive invariant these follow from.                              *)

\* A hit that the window still holds has not been reaped.
HitsAreKept == \A k \in Buckets : InWindow(admitted[k], RateWindow) \subseteq store[k]

GuessesSince(t) == {g \in guesses : g.at >= t}
Trying == {r \in Requests : pc[r] = "password"}

\* The beginnings of the windows that end now, and that no relief came after.
Counting(t) == relief < t /\ now < t + Tier1Window

\* As many guesses as the threshold have locked the account since.
GuessesLock ==
    \A t \in Time : Counting(t) /\ Cardinality(GuessesSince(t)) >= Tier1Threshold =>
        account.status = "locked" \/ account.until >= t + Tier1Lock

\* A lock lasts no longer than one granted now; a request with a password to try
\* loaded no live lock.
LocksAreBounded ==
    /\ account.until <= now + Tier1Lock
    /\ \A r \in Trying : seen[r].until <= now

\* What tells a code that was used from one that was not.
UnspentCodes ==
    \A c \in 1..MaxMints : (c \in codes \/ c > mints) => spent[c] = 0
StepsAreCounted ==
    overlapped \/ factor.id = 0 \/ \A s \in 0..(MaxTime + 1) : used[s] > 0 => s <= factor.last
FactorsAreLoaded ==
    \A r \in Requests : pc[r] \in {"totp", "regenerate"} => fac[r].id # 0

\* What a reset has not counted of the codes that are there is unseen.
CountedCodes == \A r \in Requests : pc[r] = "counted" => codes \subseteq kept[r] \cup unseen

SignInIInv ==
    /\ TypeOK /\ CodesAreSpent
    /\ HitsAreKept /\ GuessesLock /\ LocksAreBounded
    /\ UnspentCodes /\ StepsAreCounted /\ FactorsAreLoaded /\ CountedCodes

\* The guesses so far and those still to come of the requests that were let in.  With
\* SignInIInv it is inductive when a lock lasts no shorter than the window.
GuessesToCome ==
    \A t \in Time : Counting(t) =>
        Cardinality(GuessesSince(t)) + Cardinality(Trying) <= Tier1Threshold + Cardinality(Requests) - 1
=============================================================================
