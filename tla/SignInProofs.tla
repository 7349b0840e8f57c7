---------------------------- MODULE SignInProofs ----------------------------
(* The proofs about SignIn, for any number of requests, any limits, windows, *)
(* thresholds and locks, and clocks and mints of any bound.                  *)
EXTENDS SignIn, FiniteSetTheorems, TLAPS

-----------------------------------------------------------------------------
(* The logs.                                                                *)

LEMMA Constants ==
    /\ IsFiniteSet(Requests)
    /\ IpLimit \in Nat /\ UserLimit \in Nat /\ RateWindow \in Nat
    /\ Tier1Window \in Nat /\ Tier2Window \in Nat
    /\ Tier1Threshold \in Nat /\ Tier1Threshold > 0 /\ Tier1Lock \in Nat /\ Tier1Lock > 0
    /\ Tier2Threshold \in Nat /\ Tier2Threshold > 0 /\ Tier2Locks \in Nat /\ Tier2Locks > 0
    /\ MfaTtl \in Nat /\ MaxCalls \in Nat /\ MaxTime \in Nat /\ MaxMints \in Nat
    /\ MaxCalls > 0 /\ MaxTime > 1 /\ MaxMints > 0
  BY SignInAssumption

\* The next entry of a log is new to it.
LEMMA LogGrows ==
    ASSUME NEW log, IsLog(log), now \in Nat, now > 0
    PROVE  /\ Entry(log) \notin log
           /\ Cardinality(log) \in Nat
           /\ Cardinality(log \cup {Entry(log)}) = Cardinality(log) + 1
           /\ IsLog(log \cup {Entry(log)})
<1>1. Cardinality(log) \in Nat /\ IsFiniteSet(log)
  BY FS_CardinalityType DEF IsLog
<1>2. Entry(log) \notin log
  BY <1>1 DEF IsLog, Entry
<1>3. IsFiniteSet(log \cup {Entry(log)}) /\ Cardinality(log \cup {Entry(log)}) = Cardinality(log) + 1
  BY <1>1, <1>2, FS_AddElement
<1>4. log \cup {Entry(log)} \subseteq [id : 1..(Cardinality(log) + 1), at : 1..now]
  BY <1>1 DEF IsLog, Entry
<1>. QED BY <1>1, <1>2, <1>3, <1>4 DEF IsLog

\* Part of a log is finite and no larger.
LEMMA PartOfLog ==
    ASSUME NEW log, IsFiniteSet(log), NEW part \in SUBSET log
    PROVE  /\ IsFiniteSet(part) /\ Cardinality(part) \in Nat /\ Cardinality(log) \in Nat
           /\ Cardinality(part) <= Cardinality(log)
  BY FS_Subset, FS_CardinalityType

-----------------------------------------------------------------------------
(* The rate limiter.                                                        *)

\* The conjuncts of the invariant that are about the limiter.
LimiterOK ==
    /\ now \in Time
    /\ \A k \in Buckets : IsLog(admitted[k]) /\ store[k] \subseteq admitted[k]
    /\ \A k \in Buckets : Cardinality(store[k]) <= Limit[k]
    /\ store = [k \in Buckets |-> store[k]] /\ admitted = [k \in Buckets |-> admitted[k]]
    /\ HitsAreKept

LEMMA Limits == \A k \in Buckets : Limit[k] \in Nat
  BY Constants DEF Buckets, Limit

LEMMA CheckAndRecordKeeps ==
    ASSUME LimiterOK, NEW b \in Buckets, NEW ok \in BOOLEAN, CheckAndRecord(b, ok), now' = now
    PROVE  LimiterOK'
<1> DEFINE hit == Entry(admitted[b])
<1>1. now \in Nat /\ now > 0
  BY Constants DEF LimiterOK, Time
<1>2. IsLog(admitted[b]) /\ store[b] \subseteq admitted[b] /\ Reaped(b) \subseteq store[b]
  BY DEF LimiterOK, Reaped, InWindow
<1>3. IsFiniteSet(Reaped(b)) /\ Cardinality(Reaped(b)) \in Nat
  BY <1>2, PartOfLog DEF IsLog
<1>4. Cardinality(Reaped(b)) <= Limit[b]
  <2>1. IsFiniteSet(store[b])
    BY <1>2, PartOfLog DEF IsLog
  <2>2. Cardinality(Reaped(b)) <= Cardinality(store[b]) /\ Cardinality(store[b]) \in Nat
    BY <1>2, <2>1, PartOfLog
  <2>. QED BY <1>3, <2>2, Limits DEF LimiterOK
<1>5. InWindow(admitted[b], RateWindow) \subseteq Reaped(b)
  BY DEF LimiterOK, HitsAreKept, Reaped, InWindow
<1>6. \A k \in Buckets \ {b} : store'[k] = store[k] /\ admitted'[k] = admitted[k]
  BY DEF CheckAndRecord, LimiterOK
<1>7. CASE ok
  <2>1. store'[b] = Reaped(b) \cup {hit} /\ admitted'[b] = admitted[b] \cup {hit}
    BY <1>7 DEF CheckAndRecord, LimiterOK
  <2>2. hit \notin admitted[b] /\ IsLog(admitted[b] \cup {hit})
    BY <1>1, <1>2, LogGrows
  <2>3. Cardinality(Reaped(b) \cup {hit}) = Cardinality(Reaped(b)) + 1
    BY <1>2, <1>3, <2>2, FS_AddElement
  <2>4. Cardinality(Reaped(b)) < Limit[b]
    BY <1>7 DEF CheckAndRecord
  <2>5. Cardinality(store'[b]) <= Limit[b]
    BY <1>3, <2>1, <2>3, <2>4, Limits
  <2>6. InWindow(admitted'[b], RateWindow) \subseteq store'[b]
    BY <1>5, <2>1 DEF InWindow
  <2>7. store'[b] \subseteq admitted'[b]
    BY <1>2, <2>1
  <2>. HIDE DEF hit
  <2>8. \A k \in Buckets : IsLog(admitted'[k]) /\ store'[k] \subseteq admitted'[k] /\ Cardinality(store'[k]) <= Limit[k]
    BY <1>6, <2>1, <2>2, <2>5, <2>7 DEF LimiterOK
  <2>9. HitsAreKept'
    BY <1>6, <2>6 DEF LimiterOK, HitsAreKept, InWindow
  <2>10. store' = [k \in Buckets |-> store'[k]] /\ admitted' = [k \in Buckets |-> admitted'[k]]
    BY <1>7 DEF CheckAndRecord, LimiterOK
  <2>. QED BY <2>8, <2>9, <2>10 DEF LimiterOK, IsLog
<1>8. CASE ~ok
  <2>1. store'[b] = Reaped(b) /\ admitted' = admitted
    BY <1>8 DEF CheckAndRecord, LimiterOK
  <2>2. \A k \in Buckets : store'[k] \subseteq admitted[k] /\ Cardinality(store'[k]) <= Limit[k]
    BY <1>2, <1>4, <1>6, <2>1 DEF LimiterOK
  <2>3. HitsAreKept'
    BY <1>5, <1>6, <2>1 DEF LimiterOK, HitsAreKept, InWindow
  <2>4. store' = [k \in Buckets |-> store'[k]]
    BY DEF CheckAndRecord, LimiterOK
  <2>. QED BY <2>1, <2>2, <2>3, <2>4 DEF LimiterOK, IsLog
<1>. QED BY <1>7, <1>8

\* As time passes a window holds fewer hits.
LEMMA TickKeepsLimiter == ASSUME LimiterOK, Tick PROVE LimiterOK'
<1>1. now \in Nat /\ now' = now + 1 /\ now' \in Time /\ store' = store /\ admitted' = admitted
  <2>1. now \in Time /\ now < MaxTime /\ now' = now + 1
    BY DEF LimiterOK, Tick
  <2>2. now \in Nat /\ now' \in Time
    BY <2>1, Constants DEF Time
  <2>. QED BY <2>1, <2>2 DEF Tick, history
<1>2. \A k \in Buckets : IsLog(admitted[k])'
  <2> SUFFICES ASSUME NEW k \in Buckets PROVE IsLog(admitted[k])'
    OBVIOUS
  <2>1. IsLog(admitted[k]) /\ admitted[k] \subseteq [id : 1..Cardinality(admitted[k]), at : 1..now']
    BY <1>1 DEF LimiterOK, IsLog
  <2>. QED BY <1>1, <2>1 DEF IsLog
<1>3. \A k \in Buckets : InWindow(admitted[k], RateWindow)' \subseteq InWindow(admitted[k], RateWindow)
  <2> SUFFICES ASSUME NEW k \in Buckets, NEW e \in admitted[k], e.at + RateWindow >= now + 1
               PROVE  e.at + RateWindow >= now
    BY <1>1 DEF InWindow
  <2>1. e.at \in Nat
    BY <1>1 DEF LimiterOK, IsLog
  <2>. QED BY <1>1, <2>1, Constants
<1>4. HitsAreKept'
  BY <1>1, <1>3 DEF LimiterOK, HitsAreKept
<1>. QED BY <1>1, <1>2, <1>4 DEF LimiterOK

\* What each step does with the limiter.
LEMMA LimiterSteps ==
    ASSUME [Next]_vars
    PROVE  \/ Tick
           \/ now' = now /\ UNCHANGED <<store, admitted>>
           \/ now' = now /\ \E k \in Buckets, ok \in BOOLEAN : CheckAndRecord(k, ok)
<1> USE DEF history, local, db, Buckets
<1>1. ASSUME NEW r \in Requests, CountCodes(r) \/ Reset2fa(r)
      PROVE  now' = now /\ UNCHANGED <<store, admitted>>
  BY <1>1 DEF CountCodes, Reset2fa
<1>2. ASSUME NEW r \in Requests, LoginLimited(r) \/ LoginRejected(r) \/ LoginLoads(r)
      PROVE  now' = now /\ \E k \in Buckets, ok \in BOOLEAN : CheckAndRecord(k, ok)
  BY <1>2 DEF LoginLimited, LoginRejected, LoginLoads
<1>3. ASSUME NEW r \in Requests, Login2faLimited(r) \/ \E m \in {"totp", "backup"} : Login2faLoads(r, m)
      PROVE  now' = now /\ \E k \in Buckets, ok \in BOOLEAN : CheckAndRecord(k, ok)
  BY <1>3 DEF Login2faLimited, Login2faLoads
<1>4. ASSUME NEW r \in Requests, \/ WrongPassword(r) \/ MfaChallenge(r) \/ PasswordOnly(r)
                                 \/ MfaCodeRejected(r) \/ FlushFails(r) \/ EnrollVerifyLoads(r)
                                 \/ OwnerRejected(r) \/ Unlock(r) \/ AdminRecover(r)
      PROVE  now' = now /\ UNCHANGED <<store, admitted>>
  BY <1>4 DEF WrongPassword, MfaChallenge, PasswordOnly, MfaCodeRejected, FlushFails,
              EnrollVerifyLoads, OwnerRejected, Unlock, AdminRecover
<1>5. ASSUME NEW r \in Requests, \/ \E loc \in OwnLocations : OwnerLoads(r, loc)
                                 \/ \E loc \in AdminLocations : AdminLoads(r, loc)
                                 \/ \E c \in 1..MaxMints : BackupCodeAccepted(r, c)
      PROVE  now' = now /\ UNCHANGED <<store, admitted>>
  BY <1>5 DEF OwnerLoads, AdminLoads, BackupCodeAccepted
<1>6. ASSUME NEW r \in Requests, NEW s \in DOMAIN used,
             \/ TotpAccepted(r, s) \/ EnrollAndVerify(r, s) \/ EnrollConfirm(r, s)
             \/ Regenerate(r, s) \/ DisableFactor(r, s)
      PROVE  now' = now /\ UNCHANGED <<store, admitted>>
  BY <1>6 DEF TotpAccepted, EnrollAndVerify, EnrollConfirm, Regenerate, DisableFactor
<1>7. CASE UNCHANGED vars
  BY <1>7 DEF vars
<1>. QED BY <1>1, <1>2, <1>3, <1>4, <1>5, <1>6, <1>7 DEF Next

LEMMA LimiterKept == ASSUME LimiterOK, [Next]_vars PROVE LimiterOK'
<1>1. CASE now' = now /\ UNCHANGED <<store, admitted>>
  BY <1>1 DEF LimiterOK, HitsAreKept, InWindow, IsLog
<1>. QED BY <1>1, LimiterSteps, TickKeepsLimiter, CheckAndRecordKeeps

\* No window admits more hits than the limit: the store still holds all of them.
LEMMA LimiterBounds == ASSUME LimiterOK PROVE WindowNeverExceeded
<1> SUFFICES ASSUME NEW k \in Buckets PROVE Cardinality(InWindow(admitted[k], RateWindow)) <= Limit[k]
  BY DEF WindowNeverExceeded
<1>1. IsFiniteSet(store[k])
  BY PartOfLog DEF LimiterOK, IsLog
<1>2. InWindow(admitted[k], RateWindow) \subseteq store[k]
  BY DEF LimiterOK, HitsAreKept
<1>. QED BY <1>1, <1>2, PartOfLog, Limits DEF LimiterOK

-----------------------------------------------------------------------------
(* The shape of the rest of the state.                                      *)

Locations == {"idle", "counted"} \cup SignInLocations \cup OwnLocations \cup AdminLocations

\* What each request holds, and what it may write.
RequestTypes ==
    /\ calls \in 0..MaxCalls
    /\ pc \in [Requests -> Locations]
    /\ seen \in [Requests -> UserRow]
    /\ fac \in [Requests -> FactorRow]
    /\ kept \in [Requests -> SUBSET (1..MaxMints)]
AccountTypes == now \in Time /\ account \in UserRow /\ relief \in 0..now
FactorTypes ==
    /\ factor \in FactorRow
    /\ codes \subseteq 1..mints
    /\ mints \in 0..MaxMints /\ unseen \subseteq 1..mints
    /\ spent \in [1..MaxMints -> Nat] /\ used \in [0..(MaxTime + 1) -> Nat]
    /\ overlapped \in BOOLEAN
TokenTypes ==
    /\ pending \in [BOOLEAN -> Nat]
    /\ require2fa \in BOOLEAN /\ session \in BOOLEAN
RowTypes == IsLog(rows) /\ IsLog(autos) /\ guesses \subseteq rows

LEMMA TypeParts ==
    TypeOK <=> /\ now \in Time
               /\ \A k \in Buckets : IsLog(admitted[k]) /\ store[k] \subseteq admitted[k]
               /\ \A k \in Buckets : Cardinality(store[k]) <= Limit[k]
               /\ store = [k \in Buckets |-> store[k]] /\ admitted = [k \in Buckets |-> admitted[k]]
               /\ RequestTypes /\ AccountTypes /\ FactorTypes /\ TokenTypes /\ RowTypes
  BY Zenon DEF TypeOK, RequestTypes, AccountTypes, FactorTypes, TokenTypes, RowTypes, Locations

LEMMA NowIsNatural == ASSUME now \in Time PROVE now \in Nat /\ now > 0 /\ now <= MaxTime
  BY Constants DEF Time

\* What the operators that several actions share leave of those parts.
LEMMA EnterTypes ==
    ASSUME RequestTypes, AccountTypes, FactorTypes,
           NEW r \in Requests, NEW loc \in Locations, Enter(r, loc)
    PROVE  RequestTypes'
<1>1. calls' \in 0..MaxCalls
  BY Constants DEF RequestTypes, Enter
<1>2. pc' \in [Requests -> Locations] /\ seen' \in [Requests -> UserRow] /\ fac' \in [Requests -> FactorRow]
  BY DEF RequestTypes, AccountTypes, FactorTypes, Enter
<1>3. codes \in SUBSET (1..MaxMints)
  BY Constants DEF FactorTypes
<1>4. kept' \in [Requests -> SUBSET (1..MaxMints)]
  BY <1>3 DEF RequestTypes, Enter
<1>. QED BY <1>1, <1>2, <1>4 DEF RequestTypes

LEMMA LeaveTypes == ASSUME RequestTypes, NEW r \in Requests, Leave(r) PROVE RequestTypes'
<1>1. NobodySeen \in UserRow /\ NoFactor \in FactorRow
  BY Constants DEF NobodySeen, NoFactor, UserRow, FactorRow
<1>2. "idle" \in Locations
  BY DEF Locations
<1>. QED BY <1>1, <1>2 DEF RequestTypes, Leave

\* What a failed attempt leaves of the account and the logs.
LEMMA FailedAttemptDoes ==
    ASSUME AccountTypes, RequestTypes, RowTypes, NEW r \in Requests, NEW counted \in BOOLEAN,
           FailedAttempt(r, counted)
    PROVE  /\ account' \in UserRow
           /\ rows' = IF counted THEN rows \cup {Entry(rows)} ELSE rows
           /\ autos' \in {autos, autos \cup {Entry(autos)}}
           /\ account'.until = account.until \/ account'.until = now + Tier1Lock
           /\ account'.status = account.status \/ account'.status = "locked"
           /\ Cardinality(InWindow(rows', Tier1Window)) >= Tier1Threshold /\ seen[r].until <= now =>
                account'.status = "locked" \/ account'.until = now + Tier1Lock
<1> DEFINE count == seen[r].failed + 1
           recent == Cardinality(InWindow(rows', Tier1Window))
           tier1 == recent >= Tier1Threshold /\ seen[r].until <= now
           hard == \/ count >= Tier2Threshold
                   \/ tier1 /\ Cardinality(InWindow(autos \cup {Entry(autos)}, Tier2Window)) >= Tier2Locks
<1>1. now \in Nat /\ Tier1Lock \in Nat /\ Tier2Threshold \in Nat
  BY NowIsNatural, Constants DEF AccountTypes
<1>2. count \in Nat
  BY DEF RequestTypes, UserRow
<1>3. rows' = IF counted THEN rows \cup {Entry(rows)} ELSE rows
  BY DEF FailedAttempt
<1>4. autos' = IF tier1 /\ count < Tier2Threshold THEN autos \cup {Entry(autos)} ELSE autos
  BY <1>3, Zenon DEF FailedAttempt
<1>5. account' = [account EXCEPT
            !.failed = count,
            !.status = IF hard THEN "locked" ELSE @,
            !.until = IF tier1 /\ count < Tier2Threshold THEN now + Tier1Lock ELSE @]
  BY <1>3, Zenon DEF FailedAttempt
<1>6. account' = [status |-> IF hard THEN "locked" ELSE account.status, failed |-> count,
                  until |-> IF tier1 /\ count < Tier2Threshold THEN now + Tier1Lock ELSE account.until]
  BY <1>5 DEF AccountTypes, UserRow
<1>7. hard \/ count < Tier2Threshold
  BY <1>1, <1>2
<1>8. Cardinality(InWindow(rows', Tier1Window)) >= Tier1Threshold /\ seen[r].until <= now => tier1
  OBVIOUS
<1>. HIDE DEF tier1, hard, recent, count
<1>. QED BY <1>1, <1>2, <1>3, <1>4, <1>6, <1>7, <1>8 DEF AccountTypes, UserRow

LEMMA LoginSucceedsDoes ==
    ASSUME AccountTypes, RequestTypes, NEW r \in Requests, LoginSucceeds(r)
    PROVE  /\ account' \in UserRow /\ relief' = now /\ session' = TRUE
           /\ account'.until \in {0, account.until}
           /\ seen[r].until = 0 => account'.until = account.until
<1>1. account' = [account EXCEPT !.failed = Written(seen[r].failed, 0, @),
                                 !.until = Written(seen[r].until, 0, @)]
  BY DEF LoginSucceeds
<1>2. Written(seen[r].failed, 0, account.failed) \in Nat /\ Written(seen[r].until, 0, account.until) \in Nat
  BY DEF AccountTypes, RequestTypes, UserRow, Written
<1>3. account' \in UserRow /\ account'.until = Written(seen[r].until, 0, account.until)
  BY <1>1, <1>2 DEF AccountTypes, UserRow
<1>. QED BY <1>3 DEF LoginSucceeds, Written

LEMMA ClearLockoutDoes ==
    ASSUME AccountTypes, RequestTypes, NEW r \in Requests, ClearLockout(r)
    PROVE  /\ account' \in UserRow /\ relief' = now
           /\ account'.until \in {0, account.until}
  BY DEF AccountTypes, RequestTypes, UserRow, Written, ClearLockout

LEMMA VerifiedStep == ASSUME FactorTypes, NEW s \in DOMAIN used PROVE s \in 0..(MaxTime + 1)
  BY DEF FactorTypes

LEMMA AdvanceCounterDoes ==
    ASSUME FactorTypes, NEW r \in Requests, NEW s \in DOMAIN used, AdvanceCounter(r, s)
    PROVE  /\ factor' = [id |-> factor.id, last |-> s] /\ factor' \in FactorRow
           /\ used' = [used EXCEPT ![s] = @ + 1] /\ used' \in [0..(MaxTime + 1) -> Nat]
           /\ overlapped' = (overlapped \/ factor # fac[r]) /\ overlapped' \in BOOLEAN
<1>1. s \in 0..(MaxTime + 1)
  BY VerifiedStep
<1>. QED BY <1>1 DEF AdvanceCounter, FactorTypes, FactorRow

LEMMA MintDoes ==
    ASSUME FactorTypes, NEW keep \in SUBSET codes, MintBackupCodes(keep)
    PROVE  /\ mints' = mints + 1 /\ mints' \in 1..MaxMints
           /\ codes' = keep \cup {mints'} /\ codes' \subseteq 1..mints'
           /\ unseen \subseteq unseen' /\ unseen' \subseteq 1..mints'
           /\ (\E a \in Requests : pc[a] = "counted") => mints' \in unseen'
<1>1. mints \in Nat /\ MaxMints \in Nat /\ mints < MaxMints /\ mints' = mints + 1
  BY Constants DEF FactorTypes, MintBackupCodes
<1>2. keep \subseteq 1..mints /\ unseen \subseteq 1..mints
  BY DEF FactorTypes
<1>3. unseen' = IF \E a \in Requests : pc[a] = "counted" THEN unseen \cup {mints'} ELSE unseen
  BY DEF MintBackupCodes
<1>4. 1..mints \subseteq 1..mints' /\ mints' \in 1..mints'
  BY <1>1
<1>. QED BY <1>1, <1>2, <1>3, <1>4 DEF MintBackupCodes

LEMMA InsertFactorDoes ==
    ASSUME FactorTypes, NEW s \in DOMAIN used, InsertFactor(s)
    PROVE  /\ factor.id = 0
           /\ mints' = mints + 1 /\ mints' \in 1..MaxMints
           /\ codes' = codes \cup {mints'} /\ codes' \subseteq 1..mints'
           /\ unseen \subseteq unseen' /\ unseen' \subseteq 1..mints'
           /\ (\E a \in Requests : pc[a] = "counted") => mints' \in unseen'
           /\ factor' = [id |-> mints', last |-> s] /\ factor' \in FactorRow
           /\ used' = [t \in 0..(MaxTime + 1) |-> IF t = s THEN 1 ELSE 0]
           /\ used' \in [0..(MaxTime + 1) -> Nat]
<1>1. s \in 0..(MaxTime + 1) /\ DOMAIN used = 0..(MaxTime + 1)
  BY VerifiedStep DEF FactorTypes
<1>2. /\ mints' = mints + 1 /\ mints' \in 1..MaxMints
      /\ codes' = codes \cup {mints'} /\ codes' \subseteq 1..mints'
      /\ unseen \subseteq unseen' /\ unseen' \subseteq 1..mints'
      /\ (\E a \in Requests : pc[a] = "counted") => mints' \in unseen'
  BY MintDoes DEF InsertFactor
<1>3. factor' = [id |-> mints', last |-> s] /\ used' = [t \in 0..(MaxTime + 1) |-> IF t = s THEN 1 ELSE 0]
  BY <1>1, Zenon DEF InsertFactor
<1>4. factor' \in FactorRow
  BY <1>1, <1>2, <1>3, Constants DEF FactorRow
<1>5. used' \in [0..(MaxTime + 1) -> Nat]
  BY <1>3
<1>. QED BY <1>2, <1>3, <1>4, <1>5 DEF InsertFactor

-----------------------------------------------------------------------------
(* One lemma for each kind of step, and the parts of the state it leaves.   *)

\* The steps by which a request enters and only its own variables change.
Enters(r, loc) ==
    /\ pc[r] = "idle"
    /\ Enter(r, loc)
    /\ loc = "password" => MayAuthenticate
    /\ loc \in {"totp", "regenerate"} => factor.id # 0
    /\ UNCHANGED <<now, db, pending, require2fa, session, guesses, relief, spent, used, overlapped>>

\* The steps that change no more than a token, a session or what requests hold.
Passes(r) ==
    /\ Leave(r) \/ UNCHANGED local
    /\ UNCHANGED <<now, db, require2fa, session, guesses, relief, spent, used, overlapped>>
    /\ pending' = pending \/ pending' = [pending EXCEPT ![factor.id = 0] = now + MfaTtl]

RequestStep(r) ==
    \/ Reset2fa(r) \/ WrongPassword(r) \/ MfaCodeRejected(r) \/ LoginRejected(r)
    \/ PasswordOnly(r) \/ Unlock(r) \/ AdminRecover(r)
    \/ \E c \in 1..MaxMints : BackupCodeAccepted(r, c)
    \/ \E s \in DOMAIN used :
            \/ TotpAccepted(r, s) \/ EnrollAndVerify(r, s) \/ EnrollConfirm(r, s)
            \/ Regenerate(r, s) \/ DisableFactor(r, s)

LEMMA Steps ==
    ASSUME [Next]_vars
    PROVE  \/ UNCHANGED vars \/ Tick
           \/ \E r \in Requests : \/ \E loc \in Locations \ {"idle", "counted"} : Enters(r, loc)
                                  \/ Passes(r) \/ CountCodes(r)
                                  \/ RequestStep(r)
<1>1. ASSUME NEW r \in Requests, LoginLoads(r) PROVE Enters(r, "password")
  BY <1>1 DEF LoginLoads, Enters
<1>2. ASSUME NEW r \in Requests, NEW m \in {"totp", "backup"}, Login2faLoads(r, m) PROVE Enters(r, m)
  BY <1>2 DEF Login2faLoads, Enters
<1>3. ASSUME NEW r \in Requests, EnrollVerifyLoads(r) PROVE Enters(r, "enrol")
  BY <1>3 DEF EnrollVerifyLoads, Enters, history
<1>4. ASSUME NEW r \in Requests, NEW loc \in OwnLocations, OwnerLoads(r, loc) PROVE Enters(r, loc)
  BY <1>4 DEF OwnerLoads, Enters, OwnLocations, history
<1>5. ASSUME NEW r \in Requests, NEW loc \in AdminLocations, AdminLoads(r, loc) PROVE Enters(r, loc)
  BY <1>5 DEF AdminLoads, Enters, AdminLocations, history
<1>6. ASSUME NEW r \in Requests, LoginLimited(r) \/ MfaChallenge(r) \/ Login2faLimited(r)
                                 \/ FlushFails(r) \/ OwnerRejected(r)
      PROVE  Passes(r)
  BY <1>6 DEF LoginLimited, MfaChallenge, Login2faLimited, FlushFails, OwnerRejected, Passes, history
<1>7. {"password", "totp", "backup", "enrol"} \cup OwnLocations \cup AdminLocations
          \subseteq Locations \ {"idle", "counted"}
  BY DEF Locations, SignInLocations, OwnLocations, AdminLocations
<1>. QED BY <1>1, <1>2, <1>3, <1>4, <1>5, <1>6, <1>7 DEF Next, RequestStep

\* The parts of the invariant that are about requests, the account, the factor and
\* the tokens.
LEMMA EntersTypes ==
    ASSUME RequestTypes, AccountTypes, FactorTypes, TokenTypes, NEW r \in Requests,
           NEW loc \in Locations, Enters(r, loc)
    PROVE  RequestTypes' /\ AccountTypes' /\ FactorTypes' /\ TokenTypes'
<1>1. RequestTypes'
  BY EnterTypes DEF Enters
<1>. QED BY <1>1 DEF Enters, AccountTypes, FactorTypes, TokenTypes, db

LEMMA PassesTypes ==
    ASSUME RequestTypes, AccountTypes, FactorTypes, TokenTypes, NEW r \in Requests, Passes(r)
    PROVE  RequestTypes' /\ AccountTypes' /\ FactorTypes' /\ TokenTypes'
<1>1. RequestTypes'
  <2>1. CASE Leave(r)
    BY <2>1, LeaveTypes
  <2>2. CASE UNCHANGED local
    BY <2>2 DEF local, RequestTypes
  <2>. QED BY <2>1, <2>2 DEF Passes
<1>2. AccountTypes' /\ FactorTypes'
  BY DEF Passes, AccountTypes, FactorTypes, db
<1>3. now + MfaTtl \in Nat
  BY NowIsNatural, Constants DEF AccountTypes
<1>4. TokenTypes'
  BY <1>3 DEF Passes, TokenTypes
<1>. QED BY <1>1, <1>2, <1>4

\* What counting the codes of a reset leaves.
LEMMA CountingTypes ==
    ASSUME RequestTypes, AccountTypes, FactorTypes, TokenTypes, NEW r \in Requests, CountCodes(r)
    PROVE  RequestTypes' /\ AccountTypes' /\ FactorTypes' /\ TokenTypes'
<1>1. codes \in SUBSET (1..MaxMints) /\ "counted" \in Locations
  BY Constants DEF FactorTypes, Locations
<1>2. RequestTypes'
  BY <1>1 DEF CountCodes, RequestTypes
<1>. QED BY <1>2 DEF CountCodes, AccountTypes, FactorTypes, TokenTypes, db, history

\* A wrong password is a failed attempt, whose row was inserted or was not.
LEMMA WrongPasswordDoes ==
    ASSUME NEW r \in Requests, WrongPassword(r)
    PROVE  /\ pc[r] = "password" /\ Leave(r)
           /\ UNCHANGED <<now, store, factor, codes, mints, unseen, pending, require2fa, session,
                          relief, admitted, spent, used, overlapped>>
           /\ \E counted \in BOOLEAN :
                 /\ FailedAttempt(r, counted)
                 /\ guesses' = IF counted THEN guesses \cup {Entry(rows)} ELSE guesses
<1>1. CASE FailedAttempt(r, TRUE) /\ guesses' = guesses \cup {Entry(rows)}
  BY <1>1 DEF WrongPassword
<1>2. CASE FailedAttempt(r, FALSE) /\ UNCHANGED guesses
  BY <1>2 DEF WrongPassword
<1>. QED BY <1>1, <1>2 DEF WrongPassword

LEMMA RequestStepTypes ==
    ASSUME RequestTypes, AccountTypes, FactorTypes, TokenTypes, RowTypes, NEW r \in Requests,
           RequestStep(r)
    PROVE  RequestTypes' /\ AccountTypes' /\ FactorTypes' /\ TokenTypes'
<1>0. NoFactor \in FactorRow /\ now \in Nat
  BY Constants, NowIsNatural DEF NoFactor, FactorRow, AccountTypes
<1>1. CASE WrongPassword(r) \/ MfaCodeRejected(r)
  <2>1. account' \in UserRow
    BY <1>1, FailedAttemptDoes, WrongPasswordDoes DEF MfaCodeRejected
  <2>2. RequestTypes'
    BY <1>1, LeaveTypes, WrongPasswordDoes DEF MfaCodeRejected
  <2>3. UNCHANGED <<now, factor, codes, mints, unseen, pending, require2fa, session, relief, spent,
                    used, overlapped>>
    BY <1>1, WrongPasswordDoes DEF MfaCodeRejected, history
  <2>. QED BY <2>1, <2>2, <2>3 DEF AccountTypes, FactorTypes, TokenTypes
<1>11. CASE Reset2fa(r)
  <2>1. RequestTypes'
    BY <1>11, LeaveTypes DEF Reset2fa
  <2>2. AccountTypes' /\ TokenTypes'
    BY <1>11 DEF Reset2fa, AccountTypes, TokenTypes, history
  <2>3. FactorTypes'
    BY <1>0, <1>11 DEF Reset2fa, FactorTypes, history
  <2>. QED BY <2>1, <2>2, <2>3
<1>2. CASE LoginRejected(r)
  BY <1>2 DEF LoginRejected, AccountTypes, FactorTypes, TokenTypes, RequestTypes, local
<1>3. CASE PasswordOnly(r)
  <2>1. account' \in UserRow /\ relief' = now /\ session' = TRUE
    BY <1>3, LoginSucceedsDoes DEF PasswordOnly
  <2>2. RequestTypes'
    BY <1>3, LeaveTypes DEF PasswordOnly
  <2>. QED BY <1>0, <1>3, <2>1, <2>2 DEF PasswordOnly, AccountTypes, FactorTypes, TokenTypes
<1>4. CASE Unlock(r) \/ AdminRecover(r)
  <2>1. account' \in UserRow /\ relief' = now
    BY <1>4, ClearLockoutDoes DEF Unlock, AdminRecover
  <2>2. RequestTypes'
    BY <1>4, LeaveTypes DEF Unlock, AdminRecover
  <2>3. AccountTypes' /\ TokenTypes'
    BY <1>0, <1>4, <2>1 DEF Unlock, AdminRecover, AccountTypes, TokenTypes
  <2>4. FactorTypes'
    BY <1>0, <1>4 DEF Unlock, AdminRecover, FactorTypes
  <2>. QED BY <2>2, <2>3, <2>4
<1>5. ASSUME NEW c \in 1..MaxMints, BackupCodeAccepted(r, c)
      PROVE  RequestTypes' /\ AccountTypes' /\ FactorTypes' /\ TokenTypes'
  <2>1. account' \in UserRow /\ relief' = now /\ session' = TRUE
    BY <1>5, LoginSucceedsDoes DEF BackupCodeAccepted
  <2>2. RequestTypes'
    BY <1>5, LeaveTypes DEF BackupCodeAccepted
  <2>3. AccountTypes' /\ TokenTypes'
    BY <1>0, <1>5, <2>1 DEF BackupCodeAccepted, AccountTypes, TokenTypes
  <2>4. FactorTypes'
    BY <1>5 DEF BackupCodeAccepted, FactorTypes
  <2>. QED BY <2>2, <2>3, <2>4
<1>6. ASSUME NEW s \in DOMAIN used, TotpAccepted(r, s)
      PROVE  RequestTypes' /\ AccountTypes' /\ FactorTypes' /\ TokenTypes'
  <2>1. account' \in UserRow /\ relief' = now /\ session' = TRUE
    BY <1>6, LoginSucceedsDoes DEF TotpAccepted
  <2>2. RequestTypes'
    BY <1>6, LeaveTypes DEF TotpAccepted
  <2>3. AccountTypes' /\ TokenTypes'
    BY <1>0, <1>6, <2>1 DEF TotpAccepted, AccountTypes, TokenTypes
  <2>4. FactorTypes'
    BY <1>6, AdvanceCounterDoes DEF TotpAccepted, FactorTypes
  <2>. QED BY <2>2, <2>3, <2>4
<1>7. ASSUME NEW s \in DOMAIN used, EnrollAndVerify(r, s)
      PROVE  RequestTypes' /\ AccountTypes' /\ FactorTypes' /\ TokenTypes'
  <2>1. account' \in UserRow /\ relief' = now /\ session' = TRUE
    BY <1>7, LoginSucceedsDoes DEF EnrollAndVerify
  <2>2. RequestTypes'
    BY <1>7, LeaveTypes DEF EnrollAndVerify
  <2>3. AccountTypes' /\ TokenTypes'
    BY <1>0, <1>7, <2>1 DEF EnrollAndVerify, AccountTypes, TokenTypes
  <2>4. FactorTypes'
    BY <1>7, InsertFactorDoes DEF EnrollAndVerify, FactorTypes
  <2>. QED BY <2>2, <2>3, <2>4
<1>8. ASSUME NEW s \in DOMAIN used, EnrollConfirm(r, s)
      PROVE  RequestTypes' /\ AccountTypes' /\ FactorTypes' /\ TokenTypes'
  <2>2. RequestTypes'
    BY <1>8, LeaveTypes DEF EnrollConfirm
  <2>3. AccountTypes' /\ TokenTypes'
    BY <1>8 DEF EnrollConfirm, AccountTypes, TokenTypes
  <2>4. FactorTypes'
    BY <1>8, InsertFactorDoes DEF EnrollConfirm, FactorTypes
  <2>. QED BY <2>2, <2>3, <2>4
<1>9. ASSUME NEW s \in DOMAIN used, Regenerate(r, s)
      PROVE  RequestTypes' /\ AccountTypes' /\ FactorTypes' /\ TokenTypes'
  <2>2. RequestTypes'
    BY <1>9, LeaveTypes DEF Regenerate
  <2>3. AccountTypes' /\ TokenTypes'
    BY <1>9 DEF Regenerate, AccountTypes, TokenTypes
  <2>4. mints' \in 1..MaxMints /\ codes' \subseteq 1..mints' /\ unseen' \subseteq 1..mints'
    BY <1>9, MintDoes DEF Regenerate
  <2>5. FactorTypes'
    BY <1>9, <2>4, AdvanceCounterDoes DEF Regenerate, FactorTypes
  <2>. QED BY <2>2, <2>3, <2>5
<1>10. ASSUME NEW s \in DOMAIN used, DisableFactor(r, s)
      PROVE  RequestTypes' /\ AccountTypes' /\ FactorTypes' /\ TokenTypes'
  <2>2. RequestTypes'
    BY <1>10, LeaveTypes DEF DisableFactor
  <2>. QED BY <1>0, <1>10, <2>2 DEF DisableFactor, AccountTypes, FactorTypes, TokenTypes, history
<1>. QED BY <1>1, <1>2, <1>3, <1>4, <1>5, <1>6, <1>7, <1>8, <1>9, <1>10, <1>11 DEF RequestStep

\* The log of failures and what is known of it.
LEMMA RowsKept ==
    ASSUME RequestTypes, AccountTypes, RowTypes, [Next]_vars
    PROVE  RowTypes'
<1>1. now \in Nat /\ now > 0
  BY NowIsNatural DEF AccountTypes
<1>2. CASE now' = now /\ UNCHANGED <<rows, autos, guesses>>
  BY <1>2 DEF RowTypes, IsLog
<1>3. ASSUME Tick PROVE RowTypes'
  <2>1. now' = now + 1 /\ rows' = rows /\ autos' = autos /\ guesses' = guesses
    BY <1>3 DEF Tick, db, history
  <2>2. ASSUME NEW log, IsLog(log) PROVE log \subseteq [id : 1..Cardinality(log), at : 1..(now + 1)]
    BY <1>1, <2>2 DEF IsLog
  <2>. QED BY <2>1, <2>2 DEF RowTypes, IsLog
<1>4. IsLog(rows \cup {Entry(rows)}) /\ IsLog(autos \cup {Entry(autos)})
  BY <1>1, LogGrows DEF RowTypes
<1>5. ASSUME now' = now, rows' \in {rows, rows \cup {Entry(rows)}}, autos' \in {autos, autos \cup {Entry(autos)}},
             guesses' \subseteq rows'
      PROVE  RowTypes'
  <2>1. IsLog(rows') /\ IsLog(autos')
    BY <1>4, <1>5 DEF RowTypes
  <2>. QED BY <1>5, <2>1 DEF RowTypes, IsLog
<1>6. ASSUME NEW r \in Requests, WrongPassword(r) PROVE RowTypes'
  <2>1. PICK counted \in BOOLEAN :
             FailedAttempt(r, counted) /\ guesses' = IF counted THEN guesses \cup {Entry(rows)} ELSE guesses
    BY <1>6, WrongPasswordDoes
  <2>2. rows' = (IF counted THEN rows \cup {Entry(rows)} ELSE rows) /\ autos' \in {autos, autos \cup {Entry(autos)}}
    BY <2>1, FailedAttemptDoes
  <2>3. guesses' \subseteq rows' /\ now' = now
    BY <1>6, <2>1, <2>2, WrongPasswordDoes DEF RowTypes
  <2>. QED BY <1>5, <2>2, <2>3
<1>7. ASSUME NEW r \in Requests, MfaCodeRejected(r) PROVE RowTypes'
  <2>1. rows' = rows /\ autos' \in {autos, autos \cup {Entry(autos)}}
    BY <1>7, FailedAttemptDoes DEF MfaCodeRejected
  <2>2. guesses' \subseteq rows' /\ now' = now
    BY <1>7, <2>1 DEF MfaCodeRejected, RowTypes, history
  <2>. QED BY <1>5, <2>1, <2>2
<1>8. ASSUME NEW r \in Requests, LoginRejected(r) PROVE RowTypes'
  <2>1. rows' \in {rows, rows \cup {Entry(rows)}} /\ autos' = autos /\ guesses' = guesses /\ now' = now
    BY <1>8 DEF LoginRejected
  <2>. QED BY <1>5, <2>1 DEF RowTypes
<1>9. ASSUME NEW r \in Requests, NEW s \in DOMAIN used,
             \/ TotpAccepted(r, s) \/ EnrollAndVerify(r, s) \/ EnrollConfirm(r, s)
             \/ Regenerate(r, s) \/ DisableFactor(r, s)
      PROVE  now' = now /\ UNCHANGED <<rows, autos, guesses>>
  BY <1>9 DEF TotpAccepted, EnrollAndVerify, EnrollConfirm, Regenerate, DisableFactor, history
<1>10. ASSUME NEW r \in Requests, \/ PasswordOnly(r) \/ Unlock(r) \/ AdminRecover(r) \/ Passes(r)
                                  \/ \E c \in 1..MaxMints : BackupCodeAccepted(r, c)
                                  \/ \E loc \in Locations : Enters(r, loc)
                                  \/ CountCodes(r) \/ Reset2fa(r)
      PROVE  now' = now /\ UNCHANGED <<rows, autos, guesses>>
  BY <1>10 DEF PasswordOnly, Unlock, AdminRecover, Passes, BackupCodeAccepted, Enters, CountCodes,
               Reset2fa, history, db
<1>11. CASE UNCHANGED vars
  BY <1>2, <1>11 DEF vars, history, db
<1>. QED BY <1>2, <1>3, <1>6, <1>7, <1>8, <1>9, <1>10, <1>11, Steps DEF RequestStep

LEMMA TypesKept == ASSUME TypeOK, HitsAreKept, [Next]_vars PROVE TypeOK' /\ HitsAreKept'
<1>1. RequestTypes /\ AccountTypes /\ FactorTypes /\ TokenTypes /\ RowTypes
  BY TypeParts
<1>2. LimiterOK'
  BY TypeParts, LimiterKept DEF LimiterOK
<1>3. RowTypes'
  BY <1>1, RowsKept
<1>4. RequestTypes' /\ AccountTypes' /\ FactorTypes' /\ TokenTypes'
  <2>1. CASE Tick
    <3>1. now' \in Time
      BY <1>2 DEF LimiterOK
    <3>2. relief' \in 0..now'
      <4>1. now' = now + 1 /\ relief' = relief /\ relief \in 0..now /\ now \in Nat
        BY <1>1, <2>1, NowIsNatural DEF Tick, history, AccountTypes
      <4>. QED BY <4>1
    <3>. QED BY <1>1, <2>1, <3>1, <3>2 DEF Tick, RequestTypes, AccountTypes, FactorTypes, TokenTypes,
                                           db, local, history
  <2>3. CASE UNCHANGED vars
    BY <1>1, <2>3 DEF vars, RequestTypes, AccountTypes, FactorTypes, TokenTypes, db, local, history
  <2>. QED BY <1>1, <2>1, <2>3, Steps, EntersTypes, PassesTypes, CountingTypes, RequestStepTypes
<1>. QED BY Zenon, <1>2, <1>3, <1>4 DEF LimiterOK, TypeOK, RequestTypes, AccountTypes, FactorTypes,
                                        TokenTypes, RowTypes, Locations

-----------------------------------------------------------------------------
(* The lock.                                                                *)

LEMMA GuessTimes ==
    ASSUME RowTypes, AccountTypes, NEW t \in Time
    PROVE  /\ IsFiniteSet(GuessesSince(t)) /\ Cardinality(GuessesSince(t)) \in Nat
           /\ \A g \in guesses : g.at \in 1..now
           /\ t > now => Cardinality(GuessesSince(t)) = 0
<1>1. IsFiniteSet(guesses) /\ \A g \in guesses : g.at \in 1..now
  BY PartOfLog DEF RowTypes, IsLog
<1>2. t \in Nat /\ now \in Nat
  BY NowIsNatural DEF AccountTypes, Time
<1>3. t > now => GuessesSince(t) = {}
  BY <1>1, <1>2 DEF GuessesSince
<1>4. IsFiniteSet(GuessesSince(t)) /\ Cardinality(GuessesSince(t)) \in Nat
  BY <1>1, PartOfLog DEF GuessesSince
<1>. QED BY <1>1, <1>3, <1>4, FS_EmptySet

\* A wrong password that is, with those since t, as many as the threshold locks:
\* the window of the attempt rows reaches back to t.
LEMMA WrongPasswordLocks ==
    ASSUME RequestTypes, AccountTypes, RowTypes, RowTypes', LocksAreBounded,
           NEW r \in Requests, WrongPassword(r), NEW t \in Time, Counting(t), t <= now,
           Cardinality(GuessesSince(t)') >= Tier1Threshold
    PROVE  account'.status = "locked" \/ account'.until = now + Tier1Lock
<1>1. now \in Nat /\ t \in Nat /\ now' = now /\ Tier1Window \in Nat /\ Tier1Threshold \in Nat
  BY NowIsNatural, Constants, WrongPasswordDoes DEF AccountTypes, Time
<1>2. IsFiniteSet(rows') /\ guesses' \subseteq rows' /\ \A e \in rows' : e.at \in 1..now
  BY <1>1 DEF RowTypes, IsLog
<1>3. GuessesSince(t)' \subseteq InWindow(rows', Tier1Window)
  <2> SUFFICES ASSUME NEW g \in guesses', g.at >= t PROVE g.at + Tier1Window >= now
    BY <1>2 DEF GuessesSince, InWindow
  <2>. QED BY <1>1, <1>2 DEF Counting
<1>4. IsFiniteSet(InWindow(rows', Tier1Window))
  BY <1>2, PartOfLog DEF InWindow
<1>5. Cardinality(InWindow(rows', Tier1Window)) >= Tier1Threshold
  <2>. DEFINE G == GuessesSince(t)'
              W == InWindow(rows', Tier1Window)
  <2>1. Cardinality(G) <= Cardinality(W) /\ Cardinality(G) \in Nat /\ Cardinality(W) \in Nat
    <3>. HIDE DEF G, W
    <3>1. G \subseteq W /\ IsFiniteSet(W)
      BY <1>3, <1>4 DEF G, W
    <3>. QED BY <3>1, PartOfLog
  <2>. QED BY <1>1, <2>1
<1>6. seen[r].until <= now
  BY WrongPasswordDoes DEF LocksAreBounded, Trying
<1>. QED BY <1>5, <1>6, FailedAttemptDoes, WrongPasswordDoes

\* What each step does with what the lock is about.
LEMMA LockSteps ==
    ASSUME RequestTypes, AccountTypes, RowTypes, [Next]_vars
    PROVE  \/ Tick
           \/ now' = now /\ guesses' = guesses /\ relief' = relief /\ account' = account
           \/ now' = now /\ guesses' = guesses /\ relief' = now /\ account'.until \in {0, account.until}
           \/ \E r \in Requests : WrongPassword(r) \/ MfaCodeRejected(r)
<1>1. ASSUME NEW r \in Requests, RequestStep(r)
      PROVE  \/ WrongPassword(r) \/ MfaCodeRejected(r)
             \/ now' = now /\ guesses' = guesses /\ relief' = relief /\ account' = account
             \/ now' = now /\ guesses' = guesses /\ relief' = now /\ account'.until \in {0, account.until}
  <2>1. CASE PasswordOnly(r) \/ \E c \in 1..MaxMints : BackupCodeAccepted(r, c)
    BY <2>1, LoginSucceedsDoes DEF PasswordOnly, BackupCodeAccepted
  <2>2. CASE Unlock(r) \/ AdminRecover(r)
    BY <2>2, ClearLockoutDoes DEF Unlock, AdminRecover
  <2>3. ASSUME NEW s \in DOMAIN used, TotpAccepted(r, s) \/ EnrollAndVerify(r, s)
        PROVE  now' = now /\ guesses' = guesses /\ relief' = now /\ account'.until \in {0, account.until}
    BY <2>3, LoginSucceedsDoes DEF TotpAccepted, EnrollAndVerify
  <2>4. ASSUME NEW s \in DOMAIN used, EnrollConfirm(r, s) \/ Regenerate(r, s) \/ DisableFactor(r, s)
        PROVE  now' = now /\ guesses' = guesses /\ relief' = relief /\ account' = account
    BY <2>4 DEF EnrollConfirm, Regenerate, DisableFactor, history
  <2>5. CASE LoginRejected(r)
    BY <2>5 DEF LoginRejected
  <2>6. CASE Reset2fa(r)
    BY <2>6 DEF Reset2fa, history
  <2>. QED BY <1>1, <2>1, <2>2, <2>3, <2>4, <2>5, <2>6 DEF RequestStep
<1>2. ASSUME NEW r \in Requests, Passes(r) \/ CountCodes(r) \/ \E loc \in Locations : Enters(r, loc)
      PROVE  now' = now /\ guesses' = guesses /\ relief' = relief /\ account' = account
  BY <1>2 DEF Passes, CountCodes, Enters, db, history
<1>3. CASE UNCHANGED vars
  BY <1>3 DEF vars, history, db
<1>. QED BY <1>1, <1>2, <1>3, Steps

\* Only LoginLoads begins to try a password, when it finds no live lock.
LEMMA TryingSteps ==
    ASSUME RequestTypes, [Next]_vars
    PROVE  \/ Trying' \subseteq Trying /\ \A r \in Trying' : seen'[r] = seen[r]
           \/ /\ MayAuthenticate /\ UNCHANGED <<now, account, guesses, relief>>
              /\ \E r \in Requests : /\ Trying' = Trying \cup {r} /\ seen'[r] = account
                                     /\ \A s \in Trying : s # r => seen'[s] = seen[s]
<1>1. ASSUME NEW r \in Requests, Leave(r)
      PROVE  Trying' \subseteq Trying /\ \A s \in Trying' : seen'[s] = seen[s]
  BY <1>1 DEF Leave, Trying, RequestTypes
<1>2. ASSUME UNCHANGED local
      PROVE  Trying' \subseteq Trying /\ \A s \in Trying' : seen'[s] = seen[s]
  BY <1>2 DEF local, Trying
<1>3. ASSUME NEW r \in Requests, Enters(r, "password")
      PROVE  /\ MayAuthenticate /\ UNCHANGED <<now, account, guesses, relief>>
             /\ Trying' = Trying \cup {r} /\ seen'[r] = account
             /\ \A s \in Trying : s # r => seen'[s] = seen[s]
  <2>1. MayAuthenticate /\ UNCHANGED <<now, account, guesses, relief>>
    BY <1>3 DEF Enters, db
  <2>2. pc' = [pc EXCEPT ![r] = "password"] /\ seen' = [seen EXCEPT ![r] = account]
    BY <1>3 DEF Enters, Enter, UsesAccount, SignInLocations
  <2>. QED BY <2>1, <2>2 DEF RequestTypes, Trying
<1>4. ASSUME NEW r \in Requests, NEW loc \in Locations, loc # "password", Enters(r, loc)
      PROVE  Trying' \subseteq Trying /\ \A s \in Trying' : seen'[s] = seen[s]
  <2>1. pc' = [pc EXCEPT ![r] = loc] /\ \A s \in Requests : s # r => seen'[s] = seen[s]
    BY <1>4 DEF Enters, Enter, RequestTypes
  <2>. QED BY <1>4, <2>1 DEF Trying, RequestTypes
<1>5. ASSUME NEW r \in Requests, RequestStep(r) PROVE Leave(r) \/ UNCHANGED local
  BY <1>5 DEF RequestStep, Reset2fa, WrongPassword, MfaCodeRejected, LoginRejected, PasswordOnly, Unlock,
              AdminRecover, BackupCodeAccepted, TotpAccepted, EnrollAndVerify, EnrollConfirm,
              Regenerate, DisableFactor
<1>6. ASSUME NEW r \in Requests, Passes(r) PROVE Leave(r) \/ UNCHANGED local
  BY <1>6 DEF Passes
<1>7. CASE Tick \/ UNCHANGED vars
  BY <1>2, <1>7 DEF Tick, vars
<1>8. ASSUME NEW r \in Requests, CountCodes(r)
      PROVE  Trying' \subseteq Trying /\ \A s \in Trying' : seen'[s] = seen[s]
  BY <1>8 DEF CountCodes, Trying, RequestTypes
<1>. QED BY <1>1, <1>2, <1>3, <1>4, <1>5, <1>6, <1>7, <1>8, Steps

LEMMA LocksStayBounded ==
    ASSUME RequestTypes, AccountTypes, RowTypes, AccountTypes', LocksAreBounded, [Next]_vars
    PROVE  LocksAreBounded'
<1>1. now \in Nat /\ account.until \in Nat /\ Tier1Lock \in Nat
  BY NowIsNatural, Constants DEF AccountTypes, UserRow
<1>2. now' = now \/ now' = now + 1
  BY LockSteps, WrongPasswordDoes DEF Tick, MfaCodeRejected
<1>3. account'.until <= now' + Tier1Lock
  <2>1. CASE \E r \in Requests : WrongPassword(r) \/ MfaCodeRejected(r)
    <3>1. account'.until = account.until \/ account'.until = now + Tier1Lock
      BY <2>1, FailedAttemptDoes, WrongPasswordDoes DEF MfaCodeRejected
    <3>. QED BY <1>1, <1>2, <3>1 DEF LocksAreBounded
  <2>2. CASE account'.until \in {0, account.until}
    BY <1>1, <1>2, <2>2 DEF LocksAreBounded
  <2>3. CASE Tick
    BY <1>1, <1>2, <2>3 DEF LocksAreBounded, Tick, db
  <2>. QED BY <2>1, <2>2, <2>3, LockSteps
<1>4. \A r \in Trying' : seen'[r].until <= now'
  <2>1. \A r \in Trying : seen[r].until \in Nat /\ seen[r].until <= now
    BY DEF LocksAreBounded, Trying, RequestTypes, UserRow
  <2>2. MayAuthenticate => account.until <= now
    BY <1>1 DEF MayAuthenticate, LockedOut
  <2>. QED BY <1>1, <1>2, <2>1, <2>2, TryingSteps
<1>. QED BY <1>3, <1>4 DEF LocksAreBounded

LEMMA GuessesStillLock ==
    ASSUME RequestTypes, AccountTypes, RowTypes, RowTypes', AccountTypes', LocksAreBounded,
           GuessesLock, [Next]_vars
    PROVE  GuessesLock'
<1> SUFFICES ASSUME NEW t \in Time, Counting(t)', Cardinality(GuessesSince(t)') >= Tier1Threshold
             PROVE  account'.status = "locked" \/ account'.until >= t + Tier1Lock
  BY DEF GuessesLock
<1>1. /\ now \in Nat /\ t \in Nat /\ relief \in Nat /\ Tier1Window \in Nat /\ Tier1Lock \in Nat
      /\ Tier1Threshold \in Nat /\ Tier1Threshold > 0 /\ account.until \in Nat
  BY NowIsNatural, Constants DEF AccountTypes, Time, UserRow
<1>2. t <= now'
  <2>1. now' \in Nat /\ Cardinality(GuessesSince(t)') \in Nat /\ (t > now' => Cardinality(GuessesSince(t)') = 0)
    <3>1. IsFiniteSet(guesses') /\ \A g \in guesses' : g.at \in 1..now'
      BY PartOfLog DEF RowTypes, IsLog
    <3>2. now' \in Nat
      BY Constants DEF AccountTypes, Time
    <3>3. t > now' => GuessesSince(t)' = {}
      BY <1>1, <3>1, <3>2 DEF GuessesSince
    <3>4. GuessesSince(t)' \in SUBSET guesses'
      BY DEF GuessesSince
    <3>. QED BY <3>1, <3>2, <3>3, <3>4, PartOfLog, FS_EmptySet
  <2>. QED BY <1>1, <2>1
<1>3. CASE UNCHANGED <<guesses, account>> /\ relief' = relief /\ (now' = now \/ now' = now + 1)
  <2>1. Counting(t)
    BY <1>1, <1>3 DEF Counting
  <2>. QED BY <1>3, <2>1 DEF GuessesLock, GuessesSince
<1>4. CASE now' = now /\ relief' = now
  BY <1>1, <1>2, <1>4 DEF Counting
<1>5. ASSUME NEW r \in Requests, WrongPassword(r) PROVE account'.status = "locked" \/ account'.until >= t + Tier1Lock
  <2>1. now' = now /\ Counting(t)
    BY <1>5, WrongPasswordDoes DEF Counting
  <2>. QED BY <1>1, <1>2, <1>5, <2>1, WrongPasswordLocks
<1>6. ASSUME NEW r \in Requests, MfaCodeRejected(r) PROVE account'.status = "locked" \/ account'.until >= t + Tier1Lock
  <2>1. now' = now /\ Counting(t) /\ GuessesSince(t)' = GuessesSince(t)
    BY <1>6 DEF MfaCodeRejected, Counting, GuessesSince, history
  <2>2. account.status = "locked" \/ account.until >= t + Tier1Lock
    BY <2>1 DEF GuessesLock
  <2>3. /\ account'.until = account.until \/ account'.until = now + Tier1Lock
        /\ account'.status = account.status \/ account'.status = "locked"
    BY <1>6, FailedAttemptDoes DEF MfaCodeRejected
  <2>. QED BY <1>1, <1>2, <2>1, <2>2, <2>3
<1>7. CASE Tick
  BY <1>3, <1>7 DEF Tick, history, db
<1>. QED BY <1>3, <1>4, <1>5, <1>6, <1>7, LockSteps

\* Below the threshold a password may still be tried, and each request tries one; from
\* the threshold on, none is let in before the window has passed.
LEMMA GuessesStillCome ==
    ASSUME Tier1Window <= Tier1Lock,
           RequestTypes, AccountTypes, RowTypes, RowTypes', AccountTypes',
           GuessesLock, GuessesToCome, [Next]_vars
    PROVE  GuessesToCome'
<1> SUFFICES ASSUME NEW t \in Time, Counting(t)'
             PROVE  Cardinality(GuessesSince(t)') + Cardinality(Trying')
                       <= Tier1Threshold + Cardinality(Requests) - 1
  BY DEF GuessesToCome
<1> DEFINE G == GuessesSince(t)
           T == Trying
<1>1. /\ now \in Nat /\ t \in Nat /\ relief \in Nat /\ Tier1Window \in Nat /\ Tier1Lock \in Nat
      /\ Tier1Threshold \in Nat /\ Tier1Threshold > 0 /\ account.until \in Nat
  BY NowIsNatural, Constants DEF AccountTypes, Time, UserRow
<1>2. /\ Cardinality(T) \in Nat /\ Cardinality(T') \in Nat /\ Cardinality(Requests) \in Nat
      /\ IsFiniteSet(T) /\ Cardinality(T') <= Cardinality(Requests)
  <2>1. T \in SUBSET Requests /\ T' \in SUBSET Requests
    BY DEF Trying
  <2>. HIDE DEF T
  <2>. QED BY <2>1, Constants, PartOfLog
<1>3. IsFiniteSet(G) /\ Cardinality(G) \in Nat
  BY GuessTimes
<1>4. CASE t > now'
  <2>1. now' \in Nat /\ \A g \in guesses' : g.at \in 1..now'
    BY Constants DEF RowTypes, IsLog, AccountTypes, Time
  <2>2. G' = {}
    BY <1>1, <1>4, <2>1 DEF GuessesSince
  <2>. HIDE DEF G, T
  <2>3. Cardinality(G') = 0
    BY <2>2, FS_EmptySet
  <2>. QED BY <1>1, <1>2, <2>3 DEF G, T
<1>5. ASSUME UNCHANGED <<guesses, relief>>, now' = now \/ now' = now + 1, Trying' \subseteq Trying
      PROVE  Cardinality(G') + Cardinality(T') <= Tier1Threshold + Cardinality(Requests) - 1
  <2>1. Counting(t) /\ G' = G
    BY <1>1, <1>5 DEF Counting, GuessesSince
  <2>2. Cardinality(G) + Cardinality(T) <= Tier1Threshold + Cardinality(Requests) - 1
    BY <2>1 DEF GuessesToCome
  <2>3. T' \in SUBSET T
    BY <1>5
  <2>. HIDE DEF G, T
  <2>4. Cardinality(T') <= Cardinality(T)
    BY <1>2, <2>3, PartOfLog
  <2>. QED BY <1>1, <1>2, <1>3, <2>1, <2>2, <2>4
<1>6. ASSUME MayAuthenticate, UNCHANGED <<now, account, guesses, relief>>, t <= now'
      PROVE  Cardinality(G') + Cardinality(T') <= Tier1Threshold + Cardinality(Requests) - 1
  <2>1. Counting(t) /\ G' = G /\ t + Tier1Lock > now
    BY <1>1, <1>6 DEF Counting, GuessesSince
  <2>2. account.status # "locked" /\ account.until <= now
    BY <1>1, <1>6 DEF MayAuthenticate, LockedOut
  <2>3. ~(Cardinality(G) >= Tier1Threshold)
    BY <1>1, <2>1, <2>2 DEF GuessesLock
  <2>. HIDE DEF G, T
  <2>. QED BY <1>1, <1>2, <1>3, <2>1, <2>3
<1>7. ASSUME NEW r \in Requests, WrongPassword(r)
      PROVE  Cardinality(G') + Cardinality(T') <= Tier1Threshold + Cardinality(Requests) - 1
  <2>1. Counting(t) /\ r \in T
    BY <1>7, WrongPasswordDoes DEF Counting, Trying
  <2>2. Cardinality(G) + Cardinality(T) <= Tier1Threshold + Cardinality(Requests) - 1
    BY <2>1 DEF GuessesToCome
  <2>3. G' \subseteq G \cup {Entry(rows)}
    BY <1>7, WrongPasswordDoes DEF GuessesSince
  <2>4. T' = T \ {r}
    BY <1>7, WrongPasswordDoes DEF Leave, Trying, RequestTypes
  <2>. HIDE DEF G, T
  <2>5. Cardinality(T') = Cardinality(T) - 1
    BY <1>2, <2>1, <2>4, FS_RemoveElement
  <2>6. /\ IsFiniteSet(G \cup {Entry(rows)}) /\ Cardinality(G \cup {Entry(rows)}) \in Nat
        /\ Cardinality(G \cup {Entry(rows)}) <= Cardinality(G) + 1
    <3>1. CASE Entry(rows) \in G
      <4>1. G \cup {Entry(rows)} = G
        BY <3>1
      <4>. QED BY <1>3, <4>1
    <3>2. CASE Entry(rows) \notin G
      <4>1. IsFiniteSet(G \cup {Entry(rows)}) /\ Cardinality(G \cup {Entry(rows)}) = Cardinality(G) + 1
        BY <1>3, <3>2, FS_AddElement
      <4>. QED BY <1>3, <4>1
    <3>. QED BY <3>1, <3>2
  <2>7. Cardinality(G') <= Cardinality(G \cup {Entry(rows)}) /\ Cardinality(G') \in Nat
    BY <2>3, <2>6, PartOfLog
  <2>. QED BY <1>1, <1>2, <1>3, <2>2, <2>5, <2>6, <2>7
<1>8. CASE t <= now'
  <2>1. CASE \E r \in Requests : WrongPassword(r)
    BY <1>7, <2>1
  <2>2. CASE MayAuthenticate /\ UNCHANGED <<now, account, guesses, relief>>
    BY <1>6, <1>8, <2>2
  <2>3. CASE Trying' \subseteq Trying /\ ~\E r \in Requests : WrongPassword(r)
    <3>1. UNCHANGED <<guesses, relief>> \/ (relief' = now /\ now' = now)
      <4>1. CASE Tick \/ \E r \in Requests : MfaCodeRejected(r)
        BY <4>1 DEF Tick, MfaCodeRejected, history
      <4>. QED BY <2>3, <4>1, LockSteps
    <3>2. now' = now \/ now' = now + 1
      BY <2>3, LockSteps DEF Tick, MfaCodeRejected
    <3>3. ~(relief' = now /\ now' = now)
      BY <1>1, <1>8 DEF Counting
    <3>. QED BY <1>5, <2>3, <3>1, <3>2, <3>3
  <2>. QED BY <2>1, <2>2, <2>3, TryingSteps
<1>9. now' \in Nat
  BY Constants DEF AccountTypes, Time
<1>. QED BY <1>1, <1>4, <1>8, <1>9

LEMMA GuessesBound ==
    ASSUME RequestTypes, AccountTypes, RowTypes, GuessesToCome
    PROVE  GuessBound
<1> SUFFICES ASSUME relief = 0 \/ relief + Tier1Window <= now
             PROVE  Cardinality({g \in guesses : g.at + Tier1Window > now})
                       <= Tier1Threshold + Cardinality(Requests) - 1
  <2>1. relief \in Nat /\ now \in Nat /\ Tier1Window \in Nat
    BY NowIsNatural, Constants DEF AccountTypes
  <2>. QED BY <2>1 DEF GuessBound
<1> DEFINE W == {g \in guesses : g.at + Tier1Window > now}
           t == IF now >= Tier1Window THEN now + 1 - Tier1Window ELSE 1
<1>1. /\ now \in Nat /\ now > 0 /\ now <= MaxTime /\ MaxTime \in Nat
      /\ relief \in Nat /\ Tier1Window \in Nat
      /\ Tier1Threshold \in Nat /\ Tier1Threshold > 0
  BY NowIsNatural, Constants DEF AccountTypes
<1>2. Cardinality(Requests) \in Nat /\ Cardinality(Trying) \in Nat
  BY Constants, PartOfLog DEF Trying
<1>3. \A g \in guesses : g.at \in 1..now
  BY PartOfLog DEF RowTypes, IsLog
<1>4. CASE Tier1Window = 0
  <2>1. W = {}
    BY <1>1, <1>3, <1>4
  <2>. HIDE DEF W
  <2>2. Cardinality(W) = 0
    BY <2>1, FS_EmptySet
  <2>. QED BY <1>1, <1>2, <2>2 DEF W
<1>5. CASE Tier1Window > 0
  <2>1. t \in Time /\ Counting(t)
    BY <1>1, <1>5 DEF Time, Counting
  <2>2. W = GuessesSince(t)
    BY <1>1, <1>3, <1>5 DEF GuessesSince
  <2>3. Cardinality(GuessesSince(t)) \in Nat
    BY <2>1, GuessTimes
  <2>. HIDE DEF W, t
  <2>4. Cardinality(GuessesSince(t)) + Cardinality(Trying) <= Tier1Threshold + Cardinality(Requests) - 1
    BY <2>1 DEF GuessesToCome
  <2>5. Cardinality(W) <= Tier1Threshold + Cardinality(Requests) - 1
    <3>1. Cardinality(Trying) <= Cardinality(Requests)
      BY Constants, PartOfLog DEF Trying
    <3>. QED BY <1>1, <1>2, <2>2, <2>3, <2>4, <3>1
  <2>. QED BY <2>5 DEF W
<1>. QED BY <1>1, <1>4, <1>5

-----------------------------------------------------------------------------
(* The codes.                                                               *)

\* What the invariant says of codes, steps and factors.
CodesOK == CodesAreSpent /\ UnspentCodes /\ StepsAreCounted /\ FactorsAreLoaded /\ CountedCodes

LEMMA FactorsStayLoaded ==
    ASSUME RequestTypes, FactorsAreLoaded, [Next]_vars
    PROVE  FactorsAreLoaded'
<1>1. ASSUME NEW r \in Requests, Leave(r) PROVE FactorsAreLoaded'
  BY <1>1 DEF Leave, RequestTypes, FactorsAreLoaded
<1>2. ASSUME UNCHANGED local PROVE FactorsAreLoaded'
  BY <1>2 DEF local, FactorsAreLoaded
<1>3. ASSUME NEW r \in Requests, NEW loc \in Locations, Enters(r, loc) PROVE FactorsAreLoaded'
  <2>1. /\ pc' = [pc EXCEPT ![r] = loc]
        /\ fac' = [fac EXCEPT ![r] = IF loc \in UsesFactor THEN factor ELSE @]
        /\ loc \in {"totp", "regenerate"} => factor.id # 0
    BY <1>3 DEF Enters, Enter
  <2>. QED BY <2>1 DEF RequestTypes, FactorsAreLoaded, UsesFactor
<1>4. ASSUME NEW r \in Requests, RequestStep(r) PROVE Leave(r) \/ UNCHANGED local
  BY <1>4 DEF RequestStep, Reset2fa, WrongPassword, MfaCodeRejected, LoginRejected, PasswordOnly, Unlock,
              AdminRecover, BackupCodeAccepted, TotpAccepted, EnrollAndVerify, EnrollConfirm,
              Regenerate, DisableFactor
<1>5. ASSUME NEW r \in Requests, Passes(r) PROVE Leave(r) \/ UNCHANGED local
  BY <1>5 DEF Passes
<1>6. CASE Tick \/ UNCHANGED vars
  BY <1>2, <1>6 DEF Tick, vars
<1>7. ASSUME NEW r \in Requests, CountCodes(r) PROVE FactorsAreLoaded'
  BY <1>7 DEF CountCodes, RequestTypes, FactorsAreLoaded
<1>. QED BY <1>1, <1>2, <1>3, <1>4, <1>5, <1>6, <1>7, Steps

\* What each step does with the codes, the factor and what a reset has counted.
LEMMA CodeSteps ==
    ASSUME FactorTypes, [Next]_vars
    PROVE  \/ codes' \subseteq codes /\ unseen' = unseen
           \/ /\ unseen \subseteq unseen' /\ codes' \subseteq codes \cup {mints'}
              /\ (\E a \in Requests : pc[a] = "counted") => mints' \in unseen'
<1>1. ASSUME NEW r \in Requests, NEW s \in DOMAIN used, EnrollAndVerify(r, s) \/ EnrollConfirm(r, s)
      PROVE  /\ unseen \subseteq unseen' /\ codes' \subseteq codes \cup {mints'}
             /\ (\E a \in Requests : pc[a] = "counted") => mints' \in unseen'
  BY <1>1, InsertFactorDoes DEF EnrollAndVerify, EnrollConfirm
<1>2. ASSUME NEW r \in Requests, NEW s \in DOMAIN used, Regenerate(r, s)
      PROVE  /\ unseen \subseteq unseen' /\ codes' \subseteq codes \cup {mints'}
             /\ (\E a \in Requests : pc[a] = "counted") => mints' \in unseen'
  <2>1. MintBackupCodes({})
    BY <1>2 DEF Regenerate
  <2>. QED BY <2>1, MintDoes
<1>3. ASSUME NEW r \in Requests, NEW s \in DOMAIN used, TotpAccepted(r, s) \/ DisableFactor(r, s)
      PROVE  codes' \subseteq codes /\ unseen' = unseen
  BY <1>3 DEF TotpAccepted, DisableFactor
<1>4. ASSUME NEW r \in Requests, \/ WrongPassword(r) \/ MfaCodeRejected(r) \/ LoginRejected(r)
                                 \/ PasswordOnly(r) \/ Unlock(r) \/ AdminRecover(r) \/ Reset2fa(r)
                                 \/ \E c \in 1..MaxMints : BackupCodeAccepted(r, c)
      PROVE  codes' \subseteq codes /\ unseen' = unseen
  BY <1>4 DEF WrongPassword, MfaCodeRejected, LoginRejected, PasswordOnly, Unlock, AdminRecover,
              Reset2fa, BackupCodeAccepted
<1>5. ASSUME NEW r \in Requests, Passes(r) \/ CountCodes(r) \/ \E loc \in Locations : Enters(r, loc)
      PROVE  codes' \subseteq codes /\ unseen' = unseen
  BY <1>5 DEF Passes, CountCodes, Enters, db
<1>6. CASE Tick \/ UNCHANGED vars
  BY <1>6 DEF Tick, vars, db
<1>. QED BY <1>1, <1>2, <1>3, <1>4, <1>5, <1>6, Steps DEF RequestStep

\* Where a reset that has counted the codes is, from one state to the next.
LEMMA CountingSteps ==
    ASSUME RequestTypes, [Next]_vars, NEW a \in Requests, pc'[a] = "counted"
    PROVE  \/ pc[a] = "counted" /\ kept'[a] = kept[a]
           \/ kept'[a] = codes /\ codes' = codes
<1>1. ASSUME NEW r \in Requests, Leave(r) PROVE pc[a] = "counted" /\ kept'[a] = kept[a]
  BY <1>1 DEF Leave, RequestTypes
<1>2. ASSUME UNCHANGED local PROVE pc[a] = "counted" /\ kept'[a] = kept[a]
  BY <1>2 DEF local
<1>3. ASSUME NEW r \in Requests, NEW loc \in Locations \ {"idle", "counted"}, Enters(r, loc)
      PROVE  pc[a] = "counted" /\ kept'[a] = kept[a]
  <2>1. /\ pc' = [pc EXCEPT ![r] = loc]
        /\ kept' = [kept EXCEPT ![r] = IF loc = "backup" THEN codes ELSE @]
    BY <1>3 DEF Enters, Enter
  <2>. QED BY <2>1 DEF RequestTypes
<1>4. ASSUME NEW r \in Requests, RequestStep(r) PROVE Leave(r) \/ UNCHANGED local
  BY <1>4 DEF RequestStep, Reset2fa, WrongPassword, MfaCodeRejected, LoginRejected, PasswordOnly, Unlock,
              AdminRecover, BackupCodeAccepted, TotpAccepted, EnrollAndVerify, EnrollConfirm,
              Regenerate, DisableFactor
<1>5. ASSUME NEW r \in Requests, Passes(r) PROVE Leave(r) \/ UNCHANGED local
  BY <1>5 DEF Passes
<1>6. CASE Tick \/ UNCHANGED vars
  BY <1>2, <1>6 DEF Tick, vars
<1>7. ASSUME NEW r \in Requests, CountCodes(r)
      PROVE  \/ pc[a] = "counted" /\ kept'[a] = kept[a]
             \/ kept'[a] = codes /\ codes' = codes
  BY <1>7 DEF CountCodes, RequestTypes, db
<1>. QED BY <1>1, <1>2, <1>3, <1>4, <1>5, <1>6, <1>7, Steps

LEMMA CodesStayCounted ==
    ASSUME RequestTypes, FactorTypes, CountedCodes, [Next]_vars
    PROVE  CountedCodes'
<1> SUFFICES ASSUME NEW a \in Requests, pc'[a] = "counted" PROVE codes' \subseteq kept'[a] \cup unseen'
  BY DEF CountedCodes
<1>1. CASE pc[a] = "counted" /\ kept'[a] = kept[a]
  <2>1. codes \subseteq kept[a] \cup unseen
    BY <1>1 DEF CountedCodes
  <2>2. unseen \subseteq unseen' /\ codes' \subseteq codes \cup unseen'
    BY <1>1, CodeSteps
  <2>. QED BY <1>1, <2>1, <2>2
<1>2. CASE kept'[a] = codes /\ codes' = codes
  BY <1>2
<1>. QED BY <1>1, <1>2, CountingSteps

\* A step that only removes codes, with the factor or without.
LEMMA FewerCodes ==
    ASSUME FactorTypes, CodesOK, codes' \subseteq codes, UNCHANGED <<mints, unseen, spent, used, overlapped>>,
           factor' = factor \/ (factor' = NoFactor /\ codes' \subseteq unseen)
    PROVE  CodesAreSpent' /\ UnspentCodes' /\ StepsAreCounted'
  BY DEF CodesOK, CodesAreSpent, BackupCodeOnce, TotpStepOnce, CodesFollowFactor, UnspentCodes,
         StepsAreCounted, NoFactor

LEMMA BackupCodeSpent ==
    ASSUME FactorTypes, CodesOK, NEW r \in Requests, NEW c \in 1..MaxMints, BackupCodeAccepted(r, c)
    PROVE  CodesAreSpent' /\ UnspentCodes' /\ StepsAreCounted'
<1>1. /\ c \in codes /\ codes' = codes \ {c} /\ spent' = [spent EXCEPT ![c] = @ + 1]
      /\ UNCHANGED <<factor, mints, unseen, used, overlapped>>
  BY DEF BackupCodeAccepted, Consume
<1>2. spent[c] = 0 /\ ~(c > mints)
  BY <1>1 DEF CodesOK, UnspentCodes, FactorTypes
<1>3. BackupCodeOnce' /\ UnspentCodes'
  BY <1>1, <1>2 DEF CodesOK, CodesAreSpent, BackupCodeOnce, UnspentCodes, FactorTypes
<1>4. TotpStepOnce' /\ CodesFollowFactor' /\ StepsAreCounted'
  BY <1>1 DEF CodesOK, CodesAreSpent, TotpStepOnce, CodesFollowFactor, StepsAreCounted
<1>. QED BY <1>3, <1>4 DEF CodesAreSpent

\* A step of the factor that was loaded is a later one than any before.
LEMMA CounterSpent ==
    ASSUME FactorTypes, FactorTypes', CodesOK, NEW r \in Requests, NEW s \in DOMAIN used,
           pc[r] \in {"totp", "regenerate"}, VerifyCode(s, fac[r].last), FactorStillThere(r),
           AdvanceCounter(r, s)
    PROVE  TotpStepOnce' /\ StepsAreCounted' /\ factor'.id # 0
<1>1. fac[r].id # 0 /\ factor.id # 0
  BY DEF CodesOK, FactorsAreLoaded, FactorStillThere
<1>2. /\ factor' = [id |-> factor.id, last |-> s] /\ used' = [used EXCEPT ![s] = @ + 1]
      /\ overlapped' = (overlapped \/ factor # fac[r]) /\ overlapped' \in BOOLEAN
  BY AdvanceCounterDoes
<1>3. s \in 0..(MaxTime + 1) /\ MaxTime \in Nat /\ factor.last \in Nat
  BY VerifiedStep, Constants DEF FactorTypes, FactorRow
<1>4. CASE ~overlapped'
  <2>1. ~overlapped /\ factor = fac[r]
    BY <1>2, <1>4
  <2>2. s > factor.last
    BY <2>1 DEF VerifyCode
  <2>3. \A u \in 0..(MaxTime + 1) : used[u] \in Nat /\ (used[u] > 0 => u <= factor.last) /\ used[u] <= 1
    BY <1>1, <2>1 DEF CodesOK, CodesAreSpent, TotpStepOnce, StepsAreCounted, FactorTypes
  <2>4. used[s] = 0
    BY <1>3, <2>2, <2>3
  <2>5. used'[s] = 1 /\ \A u \in 0..(MaxTime + 1) : u # s => used'[u] = used[u]
    BY <1>2, <1>3, <2>4 DEF FactorTypes
  <2>6. \A u \in 0..(MaxTime + 1) : used'[u] <= 1 /\ (used'[u] > 0 => u <= s)
    BY <1>3, <2>2, <2>3, <2>5
  <2>7. DOMAIN used' = 0..(MaxTime + 1) /\ factor'.last = s
    BY <1>2 DEF FactorTypes
  <2>. QED BY <1>1, <1>2, <2>6, <2>7 DEF TotpStepOnce, StepsAreCounted
<1>5. CASE overlapped'
  BY <1>1, <1>2, <1>5 DEF TotpStepOnce, StepsAreCounted
<1>. QED BY <1>4, <1>5

\* A minted code is one that was never spent.
LEMMA FreshCode ==
    ASSUME FactorTypes, CodesOK, mints' = mints + 1, codes' \subseteq codes \cup {mints'}, spent' = spent
    PROVE  BackupCodeOnce' /\ UnspentCodes'
<1>1. mints \in Nat
  BY DEF FactorTypes
<1>2. UnspentCodes'
  <2> SUFFICES ASSUME NEW c \in 1..MaxMints, c \in codes' \/ c > mints' PROVE spent[c] = 0
    BY DEF UnspentCodes
  <2>1. c \in codes \/ c > mints
    BY <1>1
  <2>. QED BY <2>1 DEF CodesOK, UnspentCodes
<1>. QED BY <1>2 DEF CodesOK, CodesAreSpent, BackupCodeOnce

LEMMA FactorInserted ==
    ASSUME FactorTypes, CodesOK, NEW s \in DOMAIN used, InsertFactor(s), UNCHANGED <<spent, overlapped>>
    PROVE  CodesAreSpent' /\ UnspentCodes' /\ StepsAreCounted'
<1>1. /\ mints' = mints + 1 /\ mints' \in 1..MaxMints /\ codes' = codes \cup {mints'}
      /\ factor' = [id |-> mints', last |-> s]
      /\ used' = [t \in 0..(MaxTime + 1) |-> IF t = s THEN 1 ELSE 0]
  BY InsertFactorDoes
<1>2. BackupCodeOnce' /\ UnspentCodes'
  BY <1>1, FreshCode
<1>3. s \in Nat /\ s <= s
  BY VerifiedStep
<1>4. TotpStepOnce' /\ StepsAreCounted'
  BY <1>1, <1>3 DEF TotpStepOnce, StepsAreCounted
<1>5. CodesFollowFactor'
  <2>1. factor'.id # 0
    BY <1>1
  <2>. QED BY <2>1 DEF CodesFollowFactor
<1>. QED BY <1>2, <1>4, <1>5 DEF CodesAreSpent

LEMMA CodesStaySpent ==
    ASSUME RequestTypes, FactorTypes, FactorTypes', CodesOK, [Next]_vars
    PROVE  CodesAreSpent' /\ UnspentCodes' /\ StepsAreCounted'
<1>1. CASE UNCHANGED <<codes, factor, mints, unseen, spent, used, overlapped>>
  BY <1>1, FewerCodes
<1>2. ASSUME NEW r \in Requests, Reset2fa(r)
      PROVE  CodesAreSpent' /\ UnspentCodes' /\ StepsAreCounted'
  <2>1. /\ UNCHANGED <<mints, unseen, spent, used, overlapped>>
        /\ factor' = factor \/ factor' = NoFactor
        /\ codes' = IF kept[r] # {} THEN {} ELSE codes
    BY <1>2 DEF Reset2fa, history
  <2>2. codes' \subseteq unseen /\ codes' \subseteq codes
    BY <1>2, <2>1 DEF CodesOK, CountedCodes, Reset2fa
  <2>. QED BY <2>1, <2>2, FewerCodes
<1>3. ASSUME NEW r \in Requests, AdminRecover(r)
      PROVE  CodesAreSpent' /\ UnspentCodes' /\ StepsAreCounted'
  BY <1>3, FewerCodes DEF AdminRecover
<1>4. ASSUME NEW r \in Requests, NEW s \in DOMAIN used, DisableFactor(r, s)
      PROVE  CodesAreSpent' /\ UnspentCodes' /\ StepsAreCounted'
  BY <1>4, FewerCodes DEF DisableFactor, history
<1>5. ASSUME NEW r \in Requests, NEW s \in DOMAIN used, EnrollAndVerify(r, s) \/ EnrollConfirm(r, s)
      PROVE  CodesAreSpent' /\ UnspentCodes' /\ StepsAreCounted'
  BY <1>5, FactorInserted DEF EnrollAndVerify, EnrollConfirm
<1>6. ASSUME NEW r \in Requests, NEW s \in DOMAIN used, TotpAccepted(r, s)
      PROVE  CodesAreSpent' /\ UnspentCodes' /\ StepsAreCounted'
  <2>1. TotpStepOnce' /\ StepsAreCounted' /\ factor'.id # 0
    BY <1>6, CounterSpent DEF TotpAccepted
  <2>2. BackupCodeOnce' /\ UnspentCodes'
    BY <1>6 DEF TotpAccepted, CodesOK, CodesAreSpent, BackupCodeOnce, UnspentCodes
  <2>. QED BY <2>1, <2>2 DEF CodesAreSpent, CodesFollowFactor
<1>7. ASSUME NEW r \in Requests, NEW s \in DOMAIN used, Regenerate(r, s)
      PROVE  CodesAreSpent' /\ UnspentCodes' /\ StepsAreCounted'
  <2>1. TotpStepOnce' /\ StepsAreCounted' /\ factor'.id # 0
    BY <1>7, CounterSpent DEF Regenerate
  <2>2. mints' = mints + 1 /\ codes' = {} \cup {mints'} /\ spent' = spent
    BY <1>7, MintDoes DEF Regenerate
  <2>3. BackupCodeOnce' /\ UnspentCodes'
    BY <2>2, FreshCode
  <2>. QED BY <2>1, <2>3 DEF CodesAreSpent, CodesFollowFactor
<1>8. ASSUME NEW r \in Requests, \/ WrongPassword(r) \/ MfaCodeRejected(r) \/ LoginRejected(r)
                                 \/ PasswordOnly(r) \/ Unlock(r) \/ Passes(r) \/ CountCodes(r)
                                 \/ \E loc \in Locations : Enters(r, loc)
      PROVE  UNCHANGED <<codes, factor, mints, unseen, spent, used, overlapped>>
  BY <1>8 DEF WrongPassword, MfaCodeRejected, LoginRejected, PasswordOnly, Unlock, Passes, CountCodes,
              Enters, history, db
<1>9. CASE Tick \/ UNCHANGED vars
  BY <1>1, <1>9 DEF Tick, vars, history, db
<1>. QED BY <1>1, <1>2, <1>3, <1>4, <1>5, <1>6, <1>7, <1>8, <1>9, BackupCodeSpent, Steps DEF RequestStep

-----------------------------------------------------------------------------
(* The invariants.                                                          *)

LEMMA InitIInv == Init => SignInIInv /\ GuessesToCome
<1> SUFFICES ASSUME Init PROVE SignInIInv /\ GuessesToCome
  OBVIOUS
<1>1. IsFiniteSet({}) /\ Cardinality({}) = 0 /\ IsLog({})
  BY FS_EmptySet DEF IsLog
<1>2. NobodySeen \in UserRow /\ NoFactor \in FactorRow
  BY Constants DEF NobodySeen, NoFactor, UserRow, FactorRow
<1>3. \A k \in Buckets : store[k] = {} /\ admitted[k] = {}
  BY DEF Init
<1>4. TypeOK
  <2>1. \A k \in Buckets : IsLog(admitted[k]) /\ store[k] \subseteq admitted[k] /\ Cardinality(store[k]) <= Limit[k]
    BY <1>1, <1>3, Limits
  <2>2. store = [k \in Buckets |-> store[k]] /\ admitted = [k \in Buckets |-> admitted[k]]
    BY DEF Init
  <2>3. RequestTypes
    BY <1>2, Constants DEF Init, RequestTypes, Locations
  <2>4. now \in Time /\ AccountTypes
    BY <1>2, Constants DEF Init, AccountTypes, Time
  <2>5. FactorTypes
    <3>1. spent \in [1..MaxMints -> Nat] /\ used \in [0..(MaxTime + 1) -> Nat]
      BY DEF Init
    <3>2. factor \in FactorRow /\ codes = {} /\ unseen = {} /\ mints = 0 /\ overlapped \in BOOLEAN
      BY <1>2 DEF Init
    <3>. QED BY <3>1, <3>2, Constants DEF FactorTypes
  <2>6. TokenTypes /\ RowTypes
    BY <1>1 DEF Init, TokenTypes, RowTypes
  <2>. QED BY <2>1, <2>2, <2>3, <2>4, <2>5, <2>6, TypeParts
<1>5. HitsAreKept
  BY <1>3 DEF HitsAreKept, InWindow
<1>6. Trying = {} /\ \A t \in Time : GuessesSince(t) = {}
  BY DEF Init, Trying, GuessesSince
<1>7. LocksAreBounded
  BY <1>6, Constants DEF Init, LocksAreBounded, NobodySeen
<1>8. GuessesLock
  BY <1>1, <1>6, Constants DEF GuessesLock
<1>9. GuessesToCome
  <2>1. Cardinality(Requests) \in Nat
    BY Constants, FS_CardinalityType
  <2>2. 0 + 0 <= Tier1Threshold + Cardinality(Requests) - 1
    BY <2>1, Constants
  <2>. QED BY <1>1, <1>6, <2>2 DEF GuessesToCome
<1>10. CodesAreSpent /\ UnspentCodes /\ StepsAreCounted /\ FactorsAreLoaded /\ CountedCodes
  BY DEF Init, CodesAreSpent, BackupCodeOnce, TotpStepOnce, CodesFollowFactor, UnspentCodes,
         StepsAreCounted, FactorsAreLoaded, CountedCodes, NoFactor
<1>. QED BY <1>4, <1>5, <1>7, <1>8, <1>9, <1>10 DEF SignInIInv

LEMMA NextIInv == SignInIInv /\ [Next]_vars => SignInIInv'
<1> SUFFICES ASSUME SignInIInv, [Next]_vars PROVE SignInIInv'
  OBVIOUS
<1>1. RequestTypes /\ AccountTypes /\ FactorTypes /\ RowTypes
  BY TypeParts DEF SignInIInv
<1>2. TypeOK' /\ HitsAreKept'
  BY TypesKept DEF SignInIInv
<1>3. AccountTypes' /\ FactorTypes' /\ RowTypes'
  BY Zenon, <1>2 DEF TypeOK, AccountTypes, FactorTypes, RowTypes
<1>4. LocksAreBounded' /\ GuessesLock'
  BY <1>1, <1>3, LocksStayBounded, GuessesStillLock DEF SignInIInv
<1>5. CodesAreSpent' /\ UnspentCodes' /\ StepsAreCounted' /\ FactorsAreLoaded' /\ CountedCodes'
  BY <1>1, <1>3, CodesStaySpent, FactorsStayLoaded, CodesStayCounted DEF SignInIInv, CodesOK
<1>. QED BY <1>2, <1>4, <1>5 DEF SignInIInv

\* The invariant the rest follows from: the types of rows and logs, what the limiter
\* keeps, what the attempt rows say of the lock and what tells a spent code.
THEOREM InvariantHolds == Spec => []SignInIInv
  BY InitIInv, NextIInv, PTL DEF Spec

\* One-time codes sign in once, however requests overlap: a backup code by its
\* conditional UPDATE; a TOTP step unless two verifications overlapped on the row;
\* and no code outlives the factor it is for, but one minted after a reset, which
\* then deletes the factor, had counted the codes.
THEOREM CodesSpent == Spec => []CodesAreSpent
<1>1. SignInIInv => CodesAreSpent
  BY DEF SignInIInv
<1>. QED BY <1>1, InvariantHolds, PTL

\* Tier 1 and the rate limiter bound the guesses: with a lock no shorter than its
\* window, at most the threshold and the requests that overlapped when the lock fell;
\* with any settings, no window of the limiter admits more hits than its limit.
THEOREM GuessesBounded ==
    ASSUME Tier1Window <= Tier1Lock PROVE Spec => []GuessesAreBounded
<1>1. SignInIInv /\ GuessesToCome /\ [Next]_vars => GuessesToCome'
  <2> SUFFICES ASSUME SignInIInv, GuessesToCome, [Next]_vars PROVE GuessesToCome'
    OBVIOUS
  <2>1. RequestTypes /\ AccountTypes /\ FactorTypes /\ RowTypes
    BY TypeParts DEF SignInIInv
  <2>2. TypeOK'
    BY TypesKept DEF SignInIInv
  <2>3. AccountTypes' /\ RowTypes'
    BY Zenon, <2>2 DEF TypeOK, AccountTypes, RowTypes
  <2>. QED BY <2>1, <2>3, GuessesStillCome DEF SignInIInv
<1>2. SignInIInv /\ GuessesToCome => GuessesAreBounded
  <2> SUFFICES ASSUME SignInIInv, GuessesToCome PROVE GuessesAreBounded
    OBVIOUS
  <2>1. GuessBound
    BY TypeParts, GuessesBound DEF SignInIInv
  <2>2. LimiterOK
    BY TypeParts DEF SignInIInv, LimiterOK
  <2>. QED BY <2>1, <2>2, LimiterBounds DEF SignInIInv, GuessesAreBounded
<1>. QED BY <1>1, <1>2, InitIInv, InvariantHolds, PTL DEF Spec

\* The rate limiter on its own, whatever the lock: a window never admits more hits than
\* the limit of its bucket.
THEOREM WindowsHold == Spec => [](TypeOK /\ WindowNeverExceeded)
<1>1. SignInIInv => TypeOK /\ WindowNeverExceeded
  <2> SUFFICES ASSUME SignInIInv PROVE TypeOK /\ WindowNeverExceeded
    OBVIOUS
  <2>1. LimiterOK
    BY TypeParts DEF SignInIInv, LimiterOK
  <2>. QED BY <2>1, LimiterBounds DEF SignInIInv
<1>. QED BY <1>1, InvariantHolds, PTL

\* A live lock goes only by an administrator's hand, or by a sign-in that had loaded
\* an older lock: the unit of work writes no column it did not change.
THEOREM LiveLockHolds == Spec => LiveLockStays
<1>1. ASSUME SignInIInv, [Next]_vars, account.until > now, account'.until < account.until
      PROVE  \E r \in Requests :
                /\ pc'[r] = "idle"
                /\ \/ pc[r] \in {"unlock", "recover"}
                   \/ pc[r] \in SignInLocations /\ seen[r].until # 0
  <2>0. RequestTypes /\ AccountTypes /\ RowTypes
    BY <1>1, TypeParts DEF SignInIInv
  <2>1. RequestTypes /\ AccountTypes /\ RowTypes /\ account.until <= now + Tier1Lock
    BY <1>1, <2>0 DEF SignInIInv, LocksAreBounded
  <2>2. now \in Nat /\ account.until \in Nat /\ Tier1Lock \in Nat /\ ~(account.until < account.until)
    BY <2>1, NowIsNatural, Constants DEF AccountTypes, UserRow
  <2>3. account'.until # account.until /\ account'.until # now + Tier1Lock
    BY <1>1, <2>1, <2>2
  <2>4. ASSUME NEW r \in Requests, Leave(r) PROVE pc'[r] = "idle"
    BY <2>1, <2>4 DEF Leave, RequestTypes
  <2>5. ASSUME NEW r \in Requests, LoginSucceeds(r) PROVE seen[r].until # 0
    BY <2>1, <2>3, <2>5, LoginSucceedsDoes
  <2>6. ASSUME NEW r \in Requests, RequestStep(r)
        PROVE  /\ pc'[r] = "idle"
               /\ \/ pc[r] \in {"unlock", "recover"}
                  \/ pc[r] \in SignInLocations /\ seen[r].until # 0
    <3>1. CASE PasswordOnly(r) \/ \E c \in 1..MaxMints : BackupCodeAccepted(r, c)
      BY <3>1, <2>4, <2>5 DEF PasswordOnly, BackupCodeAccepted, SignInLocations
    <3>2. ASSUME NEW s \in DOMAIN used, TotpAccepted(r, s) \/ EnrollAndVerify(r, s)
          PROVE  pc'[r] = "idle" /\ pc[r] \in SignInLocations /\ seen[r].until # 0
      BY <3>2, <2>4, <2>5 DEF TotpAccepted, EnrollAndVerify, SignInLocations
    <3>3. CASE Unlock(r) \/ AdminRecover(r)
      BY <3>3, <2>4 DEF Unlock, AdminRecover
    <3>4. CASE WrongPassword(r) \/ MfaCodeRejected(r)
      BY <3>4, <2>1, <2>3, FailedAttemptDoes, WrongPasswordDoes DEF MfaCodeRejected
    <3>5. ASSUME NEW s \in DOMAIN used, EnrollConfirm(r, s) \/ Regenerate(r, s) \/ DisableFactor(r, s)
          PROVE  FALSE
      BY <3>5, <2>3 DEF EnrollConfirm, Regenerate, DisableFactor
    <3>6. CASE LoginRejected(r)
      BY <3>6, <2>3 DEF LoginRejected
    <3>7. CASE Reset2fa(r)
      BY <3>7, <2>3 DEF Reset2fa
    <3>. QED BY <2>6, <3>1, <3>2, <3>3, <3>4, <3>5, <3>6, <3>7 DEF RequestStep
  <2>7. ASSUME NEW r \in Requests, Passes(r) \/ CountCodes(r) \/ \E loc \in Locations : Enters(r, loc)
        PROVE  FALSE
    BY <2>7, <2>3 DEF Passes, CountCodes, Enters, db
  <2>8. CASE Tick \/ UNCHANGED vars
    BY <2>8, <2>3 DEF Tick, vars, db
  <2>. QED BY <1>1, <2>6, <2>7, <2>8, Steps
<1>2. SignInIInv /\ [Next]_vars =>
        [ (account.until > now /\ account'.until < account.until)
            => \E r \in Requests :
                /\ pc'[r] = "idle"
                /\ \/ pc[r] \in {"unlock", "recover"}
                   \/ pc[r] \in SignInLocations /\ seen[r].until # 0 ]_vars
  BY <1>1
<1>. QED BY <1>2, InvariantHolds, PTL DEF Spec, LiveLockStays
=============================================================================
