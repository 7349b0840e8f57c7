------------------------------ MODULE Accounts ------------------------------
(***************************************************************************)
(* The user directory: what administrators, the users themselves, the      *)
(* holders of invitation and reset links and the command line do to the    *)
(* user rows, and which access tokens the rows let in.                     *)
(*                                                                         *)
(* A request loads rows and checks them (Begin...), awaits, and commits    *)
(* (Commit...) the columns whose value it changed.  A handler that only    *)
(* inserts after its check is one action: inserting earlier or later makes *)
(* no difference to the rows it checked.  How a password is verified, the  *)
(* lockout and the second factor are the module SignIn.                    *)
(*                                                                         *)
(* Two ticks of the clock are one second, the resolution of a JWT's iat.   *)
(***************************************************************************)
EXTENDS Naturals, FiniteSets

CONSTANTS
    Users,         \* rows of the user table, present and to come
    Admins,        \* users that hold the admin profile from the start
    Guests,        \* users that are still to be invited
    Bootstrap,     \* the user seeded with settings.admin_email
    Requests,      \* HTTP requests (and CLI commands) in flight at once
    Spare,         \* addresses that no user has from the start
    TokenTtl,      \* life of an invitation, reset or change token
    MaxTokens, MaxCalls, MaxTime     \* bounds: tokens, requests, the clock

ASSUME AccountsAssumption ==
    /\ IsFiniteSet(Users) /\ IsFiniteSet(Requests)
    /\ Admins \subseteq Users /\ Guests \subseteq Users
    /\ Admins \cap Guests = {}
    /\ Bootstrap \in Admins
    /\ Spare \cap Users = {}
    /\ {TokenTtl, MaxTokens, MaxCalls, MaxTime} \subseteq Nat
    /\ MaxTime >= 3        \* room for the clock of Init

VARIABLES
    now,        \* the clock
    user,       \* user: the columns of each row; status "none" before the row exists
    token,      \* invitation_token, password_reset_token, email_change_token, personal_access_token
    minted,     \* tokens so far
    sessions,   \* the seconds at which each user's access tokens were issued
    calls,      \* requests so far (a bound)
    req,        \* per request: what it does and what it loaded
    redeemed, settled, superseded, changed, raced   \* history

rows == <<user, token, minted, sessions>>
history == <<redeemed, settled, superseded, changed, raced>>
vars == <<now, rows, calls, req, history>>

Time == 0..MaxTime
Tokens == 1..MaxTokens
Statuses == {"none", "invited", "active", "locked", "deactivated", "deleted"}
Kinds == {"none", "invite", "reset", "change", "pat"}
Addresses == Users \cup Spare       \* a user's first address is named after the user

UserRow == [status : Statuses, admin : BOOLEAN, password : BOOLEAN,
            mark : Time, email : Addresses]
TokenRow == [kind : Kinds, user : Users, used : Time, expires : Nat, email : Addresses]

NoToken == [kind |-> "none", user |-> Bootstrap, used |-> 0, expires |-> 0,
            email |-> Bootstrap]
Idle == [op |-> "idle", on |-> Bootstrap, tok |-> 1, at |-> 0,
         row |-> [status |-> "none", admin |-> FALSE, password |-> FALSE, mark |-> 0,
                  email |-> Bootstrap],
         held |-> NoToken, others |-> {}]

Second(t) == t \div 2
Truncated(t) == 2 * Second(t)

Init ==
    /\ now = 3             \* the second half of a second
    /\ user = [u \in Users |->
                 [status |-> IF u \in Guests THEN "none" ELSE "active",
                  admin |-> u \in Admins, password |-> u \notin Guests,
                  mark |-> 0, email |-> u]]
    /\ token = [t \in Tokens |-> NoToken]
    /\ minted = 0
    /\ sessions = [u \in Users |-> IF u \in Guests THEN {} ELSE {Second(now)}]
    /\ calls = 0
    /\ req = [r \in Requests |-> Idle]
    /\ redeemed = [t \in Tokens |-> 0]
    /\ settled = [u \in Users |-> 0]
    /\ superseded = {}
    /\ changed = [u \in Users |-> 0]
    /\ raced = [u \in Users |-> FALSE]

---------------------------------------------------------------------------
(* Who may call, and what a request loads.                                 *)

Exists(u) == user[u].status # "none"
Accepted(u, s) == user[u].status = "active" /\ 2 * s >= user[u].mark
LoggedIn(u) == \E s \in sessions[u] : Accepted(u, s)
PatAccepted(t) ==
    /\ token[t].kind = "pat" /\ token[t].used = 0 /\ token[t].expires > now
    /\ user[token[t].user].status = "active"

Authenticated(u) == LoggedIn(u) \/ \E t \in Tokens : token[t].user = u /\ PatAccepted(t)

ActiveAdmins == {u \in Users : user[u].admin /\ user[u].status = "active"}
MayManageUsers(u) == user[u].admin /\ Authenticated(u)

\* Request r has loaded the row of user on and the token held; at is the time it
\* will write if it reads the clock now, others what else it found.
BeginWith(r, op, on, tok, at, held, others) ==
    /\ req[r].op = "idle"
    /\ calls < MaxCalls
    /\ calls' = calls + 1
    /\ req' = [req EXCEPT ![r] = [op |-> op, on |-> on, tok |-> tok, at |-> at,
                                  row |-> user[on], held |-> held, others |-> others]]
    /\ UNCHANGED <<now, rows, history>>

Begin(r, op, on, others) == BeginWith(r, op, on, 1, 0, NoToken, others)
BeginLink(r, op, t, others) == BeginWith(r, op, token[t].user, t, now, token[t], others)

Call ==
    /\ calls < MaxCalls
    /\ calls' = calls + 1
    /\ UNCHANGED req

Done(r) ==
    /\ req' = [req EXCEPT ![r] = Idle]
    /\ UNCHANGED calls

\* The row of user u after a request that loaded old and set it to new: a column
\* that the request left alone keeps the value another request wrote.
Saved(u, old, new) ==
    [user EXCEPT ![u] = [c \in DOMAIN @ |-> IF new[c] # old[c] THEN new[c] ELSE @[c]]]

Issue(kind, u, email) ==
    /\ minted < MaxTokens
    /\ minted' = minted + 1
    /\ token' = [token EXCEPT ![minted'] =
                   [kind |-> kind, user |-> u, used |-> 0, expires |-> now + TokenTtl,
                    email |-> email]]

---------------------------------------------------------------------------
(* Administrators.                                                         *)

\* Mutant: invited administrators are counted although they cannot log in yet.
CountActiveAdmins_Invited ==
    Cardinality({u \in Users : user[u].admin /\ user[u].status \in {"active", "invited"}})
CountActiveAdmins == Cardinality(ActiveAdmins)

GuardLastAdmin(u) == u \in ActiveAdmins => CountActiveAdmins > 1

BeginDemote(r, by, on) ==
    /\ MayManageUsers(by)
    /\ user[on].admin /\ Exists(on)
    /\ GuardLastAdmin(on)
    /\ Begin(r, "demote", on, ActiveAdmins)

BeginPromote(r, by, on) ==
    /\ MayManageUsers(by)
    /\ ~user[on].admin /\ Exists(on)
    /\ Begin(r, "promote", on, {})

BeginDeactivate(r, by, on) ==
    /\ MayManageUsers(by)
    /\ user[on].status = "active"
    /\ GuardLastAdmin(on)
    /\ Begin(r, "deactivate", on, ActiveAdmins)

\* Mutant: the transition is refused only from active.
BeginReactivate_AnyStatus(r, by, on) ==
    /\ MayManageUsers(by)
    /\ Exists(on) /\ user[on].status # "active"
    /\ Begin(r, "reactivate", on, {})
BeginReactivate(r, by, on) ==
    /\ MayManageUsers(by)
    /\ user[on].status = "deactivated"
    /\ Begin(r, "reactivate", on, {})

BeginDelete(r, by, on) ==
    /\ MayManageUsers(by)
    /\ Exists(on) /\ user[on].status # "deleted"
    /\ on # by
    /\ user[on].email # Bootstrap        \* settings.admin_email
    /\ GuardLastAdmin(on)
    /\ Begin(r, "delete", on, ActiveAdmins)

BeginTempPassword(r, by, on) ==
    /\ MayManageUsers(by)
    /\ Exists(on) /\ user[on].status # "deleted"
    /\ Begin(r, "temp_password", on, {})

\* The unlock of an administrator, and the one of the command line (by = on).
BeginUnlock(r, by, on) ==
    /\ by # on => MayManageUsers(by)
    /\ user[on].status = "locked"        \* a bound: any other status is left alone
    /\ Begin(r, "unlock", on, {})

BeginRecover(r, on) ==
    /\ user[on].admin
    /\ user[on].status \in {"invited", "active", "locked", "deactivated"}
    /\ Begin(r, "recover", on, {})

Invite(by, on, admin) ==
    /\ MayManageUsers(by)
    /\ ~Exists(on)
    /\ \A u \in Users : Exists(u) => user[u].email # on
    /\ Issue("invite", on, on)
    /\ user' = [user EXCEPT ![on] = [status |-> "invited", admin |-> admin,
                                     password |-> FALSE, mark |-> 0, email |-> on]]
    /\ Call
    /\ UNCHANGED <<now, sessions, history>>

ResendInvite(by, on) ==
    /\ MayManageUsers(by)
    /\ user[on].status = "invited"
    /\ Issue("invite", on, on)
    /\ Call
    /\ UNCHANGED <<now, user, sessions, history>>

AdminOps == {"demote", "promote", "deactivate", "reactivate", "delete", "temp_password",
             "unlock", "recover"}

\* The row as each of them leaves it.
Demoted(row) == [row EXCEPT !.admin = FALSE]
Promoted(row) == [row EXCEPT !.admin = TRUE]
Deactivated(row) == [row EXCEPT !.status = "deactivated"]
Reactivated(row) == [row EXCEPT !.status = "active"]
Deleted(row) == [row EXCEPT !.status = "deleted"]
\* Mutant: a temporary password leaves the watermark where it was.
TempPassword_NoWatermark(row) == [row EXCEPT !.password = TRUE]
TempPassword(row) == [row EXCEPT !.password = TRUE, !.mark = now]
Unlocked(row) == [row EXCEPT !.status = "active"]
Recovered(row) == [row EXCEPT !.password = TRUE, !.status = "active"]

AdminWrites(op, row) ==
    CASE op = "demote" -> Demoted(row)
      [] op = "promote" -> Promoted(row)
      [] op = "deactivate" -> Deactivated(row)
      [] op = "reactivate" -> Reactivated(row)
      [] op = "delete" -> Deleted(row)
      [] op = "temp_password" -> TempPassword(row)
      [] op = "unlock" -> Unlocked(row)
      [] op = "recover" -> Recovered(row)

\* A password change of u that was dated at commits: it is noted as the latest, and
\* as raced when the watermark moved since the request loaded the row.
NoteChange(r, u, at) ==
    /\ changed' = [changed EXCEPT ![u] = IF Second(at) > @ THEN Second(at) ELSE @]
    /\ raced' = [raced EXCEPT ![u] = @ \/ user[u].mark # req[r].row.mark]

CommitAdmin(r) ==
    /\ req[r].op \in AdminOps
    /\ user' = Saved(req[r].on, req[r].row, AdminWrites(req[r].op, req[r].row))
    /\ IF req[r].op = "temp_password" THEN NoteChange(r, req[r].on, now)
                                     ELSE UNCHANGED <<changed, raced>>
    /\ Done(r)
    /\ UNCHANGED <<now, token, minted, sessions, redeemed, settled, superseded>>

---------------------------------------------------------------------------
(* Access tokens, and the owner's password.                                *)

Login(u) ==
    /\ user[u].status = "active" /\ user[u].password
    /\ Second(now) \notin sessions[u]
    /\ sessions' = [sessions EXCEPT ![u] = @ \cup {Second(now)}]
    /\ Call
    /\ UNCHANGED <<now, user, token, minted, history>>

\* Tier 2 of the lockout (SignIn).
LockOut(u) ==
    /\ user[u].status = "active"
    /\ user' = [user EXCEPT ![u].status = "locked"]
    /\ Call
    /\ UNCHANGED <<now, token, minted, sessions, history>>

BeginChangePassword(r, u) ==
    /\ Authenticated(u) /\ user[u].password
    /\ Begin(r, "password", u, {})

ChangedPassword(row) == [row EXCEPT !.mark = Truncated(now)]

CommitChangePassword(r) ==
    LET u == req[r].on IN
    /\ req[r].op = "password"
    /\ user' = Saved(u, req[r].row, ChangedPassword(req[r].row))
    /\ sessions' = [sessions EXCEPT ![u] = @ \cup {Second(now)}]
    /\ NoteChange(r, u, now)
    /\ Done(r)
    /\ UNCHANGED <<now, token, minted, redeemed, settled, superseded>>

---------------------------------------------------------------------------
(* Links: an invitation, a password reset, a change of address.            *)

BeginAccept(r, t) ==
    /\ token[t].kind = "invite"
    /\ BeginLink(r, "accept", t, {})

\* Mutant: the redeeming UPDATE is not conditional on the token being unused.
Redeem_Blind(t) == TRUE
Redeem(t) == token[t].used = 0

\* One transaction: the redeeming UPDATE, then the row it belongs to is loaded and
\* made active whatever its status was.  The watermark has its fraction.
CommitAccept(r) ==
    LET t == req[r].tok
        u == req[r].on
    IN
    /\ req[r].op = "accept"
    /\ Redeem(t) /\ token[t].expires > now
    /\ token' = [token EXCEPT ![t].used = now]
    /\ user' = [user EXCEPT ![u].status = "active", ![u].password = TRUE,
                            ![u].mark = req[r].at]
    /\ sessions' = [sessions EXCEPT ![u] = @ \cup {Second(now)}]
    /\ redeemed' = [redeemed EXCEPT ![t] = @ + 1]
    /\ NoteChange(r, u, req[r].at)
    /\ Done(r)
    /\ UNCHANGED <<now, minted, settled, superseded>>

RequestReset(u) ==
    /\ user[u].status = "active"
    /\ Issue("reset", u, user[u].email)
    /\ Call
    /\ UNCHANGED <<now, user, sessions, history>>

BeginConfirmReset(r, t) ==
    /\ token[t].kind = "reset" /\ token[t].used = 0 /\ token[t].expires >= now
    /\ user[token[t].user].status = "active" /\ user[token[t].user].password
    /\ BeginLink(r, "reset", t, {})

\* The other unused reset tokens of the same user.
Siblings(t) == {s \in Tokens \ {t} : /\ token[s].kind = token[t].kind
                                     /\ token[s].user = token[t].user
                                     /\ token[s].used = 0}

CommitConfirmReset(r) ==
    LET t == req[r].tok
        u == req[r].on
    IN
    /\ req[r].op = "reset"
    /\ Redeem(t)
    /\ user' = Saved(u, req[r].row, [req[r].row EXCEPT !.mark = Truncated(req[r].at)])
    /\ token' = [s \in Tokens |-> IF s \in Siblings(t) \cup {t}
                                  THEN [token[s] EXCEPT !.used = req[r].at] ELSE token[s]]
    /\ redeemed' = [redeemed EXCEPT ![t] = @ + 1]
    /\ settled' = [settled EXCEPT ![u] = minted]
    /\ NoteChange(r, u, req[r].at)
    /\ Done(r)
    /\ UNCHANGED <<now, minted, sessions, superseded>>

\* The token was redeemed, or the invitation expired, since the request came in.
RedeemFails(r) ==
    /\ req[r].op \in {"accept", "reset"}
    /\ \/ ~Redeem(req[r].tok)
       \/ req[r].op = "accept" /\ token[req[r].tok].expires <= now
    /\ Done(r)
    /\ UNCHANGED <<now, rows, history>>

Taken(email, u) == \E v \in Users \ {u} : user[v].email = email /\ user[v].status = "active"

ChangeToken(u, email) ==
    [kind |-> "change", user |-> u, used |-> 0, expires |-> now + TokenTtl, email |-> email]

BeginAskChange(r, u, email) ==
    /\ Authenticated(u)
    /\ email # user[u].email
    /\ ~Taken(email, u)
    /\ BeginWith(r, "ask_change", u, 1, now, ChangeToken(u, email),
         {t \in Tokens : token[t].kind = "change" /\ token[t].user = u /\ token[t].used = 0})

\* The unused change tokens that the request for another one found.
Outdated(r) == req[r].others

CommitAskChange(r) ==
    /\ req[r].op = "ask_change"
    /\ minted < MaxTokens
    /\ minted' = minted + 1
    /\ token' = [t \in Tokens |->
                   IF t = minted' THEN req[r].held
                   ELSE IF t \in Outdated(r) THEN [token[t] EXCEPT !.used = req[r].at]
                   ELSE token[t]]
    /\ superseded' = superseded \cup req[r].others
    /\ Done(r)
    /\ UNCHANGED <<now, user, sessions, redeemed, settled, changed, raced>>

BeginConfirmChange(r, t) ==
    /\ token[t].kind = "change" /\ token[t].used = 0 /\ token[t].expires >= now
    /\ ~Taken(token[t].email, token[t].user)
    /\ BeginLink(r, "change", t, superseded)

\* The owner's status is not looked at, and the watermark stays: the sessions go on.
CommitConfirmChange(r) ==
    LET t == req[r].tok
        u == req[r].on
        email == req[r].held.email
    IN
    /\ req[r].op = "change"
    /\ \A v \in Users \ {u} : Exists(v) => user[v].email # email
    /\ user' = Saved(u, req[r].row, [req[r].row EXCEPT !.email = email])
    /\ token' = [s \in Tokens |-> IF s \in Siblings(t) \cup {t}
                                  THEN [token[s] EXCEPT !.used = req[r].at] ELSE token[s]]
    /\ Done(r)
    /\ UNCHANGED <<now, minted, sessions, history>>

\* The address is one a user who is not active holds, or took meanwhile: the unique
\* constraint refuses the row.
ConfirmChangeFails(r) ==
    /\ req[r].op = "change"
    /\ \E v \in Users \ {req[r].on} : Exists(v) /\ user[v].email = req[r].held.email
    /\ Done(r)
    /\ UNCHANGED <<now, rows, history>>

---------------------------------------------------------------------------
(* Personal access tokens.                                                 *)

IssuePat(u) ==
    /\ LoggedIn(u)
    /\ Issue("pat", u, user[u].email)
    /\ Call
    /\ UNCHANGED <<now, user, sessions, history>>

BeginRevoke(r, t) ==
    /\ token[t].kind = "pat"
    /\ LoggedIn(token[t].user)
    /\ BeginLink(r, "revoke", t, {})

Revoked(row) == IF row.used = 0 THEN [row EXCEPT !.used = now] ELSE row

CommitRevoke(r) ==
    LET t == req[r].tok IN
    /\ req[r].op = "revoke"
    /\ token' = IF Revoked(req[r].held) = req[r].held THEN token
                ELSE [token EXCEPT ![t].used = now]
    /\ Done(r)
    /\ UNCHANGED <<now, user, minted, sessions, history>>

---------------------------------------------------------------------------
Tick ==
    /\ now < MaxTime
    /\ now' = now + 1
    /\ UNCHANGED <<rows, calls, req, history>>

Administer(r) ==
    \/ CommitAdmin(r)
    \/ \E on \in Users :
        \/ BeginRecover(r, on)
        \/ \E by \in Users :
            \/ BeginDemote(r, by, on) \/ BeginPromote(r, by, on)
            \/ BeginDeactivate(r, by, on) \/ BeginReactivate(r, by, on)
            \/ BeginDelete(r, by, on) \/ BeginTempPassword(r, by, on)
            \/ BeginUnlock(r, by, on)

Redeeming(r) ==
    \/ CommitAccept(r) \/ CommitConfirmReset(r) \/ RedeemFails(r)
    \/ CommitConfirmChange(r) \/ ConfirmChangeFails(r) \/ CommitRevoke(r)
    \/ \E t \in Tokens :
        \/ BeginAccept(r, t) \/ BeginConfirmReset(r, t) \/ BeginConfirmChange(r, t)
        \/ BeginRevoke(r, t)

Owning(r) ==
    \/ CommitChangePassword(r) \/ CommitAskChange(r)
    \/ \E u \in Users :
        \/ BeginChangePassword(r, u)
        \/ \E email \in Addresses : BeginAskChange(r, u, email)

Next ==
    \/ Tick
    \/ \E r \in Requests : Administer(r) \/ Redeeming(r) \/ Owning(r)
    \/ \E u \in Users : Login(u) \/ LockOut(u) \/ RequestReset(u) \/ IssuePat(u)
    \/ \E by, on \in Users :
        \/ ResendInvite(by, on)
        \/ \E admin \in BOOLEAN : Invite(by, on, admin)

Spec == Init /\ [][Next]_vars

---------------------------------------------------------------------------
(* Properties.                                                             *)

Ops == AdminOps \cup {"idle", "password", "accept", "reset", "ask_change", "change", "revoke"}

\* The shape of the rows and of what the requests hold; neither a token nor a
\* watermark is dated in the future.
TypeOK ==
    /\ now \in Time /\ calls \in 0..MaxCalls /\ minted \in 0..MaxTokens
    /\ user \in [Users -> UserRow]
    /\ token \in [Tokens -> TokenRow]
    /\ \A u \in Users : user[u].mark <= now
    /\ \A t \in Tokens : token[t].used <= now /\ (token[t].kind = "none") = (t > minted)
    /\ sessions \in [Users -> SUBSET (0..Second(MaxTime))]
    /\ \A r \in Requests :
         req[r].op \in Ops /\ req[r].row \in UserRow /\ req[r].held \in TokenRow
    /\ redeemed \in [Tokens -> Nat] /\ settled \in [Users -> 0..MaxTokens]

\* Demoting, deactivating and deleting leave an active administrator behind, unless
\* another one left between the count and the commit, or the target had become an
\* administrator meanwhile.  Locking out is not guarded.
AdminsRemain ==
    [][ (ActiveAdmins # {} /\ ActiveAdmins' = {})
        => \/ \E u \in Users : user[u].status = "active" /\ user'[u].status = "locked"
           \/ \E r \in Requests :
                /\ req[r].op \in {"demote", "deactivate", "delete"} /\ req'[r].op = "idle"
                /\ Cardinality(req[r].others) > 1 \/ req[r].on \notin req[r].others ]_vars

\* A deleted account comes back only through an invitation that is still open, or by
\* a request that had loaded the row before the deletion.
TombstoneStays ==
    \A u \in Users :
      (user[u].status = "deleted" /\ user'[u].status # "deleted")
      => \E r \in Requests :
           /\ req[r].on = u /\ req'[r].op = "idle"
           /\ req[r].op = "accept" \/ req[r].row.status # "deleted"

\* An invitation or a reset link sets a password once, also when two requests redeem
\* it at the same time.
RedeemedOnce == \A t \in Tokens : redeemed[t] <= 1

\* After a reset no reset link that was mailed before it is open.
ResetEndsSiblings ==
    \A t \in Tokens :
        (token[t].kind = "reset" /\ t <= settled[token[t].user]) => token[t].used # 0

\* An access token of a second before the latest password change is refused, unless
\* two changes overlapped: the watermark is written without a condition and can go
\* backwards.
EarlierSessionsEnd ==
    \A u \in Users : \A s \in sessions[u] :
        (s < changed[u] /\ ~raced[u]) => ~Accepted(u, s)

\* The watermark of an acceptance is a fraction of the second it is committed in.
MidSecond(at) == Second(at) = Second(now) /\ at # Truncated(at)

\* The access token that a password change or an accepted invitation returns is good:
\* the watermark is not later than its issue.  The exceptions: somebody else moved the
\* watermark since the password change loaded the row; the invitation was accepted
\* within the second it came in, past its beginning: its watermark is not truncated, and
\* the invited user has to log in again after that second.
FreshTokenWorks ==
    \A r \in Requests :
      /\ (req[r].op = "password" /\ req'[r].op = "idle")
         => \/ 2 * Second(now) >= user'[req[r].on].mark
            \/ user[req[r].on].mark # req[r].row.mark
      /\ (req[r].op = "accept" /\ req'[r].op = "idle" /\ redeemed' # redeemed)
         => 2 * Second(now) >= user'[req[r].on].mark \/ MidSecond(req[r].at)

\* The address changes only by a link that no later request had replaced when the
\* confirmation looked at it.
LatestChangeWins ==
    \A r \in Requests :
      (req[r].op = "change" /\ user' # user /\ req'[r].op = "idle")
      => req[r].tok \notin req[r].others

\* The first revocation of a personal access token keeps its date, unless two
\* overlapped, and a revoked token is never good again.
RevocationKept ==
    \A t \in Tokens :
      (token[t].kind = "pat" /\ token[t].used # 0 /\ token'[t].used # token[t].used)
      => /\ token'[t].used # 0
         /\ \E r \in Requests : req[r].op = "revoke" /\ req[r].tok = t
                                /\ req[r].held.used = 0

\* The shape of the rows, and mailed links: one is redeemed once, and a reset ends
\* those before it.
LinksAreSpent == TypeOK /\ RedeemedOnce /\ ResetEndsSiblings

\* Access tokens against the watermark: those of before the latest password change are
\* refused, and the one that a change returns is good, but for an acceptance in mid-second.
SessionsFollowPassword == [][EarlierSessionsEnd' /\ FreshTokenWorks]_vars

\* What was ended does not come back: a deleted account, a replaced link, a revoked
\* token.
EndedStaysEnded == [][TombstoneStays /\ LatestChangeWins /\ RevocationKept]_vars

---------------------------------------------------------------------------
(* Why: the inductive invariant.                                           *)

\* A token that was not minted is blank, and every token has an owner.
TokensHaveOwners ==
    \A t \in Tokens : /\ t > minted => token[t] = NoToken
                      /\ Exists(token[t].user)

\* Redeemed and replaced tokens are used, and used tokens stay so: the date of a
\* use is never 0.
SpentAreUsed ==
    /\ now > 0
    /\ \A t \in Tokens : redeemed[t] # 0 => redeemed[t] = 1 /\ token[t].used # 0
    /\ superseded \subseteq Tokens /\ \A t \in superseded : token[t].used # 0
    /\ \A u \in Users : settled[u] <= minted

\* The watermark is at or after the latest password change, unless two overlapped.
MarksCoverChanges ==
    /\ changed \in [Users -> Nat] /\ raced \in [Users -> BOOLEAN]
    /\ \A u \in Users : /\ ~raced[u] => 2 * changed[u] <= user[u].mark
                        /\ ~Exists(u) => changed[u] = 0

RequestRow == [op : Ops, on : Users, tok : Nat, at : Time, row : UserRow, held : TokenRow,
               others : SUBSET (Users \cup Tokens)]

KindOf(op) == IF op = "accept" THEN "invite" ELSE IF op = "revoke" THEN "pat" ELSE op

\* What a request that redeems or revokes a token holds.
HoldsItsToken(q) ==
    q.op \in {"accept", "reset", "change", "revoke"} =>
        /\ q.tok \in Tokens /\ q.tok <= minted
        /\ token[q.tok].kind = KindOf(q.op) /\ token[q.tok].user = q.on
        /\ q.row.mark <= q.at
        /\ q.op = "change" => q.tok \notin q.others

\* The tokens that a request for a change of address replaces, and the new one.
HoldsNewToken(q) ==
    q.op = "ask_change" =>
        /\ q.held.kind = "change" /\ q.held.used = 0 /\ q.held.user = q.on
        /\ \A t \in q.others : t \in Tokens /\ t <= minted /\ token[t].kind = "change"

\* What administrators' requests looked at.
LookedFirst(q) ==
    /\ q.op \in {"demote", "deactivate", "delete"} => q.on \notin q.others \/ Cardinality(q.others) > 1
    /\ q.op \in {"deactivate", "reactivate", "delete", "unlock", "recover"} => q.row.status # "deleted"

RequestOK(q) ==
    /\ q \in RequestRow
    /\ Exists(q.on) /\ q.row.status # "none" /\ q.row.mark <= now /\ q.at <= now
    /\ q.op \in {"accept", "reset", "change", "revoke", "ask_change"} => q.at > 0
    /\ HoldsItsToken(q) /\ HoldsNewToken(q) /\ LookedFirst(q)

RequestsAreOK ==
    /\ DOMAIN req = Requests
    /\ \A r \in Requests : req[r] = Idle \/ (req[r].op # "idle" /\ RequestOK(req[r]))

AccountsIInv ==
    /\ LinksAreSpent /\ TokensHaveOwners /\ SpentAreUsed /\ MarksCoverChanges /\ RequestsAreOK
=============================================================================
