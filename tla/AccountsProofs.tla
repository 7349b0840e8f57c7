--------------------------- MODULE AccountsProofs ---------------------------
(* The proofs about Accounts, for any number of users, requests and tokens. *)
EXTENDS Accounts, TLAPS

-----------------------------------------------------------------------------
(* The rows of users and tokens, apart from the requests.                   *)

LEMMA Constants ==
    /\ Bootstrap \in Users /\ Bootstrap \in Admins /\ Bootstrap \notin Guests
    /\ MaxTime \in Nat /\ MaxTime >= 3 /\ MaxTokens \in Nat /\ MaxCalls \in Nat /\ TokenTtl \in Nat
    /\ Users \subseteq Addresses
  BY AccountsAssumption DEF Addresses

TokenSide ==
    /\ now \in Time /\ now > 0 /\ minted \in 0..MaxTokens
    /\ token \in [Tokens -> TokenRow]
    /\ redeemed \in [Tokens -> Nat] /\ settled \in [Users -> 0..MaxTokens]
    /\ superseded \subseteq Tokens
    /\ \A t \in Tokens :
          /\ token[t].used <= now
          /\ token[t].kind = "none" <=> t > minted
          /\ t > minted => token[t] = NoToken
          /\ redeemed[t] # 0 => redeemed[t] = 1 /\ token[t].used # 0
          /\ t \in superseded => token[t].used # 0
          /\ token[t].kind = "reset" /\ t <= settled[token[t].user] => token[t].used # 0
    /\ \A u \in Users : settled[u] <= minted

UserSide ==
    /\ now \in Time /\ calls \in 0..MaxCalls
    /\ user \in [Users -> UserRow] /\ \A u \in Users : user[u].mark <= now
    /\ sessions \in [Users -> SUBSET (0..Second(MaxTime))]
    /\ \A t \in Tokens : Exists(token[t].user)
    /\ MarksCoverChanges

Inv == TokenSide /\ UserSide /\ RequestsAreOK

\* What no step takes back.
Progress ==
    /\ now <= now' /\ minted <= minted'
    /\ \A t \in Tokens : t <= minted => token'[t].kind = token[t].kind /\ token'[t].user = token[t].user
    /\ \A u \in Users : Exists(u) => Exists(u)'

LEMMA InvIsIInv == Inv <=> AccountsIInv
<1>1. ASSUME TypeOK, RequestsAreOK
      PROVE  \A t \in Tokens : token[t].kind = "none" <=> t > minted
  BY <1>1 DEF TypeOK
<1>2. ASSUME AccountsIInv PROVE Inv
  BY <1>1, <1>2 DEF AccountsIInv, Inv, TokenSide, UserSide, LinksAreSpent, TypeOK, RedeemedOnce,
                    ResetEndsSiblings, TokensHaveOwners, SpentAreUsed
<1>3. ASSUME Inv PROVE AccountsIInv
  <2> USE <1>3 DEF Inv, TokenSide, UserSide
  <2>1. \A r \in Requests : req[r].op \in Ops /\ req[r].row \in UserRow /\ req[r].held \in TokenRow
    <3>1. Idle.op \in Ops /\ Idle.row \in UserRow /\ Idle.held \in TokenRow
      BY Constants DEF Idle, NoToken, Ops, UserRow, TokenRow, Statuses, Kinds, Time
    <3>2. \A r \in Requests : req[r] # Idle =>
              req[r].op \in Ops /\ req[r].row \in UserRow /\ req[r].held \in TokenRow
      BY DEF RequestsAreOK, RequestOK, RequestRow
    <3>. QED BY <3>1, <3>2
  <2>2. \A t \in Tokens : (token[t].kind = "none") = (t > minted)
    OBVIOUS
  <2>3. TypeOK
    BY <2>1, <2>2 DEF TypeOK
  <2>4. RedeemedOnce /\ ResetEndsSiblings
    BY DEF RedeemedOnce, ResetEndsSiblings
  <2>5. TokensHaveOwners /\ SpentAreUsed /\ MarksCoverChanges
    BY DEF TokensHaveOwners, SpentAreUsed
  <2>. QED BY <2>3, <2>4, <2>5 DEF AccountsIInv, LinksAreSpent
<1>. QED BY <1>2, <1>3

-----------------------------------------------------------------------------
(* What happens to tokens.                                                  *)

\* The next token is minted, and some of the others may be marked as used.
LEMMA MintKeepsTokens ==
    ASSUME TokenSide, now' = now, minted < MaxTokens, minted' = minted + 1,
           NEW row \in TokenRow, row.kind # "none", row.used = 0,
           NEW S, \A t \in S : t <= minted, NEW v \in 1..now,
           token' = [t \in Tokens |-> IF t = minted + 1 THEN row
                                      ELSE IF t \in S THEN [token[t] EXCEPT !.used = v]
                                      ELSE token[t]],
           S = {} \/ superseded' = superseded \cup S, S = {} => superseded' = superseded,
           S \subseteq Tokens,
           UNCHANGED <<redeemed, settled>>
    PROVE  /\ TokenSide' /\ minted <= minted'
           /\ \A t \in Tokens : t <= minted => /\ token'[t].kind = token[t].kind
                                               /\ token'[t].user = token[t].user
           /\ \A t \in Tokens : token'[t].user \in {row.user, token[t].user}
<1> USE DEF TokenSide
<1>1. minted \in Nat /\ now \in Nat /\ v \in Nat /\ v # 0 /\ v <= now /\ v \in Time
      /\ MaxTime \in Nat /\ MaxTokens \in Nat
  BY Constants DEF Time
<1>2. \A t \in Tokens : t \in Nat /\ token[t] \in TokenRow /\ token[t].used \in Nat
  BY <1>1 DEF Tokens, TokenRow, Time
<1>3. ASSUME NEW t \in Tokens, t = minted + 1
      PROVE  /\ token'[t] = row /\ t > minted /\ t <= minted' /\ redeemed[t] = 0 /\ t \notin superseded
             /\ token[t].user = Bootstrap
  BY <1>1, <1>2, <1>3 DEF NoToken
<1>4. ASSUME NEW t \in Tokens, t # minted + 1
      PROVE  /\ token'[t] = IF t \in S THEN [token[t] EXCEPT !.used = v] ELSE token[t]
             /\ t > minted' <=> t > minted
             /\ t \in S => t <= minted
  BY <1>1, <1>2, <1>4
<1>5. ASSUME NEW t \in Tokens, t # minted + 1
      PROVE  /\ token'[t] \in TokenRow /\ token'[t].kind = token[t].kind /\ token'[t].user = token[t].user
             /\ t \in S => token'[t].used = v
             /\ t \notin S => token'[t] = token[t]
  BY <1>1, <1>2, <1>4, <1>5 DEF TokenRow
<1>6. token' \in [Tokens -> TokenRow]
  BY <1>3, <1>5
<1>7. ASSUME NEW t \in Tokens
      PROVE  /\ token'[t].used <= now
             /\ token'[t].kind = "none" <=> t > minted'
             /\ t > minted' => token'[t] = NoToken
             /\ redeemed[t] # 0 => redeemed[t] = 1 /\ token'[t].used # 0
             /\ t \in superseded' => token'[t].used # 0
             /\ token'[t].kind = "reset" /\ t <= settled[token'[t].user] => token'[t].used # 0
  <2>1. CASE t = minted + 1
    <3>1. row.user \in Users /\ settled[row.user] <= minted /\ settled[row.user] \in Nat
      BY <1>1 DEF TokenRow
    <3>2. ~(t <= settled[row.user])
      BY <1>1, <2>1, <3>1
    <3>3. t \notin S
      BY <1>1, <2>1
    <3>. QED BY <1>1, <1>3, <2>1, <3>2, <3>3
  <2>2. CASE t # minted + 1 /\ t \in S
    <3>1. token'[t].used = v /\ t <= minted /\ ~(t > minted) /\ ~(t > minted')
      <4>1. token'[t].used = v
        BY <1>5, <2>2
      <4>2. t <= minted /\ t \in Nat
        BY <1>2, <2>2
      <4>. QED BY <1>1, <4>1, <4>2
    <3>2. token[t].kind # "none" /\ token'[t].kind # "none"
      BY <1>5, <2>2, <3>1
    <3>3. redeemed[t] # 0 => redeemed[t] = 1
      OBVIOUS
    <3> HIDE DEF TokenSide
    <3>. QED BY <1>1, <3>1, <3>2, <3>3
  <2>3. CASE t # minted + 1 /\ t \notin S
    BY <1>1, <1>4, <1>5, <2>3
  <2>. QED BY <2>1, <2>2, <2>3
<1>8. minted' \in 0..MaxTokens /\ minted <= minted' /\ \A u \in Users : settled[u] <= minted'
  BY <1>1
<1>9. superseded' \subseteq Tokens
  OBVIOUS
<1>10. TokenSide'
  BY <1>6, <1>7, <1>8, <1>9
<1>. QED BY <1>1, <1>3, <1>5, <1>8, <1>10

\* Some minted tokens are marked as used.
LEMMA SpendKeepsTokens ==
    ASSUME TokenSide, UNCHANGED <<now, minted, superseded>>,
           NEW S, S \subseteq Tokens, \A t \in S : t <= minted, NEW v \in 1..now,
           token' = [t \in Tokens |-> IF t \in S THEN [token[t] EXCEPT !.used = v] ELSE token[t]],
           NEW x \in Tokens, \/ UNCHANGED redeemed
                             \/ /\ redeemed' = [redeemed EXCEPT ![x] = @ + 1]
                                /\ x \in S /\ token[x].used = 0,
           NEW w \in Users, \/ UNCHANGED settled
                            \/ /\ settled' = [settled EXCEPT ![w] = minted]
                               /\ \A t \in Tokens : token[t].kind = "reset" /\ token[t].user = w
                                     /\ token[t].used = 0 => t \in S
    PROVE  /\ TokenSide'
           /\ \A t \in Tokens : token'[t].kind = token[t].kind /\ token'[t].user = token[t].user
<1> USE DEF TokenSide
<1>1. minted \in Nat /\ now \in Nat /\ v \in Nat /\ v # 0 /\ v <= now /\ v \in Time
      /\ MaxTime \in Nat /\ MaxTokens \in Nat
  BY Constants DEF Time
<1>2. \A t \in Tokens : t \in Nat /\ token[t] \in TokenRow /\ token[t].used \in Nat
                        /\ token[t].user \in Users
  BY <1>1 DEF Tokens, TokenRow, Time
<1>3. ASSUME NEW t \in Tokens
      PROVE  /\ token'[t] \in TokenRow /\ token'[t].kind = token[t].kind /\ token'[t].user = token[t].user
             /\ t \in S => token'[t].used = v
             /\ t \notin S => token'[t] = token[t]
  BY <1>1, <1>2 DEF TokenRow
<1>4. token' \in [Tokens -> TokenRow]
  BY <1>3
<1>5. redeemed' \in [Tokens -> Nat] /\ settled' \in [Users -> 0..MaxTokens]
  OBVIOUS
<1>6. ASSUME NEW t \in Tokens
      PROVE  redeemed'[t] # 0 => redeemed'[t] = 1 /\ token'[t].used # 0
  <2>1. redeemed[t] # 0 => redeemed[t] = 1 /\ token[t].used # 0
    OBVIOUS
  <2>2. token[t].used # 0 => token'[t].used # 0
    BY <1>1, <1>3
  <2>3. CASE redeemed'[t] = redeemed[t]
    BY <2>1, <2>2, <2>3
  <2>4. CASE t = x /\ redeemed' = [redeemed EXCEPT ![x] = @ + 1] /\ x \in S /\ token[x].used = 0
    <3>1. redeemed[t] = 0 /\ redeemed'[t] = 1
      BY <2>1, <2>4
    <3>2. token'[t].used = v
      BY <1>3, <2>4
    <3>. QED BY <1>1, <3>1, <3>2
  <2>5. redeemed'[t] = redeemed[t]
        \/ (t = x /\ redeemed' = [redeemed EXCEPT ![x] = @ + 1] /\ x \in S /\ token[x].used = 0)
    OBVIOUS
  <2>. QED BY <2>3, <2>4, <2>5
<1>7. ASSUME NEW t \in Tokens, token[t].kind = "reset", t <= settled'[token[t].user]
      PROVE  token'[t].used # 0
  <2>1. CASE t \in S
    BY <1>1, <1>3, <2>1
  <2>2. CASE t \notin S /\ settled'[token[t].user] = settled[token[t].user]
    BY <1>3, <1>7, <2>2
  <2>3. CASE t \notin S /\ token[t].user = w
             /\ \A y \in Tokens : token[y].kind = "reset" /\ token[y].user = w
                                  /\ token[y].used = 0 => y \in S
    BY <1>3, <1>7, <2>3
  <2>4. settled'[token[t].user] = settled[token[t].user] \/ token[t].user = w
    BY <1>2
  <2>. QED BY <1>2, <2>1, <2>2, <2>3, <2>4
<1>8. ASSUME NEW t \in Tokens
      PROVE  /\ token'[t].used <= now
             /\ token'[t].kind = "none" <=> t > minted
             /\ t > minted => token'[t] = NoToken
             /\ t \in superseded => token'[t].used # 0
  BY <1>1, <1>2, <1>3
<1>9. \A u \in Users : settled'[u] <= minted
  BY <1>1
<1>10. TokenSide'
  BY <1>3, <1>4, <1>5, <1>6, <1>7, <1>8, <1>9
<1>. QED BY <1>3, <1>10

-----------------------------------------------------------------------------
(* What happens to users.                                                   *)

LEMMA Seconds ==
    ASSUME NEW n \in Nat
    PROVE  /\ Second(n) \in Nat /\ 2 * Second(n) <= n /\ n <= 2 * Second(n) + 1
           /\ Truncated(n) \in Nat /\ Truncated(n) <= n /\ Truncated(n) = 2 * Second(n)
  BY DEF Second, Truncated

\* The seconds of a clock that has not run out.
LEMMA SecondsOfTime ==
    ASSUME NEW t \in Time
    PROVE  Second(t) \in 0..Second(MaxTime) /\ Truncated(t) \in Time
<1>1. t \in Nat /\ MaxTime \in Nat /\ t <= MaxTime
  BY Constants DEF Time
<1>2. /\ Second(t) \in Nat /\ 2 * Second(t) <= t /\ Truncated(t) = 2 * Second(t)
      /\ Second(MaxTime) \in Nat /\ MaxTime <= 2 * Second(MaxTime) + 1
  BY <1>1, Seconds
<1>. QED BY <1>1, <1>2 DEF Time

\* A request that loaded the row old of user u saves it as new.
LEMMA SavedRow ==
    ASSUME user \in [Users -> UserRow], NEW u \in Users, NEW old \in UserRow, NEW new \in UserRow,
           user' = Saved(u, old, new)
    PROVE  /\ user' \in [Users -> UserRow]
           /\ \A v \in Users : v # u => user'[v] = user[v]
           /\ user'[u].status = IF new.status # old.status THEN new.status ELSE user[u].status
           /\ user'[u].admin = IF new.admin # old.admin THEN new.admin ELSE user[u].admin
           /\ user'[u].mark = IF new.mark # old.mark THEN new.mark ELSE user[u].mark
<1> DEFINE old2 == user[u]
           row == [c \in DOMAIN old2 |-> IF new[c] # old[c] THEN new[c] ELSE old2[c]]
<1>1. user' = [user EXCEPT ![u] = row]
  BY DEF Saved
<1>2. old2 \in UserRow
  OBVIOUS
<1> HIDE DEF old2
<1>3. DOMAIN old2 = {"status", "admin", "password", "mark", "email"}
  BY <1>2 DEF UserRow
<1>4. row = [status |-> IF new.status # old.status THEN new.status ELSE old2.status,
             admin |-> IF new.admin # old.admin THEN new.admin ELSE old2.admin,
             password |-> IF new.password # old.password THEN new.password ELSE old2.password,
             mark |-> IF new.mark # old.mark THEN new.mark ELSE old2.mark,
             email |-> IF new.email # old.email THEN new.email ELSE old2.email]
  BY <1>3
<1> HIDE DEF row
<1>5. row \in UserRow
  <2>1. /\ old2.status \in Statuses /\ old2.admin \in BOOLEAN /\ old2.password \in BOOLEAN
        /\ old2.mark \in Time /\ old2.email \in Addresses
        /\ new.status \in Statuses /\ new.admin \in BOOLEAN /\ new.password \in BOOLEAN
        /\ new.mark \in Time /\ new.email \in Addresses
    BY <1>2 DEF UserRow
  <2>. QED BY <1>4, <2>1, Zenon DEF UserRow
<1>6. /\ row.status = IF new.status # old.status THEN new.status ELSE old2.status
      /\ row.admin = IF new.admin # old.admin THEN new.admin ELSE old2.admin
      /\ row.mark = IF new.mark # old.mark THEN new.mark ELSE old2.mark
  BY <1>4
<1>7. user' \in [Users -> UserRow] /\ user'[u] = row /\ \A v \in Users : v # u => user'[v] = user[v]
  BY <1>1, <1>5
<1>. QED BY <1>6, <1>7 DEF old2

\* One row changes: its watermark stays, or is moved by a password change.
LEMMA RowKeepsUsers ==
    ASSUME UserSide, UNCHANGED now, calls' \in 0..MaxCalls,
           sessions' \in [Users -> SUBSET (0..Second(MaxTime))],
           NEW u \in Users,
           \A t \in Tokens : token'[t].user \in Users /\ token'[t].user \in {u, token[t].user},
           user' \in [Users -> UserRow], \A v \in Users : v # u => user'[v] = user[v],
           user'[u].status # "none", user'[u].mark <= now,
           NEW at \in Time, NEW loaded \in Time,
           \/ UNCHANGED <<changed, raced>> /\ user'[u].mark = user[u].mark /\ Exists(u)
           \/ UNCHANGED <<changed, raced>> /\ ~Exists(u)
           \/ /\ changed' = [changed EXCEPT ![u] = IF Second(at) > @ THEN Second(at) ELSE @]
              /\ raced' = [raced EXCEPT ![u] = @ \/ user[u].mark # loaded]
              /\ loaded <= at
              /\ user[u].mark = loaded => 2 * Second(at) <= user'[u].mark
    PROVE  UserSide' /\ \A v \in Users : Exists(v) => Exists(v)'
<1> USE DEF UserSide
<1>1. at \in Nat /\ loaded \in Nat /\ now \in Nat /\ Second(at) \in Nat
      /\ 2 * Second(at) <= at /\ at <= 2 * Second(at) + 1
  <2>1. at \in Nat /\ loaded \in Nat /\ now \in Nat
    BY Constants DEF Time
  <2>. QED BY <2>1, Seconds
<1>2. \A v \in Users : Exists(v) => Exists(v)'
  BY DEF Exists
<1>3. \A t \in Tokens : Exists(token[t].user)'
  <2>1. Exists(u)'
    BY DEF Exists
  <2>2. ASSUME NEW t \in Tokens PROVE Exists(token[t].user)'
    <3>1. token'[t].user \in Users /\ (token'[t].user = u \/ token'[t].user = token[t].user)
      OBVIOUS
    <3>2. Exists(token[t].user)
      OBVIOUS
    <3>. QED BY <1>2, <2>1, <3>1, <3>2 DEF Exists
  <2>. QED BY <2>2
<1>4. \A v \in Users : changed[v] \in Nat /\ user[v].mark \in Nat /\ user'[v].mark \in Nat
  BY Constants DEF MarksCoverChanges, UserRow, Time
<1>5. MarksCoverChanges'
  <2>1. CASE UNCHANGED <<changed, raced>> /\ user'[u].mark = user[u].mark /\ Exists(u)
    BY <1>2, <1>4, <2>1 DEF MarksCoverChanges, Exists
  <2>2. CASE UNCHANGED <<changed, raced>> /\ ~Exists(u)
    <3>1. changed[u] = 0
      BY <2>2 DEF MarksCoverChanges
    <3>. QED BY <1>2, <1>4, <2>2, <3>1 DEF MarksCoverChanges, Exists
  <2>3. CASE /\ changed' = [changed EXCEPT ![u] = IF Second(at) > @ THEN Second(at) ELSE @]
             /\ raced' = [raced EXCEPT ![u] = @ \/ user[u].mark # loaded]
             /\ loaded <= at
             /\ user[u].mark = loaded => 2 * Second(at) <= user'[u].mark
    <3>1. changed' \in [Users -> Nat] /\ raced' \in [Users -> BOOLEAN]
      <4>1. (IF Second(at) > changed[u] THEN Second(at) ELSE changed[u]) \in Nat
        BY <1>1, <1>4
      <4>2. changed' \in [Users -> Nat]
        BY <2>3, <4>1 DEF MarksCoverChanges
      <4>3. raced' \in [Users -> BOOLEAN]
        BY <2>3 DEF MarksCoverChanges
      <4>. QED BY <4>2, <4>3
    <3>2. ASSUME ~raced'[u] PROVE 2 * changed'[u] <= user'[u].mark
      <4>1. ~raced[u] /\ user[u].mark = loaded
        BY <2>3, <3>2 DEF MarksCoverChanges
      <4>2. 2 * changed[u] <= loaded
        BY <4>1 DEF MarksCoverChanges
      <4>3. changed[u] <= Second(at)
        BY <1>1, <1>4, <2>3, <4>2
      <4>4. changed'[u] = Second(at)
        BY <1>1, <1>4, <2>3, <4>3 DEF MarksCoverChanges
      <4>. QED BY <2>3, <4>1, <4>4
    <3>3. \A v \in Users : v # u => /\ changed'[v] = changed[v] /\ raced'[v] = raced[v]
                                    /\ user'[v] = user[v]
      BY <2>3 DEF MarksCoverChanges
    <3>4. ASSUME NEW v \in Users
          PROVE  /\ ~raced'[v] => 2 * changed'[v] <= user'[v].mark
                 /\ ~Exists(v)' => changed'[v] = 0
      BY <3>2, <3>3 DEF MarksCoverChanges, Exists
    <3>. QED BY <3>1, <3>4 DEF MarksCoverChanges
  <2>. QED BY <2>1, <2>2, <2>3
<1>6. \A v \in Users : user'[v].mark <= now
  OBVIOUS
<1>. QED BY <1>2, <1>3, <1>5, <1>6

\* No row changes.
LEMMA SameUsers ==
    ASSUME UserSide, UNCHANGED <<user, changed, raced>>, now' \in Time, now <= now',
           calls' \in 0..MaxCalls, sessions' \in [Users -> SUBSET (0..Second(MaxTime))],
           \A t \in Tokens : token'[t].user \in Users /\ Exists(token'[t].user)
    PROVE  UserSide' /\ \A v \in Users : Exists(v) => Exists(v)'
<1> USE DEF UserSide
<1>1. \A v \in Users : user'[v].mark <= now'
  <2>1. now \in Nat /\ now' \in Nat /\ \A v \in Users : user[v].mark \in Nat
    BY Constants DEF Time, UserRow
  <2>. QED BY <2>1
<1>2. MarksCoverChanges'
  BY DEF MarksCoverChanges, Exists
<1>3. \A t \in Tokens : Exists(token[t].user)'
  BY DEF Exists
<1>. QED BY <1>1, <1>2, <1>3 DEF Exists

-----------------------------------------------------------------------------
(* What happens to requests.                                                *)

\* What a request holds stays right while the others go on.
LEMMA RequestOutlives ==
    ASSUME TokenSide, Progress, now' \in Time, minted' \in Nat, NEW q, RequestOK(q)
    PROVE  RequestOK(q)'
<1>1. now \in Nat /\ now' \in Nat /\ now <= now' /\ minted <= minted'
  BY Constants DEF Progress, TokenSide, Time
<1>2. /\ q \in RequestRow /\ Exists(q.on) /\ q.row.status # "none"
      /\ q.row.mark <= now /\ q.at <= now /\ q.on \in Users /\ q.at \in Nat /\ q.row.mark \in Nat
      /\ q.op \in {"accept", "reset", "change", "revoke", "ask_change"} => q.at > 0
  <2>1. /\ q \in RequestRow /\ Exists(q.on) /\ q.row.status # "none"
        /\ q.row.mark <= now /\ q.at <= now
        /\ q.op \in {"accept", "reset", "change", "revoke", "ask_change"} => q.at > 0
    BY DEF RequestOK
  <2>2. q.on \in Users /\ q.at \in Time /\ q.row \in UserRow
    BY <2>1 DEF RequestRow
  <2>3. q.row.mark \in Time
    BY <2>2 DEF UserRow
  <2>4. Time \subseteq Nat
    BY Constants DEF Time
  <2>. QED BY <2>1, <2>2, <2>3, <2>4, Zenon
<1>3. Exists(q.on)' /\ q.row.mark <= now' /\ q.at <= now'
  BY <1>1, <1>2 DEF Progress
<1>4. HoldsItsToken(q)'
  <2>1. HoldsItsToken(q)
    BY DEF RequestOK
  <2>2. ASSUME q.op \in {"accept", "reset", "change", "revoke"}
        PROVE  /\ q.tok \in Tokens /\ q.tok <= minted'
               /\ token'[q.tok].kind = KindOf(q.op) /\ token'[q.tok].user = q.on
               /\ q.row.mark <= q.at
               /\ q.op = "change" => q.tok \notin q.others
    <3>1. q.tok \in Tokens /\ q.tok <= minted /\ q.tok \in Nat /\ minted \in Nat
      BY <1>1, <2>1, <2>2, Constants DEF HoldsItsToken, Tokens, TokenSide
    <3>2. q.tok <= minted'
      BY <1>1, <3>1
    <3>. QED BY <2>1, <2>2, <3>1, <3>2 DEF HoldsItsToken, Progress
  <2>. QED BY <2>2 DEF HoldsItsToken
<1>5. HoldsNewToken(q)'
  <2>1. HoldsNewToken(q)
    BY DEF RequestOK
  <2>2. ASSUME NEW t \in Tokens, t <= minted PROVE t <= minted' /\ token'[t].kind = token[t].kind
    BY <1>1, <2>2, Constants DEF Progress, Tokens, TokenSide
  <2>. QED BY <2>1, <2>2 DEF HoldsNewToken
<1>6. LookedFirst(q)'
  BY DEF RequestOK, LookedFirst
<1>. QED BY <1>2, <1>3, <1>4, <1>5, <1>6 DEF RequestOK

LEMMA RequestsGoOn ==
    ASSUME TokenSide, RequestsAreOK, Progress, now' \in Time, minted' \in Nat, DOMAIN req' = Requests,
           \A r \in Requests : \/ req'[r] = req[r] \/ req'[r] = Idle
                               \/ req'[r].op # "idle" /\ RequestOK(req'[r])
    PROVE  RequestsAreOK'
<1>1. ASSUME NEW r \in Requests
      PROVE  req'[r] = Idle \/ (req'[r].op # "idle" /\ RequestOK(req[r])')
  <2>1. PICK q : q = req'[r]
    OBVIOUS
  <2>2. q = Idle \/ (q.op # "idle" /\ RequestOK(q))
    BY <2>1 DEF RequestsAreOK
  <2>3. q = Idle \/ (q.op # "idle" /\ RequestOK(q)')
    BY <2>2, RequestOutlives
  <2>4. RequestOK(q)' => RequestOK(req[r])'
    BY <2>1 DEF RequestOK, HoldsItsToken, HoldsNewToken, LookedFirst
  <2>. QED BY <2>1, <2>3, <2>4
<1>. QED BY <1>1 DEF RequestsAreOK

\* A request loads what it will write.
LEMMA BeginKeepsInv ==
    ASSUME Inv, NEW r \in Requests, NEW op \in Ops, op # "idle", NEW on \in Users, NEW tok \in Nat,
           NEW at \in Time, at <= now, NEW held \in TokenRow, NEW others, others \subseteq Users \cup Tokens,
           BeginWith(r, op, on, tok, at, held, others),
           Exists(on),
           op \in {"accept", "reset", "change", "revoke"} =>
              /\ tok \in Tokens /\ token[tok].kind = KindOf(op) /\ token[tok].user = on
              /\ at = now
              /\ op = "change" => tok \notin others,
           op = "ask_change" =>
              /\ at = now /\ held.kind = "change" /\ held.used = 0 /\ held.user = on
              /\ \A t \in others : t \in Tokens /\ token[t].kind = "change",
           op \in {"demote", "deactivate", "delete"} => on \notin others \/ Cardinality(others) > 1,
           op \in {"deactivate", "reactivate", "delete", "unlock", "recover"} => user[on].status # "deleted"
    PROVE  Inv'
<1> DEFINE q == [op |-> op, on |-> on, tok |-> tok, at |-> at,
                 row |-> user[on], held |-> held, others |-> others]
<1>1. /\ calls' = calls + 1 /\ calls < MaxCalls /\ req' = [req EXCEPT ![r] = q]
      /\ UNCHANGED <<now, user, token, minted, sessions, redeemed, settled, superseded, changed, raced>>
  BY DEF BeginWith, rows, history
<1>2. TokenSide'
  BY <1>1 DEF Inv, TokenSide
<1>3. UserSide'
  <2>1. \A t \in Tokens : token'[t].user \in Users /\ Exists(token'[t].user)
    BY <1>1 DEF Inv, UserSide, TokenSide, TokenRow
  <2>2. calls' \in 0..MaxCalls /\ now' \in Time /\ now <= now'
    BY <1>1, Constants DEF Inv, UserSide, Time
  <2>. QED BY <1>1, <2>1, <2>2, SameUsers DEF Inv, UserSide
<1>4. Progress
  <2>1. now <= now' /\ minted <= minted'
    BY <1>1, Constants DEF Inv, TokenSide, Time
  <2>. QED BY <1>1, <2>1 DEF Progress, Exists
<1>5. q.op # "idle" /\ RequestOK(q)
  <2>1. /\ user[on] \in UserRow /\ user[on].mark <= now /\ user[on].status # "none"
        /\ now > 0 /\ now \in Nat
    BY Constants DEF Inv, UserSide, TokenSide, Exists, Time
  <2>2. q \in RequestRow
    BY <2>1 DEF RequestRow
  <2>3. \A t \in Tokens : token[t].kind # "none" => t <= minted
    BY Constants DEF Inv, TokenSide, Tokens
  <2>4. HoldsItsToken(q)
    <3>1. KindOf(op) # "none"
      BY DEF KindOf, Ops, AdminOps
    <3>. QED BY <2>1, <2>3, <3>1 DEF HoldsItsToken
  <2>5. HoldsNewToken(q)
    BY <2>1, <2>3 DEF HoldsNewToken
  <2>6. LookedFirst(q)
    BY <2>1 DEF LookedFirst
  <2>. QED BY <2>1, <2>2, <2>4, <2>5, <2>6 DEF RequestOK
<1>6. RequestsAreOK'
  <2> HIDE DEF q
  <2>1. \A x \in Requests : req'[x] = IF x = r THEN q ELSE req[x]
    BY <1>1 DEF Inv, RequestsAreOK
  <2>2. DOMAIN req' = Requests
    BY <1>1 DEF Inv, RequestsAreOK
  <2>3. now' \in Time /\ minted' \in Nat
    BY <1>1, Constants DEF Inv, TokenSide
  <2>. QED BY <1>4, <1>5, <2>1, <2>2, <2>3, RequestsGoOn DEF Inv
<1>. QED BY <1>2, <1>3, <1>6 DEF Inv

LEMMA BeginFacts ==
    ASSUME Inv
    PROVE  /\ 0 \in Time /\ 0 <= now /\ now \in Time /\ now <= now /\ NoToken \in TokenRow /\ 1 \in Nat
           /\ ActiveAdmins \subseteq Users \cup Tokens
           /\ \A t \in Tokens : /\ t \in Nat /\ token[t] \in TokenRow /\ token[t].user \in Users
                                /\ Exists(token[t].user)
           /\ \A u \in Users : Authenticated(u) => user[u].status = "active"
<1>1. now \in Nat /\ MaxTime \in Nat /\ now \in Time
  BY Constants DEF Inv, TokenSide, Time
<1>2. NoToken \in TokenRow
  BY Constants DEF NoToken, TokenRow, Kinds, Time
<1>3. ActiveAdmins \subseteq Users \cup Tokens
  BY DEF ActiveAdmins
<1>4. \A t \in Tokens : /\ t \in Nat /\ token[t] \in TokenRow /\ token[t].user \in Users
                        /\ Exists(token[t].user)
  BY DEF Inv, TokenSide, UserSide, TokenRow, Tokens
<1>5. \A u \in Users : Authenticated(u) => user[u].status = "active"
  BY DEF Authenticated, LoggedIn, Accepted, PatAccepted
<1>. QED BY <1>1, <1>2, <1>3, <1>4, <1>5 DEF Time

\* Administrators' requests.
LEMMA AdminBegins ==
    ASSUME Inv, NEW r \in Requests, NEW on \in Users,
           \/ BeginRecover(r, on)
           \/ \E by \in Users :
                \/ BeginDemote(r, by, on) \/ BeginPromote(r, by, on)
                \/ BeginDeactivate(r, by, on) \/ BeginReactivate(r, by, on)
                \/ BeginDelete(r, by, on) \/ BeginTempPassword(r, by, on)
                \/ BeginUnlock(r, by, on)
    PROVE  /\ Inv'
           /\ \E op \in AdminOps : \E others : BeginWith(r, op, on, 1, 0, NoToken, others)
<1> USE BeginFacts
<1> DEFINE Starts(op, others) == BeginWith(r, op, on, 1, 0, NoToken, others)
<1>1. ASSUME NEW op \in AdminOps, NEW others, others \in {{}, ActiveAdmins}, Starts(op, others), Exists(on),
             op \in {"demote", "deactivate", "delete"} => on \notin others \/ Cardinality(others) > 1,
             op \in {"deactivate", "reactivate", "delete", "unlock", "recover"}
                => user[on].status # "deleted"
      PROVE  Inv'
  <2>1. /\ op \in Ops /\ op # "idle" /\ op # "ask_change" /\ others \subseteq Users \cup Tokens
        /\ op \notin {"accept", "reset", "change", "revoke"}
    BY <1>1 DEF Ops, AdminOps
  <2>. QED BY <1>1, <2>1, BeginKeepsInv
<1>2. GuardLastAdmin(on) => on \notin ActiveAdmins \/ Cardinality(ActiveAdmins) > 1
  BY DEF GuardLastAdmin, CountActiveAdmins
<1>3. ASSUME BeginRecover(r, on) PROVE Starts("recover", {}) /\ Inv'
  <2>1. Starts("recover", {}) /\ Exists(on) /\ user[on].status # "deleted"
    BY <1>3 DEF BeginRecover, Begin, Exists
  <2>. QED BY <1>1, <2>1 DEF AdminOps
<1>4. ASSUME NEW by \in Users, BeginDemote(r, by, on) PROVE Starts("demote", ActiveAdmins) /\ Inv'
  <2>1. Starts("demote", ActiveAdmins) /\ Exists(on) /\ GuardLastAdmin(on)
    BY <1>4 DEF BeginDemote, Begin
  <2>. QED BY <1>1, <1>2, <2>1 DEF AdminOps
<1>5. ASSUME NEW by \in Users, BeginPromote(r, by, on) PROVE Starts("promote", {}) /\ Inv'
  <2>1. Starts("promote", {}) /\ Exists(on)
    BY <1>5 DEF BeginPromote, Begin
  <2>. QED BY <1>1, <2>1 DEF AdminOps
<1>6. ASSUME NEW by \in Users, BeginDeactivate(r, by, on)
      PROVE  Starts("deactivate", ActiveAdmins) /\ Inv'
  <2>1. /\ Starts("deactivate", ActiveAdmins) /\ Exists(on) /\ GuardLastAdmin(on)
        /\ user[on].status # "deleted"
    BY <1>6 DEF BeginDeactivate, Begin, Exists
  <2>. QED BY <1>1, <1>2, <2>1 DEF AdminOps
<1>7. ASSUME NEW by \in Users, BeginReactivate(r, by, on) PROVE Starts("reactivate", {}) /\ Inv'
  <2>1. Starts("reactivate", {}) /\ Exists(on) /\ user[on].status # "deleted"
    BY <1>7 DEF BeginReactivate, Begin, Exists
  <2>. QED BY <1>1, <2>1 DEF AdminOps
<1>8. ASSUME NEW by \in Users, BeginDelete(r, by, on) PROVE Starts("delete", ActiveAdmins) /\ Inv'
  <2>1. /\ Starts("delete", ActiveAdmins) /\ Exists(on) /\ GuardLastAdmin(on)
        /\ user[on].status # "deleted"
    BY <1>8 DEF BeginDelete, Begin, Exists
  <2>. QED BY <1>1, <1>2, <2>1 DEF AdminOps
<1>9. ASSUME NEW by \in Users, BeginTempPassword(r, by, on) PROVE Starts("temp_password", {}) /\ Inv'
  <2>1. Starts("temp_password", {}) /\ Exists(on)
    BY <1>9 DEF BeginTempPassword, Begin
  <2>. QED BY <1>1, <2>1 DEF AdminOps
<1>10. ASSUME NEW by \in Users, BeginUnlock(r, by, on) PROVE Starts("unlock", {}) /\ Inv'
  <2>1. Starts("unlock", {}) /\ Exists(on) /\ user[on].status # "deleted"
    BY <1>10 DEF BeginUnlock, Begin, Exists
  <2>. QED BY <1>1, <2>1 DEF AdminOps
<1>. QED BY <1>3, <1>4, <1>5, <1>6, <1>7, <1>8, <1>9, <1>10 DEF AdminOps

\* The owner's requests.
LEMMA OwnerBegins ==
    ASSUME Inv, NEW r \in Requests, NEW u \in Users,
           \/ BeginChangePassword(r, u)
           \/ \E email \in Addresses : BeginAskChange(r, u, email)
    PROVE  /\ Inv'
           /\ \E op, tok, at, held, others : BeginWith(r, op, u, tok, at, held, others)
<1> USE BeginFacts
<1>1. ASSUME BeginChangePassword(r, u) PROVE BeginWith(r, "password", u, 1, 0, NoToken, {}) /\ Inv'
  <2>1. BeginWith(r, "password", u, 1, 0, NoToken, {}) /\ Exists(u)
    BY <1>1 DEF BeginChangePassword, Begin, Exists
  <2>. QED BY <2>1, BeginKeepsInv DEF Ops
<1>2. ASSUME NEW email \in Addresses, BeginAskChange(r, u, email)
      PROVE  Inv' /\ \E others : BeginWith(r, "ask_change", u, 1, now, ChangeToken(u, email), others)
  <2> DEFINE open == {t \in Tokens : token[t].kind = "change" /\ token[t].user = u /\ token[t].used = 0}
             new == ChangeToken(u, email)
  <2>1. BeginWith(r, "ask_change", u, 1, now, new, open) /\ Exists(u)
    BY <1>2 DEF BeginAskChange, Exists
  <2>2. new \in TokenRow /\ new.kind = "change" /\ new.used = 0 /\ new.user = u
    <3>1. now + TokenTtl \in Nat
      BY Constants DEF Time
    <3>. QED BY <3>1 DEF ChangeToken, TokenRow, Kinds
  <2>3. open \subseteq Users \cup Tokens /\ \A t \in open : t \in Tokens /\ token[t].kind = "change"
    OBVIOUS
  <2> HIDE DEF open, new
  <2>4. "ask_change" \in Ops
    BY DEF Ops
  <2>5. Inv'
    BY <2>1, <2>2, <2>3, <2>4, BeginKeepsInv
  <2>. QED BY <2>1, <2>5 DEF new
<1>. QED BY <1>1, <1>2

\* The requests of those who hold a link, or a personal access token to revoke.
LEMMA LinkBegins ==
    ASSUME Inv, NEW r \in Requests, NEW t \in Tokens,
           BeginAccept(r, t) \/ BeginConfirmReset(r, t) \/ BeginConfirmChange(r, t) \/ BeginRevoke(r, t)
    PROVE  /\ Inv'
           /\ \E op, others : BeginWith(r, op, token[t].user, t, now, token[t], others)
<1> USE BeginFacts
<1> DEFINE Starts(op, others) == BeginWith(r, op, token[t].user, t, now, token[t], others)
<1>1. ASSUME NEW op \in {"accept", "reset", "change", "revoke"}, NEW others,
             others \subseteq Users \cup Tokens, Starts(op, others), token[t].kind = KindOf(op),
             op = "change" => t \notin others
      PROVE  Inv'
  <2>1. op \in Ops /\ op # "idle" /\ op \notin AdminOps /\ op # "ask_change"
    BY DEF Ops, AdminOps
  <2>2. op \notin {"demote", "deactivate", "delete", "reactivate", "unlock", "recover"}
    OBVIOUS
  <2>. QED BY <1>1, <2>1, <2>2, BeginKeepsInv
<1>2. ASSUME BeginAccept(r, t) PROVE Starts("accept", {}) /\ Inv'
  <2>1. Starts("accept", {}) /\ token[t].kind = KindOf("accept")
    BY <1>2 DEF BeginAccept, BeginLink, KindOf
  <2>. QED BY <1>1, <2>1
<1>3. ASSUME BeginConfirmReset(r, t) PROVE Starts("reset", {}) /\ Inv'
  <2>1. Starts("reset", {}) /\ token[t].kind = KindOf("reset")
    BY <1>3 DEF BeginConfirmReset, BeginLink, KindOf
  <2>. QED BY <1>1, <2>1
<1>4. ASSUME BeginConfirmChange(r, t) PROVE Starts("change", superseded) /\ Inv'
  <2>1. Starts("change", superseded) /\ token[t].kind = KindOf("change") /\ token[t].used = 0
    BY <1>4 DEF BeginConfirmChange, BeginLink, KindOf
  <2>2. t \notin superseded /\ superseded \subseteq Users \cup Tokens
    BY <2>1 DEF Inv, TokenSide
  <2>. QED BY <1>1, <2>1, <2>2
<1>5. ASSUME BeginRevoke(r, t) PROVE Starts("revoke", {}) /\ Inv'
  <2>1. Starts("revoke", {}) /\ token[t].kind = KindOf("revoke")
    BY <1>5 DEF BeginRevoke, BeginLink, KindOf
  <2>. QED BY <1>1, <2>1
<1>. QED BY <1>2, <1>3, <1>4, <1>5

-----------------------------------------------------------------------------
(* The steps that commit, and those without a request in flight.            *)

LEMMA LoadedFacts ==
    ASSUME Inv, NEW r \in Requests, req[r].op # "idle"
    PROVE  /\ req[r].on \in Users /\ Exists(req[r].on)
           /\ req[r].row \in UserRow /\ req[r].row.status # "none" /\ req[r].row.mark \in Time
           /\ req[r].row.mark <= now
           /\ req[r].held \in TokenRow /\ req[r].others \subseteq Users \cup Tokens
           /\ req[r].at \in Time /\ req[r].at <= now /\ now \in 1..now /\ now \in Time
           /\ req[r].op \in {"accept", "reset", "change", "revoke", "ask_change"} => req[r].at \in 1..now
           /\ HoldsItsToken(req[r]) /\ HoldsNewToken(req[r]) /\ LookedFirst(req[r])
<1>1. RequestOK(req[r])
  BY DEF Inv, RequestsAreOK, Idle
<1>2. req[r] \in RequestRow
  BY <1>1 DEF RequestOK
<1>3. /\ req[r].on \in Users /\ req[r].row \in UserRow /\ req[r].held \in TokenRow
      /\ req[r].at \in Time /\ req[r].others \subseteq Users \cup Tokens
  BY <1>2 DEF RequestRow
<1>4. req[r].row.mark \in Time
  BY <1>3 DEF UserRow
<1>5. now \in Nat /\ now > 0 /\ now \in Time /\ req[r].at \in Nat
  BY <1>3, Constants DEF Inv, TokenSide, Time
<1>. QED BY <1>1, <1>3, <1>4, <1>5 DEF RequestOK

LEMMA ProgressMade ==
    ASSUME TokenSide, UserSide, now' = now, minted' = minted,
           \A t \in Tokens : token'[t].kind = token[t].kind /\ token'[t].user = token[t].user,
           \A u \in Users : Exists(u) => Exists(u)'
    PROVE  Progress /\ \A t \in Tokens : token'[t].user \in Users /\ Exists(token'[t].user)
<1>1. now <= now' /\ minted <= minted'
  BY Constants DEF TokenSide, Time
<1>2. \A t \in Tokens : token'[t].user \in Users /\ Exists(token'[t].user)
  BY DEF TokenSide, UserSide, TokenRow
<1>. QED BY <1>1, <1>2 DEF Progress

LEMMA EndKeepsInv ==
    ASSUME Inv, NEW r \in Requests, Done(r), TokenSide', UserSide', Progress
    PROVE  Inv'
<1>1. DOMAIN req' = Requests /\ \A x \in Requests : req'[x] = req[x] \/ req'[x] = Idle
  BY DEF Done, Inv, RequestsAreOK
<1>2. now' \in Time /\ minted' \in Nat
  BY Constants DEF TokenSide
<1>3. RequestsAreOK'
  BY <1>1, <1>2, RequestsGoOn DEF Inv
<1>. QED BY <1>3 DEF Inv

LEMMA CallKeepsInv ==
    ASSUME Inv, UNCHANGED req, TokenSide', UserSide', Progress
    PROVE  Inv'
<1>1. DOMAIN req' = Requests /\ \A x \in Requests : req'[x] = req[x]
  BY DEF Inv, RequestsAreOK
<1>2. now' \in Time /\ minted' \in Nat
  BY Constants DEF TokenSide
<1>3. RequestsAreOK'
  BY <1>1, <1>2, RequestsGoOn DEF Inv
<1>. QED BY <1>3 DEF Inv

\* A token is issued.
LEMMA IssueKeepsTokens ==
    ASSUME Inv, now' = now, NEW kind \in Kinds \ {"none"}, NEW u \in Users, NEW email \in Addresses,
           Issue(kind, u, email), UNCHANGED <<redeemed, settled, superseded>>
    PROVE  /\ TokenSide' /\ now <= now' /\ minted <= minted'
           /\ \A t \in Tokens : t <= minted => /\ token'[t].kind = token[t].kind
                                               /\ token'[t].user = token[t].user
           /\ \A t \in Tokens : token'[t].user \in Users /\ token'[t].user \in {u, token[t].user}
           /\ \A t \in Tokens : token'[t] = token[t] \/ t > minted
<1> DEFINE new == [kind |-> kind, user |-> u, used |-> 0, expires |-> now + TokenTtl, email |-> email]
<1>1. minted < MaxTokens /\ minted' = minted + 1 /\ token' = [token EXCEPT ![minted + 1] = new]
  BY DEF Issue
<1>2. new \in TokenRow /\ new.kind # "none" /\ new.used = 0 /\ new.user = u
  <2>1. now + TokenTtl \in Nat /\ 0 \in Time
    BY Constants DEF Inv, TokenSide, Time
  <2>. QED BY <2>1 DEF TokenRow
<1> HIDE DEF new
<1>3. now \in Nat /\ now > 0 /\ now \in 1..now /\ minted \in Nat
  BY Constants DEF Inv, TokenSide, Time
<1> DEFINE spent == {}
<1>4. token' = [t \in Tokens |-> IF t = minted + 1 THEN new
                                 ELSE IF t \in spent THEN [token[t] EXCEPT !.used = now] ELSE token[t]]
  BY <1>1, <1>3 DEF Inv, TokenSide
<1>5. /\ TokenSide' /\ minted <= minted'
      /\ \A t \in Tokens : t <= minted => /\ token'[t].kind = token[t].kind
                                          /\ token'[t].user = token[t].user
      /\ \A t \in Tokens : token'[t].user \in {new.user, token[t].user}
  <2>1. (\A t \in spent : t <= minted) /\ spent \subseteq Tokens /\ spent = {}
    OBVIOUS
  <2> HIDE DEF spent
  <2>2. TokenSide /\ superseded' = superseded /\ UNCHANGED <<redeemed, settled>>
    BY DEF Inv
  <2>. QED BY <1>1, <1>2, <1>3, <1>4, <2>1, <2>2, MintKeepsTokens
<1>6. \A t \in Tokens : token'[t] = token[t] \/ t > minted
  BY <1>3, <1>4
<1>7. \A t \in Tokens : token[t].user \in Users
  BY DEF Inv, TokenSide, TokenRow
<1>. QED BY <1>2, <1>3, <1>5, <1>6, <1>7

LEMMA IssueKeepsInv ==
    ASSUME Inv, NEW kind \in {"invite", "reset", "pat"}, NEW u \in Users, NEW email \in Addresses,
           Exists(u), Issue(kind, u, email), Call, UNCHANGED <<now, user, sessions, history>>
    PROVE  Inv'
<1>1. UNCHANGED <<redeemed, settled, superseded, changed, raced>> /\ kind \in Kinds \ {"none"}
  BY DEF history, Kinds
<1>2. /\ TokenSide' /\ now <= now' /\ minted <= minted'
      /\ \A t \in Tokens : t <= minted => /\ token'[t].kind = token[t].kind
                                          /\ token'[t].user = token[t].user
      /\ \A t \in Tokens : token'[t].user \in Users /\ token'[t].user \in {u, token[t].user}
  BY <1>1, IssueKeepsTokens
<1>3. \A t \in Tokens : token'[t].user \in Users /\ Exists(token'[t].user)
  BY <1>2 DEF Inv, UserSide
<1>4. calls' \in 0..MaxCalls /\ now' \in Time
  BY Constants DEF Call, Inv, UserSide
<1>5. UserSide' /\ \A v \in Users : Exists(v) => Exists(v)'
  <2>1. sessions' \in [Users -> SUBSET (0..Second(MaxTime))]
    BY DEF Inv, UserSide
  <2>. QED BY <1>1, <1>2, <1>3, <1>4, <2>1, SameUsers DEF Inv
<1>6. Progress
  BY <1>2, <1>5 DEF Progress
<1>. QED BY <1>2, <1>5, <1>6, CallKeepsInv DEF Call

\* The steps without a request in flight.
LEMMA DirectStepsKeepInv ==
    ASSUME Inv, NEW u \in Users, NEW on \in Users, NEW admin \in BOOLEAN,
           \/ Tick \/ Login(u) \/ LockOut(u) \/ RequestReset(u) \/ IssuePat(u)
           \/ ResendInvite(u, on) \/ Invite(u, on, admin)
    PROVE  Inv'
<1> USE BeginFacts
<1>1. now \in Nat /\ now > 0 /\ now \in Time /\ calls \in Nat /\ minted \in Nat
  BY Constants DEF Inv, TokenSide, UserSide, Time
<1>2. ASSUME Tick PROVE Inv'
  <2>1. /\ now' = now + 1 /\ now < MaxTime
        /\ UNCHANGED <<user, token, minted, sessions, calls, req, redeemed, settled, superseded,
                       changed, raced>>
    BY <1>2 DEF Tick, rows, history
  <2>2. now' \in Time /\ now' > 0 /\ now <= now' /\ minted <= minted'
    BY <1>1, <2>1, Constants DEF Time
  <2>3. TokenSide'
    <3>1. \A t \in Tokens : token[t].used <= now'
      <4>1. \A t \in Tokens : token[t].used \in Nat /\ token[t].used <= now
        BY Constants DEF Inv, TokenSide, TokenRow, Time
      <4>. QED BY <1>1, <2>1, <4>1
    <3>. QED BY <2>1, <2>2, <3>1 DEF Inv, TokenSide
  <2>4. \A t \in Tokens : token'[t].user \in Users /\ Exists(token'[t].user)
    BY <2>1
  <2>5. UserSide' /\ \A v \in Users : Exists(v) => Exists(v)'
    <3>1. calls' \in 0..MaxCalls /\ sessions' \in [Users -> SUBSET (0..Second(MaxTime))]
      BY <2>1 DEF Inv, UserSide
    <3>. QED BY <2>1, <2>2, <2>4, <3>1, SameUsers DEF Inv
  <2>6. Progress
    BY <2>1, <2>2, <2>5 DEF Progress
  <2>. QED BY <2>1, <2>3, <2>5, <2>6, CallKeepsInv
<1>3. ASSUME Login(u) PROVE Inv'
  <2>1. /\ sessions' = [sessions EXCEPT ![u] = @ \cup {Second(now)}] /\ calls' = calls + 1
        /\ calls < MaxCalls
        /\ UNCHANGED <<now, user, token, minted, req, redeemed, settled, superseded, changed, raced>>
    BY <1>3 DEF Login, Call, history
  <2>2. TokenSide'
    BY <2>1 DEF Inv, TokenSide
  <2>3. calls' \in 0..MaxCalls /\ sessions' \in [Users -> SUBSET (0..Second(MaxTime))]
    BY <1>1, <2>1, SecondsOfTime, Constants DEF Inv, UserSide
  <2>4. UserSide' /\ \A v \in Users : Exists(v) => Exists(v)'
    <3>1. \A t \in Tokens : token'[t].user \in Users /\ Exists(token'[t].user)
      BY <2>1
    <3>2. now' \in Time /\ now <= now'
      BY <1>1, <2>1
    <3>. QED BY <2>1, <2>3, <3>1, <3>2, SameUsers DEF Inv
  <2>5. Progress
    BY <2>1, <2>4, ProgressMade DEF Inv
  <2>. QED BY <2>1, <2>2, <2>4, <2>5, CallKeepsInv
<1>4. ASSUME LockOut(u) PROVE Inv'
  <2>1. /\ user[u].status = "active" /\ user' = [user EXCEPT ![u].status = "locked"]
        /\ calls' = calls + 1 /\ calls < MaxCalls
        /\ UNCHANGED <<now, sessions, token, minted, req, redeemed, settled, superseded, changed, raced>>
    BY <1>4 DEF LockOut, Call, history
  <2>2. TokenSide'
    BY <2>1 DEF Inv, TokenSide
  <2>3. /\ user' \in [Users -> UserRow] /\ \A v \in Users : v # u => user'[v] = user[v]
        /\ user'[u].status = "locked" /\ user'[u].mark = user[u].mark
    BY <2>1 DEF Inv, UserSide, UserRow, Statuses
  <2>4. UserSide' /\ \A v \in Users : Exists(v) => Exists(v)'
    <3>1. /\ calls' \in 0..MaxCalls /\ sessions' \in [Users -> SUBSET (0..Second(MaxTime))]
          /\ user[u].mark <= now /\ Exists(u)
      BY <1>1, <2>1, Constants DEF Inv, UserSide, Exists
    <3>2. \A t \in Tokens : token'[t].user \in Users /\ token'[t].user \in {u, token[t].user}
      BY <2>1
    <3>. QED BY <2>1, <2>3, <3>1, <3>2, RowKeepsUsers DEF Inv
  <2>5. Progress
    BY <2>1, <2>4, ProgressMade DEF Inv
  <2>. QED BY <2>1, <2>2, <2>4, <2>5, CallKeepsInv
<1>5. user[u].email \in Addresses /\ u \in Addresses /\ on \in Addresses
  BY Constants DEF Inv, UserSide, UserRow
<1>6. ASSUME RequestReset(u) PROVE Inv'
  BY <1>5, <1>6, IssueKeepsInv DEF RequestReset, Exists
<1>7. ASSUME IssuePat(u) PROVE Inv'
  <2>1. Exists(u)
    BY <1>7 DEF IssuePat, LoggedIn, Accepted, Exists
  <2>. QED BY <1>5, <1>7, <2>1, IssueKeepsInv DEF IssuePat
<1>8. ASSUME ResendInvite(u, on) PROVE Inv'
  BY <1>5, <1>8, IssueKeepsInv DEF ResendInvite, Exists
<1>9. ASSUME Invite(u, on, admin) PROVE Inv'
  <2>1. /\ ~Exists(on) /\ Issue("invite", on, on)
        /\ user' = [user EXCEPT ![on] = [status |-> "invited", admin |-> admin,
                                         password |-> FALSE, mark |-> 0, email |-> on]]
        /\ calls' = calls + 1 /\ calls < MaxCalls
        /\ UNCHANGED <<now, sessions, req, redeemed, settled, superseded, changed, raced>>
    BY <1>9 DEF Invite, Call, history
  <2>2. /\ TokenSide' /\ now <= now' /\ minted <= minted'
        /\ \A t \in Tokens : t <= minted => /\ token'[t].kind = token[t].kind
                                            /\ token'[t].user = token[t].user
        /\ \A t \in Tokens : token'[t].user \in Users /\ token'[t].user \in {on, token[t].user}
    BY <1>5, <2>1, IssueKeepsTokens DEF Kinds
  <2>3. /\ user' \in [Users -> UserRow] /\ \A v \in Users : v # on => user'[v] = user[v]
        /\ user'[on].status = "invited" /\ user'[on].mark = 0
    BY <1>5, <2>1 DEF Inv, UserSide, UserRow, Statuses
  <2>4. UserSide' /\ \A v \in Users : Exists(v) => Exists(v)'
    <3>1. /\ calls' \in 0..MaxCalls /\ sessions' \in [Users -> SUBSET (0..Second(MaxTime))]
          /\ 0 <= now /\ 0 \in Time
      BY <1>1, <2>1, Constants DEF Inv, UserSide
    <3>2. user'[on].mark <= now /\ user'[on].status # "none"
      BY <2>3, <3>1
    <3>. QED BY <2>1, <2>2, <2>3, <3>1, <3>2, RowKeepsUsers DEF Inv
  <2>5. Progress
    BY <2>2, <2>4 DEF Progress
  <2>. QED BY <2>1, <2>2, <2>4, <2>5, CallKeepsInv
<1>. QED BY <1>2, <1>3, <1>4, <1>6, <1>7, <1>8, <1>9

\* What an administrator's request leaves of the row it loaded.
LEMMA AdminRow ==
    ASSUME NEW op \in AdminOps, NEW row \in UserRow, row.status # "none", now \in Time
    PROVE  LET new == AdminWrites(op, row) IN
           /\ new \in UserRow /\ new.status # "none"
           /\ op # "temp_password" => new.mark = row.mark
           /\ op = "temp_password" => new.mark = now
           /\ new.admin # row.admin => op \in {"demote", "promote"} /\ (op = "promote" => new.admin)
           /\ new.status # row.status =>
                 /\ op \in {"deactivate", "reactivate", "delete", "unlock", "recover"}
                 /\ new.status = "active" \/ op \in {"deactivate", "delete"}
<1> DEFINE Right(new) ==
              /\ new \in UserRow /\ new.status # "none"
              /\ op # "temp_password" => new.mark = row.mark
              /\ op = "temp_password" => new.mark = now
              /\ new.admin # row.admin => op \in {"demote", "promote"} /\ (op = "promote" => new.admin)
              /\ new.status # row.status =>
                    /\ op \in {"deactivate", "reactivate", "delete", "unlock", "recover"}
                    /\ new.status = "active" \/ op \in {"deactivate", "delete"}
<1> SUFFICES Right(AdminWrites(op, row))
  OBVIOUS
<1>1. CASE op = "demote"
  <2>1. AdminWrites(op, row) = Demoted(row)
    BY <1>1, Zenon DEF AdminWrites
  <2>2. Right(Demoted(row))
    BY <1>1 DEF Demoted, UserRow
  <2> HIDE DEF Right
  <2>. QED BY <2>1, <2>2
<1>2. CASE op = "promote"
  <2>1. AdminWrites(op, row) = Promoted(row)
    BY <1>2, Zenon DEF AdminWrites
  <2>2. Right(Promoted(row))
    BY <1>2 DEF Promoted, UserRow
  <2> HIDE DEF Right
  <2>. QED BY <2>1, <2>2
<1>3. CASE op = "deactivate"
  <2>1. AdminWrites(op, row) = Deactivated(row)
    BY <1>3, Zenon DEF AdminWrites
  <2>2. Right(Deactivated(row))
    BY <1>3 DEF Deactivated, UserRow, Statuses
  <2> HIDE DEF Right
  <2>. QED BY <2>1, <2>2
<1>4. CASE op = "reactivate"
  <2>1. AdminWrites(op, row) = Reactivated(row)
    BY <1>4, Zenon DEF AdminWrites
  <2>2. Right(Reactivated(row))
    BY <1>4 DEF Reactivated, UserRow, Statuses
  <2> HIDE DEF Right
  <2>. QED BY <2>1, <2>2
<1>5. CASE op = "delete"
  <2>1. AdminWrites(op, row) = Deleted(row)
    BY <1>5, Zenon DEF AdminWrites
  <2>2. Right(Deleted(row))
    BY <1>5 DEF Deleted, UserRow, Statuses
  <2> HIDE DEF Right
  <2>. QED BY <2>1, <2>2
<1>6. CASE op = "temp_password"
  <2>1. AdminWrites(op, row) = TempPassword(row)
    BY <1>6, Zenon DEF AdminWrites
  <2>2. Right(TempPassword(row))
    BY <1>6 DEF TempPassword, UserRow
  <2> HIDE DEF Right
  <2>. QED BY <2>1, <2>2
<1>7. CASE op = "unlock"
  <2>1. AdminWrites(op, row) = Unlocked(row)
    BY <1>7, Zenon DEF AdminWrites
  <2>2. Right(Unlocked(row))
    BY <1>7 DEF Unlocked, UserRow, Statuses
  <2> HIDE DEF Right
  <2>. QED BY <2>1, <2>2
<1>8. CASE op = "recover"
  <2>1. AdminWrites(op, row) = Recovered(row)
    BY <1>8, Zenon DEF AdminWrites
  <2>2. Right(Recovered(row))
    BY <1>8 DEF Recovered, UserRow, Statuses
  <2> HIDE DEF Right
  <2>. QED BY <2>1, <2>2
<1> HIDE DEF Right
<1>. QED BY <1>1, <1>2, <1>3, <1>4, <1>5, <1>6, <1>7, <1>8 DEF AdminOps

\* Request r saves its row as new, and no token changes hands.
LEMMA SaveKeepsUsers ==
    ASSUME Inv, NEW r \in Requests, req[r].op # "idle", NEW new \in UserRow, new.status # "none",
           user' = Saved(req[r].on, req[r].row, new), UNCHANGED <<now, calls>>,
           sessions' \in [Users -> SUBSET (0..Second(MaxTime))],
           \A t \in Tokens : token'[t].user = token[t].user,
           NEW at \in Time, at <= now, new.mark <= now,
           \/ UNCHANGED <<changed, raced>> /\ new.mark = req[r].row.mark
           \/ /\ changed' = [changed EXCEPT ![req[r].on] = IF Second(at) > @ THEN Second(at) ELSE @]
              /\ raced' = [raced EXCEPT ![req[r].on] = @ \/ user[req[r].on].mark # req[r].row.mark]
              /\ req[r].row.mark <= at
              /\ 2 * Second(at) <= new.mark
    PROVE  UserSide' /\ \A v \in Users : Exists(v) => Exists(v)'
<1> DEFINE u == req[r].on
           old == req[r].row
<1>1. /\ u \in Users /\ Exists(u) /\ old \in UserRow /\ old.status # "none" /\ old.mark \in Time
      /\ now \in Time
  BY LoadedFacts
<1>2. /\ user' \in [Users -> UserRow] /\ \A v \in Users : v # u => user'[v] = user[v]
      /\ user'[u].status = IF new.status # old.status THEN new.status ELSE user[u].status
      /\ user'[u].mark = IF new.mark # old.mark THEN new.mark ELSE user[u].mark
  <2>1. user' = Saved(u, old, new) /\ user \in [Users -> UserRow]
    BY DEF Inv, UserSide
  <2> HIDE DEF u, old
  <2>. QED BY <1>1, <2>1, SavedRow
<1> HIDE DEF u, old
<1>3. user'[u].status # "none" /\ user[u].mark <= now
  BY <1>1, <1>2 DEF Exists, Inv, UserSide
<1>4. user'[u].mark <= now
  BY <1>2, <1>3
<1>5. \A t \in Tokens : token'[t].user \in Users /\ token'[t].user \in {u, token[t].user}
  BY DEF Inv, TokenSide, TokenRow
<1>6. calls' \in 0..MaxCalls
  BY DEF Inv, UserSide
<1>7. \/ UNCHANGED <<changed, raced>> /\ user'[u].mark = user[u].mark /\ Exists(u)
      \/ /\ changed' = [changed EXCEPT ![u] = IF Second(at) > @ THEN Second(at) ELSE @]
         /\ raced' = [raced EXCEPT ![u] = @ \/ user[u].mark # old.mark]
         /\ old.mark <= at
         /\ user[u].mark = old.mark => 2 * Second(at) <= user'[u].mark
  <2>1. CASE UNCHANGED <<changed, raced>> /\ new.mark = req[r].row.mark
    BY <1>1, <1>2, <2>1 DEF u, old
  <2>2. CASE /\ changed' = [changed EXCEPT ![req[r].on] = IF Second(at) > @ THEN Second(at) ELSE @]
             /\ raced' = [raced EXCEPT ![req[r].on] = @ \/ user[req[r].on].mark # req[r].row.mark]
             /\ req[r].row.mark <= at
             /\ 2 * Second(at) <= new.mark
    <3>1. user[u].mark = old.mark => 2 * Second(at) <= user'[u].mark
      BY <1>2, <2>2 DEF u, old
    <3>. QED BY <2>2, <3>1 DEF u, old
  <2>. QED BY <2>1, <2>2
<1>. QED BY <1>1, <1>2, <1>3, <1>4, <1>5, <1>6, <1>7, RowKeepsUsers DEF Inv

\* A step of a request that leaves the tokens alone.
LEMMA SaveKeepsInv ==
    ASSUME Inv, NEW r \in Requests, Done(r), UserSide', \A v \in Users : Exists(v) => Exists(v)',
           UNCHANGED <<now, token, minted, redeemed, settled, superseded>>
    PROVE  Inv'
<1>1. TokenSide'
  BY DEF Inv, TokenSide
<1>2. Progress
  BY ProgressMade DEF Inv
<1>. QED BY <1>1, <1>2, EndKeepsInv

LEMMA CommitAdminKeepsInv ==
    ASSUME Inv, NEW r \in Requests, CommitAdmin(r)
    PROVE  Inv'
<1> DEFINE op == req[r].op
           row == req[r].row
           new == AdminWrites(op, row)
<1>1. /\ op \in AdminOps /\ user' = Saved(req[r].on, row, new)
      /\ op = "temp_password" => NoteChange(r, req[r].on, now)
      /\ op # "temp_password" => UNCHANGED <<changed, raced>>
      /\ Done(r) /\ UNCHANGED <<now, token, minted, sessions, redeemed, settled, superseded>>
  BY DEF CommitAdmin
<1>2. op # "idle"
  BY <1>1 DEF AdminOps
<1>3. row \in UserRow /\ row.status # "none" /\ now \in Time /\ row.mark <= now
  BY <1>2, LoadedFacts
<1>4. /\ new \in UserRow /\ new.status # "none"
      /\ op # "temp_password" => new.mark = row.mark
      /\ op = "temp_password" => new.mark = now
  <2> HIDE DEF op, row
  <2>. QED BY <1>1, <1>3, AdminRow
<1>5. now <= now /\ new.mark <= now /\ 2 * Second(now) <= now
  <2>1. now \in Nat
    BY <1>3, Constants DEF Time
  <2>2. now <= now /\ 2 * Second(now) <= now
    BY <2>1, Seconds
  <2> HIDE DEF new, row, op
  <2>. QED BY <1>3, <1>4, <2>2
<1> HIDE DEF new
<1>6. UserSide' /\ \A v \in Users : Exists(v) => Exists(v)'
  <2>1. sessions' \in [Users -> SUBSET (0..Second(MaxTime))]
    BY <1>1 DEF Inv, UserSide
  <2>2. \A t \in Tokens : token'[t].user = token[t].user
    BY <1>1
  <2>3. \/ UNCHANGED <<changed, raced>> /\ new.mark = req[r].row.mark
        \/ /\ changed' = [changed EXCEPT ![req[r].on] = IF Second(now) > @ THEN Second(now) ELSE @]
           /\ raced' = [raced EXCEPT ![req[r].on] = @ \/ user[req[r].on].mark # req[r].row.mark]
           /\ req[r].row.mark <= now
           /\ 2 * Second(now) <= new.mark
    BY <1>1, <1>3, <1>4, <1>5 DEF NoteChange
  <2>4. UNCHANGED <<now, calls>>
    BY <1>1 DEF Done
  <2>. QED BY <1>1, <1>2, <1>3, <1>4, <1>5, <2>1, <2>2, <2>3, <2>4, SaveKeepsUsers
<1>. QED BY <1>1, <1>6, SaveKeepsInv

LEMMA CommitChangePasswordKeepsInv ==
    ASSUME Inv, NEW r \in Requests, CommitChangePassword(r)
    PROVE  Inv'
<1> DEFINE row == req[r].row
           new == [row EXCEPT !.mark = Truncated(now)]
<1>1. /\ req[r].op = "password" /\ user' = Saved(req[r].on, row, new)
      /\ sessions' = [sessions EXCEPT ![req[r].on] = @ \cup {Second(now)}]
      /\ NoteChange(r, req[r].on, now)
      /\ Done(r) /\ UNCHANGED <<now, token, minted, redeemed, settled, superseded>>
  BY DEF CommitChangePassword, ChangedPassword
<1>2. row \in UserRow /\ row.status # "none" /\ now \in Time /\ row.mark <= now /\ req[r].on \in Users
  BY <1>1, LoadedFacts
<1>3. /\ now \in Nat /\ now <= now /\ Truncated(now) \in Time /\ Truncated(now) <= now
      /\ 2 * Second(now) <= Truncated(now) /\ Second(now) \in 0..Second(MaxTime)
  <2>1. now \in Nat
    BY <1>2, Constants DEF Time
  <2>2. Truncated(now) = 2 * Second(now) /\ Truncated(now) \in Nat /\ Truncated(now) <= now
    BY <2>1, Seconds
  <2>3. Truncated(now) \in Time /\ Second(now) \in 0..Second(MaxTime)
    BY <1>2, SecondsOfTime
  <2>. QED BY <2>1, <2>2, <2>3
<1>4. new \in UserRow /\ new.status # "none" /\ new.mark = Truncated(now)
  <2> HIDE DEF row
  <2>. QED BY <1>2, <1>3 DEF UserRow
<1> HIDE DEF new
<1>5. UserSide' /\ \A v \in Users : Exists(v) => Exists(v)'
  <2>1. sessions' \in [Users -> SUBSET (0..Second(MaxTime))]
    BY <1>1, <1>2, <1>3 DEF Inv, UserSide
  <2>2. \A t \in Tokens : token'[t].user = token[t].user
    BY <1>1
  <2>3. /\ changed' = [changed EXCEPT ![req[r].on] = IF Second(now) > @ THEN Second(now) ELSE @]
        /\ raced' = [raced EXCEPT ![req[r].on] = @ \/ user[req[r].on].mark # req[r].row.mark]
        /\ req[r].row.mark <= now
        /\ 2 * Second(now) <= new.mark
    BY <1>1, <1>2, <1>3, <1>4 DEF NoteChange
  <2>4. UNCHANGED <<now, calls>>
    BY <1>1 DEF Done
  <2>5. req[r].op # "idle" /\ new.mark <= now
    BY <1>1, <1>3, <1>4
  <2>. QED BY <1>1, <1>2, <1>3, <1>4, <2>1, <2>2, <2>3, <2>4, <2>5, SaveKeepsUsers
<1>. QED BY <1>1, <1>5, SaveKeepsInv

\* A link is redeemed and its row saved.
LEMMA CommitAcceptKeepsInv ==
    ASSUME Inv, NEW r \in Requests, CommitAccept(r)
    PROVE  Inv'
<1> DEFINE u == req[r].on
           t == req[r].tok
           at == req[r].at
           spent == {t}
<1>1. /\ req[r].op = "accept" /\ token[t].used = 0
      /\ token' = [token EXCEPT ![t].used = now]
      /\ user' = [user EXCEPT ![u].status = "active", ![u].password = TRUE, ![u].mark = at]
      /\ sessions' = [sessions EXCEPT ![u] = @ \cup {Second(now)}]
      /\ redeemed' = [redeemed EXCEPT ![t] = @ + 1]
      /\ NoteChange(r, u, at)
      /\ Done(r) /\ UNCHANGED <<now, minted, settled, superseded>>
  BY DEF CommitAccept, Redeem
<1>2. /\ u \in Users /\ Exists(u) /\ at \in Time /\ at <= now /\ now \in 1..now /\ now \in Time
      /\ req[r].row.mark \in Time /\ req[r].row.mark <= at
      /\ t \in Tokens /\ t <= minted
  <2>1. HoldsItsToken(req[r]) /\ req[r].op = "accept"
    BY <1>1, LoadedFacts
  <2>2. t \in Tokens /\ t <= minted /\ req[r].row.mark <= at
    BY <2>1 DEF HoldsItsToken
  <2>. QED BY <1>1, <2>2, LoadedFacts
<1> HIDE DEF u, t, at
<1>3. TokenSide' /\ \A x \in Tokens : token'[x].kind = token[x].kind /\ token'[x].user = token[x].user
  <2>1. token' = [x \in Tokens |-> IF x \in spent THEN [token[x] EXCEPT !.used = now] ELSE token[x]]
    BY <1>1, <1>2 DEF Inv, TokenSide
  <2>2. spent \subseteq Tokens /\ t \in spent /\ \A x \in spent : x <= minted
    BY <1>2
  <2> HIDE DEF spent
  <2>. QED BY <1>1, <1>2, <2>1, <2>2, SpendKeepsTokens DEF Inv
<1>4. /\ user' \in [Users -> UserRow] /\ \A v \in Users : v # u => user'[v] = user[v]
      /\ user'[u].status = "active" /\ user'[u].mark = at
  <2>1. user' = [user EXCEPT ![u] = [@ EXCEPT !.status = "active", !.password = TRUE, !.mark = at]]
    BY <1>1, <1>2 DEF Inv, UserSide
  <2>. QED BY <1>2, <2>1 DEF Inv, UserSide, UserRow, Statuses
<1>5. UserSide' /\ \A v \in Users : Exists(v) => Exists(v)'
  <2>1. /\ calls' \in 0..MaxCalls /\ sessions' \in [Users -> SUBSET (0..Second(MaxTime))]
    BY <1>1, <1>2, SecondsOfTime DEF Done, Inv, UserSide
  <2>2. \A x \in Tokens : token'[x].user \in Users /\ token'[x].user \in {u, token[x].user}
    BY <1>3 DEF Inv, TokenSide, TokenRow
  <2>3. /\ changed' = [changed EXCEPT ![u] = IF Second(at) > @ THEN Second(at) ELSE @]
        /\ raced' = [raced EXCEPT ![u] = @ \/ user[u].mark # req[r].row.mark]
    BY <1>1 DEF NoteChange, u
  <2>4. 2 * Second(at) <= user'[u].mark
    <3>1. at \in Nat
      BY <1>2, Constants DEF Time
    <3>. QED BY <1>4, <3>1, Seconds
  <2>5. user'[u].mark <= now /\ user'[u].status # "none"
    BY <1>2, <1>4
  <2>. QED BY <1>1, <1>2, <1>4, <2>1, <2>2, <2>3, <2>4, <2>5, RowKeepsUsers DEF Inv
<1>6. Progress
  BY <1>1, <1>3, <1>5, ProgressMade DEF Inv
<1>. QED BY <1>1, <1>3, <1>5, <1>6, EndKeepsInv

\* What the redeemed link of a request and its siblings are.
LEMMA SiblingFacts ==
    ASSUME Inv, NEW r \in Requests, req[r].op \in {"reset", "change"}
    PROVE  LET t == req[r].tok IN
           /\ t \in Tokens /\ t <= minted /\ token[t].kind = req[r].op /\ token[t].user = req[r].on
           /\ Siblings(t) \cup {t} \subseteq Tokens
           /\ \A s \in Siblings(t) \cup {t} : s <= minted /\ token[s].kind = req[r].op
           /\ \A s \in Tokens : token[s].kind = req[r].op /\ token[s].user = req[r].on
                                  /\ token[s].used = 0 => s \in Siblings(t) \cup {t}
<1> DEFINE t == req[r].tok
<1>1. /\ HoldsItsToken(req[r]) /\ req[r].op # "idle" /\ KindOf(req[r].op) = req[r].op
      /\ req[r].op \in {"accept", "reset", "change", "revoke"}
  BY LoadedFacts DEF KindOf
<1>2. t \in Tokens /\ t <= minted /\ token[t].kind = req[r].op /\ token[t].user = req[r].on
  BY <1>1 DEF HoldsItsToken
<1> HIDE DEF t
<1>3. \A s \in Tokens : token[s].kind # "none" => s <= minted
  BY Constants DEF Inv, TokenSide, Tokens
<1>4. \A s \in Siblings(t) \cup {t} : s \in Tokens /\ token[s].kind = req[r].op
  BY <1>2 DEF Siblings
<1>5. \A s \in Tokens : token[s].kind = req[r].op /\ token[s].user = req[r].on /\ token[s].used = 0
                           => s \in Siblings(t) \cup {t}
  BY <1>2 DEF Siblings
<1>6. req[r].op # "none"
  OBVIOUS
<1>. QED BY <1>2, <1>3, <1>4, <1>5, <1>6 DEF t

LEMMA CommitConfirmResetKeepsInv ==
    ASSUME Inv, NEW r \in Requests, CommitConfirmReset(r)
    PROVE  Inv'
<1> DEFINE u == req[r].on
           t == req[r].tok
           at == req[r].at
           row == req[r].row
           new == [row EXCEPT !.mark = Truncated(at)]
           spent == Siblings(t) \cup {t}
<1>1. /\ req[r].op = "reset" /\ token[t].used = 0
      /\ user' = Saved(u, row, new)
      /\ token' = [s \in Tokens |-> IF s \in spent THEN [token[s] EXCEPT !.used = at] ELSE token[s]]
      /\ redeemed' = [redeemed EXCEPT ![t] = @ + 1]
      /\ settled' = [settled EXCEPT ![u] = minted]
      /\ NoteChange(r, u, at)
      /\ Done(r) /\ UNCHANGED <<now, minted, sessions, superseded>>
  BY DEF CommitConfirmReset, Redeem
<1>2. /\ u \in Users /\ at \in Time /\ at \in 1..now /\ at <= now /\ row.mark <= at
      /\ row \in UserRow /\ row.status # "none" /\ now \in Time
  <2>1. HoldsItsToken(req[r])
    BY <1>1, LoadedFacts
  <2>2. row.mark <= at
    BY <1>1, <2>1 DEF HoldsItsToken
  <2>. QED BY <1>1, <2>2, LoadedFacts
<1>3. /\ spent \subseteq Tokens /\ t \in spent /\ t \in Tokens /\ \A s \in spent : s <= minted
      /\ \A s \in Tokens : token[s].kind = "reset" /\ token[s].user = u /\ token[s].used = 0 => s \in spent
  BY <1>1, SiblingFacts
<1> HIDE DEF spent, t
<1>4. TokenSide' /\ \A x \in Tokens : token'[x].kind = token[x].kind /\ token'[x].user = token[x].user
  <2> HIDE DEF u, at
  <2>. QED BY <1>1, <1>2, <1>3, SpendKeepsTokens DEF Inv
<1>5. /\ new \in UserRow /\ new.status # "none" /\ new.mark <= now
      /\ 2 * Second(at) <= new.mark
  <2>1. at \in Nat /\ now \in Nat
    BY <1>2, Constants DEF Time
  <2>2. Truncated(at) \in Time /\ Truncated(at) = 2 * Second(at) /\ Truncated(at) <= at /\ Second(at) \in Nat
    BY <1>2, <2>1, Seconds, SecondsOfTime
  <2> HIDE DEF row, at
  <2>3. new \in UserRow /\ new.status # "none" /\ new.mark = Truncated(at)
    BY <1>2, <2>2 DEF UserRow
  <2> HIDE DEF new
  <2>. QED BY <1>2, <2>1, <2>2, <2>3
<1> HIDE DEF new
<1>6. UserSide' /\ \A v \in Users : Exists(v) => Exists(v)'
  <2>1. sessions' \in [Users -> SUBSET (0..Second(MaxTime))]
    BY <1>1 DEF Inv, UserSide
  <2>2. /\ changed' = [changed EXCEPT ![req[r].on] = IF Second(at) > @ THEN Second(at) ELSE @]
        /\ raced' = [raced EXCEPT ![req[r].on] = @ \/ user[req[r].on].mark # req[r].row.mark]
    BY <1>1 DEF NoteChange
  <2>3. UNCHANGED <<now, calls>>
    BY <1>1 DEF Done
  <2>4. req[r].op # "idle"
    BY <1>1
  <2> HIDE DEF at
  <2>. QED BY <1>1, <1>2, <1>4, <1>5, <2>1, <2>2, <2>3, <2>4, SaveKeepsUsers
<1>7. Progress
  BY <1>1, <1>4, <1>6, ProgressMade DEF Inv
<1>. QED BY <1>1, <1>4, <1>6, <1>7, EndKeepsInv

LEMMA CommitConfirmChangeKeepsInv ==
    ASSUME Inv, NEW r \in Requests, CommitConfirmChange(r)
    PROVE  Inv'
<1> DEFINE u == req[r].on
           t == req[r].tok
           at == req[r].at
           row == req[r].row
           new == [row EXCEPT !.email = req[r].held.email]
           spent == Siblings(t) \cup {t}
<1>1. /\ req[r].op = "change"
      /\ user' = Saved(u, row, new)
      /\ token' = [s \in Tokens |-> IF s \in spent THEN [token[s] EXCEPT !.used = at] ELSE token[s]]
      /\ Done(r) /\ UNCHANGED <<now, minted, sessions, redeemed, settled, superseded, changed, raced>>
  BY DEF CommitConfirmChange, history
<1>2. /\ u \in Users /\ at \in Time /\ at \in 1..now /\ at <= now
      /\ row \in UserRow /\ row.status # "none" /\ row.mark <= now /\ req[r].held \in TokenRow
  BY <1>1, LoadedFacts
<1>3. /\ spent \subseteq Tokens /\ t \in Tokens /\ \A s \in spent : s <= minted
  BY <1>1, SiblingFacts
<1> HIDE DEF spent, t
<1>4. TokenSide' /\ \A x \in Tokens : token'[x].kind = token[x].kind /\ token'[x].user = token[x].user
  <2> HIDE DEF u, at
  <2>. QED BY <1>1, <1>2, <1>3, SpendKeepsTokens DEF Inv
<1>5. new \in UserRow /\ new.status # "none" /\ new.mark = row.mark
  <2>1. req[r].held.email \in Addresses
    BY <1>2 DEF TokenRow
  <2> HIDE DEF row
  <2>. QED BY <1>2, <2>1 DEF UserRow
<1> HIDE DEF new
<1>6. UserSide' /\ \A v \in Users : Exists(v) => Exists(v)'
  <2>1. sessions' \in [Users -> SUBSET (0..Second(MaxTime))]
    BY <1>1 DEF Inv, UserSide
  <2>2. UNCHANGED <<changed, raced>> /\ new.mark = req[r].row.mark
    BY <1>1, <1>5
  <2>3. UNCHANGED <<now, calls>> /\ req[r].op # "idle"
    BY <1>1 DEF Done
  <2>. QED BY <1>1, <1>2, <1>4, <1>5, <2>1, <2>2, <2>3, SaveKeepsUsers
<1>7. Progress
  BY <1>1, <1>4, <1>6, ProgressMade DEF Inv
<1>. QED BY <1>1, <1>4, <1>6, <1>7, EndKeepsInv

LEMMA CommitAskChangeKeepsInv ==
    ASSUME Inv, NEW r \in Requests, CommitAskChange(r)
    PROVE  Inv'
<1> DEFINE new == req[r].held
           at == req[r].at
           spent == req[r].others
<1>1. /\ req[r].op = "ask_change" /\ minted < MaxTokens /\ minted' = minted + 1
      /\ token' = [t \in Tokens |-> IF t = minted + 1 THEN new
                                    ELSE IF t \in spent THEN [token[t] EXCEPT !.used = at]
                                    ELSE token[t]]
      /\ superseded' = superseded \cup spent
      /\ Done(r) /\ UNCHANGED <<now, user, sessions, redeemed, settled, changed, raced>>
  BY DEF CommitAskChange, Outdated
<1>2. /\ new \in TokenRow /\ new.kind # "none" /\ new.used = 0
      /\ new.user \in Users /\ Exists(new.user) /\ at \in 1..now
      /\ spent \subseteq Tokens /\ \A t \in spent : t <= minted
  <2>1. HoldsNewToken(req[r])
    BY <1>1, LoadedFacts
  <2>2. /\ new.kind = "change" /\ new.used = 0 /\ new.user = req[r].on
        /\ spent \subseteq Tokens /\ \A t \in spent : t <= minted
    BY <1>1, <2>1 DEF HoldsNewToken
  <2>. QED BY <1>1, <2>2, LoadedFacts
<1> HIDE DEF new, at, spent
<1>3. /\ TokenSide' /\ minted <= minted'
      /\ \A t \in Tokens : t <= minted => /\ token'[t].kind = token[t].kind
                                          /\ token'[t].user = token[t].user
      /\ \A t \in Tokens : token'[t].user \in {new.user, token[t].user}
  <2>1. spent = {} => superseded' = superseded
    BY <1>1
  <2>2. TokenSide /\ now' = now /\ UNCHANGED <<redeemed, settled>>
    BY <1>1 DEF Inv
  <2>. QED BY <1>1, <1>2, <2>1, <2>2, MintKeepsTokens
<1>4. UserSide' /\ \A v \in Users : Exists(v) => Exists(v)'
  <2>1. \A t \in Tokens : token'[t].user \in Users /\ Exists(token'[t].user)
    BY <1>2, <1>3 DEF Inv, UserSide, TokenSide, TokenRow
  <2>2. /\ calls' \in 0..MaxCalls /\ sessions' \in [Users -> SUBSET (0..Second(MaxTime))]
        /\ now' \in Time /\ now <= now'
    BY <1>1, Constants DEF Done, Inv, UserSide, Time
  <2>. QED BY <1>1, <2>1, <2>2, SameUsers DEF Inv
<1>5. Progress
  <2>1. now <= now'
    BY <1>1, Constants DEF Inv, TokenSide, Time
  <2>. QED BY <1>3, <1>4, <2>1 DEF Progress
<1>. QED BY <1>1, <1>3, <1>4, <1>5, EndKeepsInv

\* Rows and tokens stay, or a token of the request is marked as used.
LEMMA CommitRevokeKeepsInv ==
    ASSUME Inv, NEW r \in Requests, CommitRevoke(r)
    PROVE  Inv'
<1> DEFINE t == req[r].tok
<1>1. /\ req[r].op = "revoke" /\ Done(r)
      /\ token' = token \/ token' = [token EXCEPT ![t].used = now]
      /\ UNCHANGED <<now, user, minted, sessions, redeemed, settled, superseded, changed, raced>>
  BY DEF CommitRevoke, history
<1>2. t \in Tokens /\ t <= minted /\ now \in 1..now /\ now \in Time /\ req[r].on \in Users
  <2>1. HoldsItsToken(req[r])
    BY <1>1, LoadedFacts
  <2>2. t \in Tokens /\ t <= minted
    BY <1>1, <2>1 DEF HoldsItsToken
  <2>. QED BY <1>1, <2>2, LoadedFacts
<1> HIDE DEF t
<1>3. TokenSide' /\ \A x \in Tokens : token'[x].kind = token[x].kind /\ token'[x].user = token[x].user
  <2>1. CASE token' = token
    BY <1>1, <2>1 DEF Inv, TokenSide
  <2>2. CASE token' = [token EXCEPT ![t].used = now]
    <3> DEFINE spent == {t}
    <3>1. token' = [x \in Tokens |-> IF x \in spent THEN [token[x] EXCEPT !.used = now] ELSE token[x]]
      BY <1>2, <2>2 DEF Inv, TokenSide
    <3>2. spent \subseteq Tokens /\ \A x \in spent : x <= minted
      BY <1>2
    <3> HIDE DEF spent
    <3>. QED BY <1>1, <1>2, <3>1, <3>2, SpendKeepsTokens DEF Inv
  <2>. QED BY <1>1, <2>1, <2>2
<1>4. UserSide' /\ \A v \in Users : Exists(v) => Exists(v)'
  <2>1. \A x \in Tokens : token'[x].user \in Users /\ Exists(token'[x].user)
    BY <1>3 DEF Inv, UserSide, TokenSide, TokenRow
  <2>2. /\ calls' \in 0..MaxCalls /\ sessions' \in [Users -> SUBSET (0..Second(MaxTime))]
        /\ now' \in Time /\ now <= now'
    BY <1>1, <1>2, Constants DEF Done, Inv, UserSide, Time
  <2>. QED BY <1>1, <2>1, <2>2, SameUsers DEF Inv
<1>5. Progress
  BY <1>1, <1>3, <1>4, ProgressMade DEF Inv
<1>. QED BY <1>1, <1>3, <1>4, <1>5, EndKeepsInv

\* A request that fails leaves everything as it was.
LEMMA FailuresKeepInv ==
    ASSUME Inv, NEW r \in Requests, RedeemFails(r) \/ ConfirmChangeFails(r)
    PROVE  Inv'
<1>1. /\ Done(r)
      /\ UNCHANGED <<now, user, token, minted, sessions, redeemed, settled, superseded, changed, raced>>
  BY DEF RedeemFails, ConfirmChangeFails, rows, history
<1>2. UserSide' /\ \A v \in Users : Exists(v) => Exists(v)'
  <2>1. \A x \in Tokens : token'[x].user \in Users /\ Exists(token'[x].user)
    BY <1>1, BeginFacts
  <2>2. /\ calls' \in 0..MaxCalls /\ sessions' \in [Users -> SUBSET (0..Second(MaxTime))]
        /\ now' \in Time /\ now <= now'
    BY <1>1, Constants DEF Done, Inv, UserSide, Time
  <2>. QED BY <1>1, <2>1, <2>2, SameUsers DEF Inv
<1>. QED BY <1>1, <1>2, SaveKeepsInv

-----------------------------------------------------------------------------
(* The invariant.                                                           *)

LEMMA InitHolds == Init => Inv
<1> SUFFICES ASSUME Init PROVE Inv
  OBVIOUS
<1> USE DEF Init
<1>1. now = 3 /\ now \in Time /\ now > 0 /\ 0 \in Time /\ 0 <= now
  BY Constants DEF Time
<1>2. TokenSide
  <2>1. NoToken \in TokenRow /\ NoToken.kind = "none" /\ NoToken.used = 0
    BY <1>1, Constants DEF NoToken, TokenRow, Kinds
  <2>2. \A t \in Tokens : token[t] = NoToken /\ redeemed[t] = 0 /\ t > 0
    BY Constants DEF Tokens
  <2> HIDE DEF Init
  <2>3. /\ minted = 0 /\ superseded = {} /\ settled = [u \in Users |-> 0]
        /\ redeemed = [t \in Tokens |-> 0] /\ token = [t \in Tokens |-> NoToken]
    BY DEF Init
  <2>. QED BY <1>1, <2>1, <2>2, <2>3, Constants DEF TokenSide
<1>3. UserSide
  <2>1. Bootstrap \in Users /\ Exists(Bootstrap)
    BY Constants DEF Exists
  <2>2. \A t \in Tokens : Exists(token[t].user)
    BY <2>1 DEF NoToken
  <2>3. user \in [Users -> UserRow] /\ \A u \in Users : user[u].mark = 0
    <3>1. ASSUME NEW u \in Users PROVE user[u] \in UserRow /\ user[u].mark = 0
      <4> DEFINE st == IF u \in Guests THEN "none" ELSE "active"
      <4>1. st \in Statuses /\ u \in Addresses
        BY Constants DEF Statuses
      <4> HIDE DEF st
      <4>2. (u \in Admins) \in BOOLEAN /\ (u \notin Guests) \in BOOLEAN
        OBVIOUS
      <4>3. user[u] = [status |-> st, admin |-> u \in Admins, password |-> u \notin Guests,
                       mark |-> 0, email |-> u]
        BY DEF st
      <4>. QED BY <1>1, <4>1, <4>2, <4>3, Zenon DEF UserRow
    <3>. QED BY <3>1
  <2>4. sessions \in [Users -> SUBSET (0..Second(MaxTime))]
    BY <1>1, SecondsOfTime
  <2>5. MarksCoverChanges
    <3>1. /\ changed = [u \in Users |-> 0] /\ raced = [u \in Users |-> FALSE]
      OBVIOUS
    <3> HIDE DEF Init
    <3>. QED BY <2>3, <3>1 DEF MarksCoverChanges
  <2>6. calls \in 0..MaxCalls
    BY Constants
  <2>. QED BY <1>1, <2>2, <2>3, <2>4, <2>5, <2>6 DEF UserSide
<1>4. RequestsAreOK
  BY DEF RequestsAreOK
<1>. QED BY <1>2, <1>3, <1>4 DEF Inv

LEMMA StepHolds == Inv /\ [Next]_vars => Inv'
<1> SUFFICES ASSUME Inv, [Next]_vars PROVE Inv'
  OBVIOUS
<1>1. ASSUME NEW r \in Requests, Administer(r) PROVE Inv'
  BY <1>1, AdminBegins, CommitAdminKeepsInv DEF Administer
<1>2. ASSUME NEW r \in Requests, Redeeming(r) PROVE Inv'
  BY <1>2, LinkBegins, CommitAcceptKeepsInv, CommitConfirmResetKeepsInv, FailuresKeepInv,
     CommitConfirmChangeKeepsInv, CommitRevokeKeepsInv DEF Redeeming
<1>3. ASSUME NEW r \in Requests, Owning(r) PROVE Inv'
  BY <1>3, OwnerBegins, CommitChangePasswordKeepsInv, CommitAskChangeKeepsInv DEF Owning
<1>4. ASSUME Tick PROVE Inv'
  BY <1>4, DirectStepsKeepInv, Constants
<1>5. ASSUME NEW u \in Users, Login(u) \/ LockOut(u) \/ RequestReset(u) \/ IssuePat(u) PROVE Inv'
  BY <1>5, DirectStepsKeepInv
<1>6. ASSUME NEW by \in Users, NEW on \in Users, NEW admin \in BOOLEAN,
             ResendInvite(by, on) \/ Invite(by, on, admin)
      PROVE  Inv'
  BY <1>6, DirectStepsKeepInv
<1>7. ASSUME UNCHANGED vars PROVE Inv'
  <2> USE <1>7 DEF vars, rows, history
  <2>1. TokenSide' /\ UserSide'
    BY DEF Inv, TokenSide, UserSide, Exists, MarksCoverChanges
  <2>2. Progress
    <3>1. \A v \in Users : Exists(v) => Exists(v)'
      BY DEF Exists
    <3>. QED BY <3>1, ProgressMade DEF Inv
  <2>. QED BY <2>1, <2>2, CallKeepsInv
<1>8. ASSUME NEW by \in Users, NEW on \in Users, ResendInvite(by, on) PROVE Inv'
  <2>1. TRUE \in BOOLEAN
    OBVIOUS
  <2>. QED BY <1>6, <1>8, <2>1
<1>. QED BY <1>1, <1>2, <1>3, <1>4, <1>5, <1>6, <1>7, <1>8 DEF Next

\* The inductive invariant: rows, tokens and watermarks are right, and so is what
\* each request in flight loaded.
THEOREM AccountsInvariance == Spec => []AccountsIInv
  BY InitHolds, StepHolds, InvIsIInv, PTL DEF Spec

\* An invitation or a reset link sets a password once, also when several requests
\* redeem it at the same time, and a reset ends the reset links mailed before it.
THEOREM LinksStaySpent == Spec => []LinksAreSpent
<1>1. AccountsIInv => LinksAreSpent
  BY DEF AccountsIInv
<1>. QED BY <1>1, AccountsInvariance, PTL

-----------------------------------------------------------------------------
(* What single steps may do.                                                *)

\* A step of a request starts it, or ends it as what it is.
LEMMA RequestSteps ==
    ASSUME Inv, NEW r \in Requests, Administer(r) \/ Redeeming(r) \/ Owning(r)
    PROVE  \/ /\ req[r].op = "idle" /\ UNCHANGED <<user, token>>
              /\ \A x \in Requests \ {r} : req'[x] = req[x]
           \/ /\ req' = [req EXCEPT ![r] = Idle]
              /\ \/ CommitAdmin(r) \/ CommitAccept(r) \/ CommitConfirmReset(r) \/ CommitConfirmChange(r)
                 \/ CommitRevoke(r) \/ CommitChangePassword(r) \/ CommitAskChange(r)
                 \/ RedeemFails(r) \/ ConfirmChangeFails(r)
<1>1. ASSUME NEW op, NEW on, NEW tok, NEW at, NEW held, NEW others,
             BeginWith(r, op, on, tok, at, held, others)
      PROVE  /\ req[r].op = "idle" /\ UNCHANGED <<user, token>>
             /\ \A x \in Requests \ {r} : req'[x] = req[x]
  BY <1>1 DEF BeginWith, rows, Inv, RequestsAreOK
<1>2. CASE \/ CommitAdmin(r) \/ CommitAccept(r) \/ CommitConfirmReset(r) \/ CommitConfirmChange(r)
           \/ CommitRevoke(r) \/ CommitChangePassword(r) \/ CommitAskChange(r)
           \/ RedeemFails(r) \/ ConfirmChangeFails(r)
  BY <1>2 DEF CommitAdmin, CommitAccept, CommitConfirmReset, CommitConfirmChange, CommitRevoke,
              CommitChangePassword, CommitAskChange, RedeemFails, ConfirmChangeFails, Done
<1>3. ASSUME NEW on \in Users,
             \/ BeginRecover(r, on)
             \/ \E by \in Users :
                  \/ BeginDemote(r, by, on) \/ BeginPromote(r, by, on)
                  \/ BeginDeactivate(r, by, on) \/ BeginReactivate(r, by, on)
                  \/ BeginDelete(r, by, on) \/ BeginTempPassword(r, by, on)
                  \/ BeginUnlock(r, by, on)
      PROVE  /\ req[r].op = "idle" /\ UNCHANGED <<user, token>>
             /\ \A x \in Requests \ {r} : req'[x] = req[x]
  <2>1. PICK op \in AdminOps : \E others : BeginWith(r, op, on, 1, 0, NoToken, others)
    BY <1>3, AdminBegins
  <2>. QED BY <1>1, <2>1
<1>4. ASSUME NEW u \in Users,
             BeginChangePassword(r, u) \/ \E email \in Addresses : BeginAskChange(r, u, email)
      PROVE  /\ req[r].op = "idle" /\ UNCHANGED <<user, token>>
             /\ \A x \in Requests \ {r} : req'[x] = req[x]
  <2>1. \E op, tok, at, held, others : BeginWith(r, op, u, tok, at, held, others)
    BY <1>4, OwnerBegins
  <2>. QED BY <1>1, <2>1
<1>5. ASSUME NEW t \in Tokens,
             BeginAccept(r, t) \/ BeginConfirmReset(r, t) \/ BeginConfirmChange(r, t) \/ BeginRevoke(r, t)
      PROVE  /\ req[r].op = "idle" /\ UNCHANGED <<user, token>>
             /\ \A x \in Requests \ {r} : req'[x] = req[x]
  <2>1. \E op, others : BeginWith(r, op, token[t].user, t, now, token[t], others)
    BY <1>5, LinkBegins
  <2>2. PICK op, others : BeginWith(r, op, token[t].user, t, now, token[t], others)
    BY <2>1
  <2>3. PICK on, at, held : on = token[t].user /\ at = now /\ held = token[t]
    OBVIOUS
  <2>. QED BY <1>1, <2>2, <2>3
<1>. QED BY <1>2, <1>3, <1>4, <1>5 DEF Administer, Redeeming, Owning

\* Which steps write to the user table.
LEMMA UserSteps ==
    ASSUME Inv, [Next]_vars
    PROVE  \/ user' = user
           \/ \E u \in Users : LockOut(u)
           \/ \E by, on \in Users : \E admin \in BOOLEAN : Invite(by, on, admin)
           \/ \E r \in Requests : /\ req' = [req EXCEPT ![r] = Idle]
                                  /\ \/ CommitAdmin(r) \/ CommitAccept(r) \/ CommitConfirmReset(r)
                                     \/ CommitConfirmChange(r) \/ CommitChangePassword(r)
<1>1. ASSUME NEW r \in Requests, Administer(r) \/ Redeeming(r) \/ Owning(r)
      PROVE  \/ user' = user
             \/ /\ req' = [req EXCEPT ![r] = Idle]
                /\ \/ CommitAdmin(r) \/ CommitAccept(r) \/ CommitConfirmReset(r)
                   \/ CommitConfirmChange(r) \/ CommitChangePassword(r)
  BY <1>1, RequestSteps DEF CommitRevoke, CommitAskChange, RedeemFails, ConfirmChangeFails, rows
<1>2. CASE Tick \/ UNCHANGED vars
  BY <1>2 DEF Tick, vars, rows
<1>3. ASSUME NEW u \in Users, Login(u) \/ LockOut(u) \/ RequestReset(u) \/ IssuePat(u)
      PROVE  user' = user \/ LockOut(u)
  BY <1>3 DEF Login, RequestReset, IssuePat
<1>4. ASSUME NEW by \in Users, NEW on \in Users, ResendInvite(by, on) PROVE user' = user
  BY <1>4 DEF ResendInvite
<1>. QED BY <1>1, <1>2, <1>3, <1>4 DEF Next

\* A request saves only what it changed of its row.
LEMMA OwnerSaves ==
    ASSUME Inv, NEW r \in Requests,
           CommitConfirmReset(r) \/ CommitConfirmChange(r) \/ CommitChangePassword(r)
    PROVE  \A v \in Users : user'[v].status = user[v].status /\ user'[v].admin = user[v].admin
<1>1. /\ req[r].op # "idle" /\ req[r].on \in Users /\ req[r].row \in UserRow
      /\ req[r].at \in Time /\ now \in Time /\ req[r].held \in TokenRow
  BY LoadedFacts DEF CommitConfirmReset, CommitConfirmChange, CommitChangePassword
<1>2. ASSUME NEW new \in UserRow, new.status = req[r].row.status, new.admin = req[r].row.admin,
             user' = Saved(req[r].on, req[r].row, new)
      PROVE  \A v \in Users : user'[v].status = user[v].status /\ user'[v].admin = user[v].admin
  <2> DEFINE u == req[r].on
             old == req[r].row
  <2>1. user' = Saved(u, old, new) /\ u \in Users /\ old \in UserRow /\ user \in [Users -> UserRow]
    BY <1>1, <1>2 DEF Inv, UserSide
  <2>2. new.status = old.status /\ new.admin = old.admin
    BY <1>2
  <2> HIDE DEF u, old
  <2>3. /\ \A v \in Users : v # u => user'[v] = user[v]
        /\ user'[u].status = IF new.status # old.status THEN new.status ELSE user[u].status
        /\ user'[u].admin = IF new.admin # old.admin THEN new.admin ELSE user[u].admin
    BY <2>1, SavedRow
  <2>4. user'[u].status = user[u].status /\ user'[u].admin = user[u].admin
    BY <2>2, <2>3, Zenon
  <2>. QED BY <2>3, <2>4
<1> DEFINE row == req[r].row
<1>3. CASE CommitConfirmReset(r)
  <2> DEFINE new == [row EXCEPT !.mark = Truncated(req[r].at)]
  <2>1. user' = Saved(req[r].on, req[r].row, new) /\ Truncated(req[r].at) \in Time
    BY <1>1, <1>3, SecondsOfTime DEF CommitConfirmReset
  <2>2. new \in UserRow /\ new.status = row.status /\ new.admin = row.admin
    <3> HIDE DEF row
    <3>1. row \in UserRow
      BY <1>1 DEF row
    <3>. QED BY <2>1, <3>1 DEF UserRow
  <2> HIDE DEF new
  <2>. QED BY <1>2, <2>1, <2>2
<1>4. CASE CommitConfirmChange(r)
  <2> DEFINE new == [row EXCEPT !.email = req[r].held.email]
  <2>1. user' = Saved(req[r].on, req[r].row, new) /\ req[r].held.email \in Addresses
    BY <1>1, <1>4 DEF CommitConfirmChange, TokenRow
  <2>2. new \in UserRow /\ new.status = row.status /\ new.admin = row.admin
    <3> HIDE DEF row
    <3>1. row \in UserRow
      BY <1>1 DEF row
    <3>. QED BY <2>1, <3>1 DEF UserRow
  <2> HIDE DEF new
  <2>. QED BY <1>2, <2>1, <2>2
<1>5. CASE CommitChangePassword(r)
  <2> DEFINE new == [row EXCEPT !.mark = Truncated(now)]
  <2>1. user' = Saved(req[r].on, req[r].row, new) /\ Truncated(now) \in Time
    BY <1>1, <1>5, SecondsOfTime DEF CommitChangePassword, ChangedPassword
  <2>2. new \in UserRow /\ new.status = row.status /\ new.admin = row.admin
    <3> HIDE DEF row
    <3>1. row \in UserRow
      BY <1>1 DEF row
    <3>. QED BY <2>1, <3>1 DEF UserRow
  <2> HIDE DEF new
  <2>. QED BY <1>2, <2>1, <2>2
<1>. QED BY <1>3, <1>4, <1>5

\* What an administrator's request may take from its row.
LEMMA AdminSaves ==
    ASSUME Inv, NEW r \in Requests, CommitAdmin(r)
    PROVE  LET u == req[r].on IN
           /\ \A v \in Users : v # u => user'[v] = user[v]
           /\ user[u].admin /\ ~user'[u].admin => req[r].op = "demote"
           /\ user[u].status = "active" /\ user'[u].status # "active" => req[r].op \in {"deactivate", "delete"}
           /\ user'[u].status # user[u].status => req[r].row.status # "deleted"
<1> DEFINE u == req[r].on
           op == req[r].op
           old == req[r].row
           new == AdminWrites(op, old)
<1>1. op \in AdminOps /\ user' = Saved(u, old, new) /\ op # "idle"
  BY DEF CommitAdmin, AdminOps
<1>2. /\ u \in Users /\ old \in UserRow /\ old.status # "none" /\ now \in Time
      /\ op \in {"deactivate", "reactivate", "delete", "unlock", "recover"} => old.status # "deleted"
  BY <1>1, LoadedFacts DEF LookedFirst
<1> HIDE DEF u, op, old
<1>3. /\ new \in UserRow
      /\ new.admin # old.admin => op \in {"demote", "promote"} /\ (op = "promote" => new.admin)
      /\ new.status # old.status =>
            /\ op \in {"deactivate", "reactivate", "delete", "unlock", "recover"}
            /\ new.status = "active" \/ op \in {"deactivate", "delete"}
  BY <1>1, <1>2, AdminRow
<1> HIDE DEF new
<1>4. /\ \A v \in Users : v # u => user'[v] = user[v]
      /\ user'[u].status = IF new.status # old.status THEN new.status ELSE user[u].status
      /\ user'[u].admin = IF new.admin # old.admin THEN new.admin ELSE user[u].admin
  BY <1>1, <1>2, <1>3, SavedRow DEF Inv, UserSide
<1>5. user[u].admin /\ ~user'[u].admin => op = "demote"
  BY <1>3, <1>4, Zenon
<1>6. user[u].status = "active" /\ user'[u].status # "active" => op \in {"deactivate", "delete"}
  BY <1>3, <1>4, Zenon
<1>7. user'[u].status # user[u].status => old.status # "deleted"
  BY <1>2, <1>3, <1>4, Zenon
<1>. QED BY <1>4, <1>5, <1>6, <1>7 DEF u, op, old

LEMMA LeavingIsGuarded ==
    ASSUME Inv, [Next]_vars, ActiveAdmins # {}, ActiveAdmins' = {}
    PROVE  \/ \E u \in Users : user[u].status = "active" /\ user'[u].status = "locked"
           \/ \E r \in Requests :
                /\ req[r].op \in {"demote", "deactivate", "delete"} /\ req'[r].op = "idle"
                /\ Cardinality(req[r].others) > 1 \/ req[r].on \notin req[r].others
<1>1. PICK a \in Users : /\ user[a].admin /\ user[a].status = "active"
                         /\ ~(user'[a].admin /\ user'[a].status = "active")
  BY DEF ActiveAdmins
<1>2. user \in [Users -> UserRow]
  BY DEF Inv, UserSide
<1>3. user' # user
  BY <1>1
<1>4. ASSUME NEW u \in Users, LockOut(u)
      PROVE  user[u].status = "active" /\ user'[u].status = "locked"
  BY <1>2, <1>4 DEF LockOut, UserRow
<1>5. ASSUME NEW by \in Users, NEW on \in Users, NEW admin \in BOOLEAN, Invite(by, on, admin)
      PROVE  FALSE
  <2>1. a # on
    BY <1>1, <1>5 DEF Invite, Exists
  <2>. QED BY <1>1, <1>2, <1>5, <2>1 DEF Invite
<1>6. ASSUME NEW r \in Requests, req' = [req EXCEPT ![r] = Idle], CommitAdmin(r)
      PROVE  /\ req[r].op \in {"demote", "deactivate", "delete"} /\ req'[r].op = "idle"
             /\ Cardinality(req[r].others) > 1 \/ req[r].on \notin req[r].others
  <2>1. req[r].op # "idle"
    BY <1>6 DEF CommitAdmin, AdminOps
  <2>2. a = req[r].on
    BY <1>1, <1>6, AdminSaves
  <2>3. req[r].op \in {"demote", "deactivate", "delete"}
    BY <1>1, <1>6, <2>2, AdminSaves, Zenon
  <2>4. req'[r].op = "idle"
    BY <1>6 DEF Inv, RequestsAreOK, Idle
  <2>5. LookedFirst(req[r])
    BY <2>1, LoadedFacts
  <2>. QED BY <2>3, <2>4, <2>5 DEF LookedFirst
<1>7. ASSUME NEW r \in Requests, CommitAccept(r) PROVE FALSE
  <2> DEFINE u == req[r].on
  <2>1. user' = [user EXCEPT ![u].status = "active", ![u].password = TRUE, ![u].mark = req[r].at]
    BY <1>7 DEF CommitAccept
  <2> HIDE DEF u
  <2>2. user'[a].admin = user[a].admin /\ (user'[a].status = user[a].status \/ user'[a].status = "active")
    BY <1>2, <2>1 DEF UserRow
  <2>. QED BY <1>1, <2>2, Zenon
<1>8. ASSUME NEW r \in Requests,
             CommitConfirmReset(r) \/ CommitConfirmChange(r) \/ CommitChangePassword(r)
      PROVE  FALSE
  BY <1>1, <1>8, OwnerSaves, Zenon
<1>. QED BY <1>3, <1>4, <1>5, <1>6, <1>7, <1>8, UserSteps

\* Demoting, deactivating and deleting leave an active administrator behind, unless
\* another left between the count of GuardLastAdmin and the commit, or the target
\* became an administrator meanwhile; only a lockout is not guarded.
THEOREM AdminsStay == Spec => AdminsRemain
<1>1. Inv /\ [Next]_vars =>
        [ (ActiveAdmins # {} /\ ActiveAdmins' = {})
          => \/ \E u \in Users : user[u].status = "active" /\ user'[u].status = "locked"
             \/ \E r \in Requests :
                  /\ req[r].op \in {"demote", "deactivate", "delete"} /\ req'[r].op = "idle"
                  /\ Cardinality(req[r].others) > 1 \/ req[r].on \notin req[r].others ]_vars
  BY LeavingIsGuarded
<1>. QED BY <1>1, InitHolds, StepHolds, PTL DEF Spec, AdminsRemain

LEMMA TombstonesAreKept ==
    ASSUME Inv, [Next]_vars
    PROVE  TombstoneStays
<1> SUFFICES ASSUME NEW a \in Users, user[a].status = "deleted", user'[a].status # "deleted"
             PROVE  \E r \in Requests : /\ req[r].on = a /\ req'[r].op = "idle"
                                        /\ req[r].op = "accept" \/ req[r].row.status # "deleted"
  BY DEF TombstoneStays
<1>2. user \in [Users -> UserRow]
  BY DEF Inv, UserSide
<1>3. user' # user
  OBVIOUS
<1>4. ASSUME NEW u \in Users, LockOut(u) PROVE FALSE
  <2>1. a # u
    BY <1>4 DEF LockOut
  <2>. QED BY <1>2, <1>4, <2>1 DEF LockOut
<1>5. ASSUME NEW by \in Users, NEW on \in Users, NEW admin \in BOOLEAN, Invite(by, on, admin)
      PROVE  FALSE
  <2>1. a # on
    BY <1>5 DEF Invite, Exists
  <2>. QED BY <1>2, <1>5, <2>1 DEF Invite
<1>6. ASSUME NEW r \in Requests, req' = [req EXCEPT ![r] = Idle] PROVE req'[r].op = "idle"
  BY <1>6 DEF Inv, RequestsAreOK, Idle
<1>7. ASSUME NEW r \in Requests, CommitAdmin(r) PROVE req[r].on = a /\ req[r].row.status # "deleted"
  BY <1>7, AdminSaves
<1>8. ASSUME NEW r \in Requests, CommitAccept(r) PROVE req[r].on = a /\ req[r].op = "accept"
  BY <1>2, <1>8 DEF CommitAccept
<1>9. ASSUME NEW r \in Requests,
             CommitConfirmReset(r) \/ CommitConfirmChange(r) \/ CommitChangePassword(r)
      PROVE  FALSE
  BY <1>9, OwnerSaves
<1>. QED BY <1>3, <1>4, <1>5, <1>6, <1>7, <1>8, <1>9, UserSteps

LEMMA LatestWins ==
    ASSUME Inv, [Next]_vars
    PROVE  LatestChangeWins
<1>1. ASSUME NEW r \in Requests, req[r].op = "change" PROVE req[r].tok \notin req[r].others
  <2>1. HoldsItsToken(req[r])
    BY <1>1, LoadedFacts
  <2>. QED BY <1>1, <2>1 DEF HoldsItsToken
<1>. QED BY <1>1 DEF LatestChangeWins

LEMMA RevocationsAreKept ==
    ASSUME Inv, [Next]_vars
    PROVE  RevocationKept
<1> SUFFICES ASSUME NEW t \in Tokens, token[t].kind = "pat", token[t].used # 0,
                    token'[t].used # token[t].used
             PROVE  /\ token'[t].used # 0
                    /\ \E r \in Requests : req[r].op = "revoke" /\ req[r].tok = t /\ req[r].held.used = 0
  BY DEF RevocationKept
<1>1. token \in [Tokens -> TokenRow] /\ t \in Tokens /\ t <= minted /\ now # 0 /\ minted \in Nat
  BY Constants DEF Inv, TokenSide, Tokens
<1>2. token'[t] # token[t]
  OBVIOUS
<1>3. ASSUME NEW kind, NEW u, NEW email, Issue(kind, u, email) PROVE FALSE
  <2>1. t # minted + 1
    BY <1>1
  <2> DEFINE new == [kind |-> kind, user |-> u, used |-> 0, expires |-> now + TokenTtl, email |-> email]
  <2>2. token' = [token EXCEPT ![minted + 1] = new]
    BY <1>3 DEF Issue
  <2> HIDE DEF new
  <2>. QED BY <1>1, <1>2, <2>1, <2>2
<1>4. ASSUME NEW r \in Requests, CommitAccept(r) PROVE FALSE
  <2>1. HoldsItsToken(req[r]) /\ req[r].op = "accept"
    BY <1>4, LoadedFacts DEF CommitAccept
  <2>2. req[r].tok # t
    BY <2>1 DEF HoldsItsToken, KindOf
  <2>. QED BY <1>1, <1>2, <1>4, <2>2 DEF CommitAccept
<1>5. ASSUME NEW r \in Requests, CommitConfirmReset(r) \/ CommitConfirmChange(r) PROVE FALSE
  <2> DEFINE spent == Siblings(req[r].tok) \cup {req[r].tok}
  <2>1. /\ req[r].op \in {"reset", "change"}
        /\ token' = [s \in Tokens |-> IF s \in spent
                                      THEN [token[s] EXCEPT !.used = req[r].at] ELSE token[s]]
    BY <1>5 DEF CommitConfirmReset, CommitConfirmChange
  <2>2. \A s \in spent : token[s].kind = req[r].op
    BY <2>1, SiblingFacts
  <2> HIDE DEF spent
  <2>3. t \notin spent
    BY <2>1, <2>2
  <2>. QED BY <1>2, <2>1, <2>3
<1>6. ASSUME NEW r \in Requests, CommitAskChange(r) PROVE FALSE
  <2>1. HoldsNewToken(req[r]) /\ req[r].op = "ask_change"
    BY <1>6, LoadedFacts DEF CommitAskChange
  <2>2. t \notin req[r].others
    BY <2>1 DEF HoldsNewToken
  <2>3. t # minted + 1
    BY <1>1
  <2>. QED BY <1>2, <1>6, <2>2, <2>3 DEF CommitAskChange, Outdated
<1>7. ASSUME NEW r \in Requests, CommitRevoke(r)
      PROVE  /\ token'[t].used # 0
             /\ req[r].op = "revoke" /\ req[r].tok = t /\ req[r].held.used = 0
  <2>1. Revoked(req[r].held) # req[r].held /\ token' = [token EXCEPT ![req[r].tok].used = now]
    BY <1>2, <1>7 DEF CommitRevoke
  <2>2. req[r].held.used = 0
    BY <2>1 DEF Revoked
  <2>3. req[r].tok = t
    BY <1>1, <1>2, <2>1
  <2>4. token'[t].used = now
    BY <1>1, <2>1, <2>3 DEF TokenRow
  <2>. QED BY <1>1, <1>7, <2>2, <2>3, <2>4 DEF CommitRevoke
<1>8. ASSUME NEW r \in Requests, Administer(r) \/ Redeeming(r) \/ Owning(r)
      PROVE  CommitRevoke(r)
  BY <1>2, <1>4, <1>5, <1>6, <1>8, RequestSteps
     DEF CommitAdmin, CommitChangePassword, RedeemFails, ConfirmChangeFails, rows
<1>9. CASE Tick \/ UNCHANGED vars
  BY <1>2, <1>9 DEF Tick, vars, rows
<1>10. ASSUME NEW u \in Users, Login(u) \/ LockOut(u) \/ RequestReset(u) \/ IssuePat(u) PROVE FALSE
  BY <1>2, <1>3, <1>10 DEF Login, LockOut, RequestReset, IssuePat
<1>11. ASSUME NEW by \in Users, NEW on \in Users, ResendInvite(by, on) PROVE FALSE
  BY <1>3, <1>11 DEF ResendInvite
<1>12. ASSUME NEW by \in Users, NEW on \in Users, NEW admin \in BOOLEAN, Invite(by, on, admin) PROVE FALSE
  BY <1>3, <1>12 DEF Invite
<1>. QED BY <1>7, <1>8, <1>9, <1>10, <1>11, <1>12 DEF Next

\* A deleted account comes back only by an invitation or a request that loaded it
\* before, the address changes only by the latest link, and a revoked personal
\* access token stays revoked.
THEOREM EndedIsKept == Spec => EndedStaysEnded
<1>1. Inv /\ [Next]_vars => [TombstoneStays /\ LatestChangeWins /\ RevocationKept]_vars
  BY TombstonesAreKept, LatestWins, RevocationsAreKept
<1>. QED BY <1>1, InitHolds, StepHolds, PTL DEF Spec, EndedStaysEnded

-----------------------------------------------------------------------------
(* Access tokens and the password.                                          *)

LEMMA EarlierAreRefused == Inv => EarlierSessionsEnd
<1> SUFFICES ASSUME Inv, NEW u \in Users, NEW s \in sessions[u], s < changed[u], ~raced[u]
             PROVE  ~Accepted(u, s)
  BY DEF EarlierSessionsEnd
<1>1. 2 * changed[u] <= user[u].mark /\ changed[u] \in Nat
  BY DEF Inv, UserSide, MarksCoverChanges
<1>2. s \in Nat
  <2>1. Second(MaxTime) \in Nat
    BY Constants, Seconds
  <2>. QED BY <2>1 DEF Inv, UserSide
<1>3. user[u].mark \in Nat
  BY Constants DEF Inv, UserSide, UserRow, Time
<1>4. ~(2 * s >= user[u].mark)
  BY <1>1, <1>2, <1>3
<1>. QED BY <1>4 DEF Accepted

LEMMA ChangeReturnsGood ==
    ASSUME Inv, [Next]_vars, NEW r \in Requests, req[r].op = "password", req'[r].op = "idle",
           user[req[r].on].mark = req[r].row.mark
    PROVE  2 * Second(now) >= user'[req[r].on].mark
<1>1. ASSUME NEW x \in Requests, Administer(x) \/ Redeeming(x) \/ Owning(x)
      PROVE  CommitChangePassword(r)
  <2>1. x = r
    <3>1. ASSUME x # r PROVE req'[r] = req[r]
      BY <1>1, <3>1, RequestSteps DEF Inv, RequestsAreOK
    <3>. QED BY <3>1
  <2>. QED BY <1>1, <2>1, RequestSteps
           DEF CommitAdmin, AdminOps, CommitAccept, CommitConfirmReset, CommitConfirmChange, CommitRevoke,
               CommitAskChange, RedeemFails, ConfirmChangeFails
<1>2. req' # req
  OBVIOUS
<1>3. CommitChangePassword(r)
  BY <1>1, <1>2 DEF Next, Tick, Login, LockOut, RequestReset, IssuePat, ResendInvite, Invite, Call, vars
<1>4. /\ req[r].on \in Users /\ req[r].row \in UserRow /\ now \in Time
  BY LoadedFacts
<1> DEFINE u == req[r].on
           old == req[r].row
           new == [old EXCEPT !.mark = Truncated(now)]
<1>5. user' = Saved(u, old, new)
  BY <1>3 DEF CommitChangePassword, ChangedPassword
<1>6. user[u].mark = old.mark /\ u \in Users /\ old \in UserRow
  BY <1>4
<1> HIDE DEF u, old
<1>7. new \in UserRow /\ new.mark = Truncated(now)
  <2>1. Truncated(now) \in Time
    BY <1>4, SecondsOfTime
  <2>. QED BY <1>6, <2>1 DEF UserRow
<1> HIDE DEF new
<1>8. user'[u].mark = IF new.mark # old.mark THEN new.mark ELSE user[u].mark
  BY <1>5, <1>6, <1>7, SavedRow DEF Inv, UserSide
<1>9. user'[u].mark = Truncated(now)
  BY <1>6, <1>7, <1>8, Zenon
<1>10. now \in Nat
  BY <1>4, Constants DEF Time
<1>11. 2 * Second(now) >= Truncated(now)
  BY <1>10, Seconds
<1>. QED BY <1>9, <1>11 DEF u

\* The watermark of an acceptance is the time it came in at.
LEMMA AcceptReturnsGood ==
    ASSUME Inv, [Next]_vars, NEW r \in Requests, req[r].op = "accept", req'[r].op = "idle",
           redeemed' # redeemed, ~MidSecond(req[r].at)
    PROVE  2 * Second(now) >= user'[req[r].on].mark
<1>1. ASSUME NEW x \in Requests, Administer(x) \/ Redeeming(x) \/ Owning(x)
      PROVE  CommitAccept(r)
  <2>1. x = r
    <3>1. ASSUME x # r PROVE req'[r] = req[r]
      BY <1>1, <3>1, RequestSteps DEF Inv, RequestsAreOK
    <3>. QED BY <3>1
  <2>. QED BY <1>1, <2>1, RequestSteps
           DEF CommitAdmin, AdminOps, CommitChangePassword, CommitConfirmReset, CommitConfirmChange,
               CommitRevoke, CommitAskChange, RedeemFails, ConfirmChangeFails, history
<1>2. CommitAccept(r)
  BY <1>1 DEF Next, Tick, Login, LockOut, RequestReset, IssuePat, ResendInvite, Invite, Call, vars, history
<1>3. req[r].on \in Users /\ req[r].at \in Time /\ req[r].at <= now /\ now \in Time
  BY LoadedFacts
<1>4. user'[req[r].on].mark = req[r].at
  BY <1>2, <1>3 DEF CommitAccept, Inv, UserSide, UserRow
<1>5. now \in Nat /\ req[r].at \in Nat
  BY <1>3, Constants DEF Time
<1>6. CASE Second(req[r].at) = Second(now)
  <2>1. req[r].at = Truncated(req[r].at)
    BY <1>6 DEF MidSecond
  <2>. QED BY <1>4, <1>5, <1>6, <2>1, Seconds
<1>7. CASE Second(req[r].at) # Second(now)
  <2> DEFINE a == Second(req[r].at)
             n == Second(now)
  <2>1. /\ a \in Nat /\ 2 * a <= req[r].at /\ req[r].at <= 2 * a + 1
        /\ n \in Nat /\ now <= 2 * n + 1
    BY <1>5, Seconds
  <2>2. a # n
    BY <1>7
  <2> HIDE DEF a, n
  <2>3. req[r].at <= 2 * n
    BY <1>3, <1>5, <2>1, <2>2
  <2>. QED BY <1>4, <2>3 DEF n
<1>. QED BY <1>6, <1>7

LEMMA FreshWorks ==
    ASSUME Inv, [Next]_vars
    PROVE  FreshTokenWorks
  BY ChangeReturnsGood, AcceptReturnsGood DEF FreshTokenWorks

\* An access token of before the latest password change is refused, unless two changes
\* overlapped; the token that a change of the password returns is good, and that of an
\* accepted invitation is, unless it was accepted in the middle of a second.
THEOREM SessionsFollow == Spec => SessionsFollowPassword
<1>1. Inv' => EarlierSessionsEnd'
  BY EarlierAreRefused, PTL
<1>2. Inv /\ Inv' /\ [Next]_vars => [EarlierSessionsEnd' /\ FreshTokenWorks]_vars
  BY <1>1, FreshWorks
<1>. QED BY <1>2, InitHolds, StepHolds, PTL DEF Spec, SessionsFollowPassword
=============================================================================
