------------------------------ MODULE Sessions ------------------------------
(***************************************************************************)
(* The session authority: auth/authenticator.go together with the handlers *)
(* that drive it (login confirmation, refresh, authenticated requests,     *)
(* change of mailbox and account deletion) and the account and             *)
(* refresh-token statements it runs.                                       *)
(*                                                                         *)
(* Every request is one HTTP request.  A request interleaves with all the  *)
(* others between its database statements; inside a transaction it holds   *)
(* the row lock of one account.  What a transaction writes is private to   *)
(* it until the commit, so the writes appear in the commit action.         *)
(*                                                                         *)
(* A request draws at most one random auth id and at most one random       *)
(* refresh token, so both are named by the request that draws them: the    *)
(* request r is also "the auth id r drew" and "the token r was given".     *)
(***************************************************************************)
EXTENDS Integers

CONSTANTS Requests,    \* HTTP requests, each handled once
          Emails,      \* mailboxes that people prove to own at login
          Subs,        \* account numbers the database may hand out
          None,        \* "no row" and "no value"
          AccessTTL,   \* lifetime of an access token, in clock units
          RefreshTTL,  \* lifetime of a refresh token, in clock units
          MaxTime      \* bound: the clock stops here

Account == [email : Emails, authID : Requests]
Row     == [sub : Subs, authID : Requests, expiresAt : Nat]
Token   == [sub : Subs, authID : Requests, expiresAt : Nat, root : Requests]
Session == [sub : Subs, root : Requests]

ASSUME SubsAssumption == Subs \subseteq Nat \ {0}
ASSUME TTLAssumption  == AccessTTL \in Nat \ {0} /\ RefreshTTL \in Nat \ {0}
ASSUME TimeAssumption == MaxTime \in Nat
ASSUME NoneAssumption ==
    /\ None \notin Requests /\ None \notin Emails /\ None \notin Subs
    /\ None \notin Account  /\ None \notin Row    /\ None \notin Token
    /\ None \notin Session

VARIABLES
    accounts,  \* committed accounts table, by sub
    lastSub,   \* high-water mark of the subs handed out
    rows,      \* committed refresh_tokens table, by token
    lock,      \* the request whose transaction holds an account's row lock
    clock,     \* time.Now, the same for every request
    pc,        \* where a request is in its handler
    job,       \* the handler's local variables
    result,    \* what the client was told
    minted     \* history: the access token signed with each refresh token

vars == <<accounts, lastSub, rows, lock, clock, pc, job, result, minted>>

(* A request waiting for, or inside, a transaction; and only inside. *)
InTx    == {"sign", "consume", "exchange", "rotate"}
Working == {"issue", "lock", "read", "rename", "revoke", "delete"} \cup InTx
Results == {"none", "ok", "invalid", "expired", "error"}
Ops     == {"none", "login", "refresh", "verify", "email", "delete", "revoke"}

NoJob == [op |-> "none", email |-> None, sub |-> None, hash |-> None,
          authID |-> None, live |-> FALSE]
Job   == [op : Ops, email : Emails \cup {None}, sub : Subs \cup {None},
          hash : Requests \cup {None}, authID : Requests \cup {None},
          live : BOOLEAN]

TypeOK ==
    /\ accounts \in [Subs -> Account \cup {None}]
    /\ lastSub \in Nat
    /\ rows \in [Requests -> Row \cup {None}]
    /\ lock \in [Subs -> Requests \cup {None}]
    /\ clock \in Nat
    /\ pc \in [Requests -> {"idle", "done"} \cup Working]
    /\ job \in [Requests -> Job]
    /\ result \in [Requests -> Results]
    /\ minted \in [Requests -> Token \cup {None}]

Init ==
    /\ accounts = [s \in Subs |-> None]
    /\ lastSub = 0
    /\ rows = [h \in Requests |-> None]
    /\ lock = [s \in Subs |-> None]
    /\ clock = 0
    /\ pc = [r \in Requests |-> "idle"]
    /\ job = [r \in Requests |-> NoJob]
    /\ result = [r \in Requests |-> "none"]
    /\ minted = [r \in Requests |-> None]

-----------------------------------------------------------------------------
(* The database: rows, row locks, rollback. *)

Exists(s) == accounts[s] # None

(* As if the account row were read without FOR UPDATE. *)
FreeIgnored(s) == TRUE

Free(s) == lock[s] = None

Current(s, authID) == Exists(s) /\ accounts[s].authID = authID

Unexpired(h) == rows[h] # None /\ clock < rows[h].expiresAt

(* ConsumeRefreshTokenByHash has deleted the row in a transaction that is  *)
(* still open: every other statement on that row waits for it to end.      *)
Consumed(h) == \E r \in Requests : pc[r] = "exchange" /\ job[r].hash = h

Acquire(r, s) == lock' = [lock EXCEPT ![s] = r]

(* The deferred Rollback and Commit both end the transaction.              *)
Release(r) == lock' = [s \in Subs |-> IF lock[s] = r THEN None ELSE lock[s]]

Goto(r, label) == pc' = [pc EXCEPT ![r] = label] /\ UNCHANGED result

Finish(r, outcome) ==
    /\ pc' = [pc EXCEPT ![r] = "done"]
    /\ result' = [result EXCEPT ![r] = outcome]

WithoutSub(s) ==
    [h \in Requests |-> IF rows[h] # None /\ rows[h].sub = s THEN None ELSE rows[h]]

-----------------------------------------------------------------------------
(* Tokens. *)

(* The client that holds token h got it in a response that arrived. *)
Delivered(h) == minted[h] # None /\ result[h] = "ok"

(* The access token h names the current auth id of an existing account:    *)
(* the database half of Verify.                                            *)
Usable(h) == Current(minted[h].sub, minted[h].authID)

(* signSession and the commit that follows it: sign the access token, and  *)
(* replace the rows in `spent` by a fresh one.  The commit may take effect *)
(* although the client is told it failed.                                  *)
SignSession(r, authID, root, spent) ==
    LET s == job[r].sub
    IN /\ rows' = [h \in Requests |->
                     IF h = r
                     THEN [sub |-> s, authID |-> authID, expiresAt |-> clock + RefreshTTL]
                     ELSE IF h \in spent THEN None ELSE rows[h]]
       /\ minted' = [minted EXCEPT ![r] =
                       [sub |-> s, authID |-> authID,
                        expiresAt |-> clock + AccessTTL, root |-> root]]
       /\ Release(r)
       /\ \E reply \in {"ok", "error"} : Finish(r, reply)

-----------------------------------------------------------------------------
(* Login: VerifyAuthenticationCode, its code already consumed, then Issue. *)

(* As if the number of a deleted account could be handed out again. *)
NewSubReused ==
    LET Unused == {s \in Subs : ~Exists(s)}
    IN IF Unused = {} THEN lastSub + 1
       ELSE CHOOSE s \in Unused : \A t \in Unused : s <= t

(* The high-water mark survives deletions: a sub is never handed out twice.*)
NewSub == lastSub + 1

(* EnsureAccountByEmail in the transaction that consumes the code.  The    *)
(* upsert locks an existing row, so it waits for that row's lock.          *)
EnsureAccount(r, e) ==
    /\ pc[r] = "idle"
    /\ \/ \E s \in Subs :
            /\ Exists(s) /\ accounts[s].email = e
            /\ Free(s)
            /\ job' = [job EXCEPT ![r] = [NoJob EXCEPT !.op = "login", !.email = e, !.sub = s]]
            /\ UNCHANGED <<accounts, lastSub>>
       \/ /\ \A s \in Subs : Exists(s) => accounts[s].email # e
          /\ NewSub \in Subs
          /\ lastSub' = NewSub
          /\ accounts' = [accounts EXCEPT ![NewSub] = [email |-> e, authID |-> r]]
          /\ job' = [job EXCEPT ![r] =
                       [NoJob EXCEPT !.op = "login", !.email = e, !.sub = NewSub]]
    /\ Goto(r, "issue")
    /\ UNCHANGED <<rows, lock, clock, minted>>

IssueLock(r) ==
    LET s == job[r].sub
    IN /\ pc[r] = "issue"
       /\ Free(s)
       /\ \/ /\ Exists(s)
             /\ Acquire(r, s)
             /\ job' = [job EXCEPT ![r].authID = accounts[s].authID]
             /\ Goto(r, "sign")
          \/ /\ ~Exists(s)
             /\ Finish(r, "invalid")
             /\ UNCHANGED <<lock, job>>
       /\ UNCHANGED <<accounts, lastSub, rows, clock, minted>>

IssueCommit(r) ==
    /\ pc[r] = "sign"
    /\ SignSession(r, job[r].authID, r, {})
    /\ UNCHANGED <<accounts, lastSub, clock, job>>

-----------------------------------------------------------------------------
(* Refresh. *)

(* SelectRefreshTokenByHash, outside the transaction. *)
RefreshSelect(r, h) ==
    /\ pc[r] = "idle"
    /\ Delivered(h)
    /\ \/ /\ Unexpired(h)
          /\ job' = [job EXCEPT ![r] =
                       [NoJob EXCEPT !.op = "refresh", !.hash = h,
                                     !.sub = rows[h].sub, !.authID = rows[h].authID]]
          /\ Goto(r, "lock")
       \/ /\ ~Unexpired(h)
          /\ job' = [job EXCEPT ![r] = [NoJob EXCEPT !.op = "refresh", !.hash = h]]
          /\ Finish(r, IF rows[h] = None THEN "invalid" ELSE "expired")
    /\ UNCHANGED <<accounts, lastSub, rows, lock, clock, minted>>

(* LockAccountAuthID: the session's generation must still be current. *)
RefreshLock(r) ==
    LET s == job[r].sub
    IN /\ pc[r] = "lock"
       /\ Free(s)
       /\ \/ /\ Current(s, job[r].authID)
             /\ Acquire(r, s)
             /\ Goto(r, "consume")
          \/ /\ ~Current(s, job[r].authID)
             /\ Finish(r, "invalid")
             /\ UNCHANGED lock
       /\ UNCHANGED <<accounts, lastSub, rows, clock, job, minted>>

(* ConsumeRefreshTokenByHash.  The row may be gone, or have expired while  *)
(* the request waited for the lock; either way the transaction rolls back. *)
Found(r) ==
    LET row == rows[job[r].hash]
    IN row # None /\ row.sub = job[r].sub /\ row.authID = job[r].authID

(* As if the expiry were checked only before the transaction. *)
ConsumableLate(r) == Found(r)

Consumable(r) == Found(r) /\ Unexpired(job[r].hash)

(* As if the token were consumed outside the transaction. *)
RefreshConsumeOutside(r) ==
    /\ pc[r] = "consume"
    /\ IF Consumable(r)
       THEN Goto(r, "exchange") /\ UNCHANGED lock
       ELSE Release(r) /\ Finish(r, IF Found(r) THEN "expired" ELSE "invalid")
    /\ rows' = [rows EXCEPT ![job[r].hash] = None]
    /\ UNCHANGED <<accounts, lastSub, clock, job, minted>>

RefreshConsume(r) ==
    /\ pc[r] = "consume"
    /\ \/ /\ Consumable(r)
          /\ Goto(r, "exchange")
          /\ UNCHANGED lock
       \/ /\ ~Consumable(r)
          /\ Release(r)
          /\ Finish(r, IF Found(r) THEN "expired" ELSE "invalid")
    /\ UNCHANGED <<accounts, lastSub, rows, clock, job, minted>>

(* As if the presented token were kept when it is exchanged. *)
RefreshCommitKeeps(r) ==
    /\ pc[r] = "exchange"
    /\ SignSession(r, job[r].authID, minted[job[r].hash].root, {})
    /\ UNCHANGED <<accounts, lastSub, clock, job>>

RefreshCommit(r) ==
    /\ pc[r] = "exchange"
    /\ SignSession(r, job[r].authID, minted[job[r].hash].root, {job[r].hash})
    /\ UNCHANGED <<accounts, lastSub, clock, job>>

-----------------------------------------------------------------------------
(* Authenticated requests: AuthenticateBearer, then the handler; the ones  *)
(* that change an account are ConfirmEmailChange and DeleteAccount.        *)

(* Where an authenticated request goes next. *)
Admit(r) ==
    \/ job[r].op = "verify" /\ Finish(r, "ok")
    \/ job[r].op = "email"  /\ Goto(r, "rename")
    \/ job[r].op = "delete" /\ Goto(r, "revoke")

(* The signature and expiry half of Verify, before the database is read.   *)
(* `live` remembers, for the properties only, whether the token was usable.*)
Present(r, h, op) ==
    /\ pc[r] = "idle"
    /\ op \in {"verify", "email", "delete"}
    /\ Delivered(h)
    /\ job' = [job EXCEPT ![r] = [NoJob EXCEPT !.op = op, !.hash = h, !.live = Usable(h)]]
    /\ IF clock < minted[h].expiresAt THEN Goto(r, "read") ELSE Finish(r, "expired")
    /\ UNCHANGED <<accounts, lastSub, rows, lock, clock, minted>>

(* As if the signature and expiry of an access token were enough. *)
VerifySignatureOnly(r) ==
    /\ pc[r] = "read"
    /\ job' = [job EXCEPT ![r].sub = minted[job[r].hash].sub]
    /\ Admit(r)
    /\ UNCHANGED <<accounts, lastSub, rows, lock, clock, minted>>

(* SelectAccountAuthID, never answered from the cache. *)
VerifyRead(r) ==
    LET h == job[r].hash
    IN /\ pc[r] = "read"
       /\ \/ /\ Usable(h)
             /\ job' = [job EXCEPT ![r].sub = minted[h].sub]
             /\ Admit(r)
          \/ /\ ~Usable(h)
             /\ Finish(r, "invalid")
             /\ UNCHANGED job
       /\ UNCHANGED <<accounts, lastSub, rows, lock, clock, minted>>

(* ConfirmEmailChange, once its code is checked: the mailbox e that was    *)
(* proven becomes the account's.  The unique index refuses a mailbox that  *)
(* has an account; a code that is wrong, or deleted with the account, is   *)
(* refused as well.  One step, at the commit: the waits for the request's  *)
(* row and for the account, and the circle of waits with a deletion that   *)
(* makes the database fail one of the two (Abort), are in RowLocks.        *)
ChangeEmail(r, e) ==
    LET s == job[r].sub
    IN /\ pc[r] = "rename"
       /\ \/ /\ Free(s) /\ Exists(s)
             /\ \A t \in Subs : Exists(t) /\ accounts[t].email = e => t = s
             /\ accounts' = [accounts EXCEPT ![s].email = e]
             /\ job' = [job EXCEPT ![r].email = e]
             /\ \E reply \in {"ok", "error"} : Finish(r, reply)
          \/ Finish(r, "invalid") /\ UNCHANGED <<accounts, job>>
       /\ UNCHANGED <<lastSub, rows, lock, clock, minted>>

(* RevokeAll's LockAccountAuthID; a missing account is not an error. *)
RevokeLock(r) ==
    LET s == job[r].sub
    IN /\ pc[r] = "revoke"
       /\ Free(s)
       /\ IF Exists(s)
          THEN Acquire(r, s) /\ Goto(r, "rotate")
          ELSE Goto(r, "delete") /\ UNCHANGED lock
       /\ UNCHANGED <<accounts, lastSub, rows, clock, job, minted>>

(* As if RevokeAll only deleted the refresh tokens. *)
RevokeRefreshOnly(r) ==
    /\ pc[r] = "rotate"
    /\ rows' = WithoutSub(job[r].sub)
    /\ Release(r)
    /\ Goto(r, "delete") \/ Finish(r, "error")
    /\ UNCHANGED <<accounts, lastSub, clock, job, minted>>

(* SetAccountAuthID, DeleteRefreshTokensBySub and the commit; a wait for   *)
(* token rows that a Revoke or a cleanup has locked is in RowLocks.        *)
RevokeCommit(r) ==
    LET s == job[r].sub
    IN /\ pc[r] = "rotate"
       /\ accounts' = [accounts EXCEPT ![s].authID = r]
       /\ rows' = WithoutSub(s)
       /\ Release(r)
       /\ Goto(r, "delete") \/ Finish(r, "error")
       /\ UNCHANGED <<lastSub, clock, job, minted>>

(* As if the account's refresh tokens did not go with it. *)
DeleteAccountOnly(r) ==
    /\ pc[r] = "delete"
    /\ Free(job[r].sub)
    /\ accounts' = [accounts EXCEPT ![job[r].sub] = None]
    /\ \E reply \in {"ok", "error"} : Finish(r, reply)
    /\ UNCHANGED <<lastSub, rows, lock, clock, job, minted>>

(* The DELETE on accounts is a statement of its own; its refresh tokens go *)
(* with it (ON DELETE CASCADE).  The waits for the rows the cascades reach *)
(* are in RowLocks.                                                        *)
DeleteAccount(r) ==
    LET s == job[r].sub
    IN /\ pc[r] = "delete"
       /\ Free(s)
       /\ accounts' = [accounts EXCEPT ![s] = None]
       /\ rows' = WithoutSub(s)
       /\ \E reply \in {"ok", "error"} : Finish(r, reply)
       /\ UNCHANGED <<lastSub, lock, clock, job, minted>>

-----------------------------------------------------------------------------
(* Revoke: DeleteRefreshTokenByHash as a single statement. *)
Revoke(r, h) ==
    /\ pc[r] = "idle"
    /\ Delivered(h)
    /\ ~Consumed(h)
    /\ rows' = [rows EXCEPT ![h] = None]
    /\ job' = [job EXCEPT ![r] = [NoJob EXCEPT !.op = "revoke", !.hash = h]]
    /\ \E reply \in {"ok", "error"} : Finish(r, reply)
    /\ UNCHANGED <<accounts, lastSub, lock, clock, minted>>

(* A statement fails, the client goes away or the server dies: the handler *)
(* stops where it is and an open transaction is rolled back.               *)
Abort(r) ==
    /\ pc[r] \in Working
    /\ Release(r)
    /\ Finish(r, "error")
    /\ UNCHANGED <<accounts, lastSub, rows, clock, job, minted>>

(* DeleteExpiredRefreshTokens: one bounded batch of expired rows.  Rows in *)
(* an open transaction are locked; the batch waits for them.               *)
Expired == {h \in Requests : rows[h] # None /\ rows[h].expiresAt <= clock}

DeleteExpiredRefreshTokens ==
    \E batch \in SUBSET {h \in Expired : ~Consumed(h)} :
        /\ batch # {}
        /\ rows' = [h \in Requests |-> IF h \in batch THEN None ELSE rows[h]]
        /\ UNCHANGED <<accounts, lastSub, lock, clock, pc, job, result, minted>>

Tick ==
    /\ clock < MaxTime
    /\ clock' = clock + 1
    /\ UNCHANGED <<accounts, lastSub, rows, lock, pc, job, result, minted>>

-----------------------------------------------------------------------------
(* A request that has arrived takes its next step. *)
Step(r) ==
    \/ IssueLock(r) \/ IssueCommit(r)
    \/ RefreshLock(r) \/ RefreshConsume(r) \/ RefreshCommit(r)
    \/ VerifyRead(r)
    \/ \E e \in Emails : ChangeEmail(r, e)
    \/ RevokeLock(r) \/ RevokeCommit(r) \/ DeleteAccount(r)

Arrive(r) ==
    \/ \E e \in Emails : EnsureAccount(r, e)
    \/ \E h \in Requests :
         \/ RefreshSelect(r, h)
         \/ \E op \in {"verify", "email", "delete"} : Present(r, h, op)
         \/ Revoke(r, h)

Next ==
    \/ \E r \in Requests : Arrive(r) \/ Step(r) \/ Abort(r)
    \/ DeleteExpiredRefreshTokens
    \/ Tick

Spec == Init /\ [][Next]_vars

-----------------------------------------------------------------------------
(* Properties. *)

(* Every refresh token in the database belongs to an existing account and  *)
(* to that account's current generation: no login or refresh that races    *)
(* RevokeAll or DELETE /account commits a session of the old generation.   *)
RowsCurrent ==
    \A h \in Requests : rows[h] # None => Current(rows[h].sub, rows[h].authID)

(* A login leads to one chain of refresh tokens, never to two live ones,   *)
(* however often and however concurrently its tokens are presented.        *)
NoForkedSession ==
    \A g, h \in Requests :
        (rows[g] # None /\ rows[h] # None /\ minted[g].root = minted[h].root) => g = h

(* A live session is in the account of the mailbox that its login proved,  *)
(* or of a mailbox that an authenticated request has moved that account to *)
(* since: although the account is looked up in one transaction and the     *)
(* session issued, by number, in another (auth.go:137 and :177).           *)
MovedTo(s) == {job[r].email : r \in {q \in Requests : job[q].op = "email" /\ job[q].sub = s}}

SessionOwner ==
    \A h \in Requests : rows[h] # None =>
        accounts[rows[h].sub].email
            \in {job[minted[h].root].email} \cup MovedTo(rows[h].sub)

(* A request is authenticated only if its access token was not revoked     *)
(* when the request arrived; a revocation that was committed before the    *)
(* request started is never missed.                                        *)
VerifiedWasLive ==
    \A r \in Requests :
        (job[r].op \in {"verify", "email", "delete"}
           /\ (result[r] = "ok" \/ pc[r] \in {"rename", "revoke", "rotate", "delete"}))
        => job[r].live

(* After a 204 from DELETE /account the account, its refresh tokens and    *)
(* every access token ever signed for it are gone, and stay gone.          *)
DeletedMeansGone ==
    \A r \in Requests : (job[r].op = "delete" /\ result[r] = "ok") =>
        /\ ~Exists(job[r].sub)
        /\ \A h \in Requests : rows[h] # None => rows[h].sub # job[r].sub
        /\ \A h \in Requests :
             (minted[h] # None /\ minted[h].sub = job[r].sub) => ~Usable(h)

(* RevokeAll ends, at its commit, every access token signed until then for *)
(* the account, and a token once ended is never usable again.              *)
StayDead ==
    \A h \in Requests :
       (/\ minted[h] # None
        /\ \/ ~Usable(h)
           \/ \E r \in Requests : /\ pc[r] = "rotate" /\ pc'[r] = "delete"
                                  /\ job[r].sub = minted[h].sub)
       => ~Usable(h)'

RevokedStayDead == [][StayDead]_vars

(* A session is never lost by accident: its refresh token disappears only  *)
(* when it expired, was revoked, its account's sessions were revoked or    *)
(* deleted, or a refresh puts its only successor in its place.  A refresh  *)
(* that is refused or fails leaves it as it was.                           *)
NotLost ==
    \A h \in Requests : (rows[h] # None /\ rows'[h] = None) =>
       \/ rows[h].expiresAt <= clock
       \/ \E r \in Requests : pc[r] = "idle" /\ job'[r].op = "revoke" /\ job'[r].hash = h
       \/ \E r \in Requests : pc[r] \in {"rotate", "delete"} /\ pc'[r] # pc[r]
                               /\ job[r].sub = rows[h].sub
       \/ \E r \in Requests : rows[r] = None /\ rows'[r] # None
                               /\ minted'[r].root = minted[h].root

SessionsNotLost == [][NotLost]_vars

(* A refresh that waits for the account or for its token's row is late     *)
(* when the token has expired or is gone; it has not signed anything.      *)
Late(r) ==
    /\ pc[r] \in {"lock", "consume"}
    /\ minted[r] = None
    /\ rows[job[r].hash] # None => rows[job[r].hash].expiresAt <= clock

(* A late refresh stays late, whatever the others do, until it is answered *)
(* without a session (authenticator.go:107-110): its token may expire      *)
(* between the two looks at it, while it waits for a lock.                 *)
RefusedIfLate ==
    \A r \in Requests :
        Late(r) => Late(r)' \/ (pc'[r] = "done" /\ minted'[r] = None)

LateRefreshRefused == [][RefusedIfLate]_vars

-----------------------------------------------------------------------------
(* The contract, with authIDs, locks and transactions abstracted away. *)
OwnerBar  == [s \in Subs |-> IF Exists(s) THEN accounts[s].email ELSE None]
LiveBar   == [h \in Requests |->
                IF rows[h] = None THEN None
                ELSE [sub |-> rows[h].sub, root |-> minted[h].root]]
IssuedBar == [h \in Requests |-> IF minted[h] = None THEN None ELSE minted[h].sub]
ValidBar  == {h \in Requests : minted[h] # None /\ Usable(h)}

Contract == INSTANCE SessionContract WITH
    owner <- OwnerBar, live <- LiveBar, issued <- IssuedBar, valid <- ValidBar

(* Every behaviour of the code's transactions is one of the contract.      *)
ImplementsContract == Contract!Spec
=============================================================================
