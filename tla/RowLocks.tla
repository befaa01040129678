------------------------------- MODULE RowLocks -------------------------------
(***************************************************************************)
(* Who waits for whom in the database: the transactions, and the single    *)
(* statements, by which handlers and maintenance lock rows that others     *)
(* lock too.  Each is the rows it locks, in the order it locks them, on    *)
(* one connection of the pool.  Locks are kept until the transaction ends, *)
(* so two transactions that lock the same rows in opposite orders can come *)
(* to wait for each other; the database then fails one of them.            *)
(*                                                                         *)
(* The order of the statements is the code's.  The order in which one      *)
(* statement locks its rows is the database's (the plan of a scan, the     *)
(* order of cascades, a foreign key looked up before or after the write)   *)
(* and is left open.  A row that turns out not to exist is one of the      *)
(* reasons to fail: in a statement of one row it ends the transaction, in  *)
(* one of several rows it only makes fewer wait.  SQLite locks no rows and *)
(* has one connection, so there everybody waits for that.                  *)
(*                                                                         *)
(* Left out: statements that lock nothing; TakeRateLimit and its cleanup,  *)
(* whose transactions lock buckets and nothing else; and MySQL's locks on  *)
(* the gaps between rows.                                                  *)
(***************************************************************************)
EXTENDS Integers, FiniteSets, Sequences

CONSTANTS Requests,   \* requests and maintenance batches, each run once
          Subs,       \* accounts
          Emails,     \* mailboxes
          Tokens,     \* refresh tokens
          Owner,      \* Owner[h]: the account of token h
          PoolSizes,  \* connections the pool may have: 1 for SQLite
          None        \* "no row"

ASSUME OwnerAssumption == Owner \in [Tokens -> Subs]
ASSUME PoolAssumption  == PoolSizes \subseteq Nat \ {0}

VARIABLES
    conns,  \* the size of the pool, which never changes
    busy,   \* who has a connection
    phase,  \* where a request is
    todo,   \* the transactions it has still to run, the current one first
    want,   \* the row it waits for
    held    \* the rows it has locked

vars == <<conns, busy, phase, todo, want, held>>

-----------------------------------------------------------------------------
(* The rows, and what the transactions lock. *)

AccountRow(s) == <<"accounts", s>>
ChangeRow(s)  == <<"account_email_change_requests", s>>
CodeRow(e)    == <<"account_login_requests", e>>
TokenRow(h)   == <<"refresh_tokens", h>>

(* The entry of the unique index on accounts.email: who writes an address  *)
(* waits for the transaction that is writing or freeing the same one.      *)
Mailbox(e) == <<"email", e>>

TokenRows(s) == {TokenRow(h) : h \in {t \in Tokens : Owner[t] = s}}

Rows == {AccountRow(s) : s \in Subs} \cup {ChangeRow(s) : s \in Subs}
        \cup {CodeRow(e) : e \in Emails} \cup {Mailbox(e) : e \in Emails}
        \cup {TokenRow(h) : h \in Tokens}

(* A transaction: its statements in order, each the set of rows it locks.  *)
Tx(name, statements) ==
    [name |-> name, locks |-> SelectSeq(statements, LAMBDA rows : rows # {})]

(* The refresh token it inserts is not seen by others before the commit.   *)
Issue(s) == Tx("issue", <<{AccountRow(s)}>>)

(* As if the token were consumed before its account is locked. *)
TokenFirst(h) == Tx("refresh", <<{TokenRow(h)}, {AccountRow(Owner[h])}>>)

Refresh(h) == Tx("refresh", <<{AccountRow(Owner[h])}, {TokenRow(h)}>>)

Revoke(h) == Tx("revoke", <<{TokenRow(h)}>>)

RevokeAll(s) == Tx("revokeAll", <<{AccountRow(s)}, TokenRows(s)>>)

(* ConsumeAccountLoginRequest, then EnsureAccountByEmail, which finds or   *)
(* inserts the account; its role is assigned under the same lock.          *)
Login(e, s) == Tx("login", <<{CodeRow(e)}, {Mailbox(e), AccountRow(s)}>>)

(* DELETE FROM accounts, of an account with mailbox e, and its cascades.   *)
DeleteAccount(s, e) ==
    Tx("delete", <<{AccountRow(s)}, {ChangeRow(s), Mailbox(e)} \cup TokenRows(s)>>)

(* ConsumeAccountEmailChangeRequest, then UpdateAccountEmail, from one of  *)
(* two mailboxes to the other.                                             *)
ConfirmChange(s, moved) ==
    Tx("confirm", <<{ChangeRow(s)}, {AccountRow(s)}, {Mailbox(e) : e \in moved}>>)

(* The upserts that save a code; that of a change of mailbox has a foreign *)
(* key to the account.                                                     *)
RequestChange(s) == Tx("request", <<{ChangeRow(s), AccountRow(s)}>>)
RequestLogin(e)  == Tx("code", <<{CodeRow(e)}>>)

(* One table's batch. *)
CleanUp(rows) == Tx("cleanup", <<rows>>)

(* The three tables' batches, each a transaction of its own. *)
DeleteExpiredRecords ==
    <<CleanUp({CodeRow(e) : e \in Emails}),
      CleanUp({ChangeRow(s) : s \in Subs}),
      CleanUp({TokenRow(h) : h \in Tokens})>>

(* The transactions of every handler, in order. *)
Handlers ==
    {<<RequestLogin(e)>> : e \in Emails}
    \cup {<<Login(e, s), Issue(s)>> : e \in Emails, s \in Subs}
    \cup {<<Refresh(h)>> : h \in Tokens}
    \cup {<<Revoke(h)>> : h \in Tokens}
    \cup {<<RevokeAll(s), DeleteAccount(s, e)>> : s \in Subs, e \in Emails}
    \cup {<<RequestChange(s)>> : s \in Subs}
    \cup {<<ConfirmChange(s, moved)>> :
            s \in Subs, moved \in {m \in SUBSET Emails : Cardinality(m) = 2}}
    \cup {DeleteExpiredRecords}

Current(r) == IF todo[r] = <<>> THEN Tx("none", <<>>) ELSE Head(todo[r])

-----------------------------------------------------------------------------
(* The database's locks. *)

(* Two foreign keys look up one account without waiting for each other.    *)
Shared(q, r, row) ==
    /\ Current(q).name = "request" /\ Current(r).name = "request"
    /\ row \in {AccountRow(s) : s \in Subs}

Blocks(q, r, row) == q # r /\ row \in held[q] /\ ~Shared(q, r, row)

Free(r, row) == \A q \in Requests : ~Blocks(q, r, row)

Waits(r, q) == want[r] # None /\ Blocks(q, r, want[r])

(* Every one of S waits for another of S. *)
Stuck(S) == S # {} /\ \A r \in S : \E q \in S : Waits(r, q)

(* ... and none of S is there only because it waits for a smaller circle.  *)
Circle(S) == Stuck(S) /\ \A T \in SUBSET S : Stuck(T) => T = S

-----------------------------------------------------------------------------
Init ==
    /\ conns \in PoolSizes
    /\ busy = {}
    /\ phase = [r \in Requests |-> "idle"]
    /\ todo = [r \in Requests |-> <<>>]
    /\ want = [r \in Requests |-> None]
    /\ held = [r \in Requests |-> {}]

Arrive(r) ==
    /\ phase[r] = "idle"
    /\ phase' = [phase EXCEPT ![r] = "working"]
    /\ \E transactions \in Handlers : todo' = [todo EXCEPT ![r] = transactions]
    /\ UNCHANGED <<conns, busy, want, held>>

(* BeginTx, or a statement of its own, takes a connection of the pool.     *)
Begin(r) ==
    /\ phase[r] = "working" /\ r \notin busy
    /\ Cardinality(busy) < conns
    /\ busy' = busy \cup {r}
    /\ UNCHANGED <<conns, phase, todo, want, held>>

(* As if a statement in a transaction took a connection of its own. *)
SecondConnection(r) == r \in busy /\ Cardinality(busy) < conns

(* The querier that WithTx hands out has the transaction's connection.     *)
Connected(r) == r \in busy

(* What the statements have still to lock, but for one row of the first.   *)
Without(statements, row) ==
    LET rest == Head(statements) \ {row}
    IN (IF rest = {} THEN <<>> ELSE <<rest>>) \o Tail(statements)

(* The current statement comes to one more of its rows: locks it or waits. *)
Reach(r) ==
    /\ Connected(r) /\ want[r] = None /\ Current(r).locks # <<>>
    /\ \E row \in Head(Current(r).locks) :
          /\ todo' = [todo EXCEPT ![r][1].locks = Without(@, row)]
          /\ \/ /\ Free(r, row)
                /\ held' = [held EXCEPT ![r] = @ \cup {row}]
                /\ UNCHANGED want
             \/ /\ ~Free(r, row)
                /\ want' = [want EXCEPT ![r] = row]
                /\ UNCHANGED held
    /\ UNCHANGED <<conns, busy, phase>>

(* The wait is over. *)
Granted(r) ==
    /\ want[r] # None /\ Free(r, want[r])
    /\ held' = [held EXCEPT ![r] = @ \cup {want[r]}]
    /\ want' = [want EXCEPT ![r] = None]
    /\ UNCHANGED <<conns, busy, phase, todo>>

(* The transaction ends: its locks are free, its connection goes back.     *)
End(r) ==
    /\ busy' = busy \ {r}
    /\ held' = [held EXCEPT ![r] = {}]

(* As if an early return left the transaction open. *)
LeftOpen(r) == UNCHANGED <<busy, held>>

(* The deferred Rollback. *)
Rollback(r) == End(r)

(* The handler goes on with `rest`, or answers. *)
Proceed(r, rest) ==
    /\ todo' = [todo EXCEPT ![r] = rest]
    /\ phase' = [phase EXCEPT ![r] = IF rest = <<>> THEN "done" ELSE "working"]
    /\ want' = [want EXCEPT ![r] = None]
    /\ UNCHANGED conns

Commit(r) ==
    /\ phase[r] = "working" /\ r \in busy
    /\ want[r] = None /\ Current(r).locks = <<>>
    /\ End(r)
    /\ Proceed(r, Tail(todo[r]))

(* RevokeAll finds no account, and takes that for success. *)
NotFound(r) ==
    /\ r \in busy /\ Current(r).name = "revokeAll"
    /\ want[r] = None /\ held[r] = {}
    /\ End(r)
    /\ Proceed(r, Tail(todo[r]))

(* A row is not there, a check refuses, the context is canceled, the       *)
(* database fails or breaks a circle.  The handler answers; the batches of *)
(* the other tables are still run.                                         *)
Fail(r) ==
    /\ phase[r] = "working" /\ r \in busy
    /\ Rollback(r)
    /\ Proceed(r, IF Current(r).name = "cleanup" THEN Tail(todo[r]) ELSE <<>>)

(* What a request does when nobody fails it. *)
Work(r) == Begin(r) \/ Reach(r) \/ Granted(r) \/ Commit(r) \/ NotFound(r)

Next == \E r \in Requests : Arrive(r) \/ Work(r) \/ Fail(r)

Spec == Init /\ [][Next]_vars

-----------------------------------------------------------------------------
SessionTx == {"issue", "refresh", "revoke", "revokeAll"}

(* Requests that wait for each other in a circle are never there because   *)
(* of a login's session, a refresh or a revocation: those lock the account *)
(* first (authenticator.go:85, database.go:44-46), and stand in a circle   *)
(* only with a batch of cleanup, which locks many tokens in an order of    *)
(* its own.  All other circles need a confirmation, which locks the        *)
(* request of the change before the account (account.go:222-227), or the   *)
(* DELETE, which locks the account before what cascades (account.go:87).   *)
SessionsInOrder ==
    \A S \in SUBSET Requests :
        Circle(S) =>
            LET names == {Current(r).name : r \in S}
            IN \/ "cleanup" \in names
               \/ /\ names \cap SessionTx = {}
                  /\ names \cap {"confirm", "delete"} # {}

Working == {r \in Requests : phase[r] = "working"}

(* As long as requests are not answered one of them can go on, or some of  *)
(* them wait in a circle of locks, which the database breaks: nobody waits *)
(* for a connection or for a row that its owner will never give back, be   *)
(* it because a transaction was left open or because a transaction asks    *)
(* the pool, which may have one connection, for a second one.              *)
NobodyHangs ==
    Working # {} =>
        \/ \E r \in Working : ENABLED Work(r)
        \/ \E S \in SUBSET Working : Circle(S)
=============================================================================
