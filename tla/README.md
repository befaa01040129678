# A formal model of go-kickstart

This directory specifies the parts of go-kickstart in which the order of steps
matters: sessions and account lifecycle, one-time codes and their budgets, the
way of a request through middleware and handler to its response, the account
cache and the in-memory store behind it, the life of the server process, and
opening and migrating its database. The specifications are TLA+ modules; TLC
checks them on small instances, and for all but `RowLocks` TLAPS proves their safety for
every value of the constants. Paths below are relative to `src/`.

Each module states, in comments, what its variables and actions stand for; this
file says how the parts fit together, what is assumed, what was shown and what
was not. `PROJECT.json` has the same as data: components, runs, mutations of the
model that each property must detect, the source lines of every definition,
hazards and theorems.

- [Inventory](#inventory)
- [Modules and plan](#modules-and-plan)
- [From code to actions](#from-code-to-actions)
- [Runs, bounds and fairness](#runs-bounds-and-fairness)
- [Proofs](#proofs)
- [Finding](#finding)
- [What is not modelled](#what-is-not-modelled)

## Inventory

The program is one HTTP server over one SQL database (SQLite, PostgreSQL or
MySQL), of which several processes may run against PostgreSQL and MySQL. All
durable state is in the database; the rest is a cache, the maintenance goroutine
and whatever a handler has in its local variables.

| Component | State | Operations | Used by |
|---|---|---|---|
| session authority, `auth/authenticator.go`, `claims.go` | tables `accounts` (auth id) and `refresh_tokens` | Issue, Refresh, Verify, Revoke, RevokeAll | handlers, middleware |
| accounts and handlers, `handlers/auth.go`, `account.go` | table `accounts`, its high-water mark of account numbers | login, refresh, account read, change of mailbox, deletion | clients |
| one-time codes, `handlers/otp.go`, `mail.go` | tables `account_login_requests`, `account_email_change_requests` | request, mail, confirm | the account handlers |
| rate limits, `TakeRateLimit` | table `rate_limits` | take from a bucket | the code handlers |
| account cache, `database/cached` | generations of shards, entries in a store | read through, invalidate | all account reads but those of `Verify` |
| in-memory store, `cache/memory` | map, list, byte count, cleaner goroutine | Set, Get, Delete, Close | account cache |
| server lifecycle, `cmd/server.go`, `http.go`, `maintenance.go` | goroutines, channels, contexts | start, serve, shut down, maintain, close | process |
| database connections, `database/provider`, `*/sqlite.go`, `postgres.go`, `mysql.go`, `sqlite/storage.go` | a pool of connections; the files of SQLite | Open, Querier, WithTx, Close | handlers, maintenance |
| migration runners, `database/*/migrations.go` | `schema_migrations`, `schema_migration_pending`, a database lock | run at start | Open |
| roles and permissions, `middleware/authentication.go` | tables `account_roles`, `role_permissions` | assign at login, look up | login, middleware |
| routing and responses, `handlers/handler.go`, `routing.go`, `internal/httpx`, `middleware/request_logger.go` | the state of two response writers | match, decode, answer, log | every request |
| command line, configuration | none after start | parse | process |
| page, static files, translations | none | render | clients |
| mail delivery | external | send | one-time codes |

How they interact. A handler runs a few statements, each a transaction of its
own or part of one opened with `WithTx`; between two statements every other
request, another process, the maintenance goroutine and the clock may act.
`SelectAccountAuthID`, used by `Verify`, always goes to the database; other
account reads go through the cache, which writers invalidate after they
committed. The maintenance goroutine removes expired rows in bounded batches
while requests use the same tables.

What makes them hard, and what each has to keep:

- **Sessions.** `Refresh` looks at the token before its transaction; login
  resolves the account in one transaction and issues the session in another;
  deletion revokes in one and deletes in the next; any of them can stop half way,
  and a commit can take effect although an error is returned. Yet no session may
  survive a revocation or deletion, fork, move to another account or get lost.
- **Codes.** Confirmations race each other, replacements, expiry and deletion; a
  mail can be delivered although sending failed. A code may work once only, only
  for the purpose and identity it was made for, and must not be used up by an
  attempt that fails.
- **Rate limits.** Statements come some time after the clock was read; rows are
  removed and re-created. A window must not grant more than its limit, nor
  refuse before.
- **Cache.** A read that loaded a row before a write must not put it into the
  cache after the write was invalidated; shards collide; stores lose entries.
- **In-memory store.** Two structures and a count that must agree; limits that
  take several evictions; expiry that only looks at the front of a list.
- **Codes and budgets together.** How often an identity's codes can be guessed
  depends on windows, on codes that are replaced or used up, on cleanups and on
  clocks read earlier; so does the last moment at which a code is accepted.
- **Requests.** A token is verified in one statement, a permission looked up in
  the next, and the handler's work done in later ones, while accounts are deleted
  and roles withdrawn. Every early return has to answer once and to leave what
  its answer implies; two writers wrapped around the response must agree.
- **Process.** Starting may fail at any step with some things opened. A signal,
  the failure of the listener, the shutdown deadline, slow handlers and a
  maintenance batch come in any order, and the database is to be closed last.
  All of them share a pool that with SQLite has one connection.
- **Opening and migrations.** Several processes of different builds start at
  once, on files that others create, inspect and open; MySQL commits every DDL
  statement, and its session may outlive the process.

The list of hazards in `PROJECT.json` names the line at which each of these bites
and the properties aimed at it.

## Modules and plan

| Module | Models | Checked by | Proofs |
|---|---|---|---|
| `Sessions` | session authority, and the handlers that change accounts | `MCSessions` | `SessionsProofs` |
| `SessionContract` | what `Sessions` promises, each operation a single step | by refinement, in `MCSessions` | in `SessionsProofs` |
| `RowLocks` | which rows and connections the transactions of all handlers wait for | `MCRowLocks` | |
| `Challenges` | one-time codes with the accounts they act on | `MCChallenges` | `ChallengesProofs` |
| `FixedWindow` | the arithmetic of a row of `rate_limits` | in the next two | in `RateLimitsProofs`, `CodeAttemptsProofs` |
| `RateLimits` | `TakeRateLimit` and the budgets of a request | `MCRateLimits` | `RateLimitsProofs` |
| `CodeAttempts` | budgets, code and clock of one identity, together | `MCCodeAttempts` | `CodeAttemptsProofs` |
| `Requests` | every route from router to response, with roles and permissions | `MCRequests` | `RequestsProofs` |
| `CachedAccounts` | the account cache | `MCCachedAccounts` | `AccountCacheProofs` |
| `MemoryStore` | the in-memory store | `MCMemoryStore` | `AccountCacheProofs` |
| `ServerLifecycle` | the process from start to end, with the pool of connections | `MCServerLifecycle` | `StartupProofs` |
| `MySQLMigrations` | the MySQL runner | `MCMySQLMigrations` | `MySQLMigrationsProofs` |
| `TxMigrations` | the SQLite and PostgreSQL runners | in `MCOpenDatabase` | `StartupProofs` |
| `OpenDatabase` | `provider.Open`: SQLite's storage checks, then `TxMigrations` | `MCOpenDatabase` | `StartupProofs` |

`Sessions` and `SessionContract` are the core: the account and refresh-token
statements, the authority and the handlers are one module because none of its
properties belongs to one of them alone. `Challenges` shares with it the accounts
table; each module abstracts from what the other does in detail (`Sessions`
begins a login with the code already consumed, `Challenges` ends it with the
account resolved), so that each fits a model checker. `CodeAttempts` composes what
`RateLimits` and `Challenges` say of one identity, `OpenDatabase` extends
`TxMigrations`, and `Requests` has every handler as a sequence of gates and notes
what each changed without saying how, which is the subject of the other modules.
`RowLocks` is the reverse: every transaction of these handlers and of maintenance,
but only who waits for whom in it.

An operator whose comment starts with "As if" is not part of a specification. It
is a plausible mistake in the operator that follows it, kept to show that a
property notices it. `PROJECT.json` names one for each property; `LeftOpen` of
`RowLocks` and `ReleaseLeaks` of `ServerLifecycle` are a second for `NobodyHangs` and
`StopsEventually`.

The plan was worked through in the order of what matters most: `Sessions` and
`SessionContract`, `Challenges`, `CachedAccounts`, the rate limits, the process and its
migrations, `Requests`, `RowLocks`; each first modelled and checked, then, except
`RowLocks`, proved. Every safety property of every other passing run is by now also a
theorem. What a next step would take up is named where it is left out, in the last
two sections.

`ServerLifecycle` and `MemoryStore` give names of their own to their specification
(`ServerSpec`, `StoreSpec`) so that one proof module can extend two components:
what a process does up to its end (`StartupProofs`), and the account cache with the
store below it (`AccountCacheProofs`).

## From code to actions

Conventions shared by the modules:

- A step is what the database or a mutex makes atomic: a statement outside a
  transaction, or a statement inside one that can wait. What a transaction
  writes is private until it commits, so its writes appear in the action that
  commits; the row locks it takes on the way appear where it takes them.
- A commit, or a statement, may take effect although its caller gets an error: a
  reply is `"ok"` or `"error"` after it took effect. `Abort`, `Fail` or
  `Rollback` is the other case: nothing took effect.
- Crashes need no action of their own where everything that survives is in the
  database: a dead process is a handler that was aborted.
- History variables (marked "history") are read by properties only.

**`Sessions`.** A request draws at most one auth id and one refresh token, so
both are named by the request; that random values do not repeat is an assumption
of the model. Login: `EnsureAccount` (the upsert of `EnsureAccountByEmail`),
`IssueLock`, `IssueCommit`. Refresh: `RefreshSelect` outside the transaction,
`RefreshLock`, `RefreshConsume`, `RefreshCommit`. An authenticated request:
`Present` (signature and expiry), `VerifyRead` (the auth id of the database),
then `ChangeEmail`, or `RevokeLock`, `RevokeCommit` and `DeleteAccount`, or
nothing more. `Revoke`, the revocation of a single token, is a method of the
authority that no route calls at present. `DeleteExpiredRefreshTokens` and
`Tick` are maintenance and time. Row locks are `lock` (accounts) and
`Consumed` (refresh tokens), as far as they decide what a transaction sees; the
waits of `ChangeEmail`, `DeleteAccount` and `RevokeCommit` for further rows delay
their one step, and who can be stuck in them is a question for `RowLocks`. SQLite,
with its single writer, has fewer interleavings than that, never more. `ChangeEmail`
may be refused without a reason
in the model, which stands for a wrong code and a missing permission. A lifetime
of zero, by which refresh tokens never expire, is left out.

**`SessionContract`.** The same operations, each one step, on four variables:
who owns an account, which refresh tokens are live and in whose session, which
access tokens were issued and which are valid. `Sessions!Contract` maps the
tables to it.

**`RowLocks`.** A transaction is the sequence of its statements, each the set of rows
it locks: the code fixes the order of the statements (`Refresh` the account, then
the token; `ConfirmChange` the request of the change, then the account, then the
two mailboxes), while the order inside a statement (the plan of a scan, cascades,
foreign keys) is the database's and left open. A request runs the transactions of
one of the `Handlers`, each on a connection of the pool: `Begin`, then `Reach` for one
row after another, which is locked or waited for (`Granted`), then `Commit`; `Fail` is a
row that is missing, a refusal, a canceled context, or the database that breaks a
circle of waiting transactions. What the transactions write is left out. Assumed of
the database: a lock is kept until the transaction ends, two foreign keys do not
wait for each other on one account (`Shared`), and a circle of waiting transactions
is found and one of them failed. The last is what PostgreSQL and MySQL do, and the
code answers it as any other error, with 500. SQLite has one connection and no row
locks; with one connection the model has no waits for rows either.

**`Challenges`.** Identities are mailboxes (login) and account numbers (change of
mailbox), each with a row at most. `RequestLogin` and `RequestEmailChange` draw a
code, `Save` upserts it, `Send` mails it; `Present` and `Consume` take it back,
and `ApplyLogin` or `ApplyChange` commits or rolls back the transaction in which
it was consumed. A code is bound to its identity by `signOTP`, a keyed hash,
which the model takes for injective. The clock was read before the first
statement, so a code that expires meanwhile is still accepted (`job.late`).

**`RateLimits`.** `Clean` and `Take` are the two statements of `TakeRateLimit`,
repeated for the buckets that `allowOTPIssuance` and `allowOTPVerification` name.
`Lag` bounds the time from reading the clock to the statements: the code has no
such bound but the lifetime of a request; without any, a request that slept
through a window could reopen it at once, and the property says by how much.

**`CodeAttempts`.** One identity, a mailbox or an account number; the others have
rows of their own. A request charges the two budgets of issuing and then draws
and saves a code, or charges the budget of verifying and then, in a transaction,
tries to consume the code; it reads the clock where the handler does: before each
`TakeRateLimit`, for the expiry of the code, and inside the transaction before
the consuming statement. Cleanup and upsert are one step, since a cleanup by
itself is a step of `Maintain`. `Lag` bounds a request from its first reading of
the clock to its end, and has to be shorter than the window.

**`Requests`.** A route is a sequence of gates (`Plans`): the bearer token, the
permission, the body, the account, budgets, the statements. A gate passes, which
enables the next, or stops, which answers with one of the statuses of its early
returns. `did[r]` records what took effect, `seen[r]` what held at some time since
the request arrived. A response goes through `routingErrorWriter` (`RouteHeader`,
`RouteWrite`), `statusWriter` (`LogHeader`, `LogWrite`) and the writer of
`net/http`, each of which may drop, replace or add to it. An operator may change
roles and permissions at any time (`Administer`). The generation of an account
stands for its auth id; that a token may have expired is a choice of `Bearer`.
Requests of clients that left are answered in the model too, except that a page
may then break off; a panic in a handler is not modelled.

**`CachedAccounts`.** A row is the number of committed writes to it. `Lookup`,
`Load` and `Fill` are `readThrough` between its lock regions; `Write`, `Bump` (the
generation, under the lock), `Drop` (the old entry, outside it) and `Ack` are a
write and its invalidation. `UncoordinatedWrite` is a write by another process,
or one that failed after it took effect. An entry may disappear at any time, and
the store may refuse one.

**`MemoryStore`.** Every method holds the mutex throughout, so it is one step.
`items` (map), `order` (list) and `bytes` are separate variables. Everything that
`remove` is called for is a stretch of the list, so `Remove(s, i, j)` is any number of
its calls in a row: `deleteExpired` and the eviction loop from the front, `Without` at
the place of one key. Calls that fail validation change nothing and are left out, as
is the copying of buffers.

**`ServerLifecycle`.** The main goroutine through `runServer`, `serveHTTP` and the
deferred calls, one label per call that blocks, fails or opens something; the
goroutine of `Serve`; handlers; the maintenance goroutine. `StartFails` is any of
the steps before the listener that return an error, a refused configuration
among them. A handler asks the pool for a connection (`Ask`, `Acquire`), keeps it
for a statement or for the whole of `WithTx`, and gives it back (`Release`). The
maintenance batch takes one too. That whoever has a connection comes to give it
back, though it may wait for rows and a second connection may not be had, is
checked in `RowLocks`.
`Close` is that of `database/sql`, which does not wait for connections in use, or
that of pgxpool, which does. A signal before `NotifyContext` or after `stop` ends
the process (`Kill`). What `net/http` promises of `Serve`, `Shutdown` and `Close`
is modelled from its use here.

**`MySQLMigrations`.** A runner takes `GET_LOCK`, refuses to go on if a marker is
set, reads the version, and for each newer migration commits the marker, executes
its statements one by one, then records version and absence of the marker in one
transaction. `Leave` models that the database session, and with it the lock, may
outlive the runner; such a session goes on with the statements it has
(`Statement` with `pc[r] = "failed"`). `Repair` is the operator who
undoes or completes the marked migration when no session is at work, as the
runner's error message demands; it is external.

**`OpenDatabase`.** A process on SQLite creates the file unless it is there
(`Create`, by `O_EXCL`), looks at the file and its three side files with an
`Lstat` each (`Inspect`), connects and migrates. The files start in any
combination of absent, private and unsafe, and SQLite makes and removes side
files while a process works with the database (`Journal`). On PostgreSQL, or with
a VFS of its own, a process begins with the migrations. Only the permissions of
files the program or SQLite makes are modelled; a user who changes them while
servers start is not.

**`TxMigrations`.** The same as MySQL's runner with one transaction around
everything, and the lock taken before the version is read. Both modules assume that a build contains
every migration older than its newest (`PlansAssumption`). The code does not check
that; a migration merged below the recorded version would be skipped.

## Runs, bounds and fairness

| Run | Bounds | Distinct states | Shows |
|---|---|---|---|
| `sessions` | 4 requests, 2 mailboxes, 2 account numbers, refresh tokens live 2 clock units and access tokens 1, clock to 2 | 1119543 | rows are of the current generation; sessions do not fork; access tokens that were revoked do not authenticate, for ever; deletion is complete; sessions have their owner and are not lost; a refresh that comes too late gets none; `SessionContract` is implemented |
| `row_locks` | 3 requests, 2 accounts, 2 mailboxes, 2 tokens of one account, pools of 1, 2 and 3 connections | 1101149 | logins, refreshes and revocations are in no circle of waits but with a cleanup batch; whoever is not answered can go on, or waits in a circle that the database breaks |
| `cached_accounts` | 2 accounts in one shard, 1 reader that reads again and again, 2 writers, 1 write each | 138933 | reads are fresh, also with collisions and transactions over both accounts; writes behind the wrapper's back become visible |
| `rate_limits` | 2 requests at a time, buckets of 1 in 2 and 2 in 3 seconds, lag 1, clock to 5 | 276880 | budgets hold, windows are apart, refusals are earned and their Retry-After is bounded |
| `code_attempts` | 2 requests at a time, 2 tries in 3 seconds, codes that live 3, lag 1, clock to 5 | 3259653 | tries stay within the windows' budgets, whatever becomes of codes; none is accepted later than a request may last |
| `challenges` | an empty database and 4 requests, or two accounts and 3 more requests; 2 mailboxes, 2 account numbers | 1721146 | mailboxes are proven, mailed codes usable, used codes dead, codes not lost when changes of mailbox collide |
| `memory_store` | 3 keys, 2 lengths, 2 entries or 4 bytes, 4 Sets, 2 callers of Close | 89077 | structures agree, limits hold, Gets are current, evictions needed; expired entries go, Close returns |
| `lifecycle` | 3 handlers, 1 connection | 21966 | database closed after maintenance and cache after the database, nothing left open; the result is true; the process ends |
| `lifecycle_drains` | 2 handlers, 1 connection | | a violation: the finding below |
| `mysql_migrations` | 4 servers of 2 builds, 3 migrations of 2 statements | 23856 | bookkeeping true, servers start migrated, statements in order and once |
| `tx_migrations` | 3 servers of 2 builds, 3 migrations, 4 files | 3344052 | bookkeeping true, servers start migrated; no unsafe file is used and none is blamed for another server's work |
| `requests` | 2 requests, 2 account numbers, 2 roles, from an empty database or one with an account | 933704 | one response, logged as sent; nothing is done without token and permission; answers tell what was done |

Why the bounds are enough to meet the cases. In `Sessions` an incident needs a
login, something that races it or its refresh (a deletion or a refresh), and a
second login or refresh that meets what is left: three or four requests. Two
account numbers let a mailbox come back under another number after a deletion,
two mailboxes let an account change hands. Time needs one step past each lifetime.
In `Challenges` four requests make two codes and two confirmations; collisions of
changes of mailbox need two accounts first, hence the second start, a reachable
state (`Seeded`) with two. In `CachedAccounts` a slow reader and two writers whose
invalidations overlap meet the races of a shard; the proof of `ReadFresh` covers
any number. In `CodeAttempts` five seconds have room for two windows and part of a
third, with a code that survives from one into the next; in `Requests` one request
acts while the other takes away what it stands on, and the tables move by
`Administer` as well. One connection is the pool that SQLite has and the hardest
to share; larger pools are covered by the proofs. In `RowLocks` three requests have
room for a circle of two and one that waits outside it, and for circles of three; a
fourth connection makes no difference to them. Met in the run are circles of a
confirmation with a deletion (the request of the change and the account, in opposite
orders), with an upsert of that request, with another confirmation (two accounts that
swap mailboxes), of a deletion with a login (the account and its address), and of a
cleanup batch with the end of all sessions or with another batch. In `MemoryStore` an insertion that
evicts two entries is the largest step that limits of two force; the proofs cover
any limits. Four servers of two builds let one fail, one take over, one come late
and one be older; with the files of SQLite three have to do.

Every configuration says `CHECK_DEADLOCK FALSE`: requests, servers and clocks are
bounded, so the systems do stop. Where stopping would be a fault a liveness
property says so. Symmetry is used with safety properties only, and over values
that the module treats alike (`MCMySQLMigrations` and `MCOpenDatabase` leave out
the distinguished one).

Fairness. `CachedAccounts`: reads that started go on, and entries expire.
`MemoryStore`: the ticker ticks, and ready receives proceed.
`ServerLifecycle`: goroutines run, the deadline of five seconds fires, `Accept`
fails once its listener is closed, and the database answers a statement or ends a
transaction (weak fairness of `Release`). Nothing is assumed of signals, of the steps of
starting and of what handlers do between statements, so a handler may run for
ever; a client that leaves (`GiveUp`) is not relied on, except that waiting ends
with an error once the pool is closed.

`RowLocks` needs no fairness. Its property is about every state: while requests are
not answered one of them can go on, or some of them wait in a circle. As each request
has a few transactions of a few rows, none of which it takes twice, it follows that
requests end if whoever can go on does and the database breaks circles. It does not
follow that a request is served while ever new ones overtake it; that is up to the
queues of the pool and the database.

## Proofs

Each component proved about has an inductive invariant (`IInv`, or `StoreInv`,
`StorageInv`, `ServerInv` where a module has two) made of named parts, a lemma that
its initial states satisfy it, lemmas that every action preserves it, and theorems that
follow. Assumptions are the `ASSUME`s of the specifications: kinds and positivity
of constants, that `None` is not one of the other values (no account number, no
session, no route: the code has nil and the empty string there), and, for
migrations, `PlansAssumption`. No bound on requests, clocks or writes is used; where a
specification names one (`MaxTime`, `MaxWrites`) the theorems hold for each value.

- `SessionsProofs`. `RowsCurrent` is not inductive by itself: a login or refresh
  that is about to commit must know that the auth id in its locals is current,
  which it does because it holds the row lock of the account and only the holder
  rotates or deletes (`HoldersOK`). Revocations are final because an auth id is
  in nobody's hands before it is drawn (`FreshOK`) and account numbers only go up
  (`AllocOK`). Sessions do not fork because a token that is being exchanged is
  still there for everyone else and belongs to the locked account (`SpentOK`,
  `MintedOK`); `SessionOwner` follows the account from the login's locals
  (`LoginOK`, `RootOK`). Proved: `TypeOK`, `RowsCurrent`, `NoForkedSession`,
  `RevokedStayDead`, `VerifiedWasLive`, `DeletedMeansGone`, `SessionOwner`.
  Under the refinement mapping the owner of an account is the mailbox in its row, a
  live session a row of `refresh_tokens` with the login it stems from, and the valid
  access tokens those signed for an account that exists with its present auth id
  (`OwnerBar`, `LiveBar`, `IssuedBar`, `ValidBar`). The invariant is what makes it work: only the statement or commit
  that takes effect is a step of the contract, one lemma for each
  (`EnsureMaps` to `EndTokensMaps`), and that a refresh replaces exactly one live
  token of a current account is `SpentOK` and `HoldersOK`. Locking, rolling back and
  answering stutter, also where a commit takes effect and reports an error.
  `LateRefreshRefused` follows from `LateOK`: once its token is past its time, a
  refresh is on no path that leads to a session. Proved: `ImplementsContract`,
  `SessionsNotLost`, `LateRefreshRefused`.
- `ChallengesProofs`. What the handlers rely on without saying so is that a
  transaction which has matched a code still finds the row when it applies it
  (`ApplyOK`): the row stays locked from the match to the end. That is inductive
  only next to `RowOK`, which ties a row to the one request that drew its code, to
  the mailbox it was made for and to an account that exists; `JobOK` is the same of
  the locals of a handler, `EndedOK` and `MailOK` say that a code ends or is mailed
  only after it was stored. Proved: `TypeOK`, `MailedUsable`, `NoChangeOfTheDead`,
  `MailboxProven`, `NeverAgain`, `CodeNotLost`, for any requests, mailboxes and
  account numbers.
- `RequestsProofs`. The plans of the routes are a graph of gates (`Follows`,
  `Final`), and the gate a request is at tells what it has done whatever its route:
  `Done(g)`, to which passing g adds `Gain(g)`. The invariant says so (`WayOK`),
  that nothing is on its wire until it is answered (`Blank`), that behind "bearer"
  its account is its token's, which was valid (`BearerOK`), and behind "permission"
  that it had the permission (`PermissionOK`). The response writers are a lemma:
  `ResponseIs`, what one header and body leave behind three writers. Proved:
  `TypeOK`, `OneResponse`, `AnswerTells`, `ActsWithPermission`, for any number of
  requests, accounts and roles.
- `AccountCacheProofs`, first part. What is reachable in the store, and what a fill
  that will be accepted holds, is no older than any write that was acknowledged and
  than any write under way that has invalidated its key (`StoreOK`, `FillOK`): the
  write's new generation makes older entries unreachable and older fills
  refused (`GenOK`). Proved: `TypeOK`, `ReadFresh`, for any number of keys and
  shards and any assignment of one to the other.
- `AccountCacheProofs`, second part: `MemoryStore`. Between two operations the contents
  are whole (`Whole`): map and list hold the same entries, the list is in the order of
  the writes, hence of expiry, and the byte count is the sum of the lengths. Without
  the order nothing follows: it is what lets `deleteExpired` stop at the first live
  entry and still leave no expired one (`DeleteExpiredKeeps`), and that no entry
  outlives one written now (`Aged`) is what keeps it. The eviction loop ends because an
  entry longer than the limit was refused before (`MakeRoomKeeps`). Sums and searches
  along the list are recursive or chosen, and an induction theorem cannot be
  instantiated here; instead each such fact is proved from the least number for which
  it would fail (`Least`, from `WFMin`): that lists have sums and `Total` is the last of
  them (`SumsExist`, `TotalIsSum`, `TotalOfConcat`), that the `CHOOSE`s of
  `DeleteExpired` and `MakeRoom` have a value, and that two lists in the order of
  writes with the same entries are equal (`SameList`). The last is what
  `EvictionNeeded` takes: the entries that were in the list when the loop gave up the
  i-th are those the property looks at. Proved: `StoreTypeOK`, `Consistent`,
  `GetsCurrent`, `EvictionNeeded`, for any keys, lengths, limits, TTL and number of
  writes.
- `RateLimitsProofs`. While a row exists its count is what the window has used
  (`CountOK`), and its end lies a window, less the lag, after it was opened
  (`WindowOK`); it is replaced or removed only at a time past that end. Proved:
  `TypeOK`, `BudgetHolds`, `RefusedWaits`, `WindowsApart`, `RefusedOnlyWhenFull`.
- `CodeAttemptsProofs`. That tries are bounded does not follow from the state
  alone, which forgets a window when its row is removed. The invariant says that
  numbers exist (`Counted(n, g, o)`): n past windows, the time o at which the
  current one opened, at least n times the window less the lag, and the g requests
  it granted, which account for every try so far together with those that were
  granted and have not tried yet. A charge that opens a window makes the n + 1st
  past; one in a window raises g, never above the limit. For any finite set of
  requests and any budgets, lifetime and lag shorter than the window. Proved:
  `TypeOK`, `TriesBounded`, `AcceptedInTime`.
- `StartupProofs`, first part: `OpenDatabase`, whose processes are shown to be
  runners of `TxMigrations` (`OpenMigrates`). Only the transaction with the lock has
  read the version (`Locked`), the version it read is still recorded and what it has
  applied is the older end of what its build has beyond it (`Buffered`); so the number
  it commits tells exactly what it and its predecessors applied (`RecordedIsNewest`),
  for which a build must not skip a migration it knows (`PlansAssumption`). Of the
  files: nobody makes one unsafe or safe, and none goes away (`FilesKept`), so what a
  process has found private still is when it connects (`Judged`). Proved: `TypeOK`,
  `StorageTypeOK`, `VersionTells`, `StartsMigrated`, `StorageJudged`, for any builds,
  migrations, files and number of processes.
- `StartupProofs`, second part: `ServerLifecycle`. Each part of the invariant says what
  main has done or waited for when it is at a label: what is open (`Phases`), that
  maintenance has ended (`Joined`), the order of closing (`ClosedLast`), what a shutdown
  without error means (`Drained`) and whose error is in the result (`Collected`).
  Proved: `ServerTypeOK`, `ClosedInOrder`, `ReturnsTruth`, for any requests and size of
  pool.
- `MySQLMigrationsProofs`. Work in progress belongs to the session with the lock
  and to the marked migration (`Locked`, `Accounted`), which is the oldest not
  recorded (`MarkedIsNext`). That a runner's first migration is the next one needs
  the well-foundedness of the naturals and `PlansAssumption` (`FirstIsNext`).
  Proved: `TypeOK`, `BookkeepingTells`, `StartsMigrated`, `StatementsInOrder`.

The type invariants, and `DeletedMeansGone` of `Sessions`, are proved and not also
run.

Only model-checked: liveness (`UncoordinatedVisible`, `IdleExpires`, `CloseEnds`,
`StopsEventually`), which is beyond the prover, as is everything that rests on ENABLED
(`NobodyHangs`); and `SessionsInOrder`, which speaks of all sets of requests in a
circle and is left to the run.

## Finding

The comment on `serveHTTP` (`cmd/http.go:12-13`) says that it drains active
requests before it returns to the caller, which owns the database. It waits five
seconds: after that `srv.Close` closes the connections without waiting for
handlers, `serveHTTP` returns with an error, and the deferred calls close the
database while handlers may still run. The run `lifecycle_drains` checks the
sentence as written and shows how it fails; that a result without a shutdown error
means that no handler runs, the first part of `ReturnsTruth`, is what the code
keeps, and is proved.

## What is not modelled

- Flags, environment and configuration files: read once, before everything else,
  by libraries; that a configuration is refused is a failing start. Templates,
  static files, translations, the headers and texts of responses, log lines: pure
  output. Deployment examples and the API description are documents.
- Parsing: of bodies, mailboxes, DSNs and URL prefixes. Where something can be
  refused the model has the refusal.
- Panics of handlers, streaming and `Unwrap`, HEAD requests and informational
  statuses: no handler of the program uses them.
- Locks on the gaps between rows, which MySQL takes as well and which can make more
  circles than `RowLocks` has, and the waits for rows of `rate_limits`, whose
  transactions lock nothing else.
- Signatures, hashes and random values: taken to be injective and unguessable.
- Encoding: the JSON of cache entries is a version number, an unreadable one a
  miss. SQL text is its effect; where the dialects differ in a way that matters
  (MySQL's order of assignments in an upsert, implicit commits, row locks) the
  model has the weakest behaviour of the three.
- Who else writes to the directory of SQLite's files, and permissions on Windows.
- A build that lacks an older migration (`PlansAssumption`): a hazard the code
  does not guard against, listed without a property.
- Real time: clocks are counters, the same for all processes of a module. Skew
  between servers is not modelled.
