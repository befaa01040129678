--------------------------- MODULE ServerLifecycle ---------------------------
(***************************************************************************)
(* The life of the server process: how runServer opens what it needs, what *)
(* serveHTTP does when it is asked to stop, and the deferred calls that    *)
(* end with db.Close and cacheStore.Close; with the goroutine that runs    *)
(* srv.Serve, the handlers of the requests and the database maintenance    *)
(* goroutine, which share the connections of the database's pool.          *)
(*                                                                         *)
(* The main goroutine can be asked to stop by a signal or by a failing     *)
(* listener, at any moment and at the same moment.                         *)
(***************************************************************************)
EXTENDS Integers, FiniteSets

CONSTANTS Requests,  \* bound: HTTP requests that ever arrive
          Batch,     \* the maintenance goroutine, as a user of the pool
          Conns      \* open connections at most: 1 for SQLite

ASSUME ConnsAssumption == Conns \in Nat \ {0} /\ Batch \notin Requests

VARIABLES
    main,         \* the main goroutine
    signalled,    \* the context of signal.NotifyContext is done
    cancelled,    \* stopMaintenance has canceled the maintenance context
    serve,        \* the goroutine of srv.Serve and the channel serveErrors
    shuttingDown, \* net/http: Shutdown was called
    finished,     \* serveFinished
    errs,         \* the errors joined into serveHTTP's result
    request,      \* request[r]: the state of its handler
    maint,        \* the maintenance goroutine
    busy,         \* who has a connection of the pool
    db,           \* the database handle, used by handlers and maintenance
    cache         \* the store of cached accounts

mainVars   == <<main, cancelled, shuttingDown, finished, errs>>
others     == <<signalled, serve, request, maint, busy>>
handles    == <<db, cache>>
serverVars == <<mainVars, others, handles>>

Starting == {"open", "build", "listen", "notify"}
Leaving  == {"cancel", "join", "close", "closing", "sweep", "exited", "killed"}

ServerTypeOK ==
    /\ main \in Starting \cup Leaving
                \cup {"select", "shutdown", "drain", "force", "collect"}
    /\ signalled \in BOOLEAN /\ cancelled \in BOOLEAN
    /\ serve \in {"none", "accepting", "returning", "closed", "failed"}
    /\ shuttingDown \in BOOLEAN /\ finished \in BOOLEAN
    /\ errs \subseteq {"start", "serve", "shutdown"}
    /\ request \in [Requests -> {"none", "running", "waiting", "querying", "done"}]
    /\ maint \in {"none", "check", "batch", "query", "wait", "done"}
    /\ busy \subseteq Requests \cup {Batch}
    /\ db \in {"none", "open", "draining", "closed"}
    /\ cache \in {"none", "open", "closed"}

ServerInit ==
    /\ main = "open" /\ signalled = FALSE /\ cancelled = FALSE
    /\ serve = "none" /\ shuttingDown = FALSE /\ finished = FALSE
    /\ errs = {}
    /\ request = [r \in Requests |-> "none"]
    /\ maint = "none" /\ busy = {}
    /\ db = "none" /\ cache = "none"

Ended    == main \in {"exited", "killed"}
Returned == main \in Leaving /\ serve # "none"
Running  == {r \in Requests : request[r] \notin {"none", "done"}}

-----------------------------------------------------------------------------
(* runServer until it serves *)

(* A step returns an error: of the logger, the secrets or provider.Open,   *)
(* which has closed its own connection; of the localizer, NewAuthenticator *)
(* or NewHandler; of net.Listen.  The deferred calls made so far run.      *)
StartFails ==
    /\ main \in {"open", "build", "listen"}
    /\ main' = IF main = "open" THEN "exited" ELSE "close"
    /\ errs' = {"start"}
    /\ UNCHANGED <<others, handles, cancelled, shuttingDown, finished>>

(* provider.Open, memory.New and cached.New, and their deferred Close. *)
Open ==
    /\ main = "open"
    /\ main' = "build"
    /\ db' = "open" /\ cache' = "open"
    /\ UNCHANGED <<others, cancelled, shuttingDown, finished, errs>>

(* NewAuthenticator, NewHandler and the http.Server; then net.Listen. *)
Build ==
    /\ main \in {"build", "listen"}
    /\ main' = IF main = "build" THEN "listen" ELSE "notify"
    /\ UNCHANGED <<others, handles, cancelled, shuttingDown, finished, errs>>

(* signal.NotifyContext, startDatabaseMaintenance and go srv.Serve. *)
Serve ==
    /\ main = "notify"
    /\ main' = "select"
    /\ maint' = "check" /\ serve' = "accepting"
    /\ UNCHANGED <<signalled, request, busy, handles, cancelled, shuttingDown, finished, errs>>

(* A signal before NotifyContext or after stop() ends the process. *)
Kill ==
    /\ main \in Starting \cup {"close", "closing", "sweep"}
    /\ main' = "killed"
    /\ UNCHANGED <<others, handles, cancelled, shuttingDown, finished, errs>>

Start == StartFails \/ Open \/ Build \/ Serve \/ Kill

-----------------------------------------------------------------------------
(* serveHTTP and the deferred calls of runServer *)

(* SIGINT or SIGTERM, between NotifyContext and stop(). *)
Signal ==
    /\ ~signalled /\ serve # "none" /\ main \notin {"close", "closing", "sweep", "exited", "killed"}
    /\ signalled' = TRUE
    /\ UNCHANGED <<mainVars, serve, request, maint, busy, handles>>

(* The select: either case may be taken when both are ready. *)
SelectDone ==
    /\ main = "select" /\ signalled
    /\ main' = "shutdown"
    /\ UNCHANGED <<others, handles, cancelled, shuttingDown, finished, errs>>

SelectError ==
    /\ main = "select" /\ serve \in {"closed", "failed"}
    /\ main' = "shutdown"
    /\ finished' = TRUE
    /\ errs' = IF serve = "failed" THEN {"serve"} ELSE {}
    /\ UNCHANGED <<others, handles, cancelled, shuttingDown>>

(* srv.Shutdown begins: no more connections are accepted. *)
Shutdown ==
    /\ main = "shutdown"
    /\ main' = "drain"
    /\ shuttingDown' = TRUE
    /\ UNCHANGED <<others, handles, cancelled, finished, errs>>

(* Every connection is idle and closed. *)
Drain ==
    /\ main = "drain" /\ Running = {}
    /\ main' = "collect"
    /\ UNCHANGED <<others, handles, cancelled, shuttingDown, finished, errs>>

(* The five seconds of shutdownCtx are over. *)
DrainTimeout ==
    /\ main = "drain"
    /\ main' = "force"
    /\ errs' = errs \cup {"shutdown"}
    /\ UNCHANGED <<others, handles, cancelled, shuttingDown, finished>>

(* srv.Close closes the connections; it does not wait for their handlers. *)
ForceClose ==
    /\ main = "force"
    /\ main' = "collect"
    /\ UNCHANGED <<others, handles, cancelled, shuttingDown, finished, errs>>

(* As if the result of Serve were only read when the select saw it. *)
CollectNothing ==
    /\ main = "collect"
    /\ main' = "cancel"
    /\ UNCHANGED <<others, handles, cancelled, shuttingDown, finished, errs>>

(* <-serveErrors, unless the select consumed it, and the return. *)
Collect ==
    /\ main = "collect"
    /\ finished \/ serve \in {"closed", "failed"}
    /\ main' = "cancel"
    /\ errs' = errs \cup (IF ~finished /\ serve = "failed" THEN {"serve"} ELSE {})
    /\ UNCHANGED <<others, handles, cancelled, shuttingDown, finished>>

(* As if stopMaintenance relied on the signal to have canceled the context. *)
WaitOnly ==
    /\ main = "cancel"
    /\ main' = "join"
    /\ UNCHANGED <<others, handles, cancelled, shuttingDown, finished, errs>>

(* stopMaintenance: cancel() ... *)
CancelMaintenance ==
    /\ main = "cancel"
    /\ main' = "join"
    /\ cancelled' = TRUE
    /\ UNCHANGED <<others, handles, shuttingDown, finished, errs>>

(* As if stopMaintenance did not wait. *)
JoinNothing ==
    /\ main = "join"
    /\ main' = "close"
    /\ UNCHANGED <<others, handles, cancelled, shuttingDown, finished, errs>>

(* ... and <-done, then stop(). *)
JoinMaintenance ==
    /\ main = "join" /\ maint = "done"
    /\ main' = "close"
    /\ UNCHANGED <<others, handles, cancelled, shuttingDown, finished, errs>>

(* db.Close: database/sql does not wait for connections in use, pgxpool    *)
(* does; neither gives one out any more.                                   *)
Close ==
    /\ main = "close"
    /\ \/ main' = "sweep" /\ db' = "closed"
       \/ main' = "closing" /\ db' = "draining"
    /\ UNCHANGED <<others, cache, cancelled, shuttingDown, finished, errs>>

(* Every connection was returned to pgxpool. *)
CloseEnds ==
    /\ main = "closing" /\ busy = {}
    /\ main' = "sweep" /\ db' = "closed"
    /\ UNCHANGED <<others, cache, cancelled, shuttingDown, finished, errs>>

(* cacheStore.Close, then the process ends. *)
CloseCache ==
    /\ main = "sweep"
    /\ main' = "exited" /\ cache' = "closed"
    /\ UNCHANGED <<others, db, cancelled, shuttingDown, finished, errs>>

MainSteps ==
    \/ SelectDone \/ SelectError \/ Shutdown \/ Drain \/ DrainTimeout \/ ForceClose
    \/ Collect \/ CancelMaintenance \/ JoinMaintenance
    \/ Close \/ CloseEnds \/ CloseCache

-----------------------------------------------------------------------------
(* srv.Serve *)

(* Accept fails, on its own or because Shutdown closed the listener. *)
AcceptFails ==
    /\ serve = "accepting" /\ ~Ended
    /\ serve' = "returning"
    /\ UNCHANGED <<mainVars, signalled, request, maint, busy, handles>>

(* Serve returns, with ErrServerClosed once Shutdown was called; the       *)
(* channel has room for the error, so the goroutine ends.                  *)
ServeReturns ==
    /\ serve = "returning" /\ ~Ended
    /\ serve' = IF shuttingDown THEN "closed" ELSE "failed"
    /\ UNCHANGED <<mainVars, signalled, request, maint, busy, handles>>

-----------------------------------------------------------------------------
(* The handlers *)

Become(r, state) == request' = [request EXCEPT ![r] = state]

(* A handler starts: on a new connection, or on one that was open when     *)
(* Shutdown came and is not closed yet; srv.Close does not stop one whose  *)
(* request was already read.                                               *)
Begin(r) ==
    /\ request[r] = "none"
    /\ \/ main \in {"select", "shutdown", "drain"}
       \/ "shutdown" \in errs /\ ~Ended
    /\ Become(r, "running")
    /\ UNCHANGED <<mainVars, signalled, serve, maint, busy, handles>>

(* A statement or WithTx: it needs a connection for all its time. *)
Ask(r) ==
    /\ request[r] = "running" /\ ~Ended
    /\ Become(r, "waiting")
    /\ UNCHANGED <<mainVars, signalled, serve, maint, busy, handles>>

Idle == db = "open" /\ Cardinality(busy) < Conns

Acquire(r) ==
    /\ request[r] = "waiting" /\ Idle
    /\ Become(r, "querying")
    /\ busy' = busy \cup {r}
    /\ UNCHANGED <<mainVars, signalled, serve, maint, handles>>

(* The client has left, or the pool is closed: an error instead. *)
GiveUp(r) ==
    /\ request[r] = "waiting" /\ ~Ended
    /\ Become(r, "running")
    /\ UNCHANGED <<mainVars, signalled, serve, maint, busy, handles>>

(* As if WithTx did not roll back when fn returned an error. *)
ReleaseLeaks(r) ==
    /\ request[r] = "querying" /\ ~Ended
    /\ Become(r, "running")
    /\ busy' \in {busy, busy \ {r}}
    /\ UNCHANGED <<mainVars, signalled, serve, maint, handles>>

(* The statement returned, or the transaction was committed or rolled back.*)
(* Why it comes to that although WithTx holds a connection, and rows that  *)
(* others wait for, is the subject of RowLocks.                            *)
Release(r) ==
    /\ request[r] = "querying" /\ ~Ended
    /\ Become(r, "running")
    /\ busy' = busy \ {r}
    /\ UNCHANGED <<mainVars, signalled, serve, maint, handles>>

Finish(r) ==
    /\ request[r] = "running" /\ ~Ended
    /\ Become(r, "done")
    /\ UNCHANGED <<mainVars, signalled, serve, maint, busy, handles>>

Handler(r) == Begin(r) \/ Ask(r) \/ Acquire(r) \/ GiveUp(r) \/ Release(r) \/ Finish(r)

-----------------------------------------------------------------------------
(* startDatabaseMaintenance *)

MaintenanceDone == signalled \/ cancelled

(* for ctx.Err() == nil *)
Check ==
    /\ maint = "check" /\ ~Ended
    /\ maint' = IF MaintenanceDone THEN "done" ELSE "batch"
    /\ UNCHANGED <<mainVars, signalled, serve, request, busy, handles>>

(* DeleteExpiredRecords, with a connection: its four statements are one,   *)
(* which keeps the connection longer than each of them would.              *)
BatchBegins ==
    /\ maint = "batch" /\ Idle
    /\ maint' = "query"
    /\ busy' = busy \cup {Batch}
    /\ UNCHANGED <<mainVars, signalled, serve, request, handles>>

(* It returns, after five seconds at the latest, also without one. *)
BatchEnds ==
    /\ maint \in {"batch", "query"} /\ ~Ended
    /\ maint' = "wait"
    /\ busy' = busy \ {Batch}
    /\ UNCHANGED <<mainVars, signalled, serve, request, handles>>

(* The context or the ticker, whichever the select takes. *)
WaitEnds ==
    /\ maint = "wait" /\ ~Ended
    /\ \/ MaintenanceDone /\ maint' = "done"
       \/ maint' = "check"
    /\ UNCHANGED <<mainVars, signalled, serve, request, busy, handles>>

Maintenance == Check \/ BatchBegins \/ BatchEnds \/ WaitEnds

ServerNext ==
    \/ Start \/ Signal \/ MainSteps \/ AcceptFails \/ ServeReturns \/ Maintenance
    \/ \E r \in Requests : Handler(r)

ServerSpec == ServerInit /\ [][ServerNext]_serverVars

(* Goroutines run, timers fire, Accept returns once the listener is closed *)
(* and the database answers; an answer that is overdue is noticed when the *)
(* pool is closed.  Nothing is assumed of signals, listeners, handlers,    *)
(* the steps of starting, and who gets a connection.                       *)
ServerFairSpec ==
    /\ ServerSpec
    /\ WF_serverVars(MainSteps) /\ WF_serverVars(Maintenance)
    /\ WF_serverVars(shuttingDown /\ AcceptFails) /\ WF_serverVars(ServeReturns)
    /\ \A r \in Requests : /\ WF_serverVars(Release(r))
                           /\ WF_serverVars(db \in {"draining", "closed"} /\ GiveUp(r))

-----------------------------------------------------------------------------
(* Properties. *)

(* The database is closed after the maintenance goroutine has ended        *)
(* (maintenance.go:11-12), the cache after the database; and a process     *)
(* that is not killed leaves neither open, wherever starting it failed.    *)
ClosedInOrder ==
    /\ db \in {"draining", "closed"} => maint \in {"none", "done"}
    /\ cache = "closed" => db = "closed"
    /\ main = "exited" => db # "open" /\ cache # "open"

(* What serveHTTP returns is true: without a shutdown error no handler is  *)
(* running; a listener's failure is reported, also when the signal came at *)
(* the same time, and an orderly stop is not; and the goroutine of Serve   *)
(* has ended.                                                              *)
ReturnsTruth ==
    Returned => /\ "shutdown" \notin errs => Running = {}
                /\ serve \in {"closed", "failed"}
                /\ "serve" \in errs <=> serve = "failed"

(* Once asked to stop, or without a listener, the process ends, even if a  *)
(* handler never returns.                                                  *)
StopsEventually == (signalled \/ serve = "failed") ~> Ended

(* What the comment at http.go:12-13 says: active requests are drained     *)
(* before serveHTTP returns to the owner of the database.                  *)
DrainsBeforeReturn == Returned => Running = {}
=============================================================================
