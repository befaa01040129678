--------------------------- MODULE MySQLMigrations ---------------------------
(***************************************************************************)
(* The migration runner of database/mysql.  DDL commits by itself, so a    *)
(* migration can stop half way; a marker that is committed before the      *)
(* first statement warns of it.                                            *)
(*                                                                         *)
(* Every server process runs the migrations of its build when it starts,   *)
(* on one connection, under GET_LOCK.  The database session of that        *)
(* connection may outlive the runner: it goes on with the statements it    *)
(* was given, and keeps the lock, until the database notices.              *)
(***************************************************************************)
EXTENDS Integers

CONSTANTS Runners,  \* server processes that start, each once
          Versions, \* the migrations that were ever written
          Plans,    \* Plans[r]: those in the build of runner r
          Stmts,    \* Stmts[v]: number of statements in migration v
          None      \* nobody

ASSUME VersionsAssumption == Versions \subseteq Nat \ {0}
ASSUME PlansAssumption ==  \* a build has everything older than its newest
    /\ Plans \in [Runners -> SUBSET Versions]
    /\ \A r \in Runners : \A v \in Plans[r] : \A w \in Versions : w < v => w \in Plans[r]
ASSUME StmtsAssumption == Stmts \in [Versions -> Nat \ {0}]
ASSUME NoneAssumption == None \notin Runners

VARIABLES
    schema,   \* schema[v]: how many statements of migration v took effect
    version,  \* schema_migrations
    pending,  \* schema_migration_pending, 0 without a row
    holder,   \* whose session has the lock
    pc,       \* where a runner is
    todo,     \* the migrations it has still to apply
    left      \* statements its session has still to execute, of First(todo)

vars == <<schema, version, pending, holder, pc, todo, left>>

Started == {"pending", "version", "mark", "run", "finish"}

TypeOK ==
    /\ schema \in [Versions -> Nat]
    /\ \A v \in Versions : schema[v] <= Stmts[v]  \* nothing is done twice
    /\ version \in Versions \cup {0} /\ pending \in Versions \cup {0}
    /\ holder \in Runners \cup {None}
    /\ pc \in [Runners -> {"idle", "done", "failed"} \cup Started]
    /\ todo \in [Runners -> SUBSET Versions]
    /\ left \in [Runners -> Nat]

Init ==
    /\ schema = [v \in Versions |-> 0]
    /\ version = 0 /\ pending = 0
    /\ holder = None
    /\ pc = [r \in Runners |-> "idle"]
    /\ todo = [r \in Runners |-> {}]
    /\ left = [r \in Runners |-> 0]

-----------------------------------------------------------------------------
Goto(r, label) == pc' = [pc EXCEPT ![r] = label]

(* As if the versions were compared the wrong way round. *)
Newest(V) == CHOOSE v \in V : \A w \in V : w <= v

(* ReadMigrations sorts by version. *)
First(V) == CHOOSE v \in V : \A w \in V : v <= w

(* The runner returns.  RELEASE_LOCK may fail, and a lost connection takes *)
(* the database a while to notice.                                         *)
Leave(r, outcome) ==
    /\ Goto(r, outcome)
    /\ holder' \in {holder, None}
    /\ UNCHANGED todo

-----------------------------------------------------------------------------
GetLock(r) ==
    /\ pc[r] = "idle"
    /\ \/ holder = None /\ holder' = r /\ Goto(r, "pending")
       \/ holder # None /\ Goto(r, "failed") /\ UNCHANGED holder
    /\ UNCHANGED <<schema, version, pending, todo, left>>

CheckPending(r) ==
    /\ pc[r] = "pending"
    /\ \/ pending = 0 /\ Goto(r, "version") /\ UNCHANGED <<holder, todo>>
       \/ pending # 0 /\ Leave(r, "failed")
    /\ UNCHANGED <<schema, version, pending, left>>

(* The recorded version decides what is still to be applied. *)
ReadVersion(r) ==
    /\ pc[r] = "version"
    /\ todo' = [todo EXCEPT ![r] = {v \in Plans[r] : v > version}]
    /\ Goto(r, "mark")
    /\ UNCHANGED <<schema, version, pending, holder, left>>

(* As if the marker were left out. *)
MarkNothing(r) ==
    /\ pc[r] = "mark" /\ todo[r] # {}
    /\ left' = [left EXCEPT ![r] = Stmts[First(todo[r])]]
    /\ Goto(r, "run")
    /\ UNCHANGED <<schema, version, pending, holder, todo>>

(* SetPendingSchemaMigration, an INSERT, in a transaction of its own that  *)
(* may commit although the runner is told it failed.                       *)
Mark(r) ==
    /\ pc[r] = "mark" /\ todo[r] # {} /\ pending = 0
    /\ pending' = First(todo[r])
    /\ \/ /\ Goto(r, "run")
          /\ left' = [left EXCEPT ![r] = Stmts[First(todo[r])]]
          /\ UNCHANGED <<holder, todo>>
       \/ Leave(r, "failed") /\ UNCHANGED left
    /\ UNCHANGED <<schema, version>>

(* The session executes the next statement of the migration. *)
Statement(r) ==
    /\ pc[r] = "run" \/ (pc[r] = "failed" /\ holder = r)
    /\ left[r] > 0
    /\ schema' = [schema EXCEPT ![First(todo[r])] = @ + 1]
    /\ left' = [left EXCEPT ![r] = @ - 1]
    /\ UNCHANGED <<version, pending, holder, pc, todo>>

Ran(r) ==
    /\ pc[r] = "run" /\ left[r] = 0
    /\ Goto(r, "finish")
    /\ UNCHANGED <<schema, version, pending, holder, todo, left>>

(* As if the newest version of the build were recorded at once. *)
FinishNewest(r) ==
    /\ pc[r] = "finish"
    /\ version' = Newest(todo[r])
    /\ pending' = 0
    /\ \/ /\ Goto(r, "mark")
          /\ todo' = [todo EXCEPT ![r] = @ \ {First(@)}]
          /\ UNCHANGED holder
       \/ Leave(r, "failed")
    /\ UNCHANGED <<schema, left>>

(* One transaction records the version and removes the marker. *)
Finish(r) ==
    /\ pc[r] = "finish"
    /\ version' = First(todo[r])
    /\ pending' = 0
    /\ \/ /\ Goto(r, "mark")
          /\ todo' = [todo EXCEPT ![r] = @ \ {First(@)}]
          /\ UNCHANGED holder
       \/ Leave(r, "failed")
    /\ UNCHANGED <<schema, left>>

Return(r) ==
    /\ pc[r] = "mark" /\ todo[r] = {}
    /\ Leave(r, "done")
    /\ UNCHANGED <<schema, version, pending, left>>

(* A statement fails, the connection is lost or the process is killed. *)
Fail(r) ==
    /\ pc[r] \in Started
    /\ Leave(r, "failed")
    /\ UNCHANGED <<schema, version, pending, left>>

(* The database ends a session whose runner is gone. *)
SessionEnds(r) ==
    /\ pc[r] \in {"done", "failed"} /\ holder = r
    /\ holder' = None
    /\ UNCHANGED <<schema, version, pending, pc, todo, left>>

(* An operator, when no session is at work, undoes or completes the        *)
(* migration that is marked and clears the marker.                         *)
Repair ==
    /\ pending # 0 /\ holder = None
    /\ \/ schema' = [schema EXCEPT ![pending] = 0] /\ UNCHANGED version
       \/ schema' = [schema EXCEPT ![pending] = Stmts[pending]] /\ version' = pending
    /\ pending' = 0
    /\ UNCHANGED <<holder, pc, todo, left>>

Step(r) ==
    \/ GetLock(r) \/ CheckPending(r) \/ ReadVersion(r)
    \/ Mark(r) \/ Statement(r) \/ Ran(r) \/ Finish(r) \/ Return(r)
    \/ Fail(r) \/ SessionEnds(r)

Next == Repair \/ \E r \in Runners : Step(r)

Spec == Init /\ [][Next]_vars

-----------------------------------------------------------------------------
(* Properties. *)

(* The two bookkeeping rows describe the schema: what is not newer than    *)
(* the recorded version is complete, and of what is newer nothing was      *)
(* executed, except of the one migration that is marked.                   *)
BookkeepingTells ==
    \A v \in Versions :
        IF v <= version THEN schema[v] = Stmts[v] ELSE schema[v] # 0 => pending = v

(* A server starts only on a schema with every migration of its build,     *)
(* whoever applied them, and it stays so while it runs.                    *)
StartsMigrated ==
    \A r \in Runners : pc[r] = "done" => \A v \in Plans[r] : schema[v] = Stmts[v]

(* A statement is executed only under the marker of its migration, with    *)
(* all older migrations complete, and on what the same runner left: a      *)
(* migration that stopped half way is never gone on with, or begun again,  *)
(* by another one.                                                         *)
InOrder ==
    \A v \in Versions : schema'[v] = schema[v] + 1 /\ pending' # 0 =>
        /\ pending = v
        /\ \A w \in Versions : w < v => schema[w] = Stmts[w]
        /\ holder # None /\ left[holder] = Stmts[v] - schema[v]

StatementsInOrder == [][InOrder]_vars
=============================================================================
