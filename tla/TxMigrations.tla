----------------------------- MODULE TxMigrations -----------------------------
(***************************************************************************)
(* The migration runners of database/sqlite and database/postgres: one     *)
(* transaction around everything, with SQLite's writer lock or an advisory *)
(* lock of PostgreSQL taken before the recorded version is read.           *)
(***************************************************************************)
EXTENDS Integers, FiniteSets

CONSTANTS Runners,  \* server processes that start, each once
          Versions, \* the migrations that were ever written
          Plans,    \* Plans[r]: those in the build of runner r
          None      \* nobody

ASSUME VersionsAssumption == Versions \subseteq Nat \ {0} /\ IsFiniteSet(Versions)
ASSUME PlansAssumption ==  \* a build has everything older than its newest
    /\ Plans \in [Runners -> SUBSET Versions]
    /\ \A r \in Runners : \A v \in Plans[r] : \A w \in Versions : w < v => w \in Plans[r]
ASSUME NoneAssumption == None \notin Runners

VARIABLES
    times,    \* times[v]: how often migration v was applied, committed
    version,  \* schema_migrations, committed
    holder,   \* whose transaction holds the lock
    pc,       \* where a runner is
    current,  \* currentVersion, as it read it
    mine      \* what its transaction has applied so far

vars == <<times, version, holder, pc, current, mine>>

TypeOK ==
    /\ times \in [Versions -> 0 .. 1]   \* nothing is applied twice
    /\ version \in Versions \cup {0}
    /\ holder \in Runners \cup {None}
    /\ pc \in [Runners -> {"idle", "read", "apply", "done", "failed"}]
    /\ current \in [Runners -> Versions \cup {0}]
    /\ mine \in [Runners -> SUBSET Versions]

Init ==
    /\ times = [v \in Versions |-> 0] /\ version = 0
    /\ holder = None
    /\ pc = [r \in Runners |-> "idle"]
    /\ current = [r \in Runners |-> 0]
    /\ mine = [r \in Runners |-> {}]

-----------------------------------------------------------------------------
Goto(r, label) == pc' = [pc EXCEPT ![r] = label]

(* As if the version were read before the lock is held. *)
LockLate(r) ==
    /\ pc[r] = "idle"
    /\ Goto(r, "read")
    /\ UNCHANGED <<times, version, holder, current, mine>>

(* The lock, which is waited for; beginning or waiting may fail. *)
Lock(r) ==
    /\ pc[r] = "idle"
    /\ \/ holder = None /\ holder' = r /\ Goto(r, "read")
       \/ Goto(r, "failed") /\ UNCHANGED holder
    /\ UNCHANGED <<times, version, current, mine>>

Read(r) ==
    /\ pc[r] = "read"
    /\ current' = [current EXCEPT ![r] = version]
    /\ Goto(r, "apply")
    /\ UNCHANGED <<times, version, holder, mine>>

(* What ApplyMigrations has still to do, in ascending order. *)
Remaining(r) == {v \in Plans[r] : v > current[r]} \ mine[r]

(* One migration, with its SetSchemaMigrationVersion. *)
Apply(r) ==
    /\ pc[r] = "apply"
    /\ \E v \in Remaining(r) :
         /\ \A w \in Remaining(r) : v <= w
         /\ mine' = [mine EXCEPT ![r] = @ \cup {v}]
    /\ UNCHANGED <<times, version, holder, pc, current>>

(* What the transaction leaves in schema_migrations. *)
Recorded(r) ==
    IF mine[r] = {} THEN version ELSE CHOOSE v \in mine[r] : \A w \in mine[r] : w <= v

(* The commit, after which the runner may still be told of an error. *)
Commit(r) ==
    /\ pc[r] = "apply" /\ Remaining(r) = {}
    /\ times' = [v \in Versions |-> IF v \in mine[r] THEN times[v] + 1 ELSE times[v]]
    /\ version' = Recorded(r)
    /\ holder' = None
    /\ \E outcome \in {"done", "failed"} : Goto(r, outcome)
    /\ UNCHANGED <<current, mine>>

(* A statement fails, or the process ends: the transaction is rolled back. *)
Rollback(r) ==
    /\ pc[r] \in {"read", "apply"}
    /\ holder' = None
    /\ Goto(r, "failed")
    /\ UNCHANGED <<times, version, current, mine>>

Step(r) == Lock(r) \/ Read(r) \/ Apply(r) \/ Commit(r) \/ Rollback(r)

Next == \E r \in Runners : Step(r)

Spec == Init /\ [][Next]_vars

-----------------------------------------------------------------------------
(* Properties. *)

(* The recorded version says exactly which migrations were applied, also   *)
(* after failures and when several processes start at once.                *)
VersionTells == \A v \in Versions : times[v] = IF v <= version THEN 1 ELSE 0

(* A server starts only on a schema with every migration of its build.     *)
StartsMigrated ==
    \A r \in Runners : pc[r] = "done" => \A v \in Plans[r] : times[v] = 1
=============================================================================
