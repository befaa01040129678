---------------------------- MODULE StartupProofs ----------------------------
(***************************************************************************)
(* The safety of a server process from its start to its end, in two parts. *)
(* First what provider.Open does, for any builds, migrations, files and    *)
(* number of processes: the processes of OpenDatabase follow TxMigrations, *)
(* whose invariant says that only the transaction with the lock has        *)
(* applied anything, and has applied its migrations from the oldest on.    *)
(* Then runServer and serveHTTP, for every set of requests and every size  *)
(* of the pool: their invariant says what main has opened, or has waited   *)
(* for, by the time it is at a place.                                      *)
(***************************************************************************)
EXTENDS OpenDatabase, ServerLifecycle, TLAPS

-----------------------------------------------------------------------------
(* TxMigrations *)

(* Only one transaction is between its lock and its end. *)
Locked == \A r \in Runners : pc[r] \in {"read", "apply"} => holder = r

(* A transaction has applied its migrations from the oldest on, and the    *)
(* recorded version is still the one it read.                              *)
Buffered ==
    \A r \in Runners :
        /\ pc[r] \in {"idle", "read"} => mine[r] = {}
        /\ pc[r] = "apply" =>
             /\ current[r] = version
             /\ mine[r] \subseteq {v \in Plans[r] : v > version}
             /\ \A v \in mine[r] : \A w \in Remaining(r) : v < w
             /\ mine[r] # {} => \E v \in mine[r] : \A w \in mine[r] : w <= v

(* Nothing that a process which is done would have applied is missing. *)
Migrated == \A r \in Runners : pc[r] = "done" => \A v \in Plans[r] : v <= version

(* The inductive invariant of TxMigrations. *)
IInv == TypeOK /\ Locked /\ Buffered /\ Migrated /\ VersionTells

(* The numbers that occur. *)
LEMMA Numbers ==
    ASSUME TypeOK
    PROVE  /\ Versions \subseteq Nat \ {0} /\ version \in Nat
           /\ \A r \in Runners : /\ Plans[r] \subseteq Versions /\ current[r] \in Nat
                                 /\ mine[r] \subseteq Versions
           /\ \A v \in Versions : times[v] \in 0 .. 1
<1>1. Versions \subseteq Nat \ {0} /\ version \in Nat
  BY VersionsAssumption DEF TypeOK
<1>2. ASSUME NEW r \in Runners
      PROVE  Plans[r] \subseteq Versions /\ current[r] \in Nat /\ mine[r] \subseteq Versions
  <2>1. mine[r] \subseteq Versions /\ Plans[r] \subseteq Versions
    BY PlansAssumption DEF TypeOK
  <2>2. current[r] \in Versions \cup {0}
    BY DEF TypeOK
  <2>3. Versions \cup {0} \subseteq Nat
    BY <1>1
  <2>4. current[r] \in Nat
    BY <2>2, <2>3
  <2>5. QED
    BY <2>1, <2>4
<1>3. QED
  BY <1>1, <1>2 DEF TypeOK

LEMMA InitIInv == Init => IInv
  BY VersionsAssumption
     DEF Init, IInv, TypeOK, Locked, Buffered, Migrated, VersionTells

(* What a commit records. *)
LEMMA RecordedIsNewest ==
    ASSUME IInv, NEW r \in Runners, pc[r] = "apply", Remaining(r) = {}
    PROVE  /\ mine[r] = {v \in Plans[r] : v > version}
           /\ Recorded(r) \in Versions \cup {0}
           /\ \A v \in Versions : v <= Recorded(r) <=> v <= version \/ v \in mine[r]
           /\ \A v \in Plans[r] : v <= Recorded(r)
<1> USE Numbers DEF IInv
<1>1. mine[r] = {v \in Plans[r] : v > version}
  BY DEF Buffered, Remaining
<1>2. CASE mine[r] = {}
  <2>1. Recorded(r) = version
    BY <1>2 DEF Recorded
  <2>2. QED
    BY <1>1, <1>2, <2>1 DEF TypeOK
<1>3. CASE mine[r] # {}
  <2>1. Recorded(r) \in mine[r] /\ \A w \in mine[r] : w <= Recorded(r)
    BY <1>3 DEF Recorded, Buffered
  <2>2. ASSUME NEW v \in Versions PROVE v <= Recorded(r) <=> v <= version \/ v \in mine[r]
    <3>1. v < Recorded(r) => v \in Plans[r]
      BY <1>1, <2>1, PlansAssumption
    <3>2. QED
      BY <1>1, <2>1, <3>1
  <2>3. QED
    BY <1>1, <2>1, <2>2
<1>4. QED
  BY <1>2, <1>3

LEMMA LockStep == ASSUME IInv, NEW r \in Runners, Lock(r) PROVE IInv'
<1> USE DEF IInv, TypeOK, Lock, Goto
<1>1. TypeOK'
  OBVIOUS
<1>2. Locked' /\ Migrated' /\ VersionTells'
  BY NoneAssumption DEF Locked, Migrated, VersionTells
<1>3. Buffered'
  BY DEF Buffered, Remaining
<1>4. QED
  BY <1>1, <1>2, <1>3

LEMMA ReadStep == ASSUME IInv, NEW r \in Runners, Read(r) PROVE IInv'
<1> USE DEF IInv, TypeOK, Read, Goto
<1>1. TypeOK'
  OBVIOUS
<1>2. Locked' /\ Migrated' /\ VersionTells'
  BY DEF Locked, Migrated, VersionTells
<1>3. Buffered'
  BY DEF Buffered, Remaining
<1>4. QED
  BY <1>1, <1>2, <1>3

LEMMA ApplyStep == ASSUME IInv, NEW r \in Runners, Apply(r) PROVE IInv'
<1>1. PICK v \in Remaining(r) : /\ \A w \in Remaining(r) : v <= w
                                /\ mine' = [mine EXCEPT ![r] = @ \cup {v}]
  BY DEF Apply
<1>2. pc[r] = "apply" /\ UNCHANGED <<times, version, holder, pc, current>>
  BY DEF Apply
<1> USE Numbers DEF IInv
<1>3. v \in Versions /\ v \in Plans[r] /\ v > version
  BY <1>1, <1>2 DEF Remaining, Buffered
<1>4. TypeOK'
  BY <1>1, <1>2, <1>3 DEF TypeOK
<1>5. mine'[r] = mine[r] \cup {v} /\ \A q \in Runners \ {r} : mine'[q] = mine[q]
  BY <1>1 DEF TypeOK
<1>6. Remaining(r)' = Remaining(r) \ {v}
  BY <1>2, <1>5 DEF Remaining
<1>7. /\ mine'[r] \subseteq {w \in Plans[r] : w > version}
      /\ \A u \in mine'[r] : \A w \in Remaining(r)' : u < w
      /\ \A w \in mine'[r] : w <= v
  BY <1>1, <1>2, <1>3, <1>5, <1>6 DEF Buffered, Remaining
<1>8. Buffered'
  BY <1>2, <1>5, <1>7 DEF Buffered, Remaining
<1>9. Locked' /\ Migrated' /\ VersionTells'
  BY <1>2 DEF Locked, Migrated, VersionTells
<1>10. QED
  BY <1>4, <1>8, <1>9

LEMMA CommitStep == ASSUME IInv, NEW r \in Runners, Commit(r) PROVE IInv'
<1>1. /\ pc[r] = "apply" /\ holder' = None
      /\ times' = [v \in Versions |-> IF v \in mine[r] THEN times[v] + 1 ELSE times[v]]
      /\ version' = Recorded(r)
      /\ UNCHANGED <<current, mine>>
  BY DEF Commit
<1>2. PICK outcome \in {"done", "failed"} : pc' = [pc EXCEPT ![r] = outcome]
  BY DEF Commit, Goto
<1> USE Numbers DEF IInv
<1>3. /\ mine[r] = {v \in Plans[r] : v > version}
      /\ version' \in Versions \cup {0}
      /\ \A v \in Versions : v <= version' <=> v <= version \/ v \in mine[r]
      /\ \A v \in Plans[r] : v <= version'
  BY <1>1, RecordedIsNewest DEF Commit
<1>4. version' \in Nat
  BY <1>3
<1>5. VersionTells'
  BY <1>1, <1>3, <1>4 DEF VersionTells
<1>6. TypeOK'
  BY <1>1, <1>2, <1>3 DEF TypeOK, VersionTells
<1>7. \A q \in Runners : pc'[q] \notin {"read", "apply"}
  BY <1>1, <1>2, NoneAssumption DEF Locked, TypeOK
<1>8. Locked' /\ Buffered'
  BY <1>1, <1>2, <1>7 DEF Locked, Buffered, TypeOK
<1>9. Migrated'
  BY <1>2, <1>3, <1>4 DEF Migrated, TypeOK
<1>10. QED
  BY <1>5, <1>6, <1>8, <1>9

LEMMA RollbackStep == ASSUME IInv, NEW r \in Runners, Rollback(r) PROVE IInv'
<1> USE DEF IInv, TypeOK, Rollback, Goto
<1>1. TypeOK'
  OBVIOUS
<1>2. \A q \in Runners : pc'[q] \notin {"read", "apply"}
  BY NoneAssumption DEF Locked
<1>3. Locked' /\ Buffered' /\ Migrated' /\ VersionTells'
  BY <1>2 DEF Locked, Buffered, Migrated, VersionTells
<1>4. QED
  BY <1>1, <1>3

LEMMA StepIInv == ASSUME IInv, [Next]_vars PROVE IInv'
<1>1. ASSUME NEW r \in Runners, Step(r) PROVE IInv'
  BY <1>1, LockStep, ReadStep, ApplyStep, CommitStep, RollbackStep DEF Step
<1>2. CASE UNCHANGED vars
  BY <1>2 DEF vars, IInv, TypeOK, Locked, Buffered, Remaining, Migrated, VersionTells
<1>3. QED
  BY <1>1, <1>2 DEF Next

(* The inductive invariant holds in every state. *)
THEOREM Invariance == Spec => []IInv
  BY InitIInv, StepIInv, PTL DEF Spec

-----------------------------------------------------------------------------
(* OpenDatabase *)

(* The processes of OpenDatabase migrate as TxMigrations says.             *)
THEOREM OpenMigrates == OpenSpec => Spec
<1>1. OpenInit => Init
  BY DEF OpenInit
<1>2. ASSUME [OpenNext]_<<vars, storage>> PROVE [Next]_vars
  BY <1>2 DEF OpenNext, Create, Inspect, Connect, Migrate, Journal, Next
<1>3. QED
  BY <1>1, <1>2, PTL DEF OpenSpec, Spec

(* No file becomes unsafe or stops being so, and the database file, once   *)
(* it is there, stays.                                                     *)
FilesKept ==
    /\ \A i \in Paths : files[i] = "unsafe" <=> given[i] = "unsafe"
    /\ files[Main] = "absent" => given[Main] = "absent"

(* A process has the database file created, if it may, and what it has     *)
(* looked at was safe and is still.                                        *)
Judged(r) ==
    /\ stage[r] = "prepare" => next[r] = Main
    /\ creates[r] /\ stage[r] = "inspect" => files[Main] # "absent"
    /\ stage[r] = "inspect" =>
         /\ \A i \in Paths : i < next[r] => files[i] # "unsafe"
         /\ next[r] > Main => files[Main] = "private"
    /\ stage[r] \in {"connect", "migrate"} =>
         files[Main] = "private" /\ \A i \in Paths : files[i] # "unsafe"

(* The inductive invariant of OpenDatabase, next to that of TxMigrations. *)
StorageInv ==
    /\ StorageTypeOK
    /\ FilesKept
    /\ stored => \A r \in Runners : Judged(r)
    /\ StorageJudged

LEMMA PathsAreNumbers ==
    Main \in Paths /\ Paths = 1 .. Len(Suffixes) /\ Len(Suffixes) \in Nat
  BY SuffixesAssumption DEF Main, Paths

LEMMA InitStorageInv == OpenInit /\ TypeOK => StorageInv
  BY PathsAreNumbers
     DEF OpenInit, StorageInv, StorageTypeOK, FilesKept, Judged, StorageJudged, Kinds, Main

LEMMA CreateStep ==
    ASSUME StorageInv, TypeOK', NEW r \in Runners, Create(r) PROVE StorageInv'
<1> USE PathsAreNumbers
    DEF StorageInv, StorageTypeOK, FilesKept, Judged, StorageJudged, Kinds, Main,
        Create, Advance
<1>1. StorageTypeOK' /\ FilesKept'
  OBVIOUS
<1>2. stored' => \A q \in Runners : Judged(q)'
  OBVIOUS
<1>3. \A q \in Runners : stage'[q] = "refused" => stage[q] = "refused"
  OBVIOUS
<1>4. given' = given /\ creates' = creates /\ stored' = stored
  OBVIOUS
<1> HIDE DEF Create
<1>5. StorageJudged'
  BY <1>2, <1>3, <1>4
<1>6. QED
  BY <1>1, <1>2, <1>5

LEMMA InspectStep ==
    ASSUME StorageInv, TypeOK', NEW r \in Runners, Inspect(r) PROVE StorageInv'
<1> USE PathsAreNumbers
    DEF StorageInv, StorageTypeOK, FilesKept, Judged, StorageJudged, Kinds, Main,
        Inspect, Advance, Acceptable
<1>1. CASE stage' = [stage EXCEPT ![r] = "refused"] /\ ~Acceptable(next[r]) /\ UNCHANGED next
  BY <1>1
<1>2. CASE Acceptable(next[r]) /\ next[r] = Len(Suffixes)
           /\ stage' = [stage EXCEPT ![r] = "connect"] /\ UNCHANGED next
  BY <1>2
<1>3. CASE Acceptable(next[r]) /\ next[r] # Len(Suffixes)
           /\ next' = [next EXCEPT ![r] = @ + 1] /\ UNCHANGED stage
  <2>1. next[r] + 1 \in Paths
    BY <1>3
  <2>2. StorageTypeOK' /\ FilesKept'
    BY <1>3, <2>1
  <2>3. QED
    BY <1>3, <2>1, <2>2
<1>4. CASE stage' = [stage EXCEPT ![r] = "failed"] /\ UNCHANGED next
  BY <1>4
<1>5. QED
  BY <1>1, <1>2, <1>3, <1>4

LEMMA ConnectStep ==
    ASSUME StorageInv, TypeOK', NEW r \in Runners, Connect(r) PROVE StorageInv'
  BY DEF StorageInv, StorageTypeOK, FilesKept, Judged, StorageJudged, Connect, Advance

LEMMA JournalStep ==
    ASSUME StorageInv, TypeOK', NEW i \in Paths, Journal(i) PROVE StorageInv'
  BY PathsAreNumbers
     DEF StorageInv, StorageTypeOK, FilesKept, Judged, StorageJudged, Kinds, Main, Journal

LEMMA StepStorageInv ==
    ASSUME StorageInv, TypeOK', [OpenNext]_<<vars, storage>> PROVE StorageInv'
<1>1. ASSUME NEW r \in Runners, Migrate(r) \/ UNCHANGED <<vars, storage>> PROVE StorageInv'
  BY <1>1 DEF Migrate, storage, StorageInv, StorageTypeOK, FilesKept, Judged, StorageJudged
<1>2. CASE UNCHANGED <<vars, storage>>
  BY <1>2 DEF storage, StorageInv, StorageTypeOK, FilesKept, Judged, StorageJudged
<1>3. QED
  BY <1>1, <1>2, CreateStep, InspectStep, ConnectStep, JournalStep DEF OpenNext

(* OpenDatabase keeps the types of what it shares with TxMigrations. *)
THEOREM OpenTypes == OpenSpec => []TypeOK
<1>1. IInv => TypeOK
  BY DEF IInv
<1>2. QED
  BY OpenMigrates, Invariance, <1>1, PTL

(* It holds in every state. *)
THEOREM StorageInvariance == OpenSpec => []StorageInv
<1>1. ASSUME StorageInv, TypeOK', [OpenNext]_<<vars, storage>> PROVE StorageInv'
  BY <1>1, StepStorageInv
<1>2. QED
  BY InitStorageInv, <1>1, OpenTypes, PTL DEF OpenSpec

(* OpenDatabase keeps its types. *)
THEOREM StorageTypeCorrect == OpenSpec => []StorageTypeOK
<1>1. StorageInv => StorageTypeOK
  BY DEF StorageInv
<1>2. QED
  BY StorageInvariance, <1>1, PTL

(* prepareStorage lets no process connect to a SQLite database that others *)
(* may read or redirect, and refuses none for what the others do.          *)
THEOREM StorageIsJudged == OpenSpec => []StorageJudged
<1>1. StorageInv => StorageJudged
  BY DEF StorageInv
<1>2. QED
  BY StorageInvariance, <1>1, PTL

(* schema_migrations tells which migrations were applied, however often    *)
(* RunMigrations failed and however many processes start at once.          *)
THEOREM VersionIsTrue == OpenSpec => []VersionTells
<1>1. IInv => VersionTells
  BY DEF IInv
<1>2. QED
  BY OpenMigrates, Invariance, <1>1, PTL

(* RunMigrations returns without an error only on a migrated schema. *)
THEOREM ServersStartMigrated == OpenSpec => []StartsMigrated
<1>1. IInv => StartsMigrated
  BY Numbers DEF IInv, Migrated, VersionTells, StartsMigrated
<1>2. QED
  BY OpenMigrates, Invariance, <1>1, PTL

-----------------------------------------------------------------------------
(* ServerLifecycle *)

(* Nothing runs beside main before Serve. *)
Phases ==
    /\ main \in Starting => serve = "none"
    /\ main \in {"select", "shutdown", "drain", "force", "collect", "cancel", "join"}
         => serve # "none"
    /\ serve = "none" <=> maint = "none"

(* Maintenance has ended before main closes anything. *)
Joined == main \in {"close", "closing", "sweep", "exited"} => maint \in {"none", "done"}

(* What main has opened and closed, by the place it is at. *)
ClosedLast ==
    /\ main = "open" => db = "none" /\ cache = "none"
    /\ main = "sweep" => db = "closed"
    /\ main = "exited" => db # "open" /\ cache # "open"
    /\ db \in {"draining", "closed"} =>
         /\ main \in {"closing", "sweep", "exited", "killed"}
         /\ maint \in {"none", "done"}
    /\ cache = "closed" => main = "exited" /\ db = "closed"

(* Shutdown returned without an error only when nothing ran. *)
Drained ==
    /\ main = "force" => "shutdown" \in errs
    /\ (main = "collect" \/ Returned) => ("shutdown" \in errs \/ Running = {})

(* The result of Serve is in errs once it was read. *)
Collected ==
    /\ main = "select" => ~finished
    /\ finished \/ Returned => serve \in {"closed", "failed"}
    /\ "serve" \in errs <=> ((finished \/ Returned) /\ serve = "failed")

(* The inductive invariant of ServerLifecycle. *)
ServerInv == ServerTypeOK /\ Phases /\ Joined /\ ClosedLast /\ Drained /\ Collected

LEMMA InitServer == ServerInit => ServerInv
  BY DEF ServerInit, ServerInv, ServerTypeOK, Phases, Joined, ClosedLast, Drained,
         Collected, Returned, Running, Starting, Leaving

LEMMA ServerStep == ASSUME ServerInv, [ServerNext]_serverVars PROVE ServerInv'
<1> USE DEF ServerInv, ServerTypeOK, Phases, Joined, ClosedLast, Drained, Collected,
            Returned, Running, Starting, Leaving, Ended, mainVars, others, handles
<1>1. CASE StartFails
  BY <1>1 DEF StartFails
<1>2. CASE Open
  BY <1>2 DEF Open
<1>3. CASE Build
  BY <1>3 DEF Build
<1>4. CASE Serve
  BY <1>4 DEF Serve
<1>5. CASE Kill
  BY <1>5 DEF Kill
<1>6. CASE Signal
  BY <1>6 DEF Signal
<1>7. CASE SelectDone
  BY <1>7 DEF SelectDone
<1>8. CASE SelectError
  BY <1>8 DEF SelectError
<1>9. CASE Shutdown
  BY <1>9 DEF Shutdown
<1>10. CASE Drain
  BY <1>10 DEF Drain
<1>11. CASE DrainTimeout
  BY <1>11 DEF DrainTimeout
<1>12. CASE ForceClose
  BY <1>12 DEF ForceClose
<1>13. CASE Collect
  BY <1>13 DEF Collect
<1>14. CASE CancelMaintenance
  BY <1>14 DEF CancelMaintenance
<1>15. CASE JoinMaintenance
  BY <1>15 DEF JoinMaintenance
<1>16. CASE Close
  BY <1>16 DEF Close
<1>17. CASE CloseEnds
  BY <1>17 DEF CloseEnds
<1>18. CASE CloseCache
  BY <1>18 DEF CloseCache
<1>19. CASE AcceptFails
  BY <1>19 DEF AcceptFails
<1>20. CASE ServeReturns
  BY <1>20 DEF ServeReturns
<1>21. CASE Check
  BY <1>21 DEF Check
<1>22. CASE BatchBegins
  BY <1>22 DEF BatchBegins, Idle
<1>23. CASE BatchEnds
  BY <1>23 DEF BatchEnds
<1>24. CASE WaitEnds
  BY <1>24 DEF WaitEnds
<1>25. ASSUME NEW r \in Requests, Begin(r) PROVE ServerInv'
  BY <1>25 DEF Begin, Become
<1>26. ASSUME NEW r \in Requests, Ask(r) PROVE ServerInv'
  BY <1>26 DEF Ask, Become
<1>27. ASSUME NEW r \in Requests, Acquire(r) PROVE ServerInv'
  BY <1>27 DEF Acquire, Become, Idle
<1>28. ASSUME NEW r \in Requests, GiveUp(r) PROVE ServerInv'
  BY <1>28 DEF GiveUp, Become
<1>29. ASSUME NEW r \in Requests, Release(r) PROVE ServerInv'
  BY <1>29 DEF Release, Become
<1>30. ASSUME NEW r \in Requests, Finish(r) PROVE ServerInv'
  BY <1>30 DEF Finish, Become
<1>31. CASE UNCHANGED serverVars
  BY <1>31 DEF serverVars
<1> HIDE DEF ServerInv
<1>32. QED
  BY <1>1, <1>2, <1>3, <1>4, <1>5, <1>6, <1>7, <1>8, <1>9, <1>10, <1>11,
     <1>12, <1>13, <1>14, <1>15, <1>16, <1>17, <1>18, <1>19, <1>20, <1>21,
     <1>22, <1>23, <1>24, <1>25, <1>26, <1>27, <1>28, <1>29, <1>30, <1>31
  DEF ServerNext, Start, MainSteps, Maintenance, Handler

(* The inductive invariant holds in every state. *)
THEOREM ServerInvariance == ServerSpec => []ServerInv
  BY InitServer, ServerStep, PTL DEF ServerSpec

(* ServerLifecycle keeps its types. *)
THEOREM ServerTypeCorrect == ServerSpec => []ServerTypeOK
<1>1. ServerInv => ServerTypeOK
  BY DEF ServerInv
<1>2. QED
  BY ServerInvariance, <1>1, PTL

(* runServer closes the database after the maintenance goroutine and       *)
(* before the cache, and leaves neither open, from whichever step it       *)
(* returns.                                                                *)
THEOREM ResourcesAreClosed == ServerSpec => []ClosedInOrder
<1>1. ServerInv => ClosedInOrder
  BY DEF ServerInv, ClosedLast, ClosedInOrder
<1>2. QED
  BY ServerInvariance, <1>1, PTL

(* serveHTTP leaves a handler running only if it reports the timeout, and  *)
(* reports why Serve returned.                                             *)
THEOREM ReturnIsTrue == ServerSpec => []ReturnsTruth
<1>1. ServerInv => ReturnsTruth
  BY DEF ServerInv, Drained, Collected, ReturnsTruth
<1>2. QED
  BY ServerInvariance, <1>1, PTL
=============================================================================
