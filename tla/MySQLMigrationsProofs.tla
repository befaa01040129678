------------------------ MODULE MySQLMigrationsProofs ------------------------
(***************************************************************************)
(* The safety of the MySQL migration runner, for any builds, migrations    *)
(* and number of servers.  The invariant says that the work in progress    *)
(* belongs to the session that has the lock and to the marked migration,   *)
(* which is the oldest that is not recorded.                               *)
(***************************************************************************)
EXTENDS MySQLMigrations, WellFoundedInduction, TLAPS

Locked == \A r \in Runners : pc[r] \in Started => holder = r

(* Only a runner that was given statements has some left. *)
Counted == \A r \in Runners : left[r] > 0 => pc[r] \in {"run", "failed"}

Planned ==
    \A r \in Runners : pc[r] \in {"mark", "run", "finish"} =>
        todo[r] = {v \in Plans[r] : v > version}

(* A session that is executing, or has executed, the marked migration. *)
Working(r) ==
    \/ pc[r] = "run"
    \/ pc[r] = "finish"
    \/ pc[r] = "failed" /\ holder = r /\ left[r] > 0

Accounted ==
    \A r \in Runners : Working(r) =>
        /\ pending \in todo[r] /\ pending = First(todo[r])
        /\ schema[pending] + left[r] = Stmts[pending]

(* The marked migration is the oldest that is not recorded. *)
MarkedIsNext ==
    pending # 0 => /\ version < pending
                   /\ \A w \in Versions : w < pending => w <= version

Served == \A r \in Runners : pc[r] = "done" => \A v \in Plans[r] : v <= version

IInv == /\ TypeOK /\ Locked /\ Counted /\ Planned /\ Accounted
        /\ MarkedIsNext /\ Served /\ BookkeepingTells

-----------------------------------------------------------------------------
(* A set of versions has a first one. *)
LEMMA FirstIsLeast ==
    ASSUME NEW V, V \subseteq Versions, V # {}
    PROVE  First(V) \in V /\ \A w \in V : First(V) <= w
<1>1. V \subseteq Nat
  BY VersionsAssumption
<1> DEFINE Less == {ss \in Nat \X Nat : ss[1] < ss[2]}
<1>2. IsWellFoundedOn(Less, Nat)
  BY NatLessThanWellFounded, Zenon DEF OpToRel
<1>3. \E v \in V : \A w \in V : <<w, v>> \notin Less
  <2> HIDE DEF Less
  <2>1. QED
    BY <1>1, <1>2, WFMin
<1>4. \E v \in V : \A w \in V : v <= w
  <2>1. PICK v \in V : \A w \in V : <<w, v>> \notin Less
    BY <1>3
  <2>2. ASSUME NEW w \in V PROVE v <= w
    <3>1. v \in Nat /\ w \in Nat /\ <<w, v>> \in Nat \X Nat /\ <<w, v>> \notin Less
      BY <1>1, <2>1
    <3>2. ~(w < v)
      BY <3>1
    <3>3. QED
      BY <3>1, <3>2
  <2>3. QED
    BY <2>2
<1>5. QED
  BY <1>4 DEF First

(* The first migration that is to be applied is the one after version, and *)
(* recording it leaves the others to be applied.                           *)
LEMMA FirstIsNext ==
    ASSUME NEW r \in Runners, version \in Versions \cup {0},
           NEW V, V = {v \in Plans[r] : v > version}, V # {}
    PROVE  /\ First(V) \in V /\ First(V) \in Versions
           /\ First(V) \in Nat /\ First(V) # 0 /\ version < First(V)
           /\ \A w \in Versions : w < First(V) => w <= version
           /\ V \ {First(V)} = {v \in Plans[r] : v > First(V)}
<1>1. Plans[r] \subseteq Versions /\ V \subseteq Versions
  BY PlansAssumption
<1>2. First(V) \in V /\ \A w \in V : First(V) <= w
  BY <1>1, FirstIsLeast
<1>3. /\ First(V) \in Versions /\ First(V) \in Plans[r] /\ First(V) > version
      /\ version \in Nat /\ Versions \subseteq Nat \ {0} /\ First(V) \in Nat \ {0}
  <2>1. First(V) \in Versions /\ First(V) \in Plans[r] /\ First(V) > version
    BY <1>1, <1>2
  <2>2. Versions \subseteq Nat \ {0}
    BY VersionsAssumption
  <2>3. version \in Nat
    BY <2>2
  <2>4. QED
    BY <2>1, <2>2, <2>3
<1>4. ASSUME NEW w \in Versions, w < First(V) PROVE w <= version
  <2>1. w \in Plans[r]
    BY <1>3, <1>4, PlansAssumption
  <2>2. QED
    BY <2>1, <1>2, <1>3, <1>4
<1>5. ASSUME NEW w PROVE w \in V \ {First(V)} <=> w \in {v \in Plans[r] : v > First(V)}
  <2>1. CASE w \in Versions
    BY <2>1, <1>1, <1>2, <1>3
  <2>2. CASE w \notin Versions
    BY <2>2, <1>1
  <2>3. QED
    BY <2>1, <2>2
<1>6. QED
  BY <1>2, <1>3, <1>4, <1>5

LEMMA InitIInv == Init => IInv
  BY VersionsAssumption, StmtsAssumption
     DEF Init, IInv, TypeOK, Locked, Counted, Planned, Accounted, Working, MarkedIsNext,
         Served, BookkeepingTells, Started

(* The numbers that occur. *)
LEMMA Numbers ==
    ASSUME TypeOK
    PROVE  /\ Versions \subseteq Nat \ {0} /\ version \in Nat /\ pending \in Nat
           /\ pending # 0 => pending \in Versions
           /\ \A r \in Runners : left[r] \in Nat /\ Plans[r] \subseteq Versions
           /\ \A v \in Versions : /\ Stmts[v] \in Nat /\ Stmts[v] > 0
                                  /\ schema[v] \in Nat /\ schema[v] <= Stmts[v]
  BY VersionsAssumption, PlansAssumption, StmtsAssumption DEF TypeOK

-----------------------------------------------------------------------------
LEMMA GetLockStep == ASSUME IInv, NEW r \in Runners, GetLock(r) PROVE IInv'
<1> USE Numbers DEF IInv, TypeOK, GetLock, Goto, Started
<1>1. TypeOK'
  OBVIOUS
<1>2. Locked' /\ Counted' /\ Planned' /\ Served'
  BY NoneAssumption DEF Locked, Counted, Planned, Served
<1>3. Accounted'
  BY NoneAssumption DEF Accounted, Working, Locked, Counted
<1>4. MarkedIsNext' /\ BookkeepingTells'
  BY DEF MarkedIsNext, BookkeepingTells
<1>5. QED
  BY <1>1, <1>2, <1>3, <1>4

(* The runner returns without having changed anything. *)
LEMMA LeaveStep ==
    ASSUME IInv, NEW r \in Runners, NEW outcome \in {"done", "failed"}, Leave(r, outcome),
           pc[r] \in Started,
           outcome = "done" => pc[r] = "mark" /\ todo[r] = {},
           UNCHANGED <<schema, version, pending, left>>
    PROVE  IInv'
<1> USE Numbers DEF IInv, TypeOK, Leave, Goto, Started
<1>1. TypeOK'
  OBVIOUS
<1>2. Locked' /\ Counted' /\ Planned'
  BY NoneAssumption DEF Locked, Counted, Planned
<1>3. Served'
  BY DEF Served, Planned
<1>4. Accounted'
  BY NoneAssumption DEF Accounted, Working, Locked, Counted
<1>5. MarkedIsNext' /\ BookkeepingTells'
  BY DEF MarkedIsNext, BookkeepingTells
<1>6. QED
  BY <1>1, <1>2, <1>3, <1>4, <1>5

LEMMA CheckPendingStep == ASSUME IInv, NEW r \in Runners, CheckPending(r) PROVE IInv'
<1>1. CASE Leave(r, "failed")
  BY <1>1, LeaveStep DEF CheckPending, Started
<1>2. CASE Goto(r, "version") /\ UNCHANGED <<holder, todo>>
  <2> USE <1>2, Numbers DEF IInv, TypeOK, CheckPending, Goto, Started
  <2>1. TypeOK'
    OBVIOUS
  <2>2. Locked' /\ Counted' /\ Planned' /\ Served'
    BY DEF Locked, Counted, Planned, Served
  <2>3. Accounted'
    BY DEF Accounted, Working
  <2>4. MarkedIsNext' /\ BookkeepingTells'
    BY DEF MarkedIsNext, BookkeepingTells
  <2>5. QED
    BY <2>1, <2>2, <2>3, <2>4
<1>3. QED
  BY <1>1, <1>2 DEF CheckPending

LEMMA ReadVersionStep == ASSUME IInv, NEW r \in Runners, ReadVersion(r) PROVE IInv'
<1> USE Numbers DEF IInv, TypeOK, ReadVersion, Goto, Started
<1>1. TypeOK'
  OBVIOUS
<1>2. Locked' /\ Counted' /\ Served'
  BY DEF Locked, Counted, Served
<1>3. Planned'
  BY DEF Planned
<1>4. Accounted'
  BY DEF Accounted, Working
<1>5. MarkedIsNext' /\ BookkeepingTells'
  BY DEF MarkedIsNext, BookkeepingTells
<1>6. QED
  BY <1>1, <1>2, <1>3, <1>4, <1>5

(* The marker is set: by the one runner with the lock, for the next one.   *)
LEMMA MarkStep == ASSUME IInv, NEW r \in Runners, Mark(r) PROVE IInv'
<1> USE Numbers DEF IInv, TypeOK, Mark, Leave, Goto, Started
<1> DEFINE f == First(todo[r])
<1>1. /\ f \in todo[r] /\ f \in Versions /\ f \in Nat /\ f # 0 /\ version < f
      /\ \A w \in Versions : w < f => w <= version
      /\ pending = 0 /\ pending' = f /\ pc[r] = "mark" /\ holder = r
  BY FirstIsNext DEF Planned, Locked
<1>2. left[r] = 0 /\ schema[f] = 0
  BY <1>1 DEF Counted, BookkeepingTells
<1>3. left' = [left EXCEPT ![r] = Stmts[f]] \/ left' = left
  OBVIOUS
<1>4. pc' \in {[pc EXCEPT ![r] = "run"], [pc EXCEPT ![r] = "failed"]}
  OBVIOUS
<1> HIDE DEF f
<1>5. TypeOK'
  BY <1>1, <1>3, <1>4
<1>6. Locked' /\ Counted' /\ Planned' /\ Served'
  BY <1>1, <1>2, NoneAssumption DEF f, Locked, Counted, Planned, Served
<1>7. \A q \in Runners \ {r} : ~Working(q)
  BY <1>1, NoneAssumption DEF Working, Locked
<1>8. Accounted'
  <2>1. ASSUME NEW q \in Runners, Working(q)' PROVE q = r /\ pc'[r] = "run"
    <3>1. CASE q = r
      BY <2>1, <3>1, <1>1, <1>2 DEF Working
    <3>2. CASE q # r
      <4>1. pc'[q] = pc[q] /\ left'[q] = left[q] /\ holder' \in {r, None}
        BY <3>2, <1>1, <1>3, <1>4
      <4>2. holder' # q
        BY <3>2, <4>1, NoneAssumption
      <4>3. QED
        BY <2>1, <3>2, <4>1, <4>2, <1>7 DEF Working
    <3>3. QED
      BY <3>1, <3>2
  <2>2. CASE pc'[r] = "run"
    <3>1. /\ left'[r] = Stmts[f] /\ todo' = todo /\ schema' = schema
          /\ pending' = First(todo[r])
      BY <2>2, <1>1 DEF f
    <3>2. schema'[pending'] + left'[r] = Stmts[pending']
      BY <3>1, <1>1, <1>2
    <3>3. pending' \in todo'[r] /\ pending' = First(todo'[r])
      BY <3>1, <1>1
    <3>4. QED
      BY <2>1, <3>2, <3>3 DEF Accounted
  <2>3. QED
    BY <2>1, <2>2 DEF Accounted
<1>9. MarkedIsNext' /\ BookkeepingTells'
  BY <1>1 DEF MarkedIsNext, BookkeepingTells
<1>10. QED
  BY <1>5, <1>6, <1>8, <1>9

(* What is known when a session executes a statement. *)
LEMMA StatementFacts ==
    ASSUME IInv, NEW r \in Runners, Statement(r)
    PROVE  /\ Working(r) /\ holder = r /\ pending \in Versions /\ pending \in todo[r]
           /\ First(todo[r]) = pending /\ left[r] \in Nat \ {0}
           /\ schema[pending] + left[r] = Stmts[pending]
           /\ schema[pending] \in Nat /\ Stmts[pending] \in Nat
           /\ version < pending
           /\ \A w \in Versions : w < pending => schema[w] = Stmts[w]
<1> USE Numbers DEF IInv
<1>1. Working(r) /\ holder = r /\ left[r] \in Nat \ {0}
  BY DEF Statement, Working, Locked, Started
<1>2. /\ pending \in todo[r] /\ First(todo[r]) = pending
      /\ schema[pending] + left[r] = Stmts[pending]
  BY <1>1 DEF Accounted
<1>3. pending \in Versions /\ pending # 0
  BY <1>2 DEF TypeOK
<1>4. version < pending /\ \A w \in Versions : w < pending => schema[w] = Stmts[w]
  BY <1>3 DEF MarkedIsNext, BookkeepingTells
<1>5. QED
  BY <1>1, <1>2, <1>3, <1>4

LEMMA StatementStep == ASSUME IInv, NEW r \in Runners, Statement(r) PROVE IInv'
<1> USE Numbers, StatementFacts DEF IInv, TypeOK, Started
<1>1. /\ schema' = [schema EXCEPT ![pending] = @ + 1]
      /\ left' = [left EXCEPT ![r] = @ - 1]
      /\ UNCHANGED <<version, pending, holder, pc, todo>>
      /\ pc[r] \in {"run", "failed"}
  BY DEF Statement
<1>2. \A v \in Versions : schema'[v] = IF v = pending THEN schema[v] + 1 ELSE schema[v]
  BY <1>1
<1>3. TypeOK'
  BY <1>1, <1>2
<1>4. Locked' /\ Counted' /\ Planned' /\ Served'
  BY <1>1 DEF Locked, Counted, Planned, Served
<1>5. \A q \in Runners \ {r} : ~Working(q)
  BY NoneAssumption DEF Working, Locked
<1>6. Accounted'
  <2>1. \A q \in Runners : Working(q)' => q = r
    BY <1>1, <1>5 DEF Working
  <2>2. pending \in todo[r] /\ pending = First(todo[r])
    OBVIOUS
  <2>3. schema'[pending] + left'[r] = Stmts[pending]
    BY <1>1, <1>2
  <2>4. QED
    BY <2>1, <2>2, <2>3, <1>1 DEF Accounted
<1>7. MarkedIsNext' /\ BookkeepingTells'
  BY <1>1, <1>2 DEF MarkedIsNext, BookkeepingTells
<1>8. QED
  BY <1>3, <1>4, <1>6, <1>7

LEMMA RanStep == ASSUME IInv, NEW r \in Runners, Ran(r) PROVE IInv'
<1> USE Numbers DEF IInv, TypeOK, Ran, Goto, Started
<1>1. TypeOK'
  OBVIOUS
<1>2. Locked' /\ Counted' /\ Planned' /\ Served'
  BY DEF Locked, Counted, Planned, Served
<1>3. Accounted'
  BY DEF Accounted, Working
<1>4. MarkedIsNext' /\ BookkeepingTells'
  BY DEF MarkedIsNext, BookkeepingTells
<1>5. QED
  BY <1>1, <1>2, <1>3, <1>4

(* The version is recorded and the marker removed.                         *)
LEMMA FinishStep == ASSUME IInv, NEW r \in Runners, Finish(r) PROVE IInv'
<1> USE Numbers DEF IInv, TypeOK, Finish, Leave, Goto, Started
<1> DEFINE f == First(todo[r])
<1>1. /\ f \in todo[r] /\ f \in Versions /\ f \in Nat /\ f # 0 /\ version < f
      /\ \A w \in Versions : w < f => w <= version
      /\ todo[r] \ {f} = {v \in Plans[r] : v > f}
      /\ pc[r] = "finish" /\ holder = r
  <2>1. todo[r] # {} /\ todo[r] = {v \in Plans[r] : v > version}
    BY DEF Accounted, Working, Planned
  <2>2. QED
    BY <2>1, FirstIsNext DEF Locked
<1>2. /\ pending = f /\ left[r] = 0 /\ schema[f] = Stmts[f]
  BY <1>1 DEF Accounted, Working, Counted
<1>3. version' = f /\ pending' = 0 /\ UNCHANGED <<schema, left>>
  OBVIOUS
<1>4. \/ /\ pc' = [pc EXCEPT ![r] = "mark"] /\ holder' = holder
         /\ todo' = [todo EXCEPT ![r] = @ \ {f}]
      \/ /\ pc' = [pc EXCEPT ![r] = "failed"] /\ holder' \in {holder, None}
         /\ todo' = todo
  OBVIOUS
<1> HIDE DEF f, Finish, Leave, Goto
<1>5. TypeOK'
  BY <1>1, <1>3, <1>4
<1>6. \A q \in Runners \ {r} : pc[q] \notin Started /\ ~Working(q)
  BY <1>1, NoneAssumption DEF Working, Locked
<1>7. Locked' /\ Counted'
  BY <1>1, <1>2, <1>3, <1>4, NoneAssumption DEF Locked, Counted
<1>8. Planned'
  <2>1. ASSUME NEW q \in Runners, pc'[q] \in {"mark", "run", "finish"}
        PROVE  q = r /\ pc'[r] = "mark"
    BY <2>1, <1>4, <1>6
  <2>2. CASE pc'[r] = "mark"
    <3>1. todo'[r] = todo[r] \ {f}
      BY <1>4, <2>2
    <3>2. todo'[r] = {v \in Plans[r] : v > version'}
      BY <3>1, <1>1, <1>3
    <3>3. QED
      BY <2>1, <3>2 DEF Planned
  <2>3. QED
    BY <2>1, <2>2 DEF Planned
<1>9. Accounted'
  BY <1>2, <1>3, <1>4, <1>6, NoneAssumption DEF Accounted, Working
<1>10. Served'
  <2>1. ASSUME NEW q \in Runners, pc'[q] = "done", NEW v \in Plans[q] PROVE v <= f
    <3>1. pc[q] = "done"
      BY <2>1, <1>4
    <3>2. v <= version /\ v \in Nat /\ version \in Nat
      BY <3>1 DEF Served
    <3>3. QED
      BY <3>2, <1>1
  <2>2. QED
    BY <2>1, <1>3 DEF Served
<1>11. MarkedIsNext' /\ BookkeepingTells'
  <2>1. ASSUME NEW v \in Versions PROVE v <= f <=> v <= version \/ v = f
    <3>1. v \in Nat /\ version \in Nat /\ f \in Nat /\ version < f
          /\ (v < f => v <= version)
      BY <1>1
    <3>2. QED
      BY <3>1
  <2>2. QED
    BY <1>1, <1>2, <1>3, <2>1 DEF MarkedIsNext, BookkeepingTells
<1>12. QED
  BY <1>5, <1>7, <1>8, <1>9, <1>10, <1>11

LEMMA SessionEndsStep == ASSUME IInv, NEW r \in Runners, SessionEnds(r) PROVE IInv'
<1> USE Numbers DEF IInv, TypeOK, SessionEnds, Started
<1>1. TypeOK'
  OBVIOUS
<1>2. Locked' /\ Counted' /\ Planned' /\ Served'
  BY DEF Locked, Counted, Planned, Served
<1>3. Accounted'
  BY NoneAssumption DEF Accounted, Working
<1>4. MarkedIsNext' /\ BookkeepingTells'
  BY DEF MarkedIsNext, BookkeepingTells
<1>5. QED
  BY <1>1, <1>2, <1>3, <1>4

LEMMA RepairStep == ASSUME IInv, Repair PROVE IInv'
<1> USE Numbers DEF IInv, TypeOK, Started
<1>1. /\ pending \in Versions /\ pending' = 0 /\ holder = None
      /\ version < pending /\ \A w \in Versions : w < pending => w <= version
      /\ UNCHANGED <<holder, pc, todo, left>>
  BY DEF Repair, MarkedIsNext
<1>2. \/ schema' = [schema EXCEPT ![pending] = 0] /\ version' = version
      \/ schema' = [schema EXCEPT ![pending] = Stmts[pending]] /\ version' = pending
  BY DEF Repair
<1>3. \A r \in Runners : pc[r] \notin Started /\ ~Working(r)
  BY <1>1, NoneAssumption DEF Locked, Working
<1>4. TypeOK'
  BY <1>1, <1>2
<1>5. Locked' /\ Counted' /\ Planned' /\ Served'
  BY <1>1, <1>2, <1>3 DEF Locked, Counted, Planned, Served
<1>6. Accounted'
  BY <1>1, <1>3 DEF Accounted, Working
<1>7. MarkedIsNext' /\ BookkeepingTells'
  BY <1>1, <1>2 DEF MarkedIsNext, BookkeepingTells
<1>8. QED
  BY <1>4, <1>5, <1>6, <1>7

LEMMA StepIInv == ASSUME IInv, [Next]_vars PROVE IInv'
<1>1. CASE Repair
  BY <1>1, RepairStep
<1>2. ASSUME NEW r \in Runners, Step(r) PROVE IInv'
  <2>1. CASE Return(r)
    BY <2>1, LeaveStep DEF Return, Started
  <2>2. CASE Fail(r)
    BY <2>2, LeaveStep DEF Fail
  <2>3. QED
    BY <1>2, <2>1, <2>2, GetLockStep, CheckPendingStep, ReadVersionStep, MarkStep,
       StatementStep, RanStep, FinishStep, SessionEndsStep DEF Step
<1>3. CASE UNCHANGED vars
  BY <1>3 DEF vars, IInv, TypeOK, Locked, Counted, Planned, Accounted, Working,
              MarkedIsNext, Served, BookkeepingTells
<1>4. QED
  BY <1>1, <1>2, <1>3 DEF Next

-----------------------------------------------------------------------------
(* The inductive invariant holds in every state. *)
THEOREM Invariance == Spec => []IInv
  BY InitIInv, StepIInv, PTL DEF Spec

(* MySQLMigrations keeps its types, with no statement executed twice. *)
THEOREM TypeCorrect == Spec => []TypeOK
<1>1. IInv => TypeOK
  BY DEF IInv
<1>2. QED
  BY Invariance, <1>1, PTL

(* schema_migrations and schema_migration_pending describe the schema. *)
THEOREM BookkeepingIsTrue == Spec => []BookkeepingTells
<1>1. IInv => BookkeepingTells
  BY DEF IInv
<1>2. QED
  BY Invariance, <1>1, PTL

(* RunMigrations returns without an error only on a migrated schema. *)
THEOREM ServersStartMigrated == Spec => []StartsMigrated
<1>1. IInv => StartsMigrated
  BY Numbers DEF IInv, Served, BookkeepingTells, StartsMigrated
<1>2. QED
  BY Invariance, <1>1, PTL

(* Sessions execute the statements of the marked migration, in order. *)
THEOREM StatementsAreInOrder == Spec => StatementsInOrder
<1>1. ASSUME IInv, [Next]_vars PROVE [InOrder]_vars
  <2>1. CASE \E r \in Runners : Statement(r)
    <3>1. PICK r \in Runners : Statement(r)
      BY <2>1
    <3>2. ASSUME NEW v \in Versions, schema'[v] = schema[v] + 1 PROVE v = pending
      <4>1. schema' = [schema EXCEPT ![pending] = @ + 1]
        BY <1>1, <3>1, StatementFacts DEF Statement
      <4>2. schema \in [Versions -> Nat]
        BY <1>1 DEF IInv, TypeOK
      <4>3. QED
        BY <3>2, <4>1, <4>2
    <3>3. pending' = pending
      BY <3>1 DEF Statement
    <3>4. holder # None /\ left[holder] = Stmts[pending] - schema[pending]
      BY <1>1, <3>1, StatementFacts, NoneAssumption
    <3>5. QED
      BY <1>1, <3>1, <3>2, <3>3, <3>4, StatementFacts DEF InOrder
  <2>2. CASE ~\E r \in Runners : Statement(r)
    <3>1. schema' = schema \/ pending' = 0
      BY <1>1, <2>2
         DEF Next, Step, Repair, GetLock, CheckPending, ReadVersion, Mark, Ran, Finish,
             Return, Fail, SessionEnds, vars
    <3>2. QED
      BY <1>1, <3>1, Numbers DEF InOrder, IInv
  <2>3. QED
    BY <2>1, <2>2
<1>2. QED
  BY <1>1, Invariance, PTL DEF Spec, StatementsInOrder
=============================================================================
