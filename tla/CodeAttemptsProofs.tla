------------------------- MODULE CodeAttemptsProofs -------------------------
(***************************************************************************)
(* Codes are tried no oftener than budgeted and accepted in time, for all  *)
(* requests, windows, limits and lifetimes.                                *)
(*                                                                         *)
(* That the tries are bounded does not follow from the state alone, which  *)
(* forgets a window when its row is removed: Counted says that there are n *)
(* past windows, the time o at which the current one was opened and the    *)
(* number g of requests it granted that account for every try so far.      *)
(***************************************************************************)
EXTENDS CodeAttempts, FiniteSetTheorems, TLAPS

(* How far apart windows are, and how much each grants. *)
Gap == Window["verify"] - Lag
Cap == Limit["verify"]

(* The requests that were granted a try and have not tried yet. *)
Able == {r \in Requests : at[r] \in {"begin", "try"}}

Counted(n, g, o) ==
    /\ n * Gap <= o /\ o <= clock
    /\ g <= Cap /\ tries + Cardinality(Able) <= Cap * n + g
    /\ LET row == rows["verify"]
       IN  IF row = NoRow THEN g = 0 \/ o + Gap <= clock
                          ELSE g <= row.requests /\ o + Gap <= row.expires

Budgeted == \E n, g, o \in Nat : Counted(n, g, o)

(* What a request last read is no older than the request may be. *)
Recent == \A r \in Requests : at[r] # "idle" => /\ start[r] <= now[r] /\ now[r] <= clock
                                                /\ clock - start[r] <= Lag

IInv == TypeOK /\ Recent

(* The upsert leaves a row. *)
LEMMA TakenRow ==
    ASSUME NEW b \in Buckets, NEW row \in Row, NEW t \in Nat
    PROVE  Taken(b, row, t) \in Row
BY LimitAssumption, WindowAssumption DEF Taken, Row, Lapsed, Least

LEMMA InitIInv == Init => IInv
BY DEF Init, IInv, TypeOK, Recent, NoRow, Row, NoCode, Places

LEMMA StepIInv == ASSUME IInv, [Next]_vars PROVE IInv'
<1> USE DEF IInv, TypeOK, Recent, Goto, ReadClock, Leave, Places
<1>1. ASSUME NEW r \in Requests, Arrive(r) PROVE IInv'
  BY <1>1, LagAssumption, BucketsAssumption DEF Arrive
<1>2. ASSUME NEW r \in Requests, Charge(r) PROVE IInv'
  <2>1. Taken(at[r], rows[at[r]], now[r]) \in Row
    BY <1>2, TakenRow DEF Charge
  <2>2. rows' \in [Buckets -> Row]
    BY <1>2, <2>1 DEF Charge
  <2>3. Granted[at[r]] \in Places
    BY <1>2, BucketsAssumption DEF Charge, Granted
  <2>4. CASE at' = [at EXCEPT ![r] = "idle"]
    BY <1>2, <2>2, <2>4, LagAssumption, BucketsAssumption DEF Charge
  <2>5. CASE at' = [at EXCEPT ![r] = Granted[at[r]]] /\ now' = [now EXCEPT ![r] = clock]
             /\ UNCHANGED start
    BY <1>2, <2>2, <2>3, <2>5, LagAssumption, BucketsAssumption DEF Charge
  <2>6. QED
    BY <1>2, <2>4, <2>5 DEF Charge
<1>3. ASSUME NEW r \in Requests, Fail(r) PROVE IInv'
  BY <1>3 DEF Fail
<1>4. ASSUME NEW r \in Requests, DrawCode(r) PROVE IInv'
  BY <1>4 DEF DrawCode
<1>5. ASSUME NEW r \in Requests, SaveCode(r) PROVE IInv'
  BY <1>5, LifetimeAssumption DEF SaveCode
<1>6. ASSUME NEW r \in Requests, Begin(r) PROVE IInv'
  BY <1>6 DEF Begin
<1>7. ASSUME NEW r \in Requests, Try(r) PROVE IInv'
  BY <1>7 DEF Try, NoCode
<1>8. CASE Maintain /\ UNCHANGED <<clock, at, start, now, tries>>
  BY <1>8 DEF Maintain, NoCode, NoRow, Row
<1>9. CASE DeleteAccount
  BY <1>9 DEF DeleteAccount, NoCode
<1>10. CASE Tick
  BY <1>10, LagAssumption DEF Tick
<1>11. CASE UNCHANGED vars
  BY <1>11 DEF vars
<1> HIDE DEF IInv
<1>12. QED
  BY <1>1, <1>2, <1>3, <1>4, <1>5, <1>6, <1>7, <1>8, <1>9, <1>10, <1>11 DEF Next

(* The inductive invariant holds in every state. *)
THEOREM Invariance == Spec => []IInv
BY InitIInv, StepIInv, PTL DEF Spec

(* CodeAttempts keeps its types. *)
THEOREM TypeCorrect == Spec => []TypeOK
<1>1. IInv => TypeOK
  BY DEF IInv
<1>2. QED
  BY Invariance, <1>1, PTL

(* Consume...Request takes no code a lag or more after its expiry. *)
LEMMA StepAccepts ==
    ASSUME IInv, [Next]_vars, NEW r \in Requests,
           at[r] = "try", at'[r] = "idle", code # NoCode, code' = NoCode
    PROVE  clock < code + Lag
<1> USE DEF IInv, TypeOK, Goto, ReadClock, Leave, Places
<1>1. CASE Try(r)
  BY <1>1, LagAssumption DEF Try, Live, Recent
<1>2. ASSUME NEW q \in Requests, Arrive(q) \/ Charge(q) \/ Fail(q) \/ DrawCode(q) \/ Begin(q)
      PROVE  FALSE
  BY <1>2 DEF Arrive, Charge, Fail, DrawCode, Begin
<1>3. ASSUME NEW q \in Requests, SaveCode(q) PROVE FALSE
  BY <1>3, LifetimeAssumption DEF SaveCode, NoCode
<1>4. ASSUME NEW q \in Requests, q # r, Try(q) PROVE FALSE
  BY <1>4 DEF Try
<1>5. CASE DeleteAccount \/ Tick \/ UNCHANGED vars
            \/ (Maintain /\ UNCHANGED <<clock, at, start, now, tries>>)
  BY <1>5 DEF DeleteAccount, Tick, vars
<1>6. QED
  BY <1>1, <1>2, <1>3, <1>4, <1>5 DEF Next

(* A code is accepted less than Lag after it expired. *)
THEOREM AcceptsInTime == Spec => AcceptedInTime
<1>1. ASSUME IInv, [Next]_vars
      PROVE  [\A r \in Requests :
                 (at[r] = "try" /\ at'[r] = "idle" /\ code # NoCode /\ code' = NoCode)
                     => clock < code + Lag]_vars
  BY <1>1, StepAccepts
<1>2. QED
  BY Invariance, <1>1, PTL DEF Spec, AcceptedInTime

-----------------------------------------------------------------------------
(* The number of tries *)

LEMMA ConstantTypes == /\ Gap \in Nat \ {0} /\ Cap \in Nat \ {0}
                       /\ Window["verify"] = Gap + Lag /\ Lag \in Nat
BY LimitAssumption, WindowAssumption, LagAssumption, BucketsAssumption DEF Gap, Cap

LEMMA AbleFinite == IsFiniteSet(Able) /\ Cardinality(Able) \in Nat
<1>1. IsFiniteSet(Able)
  BY RequestsAssumption, FS_Subset DEF Able
<1>2. QED
  BY <1>1, FS_CardinalityType

(* One request more, or less, that may try. *)
LEMMA AbleJoins ==
    ASSUME NEW r \in Requests, Able' = Able \cup {r}, r \notin Able
    PROVE  Cardinality(Able') = Cardinality(Able) + 1
BY AbleFinite, FS_AddElement

LEMMA AbleLeaves ==
    ASSUME NEW r \in Requests, r \in Able, Able' = Able \ {r}
    PROVE  Cardinality(Able') = Cardinality(Able) - 1
BY AbleFinite, FS_RemoveElement

(* The step of the verification budget that adds a window, in integers. *)
LEMMA NextWindow ==
    ASSUME NEW n \in Nat, NEW d \in Nat, NEW c \in Nat, n * d + d <= c
    PROVE  (n + 1) * d <= c /\ n * d <= c
BY SMT

LEMMA NextCap ==
    ASSUME NEW n \in Nat, NEW c \in Nat PROVE c * (n + 1) = c * n + c /\ c * n \in Nat
BY SMT

(* A step that moves no request into or out of Able, tries nothing, and    *)
(* leaves the row of the budget alone or removes it once it lapsed.        *)
LEMMA CountedQuiet ==
    ASSUME IInv, NEW n \in Nat, NEW g \in Nat, NEW o \in Nat, Counted(n, g, o),
           clock' \in Nat, clock <= clock', tries' = tries, Cardinality(Able') <= Cardinality(Able),
           Cardinality(Able') \in Nat,
           \/ rows'["verify"] = rows["verify"]
           \/ rows'["verify"] = NoRow /\ Lapsed(rows["verify"], clock)
    PROVE  Counted(n, g, o)'
<1>1. n * Gap \in Nat /\ Cap * n \in Nat /\ rows["verify"] \in Row
  BY ConstantTypes, BucketsAssumption, NextCap DEF IInv, TypeOK
<1>2. CASE rows'["verify"] = rows["verify"]
  BY <1>1, <1>2, ConstantTypes, AbleFinite DEF Counted, IInv, TypeOK, Row, NoRow, Gap, Cap
<1>3. CASE rows'["verify"] = NoRow /\ Lapsed(rows["verify"], clock)
  BY <1>1, <1>3, ConstantTypes, AbleFinite DEF Counted, IInv, TypeOK, Row, NoRow, Lapsed, Gap, Cap
<1>4. QED
  BY <1>2, <1>3

(* A charge that is granted. *)
LEMMA CountedGrant ==
    ASSUME IInv, NEW n \in Nat, NEW g \in Nat, NEW o \in Nat, Counted(n, g, o),
           NEW t \in Nat, t <= clock, clock - t <= Lag,
           clock' = clock, tries' = tries, Cardinality(Able') = Cardinality(Able) + 1,
           rows'["verify"] = Taken("verify", rows["verify"], t),
           ~OverLimit("verify", rows'["verify"])
    PROVE  Budgeted'
<1> DEFINE row == rows["verify"]
<1>1. row \in Row /\ "verify" \in Buckets /\ clock \in Nat /\ tries \in Nat
  BY BucketsAssumption DEF IInv, TypeOK
<1>2. n * Gap \in Nat /\ Cap * n \in Nat /\ Cardinality(Able) \in Nat
  BY ConstantTypes, NextCap, AbleFinite
<1>3. CASE Lapsed(row, t)
  <2>1. rows'["verify"] = [requests |-> 1, expires |-> t + Gap + Lag]
    BY <1>1, <1>3, ConstantTypes DEF Taken
  <2>2. rows'["verify"] # NoRow
    BY <2>1 DEF NoRow
  <2>3. CASE o + Gap <= clock
    <3>1. (n + 1) * Gap <= clock
      BY <1>1, <1>2, <2>3, NextWindow, ConstantTypes DEF Counted
    <3>2. Cap * (n + 1) = Cap * n + Cap
      BY NextCap, ConstantTypes
    <3>3. tries' + Cardinality(Able') <= Cap * (n + 1) + 1
      BY <1>1, <1>2, <3>2, ConstantTypes DEF Counted
    <3>4. Counted(n + 1, 1, clock)'
      BY <1>1, <2>1, <2>2, <3>1, <3>3, ConstantTypes DEF Counted, Gap, Cap
    <3>5. QED
      BY <1>1, <3>4 DEF Budgeted
  <2>4. CASE g = 0
    <3>1. n * Gap <= clock
      BY <1>1, <1>2 DEF Counted
    <3>2. tries' + Cardinality(Able') <= Cap * n + 1
      BY <1>1, <1>2, <2>4 DEF Counted
    <3>3. Counted(n, 1, clock)'
      BY <1>1, <2>1, <2>2, <3>1, <3>2, ConstantTypes DEF Counted, Gap, Cap
    <3>4. QED
      BY <1>1, <3>3 DEF Budgeted
  <2>5. QED
    BY <1>1, <1>3, <2>3, <2>4, ConstantTypes DEF Counted, Lapsed, Row, NoRow
<1>4. CASE ~Lapsed(row, t)
  <2>1. row # NoRow
    BY <1>4 DEF Lapsed, NoRow
  <2>2. row.requests + 1 <= Cap /\ rows'["verify"] = [row EXCEPT !.requests = @ + 1]
    BY <1>1, <1>4, ConstantTypes DEF Taken, OverLimit, Least, Row, Cap
  <2>3. rows'["verify"] # NoRow /\ rows'["verify"].expires = row.expires
        /\ rows'["verify"].requests = row.requests + 1
    BY <1>1, <2>2 DEF Row, NoRow
  <2>4. g + 1 <= row.requests + 1 /\ o + Gap <= row.expires
    BY <1>1, <2>1 DEF Counted, Row
  <2>5. tries' + Cardinality(Able') <= Cap * n + (g + 1)
    BY <1>1, <1>2, ConstantTypes DEF Counted
  <2>6. Counted(n, g + 1, o)'
    BY <1>1, <1>2, <2>2, <2>3, <2>4, <2>5, ConstantTypes DEF Counted, Row, Gap, Cap
  <2>7. QED
    BY <2>6 DEF Budgeted
<1>5. QED
  BY <1>3, <1>4

LEMMA InitBudgeted == Init => Budgeted
<1> SUFFICES ASSUME Init PROVE Counted(0, 0, 0)
  BY DEF Budgeted
<1>1. Able = {}
  BY BucketsAssumption DEF Init, Able
<1>2. 0 * Gap = 0 /\ Cap * 0 = 0
  BY ConstantTypes
<1>3. QED
  BY <1>1, <1>2, FS_EmptySet, ConstantTypes, BucketsAssumption DEF Init, Counted

(* Every step but a granted charge and a try. *)
LEMMA BudgetedQuiet ==
    ASSUME IInv, Budgeted, clock' \in Nat, clock <= clock', tries' = tries,
           Able' = Able \/ \E r \in Able : Able' = Able \ {r},
           \/ rows'["verify"] = rows["verify"]
           \/ rows'["verify"] = NoRow /\ Lapsed(rows["verify"], clock)
    PROVE  Budgeted'
<1>1. Cardinality(Able') \in Nat /\ Cardinality(Able') <= Cardinality(Able)
  <2>1. CASE Able' = Able
    BY <2>1, AbleFinite
  <2>2. ASSUME NEW r \in Able, Able' = Able \ {r} PROVE Cardinality(Able') = Cardinality(Able) - 1
    BY <2>2, AbleFinite, FS_RemoveElement
  <2>3. ASSUME NEW r \in Able, Able' = Able \ {r} PROVE Cardinality(Able') \in Nat
    BY <2>3, AbleFinite, FS_RemoveElement, FS_CardinalityType
  <2>4. QED
    BY <2>1, <2>2, <2>3, AbleFinite
<1>2. QED
  BY <1>1, CountedQuiet DEF Budgeted

LEMMA StepBudgeted == ASSUME IInv, Budgeted, [Next]_vars PROVE Budgeted'
<1> USE DEF Goto, ReadClock, Leave
<1>1. /\ at \in [Requests -> Places] /\ clock \in Nat /\ tries \in Nat
      /\ rows \in [Buckets -> Row] /\ "verify" \in Buckets
      /\ start \in [Requests -> Nat] /\ now \in [Requests -> Nat]
  BY BucketsAssumption DEF IInv, TypeOK
<1>2. ASSUME NEW r \in Requests, Arrive(r) PROVE Budgeted'
  <2>1. Able' = Able
    BY <1>1, <1>2, BucketsAssumption DEF Arrive, Able
  <2>2. QED
    BY <1>1, <1>2, <2>1, BudgetedQuiet DEF Arrive
<1>3. ASSUME NEW r \in Requests, Charge(r) PROVE Budgeted'
  <2>1. r \notin Able /\ at[r] \in Buckets
    BY <1>3, BucketsAssumption DEF Charge, Able
  <2>2. CASE at[r] # "verify"
    <3>1. Able' = Able
      BY <1>1, <1>3, <2>1, <2>2, BucketsAssumption DEF Charge, Able, Granted
    <3>2. rows'["verify"] = rows["verify"]
      BY <1>1, <1>3, <2>2 DEF Charge
    <3>3. QED
      BY <1>1, <1>3, <3>1, <3>2, BudgetedQuiet DEF Charge
  <2>3. CASE at[r] = "verify"
    <3> DEFINE row == Taken("verify", rows["verify"], now[r])
    <3>1. row \in Row /\ rows'["verify"] = row
      BY <1>1, <1>3, <2>3, TakenRow DEF Charge
    <3>2. now[r] \in Nat /\ now[r] <= clock /\ clock - now[r] <= Lag
      BY <1>1, <2>3, ConstantTypes DEF IInv, Recent
    <3>3. CASE RetryAfter("verify", row, now[r]) > 0
      <4>1. ~Lapsed(row, now[r]) /\ OverLimit("verify", row)
        BY <3>1, <3>2, <3>3 DEF RetryAfter, Lapsed, Row
      <4>2. ~Lapsed(rows["verify"], now[r])
        BY <4>1, <1>1, ConstantTypes DEF Taken, OverLimit, Cap
      <4>3. Able' = Able
        <5>1. ~(RetryAfter("verify", row, now[r]) <= 0)
          BY <3>1, <3>2, <3>3, <4>1 DEF RetryAfter, Row
        <5>2. at' = [at EXCEPT ![r] = "idle"]
          BY <1>3, <2>3, <5>1 DEF Charge
        <5>3. QED
          BY <1>1, <2>1, <5>2 DEF Able
      <4>4. row.expires = rows["verify"].expires
        BY <1>1, <4>2 DEF Taken, Row
      <4>5. ASSUME NEW n \in Nat, NEW g \in Nat, NEW o \in Nat, Counted(n, g, o)
            PROVE  Counted(n, g, o)'
        <5>1. rows["verify"] # NoRow /\ row # NoRow
          BY <3>1, <3>2, <4>1, <4>2 DEF Lapsed, NoRow
        <5>2. row.requests > Cap /\ Cap \in Nat
          BY <4>1, ConstantTypes DEF OverLimit, Cap
        <5>3. g <= row.requests /\ o + Gap <= row.expires
          BY <1>1, <3>1, <4>4, <4>5, <5>1, <5>2 DEF Counted, Row
        <5>4. UNCHANGED <<clock, tries>>
          BY <1>3 DEF Charge
        <5>5. QED
          BY <3>1, <4>3, <4>5, <5>1, <5>3, <5>4 DEF Counted, Gap, Cap
      <4>6. QED
        BY <4>5 DEF Budgeted
    <3>4. CASE RetryAfter("verify", row, now[r]) <= 0
      <4>1. ~OverLimit("verify", row)
        BY <1>1, <3>1, <3>2, <3>4, ConstantTypes
           DEF RetryAfter, OverLimit, Taken, Lapsed, Row, Cap
      <4>2. at' = [at EXCEPT ![r] = "begin"]
        BY <1>1, <1>3, <2>3, <3>1, <3>2, <3>4 DEF Charge, Granted, RetryAfter, Row
      <4>3. Able' = Able \cup {r}
        BY <1>1, <4>2 DEF Able
      <4>4. QED
        BY <1>3, <2>1, <3>1, <3>2, <4>1, <4>3, AbleJoins, CountedGrant DEF Charge, Budgeted
    <3>5. QED
      BY <1>3, <2>3, <3>3, <3>4 DEF Charge
  <2>4. QED
    BY <2>2, <2>3
<1>4. ASSUME NEW r \in Requests, Fail(r) PROVE Budgeted'
  <2>1. Able' = Able \/ (r \in Able /\ Able' = Able \ {r})
    BY <1>1, <1>4, BucketsAssumption DEF Fail, Able
  <2>2. QED
    BY <1>1, <1>4, <2>1, BudgetedQuiet DEF Fail
<1>5. ASSUME NEW r \in Requests, DrawCode(r) PROVE Budgeted'
  <2>1. Able' = Able
    BY <1>1, <1>5 DEF DrawCode, Able
  <2>2. QED
    BY <1>1, <1>5, <2>1, BudgetedQuiet DEF DrawCode
<1>6. ASSUME NEW r \in Requests, SaveCode(r) PROVE Budgeted'
  <2>1. Able' = Able
    BY <1>1, <1>6 DEF SaveCode, Able
  <2>2. QED
    BY <1>1, <1>6, <2>1, BudgetedQuiet DEF SaveCode
<1>7. ASSUME NEW r \in Requests, Begin(r) PROVE Budgeted'
  <2>1. Able' = Able
    BY <1>1, <1>7 DEF Begin, Able
  <2>2. QED
    BY <1>1, <1>7, <2>1, BudgetedQuiet DEF Begin
<1>8. ASSUME NEW r \in Requests, Try(r) PROVE Budgeted'
  <2>1. r \in Able /\ Able' = Able \ {r}
    BY <1>1, <1>8 DEF Try, Able
  <2>2. Cardinality(Able') = Cardinality(Able) - 1
    BY <2>1, AbleLeaves
  <2>3. CASE tries' = tries
    BY <1>1, <1>8, <2>1, <2>3, BudgetedQuiet DEF Try
  <2>4. CASE tries' = tries + 1
    <3>1. UNCHANGED <<clock, rows>>
      BY <1>8 DEF Try
    <3>2. tries' + Cardinality(Able') = tries + Cardinality(Able)
      BY <1>1, <2>2, <2>4, AbleFinite
    <3>3. QED
      BY <3>1, <3>2 DEF Budgeted, Counted, Gap, Cap
  <2>5. QED
    BY <1>8, <2>3, <2>4 DEF Try
<1>9. CASE Maintain /\ UNCHANGED <<clock, at, start, now, tries>>
  <2>1. Able' = Able
    BY <1>9 DEF Able
  <2>2. \/ rows'["verify"] = rows["verify"]
        \/ rows'["verify"] = NoRow /\ Lapsed(rows["verify"], clock)
    BY <1>1, <1>9 DEF Maintain
  <2>3. QED
    BY <1>1, <1>9, <2>1, <2>2, BudgetedQuiet
<1>10. CASE DeleteAccount \/ Tick \/ UNCHANGED vars
  <2>1. Able' = Able /\ UNCHANGED <<rows, tries>> /\ clock' \in Nat /\ clock <= clock'
    BY <1>1, <1>10 DEF DeleteAccount, Tick, vars, Able
  <2>2. QED
    BY <2>1, BudgetedQuiet
<1>11. QED
  BY <1>2, <1>3, <1>4, <1>5, <1>6, <1>7, <1>8, <1>9, <1>10 DEF Next

(* What the count says of the tries. *)
LEMMA BudgetedBounds == ASSUME IInv, Budgeted PROVE TriesBounded
<1>1. PICK n, g, o \in Nat : Counted(n, g, o)
  BY DEF Budgeted
<1> DEFINE k == clock \div Gap
<1>2. clock \in Nat /\ tries \in Nat /\ Gap \in Nat \ {0} /\ Cap \in Nat \ {0}
      /\ Cardinality(Able) \in Nat
  BY ConstantTypes, AbleFinite DEF IInv, TypeOK
<1>3. n * Gap <= clock
  BY <1>1, <1>2 DEF Counted
<1>4. k \in Nat /\ n <= k
  <2>1. k \in Nat /\ clock < (k + 1) * Gap
    BY <1>2, SMT
  <2>2. ASSUME n > k PROVE FALSE
    <3>1. (k + 1) * Gap <= n * Gap
      BY <1>2, <2>1, <2>2, SMT
    <3>2. QED
      BY <1>2, <1>3, <2>1, <3>1
  <2>3. QED
    BY <2>1, <2>2
<1>5. Cap * n + Cap <= Cap * (1 + k)
  BY <1>2, <1>4, SMT
<1>6. tries <= Cap * n + Cap
  BY <1>1, <1>2, NextCap DEF Counted
<1>7. QED
  BY <1>2, <1>4, <1>5, <1>6, NextCap DEF TriesBounded, Gap, Cap

(* The codes of an identity are tried no oftener than its budget allows.   *)
THEOREM TriesAreBounded == Spec => []TriesBounded
<1>1. Spec => []Budgeted
  BY InitBudgeted, StepBudgeted, Invariance, PTL DEF Spec
<1>2. QED
  BY <1>1, BudgetedBounds, Invariance, PTL
=============================================================================
