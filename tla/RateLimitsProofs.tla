--------------------------- MODULE RateLimitsProofs ---------------------------
(***************************************************************************)
(* The request budgets hold for every set of calls, every buckets, limits, *)
(* windows and plans, and every bound Lag on the delay of the statements.  *)
(*                                                                         *)
(* The argument: while a row exists its count is the number of requests of *)
(* the window, as far as it is counted, and its end is at least a window's *)
(* length less the lag after the window was opened.  A row is removed, or  *)
(* its window replaced, only at a time past that end; and the time of the  *)
(* statement is never ahead of the clock.                                  *)
(***************************************************************************)
EXTENDS RateLimits, TLAPS

NowOK ==
    \A c \in Calls :
        /\ now[c] <= clock
        /\ Active(c) => clock - now[c] <= Lag

TodoOK == \A c \in Calls : pc[c] # "idle" => todo[c] # << >>

(* The row counts what was used, and nothing is granted uncounted. *)
CountOK ==
    \A b \in Buckets :
        /\ rows[b].expires = 0 \/ rows[b].requests = used[b]
        /\ used[b] <= Limit[b] + 1
        /\ granted[b] <= used[b]
        /\ granted[b] <= Limit[b]

(* Where a window ends: never early, and never far ahead. *)
WindowOK ==
    \A b \in Buckets :
        /\ \/ opened[b] + Window[b] - Lag <= clock
           \/ opened[b] + Window[b] - Lag <= rows[b].expires
        /\ rows[b].expires <= clock + Window[b]

IInv == TypeOK /\ NowOK /\ TodoOK /\ CountOK /\ WindowOK /\ RefusedWaits

-----------------------------------------------------------------------------
(* What the operators do *)

(* The numbers involved are numbers. *)
LEMMA Numbers ==
    ASSUME TypeOK
    PROVE  /\ clock \in Nat /\ Lag \in Nat
           /\ \A b \in Buckets :
                /\ Limit[b] \in Nat /\ Limit[b] > 0 /\ Window[b] \in Nat /\ Window[b] > 0
                /\ rows[b].requests \in Nat /\ rows[b].expires \in Nat
                /\ rows[b].requests <= Limit[b] + 1
                /\ used[b] \in Nat /\ granted[b] \in Nat /\ opened[b] \in Int
           /\ \A c \in Calls : now[c] \in Nat
  BY LimitAssumption, WindowAssumption, ClockAssumption DEF TypeOK, Row

LEMMA TakenDoes ==
    ASSUME NEW b \in Buckets, NEW row \in Row, NEW t \in Nat
    PROVE  /\ Taken(b, row, t) \in Row
           /\ Lapsed(row, t) => /\ Taken(b, row, t).requests = 1
                                /\ Taken(b, row, t).expires = t + Window[b]
           /\ ~Lapsed(row, t) =>
                /\ Taken(b, row, t).requests = Least(row.requests, Limit[b]) + 1
                /\ Taken(b, row, t).expires = row.expires
  BY LimitAssumption, WindowAssumption DEF Taken, Lapsed, Row, Least

LEMMA NoRowIsRow == NoRow \in Row /\ NoRow.requests = 0 /\ NoRow.expires = 0
  BY DEF NoRow, Row

(* A cleanup leaves a row as it is, or removes it past its end. *)
CleanedAt(t) ==
    /\ rows' \in [Buckets -> Row]
    /\ \A b \in Buckets :
          \/ rows'[b] = rows[b]
          \/ rows[b].expires <= t /\ rows'[b].requests = 0 /\ rows'[b].expires = 0

LEMMA CleanDoes ==
    ASSUME TypeOK, NEW t, NEW S, rows' = Cleaned(t, S)
    PROVE  CleanedAt(t)
<1>1. rows' \in [Buckets -> Row]
  BY NoRowIsRow DEF Cleaned, TypeOK
<1>2. ASSUME NEW b \in Buckets
      PROVE  \/ rows'[b] = rows[b]
             \/ rows[b].expires <= t /\ rows'[b] = NoRow
  BY DEF Cleaned, Lapsed
<1>3. QED
  BY <1>1, <1>2, NoRowIsRow DEF CleanedAt

LEMMA CleanupDoes ==
    ASSUME TypeOK
    PROVE  /\ \A c \in Calls : Clean(c) => CleanedAt(now[c])
           /\ Maintain => CleanedAt(clock)
  BY CleanDoes DEF Clean, Maintain

(* What an upsert does, one variable at a time. *)
Upserted(c, b, grant) ==
    /\ b \in Buckets
    /\ rows' \in [Buckets -> Row]
    /\ used' \in [Buckets -> Nat] /\ granted' \in [Buckets -> Nat]
    /\ opened' \in [Buckets -> Int]
    /\ \A a \in Buckets \ {b} : /\ rows'[a] = rows[a] /\ used'[a] = used[a]
                                 /\ granted'[a] = granted[a] /\ opened'[a] = opened[a]
    /\ rows[b].expires <= now[c] =>
         /\ rows'[b].requests = 1 /\ rows'[b].expires = now[c] + Window[b]
         /\ used'[b] = 1 /\ granted'[b] = grant /\ opened'[b] = clock
    /\ rows[b].expires > now[c] =>
         /\ rows'[b].requests = Least(rows[b].requests, Limit[b]) + 1
         /\ rows'[b].expires = rows[b].expires
         /\ used'[b] = Least(used[b], Limit[b]) + 1
         /\ granted'[b] = granted[b] + grant /\ opened'[b] = opened[b]

LEMMA UpsertDoes ==
    ASSUME TypeOK, NEW c \in Calls, NEW b \in Buckets, NEW g \in {0, 1}, Upsert(c, b, g)
    PROVE  Upserted(c, b, g)
<1> DEFINE row == Taken(b, rows[b], now[c])
<1>1. rows[b] \in Row /\ now[c] \in Nat /\ rows[b].expires \in Nat
  BY DEF TypeOK, Row
<1>2. /\ row \in Row
      /\ Lapsed(rows[b], now[c]) => row.requests = 1 /\ row.expires = now[c] + Window[b]
      /\ ~Lapsed(rows[b], now[c]) => /\ row.requests = Least(rows[b].requests, Limit[b]) + 1
                                    /\ row.expires = rows[b].expires
  BY <1>1, TakenDoes
<1>3. rows' = [rows EXCEPT ![b] = row]
  BY DEF Upsert
<1> HIDE DEF row
<1>4. rows' \in [Buckets -> Row] /\ rows'[b] = row /\ \A a \in Buckets \ {b} : rows'[a] = rows[a]
  BY <1>2, <1>3 DEF TypeOK
<1>5. used[b] \in Nat /\ Limit[b] \in Nat /\ granted[b] \in Nat /\ clock \in Nat
  BY Numbers
<1>6. /\ used' \in [Buckets -> Nat]
      /\ \A a \in Buckets \ {b} : used'[a] = used[a]
      /\ Lapsed(rows[b], now[c]) => used'[b] = 1
      /\ ~Lapsed(rows[b], now[c]) => used'[b] = Least(used[b], Limit[b]) + 1
  BY <1>5 DEF Upsert, Least, TypeOK
<1>7. /\ granted' \in [Buckets -> Nat]
      /\ \A a \in Buckets \ {b} : granted'[a] = granted[a]
      /\ Lapsed(rows[b], now[c]) => granted'[b] = g
      /\ ~Lapsed(rows[b], now[c]) => granted'[b] = granted[b] + g
  BY <1>5 DEF Upsert, TypeOK
<1>8. /\ opened' \in [Buckets -> Int]
      /\ \A a \in Buckets \ {b} : opened'[a] = opened[a]
      /\ Lapsed(rows[b], now[c]) => opened'[b] = clock
      /\ ~Lapsed(rows[b], now[c]) => opened'[b] = opened[b]
  BY <1>5 DEF Upsert, TypeOK
<1>9. QED
  BY <1>1, <1>2, <1>4, <1>6, <1>7, <1>8 DEF Upserted, Lapsed

LEMMA HeadIsBucket ==
    ASSUME NEW s \in Seq(Buckets), s # << >>
    PROVE  Head(s) \in Buckets /\ Tail(s) \in Seq(Buckets)
  OBVIOUS

(* A call is granted within the limit, or refused over it. *)
Granted(c, b) ==
    /\ Upserted(c, b, 1) /\ rows'[b].requests <= Limit[b]
    /\ pc' = [pc EXCEPT ![c] = IF Tail(todo[c]) = << >> THEN "idle" ELSE "clean"]
    /\ todo' = [todo EXCEPT ![c] = Tail(@)] /\ Tail(todo[c]) \in Seq(Buckets)
    /\ now' = [now EXCEPT ![c] = IF Tail(todo[c]) = << >> THEN 0 ELSE clock]
    /\ answer' = answer

Refused(c, b) ==
    /\ Upserted(c, b, 0) /\ rows'[b].requests > Limit[b]
    /\ rows'[b].expires > now[c]
    /\ pc' = [pc EXCEPT ![c] = "refused"]
    /\ answer' = [answer EXCEPT ![c] = [over |-> TRUE, wait |-> rows'[b].expires - now[c]]]
    /\ todo' = todo /\ now' = now

LEMMA TakeDoes ==
    ASSUME TypeOK, TodoOK, NEW c \in Calls, Take(c)
    PROVE  /\ pc[c] = "take" /\ clock' = clock
           /\ Granted(c, Head(todo[c])) \/ Refused(c, Head(todo[c]))
<1> DEFINE b == Head(todo[c])
           row == Taken(b, rows[b], now[c])
<1>1. pc[c] = "take" /\ clock' = clock /\ todo[c] \in Seq(Buckets) /\ todo[c] # << >>
  BY DEF Take, TypeOK, TodoOK
<1>2. b \in Buckets /\ Tail(todo[c]) \in Seq(Buckets)
  BY <1>1, HeadIsBucket
<1>3. rows[b] \in Row /\ now[c] \in Nat /\ Limit[b] \in Nat \ {0}
  BY <1>2, LimitAssumption DEF TypeOK
<1>4. rows[b].expires \in Nat /\ rows[b].requests \in Nat
  BY <1>3 DEF Row
<1>5. /\ row \in Row
      /\ Lapsed(rows[b], now[c]) => row.requests = 1
      /\ ~Lapsed(rows[b], now[c]) => row.expires = rows[b].expires
  BY <1>2, <1>3, TakenDoes
<1>6. row.requests \in Nat /\ row.expires \in Nat
  BY <1>5 DEF Row
<1>7. \/ Upsert(c, b, 0) /\ Refuse(c, b, row) /\ RetryAfter(b, row, now[c]) > 0
      \/ Upsert(c, b, 1) /\ Grant(c) /\ RetryAfter(b, row, now[c]) <= 0
  BY DEF Take
<1>8. Upsert(c, b, 0) \/ Upsert(c, b, 1) => rows'[b] = row
  BY <1>2 DEF Upsert, TypeOK
<1> HIDE DEF row
<1>9. CASE Upsert(c, b, 0) /\ Refuse(c, b, row) /\ RetryAfter(b, row, now[c]) > 0
  <2>1. OverLimit(b, row) /\ RetryAfter(b, row, now[c]) = row.expires - now[c]
    BY <1>9 DEF RetryAfter
  <2>2. row.requests > Limit[b] /\ OverLimit(b, row) = TRUE
    BY <2>1 DEF OverLimit
  <2>3. Upserted(c, b, 0)
    BY <1>2, <1>9, UpsertDoes
  <2>4. row.expires > now[c]
    BY <1>3, <1>6, <1>9, <2>1
  <2>5. /\ pc' = [pc EXCEPT ![c] = "refused"] /\ todo' = todo /\ now' = now
        /\ answer' = [answer EXCEPT ![c] = [over |-> OverLimit(b, row),
                                            wait |-> RetryAfter(b, row, now[c])]]
    BY <1>9 DEF Refuse
  <2>6. Refused(c, b)
    BY <1>8, <1>9, <2>1, <2>2, <2>3, <2>4, <2>5 DEF Refused
  <2>7. QED
    BY <1>1, <2>6
<1>10. CASE Upsert(c, b, 1) /\ Grant(c) /\ RetryAfter(b, row, now[c]) <= 0
  <2>1. row.requests <= Limit[b]
    BY <1>3, <1>4, <1>5, <1>6, <1>10 DEF RetryAfter, OverLimit, Lapsed
  <2>2. Upserted(c, b, 1)
    BY <1>2, <1>10, UpsertDoes
  <2>3. Granted(c, b)
    BY <1>2, <1>8, <1>10, <2>1, <2>2 DEF Granted, Grant
  <2>4. QED
    BY <1>1, <2>3
<1>11. QED
  BY <1>7, <1>9, <1>10

(* A failing call's upsert may have taken effect. *)
LEMMA FailDoes ==
    ASSUME TypeOK, TodoOK, NEW c \in Calls, Fail(c)
    PROVE  /\ Leave(c) /\ clock' = clock
           /\ \/ Upserted(c, Head(todo[c]), 0)
              \/ UNCHANGED <<rows, history>>
<1>1. pc[c] # "idle" /\ todo[c] \in Seq(Buckets)
  BY DEF Fail, TypeOK
<1>2. Head(todo[c]) \in Buckets
  BY <1>1, HeadIsBucket DEF TodoOK
<1>3. QED
  BY <1>2, UpsertDoes DEF Fail

LEMMA UpsertedCaps ==
    ASSUME TypeOK, NEW c \in Calls, NEW b, NEW g, Upserted(c, b, g)
    PROVE  \A a \in Buckets : rows'[a].requests <= Limit[a] + 1
<1> SUFFICES ASSUME NEW a \in Buckets PROVE rows'[a].requests <= Limit[a] + 1
  OBVIOUS
<1>1. CASE a # b
  BY <1>1, Numbers DEF Upserted
<1>2. CASE a = b
  BY <1>2, Numbers DEF Upserted, Least
<1>3. QED
  BY <1>1, <1>2

(* Counts and window ends across an upsert, and across a cleanup. *)
LEMMA UpsertedCounts ==
    ASSUME TypeOK, CountOK, NEW c \in Calls, NEW b, NEW g \in {0, 1}, Upserted(c, b, g),
           g = 1 => rows'[b].requests <= Limit[b]
    PROVE  CountOK'
<1> SUFFICES ASSUME NEW a \in Buckets
             PROVE  /\ rows'[a].expires = 0 \/ rows'[a].requests = used'[a]
                    /\ used'[a] <= Limit[a] + 1
                    /\ granted'[a] <= used'[a]
                    /\ granted'[a] <= Limit[a]
  BY DEF CountOK
<1>1. CASE a # b
  BY <1>1 DEF Upserted, CountOK
<1>2. CASE a = b /\ rows[b].expires <= now[c]
  BY <1>2, Numbers DEF Upserted
<1>3. CASE a = b /\ rows[b].expires > now[c]
  <2>1. rows[b].requests = used[b]
    BY <1>3, Numbers DEF CountOK
  <2>2. QED
    BY <1>3, <2>1, Numbers DEF Upserted, CountOK, Least
<1>4. QED
  BY <1>1, <1>2, <1>3, Numbers

LEMMA UpsertedWindows ==
    ASSUME TypeOK, NowOK, WindowOK, NEW c \in Calls, Active(c), clock' = clock,
           NEW b, NEW g, Upserted(c, b, g)
    PROVE  WindowOK' /\ OpensApart
<1>1. now[c] <= clock /\ clock - now[c] <= Lag
  BY DEF NowOK
<1>2. ASSUME NEW a \in Buckets
      PROVE  /\ \/ opened'[a] + Window[a] - Lag <= clock
                \/ opened'[a] + Window[a] - Lag <= rows'[a].expires
             /\ rows'[a].expires <= clock + Window[a]
             /\ opened'[a] # opened[a] => opened'[a] >= opened[a] + Window[a] - Lag
  <2>1. CASE a # b
    BY <1>2, <2>1 DEF Upserted, WindowOK
  <2>2. CASE a = b /\ rows[b].expires <= now[c]
    BY <1>1, <1>2, <2>2, Numbers DEF Upserted, WindowOK
  <2>3. CASE a = b /\ rows[b].expires > now[c]
    BY <1>2, <2>3, Numbers DEF Upserted, WindowOK
  <2>4. QED
    BY <1>2, <2>1, <2>2, <2>3, Numbers
<1>3. QED
  BY <1>2 DEF WindowOK, OpensApart

LEMMA CleanedCaps ==
    ASSUME TypeOK, NEW t, CleanedAt(t)
    PROVE  \A a \in Buckets : rows'[a].requests <= Limit[a] + 1
<1> SUFFICES ASSUME NEW a \in Buckets PROVE rows'[a].requests <= Limit[a] + 1
  OBVIOUS
<1>1. Limit[a] \in Nat /\ rows[a].requests <= Limit[a] + 1
  BY Numbers
<1>2. rows'[a] = rows[a] \/ rows'[a].requests = 0
  BY DEF CleanedAt
<1>3. QED
  BY <1>1, <1>2

LEMMA CleanedCounts ==
    ASSUME TypeOK, CountOK, NEW t, CleanedAt(t), UNCHANGED history
    PROVE  CountOK'
  BY Numbers DEF CleanedAt, CountOK, history

LEMMA CleanedWindows ==
    ASSUME TypeOK, WindowOK, NEW t \in Nat, t <= clock, CleanedAt(t), clock' = clock,
           UNCHANGED history
    PROVE  WindowOK'
<1> SUFFICES ASSUME NEW a \in Buckets
             PROVE  /\ \/ opened[a] + Window[a] - Lag <= clock
                       \/ opened[a] + Window[a] - Lag <= rows'[a].expires
                    /\ rows'[a].expires <= clock + Window[a]
  BY DEF WindowOK, history
<1>1. CASE rows'[a] = rows[a]
  BY <1>1 DEF WindowOK
<1>2. CASE rows[a].expires <= t /\ rows'[a].requests = 0 /\ rows'[a].expires = 0
  BY <1>2, Numbers DEF WindowOK
<1>3. QED
  BY <1>1, <1>2 DEF CleanedAt

-----------------------------------------------------------------------------

LEMMA TypeStep ==
    ASSUME TypeOK, TodoOK, [Next]_vars
    PROVE  TypeOK'
<1> USE LimitAssumption, WindowAssumption, BudgetsAssumption, ClockAssumption
<1>1. ASSUME NEW c \in Calls, NEW kind \in Kinds, Arrive(c, kind)
      PROVE  TypeOK'
  BY <1>1 DEF Arrive, TypeOK, callVars, history, Row, Least
<1>2. ASSUME NEW c \in Calls, Clean(c)
      PROVE  TypeOK'
  <2>1. CleanedAt(now[c])
    BY <1>2, CleanupDoes
  <2>2. \A a \in Buckets : rows'[a].requests <= Limit[a] + 1
    BY <2>1, CleanedCaps
  <2>3. QED
    BY <1>2, <2>1, <2>2 DEF Clean, CleanedAt, TypeOK, history
<1>3. ASSUME NEW c \in Calls, Take(c)
      PROVE  TypeOK'
  <2> DEFINE b == Head(todo[c])
  <2>1. Granted(c, b) \/ Refused(c, b)
    BY <1>3, TakeDoes
  <2>2. Upserted(c, b, 0) \/ Upserted(c, b, 1)
    BY <2>1 DEF Granted, Refused
  <2> HIDE DEF b
  <2>3. /\ rows' \in [Buckets -> Row] /\ used' \in [Buckets -> Nat]
        /\ granted' \in [Buckets -> Nat] /\ opened' \in [Buckets -> Int]
    BY <2>2 DEF Upserted
  <2>4. \A a \in Buckets : rows'[a].requests <= Limit[a] + 1
    BY <2>2, UpsertedCaps
  <2>5. b \in Buckets /\ rows'[b].expires \in Nat /\ now[c] \in Nat
    BY <2>2, Numbers DEF Upserted, Row
  <2>6. CASE Granted(c, b)
    BY <1>3, <2>3, <2>4, <2>6, TakeDoes DEF Granted, TypeOK
  <2>7. CASE Refused(c, b)
    <3>1. [over |-> TRUE, wait |-> rows'[b].expires - now[c]] \in [over : BOOLEAN, wait : Int]
      BY <2>5
    <3>2. answer' \in [Calls -> [over : BOOLEAN, wait : Int]]
      BY <2>7, <3>1 DEF Refused, TypeOK
    <3>3. QED
      BY <1>3, <2>3, <2>4, <2>7, <3>2, TakeDoes DEF Refused, TypeOK
  <2>8. QED
    BY <2>1, <2>6, <2>7
<1>4. ASSUME NEW c \in Calls, Fail(c)
      PROVE  TypeOK'
  <2>1. \/ Upserted(c, Head(todo[c]), 0)
        \/ UNCHANGED <<rows, used, granted, opened>>
    BY <1>4, FailDoes DEF history
  <2>2. /\ rows' \in [Buckets -> Row] /\ used' \in [Buckets -> Nat]
        /\ granted' \in [Buckets -> Nat] /\ opened' \in [Buckets -> Int]
        /\ \A a \in Buckets : rows'[a].requests <= Limit[a] + 1
    <3>1. CASE Upserted(c, Head(todo[c]), 0)
      <4>1. \A a \in Buckets : rows'[a].requests <= Limit[a] + 1
        BY <3>1, UpsertedCaps
      <4>2. QED
        BY <3>1, <4>1 DEF Upserted
    <3>2. CASE UNCHANGED <<rows, used, granted, opened>>
      BY <3>2 DEF TypeOK
    <3>3. QED
      BY <2>1, <3>1, <3>2
  <2>3. clock' = clock /\ Leave(c)
    BY <1>4, FailDoes
  <2>4. QED
    BY <2>2, <2>3 DEF Leave, NoAnswer, TypeOK
<1>5. ASSUME NEW c \in Calls, Reply(c)
      PROVE  TypeOK'
  BY <1>5 DEF Reply, Leave, TypeOK, callVars, history, Row, Least, NoAnswer
<1>6. ASSUME Maintain
      PROVE  TypeOK'
  <2>1. CleanedAt(clock)
    BY <1>6, CleanupDoes
  <2>2. \A a \in Buckets : rows'[a].requests <= Limit[a] + 1
    BY <2>1, CleanedCaps
  <2>3. QED
    BY <1>6, <2>1, <2>2 DEF Maintain, CleanedAt, TypeOK, callVars, history
<1>7. ASSUME Tick
      PROVE  TypeOK'
  BY <1>7 DEF Tick, Active, TypeOK, callVars, history, Row, Least
<1>8. ASSUME UNCHANGED vars
      PROVE  TypeOK'
  BY <1>8 DEF vars, TypeOK, callVars, history, Row, Least
<1>9. QED
  BY <1>1, <1>2, <1>3, <1>4, <1>5, <1>6, <1>7, <1>8 DEF Next

LEMMA NowStep ==
    ASSUME TypeOK, TodoOK, NowOK, [Next]_vars
    PROVE  NowOK'
<1> USE LimitAssumption, WindowAssumption, BudgetsAssumption, ClockAssumption
<1>1. ASSUME NEW c \in Calls, NEW kind \in Kinds, Arrive(c, kind)
      PROVE  NowOK'
  BY <1>1 DEF Arrive, TypeOK, callVars, history, NowOK, Active
<1>2. ASSUME NEW c \in Calls, Clean(c)
      PROVE  NowOK'
  BY <1>2 DEF Clean, TypeOK, callVars, history, NowOK, Active
<1>3. ASSUME NEW c \in Calls, Take(c)
      PROVE  NowOK'
  <2>1. Granted(c, Head(todo[c])) \/ Refused(c, Head(todo[c]))
    BY <1>3, TakeDoes
  <2>2. pc[c] = "take" /\ clock' = clock
    BY <1>3, TakeDoes
  <2>3. CASE Granted(c, Head(todo[c]))
    BY <2>2, <2>3, Numbers DEF Granted, NowOK, Active, TypeOK
  <2>4. CASE Refused(c, Head(todo[c]))
    BY <2>2, <2>4 DEF Refused, NowOK, Active, TypeOK
  <2>5. QED
    BY <2>1, <2>3, <2>4
<1>4. ASSUME NEW c \in Calls, Fail(c)
      PROVE  NowOK'
  <2>1. Leave(c) /\ clock' = clock
    BY <1>4, FailDoes
  <2>2. QED
    BY <2>1, Numbers DEF Leave, NowOK, Active, TypeOK
<1>5. ASSUME NEW c \in Calls, Reply(c)
      PROVE  NowOK'
  BY <1>5 DEF Reply, Leave, TypeOK, callVars, history, NowOK, Active
<1>6. ASSUME Maintain
      PROVE  NowOK'
  BY <1>6 DEF Maintain, TypeOK, callVars, history, NowOK, Active
<1>7. ASSUME Tick
      PROVE  NowOK'
  BY <1>7 DEF Tick, Active, TypeOK, callVars, history, NowOK, Active
<1>8. ASSUME UNCHANGED vars
      PROVE  NowOK'
  BY <1>8 DEF vars, TypeOK, callVars, history, NowOK, Active
<1>9. QED
  BY <1>1, <1>2, <1>3, <1>4, <1>5, <1>6, <1>7, <1>8 DEF Next

LEMMA TodoStep ==
    ASSUME TypeOK, TodoOK, [Next]_vars
    PROVE  TodoOK'
<1> USE LimitAssumption, WindowAssumption, BudgetsAssumption, ClockAssumption
<1>1. ASSUME NEW c \in Calls, NEW kind \in Kinds, Arrive(c, kind)
      PROVE  TodoOK'
  BY <1>1 DEF Arrive, TypeOK, callVars, history, TodoOK
<1>2. ASSUME NEW c \in Calls, Clean(c)
      PROVE  TodoOK'
  BY <1>2 DEF Clean, TypeOK, callVars, history, TodoOK
<1>3. ASSUME NEW c \in Calls, Take(c)
      PROVE  TodoOK'
  <2>1. Granted(c, Head(todo[c])) \/ Refused(c, Head(todo[c]))
    BY <1>3, TakeDoes
  <2>2. pc[c] = "take" /\ clock' = clock
    BY <1>3, TakeDoes
  <2>3. QED
    BY <2>1, <2>2 DEF Granted, Refused, TypeOK, TodoOK
<1>4. ASSUME NEW c \in Calls, Fail(c)
      PROVE  TodoOK'
  BY <1>4, FailDoes DEF Leave, TypeOK, TodoOK
<1>5. ASSUME NEW c \in Calls, Reply(c)
      PROVE  TodoOK'
  BY <1>5 DEF Reply, Leave, TypeOK, callVars, history, TodoOK
<1>6. ASSUME Maintain
      PROVE  TodoOK'
  BY <1>6 DEF Maintain, TypeOK, callVars, history, TodoOK
<1>7. ASSUME Tick
      PROVE  TodoOK'
  BY <1>7 DEF Tick, Active, TypeOK, callVars, history, TodoOK
<1>8. ASSUME UNCHANGED vars
      PROVE  TodoOK'
  BY <1>8 DEF vars, TypeOK, callVars, history, TodoOK
<1>9. QED
  BY <1>1, <1>2, <1>3, <1>4, <1>5, <1>6, <1>7, <1>8 DEF Next

LEMMA CountStep ==
    ASSUME TypeOK, TodoOK, CountOK, [Next]_vars
    PROVE  CountOK'
<1> USE LimitAssumption, WindowAssumption, BudgetsAssumption, ClockAssumption
<1>1. ASSUME NEW c \in Calls, NEW kind \in Kinds, Arrive(c, kind)
      PROVE  CountOK'
  BY <1>1 DEF Arrive, TypeOK, callVars, history, CountOK
<1>2. ASSUME NEW c \in Calls, Clean(c)
      PROVE  CountOK'
  BY <1>2, CleanupDoes, CleanedCounts DEF Clean
<1>3. ASSUME NEW c \in Calls, Take(c)
      PROVE  CountOK'
  <2>1. CASE Granted(c, Head(todo[c]))
    BY <2>1, UpsertedCounts DEF Granted
  <2>2. CASE Refused(c, Head(todo[c]))
    BY <2>2, UpsertedCounts DEF Refused
  <2>3. QED
    BY <1>3, <2>1, <2>2, TakeDoes
<1>4. ASSUME NEW c \in Calls, Fail(c)
      PROVE  CountOK'
  <2>1. CASE Upserted(c, Head(todo[c]), 0)
    BY <2>1, UpsertedCounts
  <2>2. CASE UNCHANGED <<rows, history>>
    BY <2>2 DEF history, CountOK
  <2>3. QED
    BY <1>4, <2>1, <2>2, FailDoes
<1>5. ASSUME NEW c \in Calls, Reply(c)
      PROVE  CountOK'
  BY <1>5 DEF Reply, Leave, TypeOK, callVars, history, CountOK
<1>6. ASSUME Maintain
      PROVE  CountOK'
  BY <1>6, CleanupDoes, CleanedCounts DEF Maintain
<1>7. ASSUME Tick
      PROVE  CountOK'
  BY <1>7 DEF Tick, Active, TypeOK, callVars, history, CountOK
<1>8. ASSUME UNCHANGED vars
      PROVE  CountOK'
  BY <1>8 DEF vars, TypeOK, callVars, history, CountOK
<1>9. QED
  BY <1>1, <1>2, <1>3, <1>4, <1>5, <1>6, <1>7, <1>8 DEF Next

LEMMA WindowStep ==
    ASSUME TypeOK, NowOK, TodoOK, WindowOK, [Next]_vars
    PROVE  WindowOK'
<1> USE LimitAssumption, WindowAssumption, BudgetsAssumption, ClockAssumption
<1>1. ASSUME NEW c \in Calls, NEW kind \in Kinds, Arrive(c, kind)
      PROVE  WindowOK'
  BY <1>1 DEF Arrive, TypeOK, callVars, history, WindowOK
<1>2. ASSUME NEW c \in Calls, Clean(c)
      PROVE  WindowOK'
  <2>1. now[c] \in Nat /\ now[c] <= clock
    BY Numbers DEF NowOK
  <2>2. QED
    BY <1>2, <2>1, CleanupDoes, CleanedWindows DEF Clean
<1>3. ASSUME NEW c \in Calls, Take(c)
      PROVE  WindowOK'
  <2>1. Active(c) /\ clock' = clock
    BY <1>3, TakeDoes DEF Active
  <2>2. Upserted(c, Head(todo[c]), 0) \/ Upserted(c, Head(todo[c]), 1)
    BY <1>3, TakeDoes DEF Granted, Refused
  <2>3. QED
    BY <2>1, <2>2, UpsertedWindows
<1>4. ASSUME NEW c \in Calls, Fail(c)
      PROVE  WindowOK'
  <2>1. Active(c) /\ clock' = clock
    BY <1>4, FailDoes DEF Fail, Active
  <2>2. CASE Upserted(c, Head(todo[c]), 0)
    BY <2>1, <2>2, UpsertedWindows
  <2>3. CASE UNCHANGED <<rows, history>>
    BY <2>1, <2>3 DEF history, WindowOK
  <2>4. QED
    BY <1>4, <2>2, <2>3, FailDoes
<1>5. ASSUME NEW c \in Calls, Reply(c)
      PROVE  WindowOK'
  BY <1>5 DEF Reply, Leave, TypeOK, callVars, history, WindowOK
<1>6. ASSUME Maintain
      PROVE  WindowOK'
  <2>1. clock \in Nat /\ clock <= clock
    BY Numbers
  <2>2. QED
    BY <1>6, <2>1, CleanupDoes, CleanedWindows DEF Maintain, callVars
<1>7. ASSUME Tick
      PROVE  WindowOK'
  BY <1>7, Numbers DEF Tick, WindowOK, history
<1>8. ASSUME UNCHANGED vars
      PROVE  WindowOK'
  BY <1>8 DEF vars, TypeOK, callVars, history, WindowOK
<1>9. QED
  BY <1>1, <1>2, <1>3, <1>4, <1>5, <1>6, <1>7, <1>8 DEF Next

LEMMA WaitsStep ==
    ASSUME TypeOK, NowOK, TodoOK, WindowOK, RefusedWaits, [Next]_vars
    PROVE  RefusedWaits'
<1> USE LimitAssumption, WindowAssumption, BudgetsAssumption, ClockAssumption
<1>1. ASSUME NEW c \in Calls, NEW kind \in Kinds, Arrive(c, kind)
      PROVE  RefusedWaits'
  BY <1>1 DEF Arrive, TypeOK, callVars, history, RefusedWaits
<1>2. ASSUME NEW c \in Calls, Clean(c)
      PROVE  RefusedWaits'
  BY <1>2 DEF Clean, TypeOK, callVars, history, RefusedWaits
<1>3. ASSUME NEW c \in Calls, Take(c)
      PROVE  RefusedWaits'
  <2>1. Granted(c, Head(todo[c])) \/ Refused(c, Head(todo[c]))
    BY <1>3, TakeDoes
  <2>2. pc[c] = "take" /\ clock' = clock
    BY <1>3, TakeDoes
  <2>3. CASE Granted(c, Head(todo[c]))
    BY <2>3 DEF Granted, RefusedWaits, TypeOK
  <2>4. CASE Refused(c, Head(todo[c]))
    <3> DEFINE b == Head(todo[c])
    <3>1. /\ b \in Buckets /\ rows'[b].expires > now[c] /\ rows'[b].expires \in Nat
          /\ now[c] \in Nat /\ clock \in Nat /\ Lag \in Nat /\ Window[b] \in Nat
      BY <2>4, Numbers DEF Refused, Upserted, Row
    <3>2. rows'[b].expires <= clock + Window[b]
      BY <2>2, <2>4, <3>1, UpsertedWindows DEF Refused, Active, WindowOK
    <3>3. clock - now[c] <= Lag
      BY <2>2 DEF NowOK, Active
    <3>4. rows'[b].expires - now[c] \in 1 .. Window[b] + Lag
      BY <3>1, <3>2, <3>3
    <3>5. answer'[c].over /\ answer'[c].wait \in 1 .. Window[b] + Lag
      BY <2>4, <3>4 DEF Refused, TypeOK
    <3>6. QED
      BY <2>4, <3>5 DEF Refused, RefusedWaits, TypeOK
  <2>5. QED
    BY <2>1, <2>3, <2>4
<1>4. ASSUME NEW c \in Calls, Fail(c)
      PROVE  RefusedWaits'
  BY <1>4, FailDoes DEF Leave, TypeOK, RefusedWaits
<1>5. ASSUME NEW c \in Calls, Reply(c)
      PROVE  RefusedWaits'
  BY <1>5 DEF Reply, Leave, TypeOK, callVars, history, RefusedWaits
<1>6. ASSUME Maintain
      PROVE  RefusedWaits'
  BY <1>6 DEF Maintain, TypeOK, callVars, history, RefusedWaits
<1>7. ASSUME Tick
      PROVE  RefusedWaits'
  BY <1>7 DEF Tick, Active, TypeOK, callVars, history, RefusedWaits
<1>8. ASSUME UNCHANGED vars
      PROVE  RefusedWaits'
  BY <1>8 DEF vars, TypeOK, callVars, history, RefusedWaits
<1>9. QED
  BY <1>1, <1>2, <1>3, <1>4, <1>5, <1>6, <1>7, <1>8 DEF Next

LEMMA InitIInv == Init => IInv
<1> USE LimitAssumption, WindowAssumption, ClockAssumption
<1>1. Init => TypeOK
  BY NoRowIsRow DEF Init, TypeOK, NoAnswer, Row
<1>2. Init => NowOK /\ TodoOK /\ CountOK /\ WindowOK /\ RefusedWaits
  BY NoRowIsRow DEF Init, NowOK, TodoOK, CountOK, WindowOK, RefusedWaits, Active
<1>3. QED
  BY <1>1, <1>2 DEF IInv

LEMMA StepIInv == ASSUME IInv, [Next]_vars PROVE IInv'
  BY TypeStep, NowStep, TodoStep, CountStep, WindowStep, WaitsStep DEF IInv

(* The inductive invariant holds in every state. *)
THEOREM Invariance == Spec => []IInv
  BY InitIInv, StepIInv, PTL DEF Spec

(* RateLimits keeps its types; in particular a row's count stops at the    *)
(* first request over the limit.                                           *)
THEOREM TypeCorrect == Spec => []TypeOK
<1>1. IInv => TypeOK
  BY DEF IInv
<1>2. QED
  BY Invariance, <1>1, PTL

(* TakeRateLimit never grants more than maxRequests in a window. *)
THEOREM BudgetsHold == Spec => []BudgetHolds
<1>1. IInv => BudgetHolds
  BY DEF IInv, CountOK, BudgetHolds
<1>2. QED
  BY Invariance, <1>1, PTL

(* The Retry-After of a refusal is never longer than window and lag.       *)
THEOREM RefusalsWait == Spec => []RefusedWaits
<1>1. IInv => RefusedWaits
  BY DEF IInv
<1>2. QED
  BY Invariance, <1>1, PTL

(* The upserts and cleanups of TakeRateLimit and DeleteExpiredRecords do   *)
(* not reopen a bucket early.                                              *)
THEOREM WindowsStayApart == Spec => WindowsApart
<1>1. IInv /\ [Next]_vars => [OpensApart]_vars
  <2> SUFFICES ASSUME IInv, [Next]_vars PROVE OpensApart
    OBVIOUS
  <2>1. (UNCHANGED history) => OpensApart
    BY DEF history, OpensApart
  <2>2. ASSUME NEW c \in Calls, Take(c) PROVE OpensApart
    <3>1. Upserted(c, Head(todo[c]), 0) \/ Upserted(c, Head(todo[c]), 1)
      BY <2>2, TakeDoes DEF IInv, Granted, Refused
    <3>2. Active(c) /\ clock' = clock
      BY <2>2, TakeDoes DEF IInv, Active
    <3>3. QED
      BY <3>1, <3>2, UpsertedWindows DEF IInv
  <2>3. ASSUME NEW c \in Calls, Fail(c) PROVE OpensApart
    <3>1. Active(c) /\ clock' = clock
      BY <2>3, FailDoes DEF IInv, Fail, Active
    <3>2. QED
      BY <2>1, <2>3, <3>1, FailDoes, UpsertedWindows DEF IInv, history
  <2>4. QED
    BY <2>1, <2>2, <2>3 DEF Next, Arrive, Clean, Reply, Maintain, Tick, vars
<1>2. QED
  BY <1>1, Invariance, PTL DEF Spec, WindowsApart

(* TakeRateLimit refuses only when the budget of the window is used up. *)
THEOREM RefusalsAreEarned == Spec => RefusedOnlyWhenFull
<1>1. IInv /\ [Next]_vars => [RefusesWhenFull]_vars
  <2> SUFFICES ASSUME IInv, [Next]_vars, NEW c \in Calls, pc[c] = "take", pc'[c] = "refused"
               PROVE  used'[Head(todo[c])] > Limit[Head(todo[c])]
    BY DEF RefusesWhenFull
  <2>1. TypeOK /\ TodoOK /\ NowOK /\ CountOK
    BY DEF IInv
  <2>2. Take(c)
    BY <2>1 DEF Next, Arrive, Clean, Take, Grant, Refuse, Fail, Leave, Reply,
                Maintain, Tick, vars, callVars, TypeOK
  <2> DEFINE b == Head(todo[c])
  <2>3. Refused(c, b)
    BY <2>1, <2>2, TakeDoes DEF Granted, TypeOK
  <2>4. CountOK' /\ b \in Buckets /\ rows'[b].requests > Limit[b] /\ rows'[b].expires > now[c]
    BY <2>1, <2>3, UpsertedCounts DEF Refused, Upserted
  <2>5. now[c] \in Nat
    BY <2>1, Numbers
  <2>6. rows'[b].requests = used'[b]
    BY <2>4, <2>5 DEF CountOK
  <2>7. QED
    BY <2>4, <2>6
<1>2. QED
  BY <1>1, Invariance, PTL DEF Spec, RefusedOnlyWhenFull
=============================================================================
