----------------------------- MODULE RateLimits -----------------------------
(***************************************************************************)
(* The request budgets of the one-time-code endpoints: TakeRateLimit on    *)
(* the rate_limits table, called through allowOTPRequest.                  *)
(*                                                                         *)
(* A bucket is one row (scope, bucket_key).  A call reads the clock, then  *)
(* removes expired rows, then upserts its bucket; calls interleave between *)
(* these steps, so the time a statement compares with may be up to Lag     *)
(* behind the clock.  A call of the program takes several buckets one      *)
(* after the other and stops at the first that refuses it.                 *)
(***************************************************************************)
EXTENDS FixedWindow, Sequences

CONSTANTS Calls,     \* requests being handled
          Kinds,     \* what a request wants: to issue a code, to verify one
          Budgets,   \* Budgets[kind]: the buckets it takes, in order
          Lag,       \* longest time from time.Now() to the statements
          MaxTime    \* bound: the clock stops there

ASSUME BudgetsAssumption ==
    Budgets \in [Kinds -> {s \in Seq(Buckets) : s # << >>}]
ASSUME ClockAssumption == Lag \in Nat /\ MaxTime \in Nat

VARIABLES
    clock,    \* time.Now().Unix()
    rows,     \* rows[b]: the row of bucket b
    pc,       \* calls: program counter,
    todo,     \*   the buckets still to take,
    now,      \*   the time read for the first of them,
    answer,   \*   and why the call was refused
    used,     \* history: requests counted in b's window, up to Limit[b] + 1
    granted,  \* history: requests granted in it
    opened    \* history: when it was opened

callVars == <<pc, todo, now, answer>>
history  == <<used, granted, opened>>
vars     == <<clock, rows, callVars, history>>

NoAnswer == [over |-> FALSE, wait |-> 0]

TypeOK ==
    /\ clock \in Nat
    /\ rows \in [Buckets -> Row]
    /\ \A b \in Buckets : rows[b].requests <= Limit[b] + 1  \* the count stops there
    /\ pc \in [Calls -> {"idle", "clean", "take", "refused"}]
    /\ todo \in [Calls -> Seq(Buckets)]
    /\ now \in [Calls -> Nat]
    /\ answer \in [Calls -> [over : BOOLEAN, wait : Int]]
    /\ used \in [Buckets -> Nat] /\ granted \in [Buckets -> Nat]
    /\ opened \in [Buckets -> Int]

Init ==
    /\ clock = 0
    /\ rows = [b \in Buckets |-> NoRow]
    /\ pc = [c \in Calls |-> "idle"]
    /\ todo = [c \in Calls |-> << >>]
    /\ now = [c \in Calls |-> 0]
    /\ answer = [c \in Calls |-> NoAnswer]
    /\ used = [b \in Buckets |-> 0] /\ granted = [b \in Buckets |-> 0]
    /\ opened = [b \in Buckets |-> -Window[b]]

-----------------------------------------------------------------------------
(* The statements *)

(* As if the cleanup also removed windows that are still running. *)
CleanedActive(t, S) == [b \in Buckets |-> IF b \in S THEN NoRow ELSE rows[b]]

(* DeleteExpiredRateLimits: of the expired rows, a batch. *)
Cleaned(t, S) ==
    [b \in Buckets |-> IF b \in S /\ Lapsed(rows[b], t) THEN NoRow ELSE rows[b]]

-----------------------------------------------------------------------------
(* A request reaches the budget checks. *)
Arrive(c, kind) ==
    /\ pc[c] = "idle"
    /\ pc' = [pc EXCEPT ![c] = "clean"]
    /\ todo' = [todo EXCEPT ![c] = Budgets[kind]]
    /\ now' = [now EXCEPT ![c] = clock]
    /\ UNCHANGED <<clock, rows, answer, history>>

Clean(c) ==
    /\ pc[c] = "clean"
    /\ \E S \in SUBSET Buckets : rows' = Cleaned(now[c], S)
    /\ pc' = [pc EXCEPT ![c] = "take"]
    /\ UNCHANGED <<clock, todo, now, answer, history>>

(* What the upsert of c's next bucket does to the table and the history. *)
Upsert(c, b, grant) ==
    LET row   == Taken(b, rows[b], now[c])
        fresh == Lapsed(rows[b], now[c])
    IN  /\ rows' = [rows EXCEPT ![b] = row]
        /\ used' = [used EXCEPT ![b] = IF fresh THEN 1 ELSE Least(@, Limit[b]) + 1]
        /\ granted' = [granted EXCEPT ![b] = (IF fresh THEN 0 ELSE @) + grant]
        /\ opened' = [opened EXCEPT ![b] = IF fresh THEN clock ELSE @]

(* The last budget is taken: the request goes on; otherwise the next one. *)
Grant(c) ==
    /\ pc' = [pc EXCEPT ![c] = IF Tail(todo[c]) = << >> THEN "idle" ELSE "clean"]
    /\ todo' = [todo EXCEPT ![c] = Tail(@)]
    /\ now' = [now EXCEPT ![c] = IF Tail(todo[c]) = << >> THEN 0 ELSE clock]
    /\ UNCHANGED answer

(* 429, with the wait in Retry-After. *)
Refuse(c, b, row) ==
    /\ pc' = [pc EXCEPT ![c] = "refused"]
    /\ answer' = [answer EXCEPT ![c] = [over |-> OverLimit(b, row),
                                        wait |-> RetryAfter(b, row, now[c])]]
    /\ UNCHANGED <<todo, now>>

Take(c) ==
    /\ pc[c] = "take"
    /\ LET b   == Head(todo[c])
           row == Taken(b, rows[b], now[c])
       IN  \/ /\ RetryAfter(b, row, now[c]) > 0
              /\ Upsert(c, b, 0) /\ Refuse(c, b, row)
           \/ /\ RetryAfter(b, row, now[c]) <= 0
              /\ Upsert(c, b, 1) /\ Grant(c)
    /\ UNCHANGED clock

Leave(c) ==
    /\ pc' = [pc EXCEPT ![c] = "idle"]
    /\ todo' = [todo EXCEPT ![c] = << >>]
    /\ now' = [now EXCEPT ![c] = 0]
    /\ answer' = [answer EXCEPT ![c] = NoAnswer]

(* A statement fails: the request is denied.  A failed upsert may have     *)
(* taken effect.                                                           *)
Fail(c) ==
    /\ pc[c] \in {"clean", "take"}
    /\ \/ pc[c] = "take" /\ Upsert(c, Head(todo[c]), 0)
       \/ UNCHANGED <<rows, history>>
    /\ Leave(c)
    /\ UNCHANGED clock

Reply(c) ==
    /\ pc[c] = "refused"
    /\ Leave(c)
    /\ UNCHANGED <<clock, rows, history>>

(* The periodic cleanup.  A time read earlier would only let it remove     *)
(* fewer rows, and S is any batch.                                         *)
Maintain ==
    /\ \E S \in SUBSET Buckets : rows' = Cleaned(clock, S)
    /\ UNCHANGED <<clock, callVars, history>>

Active(c) == pc[c] \in {"clean", "take"}

Tick ==
    /\ clock < MaxTime
    /\ \A c \in Calls : Active(c) => clock - now[c] < Lag
    /\ clock' = clock + 1
    /\ UNCHANGED <<rows, callVars, history>>

Next ==
    \/ \E c \in Calls : \/ \E kind \in Kinds : Arrive(c, kind)
                        \/ Clean(c) \/ Take(c) \/ Fail(c) \/ Reply(c)
    \/ Maintain
    \/ Tick

Spec == Init /\ [][Next]_vars

-----------------------------------------------------------------------------
(* Properties. *)

(* No window of a bucket ever grants more requests than its limit, though  *)
(* rows are removed and re-created and statements fail half way.           *)
BudgetHolds == \A b \in Buckets : granted[b] <= Limit[b]

(* A window is opened no sooner than a window's length, less the lag of    *)
(* the statements, after the previous one: reissuing or consuming codes,   *)
(* cleaning up and late calls do not reset a budget (otp.go:19-20).        *)
(* With BudgetHolds: fewer than that many seconds see at most two limits.  *)
(* (Opening again within the same second is not seen here; what it would   *)
(* grant beyond the limit TriesBounded of CodeAttempts counts.)            *)
OpensApart ==
    \A b \in Buckets :
        opened'[b] # opened[b] => opened'[b] >= opened[b] + Window[b] - Lag

WindowsApart == [][OpensApart]_vars

(* A request is turned away only when the window had its limit of them:    *)
(* no bucket starts, or stays, used up.                                    *)
RefusesWhenFull ==
    \A c \in Calls :
        (pc[c] = "take" /\ pc'[c] = "refused")
            => used'[Head(todo[c])] > Limit[Head(todo[c])]

RefusedOnlyWhenFull == [][RefusesWhenFull]_vars

(* The Retry-After of a refusal is never longer than the window and the    *)
(* lag, however long ago the clock was read on either side.  (That it is   *)
(* positive is the test by which allowOTPRequest knows a refusal; that no  *)
(* refusal is taken for a grant is what BudgetHolds says.)                 *)
RefusedWaits ==
    \A c \in Calls :
        pc[c] = "refused" =>
            /\ answer[c].over
            /\ answer[c].wait \in
                 1 .. (LET b == Head(todo[c]) IN Window[b] + Lag)
=============================================================================
