----------------------------- MODULE CodeAttempts -----------------------------
(***************************************************************************)
(* How often an identity's codes can be tried, and until when: the budgets *)
(* of issuing and verifying, the row of the code and the clock, together.  *)
(* The identity is a mailbox or an account number.                         *)
(*                                                                         *)
(* RateLimits says what the budgets promise and Challenges what becomes of *)
(* a code; how often the codes can be tried depends on both, and on when a *)
(* request reads the clock.  The cleanup and the upsert of TakeRateLimit   *)
(* are one step here: a cleanup between them is a step of Maintain.        *)
(***************************************************************************)
EXTENDS FixedWindow, FiniteSets

CONSTANTS Requests,  \* requests being handled for the identity
          Lifetime,  \* otpLifetime
          Lag,       \* longest time from a request's first time.Now() to its end
          MaxTime    \* bound: the clock stops there

ASSUME BucketsAssumption == Buckets = {"minute", "window", "verify"}
ASSUME RequestsAssumption == IsFiniteSet(Requests)
ASSUME LifetimeAssumption == Lifetime \in Nat \ {0}
ASSUME LagAssumption == Lag \in Nat /\ Lag < Window["verify"] /\ MaxTime \in Nat

VARIABLES
    clock,   \* time.Now().Unix()
    rows,    \* rows[b]: the row of bucket b
    code,    \* expires_at of the identity's code, or NoCode
    at,      \* requests: the bucket to charge, or the place in the handler,
    start,   \*   the time read first,
    now,     \*   and the time read last
    tries    \* history: how often a code of the identity was tried

vars == <<clock, rows, code, at, start, now, tries>>

NoCode == 0

Places == {"idle", "draw", "save", "begin", "try"} \cup Buckets

TypeOK ==
    /\ clock \in Nat
    /\ rows \in [Buckets -> Row]
    /\ code \in Nat
    /\ at \in [Requests -> Places]
    /\ start \in [Requests -> Nat] /\ now \in [Requests -> Nat]
    /\ tries \in Nat

Init ==
    /\ clock = 0
    /\ rows = [b \in Buckets |-> NoRow]
    /\ code = NoCode
    /\ at = [r \in Requests |-> "idle"]
    /\ start = [r \in Requests |-> 0] /\ now = [r \in Requests |-> 0]
    /\ tries = 0

Goto(r, place) == at' = [at EXCEPT ![r] = place]
ReadClock(r)   == now' = [now EXCEPT ![r] = clock]

(* The request is over: its times are gone. *)
Leave(r) ==
    /\ Goto(r, "idle")
    /\ start' = [start EXCEPT ![r] = 0]
    /\ now' = [now EXCEPT ![r] = 0]

-----------------------------------------------------------------------------
(* Where a request goes when a budget is granted. *)
Granted == [minute |-> "window", window |-> "draw", verify |-> "begin"]

(* A request to mail a code, or to verify one, reaches allowOTPRequest. *)
Arrive(r) ==
    /\ at[r] = "idle"
    /\ \E first \in {"minute", "verify"} : Goto(r, first)
    /\ start' = [start EXCEPT ![r] = clock]
    /\ ReadClock(r)
    /\ UNCHANGED <<clock, rows, code, tries>>

(* allowOTPRequest: TakeRateLimit, then 429 or the next step. *)
Charge(r) ==
    /\ at[r] \in Buckets
    /\ LET b   == at[r]
           row == Taken(b, rows[b], now[r])
       IN  /\ rows' = [rows EXCEPT ![b] = row]
           /\ \/ RetryAfter(b, row, now[r]) > 0 /\ Leave(r)
              \/ /\ RetryAfter(b, row, now[r]) <= 0
                 /\ Goto(r, Granted[b]) /\ ReadClock(r) /\ UNCHANGED start
    /\ UNCHANGED <<clock, code, tries>>

(* The code is drawn, and the clock read for its expiry. *)
DrawCode(r) ==
    /\ at[r] = "draw"
    /\ Goto(r, "save") /\ ReadClock(r)
    /\ UNCHANGED <<clock, rows, code, start, tries>>

(* As if a new code came with a new budget of tries. *)
SaveCodeAndReset(r) ==
    /\ at[r] = "save"
    /\ code' = now[r] + Lifetime
    /\ rows' = [rows EXCEPT !["verify"] = NoRow]
    /\ Leave(r)
    /\ UNCHANGED <<clock, tries>>

(* Upsert...Request: a former code is replaced. *)
SaveCode(r) ==
    /\ at[r] = "save"
    /\ code' = now[r] + Lifetime
    /\ Leave(r)
    /\ UNCHANGED <<clock, rows, tries>>

(* The transaction begins; then the clock is read. *)
Begin(r) ==
    /\ at[r] = "begin"
    /\ Goto(r, "try") /\ ReadClock(r)
    /\ UNCHANGED <<clock, rows, code, start, tries>>

(* As if the code's last second were one too many. *)
LiveLate(t) == code # NoCode /\ code >= t

Live(t) == code # NoCode /\ code > t

(* Consume...Request: a right guess takes the row, unless the rest of the  *)
(* transaction fails; a wrong one leaves it.                               *)
Try(r) ==
    /\ at[r] = "try"
    /\ \/ Live(now[r]) /\ code' \in {NoCode, code} /\ tries' = tries + 1
       \/ ~Live(now[r]) /\ UNCHANGED <<code, tries>>
    /\ Leave(r)
    /\ UNCHANGED <<clock, rows>>

(* A statement fails before it takes effect.  That a charge takes effect   *)
(* and then fails is a charge whose request gets no further.               *)
Fail(r) ==
    /\ at[r] # "idle"
    /\ Leave(r)
    /\ UNCHANGED <<clock, rows, code, tries>>

(* DeleteExpiredRecords, and the cleanup of TakeRateLimit: a request that  *)
(* read the clock earlier removes fewer rows.                              *)
Maintain ==
    \/ /\ code # NoCode /\ ~Live(clock)
       /\ code' = NoCode
       /\ UNCHANGED rows
    \/ /\ \E b \in Buckets : /\ rows[b] # NoRow /\ Lapsed(rows[b], clock)
                             /\ rows' = [rows EXCEPT ![b] = NoRow]
       /\ UNCHANGED code

(* The account of the identity is deleted, and its code with it. *)
DeleteAccount ==
    /\ code # NoCode
    /\ code' = NoCode
    /\ UNCHANGED <<clock, rows, at, start, now, tries>>

Tick ==
    /\ clock < MaxTime
    /\ \A r \in Requests : at[r] # "idle" => clock - start[r] < Lag
    /\ clock' = clock + 1
    /\ UNCHANGED <<rows, code, at, start, now, tries>>

Next ==
    \/ \E r \in Requests : \/ Arrive(r) \/ Charge(r) \/ Fail(r)
                           \/ DrawCode(r) \/ SaveCode(r) \/ Begin(r) \/ Try(r)
    \/ Maintain /\ UNCHANGED <<clock, at, start, now, tries>>
    \/ DeleteAccount \/ Tick

Spec == Init /\ [][Next]_vars

-----------------------------------------------------------------------------
(* Properties. *)

(* By any time the identity's codes were tried no oftener than its         *)
(* verification budget allows, however many codes were asked for, used,    *)
(* expired and cleaned away meanwhile and however requests interleave:     *)
(* "reissuing or consuming an OTP must not reset the verification limit"   *)
(* (otp.go:19-20).  Late statements bring windows closer by Lag.           *)
TriesBounded ==
    tries <= Limit["verify"] * (1 + clock \div (Window["verify"] - Lag))

(* A code is accepted, at the latest, when the time a request may take has *)
(* passed since it expired; the clock is read before the statement waits.  *)
AcceptedInTime ==
    [][\A r \in Requests :
          (at[r] = "try" /\ at'[r] = "idle" /\ code # NoCode /\ code' = NoCode)
             => clock < code + Lag]_vars
=============================================================================
