----------------------------- MODULE FixedWindow -----------------------------
(***************************************************************************)
(* The arithmetic of one row of rate_limits, as the upsert of              *)
(* TakeRateLimit computes it: a window of fixed length that opens with the *)
(* first request and counts the requests until it ends.                    *)
(***************************************************************************)
EXTENDS Integers

CONSTANTS Buckets,   \* the rows used, one per scope of the same key
          Limit,     \* maxRequests of a bucket
          Window     \* windowSeconds of a bucket

(* TakeRateLimit rejects a window or a limit that is not positive. *)
ASSUME LimitAssumption == Limit \in [Buckets -> Nat \ {0}]
ASSUME WindowAssumption == Window \in [Buckets -> Nat \ {0}]

Row == [requests : Nat, expires : Nat]

(* A row that is absent: the upsert treats it as it treats an expired one. *)
NoRow == [requests |-> 0, expires |-> 0]

(* As if a window still counted at the second it ends. *)
LapsedLate(row, t) == row.expires < t

Lapsed(row, t) == row.expires <= t

Least(a, b) == IF a < b THEN a ELSE b

(* As if expires_at were assigned before requests: MySQL evaluates the     *)
(* assignments of an upsert from left to right.                            *)
TakenExpiresFirst(b, row, t) ==
    [requests |-> IF row = NoRow THEN 1 ELSE Least(row.requests, Limit[b]) + 1,
     expires  |-> IF Lapsed(row, t) THEN t + Window[b] ELSE row.expires]

(* The upsert of bucket b at time t: the row it leaves.  The count stops   *)
(* at the first request over the limit.                                    *)
Taken(b, row, t) ==
    IF Lapsed(row, t)
    THEN [requests |-> 1, expires |-> t + Window[b]]
    ELSE [row EXCEPT !.requests = Least(@, Limit[b]) + 1]

OverLimit(b, row) == row.requests > Limit[b]

(* As if the end of the window were returned instead of the wait for it.   *)
RetryAfterAbsolute(b, row, t) == IF OverLimit(b, row) THEN row.expires ELSE 0

(* What TakeRateLimit returns; its caller takes it for a refusal when it   *)
(* is positive.                                                            *)
RetryAfter(b, row, t) == IF OverLimit(b, row) THEN row.expires - t ELSE 0
=============================================================================
