---------------------------- MODULE MCRateLimits ----------------------------
(* Instances of RateLimits for TLC: the two budgets of allowOTPIssuance,   *)
(* with their windows and limits scaled down.                              *)
EXTENDS RateLimits, TLC

IssueKinds   == {"issue"}
IssueBuckets == {"minute", "window"}
IssueBudgets == [k \in IssueKinds |-> <<"minute", "window">>]
IssueLimit   == [b \in IssueBuckets |-> IF b = "minute" THEN 1 ELSE 2]
IssueWindow  == [b \in IssueBuckets |-> IF b = "minute" THEN 2 ELSE 3]

Symmetry == Permutations(Calls)
=============================================================================
