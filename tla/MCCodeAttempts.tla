--------------------------- MODULE MCCodeAttempts ---------------------------
(* An instance of CodeAttempts for TLC: the three budgets of otp.go, with  *)
(* limits and windows scaled down.                                         *)
EXTENDS CodeAttempts, TLC

Scopes  == {"minute", "window", "verify"}
Limits  == [minute |-> 1, window |-> 1, verify |-> 2]
Windows == [minute |-> 1, window |-> 1, verify |-> 3]

Symmetry == Permutations(Requests)
=============================================================================
