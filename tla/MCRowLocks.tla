------------------------------ MODULE MCRowLocks ------------------------------
(* An instance of RowLocks for TLC: two accounts, two mailboxes that can be  *)
(* swapped, and two tokens of one account, in pools of any size that makes a *)
(* difference to three requests.                                             *)
EXTENDS RowLocks, TLC

CONSTANTS s1, s2, t1, t2

Symmetry == Permutations(Requests)

OfOneAccount == [h \in Tokens |-> s1]

Pools == 1..Cardinality(Requests)
=============================================================================
