----------------------------- MODULE MCRequests -----------------------------
(***************************************************************************)
(* An instance of Requests for TLC.  The server starts on an empty         *)
(* database, or on one with an account that has signed in before: then     *)
(* two requests are enough for one to delete the account of the other.     *)
(***************************************************************************)
EXTENDS Requests, TLC

TwoSubs  == 1..2
Symmetry == Permutations(Requests)

Seeded ==
    /\ lastSub = 1 /\ accounts = {1} /\ gen = [s \in Subs |-> 0]
    /\ roles = [s \in Subs |-> IF s = 1 THEN {Default} ELSE {}] /\ grants = {Default}
    /\ issued = {[sub |-> 1, gen |-> 0, roles |-> {Default}]}
    /\ route = [r \in Requests |-> None] /\ todo = [r \in Requests |-> << >>]
    /\ token = [r \in Requests |-> None] /\ sub = [r \in Requests |-> None]
    /\ wire = [r \in Requests |-> NewWire] /\ gone = {}
    /\ did = [r \in Requests |-> {}] /\ seen = [r \in Requests |-> {}]

BothSpec == (Init \/ Seeded) /\ [][Next]_vars
=============================================================================
