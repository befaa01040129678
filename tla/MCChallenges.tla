---------------------------- MODULE MCChallenges ----------------------------
(* An instance of Challenges for TLC. *)
EXTENDS Challenges, TLC

CONSTANTS c1, c2, v1, v2   \* four requests, over at the start of Seeded

Logins   == {c1, c2}
Free     == Requests \ {c1, c2, v1, v2}
Symmetry == Permutations(Free) \cup Permutations(Emails)

TwoSubs == 1..2

(* A state that Spec reaches: two logins made two accounts.  From here on  *)
(* few requests are needed to make changes of mailbox collide.             *)
Seeded ==
    \E e1, e2 \in Emails :
        /\ e1 # e2
        /\ accounts = [s \in Subs |-> IF s = 1 THEN e1 ELSE e2] /\ lastSub = 2
        /\ challenge = [i \in Identities |-> None]
        /\ pc = [r \in Requests |-> IF r \in Free THEN "idle" ELSE "ok"]
        /\ job = [r \in Requests |->
                    CASE r = c1 -> [NoJob EXCEPT !.id = e1, !.email = e1]
                      [] r = c2 -> [NoJob EXCEPT !.id = e2, !.email = e2]
                      [] r = v1 -> [NoJob EXCEPT !.id = e1, !.code = c1, !.email = e1]
                      [] r = v2 -> [NoJob EXCEPT !.id = e2, !.code = c2, !.email = e2]
                      [] OTHER  -> NoJob]
        /\ expired = {} /\ inbox = Logins /\ ended = Logins
        /\ asked = [c \in Requests |->
                      CASE c = c1 -> [id |-> e1, to |-> e1]
                        [] c = c2 -> [id |-> e2, to |-> e2]
                        [] OTHER  -> None]
        /\ accepted = [r \in Requests |->
                         CASE r = v1 -> c1 [] r = v2 -> c2 [] OTHER -> None]

(* The initial state of Spec for Free and one of the other requests: three *)
(* of those are over before they begin.                                    *)
Empty ==
    /\ accounts = [s \in Subs |-> None] /\ lastSub = 0
    /\ challenge = [i \in Identities |-> None]
    /\ pc = [r \in Requests |-> IF r \in Free \cup {c1} THEN "idle" ELSE "error"]
    /\ job = [r \in Requests |-> NoJob]
    /\ expired = {} /\ inbox = {} /\ ended = {}
    /\ asked = [c \in Requests |-> None]
    /\ accepted = [r \in Requests |-> None]

BothSpec == (Seeded \/ Empty) /\ [][Next]_vars
=============================================================================
