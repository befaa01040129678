--------------------------- MODULE SessionContract ---------------------------
(***************************************************************************)
(* What the session authority promises its clients, with every operation a *)
(* single step and without auth ids, row locks, transactions or time:      *)
(* a login starts a session, a refresh token is exchanged at most once and *)
(* its successor continues the same session, and revoking or deleting an   *)
(* account ends, in that instant, all its sessions and access tokens.      *)
(***************************************************************************)
CONSTANTS Requests, Emails, Subs, None

VARIABLES
    owner,   \* owner[s]: the mailbox of account s, None if there is none
    live,    \* live[h]: account and login of the unspent refresh token h
    issued,  \* issued[h]: account the access token h was ever signed for
    valid    \* the access tokens that authenticate a request

vars == <<owner, live, issued, valid>>

Init ==
    /\ owner = [s \in Subs |-> None]
    /\ live = [h \in Requests |-> None]
    /\ issued = [h \in Requests |-> None]
    /\ valid = {}

(* A mailbox has one account at most. *)
Unclaimed(e) == \A s \in Subs : owner[s] # e

CreateAccount(s, e) ==
    /\ owner[s] = None
    /\ \A h \in Requests : issued[h] # s
    /\ Unclaimed(e)
    /\ owner' = [owner EXCEPT ![s] = e]
    /\ UNCHANGED <<live, issued, valid>>

ChangeOwner(s, e) ==
    /\ owner[s] # None
    /\ Unclaimed(e)
    /\ owner' = [owner EXCEPT ![s] = e]
    /\ UNCHANGED <<live, issued, valid>>

(* The access token h is signed for account s and is valid at once. *)
Grant(h, s) ==
    /\ issued[h] = None
    /\ issued' = [issued EXCEPT ![h] = s]
    /\ valid' = valid \cup {h}

Login(h, s) ==
    /\ owner[s] # None
    /\ Grant(h, s)
    /\ live' = [live EXCEPT ![h] = [sub |-> s, root |-> h]]
    /\ UNCHANGED owner

(* g is spent; h continues its session in the same account. *)
Exchange(g, h) ==
    /\ live[g] # None
    /\ Grant(h, live[g].sub)
    /\ live' = [live EXCEPT ![g] = None, ![h] = live[g]]
    /\ UNCHANGED owner

(* Refresh tokens end one by one, or expired ones in batches; the access   *)
(* tokens signed with them live on until they expire.                      *)
EndTokens ==
    /\ \E ended \in SUBSET Requests :
          live' = [h \in Requests |-> IF h \in ended THEN None ELSE live[h]]
    /\ UNCHANGED <<owner, issued, valid>>

EndSessions(s) ==
    /\ live' = [h \in Requests |->
                  IF live[h] # None /\ live[h].sub = s THEN None ELSE live[h]]
    /\ valid' = {h \in valid : issued[h] # s}
    /\ UNCHANGED issued

RevokeAll(s) == owner[s] # None /\ EndSessions(s) /\ UNCHANGED owner

DeleteAccount(s) == EndSessions(s) /\ owner' = [owner EXCEPT ![s] = None]

Next ==
    \/ EndTokens
    \/ \E s \in Subs :
         \/ \E e \in Emails : CreateAccount(s, e) \/ ChangeOwner(s, e)
         \/ \E h \in Requests : Login(h, s)
         \/ RevokeAll(s)
         \/ DeleteAccount(s)
    \/ \E g, h \in Requests : Exchange(g, h)

Spec == Init /\ [][Next]_vars
=============================================================================
