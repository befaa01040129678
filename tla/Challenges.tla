------------------------------ MODULE Challenges ------------------------------
(***************************************************************************)
(* One-time codes: the handlers that mail a code and the handlers that     *)
(* take it back, with the tables account_login_requests and                *)
(* account_email_change_requests.                                          *)
(*                                                                         *)
(* A challenge is addressed by an identity: a mailbox for a login, an      *)
(* account number for a change of mailbox; each has one row at most.  The  *)
(* code is bound to identity and purpose by signOTP, so a code of one      *)
(* identity is never the code of another.  A request draws at most one     *)
(* code, which is named after it.                                          *)
(*                                                                         *)
(* Time only decides which codes have expired.  A confirmation reads the   *)
(* clock before its first statement, so it may find a code unexpired that  *)
(* expires while the statement waits.                                      *)
(***************************************************************************)
EXTENDS Integers

CONSTANTS Requests, \* HTTP requests, each handled once
          Emails,   \* mailboxes
          Subs,     \* account numbers the database may hand out
          None      \* "no row" and "no value"

Identities == Emails \cup Subs
Challenge  == [code : Requests, email : Emails]
Origin     == [id : Identities, to : Emails]

ASSUME SubsAssumption == Subs \subseteq Nat \ {0} /\ Subs \cap Emails = {}
ASSUME NoneAssumption ==
    None \notin Requests \cup Emails \cup Subs \cup Challenge \cup Origin

VARIABLES
    accounts,   \* accounts[s]: mailbox of account s
    lastSub,    \* high-water mark of the account numbers
    challenge,  \* challenge[i]: the row of identity i
    pc,         \* where a request is in its handler
    job,        \* its identity, code and mailbox
    expired,    \* codes past their lifetime
    inbox,      \* codes whose mail was delivered
    asked,      \* history: for whom, and to where, code c was made
    ended,      \* history: codes accepted, replaced, cleaned away or cascaded
    accepted    \* history: the code that confirmation r was accepted with

vars == <<accounts, lastSub, challenge, pc, job, expired, inbox, asked, ended, accepted>>

NoJob == [id |-> None, code |-> None, email |-> None, late |-> FALSE]

TypeOK ==
    /\ accounts \in [Subs -> Emails \cup {None}]
    /\ lastSub \in Nat
    /\ challenge \in [Identities -> Challenge \cup {None}]
    /\ pc \in [Requests -> {"idle", "save", "send", "consume", "apply",
                            "ok", "invalid", "conflict", "error"}]
    /\ job \in [Requests -> [id : Identities \cup {None}, code : Requests \cup {None},
                             email : Emails \cup {None}, late : BOOLEAN]]
    /\ expired \subseteq Requests /\ inbox \subseteq Requests
    /\ asked \in [Requests -> Origin \cup {None}]
    /\ ended \subseteq Requests
    /\ accepted \in [Requests -> Requests \cup {None}]

Init ==
    /\ accounts = [s \in Subs |-> None] /\ lastSub = 0
    /\ challenge = [i \in Identities |-> None]
    /\ pc = [r \in Requests |-> "idle"]
    /\ job = [r \in Requests |-> NoJob]
    /\ expired = {} /\ inbox = {}
    /\ asked = [c \in Requests |-> None]
    /\ ended = {}
    /\ accepted = [r \in Requests |-> None]

-----------------------------------------------------------------------------
Owns(s, e) == accounts[s] # None /\ accounts[s] = e
Taken(e)   == \E s \in Subs : Owns(s, e)

(* An open transaction has deleted the row: other statements on it wait.   *)
Held(i) == \E r \in Requests : pc[r] = "apply" /\ job[r].id = i

Goto(r, label) == pc' = [pc EXCEPT ![r] = label]

(* The codes of the rows I leave the table. *)
Drop(I) ==
    /\ challenge' = [i \in Identities |-> IF i \in I THEN None ELSE challenge[i]]
    /\ ended' = ended \cup {challenge[i].code : i \in {j \in I : challenge[j] # None}}

-----------------------------------------------------------------------------
(* LoginOrCreateAccount and RequestEmailChange *)

Draw(r, i, e) ==
    /\ pc[r] = "idle"
    /\ job' = [job EXCEPT ![r] = [NoJob EXCEPT !.id = i, !.email = e]]
    /\ asked' = [asked EXCEPT ![r] = [id |-> i, to |-> e]]
    /\ Goto(r, "save")
    /\ UNCHANGED <<accounts, lastSub, challenge, expired, inbox, ended, accepted>>

RequestLogin(r, e) == Draw(r, e, e)

(* The account is loaded first: it must exist and have another mailbox.    *)
RequestEmailChange(r, s, e) ==
    /\ accounts[s] # None /\ ~Owns(s, e)
    /\ Draw(r, s, e)

(* As if the mail were sent although the upsert failed. *)
SaveIgnored(r) ==
    /\ pc[r] = "save"
    /\ Goto(r, "send")
    /\ UNCHANGED <<accounts, lastSub, challenge, job, expired, inbox, asked, ended, accepted>>

(* The upsert: the row of the identity, a former one replaced.  The foreign*)
(* key refuses an account that is gone.                                    *)
Save(r) ==
    LET i == job[r].id
    IN /\ pc[r] = "save" /\ ~Held(i)
       /\ i \in Subs => accounts[i] # None
       /\ ended' = ended \cup (IF challenge[i] = None THEN {} ELSE {challenge[i].code})
       /\ challenge' = [challenge EXCEPT ![i] = [code |-> r, email |-> job[r].email]]
       /\ Goto(r, "send")
       /\ UNCHANGED <<accounts, lastSub, job, expired, inbox, asked, accepted>>

(* sendOTP: the mail may be lost, or be delivered although Send failed.    *)
Send(r) ==
    /\ pc[r] = "send"
    /\ inbox' \in {inbox, inbox \cup {r}}
    /\ \E reply \in {"ok", "error"} : Goto(r, reply)
    /\ UNCHANGED <<accounts, lastSub, challenge, job, expired, asked, ended, accepted>>

-----------------------------------------------------------------------------
(* VerifyAuthenticationCode and ConfirmEmailChange *)

(* Someone who read the mail with code c presents it, for any identity. *)
Present(r, i, c) ==
    /\ pc[r] = "idle" /\ c \in inbox
    /\ job' = [job EXCEPT ![r] = [NoJob EXCEPT !.id = i, !.code = c,
                                               !.late = c \in expired]]
    /\ Goto(r, "consume")
    /\ UNCHANGED <<accounts, lastSub, challenge, expired, inbox, asked, ended, accepted>>

(* As if the digest of the code were not compared. *)
MatchesAny(r) == challenge[job[r].id] # None /\ ~job[r].late

Matches(r) ==
    LET row == challenge[job[r].id]
    IN row # None /\ row.code = job[r].code /\ ~job[r].late

(* As if a row that another transaction is consuming could be read. *)
ConsumeUnlocked(r) ==
    /\ pc[r] = "consume"
    /\ Goto(r, IF Matches(r) THEN "apply" ELSE "invalid")
    /\ job' = [job EXCEPT ![r].email = IF Matches(r) THEN challenge[job[r].id].email ELSE @]
    /\ UNCHANGED <<accounts, lastSub, challenge, expired, inbox, asked, ended, accepted>>

(* Consume...Request, the first statement of the transaction.              *)
Consume(r) ==
    LET i == job[r].id
    IN /\ pc[r] = "consume"
       /\ \/ /\ Matches(r) /\ ~Held(i)
             /\ job' = [job EXCEPT ![r].email = challenge[i].email]
             /\ Goto(r, "apply")
          \/ /\ ~Matches(r)
             /\ Goto(r, "invalid")
             /\ UNCHANGED job
       /\ UNCHANGED <<accounts, lastSub, challenge, expired, inbox, asked, ended, accepted>>

(* The commit, after which the client may still be told of an error. *)
Accept(r) ==
    /\ Drop({job[r].id})
    /\ accepted' = [accepted EXCEPT ![r] = job[r].code]
    /\ \E reply \in {"ok", "error"} : Goto(r, reply)

(* EnsureAccountByEmail (and AssignRoleToAccount), then the commit. *)
ApplyLogin(r) ==
    LET e == job[r].email
    IN /\ pc[r] = "apply" /\ job[r].id \in Emails
       /\ \/ Taken(e) /\ UNCHANGED <<accounts, lastSub>>
          \/ /\ ~Taken(e) /\ lastSub + 1 \in Subs
             /\ lastSub' = lastSub + 1
             /\ accounts' = [accounts EXCEPT ![lastSub + 1] = e]
       /\ Accept(r)
       /\ UNCHANGED <<job, expired, inbox, asked>>

(* As if the code were consumed by a transaction of its own. *)
ApplyChangeSplit(r) ==
    LET s == job[r].id
        e == job[r].email
    IN /\ pc[r] = "apply" /\ s \in Subs
       /\ Drop({s})
       /\ IF \E t \in Subs \ {s} : Owns(t, e)
          THEN Goto(r, "conflict") /\ UNCHANGED <<accounts, accepted>>
          ELSE /\ accounts' = [accounts EXCEPT ![s] = e]
               /\ accepted' = [accepted EXCEPT ![r] = job[r].code]
               /\ \E reply \in {"ok", "error"} : Goto(r, reply)
       /\ UNCHANGED <<lastSub, job, expired, inbox, asked>>

(* UpdateAccountEmail: the unique index refuses a mailbox in use, and the  *)
(* transaction rolls back; otherwise it commits.                           *)
ApplyChange(r) ==
    LET s == job[r].id
        e == job[r].email
    IN /\ pc[r] = "apply" /\ s \in Subs
       /\ \/ /\ \E t \in Subs \ {s} : Owns(t, e)
             /\ Goto(r, "conflict")
             /\ UNCHANGED <<accounts, challenge, ended, accepted>>
          \/ /\ \A t \in Subs \ {s} : ~Owns(t, e)
             /\ accounts' = [accounts EXCEPT ![s] = e]
             /\ Accept(r)
       /\ UNCHANGED <<lastSub, job, expired, inbox, asked>>

-----------------------------------------------------------------------------
(* A statement fails, or the server dies; a transaction is rolled back.    *)
Abort(r) ==
    /\ pc[r] \in {"save", "send", "consume", "apply"}
    /\ Goto(r, "error")
    /\ UNCHANGED <<accounts, lastSub, challenge, job, expired, inbox, asked, ended, accepted>>

(* As if the change requests of a deleted account stayed. *)
DeleteAccountOnly(s) ==
    /\ accounts[s] # None
    /\ accounts' = [accounts EXCEPT ![s] = None]
    /\ UNCHANGED <<lastSub, challenge, pc, job, expired, inbox, asked, ended, accepted>>

(* DELETE /account: the change request of the account goes with it. *)
DeleteAccount(s) ==
    /\ accounts[s] # None /\ ~Held(s)
    /\ accounts' = [accounts EXCEPT ![s] = None]
    /\ Drop({s})
    /\ UNCHANGED <<lastSub, pc, job, expired, inbox, asked, accepted>>

Expire(c) ==
    /\ \E i \in Identities : challenge[i] # None /\ challenge[i].code = c
    /\ c \notin expired
    /\ expired' = expired \cup {c}
    /\ UNCHANGED <<accounts, lastSub, challenge, pc, job, inbox, asked, ended, accepted>>

(* DeleteExpiredLoginRequests and DeleteExpiredEmailChangeRequests: a      *)
(* batch of the expired rows.                                              *)
DeleteExpired ==
    \E I \in SUBSET {i \in Identities : /\ challenge[i] # None
                                        /\ challenge[i].code \in expired
                                        /\ ~Held(i)} :
        /\ I # {}
        /\ Drop(I)
        /\ UNCHANGED <<accounts, lastSub, pc, job, expired, inbox, asked, accepted>>

-----------------------------------------------------------------------------
Issue(r) ==
    \/ \E e \in Emails : RequestLogin(r, e) \/ \E s \in Subs : RequestEmailChange(r, s, e)
    \/ Save(r) \/ Send(r)

Confirm(r) ==
    \/ \E i \in Identities, c \in Requests : Present(r, i, c)
    \/ Consume(r) \/ ApplyLogin(r) \/ ApplyChange(r)

Next ==
    \/ \E r \in Requests : Issue(r) \/ Confirm(r) \/ Abort(r)
    \/ \E s \in Subs : DeleteAccount(s)
    \/ \E c \in Requests : Expire(c)
    \/ DeleteExpired

Spec == Init /\ [][Next]_vars

-----------------------------------------------------------------------------
(* Properties. *)

(* An account gets its mailbox only by a proof: in the very step that      *)
(* sets it a code is accepted that was mailed to that mailbox, and that    *)
(* was made for a login there or for a change that this account asked for. *)
SetByProof ==
    \A s \in Subs : accounts'[s] \notin {accounts[s], None} =>
       \E r \in Requests :
          /\ accepted'[r] # accepted[r]
          /\ asked[accepted'[r]] \in {[id |-> i, to |-> accounts'[s]] : i \in {accounts'[s], s}}

MailboxProven == [][SetByProof]_vars

(* A mailed code is usable: its row is there from before the mail is sent  *)
(* until it is accepted, replaced, cleaned away or deleted with its        *)
(* account (the comment at mail.go:11-12).                                 *)
MailedUsable ==
    \A c \in inbox : \/ c \in ended
                     \/ \E i \in Identities : challenge[i] # None /\ challenge[i].code = c

(* A code that was accepted, replaced, cleaned away or deleted with its    *)
(* account is never accepted again, however its confirmations race.        *)
AcceptedAlive ==
    \A r \in Requests : accepted'[r] # accepted[r] => accepted'[r] \notin ended

NeverAgain == [][AcceptedAlive]_vars

(* A challenge is not used up by accident: it leaves the table only when a *)
(* confirmation is accepted with it, a new code replaces it, it expired or *)
(* its account is deleted; a refused or conflicting confirmation, a failed *)
(* mail or a rollback leave it (auth.go:137-153, account.go:221-228).      *)
LeavesForAReason ==
    \A i \in Identities :
       (challenge[i] # None /\ challenge'[i] # challenge[i]) =>
          \/ challenge[i].code \in expired
          \/ challenge'[i] # None /\ pc[challenge'[i].code] = "save"
          \/ i \in Subs /\ accounts[i] # None /\ accounts'[i] = None
          \/ \E r \in Requests : accepted'[r] # accepted[r]
                                  /\ accepted'[r] = challenge[i].code

CodeNotLost == [][LeavesForAReason]_vars

(* A change of mailbox never outlives its account: after a deletion no     *)
(* pending code, and no confirmation under way, can touch the account or a *)
(* later one.                                                              *)
NoChangeOfTheDead ==
    \A s \in Subs : accounts[s] = None => challenge[s] = None /\ ~Held(s)
=============================================================================
