--------------------------- MODULE ChallengesProofs ---------------------------
(***************************************************************************)
(* Proofs about Challenges, for every set of requests, mailboxes and       *)
(* account numbers.                                                        *)
(*                                                                         *)
(* What the handlers rely on without saying so is that a transaction that  *)
(* has matched a code still finds its row when it applies it: ApplyOK.     *)
(* It holds because the row stays locked, and it is inductive only next to *)
(* RowOK, which ties a row to the request that drew its code.              *)
(***************************************************************************)
EXTENDS Challenges, TLAPS

-----------------------------------------------------------------------------
(* The inductive invariant. *)

(* What a handler knows about its own locals.  A code is addressed once,   *)
(* when it is drawn; a login code goes to the mailbox it identifies.       *)
JobOK ==
    \A r \in Requests :
        /\ pc[r] \in {"save", "send"} =>
             /\ job[r].id \in Identities /\ job[r].email \in Emails
             /\ asked[r] = [id |-> job[r].id, to |-> job[r].email]
             /\ job[r].id \in Emails => job[r].email = job[r].id
        /\ pc[r] \in {"consume", "apply"} =>
             job[r].id \in Identities /\ job[r].code \in Requests
        /\ pc[r] \in {"idle", "save", "send", "consume", "apply"} => accepted[r] = None

(* A code whose upsert has not been tried. *)
Unsaved(c) == pc[c] \in {"idle", "save"}

(* A row holds a code that was made for its identity and mailbox, that has *)
(* not come to an end, and whose account, if it is a change, exists.       *)
RowOK ==
    \A i \in Identities : challenge[i] # None =>
        /\ ~Unsaved(challenge[i].code)
        /\ asked[challenge[i].code] = [id |-> i, to |-> challenge[i].email]
        /\ challenge[i].code \notin ended
        /\ i \in Emails => challenge[i].email = i
        /\ i \in Subs => accounts[i] # None

EndedOK == \A c \in ended : ~Unsaved(c)

(* The transaction that matched a code owns the row until it ends.         *)
ApplyOK ==
    /\ \A r \in Requests : pc[r] = "apply" =>
         /\ challenge[job[r].id] # None
         /\ challenge[job[r].id].code = job[r].code
         /\ challenge[job[r].id].email = job[r].email
    /\ \A q, r \in Requests :
         (pc[q] = "apply" /\ pc[r] = "apply" /\ job[q].id = job[r].id) => q = r

(* A code is stored before its mail is sent. *)
Stored(c) == \/ c \in ended
             \/ \E i \in Identities : challenge[i] # None /\ challenge[i].code = c

MailOK == \A c \in Requests : (pc[c] = "send" \/ c \in inbox) => Stored(c)

IInv == TypeOK /\ JobOK /\ RowOK /\ EndedOK /\ ApplyOK /\ MailOK

-----------------------------------------------------------------------------
(* Effects of the actions, record by record. *)

Others(r) == \A q \in Requests : q # r => job'[q] = job[q] /\ pc'[q] = pc[q]

DrawDoes(r, i, e) ==
    /\ pc[r] = "idle" /\ pc'[r] = "save" /\ Others(r)
    /\ job'[r].id = i /\ job'[r].email = e
    /\ asked'[r] = [id |-> i, to |-> e]
    /\ \A c \in Requests : c # r => asked'[c] = asked[c]
    /\ UNCHANGED <<accounts, lastSub, challenge, expired, inbox, ended, accepted>>

LEMMA DrawEffect ==
    ASSUME TypeOK, NEW r \in Requests, NEW i, NEW e, Draw(r, i, e)
    PROVE  DrawDoes(r, i, e)
<1>1. job'[r] = [NoJob EXCEPT !.id = i, !.email = e]
  BY DEF Draw, TypeOK
<1>2. job'[r].id = i /\ job'[r].email = e
  BY <1>1 DEF NoJob
<1> QED
  BY <1>2 DEF Draw, DrawDoes, Goto, Others, TypeOK

PresentDoes(r, i, c) ==
    /\ pc[r] = "idle" /\ pc'[r] = "consume" /\ Others(r)
    /\ job'[r].id = i /\ job'[r].code = c
    /\ UNCHANGED <<accounts, lastSub, challenge, expired, inbox, asked, ended, accepted>>

LEMMA PresentEffect ==
    ASSUME TypeOK, NEW r \in Requests, NEW i \in Identities, NEW c \in Requests, Present(r, i, c)
    PROVE  PresentDoes(r, i, c)
<1>1. job'[r] = [NoJob EXCEPT !.id = i, !.code = c, !.late = c \in expired]
  BY DEF Present, TypeOK
<1>2. job'[r].id = i /\ job'[r].code = c
  BY <1>1 DEF NoJob
<1> QED
  BY <1>2 DEF Present, PresentDoes, Goto, Others, TypeOK

ConsumeDoes(r) ==
    /\ pc[r] = "consume" /\ Others(r)
    /\ job'[r].id = job[r].id /\ job'[r].code = job[r].code
    /\ \/ /\ pc'[r] = "apply" /\ ~Held(job[r].id)
          /\ challenge[job[r].id] # None
          /\ challenge[job[r].id].code = job[r].code
          /\ job'[r].email = challenge[job[r].id].email
       \/ pc'[r] = "invalid"
    /\ UNCHANGED <<accounts, lastSub, challenge, expired, inbox, asked, ended, accepted>>

LEMMA ConsumeEffect ==
    ASSUME TypeOK, NEW r \in Requests, Consume(r)
    PROVE  ConsumeDoes(r)
<1>1. CASE /\ Matches(r) /\ ~Held(job[r].id)
           /\ job' = [job EXCEPT ![r].email = challenge[job[r].id].email]
           /\ Goto(r, "apply")
  BY <1>1 DEF Consume, ConsumeDoes, Matches, Goto, Others, TypeOK
<1>2. CASE Goto(r, "invalid") /\ UNCHANGED job
  BY <1>2 DEF Consume, ConsumeDoes, Goto, Others, TypeOK
<1> QED
  BY <1>1, <1>2 DEF Consume

SaveDoes(r) ==
    /\ pc[r] = "save" /\ pc'[r] = "send" /\ ~Held(job[r].id)
    /\ \A q \in Requests : q # r => pc'[q] = pc[q]
    /\ job[r].id \in Identities
    /\ job[r].id \in Subs => accounts[job[r].id] # None
    /\ challenge'[job[r].id] # None
    /\ challenge'[job[r].id].code = r /\ challenge'[job[r].id].email = job[r].email
    /\ \A i \in Identities : i # job[r].id => challenge'[i] = challenge[i]
    /\ ended \subseteq ended'
    /\ challenge[job[r].id] # None => challenge[job[r].id].code \in ended'
    /\ \A c \in ended' \ ended : challenge[job[r].id] # None /\ c = challenge[job[r].id].code
    /\ UNCHANGED <<accounts, lastSub, job, expired, inbox, asked, accepted>>

LEMMA SaveEffect ==
    ASSUME TypeOK, JobOK, NEW r \in Requests, Save(r)
    PROVE  SaveDoes(r)
<1> DEFINE new == [code |-> r, email |-> job[r].email]
<1>1. job[r].id \in Identities /\ job[r].email \in Emails
  BY DEF Save, JobOK
<1>2. new \in Challenge /\ new.code = r /\ new.email = job[r].email
  BY <1>1 DEF Challenge
<1>3. challenge' = [challenge EXCEPT ![job[r].id] = new]
  BY DEF Save
<1> HIDE DEF new
<1>4. /\ challenge'[job[r].id] = new /\ new # None
      /\ \A i \in Identities : i # job[r].id => challenge'[i] = challenge[i]
  BY <1>1, <1>2, <1>3, NoneAssumption DEF TypeOK
<1> QED
  BY <1>1, <1>2, <1>4 DEF Save, SaveDoes, Goto, TypeOK

(* Rows that leave the table end their codes, and no other.                *)
DropDoes(I) ==
    /\ \A i \in Identities : challenge'[i] = IF i \in I THEN None ELSE challenge[i]
    /\ ended \subseteq ended'
    /\ \A i \in I : challenge[i] # None => challenge[i].code \in ended'
    /\ \A c \in ended' \ ended : \E i \in I : challenge[i] # None /\ challenge[i].code = c

LEMMA DropEffect ==
    ASSUME NEW I \in SUBSET Identities, Drop(I)
    PROVE  DropDoes(I)
  BY DEF Drop, DropDoes

(* A confirmation that is accepted.                                        *)
AcceptDoes(r) ==
    /\ pc[r] = "apply" /\ pc'[r] \in {"ok", "error"}
    /\ \A q \in Requests : q # r => pc'[q] = pc[q]
    /\ DropDoes({job[r].id})
    /\ accepted'[r] = job[r].code
    /\ \A q \in Requests : q # r => accepted'[q] = accepted[q]
    /\ UNCHANGED <<job, expired, inbox, asked>>

LEMMA AcceptEffect ==
    ASSUME TypeOK, JobOK, NEW r \in Requests, pc[r] = "apply",
           Accept(r), UNCHANGED <<job, expired, inbox, asked>>
    PROVE  AcceptDoes(r)
<1>1. DropDoes({job[r].id})
  BY DropEffect DEF Accept, JobOK
<1> QED
  BY <1>1 DEF Accept, AcceptDoes, Goto, TypeOK

LoginDoes(r) ==
    /\ AcceptDoes(r) /\ job[r].id \in Emails
    /\ \/ UNCHANGED accounts
       \/ /\ lastSub + 1 \in Subs
          /\ accounts'[lastSub + 1] = job[r].email
          /\ \A s \in Subs : s # lastSub + 1 => accounts'[s] = accounts[s]

LEMMA LoginEffect ==
    ASSUME TypeOK, JobOK, NEW r \in Requests, ApplyLogin(r)
    PROVE  LoginDoes(r)
  BY AcceptEffect DEF ApplyLogin, LoginDoes, TypeOK

ChangeDoes(r) ==
    /\ pc[r] = "apply" /\ job[r].id \in Subs
    /\ \/ /\ pc'[r] = "conflict" /\ Others(r)
          /\ UNCHANGED <<accounts, challenge, ended, accepted>>
       \/ /\ AcceptDoes(r)
          /\ accounts'[job[r].id] = job[r].email
          /\ \A s \in Subs : s # job[r].id => accounts'[s] = accounts[s]
    /\ UNCHANGED <<lastSub, job, expired, inbox, asked>>

LEMMA ChangeEffect ==
    ASSUME TypeOK, JobOK, NEW r \in Requests, ApplyChange(r)
    PROVE  ChangeDoes(r)
<1>1. CASE Goto(r, "conflict") /\ UNCHANGED <<accounts, challenge, ended, accepted>>
  BY <1>1 DEF ApplyChange, ChangeDoes, Goto, Others, TypeOK
<1>2. CASE accounts' = [accounts EXCEPT ![job[r].id] = job[r].email] /\ Accept(r)
  <2>1. AcceptDoes(r)
    BY <1>2, AcceptEffect DEF ApplyChange
  <2> QED
    BY <1>2, <2>1 DEF ApplyChange, ChangeDoes, TypeOK
<1> QED
  BY <1>1, <1>2 DEF ApplyChange

(* An account and its pending change, when nobody is consuming it.         *)
DeleteDoes(s) ==
    /\ accounts[s] # None /\ accounts'[s] = None
    /\ \A t \in Subs : t # s => accounts'[t] = accounts[t]
    /\ ~Held(s) /\ DropDoes({s})
    /\ UNCHANGED <<lastSub, pc, job, expired, inbox, asked, accepted>>

LEMMA DeleteEffect ==
    ASSUME TypeOK, NEW s \in Subs, DeleteAccount(s)
    PROVE  DeleteDoes(s)
<1>1. DropDoes({s})
  BY DropEffect DEF DeleteAccount, Identities
<1> QED
  BY <1>1 DEF DeleteAccount, DeleteDoes, TypeOK

(* A batch of expired rows that nobody is consuming.                       *)
ExpiredDoes(I) ==
    /\ \A i \in I : challenge[i] # None /\ challenge[i].code \in expired /\ ~Held(i)
    /\ DropDoes(I)
    /\ UNCHANGED <<accounts, lastSub, pc, job, expired, inbox, asked, accepted>>

LEMMA ExpiredEffect ==
    ASSUME DeleteExpired
    PROVE  \E I \in SUBSET Identities : ExpiredDoes(I)
<1>1. PICK I \in SUBSET {i \in Identities : /\ challenge[i] # None
                                            /\ challenge[i].code \in expired
                                            /\ ~Held(i)} :
             /\ Drop(I)
             /\ UNCHANGED <<accounts, lastSub, pc, job, expired, inbox, asked, accepted>>
  BY DEF DeleteExpired
<1>2. I \in SUBSET Identities /\ DropDoes(I)
  BY <1>1, DropEffect
<1> QED
  BY <1>1, <1>2 DEF ExpiredDoes

(* The steps that leave the rows alone. *)
SendDoes(r) ==
    /\ pc[r] = "send" /\ pc'[r] \in {"ok", "error"} /\ Others(r)
    /\ inbox' \in {inbox, inbox \cup {r}}
    /\ UNCHANGED <<accounts, lastSub, challenge, job, expired, asked, ended, accepted>>

AbortDoes(r) ==
    /\ pc[r] \in {"save", "send", "consume", "apply"} /\ pc'[r] = "error" /\ Others(r)
    /\ UNCHANGED <<accounts, lastSub, challenge, job, expired, inbox, asked, ended, accepted>>

QuietDoes ==
    /\ expired \subseteq expired'
    /\ UNCHANGED <<accounts, lastSub, challenge, pc, job, inbox, asked, ended, accepted>>

(* Every step is one of these. *)
SomeStep ==
    \/ \E r \in Requests, i \in Identities, e \in Emails :
          /\ DrawDoes(r, i, e)
          /\ i \in Emails => i = e
    \/ \E r \in Requests, i \in Identities, c \in Requests : PresentDoes(r, i, c)
    \/ \E r \in Requests :
          \/ SaveDoes(r) \/ SendDoes(r) \/ ConsumeDoes(r)
          \/ LoginDoes(r) \/ ChangeDoes(r) \/ AbortDoes(r)
    \/ \E s \in Subs : DeleteDoes(s)
    \/ \E I \in SUBSET Identities : ExpiredDoes(I)
    \/ QuietDoes

LEMMA StepEffects ==
    ASSUME TypeOK, JobOK, [Next]_vars
    PROVE  SomeStep
<1>1. ASSUME NEW r \in Requests, NEW e \in Emails, RequestLogin(r, e)
      PROVE  SomeStep
  <2>1. e \in Identities /\ DrawDoes(r, e, e)
    BY <1>1, DrawEffect DEF RequestLogin, Identities
  <2> QED
    BY <2>1 DEF SomeStep
<1>2. ASSUME NEW r \in Requests, NEW s \in Subs, NEW e \in Emails, RequestEmailChange(r, s, e)
      PROVE  SomeStep
  <2>1. s \in Identities /\ s \notin Emails /\ DrawDoes(r, s, e)
    BY <1>2, DrawEffect, SubsAssumption DEF RequestEmailChange, Identities
  <2> QED
    BY <2>1 DEF SomeStep
<1>3. ASSUME NEW r \in Requests, NEW i \in Identities, NEW c \in Requests, Present(r, i, c)
      PROVE  SomeStep
  BY <1>3, PresentEffect DEF SomeStep
<1>4. ASSUME NEW r \in Requests, Save(r)
      PROVE  SomeStep
  BY <1>4, SaveEffect DEF SomeStep
<1>5. ASSUME NEW r \in Requests, Send(r)
      PROVE  SomeStep
  <2>1. SendDoes(r)
    BY <1>5 DEF Send, SendDoes, Goto, Others, TypeOK
  <2> QED
    BY <2>1 DEF SomeStep
<1>6. ASSUME NEW r \in Requests, Consume(r)
      PROVE  SomeStep
  BY <1>6, ConsumeEffect DEF SomeStep
<1>7. ASSUME NEW r \in Requests, ApplyLogin(r)
      PROVE  SomeStep
  BY <1>7, LoginEffect DEF SomeStep
<1>8. ASSUME NEW r \in Requests, ApplyChange(r)
      PROVE  SomeStep
  BY <1>8, ChangeEffect DEF SomeStep
<1>9. ASSUME NEW r \in Requests, Abort(r)
      PROVE  SomeStep
  <2>1. AbortDoes(r)
    BY <1>9 DEF Abort, AbortDoes, Goto, Others, TypeOK
  <2> QED
    BY <2>1 DEF SomeStep
<1>10. ASSUME NEW s \in Subs, DeleteAccount(s)
       PROVE  SomeStep
  BY <1>10, DeleteEffect DEF SomeStep
<1>11. ASSUME NEW c \in Requests, Expire(c)
       PROVE  SomeStep
  <2>1. QuietDoes
    BY <1>11 DEF Expire, QuietDoes
  <2> QED
    BY <2>1 DEF SomeStep
<1>12. CASE DeleteExpired
  BY <1>12, ExpiredEffect DEF SomeStep
<1>13. CASE UNCHANGED vars
  <2>1. QuietDoes
    BY <1>13 DEF vars, QuietDoes
  <2> QED
    BY <2>1 DEF SomeStep
<1> QED
  BY <1>1, <1>2, <1>3, <1>4, <1>5, <1>6, <1>7, <1>8, <1>9, <1>10, <1>11, <1>12, <1>13
     DEF Next, Issue, Confirm

-----------------------------------------------------------------------------
(* The invariant is inductive. *)

LEMMA TypeStep ==
    ASSUME TypeOK, JobOK, ApplyOK, [Next]_vars
    PROVE  TypeOK'
<1> USE DEF TypeOK, Goto
<1>0. NoJob \in [id : Identities \cup {None}, code : Requests \cup {None},
                 email : Emails \cup {None}, late : BOOLEAN]
  BY DEF NoJob
<1>1. ASSUME NEW r \in Requests, NEW i \in Identities, NEW e \in Emails, Draw(r, i, e)
      PROVE  TypeOK'
  <2>1. [NoJob EXCEPT !.id = i, !.email = e]
           \in [id : Identities \cup {None}, code : Requests \cup {None},
                email : Emails \cup {None}, late : BOOLEAN]
    BY DEF NoJob
  <2>2. [id |-> i, to |-> e] \in Origin
    BY DEF Origin
  <2> QED
    BY <1>1, <2>1, <2>2 DEF Draw
<1>2. ASSUME NEW r \in Requests, NEW i \in Identities, NEW c \in Requests, Present(r, i, c)
      PROVE  TypeOK'
  <2>1. \A b \in BOOLEAN :
           [NoJob EXCEPT !.id = i, !.code = c, !.late = b]
              \in [id : Identities \cup {None}, code : Requests \cup {None},
                   email : Emails \cup {None}, late : BOOLEAN]
    BY DEF NoJob
  <2>2. (c \in expired) \in BOOLEAN
    OBVIOUS
  <2>3. [NoJob EXCEPT !.id = i, !.code = c, !.late = c \in expired]
           \in [id : Identities \cup {None}, code : Requests \cup {None},
                email : Emails \cup {None}, late : BOOLEAN]
    BY <2>1, <2>2
  <2> QED
    BY <1>2, <2>3 DEF Present
<1>3. ASSUME NEW r \in Requests, Save(r)
      PROVE  TypeOK'
  <2>1. job[r].id \in Identities /\ job[r].email \in Emails
    BY <1>3 DEF Save, JobOK
  <2>2. [code |-> r, email |-> job[r].email] \in Challenge
    BY <2>1 DEF Challenge
  <2>3. challenge[job[r].id] # None => challenge[job[r].id].code \in Requests
    BY <2>1 DEF Challenge
  <2>4. challenge' \in [Identities -> Challenge \cup {None}] /\ ended' \subseteq Requests
    BY <1>3, <2>1, <2>2, <2>3 DEF Save
  <2> QED
    BY <1>3, <2>4 DEF Save
<1>4. ASSUME NEW r \in Requests, Send(r)
      PROVE  TypeOK'
  BY <1>4 DEF Send
<1>5. ASSUME NEW r \in Requests, Consume(r)
      PROVE  TypeOK'
  <2>1. Matches(r) => challenge[job[r].id].email \in Emails
    BY <1>5 DEF Consume, JobOK, Matches, Challenge
  <2> QED
    BY <1>5, <2>1 DEF Consume
<1>6. ASSUME NEW I \in SUBSET Identities, Drop(I)
      PROVE  challenge' \in [Identities -> Challenge \cup {None}] /\ ended' \subseteq Requests
  BY <1>6 DEF Drop, Challenge
<1>7. ASSUME NEW r \in Requests, pc[r] = "apply", Accept(r), UNCHANGED <<job, expired, inbox, asked>>,
             accounts' \in [Subs -> Emails \cup {None}], lastSub' \in Nat
      PROVE  TypeOK'
  <2>1. job[r].id \in Identities /\ job[r].code \in Requests
    BY <1>7 DEF JobOK
  <2>2. challenge' \in [Identities -> Challenge \cup {None}] /\ ended' \subseteq Requests
    BY <1>6, <1>7, <2>1 DEF Accept
  <2> QED
    BY <1>7, <2>1, <2>2 DEF Accept
<1>8. ASSUME NEW r \in Requests, pc[r] = "apply"
      PROVE  job[r].email \in Emails
  BY <1>8 DEF ApplyOK, JobOK, Challenge
<1>9. ASSUME NEW r \in Requests, ApplyLogin(r)
      PROVE  TypeOK'
  BY <1>7, <1>8, <1>9 DEF ApplyLogin
<1>10. ASSUME NEW r \in Requests, ApplyChange(r)
       PROVE  TypeOK'
  <2>1. CASE Goto(r, "conflict") /\ UNCHANGED <<accounts, challenge, ended, accepted>>
    BY <1>10, <2>1 DEF ApplyChange
  <2>2. CASE accounts' = [accounts EXCEPT ![job[r].id] = job[r].email] /\ Accept(r)
    <3>1. accounts' \in [Subs -> Emails \cup {None}]
      BY <1>8, <1>10, <2>2 DEF ApplyChange
    <3> QED
      BY <1>7, <1>10, <2>2, <3>1 DEF ApplyChange
  <2> QED
    BY <1>10, <2>1, <2>2 DEF ApplyChange
<1>11. ASSUME NEW r \in Requests, Abort(r)
       PROVE  TypeOK'
  BY <1>11 DEF Abort
<1>12. ASSUME NEW s \in Subs, DeleteAccount(s)
       PROVE  TypeOK'
  <2>1. challenge' \in [Identities -> Challenge \cup {None}] /\ ended' \subseteq Requests
    BY <1>6, <1>12 DEF DeleteAccount, Identities
  <2> QED
    BY <1>12, <2>1 DEF DeleteAccount
<1>13. ASSUME NEW c \in Requests, Expire(c)
       PROVE  TypeOK'
  BY <1>13 DEF Expire
<1>14. CASE DeleteExpired
  <2>1. challenge' \in [Identities -> Challenge \cup {None}] /\ ended' \subseteq Requests
    BY <1>6, <1>14 DEF DeleteExpired
  <2> QED
    BY <1>14, <2>1 DEF DeleteExpired
<1>15. CASE UNCHANGED vars
  BY <1>15 DEF vars
<1>16. ASSUME NEW r \in Requests, Issue(r) \/ Confirm(r)
       PROVE  TypeOK'
  BY <1>16, <1>1, <1>2, <1>3, <1>4, <1>5, <1>9, <1>10
     DEF Issue, Confirm, RequestLogin, RequestEmailChange, Identities
<1> QED
  BY <1>11, <1>12, <1>13, <1>14, <1>15, <1>16 DEF Next
(* Locals are set before they are used, and a request is accepted once.    *)
LEMMA JobStep ==
    ASSUME TypeOK, JobOK, SomeStep
    PROVE  JobOK'
<1> USE DEF TypeOK, JobOK, Identities
<1>1. ASSUME NEW r \in Requests, NEW i \in Identities, NEW e \in Emails, DrawDoes(r, i, e),
             i \in Emails => i = e
      PROVE  JobOK'
  BY <1>1 DEF DrawDoes, Others
<1>2. ASSUME NEW r \in Requests, NEW i \in Identities, NEW c \in Requests, PresentDoes(r, i, c)
      PROVE  JobOK'
  BY <1>2 DEF PresentDoes, Others
<1>3. ASSUME NEW r \in Requests, SaveDoes(r)
      PROVE  JobOK'
  BY <1>3 DEF SaveDoes
<1>4. ASSUME NEW r \in Requests, SendDoes(r)
      PROVE  JobOK'
  BY <1>4 DEF SendDoes, Others
<1>5. ASSUME NEW r \in Requests, ConsumeDoes(r)
      PROVE  JobOK'
  BY <1>5 DEF ConsumeDoes, Others
<1>6. ASSUME NEW r \in Requests, LoginDoes(r)
      PROVE  JobOK'
  BY <1>6 DEF LoginDoes, AcceptDoes, DropDoes
<1>7. ASSUME NEW r \in Requests, ChangeDoes(r)
      PROVE  JobOK'
  BY <1>7 DEF ChangeDoes, AcceptDoes, DropDoes, Others
<1>8. ASSUME NEW r \in Requests, AbortDoes(r)
      PROVE  JobOK'
  BY <1>8 DEF AbortDoes, Others
<1>9. ASSUME NEW s \in Subs, DeleteDoes(s)
      PROVE  JobOK'
  BY <1>9 DEF DeleteDoes, DropDoes
<1>10. ASSUME NEW I \in SUBSET Identities, ExpiredDoes(I)
      PROVE  JobOK'
  BY <1>10 DEF ExpiredDoes, DropDoes
<1>11. CASE QuietDoes
  BY <1>11 DEF QuietDoes
<1> QED
  BY <1>1, <1>2, <1>3, <1>4, <1>5, <1>6, <1>7, <1>8, <1>9, <1>10, <1>11 DEF SomeStep

(* A code is in one row at most. *)
LEMMA OneRow ==
    ASSUME RowOK, NEW i \in Identities, NEW j \in Identities,
           challenge[i] # None, challenge[j] # None, challenge[i].code = challenge[j].code
    PROVE  i = j
<1>1. [id |-> i, to |-> challenge[i].email] = [id |-> j, to |-> challenge[j].email]
  BY DEF RowOK
<1>2. [id |-> i, to |-> challenge[i].email].id = [id |-> j, to |-> challenge[j].email].id
  BY <1>1
<1> QED
  BY <1>2

(* Steps that only take rows away, from accounts that stay or with theirs. *)
LEMMA RowDrop ==
    ASSUME TypeOK, RowOK, EndedOK, NEW I \in SUBSET Identities, DropDoes(I), UNCHANGED asked,
           \A c \in Requests : Unsaved(c)' => Unsaved(c),
           \A s \in Subs : (accounts[s] # None /\ s \notin I) => accounts'[s] # None
    PROVE  RowOK' /\ EndedOK'
<1>1. \A i \in Identities : challenge[i] # None => challenge[i].code \in Requests
  BY DEF TypeOK, Challenge
<1>2. ASSUME NEW c \in ended'
      PROVE  ~Unsaved(c)'
  <2>1. c \in Requests /\ ~Unsaved(c)
    <3>1. CASE c \in ended
      BY <3>1 DEF EndedOK, TypeOK
    <3>2. CASE c \notin ended
      <4>1. PICK i \in I : challenge[i] # None /\ challenge[i].code = c
        BY <1>2, <3>2 DEF DropDoes
      <4> QED
        BY <1>1, <4>1 DEF RowOK
    <3> QED
      BY <3>1, <3>2
  <2> QED
    BY <2>1
<1>3. ASSUME NEW i \in Identities, challenge'[i] # None
      PROVE  /\ challenge'[i] = challenge[i] /\ i \notin I
             /\ challenge[i].code \notin ended'
  <2>1. challenge'[i] = challenge[i] /\ i \notin I
    BY <1>3 DEF DropDoes
  <2>2. \A j \in I : challenge[j] # None => challenge[j].code # challenge[i].code
    BY <1>3, <2>1, OneRow
  <2> QED
    BY <1>3, <2>1, <2>2 DEF DropDoes, RowOK
<1>4. RowOK'
  BY <1>1, <1>3 DEF RowOK
<1> QED
  BY <1>2, <1>4 DEF EndedOK

(* Rows keep to their codes, and a code is ended after it was stored.      *)
LEMMA RowStep ==
    ASSUME TypeOK, JobOK, RowOK, EndedOK, ApplyOK, SomeStep
    PROVE  RowOK' /\ EndedOK'
<1> USE DEF Identities
<1>1. ASSUME NEW r \in Requests, NEW i \in Identities, NEW e \in Emails, DrawDoes(r, i, e),
             i \in Emails => i = e
      PROVE  RowOK' /\ EndedOK'
  BY <1>1 DEF DrawDoes, Others, TypeOK, RowOK, EndedOK, Unsaved, Challenge
<1>2. ASSUME NEW r \in Requests, NEW i \in Identities, NEW c \in Requests, PresentDoes(r, i, c)
      PROVE  RowOK' /\ EndedOK'
  BY <1>2 DEF PresentDoes, Others, TypeOK, RowOK, EndedOK, Unsaved, Challenge
<1>3. ASSUME NEW r \in Requests, SaveDoes(r)
      PROVE  RowOK' /\ EndedOK'
  <2>1. \A c \in Requests : Unsaved(c)' => Unsaved(c)
    BY <1>3 DEF SaveDoes, Unsaved
  <2>2. ~Unsaved(r)' /\ r \notin ended /\ Unsaved(r)
    BY <1>3 DEF SaveDoes, EndedOK, Unsaved
  <2>3. \A i \in Identities : challenge[i] # None =>
           challenge[i].code \in Requests /\ challenge[i].code # r
    <3>1. \A i \in Identities : challenge[i] # None => challenge[i].code \in Requests
      BY DEF TypeOK, Challenge
    <3>2. \A i \in Identities : challenge[i] # None => ~Unsaved(challenge[i].code)
      BY DEF RowOK
    <3> QED
      BY <2>2, <3>1, <3>2
  <2>4. \A i \in Identities : (challenge[i] # None /\ i # job[r].id) => challenge[i].code \notin ended'
    <3>1. \A i \in Identities : (challenge[i] # None /\ i # job[r].id /\ challenge[job[r].id] # None) =>
             challenge[i].code # challenge[job[r].id].code
      BY <1>3, OneRow DEF SaveDoes
    <3>2. \A i \in Identities : challenge[i] # None => challenge[i].code \notin ended
      BY DEF RowOK
    <3> QED
      BY <1>3, <3>1, <3>2 DEF SaveDoes
  <2>5. r \notin ended'
    BY <1>3, <2>2, <2>3 DEF SaveDoes
  <2>6. \A i \in Identities : i # job[r].id => challenge'[i] = challenge[i]
    BY <1>3 DEF SaveDoes
  <2>7. RowOK'
    <3> SUFFICES ASSUME NEW i \in Identities, challenge'[i] # None
                 PROVE  /\ pc'[challenge'[i].code] \notin {"idle", "save"}
                        /\ asked'[challenge'[i].code] = [id |-> i, to |-> challenge'[i].email]
                        /\ challenge'[i].code \notin ended'
                        /\ i \in Emails => challenge'[i].email = i
                        /\ i \in Subs => accounts'[i] # None
      BY DEF RowOK, Unsaved
    <3>1. CASE i = job[r].id
      BY <1>3, <2>2, <2>5, <3>1 DEF SaveDoes, JobOK, Unsaved
    <3>2. CASE i # job[r].id
      BY <1>3, <2>1, <2>3, <2>4, <2>6, <3>2 DEF SaveDoes, RowOK, Unsaved
    <3> QED
      BY <3>1, <3>2
  <2>8. ASSUME NEW c \in ended'
        PROVE  c \in Requests /\ ~Unsaved(c)
    <3>1. CASE c \in ended
      BY <3>1 DEF EndedOK, TypeOK
    <3>2. CASE c \notin ended
      <4>1. /\ challenge[job[r].id] # None /\ c = challenge[job[r].id].code
            /\ job[r].id \in Identities
        BY <1>3, <2>8, <3>2 DEF SaveDoes
      <4> QED
        BY <2>3, <4>1 DEF RowOK
    <3> QED
      BY <3>1, <3>2
  <2> QED
    BY <2>1, <2>7, <2>8 DEF EndedOK
<1>4. ASSUME NEW r \in Requests, SendDoes(r)
      PROVE  RowOK' /\ EndedOK'
  BY <1>4 DEF SendDoes, Others, TypeOK, RowOK, EndedOK, Unsaved, Challenge
<1>5. ASSUME NEW r \in Requests, ConsumeDoes(r)
      PROVE  RowOK' /\ EndedOK'
  BY <1>5 DEF ConsumeDoes, Others, TypeOK, RowOK, EndedOK, Unsaved, Challenge
<1>6. ASSUME NEW r \in Requests, LoginDoes(r)
      PROVE  RowOK' /\ EndedOK'
  <2>1. /\ AcceptDoes(r) /\ job[r].id \in Identities
        /\ \A c \in Requests : Unsaved(c)' => Unsaved(c)
    BY <1>6 DEF LoginDoes, AcceptDoes, Unsaved, JobOK
  <2>2. job[r].email # None
    BY <2>1, NoneAssumption DEF AcceptDoes, ApplyOK, TypeOK, Challenge
  <2>3. \A s \in Subs : accounts[s] # None => accounts'[s] # None
    BY <1>6, <2>2 DEF LoginDoes
  <2> QED
    BY <2>1, <2>3, RowDrop DEF AcceptDoes
<1>7. ASSUME NEW r \in Requests, ChangeDoes(r)
      PROVE  RowOK' /\ EndedOK'
  <2>1. CASE UNCHANGED <<accounts, challenge, ended, accepted>>
    BY <1>7, <2>1 DEF ChangeDoes, AcceptDoes, Others, TypeOK, RowOK, EndedOK, Unsaved, Challenge
  <2>2. CASE /\ AcceptDoes(r)
             /\ \A s \in Subs : s # job[r].id => accounts'[s] = accounts[s]
    <3>1. /\ job[r].id \in Identities
          /\ \A c \in Requests : Unsaved(c)' => Unsaved(c)
      BY <2>2 DEF AcceptDoes, Unsaved, JobOK
    <3> QED
      BY <2>2, <3>1, RowDrop DEF AcceptDoes
  <2> QED
    BY <1>7, <2>1, <2>2 DEF ChangeDoes
<1>8. ASSUME NEW r \in Requests, AbortDoes(r)
      PROVE  RowOK' /\ EndedOK'
  BY <1>8 DEF AbortDoes, Others, TypeOK, RowOK, EndedOK, Unsaved, Challenge
<1>9. ASSUME NEW s \in Subs, DeleteDoes(s)
      PROVE  RowOK' /\ EndedOK'
  <2>1. \A c \in Requests : Unsaved(c)' => Unsaved(c)
    BY <1>9 DEF DeleteDoes, Unsaved
  <2>2. s \in Identities
    BY DEF Identities
  <2> QED
    BY <1>9, <2>1, <2>2, RowDrop DEF DeleteDoes
<1>10. ASSUME NEW I \in SUBSET Identities, ExpiredDoes(I)
      PROVE  RowOK' /\ EndedOK'
  <2>1. \A c \in Requests : Unsaved(c)' => Unsaved(c)
    BY <1>10 DEF ExpiredDoes, Unsaved
  <2> QED
    BY <1>10, <2>1, RowDrop DEF ExpiredDoes
<1>11. CASE QuietDoes
  BY <1>11 DEF QuietDoes, TypeOK, RowOK, EndedOK, Unsaved, Challenge
<1> QED
  BY <1>1, <1>2, <1>3, <1>4, <1>5, <1>6, <1>7, <1>8, <1>9, <1>10, <1>11 DEF SomeStep

(* No other request touches a row that is being consumed.                  *)
LEMMA ApplyStep ==
    ASSUME TypeOK, JobOK, ApplyOK, SomeStep
    PROVE  ApplyOK'
<1> USE DEF TypeOK, JobOK, ApplyOK, Held, Identities
<1>1. ASSUME NEW r \in Requests, NEW i \in Identities, NEW e \in Emails, DrawDoes(r, i, e),
             i \in Emails => i = e
      PROVE  ApplyOK'
  BY <1>1 DEF DrawDoes, Others
<1>2. ASSUME NEW r \in Requests, NEW i \in Identities, NEW c \in Requests, PresentDoes(r, i, c)
      PROVE  ApplyOK'
  BY <1>2 DEF PresentDoes, Others
<1>3. ASSUME NEW r \in Requests, SaveDoes(r)
      PROVE  ApplyOK'
  BY <1>3 DEF SaveDoes
<1>4. ASSUME NEW r \in Requests, SendDoes(r)
      PROVE  ApplyOK'
  BY <1>4 DEF SendDoes, Others
<1>5. ASSUME NEW r \in Requests, ConsumeDoes(r)
      PROVE  ApplyOK'
  BY <1>5 DEF ConsumeDoes, Others
<1>6. ASSUME NEW r \in Requests, LoginDoes(r)
      PROVE  ApplyOK'
  <2>1. /\ pc[r] = "apply" /\ pc'[r] \in {"ok", "error"} /\ UNCHANGED job
        /\ \A q \in Requests : q # r => pc'[q] = pc[q]
        /\ \A i \in Identities : i # job[r].id => challenge'[i] = challenge[i]
    BY <1>6 DEF LoginDoes, AcceptDoes, DropDoes
  <2>2. \A q \in Requests : pc'[q] = "apply" => pc[q] = "apply" /\ job[q].id # job[r].id
    BY <2>1
  <2> QED
    BY <2>1, <2>2
<1>7. ASSUME NEW r \in Requests, ChangeDoes(r)
      PROVE  ApplyOK'
  BY <1>7 DEF ChangeDoes, AcceptDoes, DropDoes, Others
<1>8. ASSUME NEW r \in Requests, AbortDoes(r)
      PROVE  ApplyOK'
  BY <1>8 DEF AbortDoes, Others
<1>9. ASSUME NEW s \in Subs, DeleteDoes(s)
      PROVE  ApplyOK'
  BY <1>9 DEF DeleteDoes, DropDoes
<1>10. ASSUME NEW I \in SUBSET Identities, ExpiredDoes(I)
      PROVE  ApplyOK'
  BY <1>10 DEF ExpiredDoes, DropDoes
<1>11. CASE QuietDoes
  BY <1>11 DEF QuietDoes
<1> QED
  BY <1>1, <1>2, <1>3, <1>4, <1>5, <1>6, <1>7, <1>8, <1>9, <1>10, <1>11 DEF SomeStep

(* A row that leaves the table ends its code. *)
LEMMA MailStep ==
    ASSUME TypeOK, JobOK, MailOK, SomeStep
    PROVE  MailOK'
<1> USE DEF TypeOK, JobOK, MailOK, Stored
<1>1. ASSUME NEW r \in Requests, NEW i \in Identities, NEW e \in Emails, DrawDoes(r, i, e),
             i \in Emails => i = e
      PROVE  MailOK'
  BY <1>1 DEF DrawDoes, Others
<1>2. ASSUME NEW r \in Requests, NEW i \in Identities, NEW c \in Requests, PresentDoes(r, i, c)
      PROVE  MailOK'
  BY <1>2 DEF PresentDoes, Others
<1>3. ASSUME NEW r \in Requests, SaveDoes(r)
      PROVE  MailOK'
  BY <1>3 DEF SaveDoes
<1>4. ASSUME NEW r \in Requests, SendDoes(r)
      PROVE  MailOK'
  BY <1>4 DEF SendDoes, Others
<1>5. ASSUME NEW r \in Requests, ConsumeDoes(r)
      PROVE  MailOK'
  BY <1>5 DEF ConsumeDoes, Others
<1>6. ASSUME NEW r \in Requests, LoginDoes(r)
      PROVE  MailOK'
  BY <1>6 DEF LoginDoes, AcceptDoes, DropDoes
<1>7. ASSUME NEW r \in Requests, ChangeDoes(r)
      PROVE  MailOK'
  BY <1>7 DEF ChangeDoes, AcceptDoes, DropDoes, Others
<1>8. ASSUME NEW r \in Requests, AbortDoes(r)
      PROVE  MailOK'
  BY <1>8 DEF AbortDoes, Others
<1>9. ASSUME NEW s \in Subs, DeleteDoes(s)
      PROVE  MailOK'
  BY <1>9 DEF DeleteDoes, DropDoes
<1>10. ASSUME NEW I \in SUBSET Identities, ExpiredDoes(I)
      PROVE  MailOK'
  BY <1>10 DEF ExpiredDoes, DropDoes
<1>11. CASE QuietDoes
  BY <1>11 DEF QuietDoes
<1> QED
  BY <1>1, <1>2, <1>3, <1>4, <1>5, <1>6, <1>7, <1>8, <1>9, <1>10, <1>11 DEF SomeStep

-----------------------------------------------------------------------------
(* What a step may do. *)

(* A mailbox is set only by a transaction that has matched a code for it.  *)
LEMMA SetStep ==
    ASSUME TypeOK, JobOK, RowOK, ApplyOK, SomeStep
    PROVE  SetByProof
<1> SUFFICES ASSUME NEW s \in Subs, accounts'[s] # accounts[s], accounts'[s] # None
             PROVE  \E r \in Requests :
                       /\ accepted'[r] # accepted[r]
                       /\ asked[accepted'[r]] \in {[id |-> i, to |-> accounts'[s]] : i \in {accounts'[s], s}}
  BY DEF SetByProof
<1>1. ASSUME NEW r \in Requests, AcceptDoes(r)
      PROVE  /\ accepted'[r] # accepted[r] /\ accepted'[r] = job[r].code
             /\ asked[accepted'[r]] = [id |-> job[r].id, to |-> job[r].email]
             /\ job[r].id \in Emails => job[r].email = job[r].id
  BY <1>1, NoneAssumption DEF AcceptDoes, JobOK, RowOK, ApplyOK
<1>2. ASSUME NEW r \in Requests, LoginDoes(r)
      PROVE  accounts'[s] = job[r].email /\ job[r].email = job[r].id
  BY <1>1, <1>2 DEF LoginDoes
<1>3. ASSUME NEW r \in Requests, ChangeDoes(r)
      PROVE  AcceptDoes(r) /\ s = job[r].id /\ accounts'[s] = job[r].email
  BY <1>3 DEF ChangeDoes
<1>4. CASE \E r \in Requests : LoginDoes(r)
  <2>1. PICK r \in Requests : LoginDoes(r)
    BY <1>4
  <2>2. AcceptDoes(r)
    BY <2>1 DEF LoginDoes
  <2> QED
    BY <1>1, <1>2, <2>1, <2>2
<1>5. CASE \E r \in Requests : ChangeDoes(r)
  <2>1. PICK r \in Requests : ChangeDoes(r)
    BY <1>5
  <2> QED
    BY <1>1, <1>3, <2>1
<1>6. UNCHANGED accounts \/ (\E r \in Requests : LoginDoes(r) \/ ChangeDoes(r))
                         \/ (\E t \in Subs : DeleteDoes(t))
  BY DEF SomeStep, DrawDoes, PresentDoes, SaveDoes, SendDoes, ConsumeDoes, AbortDoes,
         ExpiredDoes, QuietDoes
<1>7. ASSUME NEW t \in Subs, DeleteDoes(t)
      PROVE  FALSE
  BY <1>7 DEF DeleteDoes
<1> QED
  BY <1>4, <1>5, <1>6, <1>7

(* The row that a transaction has matched holds a code that is alive.      *)
LEMMA AliveStep ==
    ASSUME TypeOK, JobOK, RowOK, ApplyOK, SomeStep
    PROVE  AcceptedAlive
<1>1. ASSUME NEW r \in Requests, AcceptDoes(r)
      PROVE  AcceptedAlive
  <2>1. job[r].code \notin ended
    BY <1>1 DEF AcceptDoes, JobOK, RowOK, ApplyOK
  <2> QED
    BY <1>1, <2>1 DEF AcceptDoes, AcceptedAlive
<1>2. UNCHANGED accepted \/ \E r \in Requests : AcceptDoes(r)
  BY DEF SomeStep, DrawDoes, PresentDoes, SaveDoes, SendDoes, ConsumeDoes, LoginDoes, ChangeDoes,
         AbortDoes, DeleteDoes, ExpiredDoes, QuietDoes
<1> QED
  BY <1>1, <1>2 DEF AcceptedAlive

LEMMA LeaveStep ==
    ASSUME TypeOK, JobOK, ApplyOK, SomeStep
    PROVE  LeavesForAReason
<1> SUFFICES ASSUME NEW i \in Identities, challenge[i] # None, challenge'[i] # challenge[i]
             PROVE  \/ challenge[i].code \in expired
                    \/ challenge'[i] # None /\ pc[challenge'[i].code] = "save"
                    \/ i \in Subs /\ accounts[i] # None /\ accounts'[i] = None
                    \/ \E r \in Requests : accepted'[r] # accepted[r]
                                            /\ accepted'[r] = challenge[i].code
  BY DEF LeavesForAReason
<1>1. ASSUME NEW r \in Requests, AcceptDoes(r)
      PROVE  accepted'[r] # accepted[r] /\ accepted'[r] = challenge[i].code
  <2>1. i = job[r].id
    BY <1>1 DEF AcceptDoes, DropDoes
  <2>2. pc[r] = "apply" /\ accepted'[r] = job[r].code
    BY <1>1 DEF AcceptDoes
  <2>3. accepted[r] = None /\ job[r].code \in Requests
    BY <2>2 DEF JobOK
  <2>4. challenge[job[r].id].code = job[r].code
    BY <2>2 DEF ApplyOK
  <2> QED
    BY <2>1, <2>2, <2>3, <2>4, NoneAssumption
<1>2. ASSUME NEW r \in Requests, SaveDoes(r)
      PROVE  challenge'[i] # None /\ pc[challenge'[i].code] = "save"
  BY <1>2 DEF SaveDoes
<1>3. ASSUME NEW s \in Subs, DeleteDoes(s)
      PROVE  i \in Subs /\ accounts[i] # None /\ accounts'[i] = None
  BY <1>3 DEF DeleteDoes, DropDoes
<1>4. ASSUME NEW I \in SUBSET Identities, ExpiredDoes(I)
      PROVE  challenge[i].code \in expired
  BY <1>4 DEF ExpiredDoes, DropDoes
<1>5. \/ UNCHANGED challenge
      \/ \E r \in Requests : AcceptDoes(r) \/ SaveDoes(r)
      \/ \E s \in Subs : DeleteDoes(s)
      \/ \E I \in SUBSET Identities : ExpiredDoes(I)
  BY DEF SomeStep, DrawDoes, PresentDoes, SendDoes, ConsumeDoes, LoginDoes, ChangeDoes,
         AbortDoes, QuietDoes
<1> QED
  BY <1>1, <1>2, <1>3, <1>4, <1>5

-----------------------------------------------------------------------------
(* The theorems. *)

LEMMA InitIInv == Init => IInv
<1> SUFFICES ASSUME Init PROVE IInv
  OBVIOUS
<1>1. TypeOK
  BY DEF Init, TypeOK, NoJob
<1>2. JobOK /\ RowOK /\ EndedOK /\ ApplyOK /\ MailOK
  BY DEF Init, JobOK, RowOK, EndedOK, ApplyOK, MailOK
<1> QED
  BY <1>1, <1>2 DEF IInv

LEMMA StepIInv ==
    ASSUME IInv, [Next]_vars
    PROVE  IInv' /\ SetByProof /\ AcceptedAlive /\ LeavesForAReason
<1>1. SomeStep
  BY StepEffects DEF IInv
<1>2. TypeOK'
  BY TypeStep DEF IInv
<1>3. JobOK' /\ ApplyOK' /\ MailOK'
  BY <1>1, JobStep, ApplyStep, MailStep DEF IInv
<1>4. RowOK' /\ EndedOK'
  BY <1>1, RowStep DEF IInv
<1>5. SetByProof /\ AcceptedAlive /\ LeavesForAReason
  BY <1>1, SetStep, AliveStep, LeaveStep DEF IInv
<1> QED
  BY <1>2, <1>3, <1>4, <1>5 DEF IInv

(* The invariant holds in every reachable state. *)
THEOREM Invariance == Spec => []IInv
<1>1. Init => IInv
  BY InitIInv
<1>2. IInv /\ [Next]_vars => IInv'
  BY StepIInv
<1> QED
  BY <1>1, <1>2, PTL DEF Spec

(* Every variable keeps its type. *)
THEOREM TypeCorrect == Spec => []TypeOK
<1>1. IInv => TypeOK
  BY DEF IInv
<1> QED
  BY <1>1, Invariance, PTL

(* The row of a mailed code is there from before the mail is sent.         *)
THEOREM MailedCodesAreUsable == Spec => []MailedUsable
<1>1. IInv => MailedUsable
  BY DEF IInv, TypeOK, MailOK, Stored, MailedUsable
<1> QED
  BY <1>1, Invariance, PTL

(* No code and no confirmation under way outlives its account. *)
THEOREM ChangesDieWithTheAccount == Spec => []NoChangeOfTheDead
<1>1. IInv => NoChangeOfTheDead
  <2> SUFFICES ASSUME IInv, NEW s \in Subs, accounts[s] = None
               PROVE  challenge[s] = None /\ ~Held(s)
    BY DEF NoChangeOfTheDead
  <2>1. challenge[s] = None
    BY DEF IInv, RowOK, Identities
  <2>2. \A r \in Requests : pc[r] = "apply" => job[r].id # s
    BY <2>1 DEF IInv, ApplyOK
  <2> QED
    BY <2>1, <2>2 DEF Held
<1> QED
  BY <1>1, Invariance, PTL

(* An account gets a mailbox only in a transaction that accepts a code     *)
(* which was mailed there, for a login or for a change of this account.    *)
THEOREM MailboxesAreProven == Spec => MailboxProven
<1>1. IInv /\ [Next]_vars => [SetByProof]_vars
  BY StepIInv
<1> QED
  BY <1>1, Invariance, PTL DEF Spec, MailboxProven

(* A code is accepted once at most, and never after it came to an end.     *)
THEOREM CodesAreAcceptedOnce == Spec => NeverAgain
<1>1. IInv /\ [Next]_vars => [AcceptedAlive]_vars
  BY StepIInv
<1> QED
  BY <1>1, Invariance, PTL DEF Spec, NeverAgain

(* A refused, conflicting or failing confirmation leaves the code usable.  *)
THEOREM CodesAreNotLost == Spec => CodeNotLost
<1>1. IInv /\ [Next]_vars => [LeavesForAReason]_vars
  BY StepIInv
<1> QED
  BY <1>1, Invariance, PTL DEF Spec, CodeNotLost
=============================================================================
