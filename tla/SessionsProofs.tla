--------------------------- MODULE SessionsProofs ---------------------------
(***************************************************************************)
(* Proofs about Sessions, for every set of requests, mailboxes and subs,   *)
(* every lifetime of tokens and every bound of the clock.                  *)
(*                                                                         *)
(* The inductive invariant IInv is a conjunction of named parts; each part *)
(* has one lemma saying that every step preserves it, with one case per    *)
(* action.  The theorems are at the end.                                   *)
(***************************************************************************)
EXTENDS Sessions, TLAPS

-----------------------------------------------------------------------------
(* The inductive invariant. *)

(* What a handler knows about its own locals at each point.                *)
LocalsOK ==
    \A r \in Requests :
        /\ pc[r] \in InTx \cup {"issue", "lock", "rename", "revoke", "delete"} => job[r].sub \in Subs
        /\ pc[r] \in {"sign", "lock", "consume", "exchange"} => job[r].authID \in Requests
        /\ pc[r] \in {"lock", "consume", "exchange", "read"} =>
             job[r].hash \in Requests /\ minted[job[r].hash] # None

(* A transaction holds the row lock of an existing account; a transaction  *)
(* that signs a session has that account's current generation in its       *)
(* locals, and the row it has consumed is still there for everyone else.   *)
HoldersOK ==
    \A r \in Requests : pc[r] \in InTx =>
        /\ lock[job[r].sub] = r
        /\ Exists(job[r].sub)
        /\ pc[r] # "rotate" => job[r].authID = accounts[job[r].sub].authID

SpentOK ==
    \A r \in Requests : pc[r] = "exchange" =>
        rows[job[r].hash] # None /\ rows[job[r].hash].sub = job[r].sub

(* Subs are handed out upwards and never again.                            *)
AllocOK ==
    /\ \A s \in Subs : Exists(s) => s <= lastSub
    /\ \A h \in Requests : minted[h] # None => minted[h].sub <= lastSub

(* Tokens are signed by requests that are over, in sessions started by     *)
(* logins that are over; a stored refresh token matches the access token   *)
(* signed with it.                                                         *)
MintedOK ==
    \A h \in Requests :
        /\ minted[h] # None => pc[h] = "done" /\ pc[minted[h].root] = "done"
        /\ rows[h] # None => /\ minted[h] # None
                             /\ minted[h].sub = rows[h].sub
                             /\ minted[h].authID = rows[h].authID

(* Requests that have not yet drawn an auth id: theirs is in nobody's hands.*)
Undrawn == {"idle", "read", "rename", "revoke", "rotate"}

FreshOK ==
    /\ \A s \in Subs : Exists(s) => pc[accounts[s].authID] \notin Undrawn
    /\ \A h \in Requests : minted[h] # None => pc[minted[h].authID] \notin Undrawn

(* The other properties, made inductive. *)
ResultOK == \A r \in Requests : pc[r] # "done" => result[r] = "none"

OpOK ==
    \A r \in Requests :
        /\ pc[r] \in {"issue", "sign"} => job[r].op = "login"
        /\ pc[r] \in {"lock", "consume", "exchange"} => job[r].op = "refresh"
        /\ pc[r] = "read" => job[r].op \in {"verify", "email", "delete"}
        /\ pc[r] = "rename" => job[r].op = "email"
        /\ pc[r] = "idle" => job[r].op = "none"
        /\ pc[r] \in {"read", "rename"} => job[r].email = None
        /\ pc[r] \in {"revoke", "rotate", "delete"} => job[r].op = "delete"

LiveOK ==
    \A r \in Requests :
        /\ (pc[r] = "read" /\ Usable(job[r].hash)) => job[r].live
        /\ pc[r] \in {"rename", "revoke", "rotate", "delete"} => job[r].live
        /\ (job[r].op \in {"verify", "email", "delete"} /\ result[r] = "ok") => job[r].live

GoneOK ==
    \A r \in Requests :
        /\ pc[r] \in {"revoke", "rotate", "delete"} => job[r].sub <= lastSub
        /\ (job[r].op = "delete" /\ result[r] = "ok") =>
             job[r].sub \in Subs /\ job[r].sub <= lastSub /\ ~Exists(job[r].sub)

(* A change of mailbox that was made is remembered. *)
MovesKept ==
    \A q \in Requests :
        (job[q].op = "email" /\ job[q].sub \in Subs /\ job[q].email \in Emails)
        => job'[q].op = "email" /\ job'[q].sub = job[q].sub /\ job'[q].email = job[q].email

LoginOK ==
    \A r \in Requests : job[r].op = "login" =>
        /\ job[r].sub \in Subs /\ job[r].sub <= lastSub
        /\ Exists(job[r].sub) =>
             \/ accounts[job[r].sub].email = job[r].email
             \/ \E q \in Requests : /\ job[q].op = "email" /\ job[q].sub = job[r].sub
                                    /\ job[q].email = accounts[job[r].sub].email

RootOK ==
    /\ \A r \in Requests :
         pc[r] \in {"lock", "consume", "exchange"} => minted[job[r].hash].sub = job[r].sub
    /\ \A h \in Requests : minted[h] # None =>
         /\ job[minted[h].root].op = "login"
         /\ job[minted[h].root].sub = minted[h].sub

IInv == /\ TypeOK /\ LocalsOK /\ HoldersOK /\ SpentOK /\ AllocOK /\ MintedOK
        /\ FreshOK /\ RowsCurrent /\ NoForkedSession
        /\ ResultOK /\ OpOK /\ LiveOK /\ GoneOK /\ LoginOK /\ RootOK

-----------------------------------------------------------------------------
(* Effects of the longer actions. *)

(* What the longer actions do to each variable, record by record.          *)
Others(r) == \A q \in Requests : q # r => job'[q] = job[q]

EnsureDoes(r, e) ==
    /\ pc[r] = "idle" /\ pc' = [pc EXCEPT ![r] = "issue"]
    /\ Others(r)
    /\ job'[r].op = "login" /\ job'[r].email = e /\ job'[r].sub \in Subs
    /\ \/ /\ UNCHANGED <<accounts, lastSub>>
          /\ Exists(job'[r].sub) /\ accounts[job'[r].sub].email = e
       \/ /\ job'[r].sub = lastSub + 1 /\ lastSub' = lastSub + 1
          /\ accounts' = [accounts EXCEPT ![lastSub + 1] = [email |-> e, authID |-> r]]
    /\ UNCHANGED <<rows, lock, clock, minted, result>>

LEMMA EnsureEffect ==
    ASSUME TypeOK, NEW r \in Requests, NEW e \in Emails, EnsureAccount(r, e)
    PROVE  EnsureDoes(r, e)
<1>1. ASSUME NEW s \in Subs, Exists(s), accounts[s].email = e,
             job' = [job EXCEPT ![r] = [NoJob EXCEPT !.op = "login", !.email = e, !.sub = s]],
             UNCHANGED <<accounts, lastSub>>
      PROVE  /\ Others(r)
             /\ job'[r].op = "login" /\ job'[r].email = e /\ job'[r].sub \in Subs
             /\ Exists(job'[r].sub) /\ accounts[job'[r].sub].email = e
  BY <1>1 DEF TypeOK, NoJob, Others
<1>2. ASSUME NewSub \in Subs,
             job' = [job EXCEPT ![r] = [NoJob EXCEPT !.op = "login", !.email = e, !.sub = NewSub]]
      PROVE  /\ Others(r)
             /\ job'[r].op = "login" /\ job'[r].email = e /\ job'[r].sub \in Subs
             /\ job'[r].sub = lastSub + 1
  BY <1>2 DEF TypeOK, NoJob, NewSub, Others
<1>3. /\ pc[r] = "idle" /\ pc' = [pc EXCEPT ![r] = "issue"]
      /\ UNCHANGED <<rows, lock, clock, minted, result>>
  BY DEF EnsureAccount, Goto
<1>4. CASE \E s \in Subs :
              /\ Exists(s) /\ accounts[s].email = e
              /\ job' = [job EXCEPT ![r] = [NoJob EXCEPT !.op = "login", !.email = e, !.sub = s]]
              /\ UNCHANGED <<accounts, lastSub>>
  BY <1>1, <1>3, <1>4 DEF EnsureDoes
<1>5. CASE /\ NewSub \in Subs /\ lastSub' = NewSub
           /\ accounts' = [accounts EXCEPT ![NewSub] = [email |-> e, authID |-> r]]
           /\ job' = [job EXCEPT ![r] = [NoJob EXCEPT !.op = "login", !.email = e, !.sub = NewSub]]
  BY <1>2, <1>3, <1>5 DEF NewSub, EnsureDoes
<1> QED
  BY <1>4, <1>5 DEF EnsureAccount

IssueLockDoes(r) ==
    /\ pc[r] = "issue" /\ Free(job[r].sub)
    /\ \/ /\ pc' = [pc EXCEPT ![r] = "sign"] /\ Exists(job[r].sub)
          /\ job'[r].authID = accounts[job[r].sub].authID
          /\ lock' = [lock EXCEPT ![job[r].sub] = r]
          /\ UNCHANGED result
       \/ /\ pc' = [pc EXCEPT ![r] = "done"] /\ result' = [result EXCEPT ![r] = "invalid"]
          /\ UNCHANGED <<lock, job>>
    /\ Others(r)
    /\ job'[r].op = job[r].op /\ job'[r].sub = job[r].sub
    /\ job'[r].hash = job[r].hash /\ job'[r].email = job[r].email
    /\ UNCHANGED <<accounts, lastSub, rows, clock, minted>>

LEMMA IssueLockEffect ==
    ASSUME TypeOK, NEW r \in Requests, IssueLock(r)
    PROVE  IssueLockDoes(r)
  BY DEF IssueLock, IssueLockDoes, Others, TypeOK, Goto, Finish, Acquire, Job

SelectDoes(r, h) ==
    /\ pc[r] = "idle" /\ minted[h] # None
    /\ Others(r)
    /\ job'[r].op = "refresh" /\ job'[r].hash = h
    /\ \/ /\ pc' = [pc EXCEPT ![r] = "lock"] /\ UNCHANGED result
          /\ rows[h] # None
          /\ job'[r].sub = rows[h].sub /\ job'[r].authID = rows[h].authID
       \/ pc' = [pc EXCEPT ![r] = "done"] /\ \E o \in Results : result' = [result EXCEPT ![r] = o]
    /\ UNCHANGED <<accounts, lastSub, rows, lock, clock, minted>>

LEMMA SelectEffect ==
    ASSUME TypeOK, NEW r \in Requests, NEW h \in Requests, RefreshSelect(r, h)
    PROVE  SelectDoes(r, h)
<1>1. CASE Unexpired(h)
  <2>1. job' = [job EXCEPT ![r] =
                  [NoJob EXCEPT !.op = "refresh", !.hash = h,
                                !.sub = rows[h].sub, !.authID = rows[h].authID]]
    BY <1>1 DEF RefreshSelect
  <2>2. /\ Others(r)
        /\ job'[r].op = "refresh" /\ job'[r].hash = h
        /\ job'[r].sub = rows[h].sub /\ job'[r].authID = rows[h].authID
    BY <2>1 DEF TypeOK, NoJob, Others
  <2> QED
    BY <1>1, <2>2 DEF RefreshSelect, SelectDoes, Goto, Unexpired, Delivered
<1>2. CASE ~Unexpired(h)
  <2>1. job' = [job EXCEPT ![r] = [NoJob EXCEPT !.op = "refresh", !.hash = h]]
    BY <1>2 DEF RefreshSelect
  <2>2. /\ Others(r)
        /\ job'[r].op = "refresh" /\ job'[r].hash = h
    BY <2>1 DEF TypeOK, NoJob, Others
  <2> QED
    BY <1>2, <2>2 DEF RefreshSelect, SelectDoes, Finish, Delivered, Results
<1> QED
  BY <1>1, <1>2

PresentDoes(r, h, op) ==
    /\ pc[r] = "idle" /\ minted[h] # None
    /\ Others(r)
    /\ job'[r].op = op /\ job'[r].hash = h /\ job'[r].live = Usable(h)
    /\ job'[r].email = None
    /\ \/ pc' = [pc EXCEPT ![r] = "read"] /\ UNCHANGED result
       \/ pc' = [pc EXCEPT ![r] = "done"] /\ result' = [result EXCEPT ![r] = "expired"]
    /\ UNCHANGED <<accounts, lastSub, rows, lock, clock, minted>>

LEMMA PresentEffect ==
    ASSUME TypeOK, NEW r \in Requests, NEW h \in Requests, NEW op \in {"verify", "email", "delete"},
           Present(r, h, op)
    PROVE  PresentDoes(r, h, op)
<1>1. job' = [job EXCEPT ![r] = [NoJob EXCEPT !.op = op, !.hash = h, !.live = Usable(h)]]
  BY DEF Present
<1>2. /\ Others(r) /\ job'[r].op = op /\ job'[r].hash = h
      /\ job'[r].live = Usable(h) /\ job'[r].email = None
  BY <1>1 DEF TypeOK, NoJob, Others
<1> QED
  BY <1>2 DEF Present, PresentDoes, Goto, Finish, Delivered

VerifyDoes(r) ==
    /\ pc[r] = "read"
    /\ \/ /\ Usable(job[r].hash) /\ job'[r].sub = minted[job[r].hash].sub
          /\ \/ /\ job[r].op = "delete"
                /\ pc' = [pc EXCEPT ![r] = "revoke"] /\ UNCHANGED result
             \/ /\ job[r].op = "email"
                /\ pc' = [pc EXCEPT ![r] = "rename"] /\ UNCHANGED result
             \/ /\ job[r].op = "verify"
                /\ pc' = [pc EXCEPT ![r] = "done"] /\ result' = [result EXCEPT ![r] = "ok"]
       \/ /\ pc' = [pc EXCEPT ![r] = "done"] /\ result' = [result EXCEPT ![r] = "invalid"]
          /\ UNCHANGED job
    /\ Others(r)
    /\ job'[r].op = job[r].op /\ job'[r].hash = job[r].hash /\ job'[r].live = job[r].live
    /\ job'[r].email = job[r].email
    /\ UNCHANGED <<accounts, lastSub, rows, lock, clock, minted>>

LEMMA VerifyEffect ==
    ASSUME TypeOK, NEW r \in Requests, VerifyRead(r)
    PROVE  VerifyDoes(r)
  BY DEF VerifyRead, Admit, VerifyDoes, Others, TypeOK, Goto, Finish, Job

EmailDoes(r, e) ==
    /\ pc[r] = "rename" /\ pc' = [pc EXCEPT ![r] = "done"]
    /\ \E o \in Results : result' = [result EXCEPT ![r] = o]
    /\ Others(r)
    /\ job'[r].op = job[r].op /\ job'[r].sub = job[r].sub
    /\ job'[r].hash = job[r].hash /\ job'[r].live = job[r].live
    /\ \/ /\ Free(job[r].sub) /\ Exists(job[r].sub) /\ job'[r].email = e
          /\ \A s \in Subs : s # job[r].sub => accounts'[s] = accounts[s]
          /\ Exists(job[r].sub)'
          /\ accounts'[job[r].sub].email = e
          /\ accounts'[job[r].sub].authID = accounts[job[r].sub].authID
       \/ UNCHANGED <<accounts, job>>
    /\ UNCHANGED <<lastSub, rows, lock, clock, minted>>

LEMMA EmailEffect ==
    ASSUME TypeOK, LocalsOK, NEW r \in Requests, NEW e \in Emails, ChangeEmail(r, e)
    PROVE  EmailDoes(r, e)
<1>1. /\ pc[r] = "rename" /\ pc' = [pc EXCEPT ![r] = "done"]
      /\ \E o \in Results : result' = [result EXCEPT ![r] = o]
      /\ UNCHANGED <<lastSub, rows, lock, clock, minted>>
  BY DEF ChangeEmail, Finish, Results
<1>2. job[r].sub \in Subs
  BY <1>1 DEF LocalsOK
<1>3. CASE UNCHANGED <<accounts, job>>
  BY <1>1, <1>3 DEF EmailDoes, Others
<1>4. CASE /\ Free(job[r].sub) /\ Exists(job[r].sub)
           /\ accounts' = [accounts EXCEPT ![job[r].sub].email = e]
           /\ job' = [job EXCEPT ![r].email = e]
  <2>1. /\ Others(r)
        /\ job'[r].op = job[r].op /\ job'[r].sub = job[r].sub
        /\ job'[r].hash = job[r].hash /\ job'[r].live = job[r].live /\ job'[r].email = e
    BY <1>4 DEF TypeOK, Job, Others
  <2>2. accounts[job[r].sub] \in Account
    BY <1>2, <1>4 DEF Exists, TypeOK
  <2>3. accounts'[job[r].sub] = [accounts[job[r].sub] EXCEPT !.email = e]
    BY <1>2, <1>4 DEF TypeOK
  <2>4. /\ accounts'[job[r].sub] \in Account
        /\ accounts'[job[r].sub].email = e
        /\ accounts'[job[r].sub].authID = accounts[job[r].sub].authID
    BY <2>2, <2>3 DEF Account
  <2>5. \A s \in Subs : s # job[r].sub => accounts'[s] = accounts[s]
    BY <1>4 DEF TypeOK
  <2> QED
    BY <1>1, <1>4, <2>1, <2>4, <2>5, NoneAssumption DEF EmailDoes, Exists
<1> QED
  BY <1>3, <1>4 DEF ChangeEmail

SignDoes(r, root, spent) ==
    /\ pc' = [pc EXCEPT ![r] = "done"]
    /\ \E o \in Results : result' = [result EXCEPT ![r] = o]
    /\ minted'[r] # None /\ minted'[r].sub = job[r].sub
    /\ minted'[r].authID = job[r].authID /\ minted'[r].root = root
    /\ rows'[r] # None /\ rows'[r].sub = job[r].sub /\ rows'[r].authID = job[r].authID
    /\ \A h \in Requests : h # r =>
         minted'[h] = minted[h] /\ rows'[h] = (IF h \in spent THEN None ELSE rows[h])
    /\ \A s \in Subs : lock'[s] = (IF lock[s] = r THEN None ELSE lock[s])
    /\ UNCHANGED <<accounts, lastSub, clock, job>>

LEMMA SignEffect ==
    ASSUME TypeOK, NEW r \in Requests, NEW root \in Requests, NEW spent \in SUBSET Requests,
           job[r].sub \in Subs, job[r].authID \in Requests,
           SignSession(r, job[r].authID, root, spent),
           UNCHANGED <<accounts, lastSub, clock, job>>
    PROVE  SignDoes(r, root, spent)
<1>1. \A n \in Nat : [sub |-> job[r].sub, authID |-> job[r].authID, expiresAt |-> n] \in Row
  BY DEF Row
<1>2. \A n \in Nat : [sub |-> job[r].sub, authID |-> job[r].authID, expiresAt |-> n,
                      root |-> root] \in Token
  BY DEF Token
<1>3. clock + RefreshTTL \in Nat /\ clock + AccessTTL \in Nat
  BY TTLAssumption DEF TypeOK
<1>4. /\ pc' = [pc EXCEPT ![r] = "done"]
      /\ \E o \in Results : result' = [result EXCEPT ![r] = o]
  BY DEF SignSession, Finish, Results
<1>5. /\ rows'[r] # None /\ rows'[r].sub = job[r].sub /\ rows'[r].authID = job[r].authID
      /\ \A h \in Requests : h # r => rows'[h] = (IF h \in spent THEN None ELSE rows[h])
  BY <1>1, <1>3, NoneAssumption DEF SignSession
<1>6. /\ minted'[r] # None /\ minted'[r].sub = job[r].sub
      /\ minted'[r].authID = job[r].authID /\ minted'[r].root = root
      /\ \A h \in Requests : h # r => minted'[h] = minted[h]
  BY <1>2, <1>3, NoneAssumption DEF SignSession, TypeOK
<1>7. \A s \in Subs : lock'[s] = (IF lock[s] = r THEN None ELSE lock[s])
  BY DEF SignSession, Release
<1> QED
  BY <1>4, <1>5, <1>6, <1>7 DEF SignDoes

LEMMA IssueCommitEffect ==
    ASSUME TypeOK, LocalsOK, NEW r \in Requests, IssueCommit(r)
    PROVE  /\ pc[r] = "sign" /\ job[r].sub \in Subs
           /\ SignDoes(r, r, {})
<1>1. pc[r] = "sign" /\ job[r].sub \in Subs /\ job[r].authID \in Requests
  BY DEF IssueCommit, LocalsOK, InTx
<1> QED
  BY <1>1, SignEffect DEF IssueCommit

LEMMA RefreshCommitEffect ==
    ASSUME TypeOK, LocalsOK, NEW r \in Requests, RefreshCommit(r)
    PROVE  /\ pc[r] = "exchange" /\ job[r].sub \in Subs
           /\ job[r].hash \in Requests /\ minted[job[r].hash] # None
           /\ SignDoes(r, minted[job[r].hash].root, {job[r].hash})
<1>1. /\ pc[r] = "exchange" /\ job[r].sub \in Subs /\ job[r].authID \in Requests
      /\ job[r].hash \in Requests /\ minted[job[r].hash] # None
  BY DEF RefreshCommit, LocalsOK, InTx
<1>2. minted[job[r].hash].root \in Requests
  BY <1>1 DEF TypeOK, Token
<1> QED
  BY <1>1, <1>2, SignEffect DEF RefreshCommit

-----------------------------------------------------------------------------
(* Type correctness. *)

(* Every variable keeps its type: in particular every handler step reads   *)
(* locals that an earlier step of the same handler has set.                *)
LEMMA TypeInit == Init => TypeOK
  BY SubsAssumption DEF Init, TypeOK, NoJob, Job, Ops, Results

(* The locals that the handlers start with, and their later updates.     *)
LEMMA JobShapes ==
    /\ \A e \in Emails, s \in Subs :
         [NoJob EXCEPT !.op = "login", !.email = e, !.sub = s] \in Job
    /\ \A h \in Requests, row \in Row :
         [NoJob EXCEPT !.op = "refresh", !.hash = h, !.sub = row.sub,
                       !.authID = row.authID] \in Job
    /\ \A h \in Requests, o \in Ops : [NoJob EXCEPT !.op = o, !.hash = h] \in Job
    /\ \A h \in Requests, o \in Ops, l \in BOOLEAN :
         [NoJob EXCEPT !.op = o, !.hash = h, !.live = l] \in Job
    /\ \A j \in Job, s \in Subs : [j EXCEPT !.sub = s] \in Job
    /\ \A j \in Job, e \in Emails : [j EXCEPT !.email = e] \in Job
    /\ \A j \in Job, q \in Requests : [j EXCEPT !.authID = q] \in Job
  BY DEF NoJob, Job, Ops, Row

LEMMA TypeStep ==
    ASSUME TypeOK, LocalsOK, HoldersOK, [Next]_vars
    PROVE  TypeOK'
<1> USE DEF TypeOK, Goto, Finish
<1>1. ASSUME NEW r \in Requests, NEW e \in Emails, EnsureAccount(r, e)
      PROVE  TypeOK'
  <2>1. [email |-> e, authID |-> r] \in Account
    BY DEF Account
  <2>2. \A s \in Subs : [NoJob EXCEPT !.op = "login", !.email = e, !.sub = s] \in Job
    BY JobShapes
  <2>3. job' \in [Requests -> Job]
    <3>1. \E s \in Subs :
             job' = [job EXCEPT ![r] = [NoJob EXCEPT !.op = "login", !.email = e, !.sub = s]]
      BY <1>1 DEF EnsureAccount
    <3>2. PICK s \in Subs :
             job' = [job EXCEPT ![r] = [NoJob EXCEPT !.op = "login", !.email = e, !.sub = s]]
      BY <3>1
    <3>3. [NoJob EXCEPT !.op = "login", !.email = e, !.sub = s] \in Job
      BY <2>2
    <3> QED
      BY <3>2, <3>3
  <2>4. \/ UNCHANGED <<accounts, lastSub>>
        \/ /\ lastSub' = lastSub + 1
           /\ accounts' = [accounts EXCEPT ![NewSub] = [email |-> e, authID |-> r]]
    BY <1>1 DEF EnsureAccount, NewSub
  <2>5. accounts' \in [Subs -> Account \cup {None}] /\ lastSub' \in Nat
    BY <2>1, <2>4
  <2> QED
    BY <1>1, <2>3, <2>5 DEF EnsureAccount, Working
<1>2. ASSUME NEW r \in Requests, IssueLock(r)
      PROVE  TypeOK'
  <2>1. job[r].sub \in Subs
    BY <1>2 DEF IssueLock, LocalsOK
  <2>2. Exists(job[r].sub) => accounts[job[r].sub].authID \in Requests
    BY <2>1 DEF Exists, Account
  <2>3. Exists(job[r].sub) =>
           [job[r] EXCEPT !.authID = accounts[job[r].sub].authID] \in Job
    BY <2>2, JobShapes
  <2> QED
    BY <1>2, <2>1, <2>3 DEF IssueLock, Acquire, Working, InTx, Results
<1>3. ASSUME NEW r \in Requests, IssueCommit(r)
      PROVE  TypeOK'
  BY <1>3, TTLAssumption
     DEF IssueCommit, SignSession, LocalsOK, InTx, Release, Row, Token, Results
<1>4. ASSUME NEW r \in Requests, NEW h \in Requests, RefreshSelect(r, h)
      PROVE  TypeOK'
  <2>1. Unexpired(h) =>
           [NoJob EXCEPT !.op = "refresh", !.hash = h, !.sub = rows[h].sub,
                         !.authID = rows[h].authID] \in Job
    BY JobShapes DEF Unexpired
  <2>2. [NoJob EXCEPT !.op = "refresh", !.hash = h] \in Job
    BY JobShapes DEF Ops
  <2> QED
    BY <1>4, <2>1, <2>2 DEF RefreshSelect, Working, Results
<1>5. ASSUME NEW r \in Requests, RefreshLock(r)
      PROVE  TypeOK'
  BY <1>5 DEF RefreshLock, Acquire, LocalsOK, Working, InTx, Results
<1>6. ASSUME NEW r \in Requests, RefreshConsume(r)
      PROVE  TypeOK'
  BY <1>6 DEF RefreshConsume, Release, Working, InTx, Results
<1>7. ASSUME NEW r \in Requests, RefreshCommit(r)
      PROVE  TypeOK'
  BY <1>7, TTLAssumption
     DEF RefreshCommit, SignSession, LocalsOK, InTx, Release, Row, Token, Results
<1>8. ASSUME NEW r \in Requests, NEW h \in Requests, NEW op \in {"verify", "email", "delete"},
             Present(r, h, op)
      PROVE  TypeOK'
  <2>1. op \in Ops
    BY DEF Ops
  <2>2. Usable(h) \in BOOLEAN
    BY DEF Usable, Current
  <2>3. [NoJob EXCEPT !.op = op, !.hash = h, !.live = Usable(h)] \in Job
    BY <2>1, <2>2, JobShapes
  <2> QED
    BY <1>8, <2>3 DEF Present, Working, Results
<1>9. ASSUME NEW r \in Requests, VerifyRead(r)
      PROVE  TypeOK'
  <2>1. minted[job[r].hash].sub \in Subs
    BY <1>9 DEF VerifyRead, LocalsOK, Token
  <2>2. [job[r] EXCEPT !.sub = minted[job[r].hash].sub] \in Job
    BY <2>1, JobShapes
  <2> QED
    BY <1>9, <2>2 DEF VerifyRead, Admit, Working, Results
<1>10. ASSUME NEW r \in Requests, NEW e \in Emails, ChangeEmail(r, e)
       PROVE  TypeOK'
  <2>1. \A a \in Account : [a EXCEPT !.email = e] \in Account
    BY DEF Account
  <2>2. [job[r] EXCEPT !.email = e] \in Job
    BY JobShapes
  <2>3. accounts' \in [Subs -> Account \cup {None}]
    BY <1>10, <2>1 DEF ChangeEmail, Exists
  <2> QED
    BY <1>10, <2>2, <2>3 DEF ChangeEmail, Results
<1>11. ASSUME NEW r \in Requests, RevokeLock(r)
       PROVE  TypeOK'
  BY <1>11 DEF RevokeLock, Acquire, LocalsOK, Working, InTx
<1>12. ASSUME NEW r \in Requests, RevokeCommit(r)
       PROVE  TypeOK'
  <2>1. \A a \in Account : [a EXCEPT !.authID = r] \in Account
    BY DEF Account
  <2>2. accounts[job[r].sub] # None
    BY <1>12 DEF RevokeCommit, HoldersOK, Exists, InTx
  <2>3. accounts[job[r].sub] \in Account
    BY <1>12, <2>2 DEF RevokeCommit, LocalsOK, InTx
  <2>4. [accounts[job[r].sub] EXCEPT !.authID = r] \in Account
    BY <2>1, <2>3
  <2>5. accounts' = [accounts EXCEPT ![job[r].sub] = [accounts[job[r].sub] EXCEPT !.authID = r]]
    BY <1>12 DEF RevokeCommit
  <2>6. accounts' \in [Subs -> Account \cup {None}]
    BY <2>4, <2>5
  <2> QED
    BY <1>12, <2>6 DEF RevokeCommit, WithoutSub, Release, Working, Results
<1>13. ASSUME NEW r \in Requests, DeleteAccount(r)
       PROVE  TypeOK'
  BY <1>13 DEF DeleteAccount, WithoutSub, Results
<1>14. ASSUME NEW r \in Requests, NEW h \in Requests, Revoke(r, h)
       PROVE  TypeOK'
  <2>1. [NoJob EXCEPT !.op = "revoke", !.hash = h] \in Job
    BY JobShapes DEF Ops
  <2> QED
    BY <1>14, <2>1 DEF Revoke, Results
<1>15. ASSUME NEW r \in Requests, Abort(r)
       PROVE  TypeOK'
  BY <1>15 DEF Abort, Release, Results
<1>16. CASE DeleteExpiredRefreshTokens
  BY <1>16 DEF DeleteExpiredRefreshTokens
<1>17. CASE Tick
  BY <1>17 DEF Tick
<1>18. CASE UNCHANGED vars
  BY <1>18 DEF vars
<1> QED
  BY <1>1, <1>2, <1>3, <1>4, <1>5, <1>6, <1>7, <1>8, <1>9, <1>10, <1>11, <1>12,
     <1>13, <1>14, <1>15, <1>16, <1>17, <1>18 DEF Next, Step, Arrive

-----------------------------------------------------------------------------
(* One lemma per part of the invariant. *)

(* A handler's locals are set before they are used. *)
LEMMA LocalsStep ==
    ASSUME TypeOK, LocalsOK, HoldersOK, TypeOK', MintedOK, [Next]_vars
    PROVE  LocalsOK'
<1> USE DEF LocalsOK, TypeOK, InTx
<1>1. ASSUME NEW r \in Requests, NEW e \in Emails, EnsureAccount(r, e)
      PROVE  LocalsOK'
  <2>1. EnsureDoes(r, e)
    BY <1>1, EnsureEffect
  <2> QED
    BY <2>1 DEF EnsureDoes, Others
<1>2. ASSUME NEW r \in Requests, IssueLock(r)
      PROVE  LocalsOK'
  <2>1. IssueLockDoes(r)
    BY <1>2, IssueLockEffect
  <2> QED
    BY <2>1 DEF IssueLockDoes, Others, Exists, Account
<1>3. ASSUME NEW r \in Requests, IssueCommit(r)
      PROVE  LocalsOK'
  <2>1. pc[r] = "sign" /\ job[r].sub \in Subs /\ SignDoes(r, r, {})
    BY <1>3, IssueCommitEffect
  <2> QED
    BY <2>1 DEF SignDoes
<1>4. ASSUME NEW r \in Requests, NEW h \in Requests, RefreshSelect(r, h)
      PROVE  LocalsOK'
  <2>1. SelectDoes(r, h)
    BY <1>4, SelectEffect
  <2> QED
    BY <2>1 DEF SelectDoes, Others, Row
<1>5. ASSUME NEW r \in Requests, RefreshLock(r)
      PROVE  LocalsOK'
  BY <1>5 DEF RefreshLock, Acquire, Current, Goto, Finish
<1>6. ASSUME NEW r \in Requests, RefreshConsume(r)
      PROVE  LocalsOK'
  BY <1>6 DEF RefreshConsume, Consumable, Found, Release, Unexpired, Goto, Finish
<1>7. ASSUME NEW r \in Requests, RefreshCommit(r)
      PROVE  LocalsOK'
  <2>1. /\ pc[r] = "exchange" /\ job[r].sub \in Subs
        /\ job[r].hash \in Requests /\ minted[job[r].hash] # None
        /\ SignDoes(r, minted[job[r].hash].root, {job[r].hash})
    BY <1>7, RefreshCommitEffect
  <2> QED
    BY <2>1 DEF SignDoes
<1>8. ASSUME NEW r \in Requests, NEW h \in Requests, NEW op \in {"verify", "email", "delete"}, Present(r, h, op)
      PROVE  LocalsOK'
  <2>1. PresentDoes(r, h, op)
    BY <1>8, PresentEffect
  <2> QED
    BY <2>1 DEF PresentDoes, Others
<1>9. ASSUME NEW r \in Requests, VerifyRead(r)
      PROVE  LocalsOK'
  <2>1. VerifyDoes(r)
    BY <1>9, VerifyEffect
  <2> QED
    BY <2>1 DEF VerifyDoes, Others, Usable, Current, Token
<1>10. ASSUME NEW r \in Requests, NEW e \in Emails, ChangeEmail(r, e)
      PROVE  LocalsOK'
  <2>1. EmailDoes(r, e)
    BY <1>10, EmailEffect
  <2> QED
    BY <2>1 DEF EmailDoes, Others
<1>11. ASSUME NEW r \in Requests, RevokeLock(r)
      PROVE  LocalsOK'
  BY <1>11 DEF RevokeLock, Acquire, Goto, Finish
<1>12. ASSUME NEW r \in Requests, RevokeCommit(r)
      PROVE  LocalsOK'
  BY <1>12 DEF RevokeCommit, WithoutSub, Release, Goto, Finish
<1>13. ASSUME NEW r \in Requests, DeleteAccount(r)
      PROVE  LocalsOK'
  BY <1>13 DEF DeleteAccount, WithoutSub, Goto, Finish
<1>14. ASSUME NEW r \in Requests, NEW h \in Requests, Revoke(r, h)
      PROVE  LocalsOK'
  BY <1>14 DEF Revoke, Consumed, Goto, Finish
<1>15. ASSUME NEW r \in Requests, Abort(r)
      PROVE  LocalsOK'
  BY <1>15 DEF Abort, Release, Goto, Finish
<1>16. CASE DeleteExpiredRefreshTokens
  BY <1>16 DEF DeleteExpiredRefreshTokens, Consumed, Goto, Finish
<1>17. CASE Tick
  BY <1>17 DEF Tick, Goto, Finish
<1>18. CASE UNCHANGED vars
  BY <1>18 DEF vars, Goto, Finish
<1> QED
  BY <1>1, <1>2, <1>3, <1>4, <1>5, <1>6, <1>7, <1>8, <1>9, <1>10, <1>11, <1>12, <1>13, <1>14, <1>15, <1>16, <1>17, <1>18
     DEF Next, Step, Arrive

(* Nobody changes a locked account but the transaction that locked it. *)
LEMMA HoldersStep ==
    ASSUME TypeOK, LocalsOK, HoldersOK, AllocOK, LocalsOK', [Next]_vars
    PROVE  HoldersOK'
<1> USE NoneAssumption DEF HoldersOK, TypeOK, LocalsOK, InTx, Exists, Free
<1>1. ASSUME NEW r \in Requests, NEW e \in Emails, EnsureAccount(r, e)
      PROVE  HoldersOK'
  <2>1. EnsureDoes(r, e)
    BY <1>1, EnsureEffect
  <2> QED
    BY SubsAssumption, <2>1 DEF EnsureDoes, Others, AllocOK
<1>2. ASSUME NEW r \in Requests, IssueLock(r)
      PROVE  HoldersOK'
  <2>1. IssueLockDoes(r)
    BY <1>2, IssueLockEffect
  <2> QED
    BY <2>1 DEF IssueLockDoes, Others
<1>3. ASSUME NEW r \in Requests, IssueCommit(r)
      PROVE  HoldersOK'
  <2>1. pc[r] = "sign" /\ job[r].sub \in Subs /\ SignDoes(r, r, {})
    BY <1>3, IssueCommitEffect
  <2> QED
    BY <2>1 DEF SignDoes
<1>4. ASSUME NEW r \in Requests, NEW h \in Requests, RefreshSelect(r, h)
      PROVE  HoldersOK'
  <2>1. SelectDoes(r, h)
    BY <1>4, SelectEffect
  <2> QED
    BY <2>1 DEF SelectDoes, Others
<1>5. ASSUME NEW r \in Requests, RefreshLock(r)
      PROVE  HoldersOK'
  BY <1>5 DEF RefreshLock, Acquire, Current, Goto, Finish
<1>6. ASSUME NEW r \in Requests, RefreshConsume(r)
      PROVE  HoldersOK'
  BY <1>6 DEF RefreshConsume, Consumable, Found, Release, Unexpired, Goto, Finish
<1>7. ASSUME NEW r \in Requests, RefreshCommit(r)
      PROVE  HoldersOK'
  <2>1. /\ pc[r] = "exchange" /\ job[r].sub \in Subs
        /\ job[r].hash \in Requests /\ minted[job[r].hash] # None
        /\ SignDoes(r, minted[job[r].hash].root, {job[r].hash})
    BY <1>7, RefreshCommitEffect
  <2> QED
    BY <2>1 DEF SignDoes
<1>8. ASSUME NEW r \in Requests, NEW h \in Requests, NEW op \in {"verify", "email", "delete"}, Present(r, h, op)
      PROVE  HoldersOK'
  <2>1. PresentDoes(r, h, op)
    BY <1>8, PresentEffect
  <2> QED
    BY <2>1 DEF PresentDoes, Others
<1>9. ASSUME NEW r \in Requests, VerifyRead(r)
      PROVE  HoldersOK'
  <2>1. VerifyDoes(r)
    BY <1>9, VerifyEffect
  <2> QED
    BY <2>1 DEF VerifyDoes, Others
<1>10. ASSUME NEW r \in Requests, NEW e \in Emails, ChangeEmail(r, e)
      PROVE  HoldersOK'
  <2>1. EmailDoes(r, e)
    BY <1>10, EmailEffect
  <2> QED
    BY <2>1 DEF EmailDoes, Others
<1>11. ASSUME NEW r \in Requests, RevokeLock(r)
      PROVE  HoldersOK'
  BY <1>11 DEF RevokeLock, Acquire, Goto, Finish
<1>12. ASSUME NEW r \in Requests, RevokeCommit(r)
      PROVE  HoldersOK'
  BY <1>12 DEF RevokeCommit, WithoutSub, Release, Goto, Finish
<1>13. ASSUME NEW r \in Requests, DeleteAccount(r)
      PROVE  HoldersOK'
  BY <1>13 DEF DeleteAccount, WithoutSub, Goto, Finish
<1>14. ASSUME NEW r \in Requests, NEW h \in Requests, Revoke(r, h)
      PROVE  HoldersOK'
  BY <1>14 DEF Revoke, Consumed, Goto, Finish
<1>15. ASSUME NEW r \in Requests, Abort(r)
      PROVE  HoldersOK'
  BY <1>15 DEF Abort, Release, Goto, Finish
<1>16. CASE DeleteExpiredRefreshTokens
  BY <1>16 DEF DeleteExpiredRefreshTokens, Consumed, Goto, Finish
<1>17. CASE Tick
  BY <1>17 DEF Tick, Goto, Finish
<1>18. CASE UNCHANGED vars
  BY <1>18 DEF vars, Goto, Finish
<1> QED
  BY <1>1, <1>2, <1>3, <1>4, <1>5, <1>6, <1>7, <1>8, <1>9, <1>10, <1>11, <1>12, <1>13, <1>14, <1>15, <1>16, <1>17, <1>18
     DEF Next, Step, Arrive

(* A consumed row stays until its transaction ends: the account lock keeps
   RevokeAll, DeleteAccount and other refreshes away, the row lock the rest. *)
LEMMA SpentStep ==
    ASSUME TypeOK, LocalsOK, HoldersOK, SpentOK, MintedOK, LocalsOK', [Next]_vars
    PROVE  SpentOK'
<1> USE NoneAssumption DEF SpentOK, TypeOK, LocalsOK, HoldersOK, InTx, Free
<1>1. ASSUME NEW r \in Requests, NEW e \in Emails, EnsureAccount(r, e)
      PROVE  SpentOK'
  <2>1. EnsureDoes(r, e)
    BY <1>1, EnsureEffect
  <2> QED
    BY <2>1 DEF EnsureDoes, Others
<1>2. ASSUME NEW r \in Requests, IssueLock(r)
      PROVE  SpentOK'
  <2>1. IssueLockDoes(r)
    BY <1>2, IssueLockEffect
  <2> QED
    BY <2>1 DEF IssueLockDoes, Others
<1>3. ASSUME NEW r \in Requests, IssueCommit(r)
      PROVE  SpentOK'
  <2>1. pc[r] = "sign" /\ job[r].sub \in Subs /\ SignDoes(r, r, {})
    BY <1>3, IssueCommitEffect
  <2> QED
    BY <2>1 DEF SignDoes, MintedOK
<1>4. ASSUME NEW r \in Requests, NEW h \in Requests, RefreshSelect(r, h)
      PROVE  SpentOK'
  <2>1. SelectDoes(r, h)
    BY <1>4, SelectEffect
  <2> QED
    BY <2>1 DEF SelectDoes, Others
<1>5. ASSUME NEW r \in Requests, RefreshLock(r)
      PROVE  SpentOK'
  BY <1>5 DEF RefreshLock, Acquire, Current, Goto, Finish
<1>6. ASSUME NEW r \in Requests, RefreshConsume(r)
      PROVE  SpentOK'
  BY <1>6 DEF RefreshConsume, Consumable, Found, Release, Unexpired, Goto, Finish
<1>7. ASSUME NEW r \in Requests, RefreshCommit(r)
      PROVE  SpentOK'
  <2>1. /\ pc[r] = "exchange" /\ job[r].sub \in Subs
        /\ job[r].hash \in Requests /\ minted[job[r].hash] # None
        /\ SignDoes(r, minted[job[r].hash].root, {job[r].hash})
    BY <1>7, RefreshCommitEffect
  <2> QED
    BY <2>1 DEF SignDoes, MintedOK
<1>8. ASSUME NEW r \in Requests, NEW h \in Requests, NEW op \in {"verify", "email", "delete"}, Present(r, h, op)
      PROVE  SpentOK'
  <2>1. PresentDoes(r, h, op)
    BY <1>8, PresentEffect
  <2> QED
    BY <2>1 DEF PresentDoes, Others
<1>9. ASSUME NEW r \in Requests, VerifyRead(r)
      PROVE  SpentOK'
  <2>1. VerifyDoes(r)
    BY <1>9, VerifyEffect
  <2> QED
    BY <2>1 DEF VerifyDoes, Others
<1>10. ASSUME NEW r \in Requests, NEW e \in Emails, ChangeEmail(r, e)
      PROVE  SpentOK'
  <2>1. EmailDoes(r, e)
    BY <1>10, EmailEffect
  <2> QED
    BY <2>1 DEF EmailDoes, Others
<1>11. ASSUME NEW r \in Requests, RevokeLock(r)
      PROVE  SpentOK'
  BY <1>11 DEF RevokeLock, Acquire, Goto, Finish
<1>12. ASSUME NEW r \in Requests, RevokeCommit(r)
      PROVE  SpentOK'
  BY <1>12 DEF RevokeCommit, WithoutSub, Release, Goto, Finish
<1>13. ASSUME NEW r \in Requests, DeleteAccount(r)
      PROVE  SpentOK'
  BY <1>13 DEF DeleteAccount, WithoutSub, Goto, Finish
<1>14. ASSUME NEW r \in Requests, NEW h \in Requests, Revoke(r, h)
      PROVE  SpentOK'
  BY <1>14 DEF Revoke, Consumed, Goto, Finish
<1>15. ASSUME NEW r \in Requests, Abort(r)
      PROVE  SpentOK'
  BY <1>15 DEF Abort, Release, Goto, Finish
<1>16. CASE DeleteExpiredRefreshTokens
  BY <1>16 DEF DeleteExpiredRefreshTokens, Consumed, Goto, Finish
<1>17. CASE Tick
  BY <1>17 DEF Tick, Goto, Finish
<1>18. CASE UNCHANGED vars
  BY <1>18 DEF vars, Goto, Finish
<1> QED
  BY <1>1, <1>2, <1>3, <1>4, <1>5, <1>6, <1>7, <1>8, <1>9, <1>10, <1>11, <1>12, <1>13, <1>14, <1>15, <1>16, <1>17, <1>18
     DEF Next, Step, Arrive

(* The high-water mark bounds every sub in use or ever signed for. *)
LEMMA AllocStep ==
    ASSUME TypeOK, LocalsOK, HoldersOK, AllocOK, TypeOK', [Next]_vars
    PROVE  AllocOK'
<1> USE DEF AllocOK, TypeOK, LocalsOK, InTx, Exists, Token
<1>1. ASSUME NEW r \in Requests, NEW e \in Emails, EnsureAccount(r, e)
      PROVE  AllocOK'
  <2>1. EnsureDoes(r, e)
    BY <1>1, EnsureEffect
  <2>2. \A s \in Subs : s \in Nat
    BY SubsAssumption
  <2>3. lastSub \in Nat /\ lastSub' \in Nat /\ lastSub <= lastSub'
    BY <2>1 DEF EnsureDoes
  <2>4. \A h \in Requests : minted'[h] # None => minted'[h].sub \in Nat /\ minted'[h].sub <= lastSub
    BY <2>1, <2>2 DEF EnsureDoes
  <2>5. \A s \in Subs : accounts'[s] # None => accounts[s] # None \/ s = lastSub'
    BY <2>1 DEF EnsureDoes
  <2> QED
    BY <2>2, <2>3, <2>4, <2>5
<1>2. ASSUME NEW r \in Requests, IssueLock(r)
      PROVE  AllocOK'
  <2>1. IssueLockDoes(r)
    BY <1>2, IssueLockEffect
  <2> QED
    BY <2>1 DEF IssueLockDoes, Others
<1>3. ASSUME NEW r \in Requests, IssueCommit(r)
      PROVE  AllocOK'
  <2>1. pc[r] = "sign" /\ job[r].sub \in Subs /\ SignDoes(r, r, {})
    BY <1>3, IssueCommitEffect
  <2> QED
    BY <2>1 DEF SignDoes, HoldersOK
<1>4. ASSUME NEW r \in Requests, NEW h \in Requests, RefreshSelect(r, h)
      PROVE  AllocOK'
  <2>1. SelectDoes(r, h)
    BY <1>4, SelectEffect
  <2> QED
    BY <2>1 DEF SelectDoes, Others
<1>5. ASSUME NEW r \in Requests, RefreshLock(r)
      PROVE  AllocOK'
  BY <1>5 DEF RefreshLock, Acquire, Current, Goto, Finish
<1>6. ASSUME NEW r \in Requests, RefreshConsume(r)
      PROVE  AllocOK'
  BY <1>6 DEF RefreshConsume, Consumable, Found, Release, Unexpired, Goto, Finish
<1>7. ASSUME NEW r \in Requests, RefreshCommit(r)
      PROVE  AllocOK'
  <2>1. /\ pc[r] = "exchange" /\ job[r].sub \in Subs
        /\ job[r].hash \in Requests /\ minted[job[r].hash] # None
        /\ SignDoes(r, minted[job[r].hash].root, {job[r].hash})
    BY <1>7, RefreshCommitEffect
  <2> QED
    BY <2>1 DEF SignDoes, HoldersOK
<1>8. ASSUME NEW r \in Requests, NEW h \in Requests, NEW op \in {"verify", "email", "delete"}, Present(r, h, op)
      PROVE  AllocOK'
  <2>1. PresentDoes(r, h, op)
    BY <1>8, PresentEffect
  <2> QED
    BY <2>1 DEF PresentDoes, Others
<1>9. ASSUME NEW r \in Requests, VerifyRead(r)
      PROVE  AllocOK'
  <2>1. VerifyDoes(r)
    BY <1>9, VerifyEffect
  <2> QED
    BY <2>1 DEF VerifyDoes, Others
<1>10. ASSUME NEW r \in Requests, NEW e \in Emails, ChangeEmail(r, e)
      PROVE  AllocOK'
  <2>1. EmailDoes(r, e)
    BY <1>10, EmailEffect
  <2> QED
    BY <2>1 DEF EmailDoes, Others
<1>11. ASSUME NEW r \in Requests, RevokeLock(r)
      PROVE  AllocOK'
  BY <1>11 DEF RevokeLock, Acquire, Goto, Finish
<1>12. ASSUME NEW r \in Requests, RevokeCommit(r)
      PROVE  AllocOK'
  BY <1>12 DEF RevokeCommit, WithoutSub, Release, Goto, Finish, HoldersOK
<1>13. ASSUME NEW r \in Requests, DeleteAccount(r)
      PROVE  AllocOK'
  BY <1>13 DEF DeleteAccount, WithoutSub, Goto, Finish
<1>14. ASSUME NEW r \in Requests, NEW h \in Requests, Revoke(r, h)
      PROVE  AllocOK'
  BY <1>14 DEF Revoke, Consumed, Goto, Finish
<1>15. ASSUME NEW r \in Requests, Abort(r)
      PROVE  AllocOK'
  BY <1>15 DEF Abort, Release, Goto, Finish
<1>16. CASE DeleteExpiredRefreshTokens
  BY <1>16 DEF DeleteExpiredRefreshTokens, Consumed, Goto, Finish
<1>17. CASE Tick
  BY <1>17 DEF Tick, Goto, Finish
<1>18. CASE UNCHANGED vars
  BY <1>18 DEF vars, Goto, Finish
<1> QED
  BY <1>1, <1>2, <1>3, <1>4, <1>5, <1>6, <1>7, <1>8, <1>9, <1>10, <1>11, <1>12, <1>13, <1>14, <1>15, <1>16, <1>17, <1>18
     DEF Next, Step, Arrive

(* History: only finished requests have signed tokens. *)
LEMMA MintedStep ==
    ASSUME TypeOK, LocalsOK, MintedOK, TypeOK', [Next]_vars
    PROVE  MintedOK'
<1> USE DEF MintedOK, TypeOK, LocalsOK, InTx, Token
<1>1. ASSUME NEW r \in Requests, NEW e \in Emails, EnsureAccount(r, e)
      PROVE  MintedOK'
  <2>1. EnsureDoes(r, e)
    BY <1>1, EnsureEffect
  <2> QED
    BY <2>1 DEF EnsureDoes, Others
<1>2. ASSUME NEW r \in Requests, IssueLock(r)
      PROVE  MintedOK'
  <2>1. IssueLockDoes(r)
    BY <1>2, IssueLockEffect
  <2> QED
    BY <2>1 DEF IssueLockDoes, Others
<1>3. ASSUME NEW r \in Requests, IssueCommit(r)
      PROVE  MintedOK'
  <2>1. pc[r] = "sign" /\ job[r].sub \in Subs /\ SignDoes(r, r, {})
    BY <1>3, IssueCommitEffect
  <2> QED
    BY <2>1 DEF SignDoes
<1>4. ASSUME NEW r \in Requests, NEW h \in Requests, RefreshSelect(r, h)
      PROVE  MintedOK'
  <2>1. SelectDoes(r, h)
    BY <1>4, SelectEffect
  <2> QED
    BY <2>1 DEF SelectDoes, Others
<1>5. ASSUME NEW r \in Requests, RefreshLock(r)
      PROVE  MintedOK'
  BY <1>5 DEF RefreshLock, Acquire, Current, Goto, Finish
<1>6. ASSUME NEW r \in Requests, RefreshConsume(r)
      PROVE  MintedOK'
  BY <1>6 DEF RefreshConsume, Consumable, Found, Release, Unexpired, Goto, Finish
<1>7. ASSUME NEW r \in Requests, RefreshCommit(r)
      PROVE  MintedOK'
  <2>1. /\ pc[r] = "exchange" /\ job[r].sub \in Subs
        /\ job[r].hash \in Requests /\ minted[job[r].hash] # None
        /\ SignDoes(r, minted[job[r].hash].root, {job[r].hash})
    BY <1>7, RefreshCommitEffect
  <2> QED
    BY <2>1 DEF SignDoes
<1>8. ASSUME NEW r \in Requests, NEW h \in Requests, NEW op \in {"verify", "email", "delete"}, Present(r, h, op)
      PROVE  MintedOK'
  <2>1. PresentDoes(r, h, op)
    BY <1>8, PresentEffect
  <2> QED
    BY <2>1 DEF PresentDoes, Others
<1>9. ASSUME NEW r \in Requests, VerifyRead(r)
      PROVE  MintedOK'
  <2>1. VerifyDoes(r)
    BY <1>9, VerifyEffect
  <2> QED
    BY <2>1 DEF VerifyDoes, Others
<1>10. ASSUME NEW r \in Requests, NEW e \in Emails, ChangeEmail(r, e)
      PROVE  MintedOK'
  <2>1. EmailDoes(r, e)
    BY <1>10, EmailEffect
  <2> QED
    BY <2>1 DEF EmailDoes, Others
<1>11. ASSUME NEW r \in Requests, RevokeLock(r)
      PROVE  MintedOK'
  BY <1>11 DEF RevokeLock, Acquire, Goto, Finish
<1>12. ASSUME NEW r \in Requests, RevokeCommit(r)
      PROVE  MintedOK'
  BY <1>12 DEF RevokeCommit, WithoutSub, Release, Goto, Finish
<1>13. ASSUME NEW r \in Requests, DeleteAccount(r)
      PROVE  MintedOK'
  BY <1>13 DEF DeleteAccount, WithoutSub, Goto, Finish
<1>14. ASSUME NEW r \in Requests, NEW h \in Requests, Revoke(r, h)
      PROVE  MintedOK'
  BY <1>14 DEF Revoke, Consumed, Goto, Finish
<1>15. ASSUME NEW r \in Requests, Abort(r)
      PROVE  MintedOK'
  BY <1>15 DEF Abort, Release, Goto, Finish
<1>16. CASE DeleteExpiredRefreshTokens
  BY <1>16 DEF DeleteExpiredRefreshTokens, Consumed, Goto, Finish
<1>17. CASE Tick
  BY <1>17 DEF Tick, Goto, Finish
<1>18. CASE UNCHANGED vars
  BY <1>18 DEF vars, Goto, Finish
<1> QED
  BY <1>1, <1>2, <1>3, <1>4, <1>5, <1>6, <1>7, <1>8, <1>9, <1>10, <1>11, <1>12, <1>13, <1>14, <1>15, <1>16, <1>17, <1>18
     DEF Next, Step, Arrive

(* Auth ids in circulation were drawn by their requests earlier. *)
LEMMA FreshStep ==
    ASSUME TypeOK, LocalsOK, HoldersOK, MintedOK, FreshOK, TypeOK', [Next]_vars
    PROVE  FreshOK'
<1> USE DEF FreshOK, TypeOK, LocalsOK, InTx, Undrawn, Exists, Token, Account
<1>1. ASSUME NEW r \in Requests, NEW e \in Emails, EnsureAccount(r, e)
      PROVE  FreshOK'
  <2>1. EnsureDoes(r, e)
    BY <1>1, EnsureEffect
  <2> QED
    BY <2>1 DEF EnsureDoes, Others
<1>2. ASSUME NEW r \in Requests, IssueLock(r)
      PROVE  FreshOK'
  <2>1. IssueLockDoes(r)
    BY <1>2, IssueLockEffect
  <2> QED
    BY <2>1 DEF IssueLockDoes, Others
<1>3. ASSUME NEW r \in Requests, IssueCommit(r)
      PROVE  FreshOK'
  <2>1. pc[r] = "sign" /\ job[r].sub \in Subs /\ SignDoes(r, r, {})
    BY <1>3, IssueCommitEffect
  <2>2. accounts' = accounts /\ \A h \in Requests : pc[h] \notin Undrawn => pc'[h] \notin Undrawn
    BY <2>1 DEF SignDoes
  <2>3. job[r].authID \in Requests /\ pc[job[r].authID] \notin Undrawn
    BY <2>1 DEF HoldersOK
  <2>4. ASSUME NEW h \in Requests, minted'[h] # None
        PROVE  minted'[h].authID \in Requests /\ pc[minted'[h].authID] \notin Undrawn
    <3>1. CASE h = r
      BY <2>1, <2>3, <3>1 DEF SignDoes
    <3>2. CASE h # r
      BY <2>1, <2>4, <3>2 DEF SignDoes
    <3> QED
      BY <3>1, <3>2
  <2> QED
    BY <2>2, <2>4
<1>4. ASSUME NEW r \in Requests, NEW h \in Requests, RefreshSelect(r, h)
      PROVE  FreshOK'
  <2>1. SelectDoes(r, h)
    BY <1>4, SelectEffect
  <2> QED
    BY <2>1 DEF SelectDoes, Others
<1>5. ASSUME NEW r \in Requests, RefreshLock(r)
      PROVE  FreshOK'
  BY <1>5 DEF RefreshLock, Acquire, Current, Goto, Finish
<1>6. ASSUME NEW r \in Requests, RefreshConsume(r)
      PROVE  FreshOK'
  BY <1>6 DEF RefreshConsume, Consumable, Found, Release, Unexpired, Goto, Finish
<1>7. ASSUME NEW r \in Requests, RefreshCommit(r)
      PROVE  FreshOK'
  <2>1. /\ pc[r] = "exchange" /\ job[r].sub \in Subs
        /\ job[r].hash \in Requests /\ minted[job[r].hash] # None
        /\ SignDoes(r, minted[job[r].hash].root, {job[r].hash})
    BY <1>7, RefreshCommitEffect
  <2>2. accounts' = accounts /\ \A h \in Requests : pc[h] \notin Undrawn => pc'[h] \notin Undrawn
    BY <2>1 DEF SignDoes
  <2>3. job[r].authID \in Requests /\ pc[job[r].authID] \notin Undrawn
    BY <2>1 DEF HoldersOK
  <2>4. ASSUME NEW h \in Requests, minted'[h] # None
        PROVE  minted'[h].authID \in Requests /\ pc[minted'[h].authID] \notin Undrawn
    <3>1. CASE h = r
      BY <2>1, <2>3, <3>1 DEF SignDoes
    <3>2. CASE h # r
      BY <2>1, <2>4, <3>2 DEF SignDoes
    <3> QED
      BY <3>1, <3>2
  <2> QED
    BY <2>2, <2>4
<1>8. ASSUME NEW r \in Requests, NEW h \in Requests, NEW op \in {"verify", "email", "delete"}, Present(r, h, op)
      PROVE  FreshOK'
  <2>1. PresentDoes(r, h, op)
    BY <1>8, PresentEffect
  <2> QED
    BY <2>1 DEF PresentDoes, Others
<1>9. ASSUME NEW r \in Requests, VerifyRead(r)
      PROVE  FreshOK'
  <2>1. VerifyDoes(r)
    BY <1>9, VerifyEffect
  <2> QED
    BY <2>1 DEF VerifyDoes, Others
<1>10. ASSUME NEW r \in Requests, NEW e \in Emails, ChangeEmail(r, e)
      PROVE  FreshOK'
  <2>1. EmailDoes(r, e)
    BY <1>10, EmailEffect
  <2> QED
    BY <2>1 DEF EmailDoes, Others
<1>11. ASSUME NEW r \in Requests, RevokeLock(r)
      PROVE  FreshOK'
  BY <1>11 DEF RevokeLock, Acquire, Goto, Finish
<1>12. ASSUME NEW r \in Requests, RevokeCommit(r)
      PROVE  FreshOK'
  BY <1>12 DEF RevokeCommit, WithoutSub, Release, Goto, Finish, HoldersOK
<1>13. ASSUME NEW r \in Requests, DeleteAccount(r)
      PROVE  FreshOK'
  BY <1>13 DEF DeleteAccount, WithoutSub, Goto, Finish
<1>14. ASSUME NEW r \in Requests, NEW h \in Requests, Revoke(r, h)
      PROVE  FreshOK'
  BY <1>14 DEF Revoke, Consumed, Goto, Finish
<1>15. ASSUME NEW r \in Requests, Abort(r)
      PROVE  FreshOK'
  BY <1>15 DEF Abort, Release, Goto, Finish
<1>16. CASE DeleteExpiredRefreshTokens
  BY <1>16 DEF DeleteExpiredRefreshTokens, Consumed, Goto, Finish
<1>17. CASE Tick
  BY <1>17 DEF Tick, Goto, Finish
<1>18. CASE UNCHANGED vars
  BY <1>18 DEF vars, Goto, Finish
<1> QED
  BY <1>1, <1>2, <1>3, <1>4, <1>5, <1>6, <1>7, <1>8, <1>9, <1>10, <1>11, <1>12, <1>13, <1>14, <1>15, <1>16, <1>17, <1>18
     DEF Next, Step, Arrive

(* RowsCurrent is preserved: a session is stored under the account lock,
   and whoever changes the generation deletes the account's sessions with it. *)
LEMMA CurrentStep ==
    ASSUME TypeOK, LocalsOK, HoldersOK, SpentOK, AllocOK, RowsCurrent, TypeOK', [Next]_vars
    PROVE  RowsCurrent'
<1> USE DEF RowsCurrent, Current, TypeOK, LocalsOK, InTx, Exists
<1>1. ASSUME NEW r \in Requests, NEW e \in Emails, EnsureAccount(r, e)
      PROVE  RowsCurrent'
  <2>1. EnsureDoes(r, e)
    BY <1>1, EnsureEffect
  <2> QED
    BY <2>1 DEF EnsureDoes, Others, AllocOK, Row
<1>2. ASSUME NEW r \in Requests, IssueLock(r)
      PROVE  RowsCurrent'
  <2>1. IssueLockDoes(r)
    BY <1>2, IssueLockEffect
  <2> QED
    BY <2>1 DEF IssueLockDoes, Others
<1>3. ASSUME NEW r \in Requests, IssueCommit(r)
      PROVE  RowsCurrent'
  <2>1. pc[r] = "sign" /\ job[r].sub \in Subs /\ SignDoes(r, r, {})
    BY <1>3, IssueCommitEffect
  <2> QED
    BY <2>1 DEF SignDoes, HoldersOK
<1>4. ASSUME NEW r \in Requests, NEW h \in Requests, RefreshSelect(r, h)
      PROVE  RowsCurrent'
  <2>1. SelectDoes(r, h)
    BY <1>4, SelectEffect
  <2> QED
    BY <2>1 DEF SelectDoes, Others
<1>5. ASSUME NEW r \in Requests, RefreshLock(r)
      PROVE  RowsCurrent'
  BY <1>5 DEF RefreshLock, Acquire, Current, Goto, Finish
<1>6. ASSUME NEW r \in Requests, RefreshConsume(r)
      PROVE  RowsCurrent'
  BY <1>6 DEF RefreshConsume, Consumable, Found, Release, Unexpired, Goto, Finish
<1>7. ASSUME NEW r \in Requests, RefreshCommit(r)
      PROVE  RowsCurrent'
  <2>1. /\ pc[r] = "exchange" /\ job[r].sub \in Subs
        /\ job[r].hash \in Requests /\ minted[job[r].hash] # None
        /\ SignDoes(r, minted[job[r].hash].root, {job[r].hash})
    BY <1>7, RefreshCommitEffect
  <2> QED
    BY <2>1 DEF SignDoes, HoldersOK, SpentOK
<1>8. ASSUME NEW r \in Requests, NEW h \in Requests, NEW op \in {"verify", "email", "delete"}, Present(r, h, op)
      PROVE  RowsCurrent'
  <2>1. PresentDoes(r, h, op)
    BY <1>8, PresentEffect
  <2> QED
    BY <2>1 DEF PresentDoes, Others
<1>9. ASSUME NEW r \in Requests, VerifyRead(r)
      PROVE  RowsCurrent'
  <2>1. VerifyDoes(r)
    BY <1>9, VerifyEffect
  <2> QED
    BY <2>1 DEF VerifyDoes, Others
<1>10. ASSUME NEW r \in Requests, NEW e \in Emails, ChangeEmail(r, e)
      PROVE  RowsCurrent'
  <2>1. EmailDoes(r, e)
    BY <1>10, EmailEffect
  <2>2. ASSUME NEW h \in Requests, rows'[h] # None
        PROVE  /\ rows[h] # None /\ rows'[h] = rows[h] /\ rows[h].sub \in Subs
               /\ Exists(rows[h].sub) /\ accounts[rows[h].sub].authID = rows[h].authID
    BY <2>1, <2>2 DEF EmailDoes, Row
  <2>3. ASSUME NEW s \in Subs, Exists(s)
        PROVE  Exists(s)' /\ accounts'[s].authID = accounts[s].authID
    BY <2>1, <2>3 DEF EmailDoes
  <2> QED
    BY <2>2, <2>3
<1>11. ASSUME NEW r \in Requests, RevokeLock(r)
      PROVE  RowsCurrent'
  BY <1>11 DEF RevokeLock, Acquire, Goto, Finish
<1>12. ASSUME NEW r \in Requests, RevokeCommit(r)
      PROVE  RowsCurrent'
  BY <1>12 DEF RevokeCommit, WithoutSub, Release, Goto, Finish
<1>13. ASSUME NEW r \in Requests, DeleteAccount(r)
      PROVE  RowsCurrent'
  BY <1>13 DEF DeleteAccount, WithoutSub, Goto, Finish
<1>14. ASSUME NEW r \in Requests, NEW h \in Requests, Revoke(r, h)
      PROVE  RowsCurrent'
  BY <1>14 DEF Revoke, Consumed, Goto, Finish
<1>15. ASSUME NEW r \in Requests, Abort(r)
      PROVE  RowsCurrent'
  BY <1>15 DEF Abort, Release, Goto, Finish
<1>16. CASE DeleteExpiredRefreshTokens
  BY <1>16 DEF DeleteExpiredRefreshTokens, Consumed, Goto, Finish
<1>17. CASE Tick
  BY <1>17 DEF Tick, Goto, Finish
<1>18. CASE UNCHANGED vars
  BY <1>18 DEF vars, Goto, Finish
<1> QED
  BY <1>1, <1>2, <1>3, <1>4, <1>5, <1>6, <1>7, <1>8, <1>9, <1>10, <1>11, <1>12, <1>13, <1>14, <1>15, <1>16, <1>17, <1>18
     DEF Next, Step, Arrive

(* NoForkedSession is preserved: a successor replaces its predecessor. *)
LEMMA ForkStep ==
    ASSUME TypeOK, LocalsOK, HoldersOK, SpentOK, MintedOK, NoForkedSession, TypeOK', [Next]_vars
    PROVE  NoForkedSession'
<1> USE DEF NoForkedSession, TypeOK, LocalsOK, InTx, MintedOK
<1>1. ASSUME NEW r \in Requests, NEW e \in Emails, EnsureAccount(r, e)
      PROVE  NoForkedSession'
  <2>1. EnsureDoes(r, e)
    BY <1>1, EnsureEffect
  <2> QED
    BY <2>1 DEF EnsureDoes, Others
<1>2. ASSUME NEW r \in Requests, IssueLock(r)
      PROVE  NoForkedSession'
  <2>1. IssueLockDoes(r)
    BY <1>2, IssueLockEffect
  <2> QED
    BY <2>1 DEF IssueLockDoes, Others
<1>3. ASSUME NEW r \in Requests, IssueCommit(r)
      PROVE  NoForkedSession'
  <2>1. pc[r] = "sign" /\ job[r].sub \in Subs /\ SignDoes(r, r, {})
    BY <1>3, IssueCommitEffect
  <2> QED
    BY <2>1 DEF SignDoes
<1>4. ASSUME NEW r \in Requests, NEW h \in Requests, RefreshSelect(r, h)
      PROVE  NoForkedSession'
  <2>1. SelectDoes(r, h)
    BY <1>4, SelectEffect
  <2> QED
    BY <2>1 DEF SelectDoes, Others
<1>5. ASSUME NEW r \in Requests, RefreshLock(r)
      PROVE  NoForkedSession'
  BY <1>5 DEF RefreshLock, Acquire, Current, Goto, Finish
<1>6. ASSUME NEW r \in Requests, RefreshConsume(r)
      PROVE  NoForkedSession'
  BY <1>6 DEF RefreshConsume, Consumable, Found, Release, Unexpired, Goto, Finish
<1>7. ASSUME NEW r \in Requests, RefreshCommit(r)
      PROVE  NoForkedSession'
  <2>1. /\ pc[r] = "exchange" /\ job[r].sub \in Subs
        /\ job[r].hash \in Requests /\ minted[job[r].hash] # None
        /\ SignDoes(r, minted[job[r].hash].root, {job[r].hash})
    BY <1>7, RefreshCommitEffect
  <2> QED
    BY <2>1 DEF SignDoes, SpentOK
<1>8. ASSUME NEW r \in Requests, NEW h \in Requests, NEW op \in {"verify", "email", "delete"}, Present(r, h, op)
      PROVE  NoForkedSession'
  <2>1. PresentDoes(r, h, op)
    BY <1>8, PresentEffect
  <2> QED
    BY <2>1 DEF PresentDoes, Others
<1>9. ASSUME NEW r \in Requests, VerifyRead(r)
      PROVE  NoForkedSession'
  <2>1. VerifyDoes(r)
    BY <1>9, VerifyEffect
  <2> QED
    BY <2>1 DEF VerifyDoes, Others
<1>10. ASSUME NEW r \in Requests, NEW e \in Emails, ChangeEmail(r, e)
      PROVE  NoForkedSession'
  <2>1. EmailDoes(r, e)
    BY <1>10, EmailEffect
  <2> QED
    BY <2>1 DEF EmailDoes, Others
<1>11. ASSUME NEW r \in Requests, RevokeLock(r)
      PROVE  NoForkedSession'
  BY <1>11 DEF RevokeLock, Acquire, Goto, Finish
<1>12. ASSUME NEW r \in Requests, RevokeCommit(r)
      PROVE  NoForkedSession'
  BY <1>12 DEF RevokeCommit, WithoutSub, Release, Goto, Finish
<1>13. ASSUME NEW r \in Requests, DeleteAccount(r)
      PROVE  NoForkedSession'
  BY <1>13 DEF DeleteAccount, WithoutSub, Goto, Finish
<1>14. ASSUME NEW r \in Requests, NEW h \in Requests, Revoke(r, h)
      PROVE  NoForkedSession'
  BY <1>14 DEF Revoke, Consumed, Goto, Finish
<1>15. ASSUME NEW r \in Requests, Abort(r)
      PROVE  NoForkedSession'
  BY <1>15 DEF Abort, Release, Goto, Finish
<1>16. CASE DeleteExpiredRefreshTokens
  BY <1>16 DEF DeleteExpiredRefreshTokens, Consumed, Goto, Finish
<1>17. CASE Tick
  BY <1>17 DEF Tick, Goto, Finish
<1>18. CASE UNCHANGED vars
  BY <1>18 DEF vars, Goto, Finish
<1> QED
  BY <1>1, <1>2, <1>3, <1>4, <1>5, <1>6, <1>7, <1>8, <1>9, <1>10, <1>11, <1>12, <1>13, <1>14, <1>15, <1>16, <1>17, <1>18
     DEF Next, Step, Arrive

(* No step revives an access token; RevokeAll ends all of its account. *)
LEMMA DeadStep ==
    ASSUME TypeOK, LocalsOK, HoldersOK, MintedOK, AllocOK, FreshOK, [Next]_vars
    PROVE  StayDead
<1> USE DEF StayDead, Usable, Current, TypeOK, LocalsOK, InTx, Exists, Token, Account
<1>1. ASSUME NEW r \in Requests, NEW e \in Emails, EnsureAccount(r, e)
      PROVE  StayDead
  <2>1. EnsureDoes(r, e)
    BY <1>1, EnsureEffect
  <2>2. UNCHANGED minted /\ \A q \in Requests : pc'[q] # pc[q] => pc[q] = "idle"
    BY <2>1 DEF EnsureDoes
  <2>3. \A h \in Requests : minted[h] # None => minted[h].authID \in Requests /\ minted[h].authID # r
    BY <2>1 DEF EnsureDoes, FreshOK, Undrawn
  <2>4. \A s \in Subs : accounts'[s] # None =>
           \/ accounts'[s] = accounts[s]
           \/ accounts'[s].authID = r
    BY <2>1 DEF EnsureDoes
  <2> QED
    BY <2>2, <2>3, <2>4
<1>2. ASSUME NEW r \in Requests, IssueLock(r)
      PROVE  StayDead
  <2>1. IssueLockDoes(r)
    BY <1>2, IssueLockEffect
  <2> QED
    BY <2>1 DEF IssueLockDoes, Others
<1>3. ASSUME NEW r \in Requests, IssueCommit(r)
      PROVE  StayDead
  <2>1. pc[r] = "sign" /\ job[r].sub \in Subs /\ SignDoes(r, r, {})
    BY <1>3, IssueCommitEffect
  <2> QED
    BY <2>1 DEF SignDoes, MintedOK
<1>4. ASSUME NEW r \in Requests, NEW h \in Requests, RefreshSelect(r, h)
      PROVE  StayDead
  <2>1. SelectDoes(r, h)
    BY <1>4, SelectEffect
  <2> QED
    BY <2>1 DEF SelectDoes, Others
<1>5. ASSUME NEW r \in Requests, RefreshLock(r)
      PROVE  StayDead
  BY <1>5 DEF RefreshLock, Acquire, Current, Goto, Finish
<1>6. ASSUME NEW r \in Requests, RefreshConsume(r)
      PROVE  StayDead
  BY <1>6 DEF RefreshConsume, Consumable, Found, Release, Unexpired, Goto, Finish
<1>7. ASSUME NEW r \in Requests, RefreshCommit(r)
      PROVE  StayDead
  <2>1. /\ pc[r] = "exchange" /\ job[r].sub \in Subs
        /\ job[r].hash \in Requests /\ minted[job[r].hash] # None
        /\ SignDoes(r, minted[job[r].hash].root, {job[r].hash})
    BY <1>7, RefreshCommitEffect
  <2> QED
    BY <2>1 DEF SignDoes, MintedOK
<1>8. ASSUME NEW r \in Requests, NEW h \in Requests, NEW op \in {"verify", "email", "delete"}, Present(r, h, op)
      PROVE  StayDead
  <2>1. PresentDoes(r, h, op)
    BY <1>8, PresentEffect
  <2> QED
    BY <2>1 DEF PresentDoes, Others
<1>9. ASSUME NEW r \in Requests, VerifyRead(r)
      PROVE  StayDead
  <2>1. VerifyDoes(r)
    BY <1>9, VerifyEffect
  <2> QED
    BY <2>1 DEF VerifyDoes, Others
<1>10. ASSUME NEW r \in Requests, NEW e \in Emails, ChangeEmail(r, e)
      PROVE  StayDead
  <2>1. EmailDoes(r, e)
    BY <1>10, EmailEffect
  <2> QED
    BY <2>1 DEF EmailDoes, Others
<1>11. ASSUME NEW r \in Requests, RevokeLock(r)
      PROVE  StayDead
  BY <1>11 DEF RevokeLock, Acquire, Goto, Finish
<1>12. ASSUME NEW r \in Requests, RevokeCommit(r)
      PROVE  StayDead
  BY <1>12 DEF RevokeCommit, WithoutSub, Release, Goto, Finish, FreshOK, HoldersOK, Undrawn
<1>13. ASSUME NEW r \in Requests, DeleteAccount(r)
      PROVE  StayDead
  BY NoneAssumption, <1>13 DEF DeleteAccount, WithoutSub, Goto, Finish
<1>14. ASSUME NEW r \in Requests, NEW h \in Requests, Revoke(r, h)
      PROVE  StayDead
  BY <1>14 DEF Revoke, Consumed, Goto, Finish
<1>15. ASSUME NEW r \in Requests, Abort(r)
      PROVE  StayDead
  BY <1>15 DEF Abort, Release, Goto, Finish
<1>16. CASE DeleteExpiredRefreshTokens
  BY <1>16 DEF DeleteExpiredRefreshTokens, Consumed, Goto, Finish
<1>17. CASE Tick
  BY <1>17 DEF Tick, Goto, Finish
<1>18. CASE UNCHANGED vars
  BY <1>18 DEF vars, Goto, Finish
<1> QED
  BY <1>1, <1>2, <1>3, <1>4, <1>5, <1>6, <1>7, <1>8, <1>9, <1>10, <1>11, <1>12, <1>13, <1>14, <1>15, <1>16, <1>17, <1>18
     DEF Next, Step, Arrive

(* A request is answered only when its handler returns. *)
LEMMA ResultStep ==
    ASSUME TypeOK, LocalsOK, ResultOK, [Next]_vars
    PROVE  ResultOK'
<1> USE DEF ResultOK, TypeOK
<1>1. ASSUME NEW r \in Requests, NEW e \in Emails, EnsureAccount(r, e)
      PROVE  ResultOK'
  <2>1. EnsureDoes(r, e)
    BY <1>1, EnsureEffect
  <2> QED
    BY <2>1 DEF EnsureDoes, Others
<1>2. ASSUME NEW r \in Requests, IssueLock(r)
      PROVE  ResultOK'
  <2>1. IssueLockDoes(r)
    BY <1>2, IssueLockEffect
  <2> QED
    BY <2>1 DEF IssueLockDoes, Others
<1>3. ASSUME NEW r \in Requests, IssueCommit(r)
      PROVE  ResultOK'
  <2>1. pc[r] = "sign" /\ job[r].sub \in Subs /\ SignDoes(r, r, {})
    BY <1>3, IssueCommitEffect
  <2> QED
    BY <2>1 DEF SignDoes, InTx
<1>4. ASSUME NEW r \in Requests, NEW h \in Requests, RefreshSelect(r, h)
      PROVE  ResultOK'
  <2>1. SelectDoes(r, h)
    BY <1>4, SelectEffect
  <2> QED
    BY <2>1 DEF SelectDoes, Others
<1>5. ASSUME NEW r \in Requests, RefreshLock(r)
      PROVE  ResultOK'
  BY <1>5 DEF RefreshLock, Acquire, Current, Goto, Finish
<1>6. ASSUME NEW r \in Requests, RefreshConsume(r)
      PROVE  ResultOK'
  BY <1>6 DEF RefreshConsume, Consumable, Found, Release, Unexpired, Goto, Finish
<1>7. ASSUME NEW r \in Requests, RefreshCommit(r)
      PROVE  ResultOK'
  <2>1. /\ pc[r] = "exchange" /\ job[r].sub \in Subs
        /\ job[r].hash \in Requests /\ minted[job[r].hash] # None
        /\ SignDoes(r, minted[job[r].hash].root, {job[r].hash})
    BY <1>7, RefreshCommitEffect
  <2> QED
    BY <2>1 DEF SignDoes
<1>8. ASSUME NEW r \in Requests, NEW h \in Requests, NEW op \in {"verify", "email", "delete"}, Present(r, h, op)
      PROVE  ResultOK'
  <2>1. PresentDoes(r, h, op)
    BY <1>8, PresentEffect
  <2> QED
    BY <2>1 DEF PresentDoes, Others
<1>9. ASSUME NEW r \in Requests, VerifyRead(r)
      PROVE  ResultOK'
  <2>1. VerifyDoes(r)
    BY <1>9, VerifyEffect
  <2> QED
    BY <2>1 DEF VerifyDoes, Others
<1>10. ASSUME NEW r \in Requests, NEW e \in Emails, ChangeEmail(r, e)
      PROVE  ResultOK'
  <2>1. EmailDoes(r, e)
    BY <1>10, EmailEffect
  <2> QED
    BY <2>1 DEF EmailDoes, Others
<1>11. ASSUME NEW r \in Requests, RevokeLock(r)
      PROVE  ResultOK'
  BY <1>11 DEF RevokeLock, Acquire, Goto, Finish
<1>12. ASSUME NEW r \in Requests, RevokeCommit(r)
      PROVE  ResultOK'
  BY <1>12 DEF RevokeCommit, WithoutSub, Release, Goto, Finish
<1>13. ASSUME NEW r \in Requests, DeleteAccount(r)
      PROVE  ResultOK'
  BY <1>13 DEF DeleteAccount, WithoutSub, Goto, Finish
<1>14. ASSUME NEW r \in Requests, NEW h \in Requests, Revoke(r, h)
      PROVE  ResultOK'
  BY <1>14 DEF Revoke, Consumed, Goto, Finish
<1>15. ASSUME NEW r \in Requests, Abort(r)
      PROVE  ResultOK'
  BY <1>15 DEF Abort, Release, Goto, Finish
<1>16. CASE DeleteExpiredRefreshTokens
  BY <1>16 DEF DeleteExpiredRefreshTokens, Consumed, Goto, Finish
<1>17. CASE Tick
  BY <1>17 DEF Tick, Goto, Finish
<1>18. CASE UNCHANGED vars
  BY <1>18 DEF vars, Goto, Finish
<1> QED
  BY <1>1, <1>2, <1>3, <1>4, <1>5, <1>6, <1>7, <1>8, <1>9, <1>10, <1>11, <1>12, <1>13, <1>14, <1>15, <1>16, <1>17, <1>18
     DEF Next, Step, Arrive

(* A handler stays in its own part of the control flow. *)
LEMMA OpStep ==
    ASSUME TypeOK, LocalsOK, OpOK, [Next]_vars
    PROVE  OpOK'
<1> USE DEF OpOK, TypeOK
<1>1. ASSUME NEW r \in Requests, NEW e \in Emails, EnsureAccount(r, e)
      PROVE  OpOK'
  <2>1. EnsureDoes(r, e)
    BY <1>1, EnsureEffect
  <2> QED
    BY <2>1 DEF EnsureDoes, Others
<1>2. ASSUME NEW r \in Requests, IssueLock(r)
      PROVE  OpOK'
  <2>1. IssueLockDoes(r)
    BY <1>2, IssueLockEffect
  <2> QED
    BY <2>1 DEF IssueLockDoes, Others
<1>3. ASSUME NEW r \in Requests, IssueCommit(r)
      PROVE  OpOK'
  <2>1. pc[r] = "sign" /\ job[r].sub \in Subs /\ SignDoes(r, r, {})
    BY <1>3, IssueCommitEffect
  <2> QED
    BY <2>1 DEF SignDoes
<1>4. ASSUME NEW r \in Requests, NEW h \in Requests, RefreshSelect(r, h)
      PROVE  OpOK'
  <2>1. SelectDoes(r, h)
    BY <1>4, SelectEffect
  <2> QED
    BY <2>1 DEF SelectDoes, Others
<1>5. ASSUME NEW r \in Requests, RefreshLock(r)
      PROVE  OpOK'
  BY <1>5 DEF RefreshLock, Acquire, Current, Goto, Finish
<1>6. ASSUME NEW r \in Requests, RefreshConsume(r)
      PROVE  OpOK'
  BY <1>6 DEF RefreshConsume, Consumable, Found, Release, Unexpired, Goto, Finish
<1>7. ASSUME NEW r \in Requests, RefreshCommit(r)
      PROVE  OpOK'
  <2>1. /\ pc[r] = "exchange" /\ job[r].sub \in Subs
        /\ job[r].hash \in Requests /\ minted[job[r].hash] # None
        /\ SignDoes(r, minted[job[r].hash].root, {job[r].hash})
    BY <1>7, RefreshCommitEffect
  <2> QED
    BY <2>1 DEF SignDoes
<1>8. ASSUME NEW r \in Requests, NEW h \in Requests, NEW op \in {"verify", "email", "delete"}, Present(r, h, op)
      PROVE  OpOK'
  <2>1. PresentDoes(r, h, op)
    BY <1>8, PresentEffect
  <2> QED
    BY <2>1 DEF PresentDoes, Others
<1>9. ASSUME NEW r \in Requests, VerifyRead(r)
      PROVE  OpOK'
  <2>1. VerifyDoes(r)
    BY <1>9, VerifyEffect
  <2> QED
    BY <2>1 DEF VerifyDoes, Others
<1>10. ASSUME NEW r \in Requests, NEW e \in Emails, ChangeEmail(r, e)
      PROVE  OpOK'
  <2>1. EmailDoes(r, e)
    BY <1>10, EmailEffect
  <2> QED
    BY <2>1 DEF EmailDoes, Others
<1>11. ASSUME NEW r \in Requests, RevokeLock(r)
      PROVE  OpOK'
  BY <1>11 DEF RevokeLock, Acquire, Goto, Finish
<1>12. ASSUME NEW r \in Requests, RevokeCommit(r)
      PROVE  OpOK'
  BY <1>12 DEF RevokeCommit, WithoutSub, Release, Goto, Finish
<1>13. ASSUME NEW r \in Requests, DeleteAccount(r)
      PROVE  OpOK'
  BY <1>13 DEF DeleteAccount, WithoutSub, Goto, Finish
<1>14. ASSUME NEW r \in Requests, NEW h \in Requests, Revoke(r, h)
      PROVE  OpOK'
  BY <1>14 DEF Revoke, Consumed, Goto, Finish
<1>15. ASSUME NEW r \in Requests, Abort(r)
      PROVE  OpOK'
  BY <1>15 DEF Abort, Release, Goto, Finish
<1>16. CASE DeleteExpiredRefreshTokens
  BY <1>16 DEF DeleteExpiredRefreshTokens, Consumed, Goto, Finish
<1>17. CASE Tick
  BY <1>17 DEF Tick, Goto, Finish
<1>18. CASE UNCHANGED vars
  BY <1>18 DEF vars, Goto, Finish
<1> QED
  BY <1>1, <1>2, <1>3, <1>4, <1>5, <1>6, <1>7, <1>8, <1>9, <1>10, <1>11, <1>12, <1>13, <1>14, <1>15, <1>16, <1>17, <1>18
     DEF Next, Step, Arrive

(* Who passes the database half of Verify presented a live token. *)
LEMMA LiveStep ==
    ASSUME TypeOK, LocalsOK, OpOK, ResultOK, LiveOK, StayDead, [Next]_vars
    PROVE  LiveOK'
<1> USE DEF LiveOK, OpOK, LocalsOK, TypeOK, StayDead, Usable, Current, Exists
<1>1. ASSUME NEW r \in Requests, NEW e \in Emails, EnsureAccount(r, e)
      PROVE  LiveOK'
  <2>1. EnsureDoes(r, e)
    BY <1>1, EnsureEffect
  <2> QED
    BY <2>1 DEF EnsureDoes, Others
<1>2. ASSUME NEW r \in Requests, IssueLock(r)
      PROVE  LiveOK'
  <2>1. IssueLockDoes(r)
    BY <1>2, IssueLockEffect
  <2> QED
    BY <2>1 DEF IssueLockDoes, Others
<1>3. ASSUME NEW r \in Requests, IssueCommit(r)
      PROVE  LiveOK'
  <2>1. pc[r] = "sign" /\ job[r].sub \in Subs /\ SignDoes(r, r, {})
    BY <1>3, IssueCommitEffect
  <2> QED
    BY <2>1 DEF SignDoes
<1>4. ASSUME NEW r \in Requests, NEW h \in Requests, RefreshSelect(r, h)
      PROVE  LiveOK'
  <2>1. SelectDoes(r, h)
    BY <1>4, SelectEffect
  <2> QED
    BY <2>1 DEF SelectDoes, Others, ResultOK
<1>5. ASSUME NEW r \in Requests, RefreshLock(r)
      PROVE  LiveOK'
  BY <1>5 DEF RefreshLock, Acquire, Current, Goto, Finish
<1>6. ASSUME NEW r \in Requests, RefreshConsume(r)
      PROVE  LiveOK'
  BY <1>6, SMTT(30) DEF RefreshConsume, Consumable, Found, Release, Unexpired, Goto, Finish
<1>7. ASSUME NEW r \in Requests, RefreshCommit(r)
      PROVE  LiveOK'
  <2>1. /\ pc[r] = "exchange" /\ job[r].sub \in Subs
        /\ job[r].hash \in Requests /\ minted[job[r].hash] # None
        /\ SignDoes(r, minted[job[r].hash].root, {job[r].hash})
    BY <1>7, RefreshCommitEffect
  <2> QED
    BY <2>1 DEF SignDoes
<1>8. ASSUME NEW r \in Requests, NEW h \in Requests, NEW op \in {"verify", "email", "delete"}, Present(r, h, op)
      PROVE  LiveOK'
  <2>1. PresentDoes(r, h, op)
    BY <1>8, PresentEffect
  <2>2. Usable(h)' <=> Usable(h)
    BY <2>1 DEF PresentDoes
  <2>3. ASSUME NEW q \in Requests, q # r
        PROVE  /\ (pc'[q] = "read" /\ Usable(job[q].hash)') => job'[q].live
               /\ pc'[q] \in {"rename", "revoke", "rotate", "delete"} => job'[q].live
               /\ (job'[q].op \in {"verify", "email", "delete"} /\ result'[q] = "ok") => job'[q].live
    BY <2>1, <2>3 DEF PresentDoes, Others
  <2>4. job'[r].live = Usable(h) /\ (Usable(job[r].hash)' <=> Usable(h))
    BY <2>1 DEF PresentDoes
  <2>5. /\ pc'[r] \notin {"rename", "revoke", "rotate", "delete"}
        /\ result'[r] # "ok"
    BY <2>1 DEF PresentDoes, ResultOK
  <2> QED
    BY <2>3, <2>4, <2>5
<1>9. ASSUME NEW r \in Requests, VerifyRead(r)
      PROVE  LiveOK'
  <2>1. VerifyDoes(r)
    BY <1>9, VerifyEffect
  <2> QED
    BY <2>1, SMTT(30) DEF VerifyDoes, Others, ResultOK
<1>10. ASSUME NEW r \in Requests, NEW e \in Emails, ChangeEmail(r, e)
      PROVE  LiveOK'
  <2>1. EmailDoes(r, e)
    BY <1>10, EmailEffect
  <2> QED
    BY <2>1 DEF EmailDoes, Others
<1>11. ASSUME NEW r \in Requests, RevokeLock(r)
      PROVE  LiveOK'
  BY <1>11 DEF RevokeLock, Acquire, Goto, Finish
<1>12. ASSUME NEW r \in Requests, RevokeCommit(r)
      PROVE  LiveOK'
  BY <1>12 DEF RevokeCommit, WithoutSub, Release, Goto, Finish
<1>13. ASSUME NEW r \in Requests, DeleteAccount(r)
      PROVE  LiveOK'
  BY <1>13 DEF DeleteAccount, WithoutSub, Goto, Finish
<1>14. ASSUME NEW r \in Requests, NEW h \in Requests, Revoke(r, h)
      PROVE  LiveOK'
  BY <1>14 DEF Revoke, Consumed, Goto, Finish
<1>15. ASSUME NEW r \in Requests, Abort(r)
      PROVE  LiveOK'
  BY <1>15 DEF Abort, Release, Goto, Finish
<1>16. CASE DeleteExpiredRefreshTokens
  BY <1>16 DEF DeleteExpiredRefreshTokens, Consumed, Goto, Finish
<1>17. CASE Tick
  BY <1>17 DEF Tick, Goto, Finish
<1>18. CASE UNCHANGED vars
  BY <1>18 DEF vars, Goto, Finish
<1> HIDE DEF LiveOK, OpOK, LocalsOK, TypeOK, StayDead, Usable, Current, Exists
<1> QED
  BY <1>1, <1>2, <1>3, <1>4, <1>5, <1>6, <1>7, <1>8, <1>9, <1>10, <1>11, <1>12, <1>13, <1>14, <1>15, <1>16, <1>17, <1>18
     DEF Next, Step, Arrive

(* A deleted sub lies below the high-water mark, so it never comes back. *)
LEMMA GoneStep ==
    ASSUME TypeOK, LocalsOK, HoldersOK, AllocOK, ResultOK, OpOK, GoneOK, TypeOK', [Next]_vars
    PROVE  GoneOK'
<1> USE DEF GoneOK, OpOK, TypeOK, LocalsOK, InTx, Exists, Token
<1>1. ASSUME NEW r \in Requests, NEW e \in Emails, EnsureAccount(r, e)
      PROVE  GoneOK'
  <2>1. EnsureDoes(r, e)
    BY <1>1, EnsureEffect
  <2>2. \A s \in Subs : s \in Nat
    BY SubsAssumption
  <2>3. lastSub \in Nat /\ lastSub' \in Nat /\ lastSub <= lastSub'
    BY <2>1 DEF EnsureDoes
  <2>4. ASSUME NEW q \in Requests, pc[q] \in {"revoke", "rotate", "delete"}
        PROVE  job[q].sub <= lastSub'
    BY <2>2, <2>3, <2>4 DEF TypeOK
  <2>5. ASSUME NEW q \in Requests, q # r, job[q].op = "delete", result[q] = "ok"
        PROVE  /\ job[q].sub \in Subs /\ job[q].sub <= lastSub'
               /\ accounts'[job[q].sub] = None
    BY <2>1, <2>2, <2>3, <2>5 DEF EnsureDoes
  <2> QED
    BY <2>1, <2>4, <2>5 DEF EnsureDoes, Others, ResultOK
<1>2. ASSUME NEW r \in Requests, IssueLock(r)
      PROVE  GoneOK'
  <2>1. IssueLockDoes(r)
    BY <1>2, IssueLockEffect
  <2> QED
    BY <2>1 DEF IssueLockDoes, Others
<1>3. ASSUME NEW r \in Requests, IssueCommit(r)
      PROVE  GoneOK'
  <2>1. pc[r] = "sign" /\ job[r].sub \in Subs /\ SignDoes(r, r, {})
    BY <1>3, IssueCommitEffect
  <2> QED
    BY <2>1 DEF SignDoes
<1>4. ASSUME NEW r \in Requests, NEW h \in Requests, RefreshSelect(r, h)
      PROVE  GoneOK'
  <2>1. SelectDoes(r, h)
    BY <1>4, SelectEffect
  <2> QED
    BY <2>1 DEF SelectDoes, Others, ResultOK
<1>5. ASSUME NEW r \in Requests, RefreshLock(r)
      PROVE  GoneOK'
  BY <1>5 DEF RefreshLock, Acquire, Current, Goto, Finish
<1>6. ASSUME NEW r \in Requests, RefreshConsume(r)
      PROVE  GoneOK'
  BY <1>6 DEF RefreshConsume, Consumable, Found, Release, Unexpired, Goto, Finish
<1>7. ASSUME NEW r \in Requests, RefreshCommit(r)
      PROVE  GoneOK'
  <2>1. /\ pc[r] = "exchange" /\ job[r].sub \in Subs
        /\ job[r].hash \in Requests /\ minted[job[r].hash] # None
        /\ SignDoes(r, minted[job[r].hash].root, {job[r].hash})
    BY <1>7, RefreshCommitEffect
  <2> QED
    BY <2>1 DEF SignDoes
<1>8. ASSUME NEW r \in Requests, NEW h \in Requests, NEW op \in {"verify", "email", "delete"}, Present(r, h, op)
      PROVE  GoneOK'
  <2>1. PresentDoes(r, h, op)
    BY <1>8, PresentEffect
  <2> QED
    BY <2>1 DEF PresentDoes, Others, ResultOK
<1>9. ASSUME NEW r \in Requests, VerifyRead(r)
      PROVE  GoneOK'
  <2>1. VerifyDoes(r)
    BY <1>9, VerifyEffect
  <2>2. job[r].hash \in Requests /\ minted[job[r].hash] # None
    BY <2>1 DEF VerifyDoes
  <2>3. minted[job[r].hash].sub <= lastSub
    BY <2>2 DEF AllocOK
  <2>4. ASSUME NEW q \in Requests, pc'[q] \in {"revoke", "rotate", "delete"}
        PROVE  job'[q].sub <= lastSub'
    BY <2>1, <2>3, <2>4 DEF VerifyDoes, Others
  <2>5. ASSUME NEW q \in Requests, job'[q].op = "delete", result'[q] = "ok"
        PROVE  q # r /\ job'[q] = job[q] /\ result[q] = "ok"
    BY <2>1, <2>5 DEF VerifyDoes, Others, ResultOK
  <2> QED
    BY <2>1, <2>4, <2>5 DEF VerifyDoes
<1>10. ASSUME NEW r \in Requests, NEW e \in Emails, ChangeEmail(r, e)
      PROVE  GoneOK'
  <2>1. EmailDoes(r, e)
    BY <1>10, EmailEffect
  <2> QED
    BY <2>1 DEF EmailDoes, Others
<1>11. ASSUME NEW r \in Requests, RevokeLock(r)
      PROVE  GoneOK'
  BY <1>11 DEF RevokeLock, Acquire, Goto, Finish
<1>12. ASSUME NEW r \in Requests, RevokeCommit(r)
      PROVE  GoneOK'
  BY <1>12 DEF RevokeCommit, WithoutSub, Release, Goto, Finish, ResultOK, HoldersOK
<1>13. ASSUME NEW r \in Requests, DeleteAccount(r)
      PROVE  GoneOK'
  BY <1>13 DEF DeleteAccount, WithoutSub, Goto, Finish
<1>14. ASSUME NEW r \in Requests, NEW h \in Requests, Revoke(r, h)
      PROVE  GoneOK'
  BY <1>14 DEF Revoke, Consumed, Goto, Finish
<1>15. ASSUME NEW r \in Requests, Abort(r)
      PROVE  GoneOK'
  BY <1>15 DEF Abort, Release, Goto, Finish
<1>16. CASE DeleteExpiredRefreshTokens
  BY <1>16 DEF DeleteExpiredRefreshTokens, Consumed, Goto, Finish
<1>17. CASE Tick
  BY <1>17 DEF Tick, Goto, Finish
<1>18. CASE UNCHANGED vars
  BY <1>18 DEF vars, Goto, Finish
<1> QED
  BY <1>1, <1>2, <1>3, <1>4, <1>5, <1>6, <1>7, <1>8, <1>9, <1>10, <1>11, <1>12, <1>13, <1>14, <1>15, <1>16, <1>17, <1>18
     DEF Next, Step, Arrive

(* A change of mailbox is never forgotten: its request is over. *)
LEMMA MovesStep ==
    ASSUME TypeOK, LocalsOK, OpOK, [Next]_vars
    PROVE  MovesKept
<1> USE NoneAssumption DEF MovesKept, OpOK, TypeOK, LocalsOK, InTx
<1>1. ASSUME NEW r \in Requests, NEW e \in Emails, EnsureAccount(r, e)
      PROVE  MovesKept
  <2>1. EnsureDoes(r, e)
    BY <1>1, EnsureEffect
  <2> QED
    BY <2>1 DEF EnsureDoes, Others
<1>2. ASSUME NEW r \in Requests, IssueLock(r)
      PROVE  MovesKept
  <2>1. IssueLockDoes(r)
    BY <1>2, IssueLockEffect
  <2> QED
    BY <2>1 DEF IssueLockDoes, Others
<1>3. ASSUME NEW r \in Requests, IssueCommit(r)
      PROVE  MovesKept
  <2>1. pc[r] = "sign" /\ job[r].sub \in Subs /\ SignDoes(r, r, {})
    BY <1>3, IssueCommitEffect
  <2> QED
    BY <2>1 DEF SignDoes
<1>4. ASSUME NEW r \in Requests, NEW h \in Requests, RefreshSelect(r, h)
      PROVE  MovesKept
  <2>1. SelectDoes(r, h)
    BY <1>4, SelectEffect
  <2> QED
    BY <2>1 DEF SelectDoes, Others
<1>5. ASSUME NEW r \in Requests, RefreshLock(r)
      PROVE  MovesKept
  BY <1>5 DEF RefreshLock, Acquire, Current, Goto, Finish
<1>6. ASSUME NEW r \in Requests, RefreshConsume(r)
      PROVE  MovesKept
  BY <1>6 DEF RefreshConsume, Consumable, Found, Release, Unexpired, Goto, Finish
<1>7. ASSUME NEW r \in Requests, RefreshCommit(r)
      PROVE  MovesKept
  <2>1. /\ pc[r] = "exchange" /\ job[r].sub \in Subs
        /\ job[r].hash \in Requests /\ minted[job[r].hash] # None
        /\ SignDoes(r, minted[job[r].hash].root, {job[r].hash})
    BY <1>7, RefreshCommitEffect
  <2> QED
    BY <2>1 DEF SignDoes
<1>8. ASSUME NEW r \in Requests, NEW h \in Requests, NEW op \in {"verify", "email", "delete"}, Present(r, h, op)
      PROVE  MovesKept
  <2>1. PresentDoes(r, h, op)
    BY <1>8, PresentEffect
  <2> QED
    BY <2>1 DEF PresentDoes, Others
<1>9. ASSUME NEW r \in Requests, VerifyRead(r)
      PROVE  MovesKept
  <2>1. VerifyDoes(r)
    BY <1>9, VerifyEffect
  <2> QED
    BY <2>1 DEF VerifyDoes, Others
<1>10. ASSUME NEW r \in Requests, NEW e \in Emails, ChangeEmail(r, e)
      PROVE  MovesKept
  <2>1. EmailDoes(r, e)
    BY <1>10, EmailEffect
  <2> QED
    BY <2>1 DEF EmailDoes, Others
<1>11. ASSUME NEW r \in Requests, RevokeLock(r)
      PROVE  MovesKept
  BY <1>11 DEF RevokeLock, Acquire, Goto, Finish
<1>12. ASSUME NEW r \in Requests, RevokeCommit(r)
      PROVE  MovesKept
  BY <1>12 DEF RevokeCommit, WithoutSub, Release, Goto, Finish
<1>13. ASSUME NEW r \in Requests, DeleteAccount(r)
      PROVE  MovesKept
  BY <1>13 DEF DeleteAccount, WithoutSub, Goto, Finish
<1>14. ASSUME NEW r \in Requests, NEW h \in Requests, Revoke(r, h)
      PROVE  MovesKept
  BY <1>14 DEF Revoke, Consumed, Goto, Finish
<1>15. ASSUME NEW r \in Requests, Abort(r)
      PROVE  MovesKept
  BY <1>15 DEF Abort, Release, Goto, Finish
<1>16. CASE DeleteExpiredRefreshTokens
  BY <1>16 DEF DeleteExpiredRefreshTokens, Consumed, Goto, Finish
<1>17. CASE Tick
  BY <1>17 DEF Tick, Goto, Finish
<1>18. CASE UNCHANGED vars
  BY <1>18 DEF vars, Goto, Finish
<1> QED
  BY <1>1, <1>2, <1>3, <1>4, <1>5, <1>6, <1>7, <1>8, <1>9, <1>10, <1>11, <1>12, <1>13, <1>14, <1>15, <1>16, <1>17, <1>18
     DEF Next, Step, Arrive

(* A login's sub names the account of its mailbox, or nothing any more. *)
LEMMA LoginStep ==
    ASSUME TypeOK, LocalsOK, HoldersOK, AllocOK, OpOK, LoginOK, MovesKept, TypeOK', [Next]_vars
    PROVE  LoginOK'
<1> USE DEF LoginOK, MovesKept, OpOK, TypeOK, LocalsOK, InTx, Exists, Account
<1>1. ASSUME NEW r \in Requests, NEW e \in Emails, EnsureAccount(r, e)
      PROVE  LoginOK'
  <2>1. EnsureDoes(r, e)
    BY <1>1, EnsureEffect
  <2>2. \A s \in Subs : s \in Nat
    BY SubsAssumption
  <2>3. lastSub \in Nat /\ lastSub' \in Nat /\ lastSub <= lastSub'
    BY <2>1 DEF EnsureDoes
  <2>4. ASSUME NEW q \in Requests, q # r, job[q].op = "login"
        PROVE  /\ job[q].sub \in Subs /\ job[q].sub <= lastSub'
               /\ accounts'[job[q].sub] = accounts[job[q].sub]
    BY <2>1, <2>2, <2>3, <2>4 DEF EnsureDoes
  <2>5. /\ job'[r].sub <= lastSub'
        /\ accounts'[job'[r].sub].email = e
    BY <2>1, <2>2, <2>3 DEF EnsureDoes, AllocOK
  <2> QED
    BY <2>1, <2>4, <2>5 DEF EnsureDoes, Others
<1>2. ASSUME NEW r \in Requests, IssueLock(r)
      PROVE  LoginOK'
  <2>1. IssueLockDoes(r)
    BY <1>2, IssueLockEffect
  <2> QED
    BY <2>1 DEF IssueLockDoes, Others
<1>3. ASSUME NEW r \in Requests, IssueCommit(r)
      PROVE  LoginOK'
  <2>1. pc[r] = "sign" /\ job[r].sub \in Subs /\ SignDoes(r, r, {})
    BY <1>3, IssueCommitEffect
  <2> QED
    BY <2>1 DEF SignDoes
<1>4. ASSUME NEW r \in Requests, NEW h \in Requests, RefreshSelect(r, h)
      PROVE  LoginOK'
  <2>1. SelectDoes(r, h)
    BY <1>4, SelectEffect
  <2> QED
    BY <2>1 DEF SelectDoes, Others
<1>5. ASSUME NEW r \in Requests, RefreshLock(r)
      PROVE  LoginOK'
  BY <1>5 DEF RefreshLock, Acquire, Current, Goto, Finish
<1>6. ASSUME NEW r \in Requests, RefreshConsume(r)
      PROVE  LoginOK'
  BY <1>6 DEF RefreshConsume, Consumable, Found, Release, Unexpired, Goto, Finish
<1>7. ASSUME NEW r \in Requests, RefreshCommit(r)
      PROVE  LoginOK'
  <2>1. /\ pc[r] = "exchange" /\ job[r].sub \in Subs
        /\ job[r].hash \in Requests /\ minted[job[r].hash] # None
        /\ SignDoes(r, minted[job[r].hash].root, {job[r].hash})
    BY <1>7, RefreshCommitEffect
  <2> QED
    BY <2>1 DEF SignDoes
<1>8. ASSUME NEW r \in Requests, NEW h \in Requests, NEW op \in {"verify", "email", "delete"}, Present(r, h, op)
      PROVE  LoginOK'
  <2>1. PresentDoes(r, h, op)
    BY <1>8, PresentEffect
  <2> QED
    BY <2>1 DEF PresentDoes, Others
<1>9. ASSUME NEW r \in Requests, VerifyRead(r)
      PROVE  LoginOK'
  <2>1. VerifyDoes(r)
    BY <1>9, VerifyEffect
  <2> QED
    BY <2>1 DEF VerifyDoes, Others
<1>10. ASSUME NEW r \in Requests, NEW e \in Emails, ChangeEmail(r, e)
      PROVE  LoginOK'
  <2>1. EmailDoes(r, e)
    BY <1>10, EmailEffect
  <2> QED
    BY <2>1 DEF EmailDoes, Others
<1>11. ASSUME NEW r \in Requests, RevokeLock(r)
      PROVE  LoginOK'
  BY <1>11 DEF RevokeLock, Acquire, Goto, Finish
<1>12. ASSUME NEW r \in Requests, RevokeCommit(r)
      PROVE  LoginOK'
  BY <1>12 DEF RevokeCommit, WithoutSub, Release, Goto, Finish, HoldersOK, Account
<1>13. ASSUME NEW r \in Requests, DeleteAccount(r)
      PROVE  LoginOK'
  BY <1>13 DEF DeleteAccount, WithoutSub, Goto, Finish
<1>14. ASSUME NEW r \in Requests, NEW h \in Requests, Revoke(r, h)
      PROVE  LoginOK'
  BY <1>14 DEF Revoke, Consumed, Goto, Finish
<1>15. ASSUME NEW r \in Requests, Abort(r)
      PROVE  LoginOK'
  BY <1>15 DEF Abort, Release, Goto, Finish
<1>16. CASE DeleteExpiredRefreshTokens
  BY <1>16 DEF DeleteExpiredRefreshTokens, Consumed, Goto, Finish
<1>17. CASE Tick
  BY <1>17 DEF Tick, Goto, Finish
<1>18. CASE UNCHANGED vars
  BY <1>18 DEF vars, Goto, Finish
<1> QED
  BY <1>1, <1>2, <1>3, <1>4, <1>5, <1>6, <1>7, <1>8, <1>9, <1>10, <1>11, <1>12, <1>13, <1>14, <1>15, <1>16, <1>17, <1>18
     DEF Next, Step, Arrive

(* Refreshing does not move a session to another account. *)
LEMMA RootStep ==
    ASSUME TypeOK, LocalsOK, MintedOK, OpOK, RootOK, TypeOK', [Next]_vars
    PROVE  RootOK'
<1> USE DEF RootOK, OpOK, TypeOK, LocalsOK, MintedOK, InTx, Token
<1>1. ASSUME NEW r \in Requests, NEW e \in Emails, EnsureAccount(r, e)
      PROVE  RootOK'
  <2>1. EnsureDoes(r, e)
    BY <1>1, EnsureEffect
  <2> QED
    BY <2>1 DEF EnsureDoes, Others
<1>2. ASSUME NEW r \in Requests, IssueLock(r)
      PROVE  RootOK'
  <2>1. IssueLockDoes(r)
    BY <1>2, IssueLockEffect
  <2> QED
    BY <2>1 DEF IssueLockDoes, Others
<1>3. ASSUME NEW r \in Requests, IssueCommit(r)
      PROVE  RootOK'
  <2>1. pc[r] = "sign" /\ job[r].sub \in Subs /\ SignDoes(r, r, {})
    BY <1>3, IssueCommitEffect
  <2> QED
    BY <2>1 DEF SignDoes
<1>4. ASSUME NEW r \in Requests, NEW h \in Requests, RefreshSelect(r, h)
      PROVE  RootOK'
  <2>1. SelectDoes(r, h)
    BY <1>4, SelectEffect
  <2> QED
    BY <2>1 DEF SelectDoes, Others
<1>5. ASSUME NEW r \in Requests, RefreshLock(r)
      PROVE  RootOK'
  BY <1>5 DEF RefreshLock, Acquire, Current, Goto, Finish
<1>6. ASSUME NEW r \in Requests, RefreshConsume(r)
      PROVE  RootOK'
  BY <1>6 DEF RefreshConsume, Consumable, Found, Release, Unexpired, Goto, Finish
<1>7. ASSUME NEW r \in Requests, RefreshCommit(r)
      PROVE  RootOK'
  <2>1. /\ pc[r] = "exchange" /\ job[r].sub \in Subs
        /\ job[r].hash \in Requests /\ minted[job[r].hash] # None
        /\ SignDoes(r, minted[job[r].hash].root, {job[r].hash})
    BY <1>7, RefreshCommitEffect
  <2> QED
    BY <2>1, SMTT(30) DEF SignDoes
<1>8. ASSUME NEW r \in Requests, NEW h \in Requests, NEW op \in {"verify", "email", "delete"}, Present(r, h, op)
      PROVE  RootOK'
  <2>1. PresentDoes(r, h, op)
    BY <1>8, PresentEffect
  <2> QED
    BY <2>1 DEF PresentDoes, Others
<1>9. ASSUME NEW r \in Requests, VerifyRead(r)
      PROVE  RootOK'
  <2>1. VerifyDoes(r)
    BY <1>9, VerifyEffect
  <2> QED
    BY <2>1 DEF VerifyDoes, Others
<1>10. ASSUME NEW r \in Requests, NEW e \in Emails, ChangeEmail(r, e)
      PROVE  RootOK'
  <2>1. EmailDoes(r, e)
    BY <1>10, EmailEffect
  <2> QED
    BY <2>1 DEF EmailDoes, Others
<1>11. ASSUME NEW r \in Requests, RevokeLock(r)
      PROVE  RootOK'
  BY <1>11 DEF RevokeLock, Acquire, Goto, Finish
<1>12. ASSUME NEW r \in Requests, RevokeCommit(r)
      PROVE  RootOK'
  BY <1>12 DEF RevokeCommit, WithoutSub, Release, Goto, Finish
<1>13. ASSUME NEW r \in Requests, DeleteAccount(r)
      PROVE  RootOK'
  BY <1>13 DEF DeleteAccount, WithoutSub, Goto, Finish
<1>14. ASSUME NEW r \in Requests, NEW h \in Requests, Revoke(r, h)
      PROVE  RootOK'
  BY <1>14 DEF Revoke, Consumed, Goto, Finish
<1>15. ASSUME NEW r \in Requests, Abort(r)
      PROVE  RootOK'
  BY <1>15 DEF Abort, Release, Goto, Finish
<1>16. CASE DeleteExpiredRefreshTokens
  BY <1>16 DEF DeleteExpiredRefreshTokens, Consumed, Goto, Finish
<1>17. CASE Tick
  BY <1>17 DEF Tick, Goto, Finish
<1>18. CASE UNCHANGED vars
  BY <1>18 DEF vars, Goto, Finish
<1> QED
  BY <1>1, <1>2, <1>3, <1>4, <1>5, <1>6, <1>7, <1>8, <1>9, <1>10, <1>11, <1>12, <1>13, <1>14, <1>15, <1>16, <1>17, <1>18
     DEF Next, Step, Arrive

-----------------------------------------------------------------------------
(* The theorems. *)

LEMMA InitIInv == Init => IInv
<1> SUFFICES ASSUME Init PROVE IInv
  OBVIOUS
<1>1. TypeOK
  BY TypeInit
<1>2. /\ LocalsOK /\ HoldersOK /\ SpentOK /\ AllocOK /\ MintedOK /\ FreshOK
      /\ RowsCurrent /\ NoForkedSession
  BY DEF Init, LocalsOK, HoldersOK, SpentOK, AllocOK, MintedOK, FreshOK, Undrawn,
         RowsCurrent, NoForkedSession, InTx, Exists
<1>3. \A r \in Requests : job[r].op = "none"
  BY DEF Init, NoJob
<1>4. ResultOK /\ OpOK /\ LiveOK /\ GoneOK /\ LoginOK /\ RootOK
  BY <1>3 DEF Init, ResultOK, OpOK, LiveOK, GoneOK, LoginOK, RootOK
<1> QED
  BY <1>1, <1>2, <1>4 DEF IInv

LEMMA StepIInv ==
    ASSUME IInv, [Next]_vars
    PROVE  IInv' /\ StayDead
<1>1. TypeOK'
  BY TypeStep DEF IInv
<1>2. LocalsOK'
  BY <1>1, LocalsStep DEF IInv
<1>3. HoldersOK' /\ SpentOK'
  BY <1>2, HoldersStep, SpentStep DEF IInv
<1>4. AllocOK' /\ MintedOK' /\ FreshOK'
  BY <1>1, AllocStep, MintedStep, FreshStep DEF IInv
<1>5. RowsCurrent' /\ NoForkedSession'
  BY <1>1, CurrentStep, ForkStep DEF IInv
<1>6. StayDead
  BY DeadStep DEF IInv
<1>7. ResultOK' /\ OpOK' /\ LiveOK'
  BY <1>6, ResultStep, OpStep, LiveStep DEF IInv
<1>8. MovesKept
  BY MovesStep DEF IInv
<1>9. GoneOK' /\ LoginOK' /\ RootOK'
  BY <1>1, <1>8, GoneStep, LoginStep, RootStep DEF IInv
<1> QED
  BY <1>1, <1>2, <1>3, <1>4, <1>5, <1>6, <1>7, <1>9 DEF IInv

(* The invariant holds in every reachable state. *)
THEOREM Invariance == Spec => []IInv
<1>1. Init => IInv
  BY InitIInv
<1>2. IInv /\ [Next]_vars => IInv'
  BY StepIInv
<1> QED
  BY <1>1, <1>2, PTL DEF Spec

(* Every variable keeps its type; no handler step reads a local variable   *)
(* before it is set (authenticator.go:84-113, :178-192).                   *)
THEOREM TypeCorrect == Spec => []TypeOK
<1>1. IInv => TypeOK
  BY DEF IInv
<1> QED
  BY <1>1, Invariance, PTL

(* No race of login, refresh, revocation and deletion leaves a refresh     *)
(* token of a past generation or of a deleted account in the database.     *)
THEOREM SessionsAreCurrent == Spec => []RowsCurrent
<1>1. IInv => RowsCurrent
  BY DEF IInv
<1> QED
  BY <1>1, Invariance, PTL

(* However refreshes interleave, a login has at most one live token.       *)
THEOREM SessionsDoNotFork == Spec => []NoForkedSession
<1>1. IInv => NoForkedSession
  BY DEF IInv
<1> QED
  BY <1>1, Invariance, PTL

(* RevokeAll ends every access token of the account for good.              *)
THEOREM RevocationIsFinal == Spec => RevokedStayDead
<1>1. IInv /\ [Next]_vars => [StayDead]_vars
  BY StepIInv
<1> QED
  BY <1>1, Invariance, PTL DEF Spec, RevokedStayDead

(* Verify accepts no token that was revoked before the request arrived.    *)
THEOREM VerifyIsCurrent == Spec => []VerifiedWasLive
<1>1. IInv => VerifiedWasLive
  BY DEF IInv, LiveOK, VerifiedWasLive
<1> QED
  BY <1>1, Invariance, PTL

(* A confirmed DELETE /account leaves nothing behind and is never undone.  *)
THEOREM DeletionIsFinal == Spec => []DeletedMeansGone
<1>1. IInv => DeletedMeansGone
  BY DEF IInv, GoneOK, RowsCurrent, DeletedMeansGone, Usable, Current
<1> QED
  BY <1>1, Invariance, PTL

(* A session is in the account of the mailbox its login proved, or of one  *)
(* that the account was moved to by a request authenticated for it.        *)
THEOREM SessionsHaveTheirOwner == Spec => []SessionOwner
<1>1. IInv => SessionOwner
  <2> SUFFICES ASSUME IInv, NEW h \in Requests, rows[h] # None
               PROVE  accounts[rows[h].sub].email
                        \in {job[minted[h].root].email} \cup MovedTo(rows[h].sub)
    BY DEF SessionOwner
  <2>1. /\ minted[h] # None /\ minted[h].sub = rows[h].sub
        /\ Exists(rows[h].sub)
        /\ minted[h].root \in Requests
    BY DEF IInv, TypeOK, MintedOK, RowsCurrent, Current, Token
  <2>2. /\ job[minted[h].root].op = "login"
        /\ job[minted[h].root].sub = rows[h].sub
    BY <2>1 DEF IInv, RootOK
  <2> QED
    BY <2>1, <2>2 DEF IInv, LoginOK, MovedTo
<1> QED
  BY <1>1, Invariance, PTL

-----------------------------------------------------------------------------
(* The refinement of SessionContract. *)

(* A step that changes neither an account nor a token is a stutter.        *)
LEMMA StutterMaps ==
    ASSUME UNCHANGED <<accounts, rows, minted>>
    PROVE  UNCHANGED Contract!vars
  BY DEF Contract!vars, OwnerBar, LiveBar, IssuedBar, ValidBar, Usable, Current, Exists

(* What a step maps to when it only creates, renames or deletes accounts   *)
(* and takes tokens away.                                                  *)
LEMMA EnsureMaps ==
    ASSUME IInv, NEW r \in Requests, NEW e \in Emails, EnsureAccount(r, e)
    PROVE  [Contract!Next]_(Contract!vars)
<1>1. CASE UNCHANGED accounts
  BY <1>1, StutterMaps DEF EnsureAccount
<1>2. CASE /\ \A s \in Subs : Exists(s) => accounts[s].email # e
           /\ NewSub \in Subs
           /\ accounts' = [accounts EXCEPT ![NewSub] = [email |-> e, authID |-> r]]
           /\ UNCHANGED <<rows, minted>>
  <2> DEFINE s == NewSub
  <2>1. s \in Subs /\ s = lastSub + 1 /\ lastSub \in Nat
    BY <1>2 DEF NewSub, IInv, TypeOK
  <2>2. ~Exists(s) /\ \A h \in Requests : minted[h] # None => minted[h].sub # s
    BY <2>1, SubsAssumption DEF IInv, AllocOK, TypeOK, Token
  <2> HIDE DEF s
  <2>3. [email |-> e, authID |-> r] \in Account
    BY DEF Account
  <2>4. accounts' \in [Subs -> Account \cup {None}]
    BY <1>2, <2>1, <2>3 DEF IInv, TypeOK
  <2>5. /\ accounts'[s] = [email |-> e, authID |-> r] /\ accounts'[s] # None
        /\ \A t \in Subs \ {s} : accounts'[t] = accounts[t]
    BY <1>2, <2>1, <2>3, NoneAssumption DEF s, IInv, TypeOK
  <2>6. OwnerBar[s] = None /\ \A h \in Requests : IssuedBar[h] # s
    BY <2>1, <2>2, NoneAssumption DEF OwnerBar, IssuedBar
  <2>7. Contract!Unclaimed(e)
    BY <1>2, NoneAssumption DEF Contract!Unclaimed, OwnerBar
  <2>8. OwnerBar' = [OwnerBar EXCEPT ![s] = e]
    <3>1. accounts'[s].email = e
      BY <2>5
    <3>2. \A t \in Subs : OwnerBar'[t] = IF t = s THEN e ELSE OwnerBar[t]
      BY <2>5, <3>1 DEF OwnerBar, Exists
    <3> QED
      BY <2>1, <3>2 DEF OwnerBar
  <2>9. \A h \in Requests : minted[h] # None => (Usable(h)' <=> Usable(h))
    BY <1>2, <2>2, <2>5 DEF Usable, Current, Exists, IInv, TypeOK, Token
  <2>10. UNCHANGED <<LiveBar, IssuedBar, ValidBar>>
    BY <1>2, <2>9 DEF LiveBar, IssuedBar, ValidBar
  <2>11. Contract!CreateAccount(s, e)
    BY <2>6, <2>7, <2>8, <2>10 DEF Contract!CreateAccount
  <2> QED
    BY <2>1, <2>11 DEF Contract!Next
<1> QED
  BY <1>1, <1>2 DEF EnsureAccount

(* A session that is signed appears in the contract with its commit.       *)
LEMMA SignMaps ==
    ASSUME IInv, NEW r \in Requests, NEW root \in Requests, NEW spent \in SUBSET Requests,
           job[r].sub \in Subs, pc[r] \in {"sign", "exchange"}, SignDoes(r, root, spent)
    PROVE  /\ OwnerBar[job[r].sub] # None
           /\ Contract!Grant(r, job[r].sub)
           /\ LiveBar' = [h \in Requests |->
                            IF h = r THEN [sub |-> job[r].sub, root |-> root]
                            ELSE IF h \in spent THEN None ELSE LiveBar[h]]
           /\ UNCHANGED OwnerBar
<1>1. /\ Exists(job[r].sub) /\ job[r].authID = accounts[job[r].sub].authID
      /\ minted[r] = None
  BY DEF IInv, HoldersOK, MintedOK, InTx
<1>2. OwnerBar[job[r].sub] # None
  BY <1>1, NoneAssumption DEF OwnerBar, IInv, TypeOK, Account, Exists
<1>3. UNCHANGED OwnerBar
  BY DEF SignDoes, OwnerBar, Exists
<1>4. LiveBar' = [h \in Requests |->
                    IF h = r THEN [sub |-> job[r].sub, root |-> root]
                    ELSE IF h \in spent THEN None ELSE LiveBar[h]]
  BY DEF SignDoes, LiveBar
<1>5. IssuedBar[r] = None
  BY <1>1 DEF IssuedBar
<1>6. IssuedBar' = [IssuedBar EXCEPT ![r] = job[r].sub]
  BY DEF SignDoes, IssuedBar
<1>7. /\ Usable(r)'
      /\ \A h \in Requests : (h # r /\ minted[h] # None) => (Usable(h)' <=> Usable(h))
  BY <1>1 DEF SignDoes, Usable, Current, Exists
<1>8. ValidBar' = ValidBar \cup {r}
  BY <1>7 DEF SignDoes, ValidBar
<1> QED
  BY <1>2, <1>3, <1>4, <1>5, <1>6, <1>8 DEF Contract!Grant

LEMMA IssueMaps ==
    ASSUME IInv, NEW r \in Requests, IssueCommit(r)
    PROVE  Contract!Next
<1>1. pc[r] = "sign" /\ job[r].sub \in Subs /\ SignDoes(r, r, {})
  BY IssueCommitEffect DEF IInv
<1>2. /\ OwnerBar[job[r].sub] # None
      /\ Contract!Grant(r, job[r].sub)
      /\ LiveBar' = [h \in Requests |->
                       IF h = r THEN [sub |-> job[r].sub, root |-> r] ELSE LiveBar[h]]
      /\ UNCHANGED OwnerBar
  BY <1>1, SignMaps
<1>3. LiveBar' = [LiveBar EXCEPT ![r] = [sub |-> job[r].sub, root |-> r]]
  BY <1>2 DEF LiveBar
<1>4. Contract!Login(r, job[r].sub)
  BY <1>2, <1>3 DEF Contract!Login
<1> QED
  BY <1>1, <1>4 DEF Contract!Next

LEMMA RefreshMaps ==
    ASSUME IInv, NEW r \in Requests, RefreshCommit(r)
    PROVE  Contract!Next
<1> DEFINE g == job[r].hash
<1>1. /\ pc[r] = "exchange" /\ job[r].sub \in Subs /\ g \in Requests
      /\ minted[g] # None /\ SignDoes(r, minted[g].root, {g})
  BY RefreshCommitEffect DEF IInv
<1>2. rows[g] # None /\ rows[g].sub = job[r].sub /\ pc[g] = "done" /\ minted[g].root \in Requests
  BY <1>1 DEF IInv, SpentOK, MintedOK, TypeOK, Token
<1> HIDE DEF g
<1>3. g # r /\ LiveBar[g] = [sub |-> job[r].sub, root |-> minted[g].root]
  BY <1>1, <1>2 DEF LiveBar
<1>4. LiveBar[g] # None
  BY <1>1, <1>2, <1>3, NoneAssumption DEF Session
<1>5. /\ OwnerBar[job[r].sub] # None
      /\ Contract!Grant(r, job[r].sub)
      /\ LiveBar' = [h \in Requests |->
                       IF h = r THEN [sub |-> job[r].sub, root |-> minted[g].root]
                       ELSE IF h \in {g} THEN None ELSE LiveBar[h]]
      /\ UNCHANGED OwnerBar
  BY <1>1, <1>2, SignMaps
<1>6. LiveBar' = [LiveBar EXCEPT ![g] = None, ![r] = LiveBar[g]]
  BY <1>1, <1>3, <1>5 DEF LiveBar
<1>7. Contract!Grant(r, LiveBar[g].sub)
  BY <1>3, <1>5
<1>8. Contract!Exchange(g, r)
  BY <1>4, <1>5, <1>6, <1>7 DEF Contract!Exchange
<1> QED
  BY <1>1, <1>8 DEF Contract!Next

(* A rename is a rename, or nothing when the account has the mailbox.      *)
LEMMA EmailMaps ==
    ASSUME IInv, NEW r \in Requests, NEW e \in Emails, ChangeEmail(r, e)
    PROVE  [Contract!Next]_(Contract!vars)
<1>1. CASE UNCHANGED <<accounts, job>>
  BY <1>1, StutterMaps DEF ChangeEmail
<1>2. CASE /\ Exists(job[r].sub)
           /\ \A t \in Subs : Exists(t) /\ accounts[t].email = e => t = job[r].sub
           /\ accounts' = [accounts EXCEPT ![job[r].sub].email = e]
           /\ UNCHANGED <<rows, minted>>
  <2> DEFINE s == job[r].sub
  <2>1. s \in Subs /\ Exists(s) /\ accounts[s] \in Account
    BY <1>2 DEF ChangeEmail, IInv, LocalsOK, TypeOK, Exists
  <2> HIDE DEF s
  <2>2. /\ accounts'[s] \in Account /\ accounts'[s] # None
        /\ accounts'[s].email = e /\ accounts'[s].authID = accounts[s].authID
        /\ \A t \in Subs \ {s} : accounts'[t] = accounts[t]
    BY <1>2, <2>1, NoneAssumption DEF s, IInv, TypeOK, Account
  <2>3. OwnerBar' = [OwnerBar EXCEPT ![s] = e]
    BY <2>1, <2>2 DEF OwnerBar, Exists
  <2>4. \A h \in Requests : minted[h] # None => (Usable(h)' <=> Usable(h))
    BY <1>2, <2>1, <2>2 DEF Usable, Current, Exists, IInv, TypeOK, Token
  <2>5. UNCHANGED <<LiveBar, IssuedBar, ValidBar>>
    BY <1>2, <2>4 DEF LiveBar, IssuedBar, ValidBar
  <2>6. CASE accounts[s].email = e
    <3>1. UNCHANGED OwnerBar
      BY <2>1, <2>3, <2>6 DEF OwnerBar
    <3> QED
      BY <2>5, <3>1 DEF Contract!vars
  <2>7. CASE accounts[s].email # e
    <3>1. Contract!Unclaimed(e)
      BY <1>2, <2>1, <2>7, NoneAssumption DEF s, Contract!Unclaimed, OwnerBar
    <3>2. OwnerBar[s] # None
      BY <2>1, NoneAssumption DEF OwnerBar, Account
    <3>3. Contract!ChangeOwner(s, e)
      BY <2>3, <2>5, <3>1, <3>2 DEF Contract!ChangeOwner
    <3> QED
      BY <2>1, <3>3 DEF Contract!Next
  <2> QED
    BY <2>6, <2>7
<1> QED
  BY <1>1, <1>2 DEF ChangeEmail

(* The commit of RevokeAll ends everything the account had: a token of its *)
(* new generation does not exist yet.                                      *)
LEMMA RevokeAllMaps ==
    ASSUME IInv, NEW r \in Requests, RevokeCommit(r)
    PROVE  Contract!Next
<1> DEFINE s == job[r].sub
<1>1. /\ pc[r] = "rotate" /\ s \in Subs /\ Exists(s) /\ accounts[s] \in Account
      /\ accounts' = [accounts EXCEPT ![s].authID = r]
      /\ rows' = WithoutSub(s) /\ UNCHANGED minted
  BY DEF RevokeCommit, IInv, LocalsOK, HoldersOK, TypeOK, Exists, InTx
<1> HIDE DEF s
<1>2. /\ accounts'[s] \in Account /\ accounts'[s] # None
      /\ accounts'[s].authID = r /\ accounts'[s].email = accounts[s].email
      /\ \A t \in Subs \ {s} : accounts'[t] = accounts[t]
  BY <1>1, NoneAssumption DEF IInv, TypeOK, Account
<1>3. UNCHANGED OwnerBar /\ OwnerBar[s] # None
  BY <1>1, <1>2, NoneAssumption DEF OwnerBar, Exists, Account
<1>4. LiveBar' = [h \in Requests |->
                    IF LiveBar[h] # None /\ LiveBar[h].sub = s THEN None ELSE LiveBar[h]]
  BY <1>1 DEF WithoutSub, LiveBar
<1>5. UNCHANGED IssuedBar
  BY <1>1 DEF IssuedBar
<1>6. \A h \in Requests : minted[h] # None => minted[h] \in Token /\ minted[h].authID # r
  BY <1>1 DEF IInv, TypeOK, FreshOK, Undrawn
<1>7. \A h \in Requests : minted[h] # None =>
         (Usable(h)' <=> Usable(h) /\ minted[h].sub # s)
  BY <1>1, <1>2, <1>6 DEF Usable, Current, Exists, Token
<1>8. ValidBar' = {h \in ValidBar : IssuedBar[h] # s}
  BY <1>1, <1>7 DEF ValidBar, IssuedBar
<1>9. Contract!RevokeAll(s)
  BY <1>3, <1>4, <1>5, <1>8 DEF Contract!RevokeAll, Contract!EndSessions
<1> QED
  BY <1>1, <1>9 DEF Contract!Next

LEMMA DeleteMaps ==
    ASSUME IInv, NEW r \in Requests, DeleteAccount(r)
    PROVE  Contract!Next
<1> DEFINE s == job[r].sub
<1>1. /\ s \in Subs /\ accounts' = [accounts EXCEPT ![s] = None]
      /\ rows' = WithoutSub(s) /\ UNCHANGED minted
  BY DEF DeleteAccount, IInv, LocalsOK
<1> HIDE DEF s
<1>2. accounts'[s] = None /\ \A t \in Subs \ {s} : accounts'[t] = accounts[t]
  BY <1>1 DEF IInv, TypeOK
<1>3. OwnerBar' = [OwnerBar EXCEPT ![s] = None]
  <2>1. \A t \in Subs : OwnerBar'[t] = IF t = s THEN None ELSE OwnerBar[t]
    BY <1>2 DEF OwnerBar, Exists
  <2> QED
    BY <1>1, <2>1 DEF OwnerBar
<1>4. LiveBar' = [h \in Requests |->
                    IF LiveBar[h] # None /\ LiveBar[h].sub = s THEN None ELSE LiveBar[h]]
  BY <1>1 DEF WithoutSub, LiveBar
<1>5. UNCHANGED IssuedBar
  BY <1>1 DEF IssuedBar
<1>6. \A h \in Requests : minted[h] # None =>
         (Usable(h)' <=> Usable(h) /\ minted[h].sub # s)
  BY <1>1, <1>2 DEF Usable, Current, Exists, IInv, TypeOK, Token
<1>7. ValidBar' = {h \in ValidBar : IssuedBar[h] # s}
  BY <1>1, <1>6 DEF ValidBar, IssuedBar
<1>8. Contract!DeleteAccount(s)
  BY <1>3, <1>4, <1>5, <1>7 DEF Contract!DeleteAccount, Contract!EndSessions
<1> QED
  BY <1>1, <1>8 DEF Contract!Next

(* Refresh tokens that are revoked one by one or expire in batches.        *)
LEMMA EndTokensMaps ==
    ASSUME NEW ended \in SUBSET Requests, UNCHANGED <<accounts, minted>>,
           rows' = [h \in Requests |-> IF h \in ended THEN None ELSE rows[h]]
    PROVE  Contract!Next
<1>1. LiveBar' = [h \in Requests |-> IF h \in ended THEN None ELSE LiveBar[h]]
  BY DEF LiveBar
<1>2. UNCHANGED <<OwnerBar, IssuedBar, ValidBar>>
  BY DEF OwnerBar, IssuedBar, ValidBar, Usable, Current, Exists
<1>3. Contract!EndTokens
  BY <1>1, <1>2 DEF Contract!EndTokens
<1> QED
  BY <1>3 DEF Contract!Next

LEMMA StepMaps ==
    ASSUME IInv, [Next]_vars
    PROVE  [Contract!Next]_(Contract!vars)
<1>1. ASSUME NEW r \in Requests, NEW e \in Emails, EnsureAccount(r, e)
      PROVE  [Contract!Next]_(Contract!vars)
  BY <1>1, EnsureMaps
<1>2. ASSUME NEW r \in Requests, IssueLock(r)
      PROVE  [Contract!Next]_(Contract!vars)
  BY <1>2, StutterMaps DEF IssueLock
<1>3. ASSUME NEW r \in Requests, IssueCommit(r)
      PROVE  [Contract!Next]_(Contract!vars)
  BY <1>3, IssueMaps
<1>4. ASSUME NEW r \in Requests, NEW h \in Requests, RefreshSelect(r, h)
      PROVE  [Contract!Next]_(Contract!vars)
  BY <1>4, StutterMaps DEF RefreshSelect
<1>5. ASSUME NEW r \in Requests, RefreshLock(r)
      PROVE  [Contract!Next]_(Contract!vars)
  BY <1>5, StutterMaps DEF RefreshLock
<1>6. ASSUME NEW r \in Requests, RefreshConsume(r)
      PROVE  [Contract!Next]_(Contract!vars)
  BY <1>6, StutterMaps DEF RefreshConsume
<1>7. ASSUME NEW r \in Requests, RefreshCommit(r)
      PROVE  [Contract!Next]_(Contract!vars)
  BY <1>7, RefreshMaps
<1>8. ASSUME NEW r \in Requests, NEW h \in Requests, NEW op \in {"verify", "email", "delete"},
             Present(r, h, op)
      PROVE  [Contract!Next]_(Contract!vars)
  BY <1>8, StutterMaps DEF Present
<1>9. ASSUME NEW r \in Requests, VerifyRead(r)
      PROVE  [Contract!Next]_(Contract!vars)
  BY <1>9, StutterMaps DEF VerifyRead
<1>10. ASSUME NEW r \in Requests, NEW e \in Emails, ChangeEmail(r, e)
       PROVE  [Contract!Next]_(Contract!vars)
  BY <1>10, EmailMaps
<1>11. ASSUME NEW r \in Requests, RevokeLock(r)
       PROVE  [Contract!Next]_(Contract!vars)
  BY <1>11, StutterMaps DEF RevokeLock
<1>12. ASSUME NEW r \in Requests, RevokeCommit(r)
       PROVE  [Contract!Next]_(Contract!vars)
  BY <1>12, RevokeAllMaps
<1>13. ASSUME NEW r \in Requests, DeleteAccount(r)
       PROVE  [Contract!Next]_(Contract!vars)
  BY <1>13, DeleteMaps
<1>14. ASSUME NEW r \in Requests, NEW h \in Requests, Revoke(r, h)
       PROVE  [Contract!Next]_(Contract!vars)
  <2>1. rows' = [g \in Requests |-> IF g \in {h} THEN None ELSE rows[g]]
    BY <1>14 DEF Revoke, IInv, TypeOK
  <2> QED
    BY <1>14, <2>1, EndTokensMaps DEF Revoke
<1>15. ASSUME NEW r \in Requests, Abort(r)
       PROVE  [Contract!Next]_(Contract!vars)
  BY <1>15, StutterMaps DEF Abort
<1>16. CASE DeleteExpiredRefreshTokens
  <2>1. PICK batch \in SUBSET Requests :
                /\ rows' = [h \in Requests |-> IF h \in batch THEN None ELSE rows[h]]
                /\ UNCHANGED <<accounts, minted>>
    BY <1>16 DEF DeleteExpiredRefreshTokens, Expired
  <2> QED
    BY <2>1, EndTokensMaps
<1>17. CASE Tick
  BY <1>17, StutterMaps DEF Tick
<1>18. CASE UNCHANGED vars
  BY <1>18, StutterMaps DEF vars
<1> QED
  BY <1>1, <1>2, <1>3, <1>4, <1>5, <1>6, <1>7, <1>8, <1>9, <1>10, <1>11, <1>12, <1>13, <1>14, <1>15, <1>16, <1>17, <1>18
     DEF Next, Step, Arrive

LEMMA InitMaps == Init => Contract!Init
  BY DEF Init, Contract!Init, OwnerBar, LiveBar, IssuedBar, ValidBar, Exists

(* The transactions of the code, with their statements, locks, rollbacks   *)
(* and ambiguous commits, do what the contract does in single steps.       *)
THEOREM AuthorityImplementsContract == Spec => ImplementsContract
<1>1. Init => Contract!Init
  BY InitMaps
<1>2. IInv /\ [Next]_vars => [Contract!Next]_(Contract!vars)
  BY StepMaps
<1> QED
  BY <1>1, <1>2, Invariance, PTL DEF Spec, ImplementsContract, Contract!Spec

(* A step that takes a refresh token away is one of those that may.        *)
LEMMA NotLostStep ==
    ASSUME IInv, [Next]_vars
    PROVE  NotLost
<1> SUFFICES ASSUME NEW h \in Requests, rows[h] # None, rows'[h] = None
             PROVE  \/ rows[h].expiresAt <= clock
                    \/ \E r \in Requests : pc[r] = "idle" /\ job'[r].op = "revoke" /\ job'[r].hash = h
                    \/ \E r \in Requests : pc[r] \in {"rotate", "delete"} /\ pc'[r] # pc[r]
                                            /\ job[r].sub = rows[h].sub
                    \/ \E r \in Requests : rows[r] = None /\ rows'[r] # None
                                            /\ minted'[r].root = minted[h].root
  BY DEF NotLost
<1>1. ~UNCHANGED rows
  OBVIOUS
<1>2. ASSUME NEW r \in Requests, IssueCommit(r)
      PROVE  FALSE
  <2>1. SignDoes(r, r, {})
    BY <1>2, IssueCommitEffect DEF IInv
  <2> QED
    BY <2>1 DEF SignDoes
<1>3. ASSUME NEW r \in Requests, RefreshCommit(r)
      PROVE  rows[r] = None /\ rows'[r] # None /\ minted'[r].root = minted[h].root
  <2>1. /\ pc[r] = "exchange" /\ job[r].hash \in Requests
        /\ SignDoes(r, minted[job[r].hash].root, {job[r].hash})
    BY <1>3, RefreshCommitEffect DEF IInv
  <2>2. rows[r] = None
    BY <2>1 DEF IInv, MintedOK
  <2> QED
    BY <2>1, <2>2 DEF SignDoes
<1>4. ASSUME NEW r \in Requests, RevokeCommit(r) \/ DeleteAccount(r)
      PROVE  pc[r] \in {"rotate", "delete"} /\ pc'[r] # pc[r] /\ job[r].sub = rows[h].sub
  BY <1>4 DEF RevokeCommit, DeleteAccount, WithoutSub, Goto, Finish, IInv, TypeOK
<1>5. ASSUME NEW r \in Requests, NEW g \in Requests, Revoke(r, g)
      PROVE  pc[r] = "idle" /\ job'[r].op = "revoke" /\ job'[r].hash = h
  <2>1. g = h
    BY <1>5 DEF Revoke, IInv, TypeOK
  <2>2. job'[r] = [NoJob EXCEPT !.op = "revoke", !.hash = g]
    BY <1>5 DEF Revoke, IInv, TypeOK
  <2>3. [NoJob EXCEPT !.op = "revoke", !.hash = g].op = "revoke"
    BY DEF NoJob
  <2>4. [NoJob EXCEPT !.op = "revoke", !.hash = g].hash = g
    BY DEF NoJob
  <2> QED
    BY <1>5, <2>1, <2>2, <2>3, <2>4 DEF Revoke
<1>6. CASE DeleteExpiredRefreshTokens
  BY <1>6 DEF DeleteExpiredRefreshTokens, Expired
<1>7. CASE \E r \in Requests :
             \/ \E e \in Emails : EnsureAccount(r, e) \/ ChangeEmail(r, e)
             \/ \E g \in Requests : \/ RefreshSelect(r, g)
                                    \/ \E op \in {"verify", "email", "delete"} : Present(r, g, op)
             \/ IssueLock(r) \/ RefreshLock(r) \/ RefreshConsume(r) \/ VerifyRead(r)
             \/ RevokeLock(r) \/ Abort(r)
  <2>1. ASSUME NEW r \in Requests, NEW e \in Emails, EnsureAccount(r, e) \/ ChangeEmail(r, e)
        PROVE  UNCHANGED rows
    BY <2>1 DEF EnsureAccount, ChangeEmail
  <2>2. ASSUME NEW r \in Requests, NEW g \in Requests, RefreshSelect(r, g)
        PROVE  UNCHANGED rows
    BY <2>2 DEF RefreshSelect
  <2>3. ASSUME NEW r \in Requests, NEW g \in Requests, NEW op \in {"verify", "email", "delete"},
               Present(r, g, op)
        PROVE  UNCHANGED rows
    BY <2>3 DEF Present
  <2>4. ASSUME NEW r \in Requests,
               \/ IssueLock(r) \/ RefreshLock(r) \/ RefreshConsume(r) \/ VerifyRead(r)
               \/ RevokeLock(r) \/ Abort(r)
        PROVE  UNCHANGED rows
    BY <2>4 DEF IssueLock, RefreshLock, RefreshConsume, VerifyRead, RevokeLock, Abort
  <2> QED
    BY <1>1, <1>7, <2>1, <2>2, <2>3, <2>4
<1>8. CASE Tick \/ UNCHANGED vars
  BY <1>1, <1>8 DEF Tick, vars
<1> QED
  BY <1>2, <1>3, <1>4, <1>5, <1>6, <1>7, <1>8 DEF Next, Step, Arrive

(* No interleaving and no failure costs a client its session: a refresh    *)
(* token goes only by expiry, revocation, deletion or a successor.         *)
THEOREM NoSessionIsLost == Spec => SessionsNotLost
<1>1. IInv /\ [Next]_vars => [NotLost]_vars
  BY NotLostStep
<1> QED
  BY <1>1, Invariance, PTL DEF Spec, SessionsNotLost

(* A refresh that is late, or has been answered, without a session. *)
LateOK(r) ==
    /\ minted[r] = None
    /\ \/ pc[r] = "done"
       \/ /\ pc[r] \in {"lock", "consume"}
          /\ rows[job[r].hash] # None => rows[job[r].hash].expiresAt <= clock

(* What no other request can do to it.                                     *)
LEMMA LateKept ==
    ASSUME IInv, NEW q \in Requests, LateOK(q),
           job'[q] = job[q], pc'[q] = pc[q], minted'[q] = minted[q],
           clock' = clock \/ clock' = clock + 1,
           \A h \in Requests : pc[h] = "done" => rows'[h] \in {rows[h], None}
    PROVE  LateOK(q)'
<1>1. CASE pc[q] = "done"
  BY <1>1 DEF LateOK
<1>2. CASE pc[q] \in {"lock", "consume"}
  <2>1. job[q].hash \in Requests /\ pc[job[q].hash] = "done"
    BY <1>2 DEF IInv, LocalsOK, MintedOK
  <2>2. clock <= clock' /\ clock \in Nat /\ clock' \in Nat
    BY DEF IInv, TypeOK
  <2>3. rows'[job[q].hash] # None =>
           rows'[job[q].hash] = rows[job[q].hash] /\ rows[job[q].hash].expiresAt \in Nat
    BY <2>1 DEF IInv, TypeOK, Row
  <2> QED
    BY <1>2, <2>2, <2>3 DEF LateOK
<1> QED
  BY <1>1, <1>2 DEF LateOK

LEMMA LateStep ==
    ASSUME IInv, [Next]_vars, NEW q \in Requests, LateOK(q)
    PROVE  LateOK(q)'
<1> USE DEF IInv
<1>0. pc[q] \in {"done", "lock", "consume"}
  BY DEF LateOK
<1>1. ASSUME NEW r \in Requests, NEW e \in Emails, EnsureAccount(r, e)
      PROVE  LateOK(q)'
  <2>1. EnsureDoes(r, e)
    BY <1>1, EnsureEffect
  <2> QED
    BY <1>0, <2>1, LateKept DEF EnsureDoes, Others, TypeOK
<1>2. ASSUME NEW r \in Requests, IssueLock(r)
      PROVE  LateOK(q)'
  <2>1. IssueLockDoes(r)
    BY <1>2, IssueLockEffect
  <2> QED
    BY <1>0, <2>1, LateKept DEF IssueLockDoes, Others, TypeOK
<1>3. ASSUME NEW r \in Requests, IssueCommit(r)
      PROVE  LateOK(q)'
  <2>1. pc[r] = "sign" /\ SignDoes(r, r, {})
    BY <1>3, IssueCommitEffect
  <2> QED
    BY <1>0, <2>1, LateKept DEF SignDoes, TypeOK
<1>4. ASSUME NEW r \in Requests, NEW h \in Requests, RefreshSelect(r, h)
      PROVE  LateOK(q)'
  <2>1. SelectDoes(r, h)
    BY <1>4, SelectEffect
  <2> QED
    BY <1>0, <2>1, LateKept DEF SelectDoes, Others, TypeOK
<1>5. ASSUME NEW r \in Requests, RefreshLock(r)
      PROVE  LateOK(q)'
  <2>1. CASE r = q
    BY <1>5, <2>1 DEF RefreshLock, LateOK, TypeOK, Goto, Finish
  <2>2. CASE r # q
    BY <1>5, <2>2, LateKept DEF RefreshLock, TypeOK, Goto, Finish
  <2> QED
    BY <2>1, <2>2
<1>6. ASSUME NEW r \in Requests, RefreshConsume(r)
      PROVE  LateOK(q)'
  <2>1. CASE r = q
    <3>1. pc[q] = "consume" /\ job[q].hash \in Requests /\ clock \in Nat
      BY <1>6, <2>1 DEF RefreshConsume, LocalsOK, TypeOK
    <3>2. rows[job[q].hash] # None => rows[job[q].hash].expiresAt \in Nat
      BY <3>1 DEF TypeOK, Row
    <3>3. ~Consumable(q)
      BY <3>1, <3>2 DEF LateOK, Consumable, Unexpired
    <3>4. pc' = [pc EXCEPT ![q] = "done"] /\ UNCHANGED minted
      BY <1>6, <2>1, <3>3 DEF RefreshConsume, Finish
    <3> QED
      BY <3>4 DEF LateOK, TypeOK
  <2>2. CASE r # q
    BY <1>6, <2>2, LateKept DEF RefreshConsume, TypeOK, Goto, Finish
  <2> QED
    BY <2>1, <2>2
<1>7. ASSUME NEW r \in Requests, RefreshCommit(r)
      PROVE  LateOK(q)'
  <2>1. pc[r] = "exchange" /\ SignDoes(r, minted[job[r].hash].root, {job[r].hash})
    BY <1>7, RefreshCommitEffect
  <2> QED
    BY <1>0, <2>1, LateKept DEF SignDoes, TypeOK
<1>8. ASSUME NEW r \in Requests, NEW h \in Requests, NEW op \in {"verify", "email", "delete"},
             Present(r, h, op)
      PROVE  LateOK(q)'
  <2>1. PresentDoes(r, h, op)
    BY <1>8, PresentEffect
  <2> QED
    BY <1>0, <2>1, LateKept DEF PresentDoes, Others, TypeOK
<1>9. ASSUME NEW r \in Requests, VerifyRead(r)
      PROVE  LateOK(q)'
  <2>1. VerifyDoes(r)
    BY <1>9, VerifyEffect
  <2> QED
    BY <1>0, <2>1, LateKept DEF VerifyDoes, Others, TypeOK
<1>10. ASSUME NEW r \in Requests, NEW e \in Emails, ChangeEmail(r, e)
       PROVE  LateOK(q)'
  <2>1. EmailDoes(r, e)
    BY <1>10, EmailEffect
  <2> QED
    BY <1>0, <2>1, LateKept DEF EmailDoes, Others, TypeOK
<1>11. ASSUME NEW r \in Requests, RevokeLock(r) \/ RevokeCommit(r) \/ DeleteAccount(r)
       PROVE  LateOK(q)'
  BY <1>0, <1>11, LateKept DEF RevokeLock, RevokeCommit, DeleteAccount, WithoutSub, Goto, Finish, TypeOK
<1>12. ASSUME NEW r \in Requests, NEW h \in Requests, Revoke(r, h)
       PROVE  LateOK(q)'
  BY <1>0, <1>12, LateKept DEF Revoke, Finish, TypeOK
<1>13. ASSUME NEW r \in Requests, Abort(r)
       PROVE  LateOK(q)'
  <2>1. CASE r = q
    BY <1>13, <2>1 DEF Abort, Finish, LateOK, TypeOK
  <2>2. CASE r # q
    BY <1>13, <2>2, LateKept DEF Abort, Finish, TypeOK
  <2> QED
    BY <2>1, <2>2
<1>14. CASE DeleteExpiredRefreshTokens
  BY <1>14, LateKept DEF DeleteExpiredRefreshTokens
<1>15. CASE Tick
  BY <1>15, LateKept DEF Tick
<1>16. CASE UNCHANGED vars
  BY <1>16, LateKept DEF vars
<1> QED
  BY <1>1, <1>2, <1>3, <1>4, <1>5, <1>6, <1>7, <1>8, <1>9, <1>10, <1>11, <1>12, <1>13, <1>14, <1>15, <1>16
     DEF Next, Step, Arrive

(* A refresh whose token expires while it waits for the account or for the *)
(* token's row stays late until it is answered without a session           *)
(* (authenticator.go:107-110).                                             *)
THEOREM LateRefreshesAreRefused == Spec => LateRefreshRefused
<1>1. IInv /\ [Next]_vars => [RefusedIfLate]_vars
  <2> SUFFICES ASSUME IInv, [Next]_vars, NEW r \in Requests, Late(r)
               PROVE  Late(r)' \/ (pc'[r] = "done" /\ minted'[r] = None)
    BY DEF RefusedIfLate
  <2>1. LateOK(r)
    BY DEF Late, LateOK
  <2>2. LateOK(r)'
    BY <2>1, LateStep
  <2> QED
    BY <2>2 DEF LateOK, Late
<1> QED
  BY <1>1, Invariance, PTL DEF Spec, LateRefreshRefused
=============================================================================
