------------------------------- MODULE Requests -------------------------------
(***************************************************************************)
(* The way of an HTTP request: the router, AuthenticateBearer and          *)
(* RequirePermission, the checks and statements of its handler in their    *)
(* order, and the three response writers, together with the tables         *)
(* account_roles and role_permissions.                                     *)
(*                                                                         *)
(* Every gate is one statement or transaction at most.  Between two gates  *)
(* other requests run, accounts are deleted and roles change.  What the    *)
(* statements do to codes, sessions and mailboxes is the subject of        *)
(* Challenges, Sessions and RateLimits; here it is noted that they did it. *)
(***************************************************************************)
EXTENDS Integers, Sequences

CONSTANTS Requests,  \* HTTP requests, each handled once
          Subs,      \* account numbers the database may hand out
          Roles,     \* role keys
          Default,   \* database.RoleDefault
          None       \* "no token" and "no account"

ASSUME SubsAssumption == Subs \subseteq Nat \ {0}
ASSUME RolesAssumption == Default \in Roles

Token == [sub : Subs, gen : Nat, roles : SUBSET Roles]

VARIABLES
    lastSub,   \* high-water mark of the account numbers
    accounts,  \* the accounts that exist
    gen,       \* gen[s]: the auth id of account s, as a number
    roles,     \* account_roles
    grants,    \* the roles that role_permissions gives perm.change_email
    issued,    \* access tokens signed so far
    route,     \* requests: the route that was matched,
    todo,      \*   the gates still to pass,
    token,     \*   the bearer token,
    sub,       \*   the account,
    wire,      \*   and the response and its writers
    gone,      \* requests whose client has left
    did,       \* history: what request r changed
    seen       \* history: what held at some time since r arrived

tables  == <<lastSub, accounts, gen, roles, grants, issued>>
request == <<route, todo, token, sub, wire, gone, did>>
vars    == <<tables, request, seen>>

(* registerAuthRoutes, registerAccountRoutes, registerRootRoutes and       *)
(* registerStaticRoutes, each with what its handler goes through; and a    *)
(* request that ServeMux has no handler for.                               *)
Plans ==
    [account |-> <<"bearer", "load">>,
     delete  |-> <<"bearer", "revoke", "remove">>,
     change  |-> <<"bearer", "permission", "body", "load", "budget", "save", "send">>,
     confirm |-> <<"bearer", "permission", "body", "budget", "apply">>,
     login   |-> <<"body", "budget", "save", "send">>,
     verify  |-> <<"body", "budget", "finalize", "issue">>,
     refresh |-> <<"body", "renew">>,
     page    |-> <<"page">>,
     static  |-> <<"file">>,
     unknown |-> <<"mux">>]

Routes == DOMAIN Plans

ASSUME NoneAssumption == None \notin Subs /\ None \notin Routes

Gates  == UNION {{Plans[p][i] : i \in DOMAIN Plans[p]} : p \in Routes}
Deeds  == {"budget", "challenge", "mail", "account", "session"}

(* The response of the last gate. *)
Success ==
    [p \in Routes |-> IF p \in {"delete", "change", "confirm", "login"} THEN 204 ELSE 200]

NewWire == [pattern |-> FALSE, replaced |-> FALSE, wrote |-> FALSE,
            logged |-> 200, sent |-> 0, body |-> << >>]

TypeOK ==
    /\ lastSub \in Nat /\ accounts \subseteq Subs
    /\ gen \in [Subs -> Nat] /\ roles \in [Subs -> SUBSET Roles]
    /\ grants \subseteq Roles /\ issued \subseteq Token
    /\ route \in [Requests -> Routes \cup {None}]
    /\ todo \in [Requests -> Seq(Gates)]
    /\ token \in [Requests -> Token \cup {None}] /\ sub \in [Requests -> Subs \cup {None}]
    /\ wire \in [Requests -> [pattern : BOOLEAN, replaced : BOOLEAN, wrote : BOOLEAN,
                              logged : Nat, sent : Nat, body : Seq({"json", "text", "html"})]]
    /\ gone \subseteq Requests
    /\ did \in [Requests -> SUBSET Deeds]
    /\ seen \in [Requests -> SUBSET {"token", "permission"}]
    /\ \A s \in Subs \ accounts : roles[s] = {}     \* foreign keys cascade

Init ==
    /\ lastSub = 0 /\ accounts = {} /\ gen = [s \in Subs |-> 0]
    /\ roles = [s \in Subs |-> {}] /\ grants = {Default} /\ issued = {}
    /\ route = [r \in Requests |-> None] /\ todo = [r \in Requests |-> << >>]
    /\ token = [r \in Requests |-> None] /\ sub = [r \in Requests |-> None]
    /\ wire = [r \in Requests |-> NewWire] /\ gone = {}
    /\ did = [r \in Requests |-> {}] /\ seen = [r \in Requests |-> {}]

-----------------------------------------------------------------------------
(* The response writers, outermost last: net/http's own, which keeps the   *)
(* first header; statusWriter; routingErrorWriter.                         *)

NetHeader(w, s) == IF w.sent = 0 THEN [w EXCEPT !.sent = s] ELSE w
NetWrite(w, b)  == [NetHeader(w, 200) EXCEPT !.body = Append(@, b)]

(* As if statusWriter kept the last status it was given. *)
LogHeaderLast(w, s) == [NetHeader(w, s) EXCEPT !.logged = s, !.wrote = TRUE]

LogHeader(w, s) ==
    IF w.wrote THEN w ELSE [NetHeader(w, s) EXCEPT !.logged = s, !.wrote = TRUE]
LogWrite(w, b) == NetWrite(IF w.wrote THEN w ELSE LogHeader(w, 200), b)

(* writeStatus below the router's writer, in place of an error of ServeMux. *)
Replaced(w, s) == [LogWrite(LogHeader(w, s), "json") EXCEPT !.replaced = TRUE]

RouteHeader(w, s) ==
    IF w.replaced THEN w
    ELSE IF ~w.pattern /\ s \in {404, 405} THEN Replaced(w, s) ELSE LogHeader(w, s)
RouteWrite(w, b) == IF w.replaced THEN w ELSE LogWrite(w, b)

(* A whole response: a header and, with most statuses, a body. *)
Response(w, s, b) ==
    IF s \in {204, 304} THEN RouteHeader(w, s) ELSE RouteWrite(RouteHeader(w, s), b)

-----------------------------------------------------------------------------
(* Passing and being stopped at a gate *)

At(r, gate) == todo[r] # << >> /\ Head(todo[r]) = gate

Answer(r, s, b) ==
    /\ wire' = [wire EXCEPT ![r] = Response(@, s, b)]
    /\ todo' = [todo EXCEPT ![r] = << >>]

(* A header alone. *)
Bare(r, s) ==
    /\ wire' = [wire EXCEPT ![r] = RouteHeader(@, s)]
    /\ todo' = [todo EXCEPT ![r] = << >>]

Do(r, deeds) == did' = [did EXCEPT ![r] = @ \cup deeds]

Pass(r, deeds) ==
    /\ Do(r, deeds)
    /\ IF Tail(todo[r]) = << >> THEN Answer(r, Success[route[r]], "json")
       ELSE todo' = [todo EXCEPT ![r] = Tail(@)] /\ UNCHANGED wire
    /\ UNCHANGED <<route, token, gone>>

(* writeStatus or writeError, and the return. *)
Stop(r, statuses, deeds) ==
    /\ Do(r, deeds)
    /\ \E s \in statuses : Answer(r, s, "json")
    /\ UNCHANGED <<route, token, sub, gone>>

Usable(t) == t # None /\ t.sub \in accounts /\ t.gen = gen[t.sub]
May(s)    == \E role \in roles[s] : role \in grants

-----------------------------------------------------------------------------
Arrive(r, p) ==
    /\ route[r] = None
    /\ route' = [route EXCEPT ![r] = p]
    /\ todo' = [todo EXCEPT ![r] = Plans[p]]
    /\ \E t \in issued \cup {None} : token' = [token EXCEPT ![r] = t]
    /\ wire' = [wire EXCEPT ![r].pattern = (p # "unknown")]
    /\ UNCHANGED <<tables, sub, gone, did>>

(* ServeMux: no such path, not with this method, or a path to clean, of    *)
(* which only a GET is told in words; and no target but "*".               *)
Mux(r) ==
    /\ At(r, "mux")
    /\ \/ \E s \in {404, 405} : Answer(r, s, "text")
       \/ Answer(r, 307, "html")
       \/ \E s \in {307, 400} : Bare(r, s)
    /\ UNCHANGED <<tables, route, token, sub, gone, did>>

(* FileServerFS, behind a route of its own: a file or a range of it, the   *)
(* redirect to its proper path, a precondition that fails, an error.       *)
File(r) ==
    /\ At(r, "file")
    /\ \/ \E s \in {200, 206, 304, 404, 416, 500} : Answer(r, s, "text")
       \/ \E s \in {301, 412} : Bare(r, s)
    /\ UNCHANGED <<tables, route, token, sub, gone, did>>

(* Root: JSON or the page.  Rendering stops half way only when the client  *)
(* has left; the error response then follows on what was written.          *)
Page(r) ==
    /\ At(r, "page")
    /\ \/ Answer(r, 200, "json") /\ UNCHANGED gone
       \/ Answer(r, 200, "html") /\ UNCHANGED gone
       \/ Answer(r, 500, "json") /\ UNCHANGED gone
       \/ /\ wire' = [wire EXCEPT ![r] = Response(Response(@, 200, "html"), 500, "json")]
          /\ todo' = [todo EXCEPT ![r] = << >>]
          /\ gone' = gone \cup {r}
    /\ UNCHANGED <<tables, route, token, sub, did>>

(* AuthenticateBearer.  Any token may have expired. *)
Bearer(r) ==
    /\ At(r, "bearer")
    /\ \/ /\ Usable(token[r]) /\ Pass(r, {})
          /\ sub' = [sub EXCEPT ![r] = token[r].sub]
       \/ Stop(r, {401, 500}, {})
    /\ UNCHANGED tables

(* As if the roles in the claims decided. *)
PermissionByClaims(r) ==
    /\ At(r, "permission")
    /\ \/ token[r].roles \cap grants # {} /\ Pass(r, {}) /\ UNCHANGED sub
       \/ token[r].roles \cap grants = {} /\ Stop(r, {403}, {})
       \/ Stop(r, {500}, {})
    /\ UNCHANGED tables

(* RequirePermission: AccountHasPermission, one statement. *)
Permission(r) ==
    /\ At(r, "permission")
    /\ \/ May(sub[r]) /\ Pass(r, {}) /\ UNCHANGED sub
       \/ ~May(sub[r]) /\ Stop(r, {403}, {})
       \/ Stop(r, {500}, {})
    /\ UNCHANGED tables

(* decodeBody, and normalizeEmail or the check for a refresh token. *)
Body(r) ==
    /\ At(r, "body")
    /\ \/ Pass(r, {}) /\ UNCHANGED sub
       \/ Stop(r, {400}, {})
    /\ UNCHANGED tables

(* loadAccount, through the cache, which may still have an account that a  *)
(* failed commit deleted; a change to the mailbox it has is refused.       *)
Load(r) ==
    /\ At(r, "load")
    /\ \/ Pass(r, {}) /\ UNCHANGED sub
       \/ route[r] = "change" /\ Stop(r, {400}, {})
       \/ sub[r] \notin accounts /\ Stop(r, {404}, {})
       \/ Stop(r, {500}, {})
    /\ UNCHANGED tables

(* allowOTPRequest: a refusal and a failure may count as well. *)
Budget(r) ==
    /\ At(r, "budget")
    /\ \/ Pass(r, {"budget"}) /\ UNCHANGED sub
       \/ Stop(r, {429}, {"budget"})
       \/ Stop(r, {500}, {}) \/ Stop(r, {500}, {"budget"})
    /\ UNCHANGED tables

(* Upsert...Request; the foreign key refuses an account that is gone. *)
Save(r) ==
    /\ At(r, "save")
    /\ \/ /\ sub[r] # None => sub[r] \in accounts
          /\ \/ Pass(r, {"challenge"}) /\ UNCHANGED sub
             \/ Stop(r, {500}, {"challenge"})
       \/ Stop(r, {500}, {})
    /\ UNCHANGED tables

(* sendOTP *)
Send(r) ==
    /\ At(r, "send")
    /\ \/ Pass(r, {"mail"}) /\ UNCHANGED sub
       \/ Stop(r, {502}, {}) \/ Stop(r, {502}, {"mail"})
    /\ UNCHANGED tables

(* As if the code were consumed before the transaction, not in it. *)
ApplyOutside(r) ==
    /\ At(r, "apply")
    /\ \/ Pass(r, {"challenge", "account"}) /\ UNCHANGED sub
       \/ Stop(r, {401}, {}) \/ Stop(r, {409}, {"challenge"}) \/ Stop(r, {500}, {})
    /\ UNCHANGED tables

(* The transaction of ConfirmEmailChange.  A commit that takes effect may  *)
(* be reported as an error; a refusal rolls back.                          *)
Apply(r) ==
    /\ At(r, "apply")
    /\ \/ /\ sub[r] \in accounts
          /\ \/ Pass(r, {"challenge", "account"}) /\ UNCHANGED sub
             \/ Stop(r, {500}, {"challenge", "account"})
       \/ Stop(r, {401, 409, 500}, {})
    /\ UNCHANGED tables

(* EnsureAccountByEmail and AssignRoleToAccount for account s, committed. *)
Enroll(s) ==
    /\ s \in accounts \/ s = lastSub + 1
    /\ lastSub' = IF s > lastSub THEN s ELSE lastSub
    /\ accounts' = accounts \cup {s}
    /\ roles' = [roles EXCEPT ![s] = @ \cup {Default}]
    /\ UNCHANGED <<gen, grants, issued>>

(* The transaction of VerifyAuthenticationCode. *)
Finalize(r) ==
    /\ At(r, "finalize")
    /\ \/ \E s \in Subs :
            /\ Enroll(s)
            /\ \/ /\ Pass(r, {"challenge", "account"})
                  /\ sub' = [sub EXCEPT ![r] = s]
               \/ Stop(r, {500}, {"challenge", "account"})
       \/ Stop(r, {401, 500}, {}) /\ UNCHANGED tables

(* signSession: a token of the account's generation, with its roles. *)
Sign(s) ==
    /\ issued' = issued \cup {[sub |-> s, gen |-> gen[s], roles |-> roles[s]]}
    /\ UNCHANGED <<lastSub, accounts, gen, roles, grants>>

(* Issue: the account may be gone again. *)
Issue(r) ==
    /\ At(r, "issue")
    /\ \/ /\ sub[r] \in accounts /\ Sign(sub[r])
          /\ Pass(r, {"session"}) /\ UNCHANGED sub
       \/ Stop(r, {500}, {}) /\ UNCHANGED tables
       \/ Stop(r, {500}, {"session"}) /\ UNCHANGED tables

(* Refresh: with a refresh token of some account. *)
Renew(r) ==
    /\ At(r, "renew")
    /\ \/ /\ \E s \in accounts : Sign(s)
          /\ Pass(r, {"session"}) /\ UNCHANGED sub
       \/ Stop(r, {401, 500}, {}) /\ UNCHANGED tables
       \/ Stop(r, {500}, {"session"}) /\ UNCHANGED tables

(* RevokeAll: a new auth id, unless the account is gone. *)
Revoke(r) ==
    /\ At(r, "revoke")
    /\ \/ /\ gen' = [gen EXCEPT ![sub[r]] = IF sub[r] \in accounts THEN @ + 1 ELSE @]
          /\ \/ Pass(r, {"session"}) /\ UNCHANGED sub
             \/ Stop(r, {500}, {"session"})
          /\ UNCHANGED <<lastSub, accounts, roles, grants, issued>>
       \/ Stop(r, {500}, {}) /\ UNCHANGED tables

(* The statement of DeleteAccount; the roles of the account go with it. *)
Remove(r) ==
    /\ At(r, "remove")
    /\ \/ /\ accounts' = accounts \ {sub[r]}
          /\ roles' = [roles EXCEPT ![sub[r]] = {}]
          /\ \/ Pass(r, {"account"}) /\ UNCHANGED sub
             \/ Stop(r, {500}, {"account"})
          /\ UNCHANGED <<lastSub, gen, grants, issued>>
       \/ Stop(r, {500}, {}) /\ UNCHANGED tables

(* An operator changes account_roles or role_permissions. *)
Administer ==
    /\ \/ \E s \in accounts, R \in SUBSET Roles :
            roles' = [roles EXCEPT ![s] = R] /\ UNCHANGED grants
       \/ \E R \in SUBSET Roles : grants' = R /\ UNCHANGED roles
    /\ UNCHANGED <<lastSub, accounts, gen, issued, request>>

(* What holds for a request under way is noted. *)
Note ==
    seen' = [r \in Requests |-> seen[r]
                \cup (IF Usable(token[r])' THEN {"token"} ELSE {})
                \cup (IF (token[r] # None /\ May(token[r].sub))' THEN {"permission"} ELSE {})]

Step(r) ==
    \/ \E p \in Routes : Arrive(r, p)
    \/ Mux(r) \/ File(r) \/ Page(r) \/ Bearer(r) \/ Permission(r) \/ Body(r) \/ Load(r)
    \/ Budget(r) \/ Save(r) \/ Send(r) \/ Apply(r) \/ Finalize(r) \/ Issue(r) \/ Renew(r)
    \/ Revoke(r) \/ Remove(r)

Next == ((\E r \in Requests : Step(r)) \/ Administer) /\ Note

Spec == Init /\ [][Next]_vars

-----------------------------------------------------------------------------
(* Properties. *)

Answered(r) == route[r] # None /\ todo[r] = << >>
Status(r)   == wire[r].sent

(* The statuses that the handlers of a route may send without a body.      *)
Bodiless ==
    [p \in Routes |-> {204, 304} \cup CASE p = "static"  -> {301, 412}
                                        [] p = "unknown" -> {307, 400}
                                        [] OTHER         -> {}]

(* No body where there may be none; or one, for an error of the program or *)
(* the router that of WriteJSONError.                                      *)
OneBody(r) ==
    LET body == wire[r].body
    IN \/ body = << >> /\ Status(r) \in Bodiless[route[r]]
       \/ /\ Len(body) = 1 /\ Status(r) \notin {204, 304}
          /\ (Status(r) >= 400 /\ route[r] # "static") => body = <<"json">>

(* A client that stays gets one response: of the handler that answered, or *)
(* the JSON that replaces an error of ServeMux, whose text does not follow *)
(* it (routing.go:9-10).  The status that RequestLogger logs is the status *)
(* that was sent, even when a second header was attempted.                 *)
OneResponse ==
    \A r \in Requests : Answered(r) =>
        wire[r].logged = Status(r) /\ (r \notin gone => OneBody(r))

(* A protected route changes nothing, not even a budget, unless since the  *)
(* request arrived its token was valid and, for a change of mailbox, its   *)
(* account had the permission; what the token says of roles is no matter.  *)
Needs ==
    [p \in Routes |-> CASE p \in {"change", "confirm"}  -> {"token", "permission"}
                        [] p \in {"account", "delete"} -> {"token"}
                        [] OTHER                       -> {}]

Permitted == \A r \in Requests : did'[r] # did[r] => Needs[route[r]] \subseteq seen[r]

ActsWithPermission == [][Permitted]_vars

(* The answer tells what happened.  A request refused as the client's      *)
(* fault changed nothing but budgets: on a conflict the account stays as   *)
(* it is and the code remains valid (api.yaml:191).  A request that was    *)
(* answered with success did all that it stands for.                       *)
Promised ==
    [p \in Routes |-> CASE p \in {"change", "login"} -> {"budget", "challenge", "mail"}
                        [] p = "confirm"            -> {"budget", "challenge", "account"}
                        [] p = "verify"             -> Deeds \ {"mail"}
                        [] p = "delete"             -> {"session", "account"}
                        [] p = "refresh"            -> {"session"}
                        [] OTHER                    -> {}]

AnswerTells ==
    \A r \in Requests : Answered(r) =>
        /\ Status(r) \in 400 .. 499 => did[r] \subseteq {"budget"}
        /\ Status(r) < 300 => Promised[route[r]] \subseteq did[r]
=============================================================================
