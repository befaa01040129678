---------------------------- MODULE RequestsProofs ----------------------------
(***************************************************************************)
(* Proofs about Requests: the answer a request gets is one response, tells *)
(* what was done, and nothing is done before the request may.              *)
(*                                                                         *)
(* The gate a request stands at determines all of it.  Follows and Final   *)
(* are the plans as a graph of gates; Done(g) is what a request has done   *)
(* when it comes to gate g, whatever its route, and Gain(g) what passing g *)
(* adds.  The inductive invariant says, for a request under way, that it   *)
(* has done exactly Done(g), that nothing is on its wire, and that it was  *)
(* authenticated or permitted if g lies behind those gates; and for one    *)
(* that is answered, the two invariants themselves.                        *)
(***************************************************************************)
EXTENDS Requests, TLAPS

(* What is left of the plan of a route at its gates. *)
Rests ==
    [account |-> {<<"bearer", "load">>, <<"load">>},
     delete  |-> {<<"bearer", "revoke", "remove">>, <<"revoke", "remove">>, <<"remove">>},
     change  |-> {<<"bearer", "permission", "body", "load", "budget", "save", "send">>,
                  <<"permission", "body", "load", "budget", "save", "send">>,
                  <<"body", "load", "budget", "save", "send">>,
                  <<"load", "budget", "save", "send">>, <<"budget", "save", "send">>,
                  <<"save", "send">>, <<"send">>},
     confirm |-> {<<"bearer", "permission", "body", "budget", "apply">>,
                  <<"permission", "body", "budget", "apply">>,
                  <<"body", "budget", "apply">>, <<"budget", "apply">>, <<"apply">>},
     login   |-> {<<"body", "budget", "save", "send">>, <<"budget", "save", "send">>,
                  <<"save", "send">>, <<"send">>},
     verify  |-> {<<"body", "budget", "finalize", "issue">>,
                  <<"budget", "finalize", "issue">>, <<"finalize", "issue">>, <<"issue">>},
     refresh |-> {<<"body", "renew">>, <<"renew">>},
     page    |-> {<<"page">>},
     static  |-> {<<"file">>},
     unknown |-> {<<"mux">>}]

(* On route e[1], the gate after e[2] is e[3]. *)
Follows ==
    {<<"account", "bearer", "load">>, <<"delete", "bearer", "revoke">>,
     <<"delete", "revoke", "remove">>, <<"change", "bearer", "permission">>,
     <<"change", "permission", "body">>, <<"change", "body", "load">>,
     <<"change", "load", "budget">>, <<"change", "budget", "save">>,
     <<"change", "save", "send">>, <<"confirm", "bearer", "permission">>,
     <<"confirm", "permission", "body">>, <<"confirm", "body", "budget">>,
     <<"confirm", "budget", "apply">>, <<"login", "body", "budget">>,
     <<"login", "budget", "save">>, <<"login", "save", "send">>,
     <<"verify", "body", "budget">>, <<"verify", "budget", "finalize">>,
     <<"verify", "finalize", "issue">>, <<"refresh", "body", "renew">>}

(* The last gate of route e[1] is e[2]. *)
Final ==
    {<<"account", "load">>, <<"delete", "remove">>, <<"change", "send">>,
     <<"confirm", "apply">>, <<"login", "send">>, <<"verify", "issue">>,
     <<"refresh", "renew">>, <<"page", "page">>, <<"static", "file">>, <<"unknown", "mux">>}

(* The first gate of route e[1] is e[2]. *)
First ==
    {<<"account", "bearer">>, <<"delete", "bearer">>, <<"change", "bearer">>,
     <<"confirm", "bearer">>, <<"login", "body">>, <<"verify", "body">>,
     <<"refresh", "body">>, <<"page", "page">>, <<"static", "file">>, <<"unknown", "mux">>}

Done(g) ==
    CASE g \in {"save", "apply", "finalize"} -> {"budget"}
      [] g = "send"                          -> {"budget", "challenge"}
      [] g = "issue"                         -> {"budget", "challenge", "account"}
      [] g = "remove"                        -> {"session"}
      [] OTHER                               -> {}

Gain(g) ==
    CASE g = "budget"                       -> {"budget"}
      [] g = "save"                         -> {"challenge"}
      [] g = "send"                         -> {"mail"}
      [] g \in {"apply", "finalize"}        -> {"challenge", "account"}
      [] g \in {"issue", "renew", "revoke"} -> {"session"}
      [] g = "remove"                       -> {"account"}
      [] OTHER                              -> {}

Protected == {"account", "delete", "change", "confirm"}

Waiting(r) == route[r] # None /\ todo[r] # << >>
Gate(r)    == Head(todo[r])

Wires == [pattern : BOOLEAN, replaced : BOOLEAN, wrote : BOOLEAN,
          logged : Nat, sent : Nat, body : Seq({"json", "text", "html"})]

(* The wire before and after the one response. *)
Blank(w, p) ==
    /\ w \in Wires /\ w.pattern = p /\ ~w.replaced /\ ~w.wrote
    /\ w.sent = 0 /\ w.body = << >>

Written(w, s, b) ==
    w \in Wires /\ w.wrote /\ w.logged = s /\ w.sent = s /\ w.body = b

(* A request that has not arrived. *)
IdleOK(r) ==
    route[r] = None =>
        todo[r] = << >> /\ wire[r] = NewWire /\ did[r] = {} /\ token[r] = None

(* A request under way: its plan, its deeds, and a wire still untouched. *)
WayOK(r) ==
    Waiting(r) =>
        /\ todo[r] \in Rests[route[r]]
        /\ did[r] = Done(Gate(r))
        /\ Blank(wire[r], route[r] # "unknown")

(* Behind "bearer", and behind "permission". *)
BearerOK(r) ==
    Waiting(r) /\ route[r] \in Protected /\ Gate(r) # "bearer" =>
        token[r] # None /\ sub[r] = token[r].sub /\ "token" \in seen[r]

PermissionOK(r) ==
    Waiting(r) /\ route[r] \in {"change", "confirm"} /\ Gate(r) \notin {"bearer", "permission"}
        => "permission" \in seen[r]

(* The conjuncts of OneResponse and AnswerTells for one request. *)
ResponseOK(r) ==
    Answered(r) =>
        wire[r].logged = Status(r) /\ (r \notin gone => OneBody(r))

TellsOK(r) ==
    Answered(r) =>
        /\ Status(r) \in 400 .. 499 => did[r] \subseteq {"budget"}
        /\ Status(r) < 300 => Promised[route[r]] \subseteq did[r]

RequestOK(r) ==
    /\ IdleOK(r) /\ WayOK(r) /\ BearerOK(r) /\ PermissionOK(r)
    /\ ResponseOK(r) /\ TellsOK(r)

IInv == TypeOK /\ \A r \in Requests : RequestOK(r)

-----------------------------------------------------------------------------
(* What a step does, as far as the invariant needs it. *)

(* The request is answered. *)
Settles(r) ==
    /\ todo' = [todo EXCEPT ![r] = << >>]
    /\ wire' = [wire EXCEPT ![r] = wire'[r]] /\ wire'[r] \in Wires
    /\ did' = [did EXCEPT ![r] = did'[r]] /\ did'[r] \subseteq Deeds
    /\ gone \subseteq gone' /\ gone' \subseteq gone \cup {r}
    /\ UNCHANGED <<route, token>>
    /\ ResponseOK(r)' /\ TellsOK(r)'

(* The request comes to its next gate. *)
MovesOn(r) ==
    /\ Tail(todo[r]) # << >>
    /\ todo' = [todo EXCEPT ![r] = Tail(@)]
    /\ did' = [did EXCEPT ![r] = @ \cup Gain(Gate(r))]
    /\ UNCHANGED <<route, token, wire, gone>>

(* One of them, and what is certain behind "bearer" and "permission". *)
Goes(r) ==
    /\ Waiting(r)
    /\ \/ Settles(r)
       \/ /\ MovesOn(r)
          /\ Gate(r) = "bearer" => Usable(token[r])' /\ sub'[r] = token[r].sub
          /\ Gate(r) = "permission" => May(sub[r])'
    /\ \E s \in Subs \cup {None} : sub' = [sub EXCEPT ![r] = s]
    /\ route[r] \in Protected /\ Gate(r) # "bearer" => sub' = sub
    /\ Gate(r) \in {"bearer", "permission"} => did' = did

-----------------------------------------------------------------------------
(* The plans as data. *)

RouteNames == {"account", "delete", "change", "confirm", "login", "verify", "refresh",
               "page", "static", "unknown"}

GateNames == {"bearer", "load", "revoke", "remove", "permission", "body", "budget", "save",
              "send", "apply", "finalize", "issue", "renew", "page", "file", "mux"}

(* The routes of registerRoutes, by name. *)
LEMMA RoutesAre == Routes = RouteNames
  BY DEF Routes, Plans, RouteNames

(* Every gate that a handler goes through is a gate of some plan. *)
LEMMA GatesAre == GateNames \subseteq Gates
<1>1. {"bearer", "load"} \subseteq Gates
  <2>1. "account" \in Routes /\ DOMAIN Plans["account"] = 1 .. 2
    BY RoutesAre DEF Plans, RouteNames
  <2>2. Plans["account"][1] = "bearer" /\ Plans["account"][2] = "load"
    BY DEF Plans
  <2> QED BY <2>1, <2>2 DEF Gates
<1>2. {"revoke", "remove"} \subseteq Gates
  <2>1. "delete" \in Routes /\ DOMAIN Plans["delete"] = 1 .. 3
    BY RoutesAre DEF Plans, RouteNames
  <2>2. Plans["delete"][2] = "revoke" /\ Plans["delete"][3] = "remove"
    BY DEF Plans
  <2> QED BY <2>1, <2>2 DEF Gates
<1>3. {"permission", "body", "load", "budget", "save", "send"} \subseteq Gates
  <2>1. "change" \in Routes /\ DOMAIN Plans["change"] = 1 .. 7
    BY RoutesAre DEF Plans, RouteNames
  <2>2. /\ Plans["change"][2] = "permission" /\ Plans["change"][3] = "body"
        /\ Plans["change"][4] = "load" /\ Plans["change"][5] = "budget"
        /\ Plans["change"][6] = "save" /\ Plans["change"][7] = "send"
    BY DEF Plans
  <2> QED BY <2>1, <2>2 DEF Gates
<1>4. {"apply"} \subseteq Gates
  <2>1. "confirm" \in Routes /\ DOMAIN Plans["confirm"] = 1 .. 5
    BY RoutesAre DEF Plans, RouteNames
  <2>2. Plans["confirm"][5] = "apply"
    BY DEF Plans
  <2> QED BY <2>1, <2>2 DEF Gates
<1>5. {"finalize", "issue"} \subseteq Gates
  <2>1. "verify" \in Routes /\ DOMAIN Plans["verify"] = 1 .. 4
    BY RoutesAre DEF Plans, RouteNames
  <2>2. Plans["verify"][3] = "finalize" /\ Plans["verify"][4] = "issue"
    BY DEF Plans
  <2> QED BY <2>1, <2>2 DEF Gates
<1>6. {"renew"} \subseteq Gates
  <2>1. "refresh" \in Routes /\ DOMAIN Plans["refresh"] = 1 .. 2
    BY RoutesAre DEF Plans, RouteNames
  <2>2. Plans["refresh"][2] = "renew"
    BY DEF Plans
  <2> QED BY <2>1, <2>2 DEF Gates
<1>7. {"page"} \subseteq Gates
  <2>1. "page" \in Routes /\ DOMAIN Plans["page"] = 1 .. 1
    BY RoutesAre DEF Plans, RouteNames
  <2>2. Plans["page"][1] = "page"
    BY DEF Plans
  <2> QED BY <2>1, <2>2 DEF Gates
<1>8. {"file"} \subseteq Gates
  <2>1. "static" \in Routes /\ DOMAIN Plans["static"] = 1 .. 1
    BY RoutesAre DEF Plans, RouteNames
  <2>2. Plans["static"][1] = "file"
    BY DEF Plans
  <2> QED BY <2>1, <2>2 DEF Gates
<1>9. {"mux"} \subseteq Gates
  <2>1. "unknown" \in Routes /\ DOMAIN Plans["unknown"] = 1 .. 1
    BY RoutesAre DEF Plans, RouteNames
  <2>2. Plans["unknown"][1] = "mux"
    BY DEF Plans
  <2> QED BY <2>1, <2>2 DEF Gates
<1> QED BY <1>1, <1>2, <1>3, <1>4, <1>5, <1>6, <1>7, <1>8, <1>9 DEF GateNames

(* A request starts at the first gate of its route, with nothing done. *)
LEMMA PlanStarts ==
    ASSUME NEW p \in Routes
    PROVE  /\ Plans[p] \in Rests[p] /\ Plans[p] # << >>
           /\ <<p, Head(Plans[p])>> \in First
  BY RoutesAre DEF Plans, Rests, First, RouteNames

LEMMA FirstFacts ==
    ASSUME NEW p, NEW g, <<p, g>> \in First
    PROVE  Done(g) = {} /\ (p \in Protected => g = "bearer")
  BY DEF First, Done, Protected

(* What is left of a plan is a sequence of gates; passing the first leads  *)
(* to the next one of the plan, or it was the last.                        *)
LEMMA PlanGoesOn ==
    ASSUME NEW p \in Routes, NEW t \in Rests[p]
    PROVE  /\ t \in Seq(Gates) /\ t # << >>
           /\ \/ Tail(t) = << >> /\ <<p, Head(t)>> \in Final
              \/ /\ Tail(t) # << >> /\ Tail(t) \in Rests[p]
                 /\ <<p, Head(t), Head(Tail(t))>> \in Follows
<1> USE GatesAre
<1>1. CASE p = "account"
  <2>0. \/ t = <<"bearer", "load">>
        \/ t = <<"load">>
    BY <1>1 DEF Rests
  <2>1. CASE t = <<"bearer", "load">>
    BY <1>1, <2>1 DEF Rests, Final, Follows, GateNames
  <2>2. CASE t = <<"load">>
    BY <1>1, <2>2 DEF Rests, Final, Follows, GateNames
  <2> QED BY <2>0, <2>1, <2>2
<1>2. CASE p = "delete"
  <2>0. \/ t = <<"bearer", "revoke", "remove">>
        \/ t = <<"revoke", "remove">>
        \/ t = <<"remove">>
    BY <1>2 DEF Rests
  <2>1. CASE t = <<"bearer", "revoke", "remove">>
    BY <1>2, <2>1 DEF Rests, Final, Follows, GateNames
  <2>2. CASE t = <<"revoke", "remove">>
    BY <1>2, <2>2 DEF Rests, Final, Follows, GateNames
  <2>3. CASE t = <<"remove">>
    BY <1>2, <2>3 DEF Rests, Final, Follows, GateNames
  <2> QED BY <2>0, <2>1, <2>2, <2>3
<1>3. CASE p = "change"
  <2>0. \/ t = <<"bearer", "permission", "body", "load", "budget", "save", "send">>
        \/ t = <<"permission", "body", "load", "budget", "save", "send">>
        \/ t = <<"body", "load", "budget", "save", "send">>
        \/ t = <<"load", "budget", "save", "send">>
        \/ t = <<"budget", "save", "send">>
        \/ t = <<"save", "send">>
        \/ t = <<"send">>
    BY <1>3 DEF Rests
  <2>1. CASE t = <<"bearer", "permission", "body", "load", "budget", "save", "send">>
    BY <1>3, <2>1 DEF Rests, Final, Follows, GateNames
  <2>2. CASE t = <<"permission", "body", "load", "budget", "save", "send">>
    BY <1>3, <2>2 DEF Rests, Final, Follows, GateNames
  <2>3. CASE t = <<"body", "load", "budget", "save", "send">>
    BY <1>3, <2>3 DEF Rests, Final, Follows, GateNames
  <2>4. CASE t = <<"load", "budget", "save", "send">>
    BY <1>3, <2>4 DEF Rests, Final, Follows, GateNames
  <2>5. CASE t = <<"budget", "save", "send">>
    BY <1>3, <2>5 DEF Rests, Final, Follows, GateNames
  <2>6. CASE t = <<"save", "send">>
    BY <1>3, <2>6 DEF Rests, Final, Follows, GateNames
  <2>7. CASE t = <<"send">>
    BY <1>3, <2>7 DEF Rests, Final, Follows, GateNames
  <2> QED BY <2>0, <2>1, <2>2, <2>3, <2>4, <2>5, <2>6, <2>7
<1>4. CASE p = "confirm"
  <2>0. \/ t = <<"bearer", "permission", "body", "budget", "apply">>
        \/ t = <<"permission", "body", "budget", "apply">>
        \/ t = <<"body", "budget", "apply">>
        \/ t = <<"budget", "apply">>
        \/ t = <<"apply">>
    BY <1>4 DEF Rests
  <2>1. CASE t = <<"bearer", "permission", "body", "budget", "apply">>
    BY <1>4, <2>1 DEF Rests, Final, Follows, GateNames
  <2>2. CASE t = <<"permission", "body", "budget", "apply">>
    BY <1>4, <2>2 DEF Rests, Final, Follows, GateNames
  <2>3. CASE t = <<"body", "budget", "apply">>
    BY <1>4, <2>3 DEF Rests, Final, Follows, GateNames
  <2>4. CASE t = <<"budget", "apply">>
    BY <1>4, <2>4 DEF Rests, Final, Follows, GateNames
  <2>5. CASE t = <<"apply">>
    BY <1>4, <2>5 DEF Rests, Final, Follows, GateNames
  <2> QED BY <2>0, <2>1, <2>2, <2>3, <2>4, <2>5
<1>5. CASE p = "login"
  <2>0. \/ t = <<"body", "budget", "save", "send">>
        \/ t = <<"budget", "save", "send">>
        \/ t = <<"save", "send">>
        \/ t = <<"send">>
    BY <1>5 DEF Rests
  <2>1. CASE t = <<"body", "budget", "save", "send">>
    BY <1>5, <2>1 DEF Rests, Final, Follows, GateNames
  <2>2. CASE t = <<"budget", "save", "send">>
    BY <1>5, <2>2 DEF Rests, Final, Follows, GateNames
  <2>3. CASE t = <<"save", "send">>
    BY <1>5, <2>3 DEF Rests, Final, Follows, GateNames
  <2>4. CASE t = <<"send">>
    BY <1>5, <2>4 DEF Rests, Final, Follows, GateNames
  <2> QED BY <2>0, <2>1, <2>2, <2>3, <2>4
<1>6. CASE p = "verify"
  <2>0. \/ t = <<"body", "budget", "finalize", "issue">>
        \/ t = <<"budget", "finalize", "issue">>
        \/ t = <<"finalize", "issue">>
        \/ t = <<"issue">>
    BY <1>6 DEF Rests
  <2>1. CASE t = <<"body", "budget", "finalize", "issue">>
    BY <1>6, <2>1 DEF Rests, Final, Follows, GateNames
  <2>2. CASE t = <<"budget", "finalize", "issue">>
    BY <1>6, <2>2 DEF Rests, Final, Follows, GateNames
  <2>3. CASE t = <<"finalize", "issue">>
    BY <1>6, <2>3 DEF Rests, Final, Follows, GateNames
  <2>4. CASE t = <<"issue">>
    BY <1>6, <2>4 DEF Rests, Final, Follows, GateNames
  <2> QED BY <2>0, <2>1, <2>2, <2>3, <2>4
<1>7. CASE p = "refresh"
  <2>0. \/ t = <<"body", "renew">>
        \/ t = <<"renew">>
    BY <1>7 DEF Rests
  <2>1. CASE t = <<"body", "renew">>
    BY <1>7, <2>1 DEF Rests, Final, Follows, GateNames
  <2>2. CASE t = <<"renew">>
    BY <1>7, <2>2 DEF Rests, Final, Follows, GateNames
  <2> QED BY <2>0, <2>1, <2>2
<1>8. CASE p = "page"
  <2>0. t = <<"page">>
    BY <1>8 DEF Rests
  <2>1. CASE t = <<"page">>
    BY <1>8, <2>1 DEF Rests, Final, Follows, GateNames
  <2> QED BY <2>0, <2>1
<1>9. CASE p = "static"
  <2>0. t = <<"file">>
    BY <1>9 DEF Rests
  <2>1. CASE t = <<"file">>
    BY <1>9, <2>1 DEF Rests, Final, Follows, GateNames
  <2> QED BY <2>0, <2>1
<1>10. CASE p = "unknown"
  <2>0. t = <<"mux">>
    BY <1>10 DEF Rests
  <2>1. CASE t = <<"mux">>
    BY <1>10, <2>1 DEF Rests, Final, Follows, GateNames
  <2> QED BY <2>0, <2>1
<1> QED BY <1>1, <1>2, <1>3, <1>4, <1>5, <1>6, <1>7, <1>8, <1>9, <1>10, RoutesAre DEF RouteNames

(* Done is what the gates before have gained, and all of it is what the    *)
(* route promises.                                                         *)
LEMMA FollowsFacts ==
    ASSUME NEW p, NEW g, NEW h, <<p, g, h>> \in Follows
    PROVE  /\ Done(h) = Done(g) \cup Gain(g)
           /\ g \notin {"mux", "file", "page"} /\ h # "bearer"
           /\ p \in {"change", "confirm"} /\ h # "permission" /\ g # "permission"
                  => g \notin {"bearer", "permission"}
           /\ g = "bearer" => p \in Protected
           /\ g = "finalize" => p = "verify"
  BY DEF Follows, Done, Gain, Protected

LEMMA FinalFacts ==
    ASSUME NEW p, NEW g, <<p, g>> \in Final
    PROVE  /\ Promised[p] \subseteq Done(g) \cup Gain(g)
           /\ g = "mux" => p = "unknown"
           /\ g = "file" => p = "static"
           /\ g = "page" => p = "page"
           /\ g \notin {"bearer", "permission", "finalize"}
<1>1. /\ Promised["account"] = {} /\ Promised["page"] = {}
      /\ Promised["static"] = {} /\ Promised["unknown"] = {}
      /\ Promised["change"] = {"budget", "challenge", "mail"}
      /\ Promised["login"] = {"budget", "challenge", "mail"}
      /\ Promised["confirm"] = {"budget", "challenge", "account"}
      /\ Promised["verify"] = {"budget", "challenge", "account", "session"}
      /\ Promised["delete"] = {"session", "account"} /\ Promised["refresh"] = {"session"}
  BY RoutesAre DEF Promised, RouteNames, Deeds
<1> QED BY <1>1 DEF Final, Done, Gain
-----------------------------------------------------------------------------
(* The response writers. *)

LEMMA BlankWire ==
    ASSUME NEW p \in BOOLEAN
    PROVE  NewWire \in Wires /\ Blank([NewWire EXCEPT !.pattern = p], p)
<1>1. /\ NewWire \in Wires /\ ~NewWire.replaced /\ ~NewWire.wrote
      /\ NewWire.sent = 0 /\ NewWire.body = << >>
  BY DEF NewWire, Wires
<1> QED BY <1>1 DEF Wires, Blank

LEMMA LoggedHeader ==
    ASSUME NEW p, NEW w, Blank(w, p), NEW s \in Nat
    PROVE  /\ Written(LogHeader(w, s), s, << >>) /\ ~LogHeader(w, s).replaced
  BY DEF LogHeader, NetHeader, Blank, Written, Wires

LEMMA LoggedWrite ==
    ASSUME NEW s \in Nat \ {0}, NEW w, Written(w, s, << >>),
           NEW b \in {"json", "text", "html"}
    PROVE  /\ Written(LogWrite(w, b), s, <<b>>)
           /\ LogWrite(w, b).replaced = w.replaced
<1>1. w.wrote /\ w.sent # 0
  BY DEF Written
<1>2. LogWrite(w, b) = [w EXCEPT !.body = Append(@, b)]
  BY <1>1 DEF LogWrite, NetWrite, NetHeader
<1>3. w.body = << >> /\ Append(<< >>, b) = <<b>> /\ <<b>> \in Seq({"json", "text", "html"})
  BY DEF Written
<1>4. [w EXCEPT !.body = Append(@, b)] = [w EXCEPT !.body = <<b>>]
  BY <1>3
<1> DEFINE v == [w EXCEPT !.body = <<b>>]
<1>5. v \in Wires /\ v.body = <<b>> /\ v.wrote /\ v.logged = s /\ v.sent = s
      /\ v.replaced = w.replaced
  BY <1>3 DEF Written, Wires
<1> QED BY <1>2, <1>4, <1>5 DEF Written

(* A first response goes out as it is, except that the router's own errors *)
(* become the JSON of WriteJSONError, and nothing follows it.              *)
LEMMA ResponseIs ==
    ASSUME NEW p \in BOOLEAN, NEW w, Blank(w, p), NEW s \in Nat \ {0},
           NEW b \in {"json", "text", "html"}
    PROVE  /\ ~p /\ s \in {404, 405} => Written(Response(w, s, b), s, <<"json">>)
           /\ s \in {204, 304} => Written(Response(w, s, b), s, << >>)
           /\ s \notin {204, 304} /\ (p \/ s \notin {404, 405})
                  => Written(Response(w, s, b), s, <<b>>)
<1> DEFINE v == LogHeader(w, s)
<1>1. ~w.replaced /\ w.pattern = p /\ Written(v, s, << >>) /\ ~v.replaced
  BY LoggedHeader DEF Blank
<1> HIDE DEF v
<1>2. CASE ~p /\ s \in {404, 405}
  <2> DEFINE u == LogWrite(v, "json")
             x == [u EXCEPT !.replaced = TRUE]
  <2>1. Written(u, s, <<"json">>)
    BY <1>1, LoggedWrite
  <2>2. RouteHeader(w, s) = x
    BY <1>1, <1>2 DEF RouteHeader, Replaced, v
  <2> HIDE DEF u
  <2>3. Written(x, s, <<"json">>) /\ x.replaced
    BY <2>1 DEF Written, Wires
  <2>4. RouteWrite(x, b) = x
    BY <2>3 DEF RouteWrite
  <2> QED BY <1>2, <2>2, <2>3, <2>4 DEF Response
<1>3. CASE p \/ s \notin {404, 405}
  <2>1. RouteHeader(w, s) = v
    BY <1>1, <1>3 DEF RouteHeader, v
  <2>2. Written(RouteWrite(v, b), s, <<b>>)
    BY <1>1, LoggedWrite DEF RouteWrite
  <2> QED BY <1>1, <1>3, <2>1, <2>2 DEF Response
<1> QED BY <1>2, <1>3

(* A second header after a body is neither sent nor logged. *)
LEMMA SecondResponse ==
    ASSUME NEW w, Blank(w, TRUE)
    PROVE  Written(Response(Response(w, 200, "html"), 500, "json"), 200,
                   Append(<<"html">>, "json"))
<1> DEFINE h == LogHeader(w, 200)
           v == LogWrite(h, "html")
<1>1. ~w.replaced /\ w.pattern /\ Written(h, 200, << >>) /\ ~h.replaced
  BY LoggedHeader DEF Blank
<1>2. Response(w, 200, "html") = v
  BY <1>1 DEF Response, RouteHeader, RouteWrite
<1>3. Written(v, 200, <<"html">>) /\ ~v.replaced
  BY <1>1, LoggedWrite
<1> HIDE DEF v, h
<1>4. v.wrote /\ v.sent # 0 /\ v.body = <<"html">>
  BY <1>3 DEF Written
<1>5. RouteHeader(v, 500) = v
  BY <1>3, <1>4 DEF RouteHeader, LogHeader
<1>6. RouteWrite(v, "json") = [v EXCEPT !.body = Append(@, "json")]
  BY <1>3, <1>4 DEF RouteWrite, LogWrite, NetWrite, NetHeader
<1>7. Append(v.body, "json") \in Seq({"json", "text", "html"})
  BY <1>3 DEF Written, Wires
<1>8. Written([v EXCEPT !.body = Append(@, "json")], 200, Append(v.body, "json"))
  BY <1>3, <1>7 DEF Written, Wires
<1>9. v.body = <<"html">>
  BY <1>3 DEF Written
<1> QED BY <1>2, <1>5, <1>6, <1>8, <1>9 DEF Response
-----------------------------------------------------------------------------
(* Gates. *)

LEMMA AtGate ==
    ASSUME TypeOK, NEW r \in Requests, RequestOK(r), NEW g, At(r, g)
    PROVE  /\ Waiting(r) /\ Gate(r) = g /\ route[r] \in Routes
           /\ todo[r] \in Rests[route[r]] /\ did[r] = Done(g)
           /\ Blank(wire[r], route[r] # "unknown")
  BY DEF TypeOK, RequestOK, IdleOK, WayOK, At, Waiting, Gate

(* An error has a JSON body, or is one of the router's or a file's. *)
Fits(r, s, b) ==
    b # "json" => \/ s < 400 \/ route[r] = "static"
                  \/ route[r] = "unknown" /\ s \in {404, 405}

(* A refusal changed nothing but budgets, a success did all of the plan. *)
Tells(r, s, D) ==
    /\ s \in 400 .. 499 => Done(Gate(r)) \cup D \subseteq {"budget"}
    /\ s < 300 => Promised[route[r]] \subseteq Done(Gate(r)) \cup D

(* Request r is at a gate, and answers there with s and b, having done D. *)
Ready(r) == TypeOK /\ r \in Requests /\ RequestOK(r) /\ Waiting(r)

Replies(r, s, b, D) ==
    /\ s \in 200 .. 599 /\ b \in {"json", "text", "html"} /\ Fits(r, s, b)
    /\ D \subseteq Deeds /\ Tells(r, s, D)
    /\ Answer(r, s, b) /\ did' = [did EXCEPT ![r] = @ \cup D]
    /\ UNCHANGED <<route, token, gone>>

(* What one header and one body leave on the wire. *)
Leaves(r, s, b, c) ==
    /\ c \in {<< >>, <<"json">>, <<b>>} /\ Written(Response(wire[r], s, b), s, c)
    /\ c = << >> <=> s \in {204, 304}
    /\ s >= 400 /\ route[r] # "static" => c = <<"json">>

LEMMA AnswerIs ==
    ASSUME NEW r, NEW s, NEW b, NEW D, Ready(r), Replies(r, s, b, D)
    PROVE  \E c : Leaves(r, s, b, c)
<1>1. /\ Blank(wire[r], route[r] # "unknown") /\ Fits(r, s, b)
      /\ s \in 200 .. 599 /\ b \in {"json", "text", "html"}
  BY DEF Ready, Replies, RequestOK, WayOK
<1> DEFINE w == Response(wire[r], s, b)
           p == route[r] # "unknown"
<1>2. p \in BOOLEAN /\ s \in Nat \ {0} /\ Blank(wire[r], p)
  BY <1>1
<1>3. /\ ~p /\ s \in {404, 405} => Written(w, s, <<"json">>)
      /\ s \in {204, 304} => Written(w, s, << >>)
      /\ s \notin {204, 304} /\ (p \/ s \notin {404, 405}) => Written(w, s, <<b>>)
  <2> HIDE DEF p
  <2> QED BY <1>1, <1>2, ResponseIs
<1> HIDE DEF w
<1>4. CASE s \in {204, 304}
  <2>1. ~(s >= 400) /\ Written(w, s, << >>)
    BY <1>3, <1>4
  <2>2. Leaves(r, s, b, << >>)
    BY <1>4, <2>1 DEF w, Leaves
  <2> QED BY <2>2
<1>5. CASE s \in {404, 405} /\ ~p
  <2>1. s \notin {204, 304} /\ Written(w, s, <<"json">>)
    BY <1>3, <1>5
  <2>2. <<"json">> # << >>
    OBVIOUS
  <2>3. Leaves(r, s, b, <<"json">>)
    BY <2>1, <2>2 DEF w, Leaves
  <2> QED BY <2>3
<1>6. CASE s \notin {204, 304} /\ (p \/ s \notin {404, 405})
  <2>1. Written(w, s, <<b>>) /\ <<b>> # << >>
    BY <1>3, <1>6
  <2>2. s >= 400 /\ route[r] # "static" => b = "json"
    BY <1>1, <1>6 DEF Fits
  <2>3. Leaves(r, s, b, <<b>>)
    BY <1>6, <2>1, <2>2 DEF w, Leaves
  <2> QED BY <2>3
<1> QED BY <1>4, <1>5, <1>6

(* A handler that answers and is done. *)
LEMMA AnswerSettles ==
    ASSUME NEW r, NEW s, NEW b, NEW D, Ready(r), Replies(r, s, b, D)
    PROVE  Settles(r)
<1> DEFINE w == Response(wire[r], s, b)
<1>0. /\ TypeOK /\ r \in Requests /\ RequestOK(r) /\ Waiting(r)
      /\ D \subseteq Deeds /\ Tells(r, s, D) /\ did' = [did EXCEPT ![r] = @ \cup D]
      /\ UNCHANGED <<route, token, gone>>
  BY DEF Ready, Replies
<1>1. wire' = [wire EXCEPT ![r] = w] /\ todo' = [todo EXCEPT ![r] = << >>]
  BY DEF Replies, Answer
<1>p. PICK c : Leaves(r, s, b, c)
  BY AnswerIs
<1>2. /\ c \in {<< >>, <<"json">>, <<b>>} /\ Written(w, s, c)
      /\ c = << >> <=> s \in {204, 304}
      /\ s >= 400 /\ route[r] # "static" => c = <<"json">>
  BY <1>p DEF Leaves
<1> HIDE DEF w
<1>3. wire'[r] = w /\ w \in Wires /\ w.sent = s /\ w.logged = s /\ w.body = c
  BY <1>0, <1>1, <1>2 DEF TypeOK, Written
<1>4. c # << >> => Len(c) = 1
  <2>1. Len(<<"json">>) = 1 /\ Len(<<b>>) = 1
    OBVIOUS
  <2> QED BY <1>2, <2>1
<1>5. ResponseOK(r)'
  <2>1. route' = route /\ (route[r] # None => route[r] \in Routes)
    BY <1>0 DEF TypeOK
  <2>2. \A p \in Routes : {204, 304} \subseteq Bodiless[p]
    BY DEF Bodiless
  <2> QED BY <1>2, <1>3, <1>4, <2>1, <2>2 DEF ResponseOK, OneBody, Answered, Status
<1>6. did[r] = Done(Gate(r)) /\ did'[r] = did[r] \cup D /\ did'[r] \subseteq Deeds
  BY <1>0 DEF TypeOK, RequestOK, WayOK
<1>7. TellsOK(r)'
  <2>1. Status(r)' = s /\ route' = route
    BY <1>0, <1>3 DEF Status
  <2>2. s \in 400 .. 499 => did'[r] \subseteq {"budget"}
    BY <1>0, <1>6 DEF Tells
  <2>3. s < 300 => Promised[route'[r]] \subseteq did'[r]
    BY <1>0, <1>6, <2>1 DEF Tells
  <2> QED BY <2>1, <2>2, <2>3 DEF TellsOK
<1>8. did' = [did EXCEPT ![r] = did'[r]] /\ wire' = [wire EXCEPT ![r] = wire'[r]]
  BY <1>0, <1>1, <1>3, <1>6
<1> QED BY <1>0, <1>1, <1>3, <1>5, <1>6, <1>7, <1>8 DEF Settles

(* writeStatus and writeError. *)
Refuses(r, g, S, D) ==
    /\ Stop(r, S, D) /\ S \subseteq 400 .. 599 /\ D \subseteq Deeds
    /\ \A s \in S : s < 500 => Done(g) \cup D \subseteq {"budget"}

LEMMA StopSettles ==
    ASSUME NEW r, NEW S, NEW D, Ready(r), Refuses(r, Gate(r), S, D)
    PROVE  Settles(r) /\ sub' = sub /\ did' = [did EXCEPT ![r] = @ \cup D]
<1>1. PICK s \in S : Answer(r, s, "json")
  BY DEF Refuses, Stop
<1>2. did' = [did EXCEPT ![r] = @ \cup D] /\ UNCHANGED <<route, token, sub, gone>>
  BY DEF Refuses, Stop, Do
<1>3. s \in 200 .. 599 /\ Fits(r, s, "json") /\ D \subseteq Deeds
  BY DEF Refuses, Fits
<1>4. Tells(r, s, D)
  BY DEF Refuses, Tells
<1>5. Ready(r) /\ Replies(r, s, "json", D)
  BY <1>1, <1>2, <1>3, <1>4 DEF Ready, Replies
<1>6. Settles(r)
  BY <1>5, AnswerSettles
<1> QED BY <1>2, <1>6

(* The end of a handler, or of one gate of it. *)
LEMMA PassGoes ==
    ASSUME TypeOK, NEW r \in Requests, RequestOK(r), Waiting(r), Pass(r, Gain(Gate(r)))
    PROVE  /\ Settles(r) \/ MovesOn(r)
           /\ did' = [did EXCEPT ![r] = @ \cup Gain(Gate(r))]
<1> DEFINE p == route[r]
           g == Gate(r)
<1>1. did' = [did EXCEPT ![r] = @ \cup Gain(g)] /\ UNCHANGED <<route, token, gone>>
  BY DEF Pass, Do
<1>2. p \in Routes /\ todo[r] \in Rests[p]
  BY DEF TypeOK, RequestOK, WayOK, Waiting
<1>3. CASE Tail(todo[r]) # << >>
  BY <1>1, <1>3 DEF Pass, MovesOn
<1>4. CASE Tail(todo[r]) = << >>
  <2>1. <<p, g>> \in Final
    BY <1>2, <1>4, PlanGoesOn DEF Gate
  <2>2. Promised[p] \subseteq Done(g) \cup Gain(g) /\ Gain(g) \subseteq Deeds
    BY <2>1, FinalFacts DEF Gain, Deeds
  <2>3. Answer(r, Success[p], "json")
    BY <1>4 DEF Pass
  <2>4. Success[p] \in {200, 204}
    BY <1>2 DEF Success
  <2>5. Success[p] \in 200 .. 599 /\ Fits(r, Success[p], "json")
    BY <2>4 DEF Fits
  <2>6. Tells(r, Success[p], Gain(g))
    BY <2>2, <2>4 DEF Tells
  <2> DEFINE s == Success[p]
             D == Gain(g)
  <2> HIDE DEF s, D
  <2>7. /\ did' = [did EXCEPT ![r] = @ \cup D] /\ D \subseteq Deeds /\ Tells(r, s, D)
        /\ s \in 200 .. 599 /\ Fits(r, s, "json") /\ Answer(r, s, "json")
    BY <1>1, <2>2, <2>3, <2>5, <2>6 DEF s, D
  <2>8. Ready(r) /\ Replies(r, s, "json", D)
    BY <1>1, <2>7 DEF Ready, Replies
  <2> QED BY <1>1, <2>8, AnswerSettles
<1> QED BY <1>1, <1>3, <1>4

(* The gates that answer by themselves are the only ones of their routes. *)
LEMMA LoneGate ==
    ASSUME NEW p \in Routes, NEW t \in Rests[p], Head(t) \in {"mux", "file", "page"}
    PROVE  <<p, Head(t)>> \in Final
<1>1. \A h : <<p, Head(t), h>> \notin Follows
  BY FollowsFacts
<1> QED BY <1>1, PlanGoesOn

LEMMA ServeSettles ==
    ASSUME TypeOK, NEW r \in Requests, RequestOK(r), NEW g \in {"mux", "file", "page"}, At(r, g),
           NEW s \in 200 .. 599, NEW b \in {"json", "text", "html"}, Answer(r, s, b),
           g = "mux" => s \in {404, 405} \/ s < 400,
           g = "page" => b = "json" \/ s < 400,
           gone' = gone, UNCHANGED <<route, token, sub, did>>
    PROVE  Goes(r)
<1>1. /\ Waiting(r) /\ Gate(r) = g /\ route[r] \in Routes
      /\ todo[r] \in Rests[route[r]] /\ did[r] = Done(g)
  BY AtGate
<1>2. <<route[r], g>> \in Final
  BY <1>1, LoneGate DEF Gate
<1>3. /\ Promised[route[r]] \subseteq Done(g) \cup Gain(g)
      /\ g = "mux" => route[r] = "unknown"
      /\ g = "file" => route[r] = "static"
  BY <1>2, FinalFacts
<1>4. Done(g) = {} /\ Gain(g) = {}
  BY DEF Done, Gain
<1>5. Fits(r, s, b)
  <2>1. CASE g = "mux"
    BY <1>3, <2>1 DEF Fits
  <2>2. CASE g = "file"
    BY <1>3, <2>2 DEF Fits
  <2>3. CASE g = "page"
    <3>1. b = "json" \/ s < 400
      BY <2>3
    <3> QED BY <3>1 DEF Fits
  <2> QED BY <2>1, <2>2, <2>3
<1>6. Tells(r, s, {})
  BY <1>1, <1>3, <1>4 DEF Tells
<1>7. did' = [did EXCEPT ![r] = @ \cup {}]
  BY DEF TypeOK
<1>8. sub' = [sub EXCEPT ![r] = sub[r]] /\ sub[r] \in Subs \cup {None}
  BY DEF TypeOK
<1>9. Ready(r) /\ Replies(r, s, b, {})
  BY <1>1, <1>5, <1>6, <1>7 DEF Ready, Replies
<1>10. Settles(r)
  BY <1>9, AnswerSettles
<1> QED BY <1>1, <1>8, <1>10 DEF Goes

(* The header alone that ServeMux and FileServerFS send with some statuses. *)
LEMMA BareSettles ==
    ASSUME TypeOK, NEW r \in Requests, RequestOK(r), NEW g \in {"mux", "file"}, At(r, g),
           NEW s, Bare(r, s), s \in IF g = "mux" THEN {307, 400} ELSE {301, 412},
           gone' = gone, UNCHANGED <<route, token, sub, did>>
    PROVE  Goes(r)
<1> DEFINE w == RouteHeader(wire[r], s)
<1>1. /\ Waiting(r) /\ Gate(r) = g /\ route[r] \in Routes
      /\ todo[r] \in Rests[route[r]] /\ did[r] = Done(g)
      /\ Blank(wire[r], route[r] # "unknown")
  BY AtGate
<1>2. <<route[r], g>> \in Final
  BY <1>1, LoneGate DEF Gate
<1>3. /\ g = "mux" => route[r] = "unknown"
      /\ g = "file" => route[r] = "static"
  BY <1>2, FinalFacts
<1>4. did[r] = {} /\ s \in {301, 307, 400, 412}
  BY <1>1 DEF Done
<1>5. Written(w, s, << >>)
  <2>1. s \in Nat /\ s \notin {404, 405} /\ ~wire[r].replaced
    BY <1>1, <1>4 DEF Blank
  <2>2. w = LogHeader(wire[r], s)
    BY <2>1 DEF RouteHeader
  <2> QED BY <1>1, <2>1, <2>2, LoggedHeader
<1>6. wire' = [wire EXCEPT ![r] = w] /\ todo' = [todo EXCEPT ![r] = << >>]
  BY DEF Bare
<1> HIDE DEF w
<1>7. wire'[r] = w /\ w \in Wires /\ w.sent = s /\ w.logged = s /\ w.body = << >>
  BY <1>5, <1>6 DEF TypeOK, Written
<1>8. s \in Bodiless[route[r]]
  BY <1>1, <1>3 DEF Bodiless
<1>9. ResponseOK(r)'
  BY <1>7, <1>8 DEF ResponseOK, OneBody, Status
<1>10. TellsOK(r)'
  BY <1>4, <1>7 DEF TellsOK, Status
<1>11. did' = [did EXCEPT ![r] = did'[r]] /\ did'[r] \subseteq Deeds
  BY DEF TypeOK
<1>12. sub' = [sub EXCEPT ![r] = sub[r]] /\ sub[r] \in Subs \cup {None}
  BY DEF TypeOK
<1>13. Settles(r)
  BY <1>6, <1>7, <1>9, <1>10, <1>11 DEF Settles
<1> QED BY <1>1, <1>11, <1>12, <1>13 DEF Goes

(* A stop at a gate. *)
LEMMA StopGoes ==
    ASSUME TypeOK, NEW r \in Requests, RequestOK(r), NEW g, At(r, g),
           NEW S \in SUBSET (400 .. 599), NEW D \in SUBSET Deeds, Stop(r, S, D),
           \A s \in S : s < 500 => Done(g) \cup D \subseteq {"budget"},
           g \in {"bearer", "permission"} => D = {}
    PROVE  Goes(r)
<1>0. Waiting(r) /\ Gate(r) = g
  BY AtGate
<1>1. Ready(r) /\ Refuses(r, Gate(r), S, D)
  BY <1>0 DEF Ready, Refuses
<1>2. Settles(r) /\ sub' = sub /\ did' = [did EXCEPT ![r] = @ \cup D]
  BY <1>1, StopSettles
<1>3. sub' = [sub EXCEPT ![r] = sub[r]] /\ sub[r] \in Subs \cup {None}
  BY <1>2 DEF TypeOK
<1>4. D = {} => did' = did
  BY <1>2 DEF TypeOK
<1>5. Gate(r) \in {"bearer", "permission"} => did' = did
  BY <1>0, <1>4
<1> QED BY <1>0, <1>2, <1>3, <1>5 DEF Goes

(* A gate that is passed and keeps the account of the request. *)
LEMMA KeepGoes ==
    ASSUME TypeOK, NEW r \in Requests, RequestOK(r), NEW g, At(r, g), Pass(r, Gain(g)),
           sub' = sub, g # "bearer", g = "permission" => May(sub[r])'
    PROVE  Goes(r)
<1>1. Waiting(r) /\ Gate(r) = g
  BY AtGate
<1>2. (Settles(r) \/ MovesOn(r)) /\ did' = [did EXCEPT ![r] = @ \cup Gain(g)]
  BY <1>1, PassGoes
<1>3. sub' = [sub EXCEPT ![r] = sub[r]] /\ sub[r] \in Subs \cup {None}
  BY DEF TypeOK
<1>4. g = "permission" => did' = did
  BY <1>2 DEF TypeOK, Gain
<1>5. CASE Settles(r)
  BY <1>1, <1>3, <1>4, <1>5 DEF Goes
<1>6. CASE MovesOn(r)
  BY <1>1, <1>3, <1>4, <1>6 DEF Goes
<1> QED BY <1>2, <1>5, <1>6

(* AuthenticateBearer and RequirePermission. *)
LEMMA BearerGoes ==
    ASSUME TypeOK, NEW r \in Requests, RequestOK(r), Bearer(r) PROVE Goes(r)
<1>1. At(r, "bearer") /\ UNCHANGED tables /\ Done("bearer") = {} /\ Gain("bearer") = {}
  BY DEF Bearer, Done, Gain
<1>2. Waiting(r) /\ Gate(r) = "bearer"
  BY <1>1, AtGate
<1>3. CASE Stop(r, {401, 500}, {})
  BY <1>1, <1>3, StopGoes
<1>4. CASE /\ Usable(token[r]) /\ Pass(r, {})
           /\ sub' = [sub EXCEPT ![r] = token[r].sub]
  <2>1. (Settles(r) \/ MovesOn(r)) /\ did' = [did EXCEPT ![r] = @ \cup {}]
    BY <1>1, <1>2, <1>4, PassGoes
  <2>2. did' = did
    BY <2>1 DEF TypeOK
  <2>3. token' = token
    BY <1>4 DEF Pass
  <2>4. token[r].sub \in Subs /\ sub'[r] = token[r].sub
    BY <1>4 DEF TypeOK, Usable, Token
  <2>5. Usable(token[r])'
    BY <1>1, <1>4, <2>3 DEF Usable, tables
  <2> QED BY <1>2, <1>4, <2>1, <2>2, <2>4, <2>5 DEF Goes
<1> QED BY <1>3, <1>4 DEF Bearer

LEMMA PermissionGoes ==
    ASSUME TypeOK, NEW r \in Requests, RequestOK(r), Permission(r) PROVE Goes(r)
<1>1. At(r, "permission") /\ UNCHANGED tables
      /\ Done("permission") = {} /\ Gain("permission") = {}
  BY DEF Permission, Done, Gain
<1>2. CASE Stop(r, {403}, {})
  BY <1>1, <1>2, StopGoes
<1>3. CASE Stop(r, {500}, {})
  BY <1>1, <1>3, StopGoes
<1>4. CASE May(sub[r]) /\ Pass(r, {}) /\ UNCHANGED sub
  <2>1. May(sub[r])'
    BY <1>1, <1>4 DEF May, tables
  <2> QED BY <1>1, <1>4, <2>1, KeepGoes
<1> QED BY <1>2, <1>3, <1>4 DEF Permission

(* The account comes into being in the transaction of the verification. *)
LEMMA FinalizeGoes ==
    ASSUME TypeOK, NEW r \in Requests, RequestOK(r), Finalize(r) PROVE Goes(r)
<1>1. /\ At(r, "finalize") /\ Done("finalize") = {"budget"}
      /\ Gain("finalize") = {"challenge", "account"} /\ Gain("finalize") \subseteq Deeds
  BY DEF Finalize, Done, Gain, Deeds
<1>2. Waiting(r) /\ Gate(r) = "finalize" /\ route[r] \in Routes /\ todo[r] \in Rests[route[r]]
  BY <1>1, AtGate
<1>3. CASE Stop(r, {401, 500}, {})
  BY <1>1, <1>3, StopGoes
<1>4. CASE Stop(r, {500}, {"challenge", "account"})
  BY <1>1, <1>4, StopGoes
<1>5. ASSUME NEW s \in Subs, Pass(r, {"challenge", "account"}), sub' = [sub EXCEPT ![r] = s]
      PROVE  Goes(r)
  <2>1. Settles(r) \/ MovesOn(r)
    BY <1>1, <1>2, <1>5, PassGoes
  <2>2. route[r] \notin Protected
    <3>1. route[r] = "verify"
      BY <1>2, PlanGoesOn, FollowsFacts, FinalFacts DEF Gate
    <3> QED BY <3>1 DEF Protected
  <2> QED BY <1>2, <1>5, <2>1, <2>2 DEF Goes
<1> QED BY <1>3, <1>4, <1>5 DEF Finalize

(* Every other gate keeps the account of the request. *)
LEMMA GateGoes ==
    ASSUME TypeOK, NEW r \in Requests, RequestOK(r),
           \/ Mux(r) \/ File(r) \/ Page(r) \/ Body(r) \/ Load(r) \/ Budget(r) \/ Save(r)
           \/ Send(r) \/ Apply(r) \/ Issue(r) \/ Renew(r) \/ Revoke(r) \/ Remove(r)
    PROVE  Goes(r)
<1>1. CASE Mux(r)
  <2>1. /\ At(r, "mux") /\ gone' = gone /\ UNCHANGED <<route, token, sub, did>>
        /\ \/ \E s \in {404, 405} : Answer(r, s, "text")
           \/ Answer(r, 307, "html")
           \/ \E s \in {307, 400} : Bare(r, s)
    BY <1>1 DEF Mux
  <2>2. ASSUME NEW s \in {404, 405}, Answer(r, s, "text") PROVE Goes(r)
    <3>1. s \in 200 .. 599
      OBVIOUS
    <3> QED BY <2>1, <2>2, <3>1, ServeSettles
  <2>3. CASE Answer(r, 307, "html")
    BY <2>1, <2>3, ServeSettles
  <2>4. ASSUME NEW s \in {307, 400}, Bare(r, s) PROVE Goes(r)
    BY <2>1, <2>4, BareSettles
  <2> QED BY <2>1, <2>2, <2>3, <2>4
<1>2. CASE File(r)
  <2>1. /\ At(r, "file") /\ gone' = gone /\ UNCHANGED <<route, token, sub, did>>
        /\ \/ \E s \in {200, 206, 304, 404, 416, 500} : Answer(r, s, "text")
           \/ \E s \in {301, 412} : Bare(r, s)
    BY <1>2 DEF File
  <2>2. ASSUME NEW s \in {200, 206, 304, 404, 416, 500}, Answer(r, s, "text") PROVE Goes(r)
    <3>1. s \in 200 .. 599
      OBVIOUS
    <3> QED BY <2>1, <2>2, <3>1, ServeSettles
  <2>3. ASSUME NEW s \in {301, 412}, Bare(r, s) PROVE Goes(r)
    BY <2>1, <2>3, BareSettles
  <2> QED BY <2>1, <2>2, <2>3
<1>3. CASE Page(r)
  <2>1. At(r, "page") /\ UNCHANGED <<route, token, sub, did>>
    BY <1>3 DEF Page
  <2>2. CASE Answer(r, 200, "json") /\ UNCHANGED gone
    BY <2>1, <2>2, ServeSettles
  <2>3. CASE Answer(r, 200, "html") /\ UNCHANGED gone
    BY <2>1, <2>3, ServeSettles
  <2>4. CASE Answer(r, 500, "json") /\ UNCHANGED gone
    BY <2>1, <2>4, ServeSettles
  <2>5. CASE /\ wire' = [wire EXCEPT ![r] = Response(Response(@, 200, "html"), 500, "json")]
             /\ todo' = [todo EXCEPT ![r] = << >>]
             /\ gone' = gone \cup {r}
    <3>1. /\ Waiting(r) /\ Gate(r) = "page" /\ route[r] \in Routes
          /\ todo[r] \in Rests[route[r]] /\ did[r] = Done("page")
          /\ Blank(wire[r], route[r] # "unknown")
      BY <2>1, AtGate
    <3>2. <<route[r], "page">> \in Final
      BY <3>1, LoneGate DEF Gate
    <3>3. route[r] = "page" /\ Promised[route[r]] \subseteq Done("page") \cup Gain("page")
      BY <3>2, FinalFacts
    <3>4. Done("page") = {} /\ Gain("page") = {}
      BY DEF Done, Gain
    <3> DEFINE w == Response(Response(wire[r], 200, "html"), 500, "json")
    <3>5. Written(w, 200, Append(<<"html">>, "json"))
      <4>1. Blank(wire[r], TRUE)
        BY <3>1, <3>3
      <4> QED BY <4>1, SecondResponse
    <3>6. wire' = [wire EXCEPT ![r] = w]
      BY <2>5
    <3> HIDE DEF w
    <3>7. wire'[r] = w /\ w \in Wires /\ w.sent = 200 /\ w.logged = 200
      BY <3>5, <3>6 DEF TypeOK, Written
    <3>8. ResponseOK(r)'
      BY <2>5, <3>7 DEF ResponseOK, Status
    <3>9. TellsOK(r)'
      <4>1. Promised[route'[r]] = {} /\ Status(r)' = 200
        BY <2>1, <3>3, <3>4, <3>7 DEF Status
      <4> QED BY <4>1 DEF TellsOK
    <3>10. /\ did' = [did EXCEPT ![r] = did'[r]] /\ did'[r] \subseteq Deeds
           /\ sub' = [sub EXCEPT ![r] = sub[r]] /\ sub[r] \in Subs \cup {None}
      BY <2>1 DEF TypeOK
    <3>11. Settles(r)
      BY <2>1, <2>5, <3>6, <3>7, <3>8, <3>9, <3>10 DEF Settles
    <3> QED BY <2>1, <3>1, <3>10, <3>11 DEF Goes
  <2> QED BY <1>3, <2>2, <2>3, <2>4, <2>5 DEF Page
<1>4. CASE Body(r)
  <2>1. /\ At(r, "body") /\ Done("body") = {}
        /\ Gain("body") = {} /\ Gain("body") \subseteq Deeds
    BY <1>4 DEF Body, Done, Gain, Deeds
  <2>2. CASE Pass(r, {}) /\ UNCHANGED sub
    BY <2>1, <2>2, KeepGoes
  <2>3. CASE Stop(r, {400}, {})
    BY <2>1, <2>3, StopGoes
  <2> QED BY <1>4, <2>2, <2>3 DEF Body
<1>5. CASE Load(r)
  <2>1. /\ At(r, "load") /\ Done("load") = {}
        /\ Gain("load") = {} /\ Gain("load") \subseteq Deeds
    BY <1>5 DEF Load, Done, Gain, Deeds
  <2>2. CASE Pass(r, {}) /\ UNCHANGED sub
    BY <2>1, <2>2, KeepGoes
  <2>3. CASE Stop(r, {400}, {})
    BY <2>1, <2>3, StopGoes
  <2>4. CASE Stop(r, {404}, {})
    BY <2>1, <2>4, StopGoes
  <2>5. CASE Stop(r, {500}, {})
    BY <2>1, <2>5, StopGoes
  <2> QED BY <1>5, <2>2, <2>3, <2>4, <2>5 DEF Load
<1>6. CASE Budget(r)
  <2>1. /\ At(r, "budget") /\ Done("budget") = {}
        /\ Gain("budget") = {"budget"} /\ Gain("budget") \subseteq Deeds
    BY <1>6 DEF Budget, Done, Gain, Deeds
  <2>2. CASE Pass(r, {"budget"}) /\ UNCHANGED sub
    BY <2>1, <2>2, KeepGoes
  <2>3. CASE Stop(r, {429}, {"budget"})
    BY <2>1, <2>3, StopGoes
  <2>4. CASE Stop(r, {500}, {})
    BY <2>1, <2>4, StopGoes
  <2>5. CASE Stop(r, {500}, {"budget"})
    BY <2>1, <2>5, StopGoes
  <2> QED BY <1>6, <2>2, <2>3, <2>4, <2>5 DEF Budget
<1>7. CASE Save(r)
  <2>1. /\ At(r, "save") /\ Done("save") = {"budget"}
        /\ Gain("save") = {"challenge"} /\ Gain("save") \subseteq Deeds
    BY <1>7 DEF Save, Done, Gain, Deeds
  <2>2. CASE Pass(r, {"challenge"}) /\ UNCHANGED sub
    BY <2>1, <2>2, KeepGoes
  <2>3. CASE Stop(r, {500}, {"challenge"})
    BY <2>1, <2>3, StopGoes
  <2>4. CASE Stop(r, {500}, {})
    BY <2>1, <2>4, StopGoes
  <2> QED BY <1>7, <2>2, <2>3, <2>4 DEF Save
<1>8. CASE Send(r)
  <2>1. /\ At(r, "send") /\ Done("send") = {"budget", "challenge"}
        /\ Gain("send") = {"mail"} /\ Gain("send") \subseteq Deeds
    BY <1>8 DEF Send, Done, Gain, Deeds
  <2>2. CASE Pass(r, {"mail"}) /\ UNCHANGED sub
    BY <2>1, <2>2, KeepGoes
  <2>3. CASE Stop(r, {502}, {})
    BY <2>1, <2>3, StopGoes
  <2>4. CASE Stop(r, {502}, {"mail"})
    BY <2>1, <2>4, StopGoes
  <2> QED BY <1>8, <2>2, <2>3, <2>4 DEF Send
<1>9. CASE Apply(r)
  <2>1. /\ At(r, "apply") /\ Done("apply") = {"budget"}
        /\ Gain("apply") = {"challenge", "account"} /\ Gain("apply") \subseteq Deeds
    BY <1>9 DEF Apply, Done, Gain, Deeds
  <2>2. CASE Pass(r, {"challenge", "account"}) /\ UNCHANGED sub
    BY <2>1, <2>2, KeepGoes
  <2>3. CASE Stop(r, {500}, {"challenge", "account"})
    BY <2>1, <2>3, StopGoes
  <2>4. CASE Stop(r, {401, 409, 500}, {})
    BY <2>1, <2>4, StopGoes
  <2> QED BY <1>9, <2>2, <2>3, <2>4 DEF Apply
<1>10. CASE Issue(r)
  <2>1. /\ At(r, "issue") /\ Done("issue") = {"budget", "challenge", "account"}
        /\ Gain("issue") = {"session"} /\ Gain("issue") \subseteq Deeds
    BY <1>10 DEF Issue, Done, Gain, Deeds
  <2>2. CASE Pass(r, {"session"}) /\ UNCHANGED sub
    BY <2>1, <2>2, KeepGoes
  <2>3. CASE Stop(r, {500}, {})
    BY <2>1, <2>3, StopGoes
  <2>4. CASE Stop(r, {500}, {"session"})
    BY <2>1, <2>4, StopGoes
  <2> QED BY <1>10, <2>2, <2>3, <2>4 DEF Issue
<1>11. CASE Renew(r)
  <2>1. /\ At(r, "renew") /\ Done("renew") = {}
        /\ Gain("renew") = {"session"} /\ Gain("renew") \subseteq Deeds
    BY <1>11 DEF Renew, Done, Gain, Deeds
  <2>2. CASE Pass(r, {"session"}) /\ UNCHANGED sub
    BY <2>1, <2>2, KeepGoes
  <2>3. CASE Stop(r, {401, 500}, {})
    BY <2>1, <2>3, StopGoes
  <2>4. CASE Stop(r, {500}, {"session"})
    BY <2>1, <2>4, StopGoes
  <2> QED BY <1>11, <2>2, <2>3, <2>4 DEF Renew
<1>12. CASE Revoke(r)
  <2>1. /\ At(r, "revoke") /\ Done("revoke") = {}
        /\ Gain("revoke") = {"session"} /\ Gain("revoke") \subseteq Deeds
    BY <1>12 DEF Revoke, Done, Gain, Deeds
  <2>2. CASE Pass(r, {"session"}) /\ UNCHANGED sub
    BY <2>1, <2>2, KeepGoes
  <2>3. CASE Stop(r, {500}, {"session"})
    BY <2>1, <2>3, StopGoes
  <2>4. CASE Stop(r, {500}, {})
    BY <2>1, <2>4, StopGoes
  <2> QED BY <1>12, <2>2, <2>3, <2>4 DEF Revoke
<1>13. CASE Remove(r)
  <2>1. /\ At(r, "remove") /\ Done("remove") = {"session"}
        /\ Gain("remove") = {"account"} /\ Gain("remove") \subseteq Deeds
    BY <1>13 DEF Remove, Done, Gain, Deeds
  <2>2. CASE Pass(r, {"account"}) /\ UNCHANGED sub
    BY <2>1, <2>2, KeepGoes
  <2>3. CASE Stop(r, {500}, {"account"})
    BY <2>1, <2>3, StopGoes
  <2>4. CASE Stop(r, {500}, {})
    BY <2>1, <2>4, StopGoes
  <2> QED BY <1>13, <2>2, <2>3, <2>4 DEF Remove
<1> QED BY <1>1, <1>2, <1>3, <1>4, <1>5, <1>6, <1>7, <1>8, <1>9, <1>10, <1>11, <1>12, <1>13

(* Every step of a request is its arrival or a step at the gate it is at. *)
LEMMA StepGoes ==
    ASSUME TypeOK, NEW r \in Requests, RequestOK(r), Step(r)
    PROVE  (\E p \in Routes : Arrive(r, p)) \/ Goes(r)
  BY BearerGoes, PermissionGoes, FinalizeGoes, GateGoes DEF Step

-----------------------------------------------------------------------------
(* Types. *)

TablesOK ==
    /\ lastSub \in Nat /\ accounts \subseteq Subs
    /\ gen \in [Subs -> Nat] /\ roles \in [Subs -> SUBSET Roles]
    /\ grants \subseteq Roles /\ issued \subseteq Token
    /\ \A s \in Subs \ accounts : roles[s] = {}

RequestsTyped ==
    /\ route \in [Requests -> Routes \cup {None}]
    /\ todo \in [Requests -> Seq(Gates)]
    /\ token \in [Requests -> Token \cup {None}] /\ sub \in [Requests -> Subs \cup {None}]
    /\ wire \in [Requests -> Wires]
    /\ gone \subseteq Requests
    /\ did \in [Requests -> SUBSET Deeds]

SeenTyped == seen \in [Requests -> SUBSET {"token", "permission"}]

LEMMA TypeParts ==
    /\ TypeOK <=> TablesOK /\ RequestsTyped /\ SeenTyped
    /\ TypeOK' <=> TablesOK' /\ RequestsTyped' /\ SeenTyped'
  BY DEF TypeOK, TablesOK, RequestsTyped, SeenTyped, Wires

(* The statements on the tables. *)
LEMMA TablesStep ==
    ASSUME TypeOK, Administer \/ \E r \in Requests : Step(r)
    PROVE  TablesOK'
<1>1. TablesOK
  BY TypeParts
<1>2. CASE UNCHANGED tables
  BY <1>1, <1>2 DEF TablesOK, tables
<1>3. ASSUME NEW s \in Subs, Sign(s) PROVE TablesOK'
  <2>1. [sub |-> s, gen |-> gen[s], roles |-> roles[s]] \in Token
    BY <1>1 DEF TablesOK, Token
  <2> QED BY <1>1, <1>3, <2>1 DEF Sign, TablesOK
<1>4. ASSUME NEW s \in Subs, Enroll(s) PROVE TablesOK'
  <2>1. s \in Nat /\ lastSub' \in Nat
    BY <1>1, <1>4, SubsAssumption DEF Enroll, TablesOK
  <2>2. roles' \in [Subs -> SUBSET Roles] /\ \A u \in Subs \ {s} : roles'[u] = roles[u]
    BY <1>1, <1>4, RolesAssumption DEF Enroll, TablesOK
  <2> QED BY <1>1, <1>4, <2>1, <2>2 DEF Enroll, TablesOK
<1>5. CASE Administer
  BY <1>1, <1>5 DEF Administer, TablesOK
<1>6. ASSUME NEW r \in Requests, Step(r) PROVE TablesOK'
  <2>1. CASE (\E p \in Routes : Arrive(r, p)) \/ Mux(r) \/ File(r) \/ Page(r) \/ Bearer(r)
    BY <1>2, <2>1 DEF Arrive, Mux, File, Page, Bearer
  <2>2. CASE Permission(r) \/ Body(r) \/ Load(r) \/ Budget(r) \/ Save(r) \/ Send(r) \/ Apply(r)
    BY <1>2, <2>2 DEF Permission, Body, Load, Budget, Save, Send, Apply
  <2>3. CASE Finalize(r)
    BY <1>2, <1>4, <2>3 DEF Finalize
  <2>4. CASE Issue(r)
    BY <1>1, <1>2, <1>3, <2>4 DEF Issue, TablesOK
  <2>5. CASE Renew(r)
    BY <1>1, <1>2, <1>3, <2>5 DEF Renew, TablesOK
  <2>6. CASE Revoke(r)
    <3>1. CASE /\ gen' = [gen EXCEPT ![sub[r]] = IF sub[r] \in accounts THEN @ + 1 ELSE @]
               /\ UNCHANGED <<lastSub, accounts, roles, grants, issued>>
      <4>1. gen' \in [Subs -> Nat]
        <5>1. \A n \in Nat : n + 1 \in Nat
          OBVIOUS
        <5>2. \A s \in Subs : gen[s] \in Nat
          BY <1>1 DEF TablesOK
        <5> QED BY <1>1, <3>1, <5>1, <5>2 DEF TablesOK
      <4> QED BY <1>1, <3>1, <4>1 DEF TablesOK
    <3> QED BY <1>2, <2>6, <3>1 DEF Revoke
  <2>7. CASE Remove(r)
    <3>1. CASE /\ accounts' = accounts \ {sub[r]} /\ roles' = [roles EXCEPT ![sub[r]] = {}]
               /\ UNCHANGED <<lastSub, gen, grants, issued>>
      BY <1>1, <3>1 DEF TablesOK
    <3> QED BY <1>2, <2>7, <3>1 DEF Remove
  <2> QED BY <1>6, <2>1, <2>2, <2>3, <2>4, <2>5, <2>6, <2>7 DEF Step
<1> QED BY <1>5, <1>6

(* What Note notes. *)
LEMMA NoteStep ==
    ASSUME SeenTyped, Note
    PROVE  /\ SeenTyped'
           /\ \A q \in Requests :
                /\ seen[q] \subseteq seen'[q]
                /\ Usable(token[q])' => "token" \in seen'[q]
                /\ (token[q] # None /\ May(token[q].sub))' => "permission" \in seen'[q]
  BY DEF Note, SeenTyped

-----------------------------------------------------------------------------
(* The invariant is kept. *)

(* A request that does not step. *)
LEMMA FrameOK ==
    ASSUME NEW q, RequestOK(q), seen[q] \subseteq seen'[q],
           route'[q] = route[q], todo'[q] = todo[q], token'[q] = token[q], sub'[q] = sub[q],
           wire'[q] = wire[q], did'[q] = did[q], q \in gone => q \in gone'
    PROVE  RequestOK(q)'
<1>1. IdleOK(q)' /\ WayOK(q)'
  BY DEF RequestOK, IdleOK, WayOK, Waiting, Gate
<1>2. BearerOK(q)' /\ PermissionOK(q)'
  BY DEF RequestOK, BearerOK, PermissionOK, Waiting, Gate
<1>3. ResponseOK(q)' /\ TellsOK(q)'
  BY DEF RequestOK, ResponseOK, OneBody, TellsOK, Answered, Status
<1> QED BY <1>1, <1>2, <1>3 DEF RequestOK

LEMMA ArriveStep ==
    ASSUME TypeOK, \A q \in Requests : RequestOK(q), NEW r \in Requests, NEW p \in Routes,
           Arrive(r, p), Note
    PROVE  RequestsTyped' /\ \A q \in Requests : RequestOK(q)'
<1>1. RequestsTyped /\ SeenTyped /\ IdleOK(r) /\ route[r] = None
  BY TypeParts DEF RequestOK, Arrive
<1>2. wire[r] = NewWire /\ did[r] = {} /\ p # None
  BY <1>1, NoneAssumption DEF IdleOK
<1>3. /\ Plans[p] \in Rests[p] /\ Plans[p] # << >> /\ Plans[p] \in Seq(Gates)
      /\ <<p, Head(Plans[p])>> \in First
  BY PlanStarts, PlanGoesOn
<1>4. Done(Head(Plans[p])) = {} /\ (p \in Protected => Head(Plans[p]) = "bearer")
  BY <1>3, FirstFacts
<1>5. PICK t \in Token \cup {None} : token' = [token EXCEPT ![r] = t]
  BY DEF Arrive, TypeOK
<1> DEFINE b == p # "unknown"
           w == [NewWire EXCEPT !.pattern = b]
<1>6. b \in BOOLEAN /\ w \in Wires /\ Blank(w, b)
  <2>1. b \in BOOLEAN
    OBVIOUS
  <2> HIDE DEF b
  <2>2. Blank(w, b)
    BY <2>1, BlankWire
  <2> QED BY <2>1, <2>2 DEF Blank
<1>7. wire' = [wire EXCEPT ![r] = w]
  BY <1>2 DEF Arrive
<1> HIDE DEF w
<1>8. /\ route' = [route EXCEPT ![r] = p] /\ todo' = [todo EXCEPT ![r] = Plans[p]]
      /\ UNCHANGED <<sub, gone, did>>
  BY DEF Arrive
<1>9. RequestsTyped'
  BY <1>1, <1>3, <1>5, <1>6, <1>7, <1>8 DEF RequestsTyped
<1>10. ASSUME NEW q \in Requests \ {r} PROVE RequestOK(q)'
  <2>1. /\ route'[q] = route[q] /\ todo'[q] = todo[q] /\ token'[q] = token[q]
        /\ sub'[q] = sub[q] /\ wire'[q] = wire[q] /\ did'[q] = did[q]
    BY <1>1, <1>5, <1>7, <1>8 DEF RequestsTyped
  <2>2. seen[q] \subseteq seen'[q]
    BY <1>1, NoteStep
  <2> QED BY <1>8, <2>1, <2>2, FrameOK
<1>11. RequestOK(r)'
  <2>1. /\ route'[r] = p /\ todo'[r] = Plans[p] /\ wire'[r] = w /\ did'[r] = {}
    BY <1>1, <1>2, <1>7, <1>8 DEF RequestsTyped
  <2>2. Gate(r)' = Head(Plans[p])
    BY <2>1 DEF Gate
  <2>3. IdleOK(r)' /\ WayOK(r)'
    BY <1>2, <1>3, <1>4, <1>6, <2>1, <2>2 DEF IdleOK, WayOK
  <2>4. BearerOK(r)' /\ PermissionOK(r)'
    BY <1>4, <2>1, <2>2 DEF BearerOK, PermissionOK, Protected
  <2>5. ~Answered(r)'
    BY <1>3, <2>1 DEF Answered
  <2> QED BY <2>3, <2>4, <2>5 DEF RequestOK, ResponseOK, TellsOK
<1> QED BY <1>9, <1>10, <1>11

LEMMA GoesStep ==
    ASSUME TypeOK, \A q \in Requests : RequestOK(q), NEW r \in Requests, Goes(r), Note
    PROVE  RequestsTyped' /\ \A q \in Requests : RequestOK(q)'
<1>1. RequestsTyped /\ SeenTyped /\ RequestOK(r) /\ Waiting(r)
  BY TypeParts DEF Goes
<1> DEFINE p == route[r]
           g == Gate(r)
<1>2. /\ p \in Routes /\ todo[r] \in Rests[p] /\ todo[r] # << >> /\ did[r] = Done(g)
      /\ Blank(wire[r], p # "unknown")
  BY <1>1 DEF RequestsTyped, RequestOK, WayOK, Waiting
<1>3. PICK s \in Subs \cup {None} : sub' = [sub EXCEPT ![r] = s]
  BY DEF Goes
<1>4. CASE Settles(r)
  <2>1. RequestsTyped'
    <3>1. todo' \in [Requests -> Seq(Gates)] /\ gone' \subseteq Requests
      BY <1>1, <1>4 DEF Settles, RequestsTyped
    <3>2. PICK w \in Wires, d \in SUBSET Deeds :
              wire' = [wire EXCEPT ![r] = w] /\ did' = [did EXCEPT ![r] = d]
      BY <1>4 DEF Settles
    <3>3. /\ wire' \in [Requests -> Wires] /\ did' \in [Requests -> SUBSET Deeds]
          /\ sub' \in [Requests -> Subs \cup {None}]
      BY <1>1, <1>3, <3>2 DEF RequestsTyped
    <3> QED BY <1>1, <1>4, <3>1, <3>3 DEF Settles, RequestsTyped
  <2>2. ASSUME NEW q \in Requests \ {r} PROVE RequestOK(q)'
    <3>1. /\ route'[q] = route[q] /\ todo'[q] = todo[q] /\ token'[q] = token[q]
          /\ sub'[q] = sub[q] /\ wire'[q] = wire[q] /\ did'[q] = did[q]
          /\ q \in gone => q \in gone'
      BY <1>1, <1>3, <1>4 DEF Settles, RequestsTyped
    <3>2. seen[q] \subseteq seen'[q]
      BY <1>1, NoteStep
    <3> QED BY <3>1, <3>2, FrameOK
  <2>3. RequestOK(r)'
    <3>1. todo'[r] = << >> /\ route'[r] = p /\ p # None
      BY <1>1, <1>4 DEF Settles, RequestsTyped, Waiting
    <3>2. ~Waiting(r)' /\ IdleOK(r)'
      BY <3>1 DEF Waiting, IdleOK
    <3> QED BY <1>4, <3>2 DEF Settles, RequestOK, WayOK, BearerOK, PermissionOK
  <2> QED BY <2>1, <2>2, <2>3
<1>5. CASE /\ MovesOn(r)
           /\ g = "bearer" => Usable(token[r])' /\ sub'[r] = token[r].sub
           /\ g = "permission" => May(sub[r])'
  <2> DEFINE h == Head(Tail(todo[r]))
  <2>1. Tail(todo[r]) # << >> /\ Tail(todo[r]) \in Rests[p] /\ <<p, g, h>> \in Follows
    BY <1>2, <1>5, PlanGoesOn DEF MovesOn, Gate
  <2>2. Tail(todo[r]) \in Seq(Gates)
    BY <1>2, <2>1, PlanGoesOn
  <2>3. /\ Done(h) = Done(g) \cup Gain(g) /\ h # "bearer"
        /\ p \in {"change", "confirm"} /\ h # "permission" /\ g # "permission"
               => g \notin {"bearer", "permission"}
    BY <2>1, FollowsFacts
  <2>4. Gain(g) \subseteq Deeds
    BY DEF Gain, Deeds
  <2>5. RequestsTyped'
    BY <1>1, <1>3, <1>5, <2>2, <2>4 DEF MovesOn, RequestsTyped
  <2>6. ASSUME NEW q \in Requests \ {r} PROVE RequestOK(q)'
    <3>1. /\ route'[q] = route[q] /\ todo'[q] = todo[q] /\ token'[q] = token[q]
          /\ sub'[q] = sub[q] /\ wire'[q] = wire[q] /\ did'[q] = did[q]
          /\ q \in gone => q \in gone'
      BY <1>1, <1>3, <1>5 DEF MovesOn, RequestsTyped
    <3>2. seen[q] \subseteq seen'[q]
      BY <1>1, NoteStep
    <3> QED BY <3>1, <3>2, FrameOK
  <2>7. /\ route'[r] = p /\ todo'[r] = Tail(todo[r]) /\ wire'[r] = wire[r]
        /\ did'[r] = Done(h) /\ token' = token /\ p # None
    BY <1>1, <1>2, <1>5, <2>3 DEF MovesOn, RequestsTyped, Waiting
  <2>8. Gate(r)' = h
    BY <2>7 DEF Gate
  <2>9. IdleOK(r)' /\ WayOK(r)'
    BY <1>2, <2>1, <2>7, <2>8 DEF IdleOK, WayOK
  <2>10. ASSUME p \in Protected
         PROVE  token[r] # None /\ sub'[r] = token[r].sub /\ "token" \in seen'[r]
    <3>1. CASE g = "bearer"
      <4>1. Usable(token[r])' /\ sub'[r] = token[r].sub /\ token'[r] # None
        BY <1>5, <3>1 DEF Usable
      <4>2. "token" \in seen'[r]
        BY <1>1, <4>1, NoteStep
      <4> QED BY <2>7, <4>1, <4>2
    <3>2. CASE g # "bearer"
      <4>1. token[r] # None /\ sub[r] = token[r].sub /\ "token" \in seen[r]
        BY <1>1, <2>10, <3>2 DEF RequestOK, BearerOK
      <4>2. sub' = sub
        BY <2>10, <3>2 DEF Goes
      <4>3. seen[r] \subseteq seen'[r]
        BY <1>1, NoteStep
      <4> QED BY <4>1, <4>2, <4>3
    <3> QED BY <3>1, <3>2
  <2>11. BearerOK(r)'
    BY <2>7, <2>10 DEF BearerOK
  <2>12. PermissionOK(r)'
    <3>1. SUFFICES ASSUME p \in {"change", "confirm"}, h \notin {"bearer", "permission"}
                   PROVE  "permission" \in seen'[r]
      BY <2>7, <2>8 DEF PermissionOK
    <3>2. CASE g = "permission"
      <4>1. token[r] # None /\ sub'[r] = token[r].sub /\ p \in Protected
        BY <2>10, <3>1 DEF Protected
      <4>2. sub' = sub
        BY <3>2, <4>1 DEF Goes
      <4>3. May(sub[r])'
        BY <1>5, <3>2
      <4>4. (token[r] # None /\ May(token[r].sub))'
        BY <2>7, <4>1, <4>2, <4>3 DEF May
      <4> QED BY <1>1, <4>4, NoteStep
    <3>3. CASE g # "permission"
      <4>1. g \notin {"bearer", "permission"}
        BY <2>3, <3>1, <3>3
      <4>2. "permission" \in seen[r]
        BY <1>1, <3>1, <4>1 DEF RequestOK, PermissionOK
      <4> QED BY <1>1, <4>2, NoteStep
    <3> QED BY <3>2, <3>3
  <2>13. ~Answered(r)'
    BY <2>1, <2>7 DEF Answered
  <2>14. RequestOK(r)'
    BY <2>9, <2>11, <2>12, <2>13 DEF RequestOK, ResponseOK, TellsOK
  <2> QED BY <2>5, <2>6, <2>14
<1> QED BY <1>4, <1>5 DEF Goes

LEMMA InitHolds == Init => IInv
<1> SUFFICES ASSUME Init PROVE IInv
  OBVIOUS
<1>1. TablesOK
  BY RolesAssumption DEF Init, TablesOK
<1>2. NewWire \in Wires
  BY BlankWire
<1>3. RequestsTyped /\ SeenTyped
  BY <1>2 DEF Init, RequestsTyped, SeenTyped
<1>4. ASSUME NEW r \in Requests PROVE RequestOK(r)
  <2>1. route[r] = None /\ todo[r] = << >> /\ wire[r] = NewWire /\ did[r] = {} /\ token[r] = None
    BY DEF Init
  <2>2. ~Waiting(r) /\ ~Answered(r) /\ IdleOK(r)
    BY <2>1 DEF Waiting, Answered, IdleOK
  <2> QED BY <2>2 DEF RequestOK, WayOK, BearerOK, PermissionOK, ResponseOK, TellsOK
<1> QED BY <1>1, <1>3, <1>4, TypeParts DEF IInv

LEMMA StepKeeps == IInv /\ [Next]_vars => IInv'
<1> SUFFICES ASSUME IInv, [Next]_vars PROVE IInv'
  OBVIOUS
<1>1. TypeOK /\ (\A q \in Requests : RequestOK(q)) /\ RequestsTyped /\ SeenTyped
  BY TypeParts DEF IInv
<1>2. CASE UNCHANGED vars
  <2>1. TypeOK'
    BY <1>1, <1>2 DEF TypeOK, vars, tables, request
  <2>2. ASSUME NEW q \in Requests PROVE RequestOK(q)'
    BY <1>1, <1>2, FrameOK DEF vars, tables, request
  <2> QED BY <2>1, <2>2 DEF IInv
<1>3. CASE Next
  <2>1. TablesOK' /\ SeenTyped'
    BY <1>1, <1>3, TablesStep, NoteStep DEF Next
  <2>2. CASE Administer
    <3>1. RequestsTyped' /\ UNCHANGED request
      BY <1>1, <2>2 DEF RequestsTyped, Administer, request
    <3>2. ASSUME NEW q \in Requests PROVE RequestOK(q)'
      <4>1. seen[q] \subseteq seen'[q]
        BY <1>1, <1>3, NoteStep DEF Next
      <4> QED BY <1>1, <3>1, <4>1, FrameOK DEF request
    <3> QED BY <2>1, <3>1, <3>2, TypeParts DEF IInv
  <2>3. ASSUME NEW r \in Requests, Step(r) PROVE IInv'
    <3>1. RequestsTyped' /\ \A q \in Requests : RequestOK(q)'
      BY <1>1, <1>3, <2>3, StepGoes, ArriveStep, GoesStep DEF Next
    <3> QED BY <2>1, <3>1, TypeParts DEF IInv
  <2> QED BY <1>3, <2>2, <2>3 DEF Next
<1> QED BY <1>2, <1>3

(* The inductive invariant of requests holds in every state. *)
THEOREM Invariance == Spec => []IInv
  BY InitHolds, StepKeeps, PTL DEF Spec

(* Requests keeps its types. *)
THEOREM TypeCorrect == Spec => []TypeOK
<1>1. IInv => TypeOK
  BY DEF IInv
<1> QED BY <1>1, Invariance, PTL

(* However many requests and whatever runs between their gates: a client   *)
(* that stays gets one response, an error is the JSON of WriteJSONError,   *)
(* and the status that is logged is the one that was sent.                 *)
THEOREM RequestsGetOneResponse == Spec => []OneResponse
<1>1. IInv => OneResponse
  BY DEF IInv, RequestOK, ResponseOK, OneResponse
<1> QED BY <1>1, Invariance, PTL

(* A request refused as the client's fault changed nothing but budgets;    *)
(* one answered with success did all that its route stands for.            *)
THEOREM AnswersAreTrue == Spec => []AnswerTells
<1>1. IInv => AnswerTells
  BY DEF IInv, RequestOK, TellsOK, AnswerTells
<1> QED BY <1>1, Invariance, PTL

(* Whoever changes something on a protected route had a valid token, and   *)
(* for a mailbox the permission, at some time since the request arrived.   *)
THEOREM ChangesArePermitted == Spec => ActsWithPermission
<1>1. IInv /\ [Next]_vars => [Permitted]_vars
  <2> SUFFICES ASSUME IInv, Next PROVE Permitted
    OBVIOUS
  <2>1. TypeOK /\ \A q \in Requests : RequestOK(q)
    BY DEF IInv
  <2> SUFFICES ASSUME NEW q \in Requests, did'[q] # did[q] PROVE Needs[route[q]] \subseteq seen[q]
    BY DEF Permitted
  <2>2. PICK r \in Requests : Step(r)
    BY DEF Next, Administer, request
  <2>3. Goes(r)
    BY <2>1, <2>2, StepGoes DEF Arrive
  <2>4. q = r
    BY <2>1, <2>3 DEF Goes, Settles, MovesOn, TypeOK
  <2>5. /\ Waiting(q) /\ Gate(q) \notin {"bearer", "permission"} /\ RequestOK(q)
        /\ route[q] \in Routes
    BY <2>1, <2>3, <2>4 DEF Goes, Waiting, TypeOK
  <2>6. /\ route[q] \in Protected => "token" \in seen[q]
        /\ route[q] \in {"change", "confirm"} => "permission" \in seen[q]
    BY <2>5 DEF RequestOK, BearerOK, PermissionOK
  <2>7. /\ route[q] \in {"change", "confirm"} => Needs[route[q]] = {"token", "permission"}
        /\ route[q] \in {"account", "delete"} => Needs[route[q]] = {"token"}
        /\ route[q] \notin Protected => Needs[route[q]] = {}
    BY <2>5 DEF Needs, Protected
  <2> QED BY <2>6, <2>7 DEF Protected
<1> QED BY <1>1, Invariance, PTL DEF Spec, ActsWithPermission
===============================================================================
