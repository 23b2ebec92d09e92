------------------------------ MODULE Gateway ------------------------------
(***************************************************************************)
(* What a request passes before a controller gets it: the route table that *)
(* main and the controllers register, Router::handle_request,              *)
(* RbacMiddleware::authenticate_and_authorize and JwtManager's tokens.     *)
(* A client calls with a token it was granted or with none: a token that   *)
(* is malformed or not signed with the server's key says nothing and       *)
(* stands with "none".                                                     *)
(***************************************************************************)
EXTENDS OnyxApi

CONSTANTS
    Calls,     \* what clients may send: method, path, and what body and path ask for
    Lifetime,  \* default_expiry_seconds of JwtManager (86400)
    MaxTime    \* bound: the clock stops here

VARIABLES
    now,      \* the clock, in seconds
    issued,   \* every token ever granted
    bearer    \* bearer[t]: the token the request of thread t came with

gatewayVars == <<now, issued, bearer>>

Token == [user: Names, username: Names, account: Names, exp: Nat]

(* The routes in the order in which they are registered.  "*" stands for a *)
(* parameter; serves has the kinds of request its handler takes, "report"  *)
(* for a handler that only reads.                                          *)
Route(method, pattern, need, serves) ==
    [method |-> method, pattern |-> pattern, need |-> need, serves |-> serves]

Routes ==
    <<Route("GET", <<"health">>, "PUBLIC", {"report"}),
      Route("GET", <<"admin", "audit-summary">>, "BANK_EMPLOYEE_ONLY", {"report"}),
      Route("POST", <<"auth", "login">>, "PUBLIC", {"accountLogin", "nameLogin"}),
      Route("POST", <<"auth", "register">>, "PUBLIC", {"consumer", "employee"}),
      Route("POST", <<"auth", "signup">>, "PUBLIC", {"consumer", "employee"}),
      Route("POST", <<"auth", "create-account">>, "PUBLIC", {"consumer", "employee"}),
      Route("GET", <<"auth", "me">>, "ANY_AUTHENTICATED", {"me"}),
      Route("GET", <<"consumer", "my-account">>, "CONSUMER_ONLY", {"myAccount"}),
      Route("GET", <<"accounts", "verify-risk", "*">>, "ANY_AUTHENTICATED", {"report"}),
      Route("GET", <<"accounts", "verify-risk", "*">>, "ANY_AUTHENTICATED", {"report"}),
      Route("PATCH", <<"accounts", "*", "status">>, "BANK_EMPLOYEE_ONLY", {"moderation"}),
      Route("PUT", <<"accounts", "*", "status">>, "BANK_EMPLOYEE_ONLY", {"moderation"}),
      Route("GET", <<"accounts">>, "BANK_EMPLOYEE_ONLY", {"report"}),
      Route("GET", <<"transactions", "*", "flag-details">>, "ANY_AUTHENTICATED", {"report"}),
      Route("GET", <<"transactions">>, "ANY_AUTHENTICATED", {"report"}),
      Route("GET", <<"transactions", "*">>, "ANY_AUTHENTICATED", {"report"}),
      Route("POST", <<"transactions">>, "ANY_AUTHENTICATED", {"transfer"}),
      Route("POST", <<"complaints">>, "CONSUMER_ONLY", {"complaint"}),
      Route("GET", <<"complaints">>, "BANK_EMPLOYEE_ONLY", {"report"}),
      Route("GET", <<"complaints", "*">>, "BANK_EMPLOYEE_ONLY", {"report"}),
      Route("PUT", <<"complaints", "*", "status">>, "BANK_EMPLOYEE_ONLY", {"triage"}),
      Route("GET", <<"graph", "subgraph", "*">>, "ANY_AUTHENTICATED", {"report"}),
      Route("POST", <<"graph", "nodes", "*", "action">>, "BANK_EMPLOYEE_ONLY", {"moderation"}),
      Route("GET", <<"graph", "metrics">>, "BANK_EMPLOYEE_ONLY", {"report"}),
      Route("GET", <<"evaluation", "scenarios">>, "BANK_EMPLOYEE_ONLY", {"report"}),
      Route("GET", <<"evaluation", "stats">>, "BANK_EMPLOYEE_ONLY", {"report"})>>

-----------------------------------------------------------------------------
(* Router                                                                  *)

Matches(route, path) ==
    /\ Len(route.pattern) = Len(path)
    /\ \A i \in DOMAIN path : route.pattern[i] \in {"*", path[i]}

RoutesOf(call) == {i \in DOMAIN Routes : Matches(Routes[i], call.path)}

Candidates(call) == {i \in RoutesOf(call) : Routes[i].method = call.method}

(* The first route that matches the path and has the method.               *)
Handler(call) ==
    CHOOSE i \in Candidates(call) : \A j \in Candidates(call) : i <= j

(* What handle_request does with a call: 200 stands for the handler.       *)
Routing ==
    [call \in Calls |->
        IF call.method = "OPTIONS" THEN 204
        ELSE IF Candidates(call) # {} THEN 200
        ELSE IF RoutesOf(call) # {} THEN 405
        ELSE 404]

Handling == [call \in {c \in Calls : Routing[c] = 200} |-> Routes[Handler(call)]]

-----------------------------------------------------------------------------
(* Tokens and roles                                                        *)

TokenRole(token) == IF token.account = Empty THEN "employee" ELSE "consumer"

(* verify_token: a token is good through the second it expires in.         *)
Live(token) == token \in issued /\ now <= token.exp

(* Mutant: a valid token is enough.                                        *)
AuthorizeAnyRole(need, token) ==
    IF need = "PUBLIC" \/ Live(token) THEN 200 ELSE 401

(* authenticate_and_authorize: 200 stands for an AuthContext.              *)
Authorize(need, token) ==
    IF need = "PUBLIC" THEN 200
    ELSE IF ~Live(token) THEN 401
    ELSE IF need = "CONSUMER_ONLY" /\ TokenRole(token) # "consumer" THEN 403
    ELSE IF need = "BANK_EMPLOYEE_ONLY" /\ TokenRole(token) # "employee" THEN 403
    ELSE 200

(* handle_request up to the call of the handler.                           *)
Screen(call, token) ==
    IF Routing[call] = 200 THEN Authorize(Handling[call].need, token) ELSE Routing[call]

(* Mutant: the sender of the body is believed.                             *)
FilledFromBody(form, user, account) ==
    CASE form.kind = "transfer"  -> [form EXCEPT !.role = IF account = Empty THEN "employee" ELSE "consumer"]
      [] form.kind = "complaint" -> [form EXCEPT !.caller = account]
      [] form.kind = "me"        -> [form EXCEPT !.user = user]
      [] form.kind = "myAccount" -> [form EXCEPT !.account = account]
      [] OTHER                   -> form

(* What the controllers take from the AuthContext: the account a consumer  *)
(* pays from or complains for, and whose profile is shown.                 *)
Filled(form, user, account) ==
    CASE form.kind = "transfer" /\ account = Empty -> [form EXCEPT !.role = "employee"]
      [] form.kind = "transfer" /\ account # Empty ->
            [form EXCEPT !.role = "consumer", !.sender = account]
      [] form.kind = "complaint" -> [form EXCEPT !.caller = account]
      [] form.kind = "me"        -> [form EXCEPT !.user = user]
      [] form.kind = "myAccount" -> [form EXCEPT !.account = account]
      [] OTHER                   -> form

OpenKinds == {"accountLogin", "nameLogin", "consumer", "employee"}

(* What the handler of a route works on: a public one is given no context. *)
Entered(form, token) ==
    IF form.kind \in OpenKinds THEN form ELSE Filled(form, token.user, token.account)

Methods == {"GET", "POST", "PUT", "PATCH", "DELETE", "OPTIONS", "UNKNOWN"}

(* A call asks for what the handler of its path serves.                    *)
ASSUME GatewayAssumption ==
    /\ Lifetime \in Nat /\ MaxTime \in Nat
    /\ \A c \in Calls :
        /\ c.method \in Methods
        /\ Routing[c] = 200 => c.form.kind \in Handling[c].serves
        /\ c.form.kind \in OpenKinds => c.form \in Requests
        /\ c.form.kind # "report" =>
            \A u, a \in Names : Filled(c.form, u, a) \in Requests

-----------------------------------------------------------------------------
GatewayInit ==
    /\ now = 0
    /\ issued = {}
    /\ bearer = [t \in Threads |-> None]

(* The router answers by itself, with the status of Screen, or calls a     *)
(* handler that changes nothing: what such a handler reads is the subject  *)
(* of Reports and GraphEngine.                                             *)
AnswerCall(call, token) ==
    /\ call.form.kind = "report" \/ Screen(call, token) # 200
    /\ UNCHANGED <<vars, gatewayVars>>

(* The handler of the route starts on the request.                         *)
Admit(call, token) ==
    /\ call.form.kind # "report"
    /\ Screen(call, token) = 200
    /\ \E t \in Threads :
        /\ Accept(t, Entered(call.form, token))
        /\ bearer' = [bearer EXCEPT ![t] = token]
    /\ UNCHANGED <<storeVars, now, issued>>

(* create_token, with the clock as it is when the response is made.        *)
Signed(claims) ==
    [user |-> claims.user, username |-> claims.username, account |-> claims.account,
     exp |-> now + Lifetime]

(* The token in the response of a thread that answers, if there is one.    *)
GrantedBy(t) ==
    {Signed(answer'[u].token) : u \in {v \in {t} : answer'[v] # None /\ answer'[v].token # None}}

(* A step of a handler.                                                    *)
Work(t) ==
    /\ Serve(t)
    /\ issued' = issued \cup GrantedBy(t)
    /\ UNCHANGED <<now, bearer>>

Tick ==
    /\ now < MaxTime
    /\ now' = now + 1
    /\ UNCHANGED <<vars, issued, bearer>>

GatewayNext ==
    \/ \E call \in Calls, token \in issued \cup {None} :
        AnswerCall(call, token) \/ Admit(call, token)
    \/ \E t \in Threads : Work(t)
    \/ Tick
=============================================================================
