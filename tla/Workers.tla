------------------------------ MODULE Workers ------------------------------
(***************************************************************************)
(* The threads that serve requests.  HttpServer::run_event_loop spawns a   *)
(* detached thread per accepted connection; the thread routes the one      *)
(* request it read to a controller method, sends the response and ends.    *)
(* Between two calls of the store nothing is locked, so a request is a     *)
(* chain of steps, one per store call, together with the computation up to *)
(* the next call; the steps of different threads interleave freely.        *)
(*                                                                         *)
(* A request that RbacMiddleware or the router turns away never reaches    *)
(* the store, so Requests holds the ones a controller gets.                *)
(***************************************************************************)
EXTENDS InMemoryStore

CONSTANTS
    Threads,      \* the threads of a run, each serving one request
    MaxInFlight,  \* bound: requests in service at the same time
    Requests,     \* the requests clients may send
    None          \* std::nullopt, a field left out, and a local not yet set

ExternalTx == -1   \* a reference to a transaction ONYX never recorded
NoTx == 0          \* no transaction reference at all
BadAmount == -2    \* an amount that is no number: the reference beside it is never read

TransferRequest ==
    [kind: {"transfer"}, role: {"consumer", "employee"},
     sender: Names \cup {None},   \* own account of a consumer, sender_account_id of an employee
     to: Names \cup {None}, by: {"upi", "id"}, amount: Nat]

ComplaintRequest ==
    [kind: {"complaint"}, caller: Names \cup {None}, suspect: Names \cup {None},
     tx: Int, risk: Int]

TriageRequest ==
    [kind: {"triage"}, complaint: ComplaintIds, status: ComplaintStatus \cup {None}]

ModerationRequest ==
    [kind: {"moderation"}, account: Names, status: AccountStatus \cup {"UNSUPPORTED"}]

(* A field that was left out and one that is empty are the same.           *)
Given == (Names \ {Empty}) \cup {None}

RegistrationRequest ==
    [kind: {"consumer", "employee"}, number: Given, username: Given,
     name: Names, password: Names, upi: Given, derived: Names, derivedWithNumber: Names, balance: Nat]

(* An account login gives a number; a name login gives a username, or a    *)
(* name in its place.                                                      *)
LoginRequest ==
    [kind: {"accountLogin", "nameLogin"}, number: Names, name: Names, password: Names,
     role: {"any", "consumer", "employee", "unsupported"}]

(* The user and account are those of the bearer's token.                   *)
ProfileRequest == [kind: {"me", "myAccount"}, user: Names, account: Names]

RequestTypes ==
    TransferRequest \cup ComplaintRequest \cup TriageRequest \cup ModerationRequest
        \cup RegistrationRequest \cup LoginRequest \cup ProfileRequest

VARIABLES
    pc,      \* pc[t]: the store call thread t makes next
    req,     \* req[t]: the request t serves
    local,   \* local[t]: the locals of the controller method
    answer   \* answer[t]: the response t sent

threadVars == <<pc, req, local, answer>>

(* A copy of an account, taken under the lock and used after it.           *)
Snapshot(a) == [id |-> a, account |-> accounts[a]]

SnapshotType == [id: Names, account: Account]

(* What an access token says of its bearer.                                *)
Claims == [user: Names, username: Names, account: Names]

(* std::nullopt is neither a string nor an account, a request or a token.  *)
ASSUME WorkersAssumption ==
    /\ None \notin Names /\ None \notin SnapshotType /\ None \notin RequestTypes
    /\ None \notin Claims
    /\ MaxInFlight \in Nat
    /\ Requests \subseteq RequestTypes

UserSnapshot(u) == [id |-> u, user |-> users[u]]

UserSnapshotType == [id: Names, user: User]

(* peer: the receiver, suspect or moderated account.  tally, inflow: what  *)
(* was counted.  external: the suspect was provisioned by this request.    *)
(* user: who is logging in.                                                *)
Blank ==
    [peer |-> None, payer |-> None, tally |-> 0, inflow |-> 0, external |-> FALSE,
     user |-> None]

LocalType ==
    [peer: SnapshotType \cup {None}, payer: SnapshotType \cup {None},
     tally: Nat, inflow: Nat, external: BOOLEAN, user: UserSnapshotType \cup {None}]

FirstStep ==
    [transfer |-> "receiver", complaint |-> "suspectByUpi",
     triage |-> "complaint", moderation |-> "accountById",
     consumer |-> "userByAccount", employee |-> "employeeByName",
     accountLogin |-> "userOfNumber", nameLogin |-> "userOfName",
     me |-> "userOfToken", myAccount |-> "accountOfToken"]

Idle == {t \in Threads : pc[t] = "idle"}

Done == {t \in Threads : pc[t] = "done"}

InFlight == Threads \ (Idle \cup Done)

(* Transaction ids are random: a client can only quote one that exists.    *)
Quotable(r) ==
    r.kind = "complaint" => r.tx \in {ExternalTx, NoTx, BadAmount} \cup DOMAIN transactions

WorkersInit ==
    /\ pc = [t \in Threads |-> "idle"]
    /\ req = [t \in Threads |-> None]
    /\ local = [t \in Threads |-> Blank]
    /\ answer = [t \in Threads |-> None]

Accept(t, r) ==
    /\ pc[t] = "idle"
    /\ Cardinality(InFlight) < MaxInFlight
    /\ Quotable(r)
    /\ pc' = [pc EXCEPT ![t] = FirstStep[r.kind]]
    /\ req' = [req EXCEPT ![t] = r]
    /\ UNCHANGED <<local, answer>>

(* Go on to the next store call, with these locals.                        *)
Continue(t, step, locals) ==
    /\ pc' = [pc EXCEPT ![t] = step]
    /\ local' = [local EXCEPT ![t] = locals]
    /\ UNCHANGED <<req, answer>>

(* Return the response, with the transaction it reports or the token it    *)
(* grants if any, and end the thread.  "about" is kept for the properties: *)
(* the account the request ended up acting on.                             *)
Respond(t, code, tx, token) ==
    /\ pc' = [pc EXCEPT ![t] = "done"]
    /\ local' = [local EXCEPT ![t] = Blank]
    /\ answer' = [answer EXCEPT ![t] =
            [code  |-> code,
             tx    |-> tx,
             token |-> token,
             about |-> IF local[t].peer = None THEN None ELSE local[t].peer.id]]
    /\ UNCHANGED req

Reply(t, code, tx) == Respond(t, code, tx, None)

Grant(t, code, claims) == Respond(t, code, NoTx, claims)
=============================================================================
