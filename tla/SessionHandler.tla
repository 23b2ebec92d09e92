--------------------------- MODULE SessionHandler ---------------------------
(***************************************************************************)
(* POST /api/v1/auth/login, GET /api/v1/auth/me and GET                    *)
(* /api/v1/consumer/my-account: AuthController::login, get_me and          *)
(* get_my_account.  They write no table: a login is a chain of lookups,    *)
(* each of them under the lock, that ends in a token or in a refusal.      *)
(***************************************************************************)
EXTENDS Workers

LoginSteps ==
    {"userOfNumber", "userNamedNumber", "userNamed", "holderOfAccount", "userOfName",
     "userOfNameAsAccount", "listUsers", "accountOfUser"}

ProfileSteps == {"userOfToken", "accountOfToken"}

ClaimsOf(s) == [user |-> s.id, username |-> s.user.username, account |-> s.user.account]

RoleOf(account) == IF account = Empty THEN "employee" ELSE "consumer"

(* The role, if one is asked for, and the password are the user's.         *)
CredentialsAccepted(r, user) ==
    /\ r.role \in {"any", RoleOf(user.account)}
    /\ r.password = user.password

(* The name given, if any, is the user's name or username, in any case.    *)
AnswersToName(r, user) ==
    \/ r.name = Empty
    \/ \E n \in {user.name, user.username} \ {Empty} : Fold[n] = Fold[r.name]

(* The user is known: check the credentials, then look up the account that *)
(* the response shows.                                                     *)
Authenticate(t, s) ==
    IF ~CredentialsAccepted(req[t], s.user) THEN Reply(t, 401, NoTx)
    ELSE IF s.user.account = Empty THEN Grant(t, 200, ClaimsOf(s))
    ELSE Continue(t, "accountOfUser", [local[t] EXCEPT !.user = s])

(* A user was found for the account number: the name has to fit it.        *)
Recognise(t, s) ==
    IF AnswersToName(req[t], s.user) THEN Authenticate(t, s)
    ELSE IF s.user.account = Empty THEN Reply(t, 401, NoTx)
    ELSE Continue(t, "holderOfAccount", [local[t] EXCEPT !.user = s])

(* No password; or neither a number, nor a username, nor a name.           *)
RefuseLogin(t) ==
    /\ \/ pc[t] = "userOfNumber" /\ req[t].password = Empty
       \/ pc[t] = "userOfName" /\ Empty \in {req[t].password, req[t].name}
    /\ Reply(t, 400, NoTx)
    /\ UNCHANGED storeVars

-----------------------------------------------------------------------------
(* With an account number                                                  *)

(* Mutant: the number is only looked for among the usernames.              *)
FindUserOfNumberByName(t) ==
    /\ pc[t] = "userOfNumber"
    /\ req[t].password # Empty
    /\ Continue(t, "userNamedNumber", local[t])
    /\ UNCHANGED storeVars

(* find_user_by_account_id of the number.                                  *)
FindUserOfNumber(t) ==
    LET found == FindUserByAccountId(req[t].number)
    IN  /\ pc[t] = "userOfNumber"
        /\ req[t].password # Empty
        /\ \/ found = {} /\ Continue(t, "userNamedNumber", local[t])
           \/ \E u \in found : Recognise(t, UserSnapshot(u))
        /\ UNCHANGED storeVars

(* find_user_by_username of the number.                                    *)
FindUserNamedNumber(t) ==
    LET found == FindUserByUsername(req[t].number)
    IN  /\ pc[t] = "userNamedNumber"
        /\ \/ found = {} /\ req[t].name = Empty /\ Reply(t, 401, NoTx)
           \/ found = {} /\ req[t].name # Empty /\ Continue(t, "userNamed", local[t])
           \/ \E u \in found : Recognise(t, UserSnapshot(u))
        /\ UNCHANGED storeVars

(* find_user_by_username of the name: a user of another account will not   *)
(* do.                                                                     *)
FindUserNamed(t) ==
    LET found == {u \in FindUserByUsername(req[t].name) :
                    users[u].account = req[t].number}
    IN  /\ pc[t] = "userNamed"
        /\ \/ found = {} /\ Reply(t, 401, NoTx)
           \/ \E u \in found : Recognise(t, UserSnapshot(u))
        /\ UNCHANGED storeVars

(* find_account_by_id of the user's account: the name may be its holder's. *)
CheckHolder(t) ==
    LET s == local[t].user
        found == FindAccountById(s.user.account)
    IN  /\ pc[t] = "holderOfAccount"
        /\ \/ \E a \in found :
                IF Fold[accounts[a].holder] = Fold[req[t].name]
                THEN Authenticate(t, s)
                ELSE Reply(t, 401, NoTx)
           \/ found = {} /\ Reply(t, 401, NoTx)
        /\ UNCHANGED storeVars

-----------------------------------------------------------------------------
(* With a username or a name                                               *)

(* find_user_by_username.                                                  *)
FindUserOfName(t) ==
    LET found == FindUserByUsername(req[t].name)
    IN  /\ pc[t] = "userOfName"
        /\ Empty \notin {req[t].password, req[t].name}
        /\ \/ found = {} /\ Continue(t, "userOfNameAsAccount", local[t])
           \/ \E u \in found : Authenticate(t, UserSnapshot(u))
        /\ UNCHANGED storeVars

(* find_user_by_account_id of the same string.                             *)
FindUserOfNameAsAccount(t) ==
    LET found == FindUserByAccountId(req[t].name)
    IN  /\ pc[t] = "userOfNameAsAccount"
        /\ \/ found = {} /\ Continue(t, "listUsers", local[t])
           \/ \E u \in found : Authenticate(t, UserSnapshot(u))
        /\ UNCHANGED storeVars

(* list_users, searched for the name in any case: of several users of that *)
(* name the first of an unordered_map is taken.                            *)
SearchUsersByName(t) ==
    LET found == {u \in DOMAIN users : Fold[users[u].name] = Fold[req[t].name]}
    IN  /\ pc[t] = "listUsers"
        /\ \/ found = {} /\ Reply(t, 401, NoTx)
           \/ \E u \in found : Authenticate(t, UserSnapshot(u))
        /\ UNCHANGED storeVars

(* find_account_by_id of the user's account, for the response only: the    *)
(* token is made from the user that was read before.                       *)
AnswerLogin(t) ==
    /\ pc[t] = "accountOfUser"
    /\ Grant(t, 200, ClaimsOf(local[t].user))
    /\ UNCHANGED storeVars

LoginStep(t) ==
    \/ RefuseLogin(t)
    \/ FindUserOfNumber(t)
    \/ FindUserNamedNumber(t)
    \/ FindUserNamed(t)
    \/ CheckHolder(t)
    \/ FindUserOfName(t)
    \/ FindUserOfNameAsAccount(t)
    \/ SearchUsersByName(t)
    \/ AnswerLogin(t)

-----------------------------------------------------------------------------
(* The bearer of a token                                                   *)

(* find_user_by_id of the token's user.                                    *)
GetMe(t) ==
    /\ pc[t] = "userOfToken"
    /\ Reply(t, IF FindUserById(req[t].user) = {} THEN 404 ELSE 200, NoTx)
    /\ UNCHANGED storeVars

(* find_account_by_id of the token's account.                              *)
GetMyAccount(t) ==
    /\ pc[t] = "accountOfToken"
    /\ Reply(t, IF FindAccountById(req[t].account) = {} THEN 404 ELSE 200, NoTx)
    /\ UNCHANGED storeVars

ProfileStep(t) == GetMe(t) \/ GetMyAccount(t)
=============================================================================
