------------------------ MODULE RegistrationHandler ------------------------
(***************************************************************************)
(* POST /api/v1/auth/register: AuthController::register_account, for the   *)
(* two kinds of user.  Every user id begins with "USR-", which is left out *)
(* here: a consumer's user id is its account number.                       *)
(***************************************************************************)
EXTENDS Workers

CONSTANT EmployeeIds   \* the ids "EMP-" and the clock modulo 100000

ASSUME RegistrationAssumption == EmployeeIds \subseteq Names

ConsumerSteps ==
    {"userByAccount", "userByName", "accountByNumber", "deriveHandle", "openAccount",
     "createUser", "createUserByNumber"}

EmployeeSteps == {"employeeByName", "createEmployee"}

DefaultBalance == 50000000

OpeningDeposit(r) == IF r.balance > 0 THEN r.balance ELSE DefaultBalance

RequestedUsername(r) == IF r.username = None THEN r.number ELSE r.username

ConsumerFieldsGiven(r) == r.number # None /\ r.name # Empty /\ r.password # Empty

(* An employee may give a name in place of a username.                     *)
EmployeeUsername(r) == IF r.username = None THEN r.name ELSE r.username

EmployeeFieldsGiven(r) == EmployeeUsername(r) # Empty /\ r.password # Empty

(* The required fields are missing.                                        *)
RefuseRegistration(t) ==
    /\ \/ pc[t] = "userByAccount" /\ ~ConsumerFieldsGiven(req[t])
       \/ pc[t] = "employeeByName" /\ ~EmployeeFieldsGiven(req[t])
    /\ Reply(t, 400, NoTx)
    /\ UNCHANGED storeVars

(* find_user_by_account_id of the account number.                          *)
CheckAccountUser(t) ==
    /\ pc[t] = "userByAccount"
    /\ ConsumerFieldsGiven(req[t])
    /\ IF FindUserByAccountId(req[t].number) # {}
       THEN Reply(t, 409, NoTx)
       ELSE Continue(t, "userByName", local[t])
    /\ UNCHANGED storeVars

(* find_user_by_username of the account number.                            *)
CheckNumberAsUsername(t) ==
    /\ pc[t] = "userByName"
    /\ IF FindUserByUsername(req[t].number) # {}
       THEN Reply(t, 409, NoTx)
       ELSE Continue(t, "accountByNumber", local[t])
    /\ UNCHANGED storeVars

(* find_account_by_id: an account that exists is taken over by the user.   *)
FindAccountToClaim(t) ==
    /\ pc[t] = "accountByNumber"
    /\ IF FindAccountById(req[t].number) # {}
       THEN Continue(t, "createUser", local[t])
       ELSE IF req[t].upi = None
       THEN Continue(t, "deriveHandle", local[t])
       ELSE Continue(t, "openAccount", local[t])
    /\ UNCHANGED storeVars

(* find_account_by_upi of the handle made from the name; if anything       *)
(* answers to it, the account number is put into the handle.               *)
DeriveHandle(t) ==
    /\ pc[t] = "deriveHandle"
    /\ Continue(t, "openAccount",
            [local[t] EXCEPT !.tally = IF FindAccountByUpi(req[t].derived) = {} THEN 0 ELSE 1])
    /\ UNCHANGED storeVars

ChosenHandle(t) ==
    IF req[t].upi # None THEN req[t].upi
    ELSE IF local[t].tally = 0 THEN req[t].derived
    ELSE req[t].derivedWithNumber

(* create_account, whose result is not looked at.                          *)
OpenAccount(t) ==
    /\ pc[t] = "openAccount"
    /\ CreateAccount(req[t].number,
            [upi |-> ChosenHandle(t), holder |-> req[t].name,
             balance |-> OpeningDeposit(req[t]),
             risk |-> 0, status |-> "ACTIVE"])
    /\ Continue(t, "createUser", local[t])
    /\ UNCHANGED <<ledgerVars, complaintVars, userVars>>

ConsumerUser(t, username) ==
    [username |-> username, account |-> req[t].number,
     name |-> req[t].name, password |-> req[t].password]

(* Mutant: the token says the username that was asked for.                 *)
ClaimsAsRequested(t, username) ==
    [user |-> req[t].number, username |-> RequestedUsername(req[t]),
     account |-> req[t].number]

ConsumerClaims(t, username) ==
    [user |-> req[t].number, username |-> username, account |-> req[t].number]

(* Mutant: a username in use is not noticed.                               *)
CreateConsumerOnce(t) ==
    LET username == RequestedUsername(req[t])
    IN  /\ pc[t] = "createUser"
        /\ CreateUser(req[t].number, ConsumerUser(t, username))
        /\ Grant(t, 201, ConsumerClaims(t, username))
        /\ UNCHANGED <<accountVars, ledgerVars, complaintVars>>

(* create_user under the requested username.                               *)
CreateConsumer(t) ==
    LET username == RequestedUsername(req[t])
    IN  /\ pc[t] = "createUser"
        /\ CreateUser(req[t].number, ConsumerUser(t, username))
        /\ IF UsernameTaken(username)
           THEN Continue(t, "createUserByNumber", local[t])
           ELSE Grant(t, 201, ConsumerClaims(t, username))
        /\ UNCHANGED <<accountVars, ledgerVars, complaintVars>>

(* create_user again, under the account number; its result is not looked   *)
(* at, and the response is 201 either way.                                 *)
CreateConsumerByNumber(t) ==
    /\ pc[t] = "createUserByNumber"
    /\ CreateUser(req[t].number, ConsumerUser(t, req[t].number))
    /\ Grant(t, 201, ConsumerClaims(t, req[t].number))
    /\ UNCHANGED <<accountVars, ledgerVars, complaintVars>>

-----------------------------------------------------------------------------
(* find_user_by_username, then create_user under an id drawn from the      *)
(* clock; its result is not looked at.                                     *)

CheckEmployeeUsername(t) ==
    /\ pc[t] = "employeeByName"
    /\ EmployeeFieldsGiven(req[t])
    /\ IF FindUserByUsername(EmployeeUsername(req[t])) # {}
       THEN Reply(t, 409, NoTx)
       ELSE Continue(t, "createEmployee", local[t])
    /\ UNCHANGED storeVars

EmployeeUser(t) ==
    LET username == EmployeeUsername(req[t])
    IN  [username |-> username, account |-> Empty,
         name |-> IF req[t].name = Empty THEN username ELSE req[t].name,
         password |-> req[t].password]

CreateEmployee(t) ==
    /\ pc[t] = "createEmployee"
    /\ \E id \in EmployeeIds :
        /\ CreateUser(id, EmployeeUser(t))
        /\ Grant(t, 201, [user |-> id, username |-> EmployeeUser(t).username,
                          account |-> Empty])
    /\ UNCHANGED <<accountVars, ledgerVars, complaintVars>>

RegistrationStep(t) ==
    \/ RefuseRegistration(t)
    \/ CheckAccountUser(t)
    \/ CheckNumberAsUsername(t)
    \/ FindAccountToClaim(t)
    \/ DeriveHandle(t)
    \/ OpenAccount(t)
    \/ CreateConsumer(t)
    \/ CreateConsumerByNumber(t)
    \/ CheckEmployeeUsername(t)
    \/ CreateEmployee(t)
=============================================================================
