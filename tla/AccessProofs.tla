---------------------------- MODULE AccessProofs ----------------------------
(***************************************************************************)
(* Theorems about the whole system, from the start of the process through  *)
(* every restart, for any dataset, any calls and any number of threads.    *)
(*                                                                         *)
(* A step behind the router is a step of OnyxApi or changes none of its    *)
(* variables, so what OnyxProofs and SafetyProofs prove of those steps     *)
(* holds here too.  What is added is the router, the tokens and start-up.  *)
(* Then follow the users and accounts of the start, in whose order they    *)
(* are written (SeededInv); what the tables promise between requests that  *)
(* are served one at a time, which start-up has to establish (SerialInv);  *)
(* whose money a payment moves; whom a token names; and the types.         *)
(***************************************************************************)
EXTENDS Access, SerialProofs

TokensSound ==
    /\ now \in Nat
    /\ issued \subseteq Token
    /\ bearer \in [Threads -> issued \cup {None}]

-----------------------------------------------------------------------------
(* The route table.                                                        *)

(* Only public routes serve a request that needs no token, and what is     *)
(* reserved for a role is reserved for it on every route that serves it.   *)
LEMMA RouteNeeds ==
    ASSUME NEW i \in DOMAIN Routes, NEW kind \in Routes[i].serves
    PROVE  /\ Routes[i].need = "PUBLIC" => kind \in OpenKinds \cup {"report"}
           /\ kind \in {"moderation", "triage"} => Routes[i].need = "BANK_EMPLOYEE_ONLY"
           /\ kind \in {"complaint", "myAccount"} => Routes[i].need = "CONSUMER_ONLY"
<1>1. i \in 1..26
  BY DEF Routes
<1>2. CASE i \in 1..9
  BY <1>2, SMTT(120) DEF Routes, Route, OpenKinds
<1>3. CASE i \in 10..18
  BY <1>3, SMTT(120) DEF Routes, Route, OpenKinds
<1>4. CASE i \in 19..26
  BY <1>4, SMTT(120) DEF Routes, Route, OpenKinds
<1>5. QED
  BY <1>1, <1>2, <1>3, <1>4

LEMMA FirstRoute ==
    ASSUME NEW S \in SUBSET (1..26), S # {}
    PROVE  \E i \in S : \A j \in S : i <= j
<1> SUFFICES ASSUME \A i \in S : \E j \in S : j < i
             PROVE  FALSE
  OBVIOUS
<1>1. PICK i \in S : TRUE
  OBVIOUS
<1>2. QED
  BY <1>1

(* A call that is routed has the handler of a route.                       *)
LEMMA HandledByRoute ==
    ASSUME NEW call \in Calls, Routing[call] = 200
    PROVE  \E i \in DOMAIN Routes : Handling[call] = Routes[i]
<1>1. Candidates(call) # {}
  BY DEF Routing
<1>2. DOMAIN Routes = 1..26
  BY DEF Routes
<1>3. Candidates(call) \subseteq DOMAIN Routes
  BY DEF Candidates, RoutesOf
<1>4. \E i \in Candidates(call) : \A j \in Candidates(call) : i <= j
  BY <1>1, <1>2, <1>3, FirstRoute
<1>5. Handler(call) \in DOMAIN Routes
  BY <1>3, <1>4 DEF Handler
<1>6. QED
  BY <1>5 DEF Handling

LEMMA RoutedNeeds ==
    ASSUME NEW call \in Calls, Routing[call] = 200
    PROVE  LET need == Handling[call].need
               kind == call.form.kind
           IN  /\ need = "PUBLIC" => kind \in OpenKinds \cup {"report"}
               /\ kind \in {"moderation", "triage"} => need = "BANK_EMPLOYEE_ONLY"
               /\ kind \in {"complaint", "myAccount"} => need = "CONSUMER_ONLY"
<1>1. PICK i \in DOMAIN Routes : Handling[call] = Routes[i]
  BY HandledByRoute
<1>2. call.form.kind \in Routes[i].serves
  BY <1>1, GatewayAssumption
<1>3. QED
  BY <1>1, <1>2, RouteNeeds

-----------------------------------------------------------------------------
(* What the router lets through.                                           *)

(* A request that is not open comes with a live token of the right role.   *)
LEMMA ScreenedToken ==
    ASSUME NEW call \in Calls, NEW token, Screen(call, token) = 200,
           call.form.kind \notin OpenKinds \cup {"report"}
    PROVE  /\ token \in issued
           /\ call.form.kind \in {"moderation", "triage"} => token.account = Empty
           /\ call.form.kind \in {"complaint", "myAccount"} => token.account # Empty
<1> DEFINE need == Handling[call].need
<1>1. Routing[call] = 200 /\ Authorize(need, token) = 200
  BY DEF Screen
<1>2. /\ need # "PUBLIC"
      /\ call.form.kind \in {"moderation", "triage"} => need = "BANK_EMPLOYEE_ONLY"
      /\ call.form.kind \in {"complaint", "myAccount"} => need = "CONSUMER_ONLY"
  BY <1>1, RoutedNeeds
<1> HIDE DEF need
<1>3. QED
  BY <1>1, <1>2 DEF Authorize, Live, TokenRole

(* What a handler works on after Filled.                                   *)
LEMMA FilledFields ==
    ASSUME NEW form, NEW user \in Names, NEW account \in Names,
           Filled(form, user, account) \in RequestTypes
    PROVE  LET r == Filled(form, user, account)
           IN  /\ r.kind = form.kind
               /\ r.kind = "complaint" => r.caller = account
               /\ r.kind = "transfer" /\ account # Empty => r.sender = account
               /\ r.kind = "me" => r.user = user
<1> DEFINE r == Filled(form, user, account)
<1>1. DOMAIN r = DOMAIN form
  BY DEF Filled
<1>2. "kind" \in DOMAIN r
  BY DEF RequestTypes, TransferRequest, ComplaintRequest, TriageRequest, ModerationRequest,
         RegistrationRequest, LoginRequest, ProfileRequest
<1>3. r.kind = form.kind
  BY <1>1, <1>2 DEF Filled
<1>4. /\ r.kind = "complaint" => r \in ComplaintRequest
      /\ r.kind = "transfer" => r \in TransferRequest
      /\ r.kind = "me" => r \in ProfileRequest
  BY DEF RequestTypes, TransferRequest, ComplaintRequest, TriageRequest, ModerationRequest,
         RegistrationRequest, LoginRequest, ProfileRequest
<1>5. /\ r.kind = "complaint" => "caller" \in DOMAIN form
      /\ r.kind = "transfer" => "sender" \in DOMAIN form
      /\ r.kind = "me" => "user" \in DOMAIN form
  BY <1>1, <1>4 DEF ComplaintRequest, TransferRequest, ProfileRequest
<1>6. r.kind = "complaint" => r.caller = account
  BY <1>3, <1>5 DEF Filled
<1>7. r.kind = "transfer" /\ account # Empty => r.sender = account
  BY <1>3, <1>5 DEF Filled
<1>8. r.kind = "me" => r.user = user
  BY <1>3, <1>5 DEF Filled
<1>9. QED
  BY <1>3, <1>6, <1>7, <1>8

(* The request that a thread starts on, and whose it is.                   *)
Admissible(r, token) ==
    r.kind \notin OpenKinds =>
        /\ token \in issued
        /\ r.kind \in {"moderation", "triage"} => token.account = Empty
        /\ r.kind \in {"complaint", "myAccount"} => token.account # Empty
        /\ r.kind = "complaint" => r.caller = token.account
        /\ r.kind = "transfer" /\ token.account # Empty => r.sender = token.account
        /\ r.kind = "me" => r.user = token.user

LEMMA AdmitsRequests ==
    ASSUME issued \subseteq Token, NEW call \in Calls, NEW token \in issued \cup {None},
           Admit(call, token)
    PROVE  \E t \in Threads, r \in Requests :
                /\ Accept(t, r)
                /\ bearer' = [bearer EXCEPT ![t] = token]
                /\ Admissible(r, token)
                /\ UNCHANGED <<storeVars, now, issued>>
<1>1. call.form.kind # "report" /\ Screen(call, token) = 200
  BY DEF Admit
<1>2. Routing[call] = 200
  BY <1>1 DEF Screen
<1>0. UNCHANGED <<storeVars, now, issued>>
  BY DEF Admit
<1>3. CASE call.form.kind \in OpenKinds
  <2>1. Entered(call.form, token) = call.form
    BY <1>3 DEF Entered
  <2>2. PICK t \in Threads : /\ Accept(t, Entered(call.form, token))
                             /\ bearer' = [bearer EXCEPT ![t] = token]
    BY DEF Admit
  <2>3. Accept(t, call.form)
    BY <2>1, <2>2 DEF Accept
  <2>4. call.form \in Requests /\ Admissible(call.form, token)
    BY <1>2, <1>3, GatewayAssumption DEF Admissible
  <2>5. QED
    BY <1>0, <2>2, <2>3, <2>4
<1>4. CASE call.form.kind \notin OpenKinds
  <2> DEFINE r == Filled(call.form, token.user, token.account)
  <2>1. /\ token \in issued
        /\ call.form.kind \in {"moderation", "triage"} => token.account = Empty
        /\ call.form.kind \in {"complaint", "myAccount"} => token.account # Empty
    BY <1>1, <1>4, ScreenedToken
  <2>2. token.user \in Names /\ token.account \in Names
    BY <2>1 DEF Token
  <2>3. r \in Requests
    BY <1>1, <1>2, <2>2, GatewayAssumption
  <2>4. r \in RequestTypes
    BY <2>3, WorkersAssumption
  <2>5. Admissible(r, token)
    BY <2>1, <2>2, <2>4, FilledFields DEF Admissible
  <2>6. PICK t \in Threads : Accept(t, r) /\ bearer' = [bearer EXCEPT ![t] = token]
    <3>1. Entered(call.form, token) = r
      BY <1>4 DEF Entered
    <3>2. \E t \in Threads : /\ Accept(t, Entered(call.form, token))
                              /\ bearer' = [bearer EXCEPT ![t] = token]
      BY DEF Admit
    <3>3. \A t \in Threads : Accept(t, Entered(call.form, token)) <=> Accept(t, r)
      BY <3>1 DEF Accept
    <3> HIDE DEF r
    <3> QED
      BY <3>2, <3>3
  <2>7. QED
    BY <1>0, <2>3, <2>5, <2>6
<1>5. QED
  BY <1>3, <1>4

(* A step behind the router is a step of the system of OnyxApi.            *)
LEMMA GatewayStep ==
    ASSUME issued \subseteq Token, GatewayNext
    PROVE  [Next]_vars
<1>1. ASSUME NEW call \in Calls, NEW token \in issued \cup {None}, Admit(call, token)
      PROVE  Next
  BY <1>1, AdmitsRequests DEF Next
<1>2. ASSUME NEW call \in Calls, NEW token \in issued \cup {None}, AnswerCall(call, token)
      PROVE  UNCHANGED vars
  BY <1>2 DEF AnswerCall
<1>3. ASSUME NEW t \in Threads, Work(t)
      PROVE  Next
  BY <1>3 DEF Work, Next
<1>4. CASE Tick
  BY <1>4 DEF Tick
<1>5. QED
  BY <1>1, <1>2, <1>3, <1>4 DEF GatewayNext

-----------------------------------------------------------------------------
(* Tokens and roles behind the router.                                     *)

(* A handler never changes the request it works on, and answers it last.   *)
LEMMA RequestKept ==
    ASSUME ThreadsTypeOK, NEW t \in Threads, Serve(t)
    PROVE  req' = req /\ (pc'[t] = "done" \/ answer' = answer)
<1>1. CASE \/ \E step, locals : Continue(t, step, locals)
           \/ \E code, tx : Reply(t, code, tx)
           \/ \E code, claims : Grant(t, code, claims)
  BY <1>1 DEF Continue, Reply, Grant, Respond, ThreadsTypeOK
<1>2. CASE TransferStep(t)
  BY <1>1, <1>2, ZenonT(60) DEF TransferStep, RefuseTransfer, ResolveReceiver, ResolveSender,
              CountReceiverComplaints, ReadReceiverHistory, ExecuteTransfer
<1>3. CASE ComplaintStep(t)
  BY <1>1, <1>3, ZenonT(60) DEF ComplaintStep, RefuseComplaint, FindSuspectByUpi, FindSuspectById,
              ProvisionSuspect, CheckOwnership, RecordComplaint, CountSuspectComplaints,
              TaintSuspect
<1>4. CASE TriageStep(t)
  BY <1>1, <1>4 DEF TriageStep, FindComplaint, SetComplaintStatus
<1>5. CASE ModerationStep(t)
  BY <1>1, <1>5, ZenonT(60) DEF ModerationStep, FindAccountToModerate, FindHandleToModerate,
              SetAccountStatus
<1>6. CASE RegistrationStep(t)
  BY <1>1, <1>6, ZenonT(60) DEF RegistrationStep, RefuseRegistration, CheckAccountUser,
              CheckNumberAsUsername, FindAccountToClaim, DeriveHandle, OpenAccount,
              CreateConsumer, CreateConsumerByNumber, CheckEmployeeUsername, CreateEmployee
<1>7. CASE LoginStep(t)
  BY <1>1, <1>7, LoginMoves
<1>8. CASE ProfileStep(t)
  BY <1>1, <1>8 DEF ProfileStep, GetMe, GetMyAccount
<1>9. QED
  BY <1>2, <1>3, <1>4, <1>5, <1>6, <1>7, <1>8 DEF Serve

LEMMA GrantedTokens ==
    ASSUME TypeInv', now \in Nat, NEW t \in Threads
    PROVE  GrantedBy(t) \subseteq Token
<1> SUFFICES ASSUME answer'[t] # None, answer'[t].token # None
             PROVE  Signed(answer'[t].token) \in Token
  BY DEF GrantedBy
<1>1. answer'[t] \in AnswerType
  BY DEF TypeInv, ThreadsTypeOK
<1>2. answer'[t].token \in Claims
  BY <1>1 DEF AnswerType
<1>3. now + Lifetime \in Nat
  BY GatewayAssumption
<1>4. QED
  BY <1>2, <1>3 DEF Signed, Claims, Token

LEMMA GatewayTokens ==
    ASSUME TypeInv, TypeInv', TokensSound, GatewayNext
    PROVE  TokensSound'
<1>1. ASSUME NEW call \in Calls, NEW token \in issued \cup {None}, Admit(call, token)
      PROVE  TokensSound'
  BY <1>1, AdmitsRequests DEF TokensSound
<1>2. ASSUME NEW call \in Calls, NEW token \in issued \cup {None}, AnswerCall(call, token)
      PROVE  TokensSound'
  BY <1>2 DEF AnswerCall, gatewayVars, TokensSound
<1>3. ASSUME NEW t \in Threads, Work(t)
      PROVE  TokensSound'
  <2>1. GrantedBy(t) \subseteq Token
    BY GrantedTokens DEF TokensSound
  <2>2. QED
    BY <1>3, <2>1 DEF Work, TokensSound
<1>4. CASE Tick
  BY <1>4 DEF Tick, TokensSound
<1>5. QED
  BY <1>1, <1>2, <1>3, <1>4 DEF GatewayNext

LEMMA GatewayRoles ==
    ASSUME TypeInv, TokensSound, RolesKept, GatewayNext
    PROVE  RolesKept'
<1>1. ASSUME NEW call \in Calls, NEW token \in issued \cup {None}, Admit(call, token)
      PROVE  RolesKept'
  <2>1. PICK t \in Threads, r \in Requests :
                /\ Accept(t, r)
                /\ bearer' = [bearer EXCEPT ![t] = token]
                /\ Admissible(r, token)
                /\ UNCHANGED <<storeVars, now, issued>>
    BY <1>1, AdmitsRequests DEF TokensSound
  <2>2. /\ req'[t] = r /\ bearer'[t] = token
        /\ \A u \in Threads \ {t} : req'[u] = req[u] /\ bearer'[u] = bearer[u]
    BY <2>1 DEF Accept, TypeInv, ThreadsTypeOK, TokensSound
  <2>3. QED
    BY <2>1, <2>2 DEF RolesKept, Admissible
<1>2. CASE UNCHANGED <<req, bearer, issued>>
  BY <1>2 DEF RolesKept
<1>3. ASSUME NEW call \in Calls, NEW token \in issued \cup {None}, AnswerCall(call, token)
      PROVE  RolesKept'
  BY <1>2, <1>3 DEF AnswerCall, vars, threadVars, gatewayVars
<1>4. ASSUME NEW t \in Threads, Work(t)
      PROVE  RolesKept'
  <2>1. req' = req /\ bearer' = bearer /\ issued \subseteq issued'
    BY <1>4, RequestKept DEF Work, TypeInv
  <2>2. QED
    BY <2>1 DEF RolesKept
<1>5. CASE Tick
  BY <1>2, <1>5 DEF Tick, vars, threadVars
<1>6. QED
  BY <1>1, <1>3, <1>4, <1>5 DEF GatewayNext

-----------------------------------------------------------------------------
(* Start-up.                                                               *)

TablesSound == StoreTypeOK /\ NoOverdraft /\ UsersIndexed

LEMMA EmptyTablesSound == EmptyTables => TablesSound
BY DEF EmptyTables, TablesSound, StoreTypeOK, AccountsTypeOK, LedgerTypeOK,
       ComplaintsTypeOK, UsersTypeOK, IsMap, NoOverdraft, UsersIndexed

LEMMA TablesFrame ==
    /\ TablesSound => AccountsTypeOK /\ LedgerTypeOK /\ ComplaintsTypeOK /\ UsersTypeOK
    /\ NoOverdraft /\ UNCHANGED accountVars => NoOverdraft'
    /\ UsersIndexed /\ UNCHANGED userVars => UsersIndexed'
    /\ TablesSound /\ UNCHANGED storeVars => TablesSound'
<1>1. NoOverdraft /\ UNCHANGED accountVars => NoOverdraft'
  BY DEF accountVars, NoOverdraft
<1>2. UsersIndexed /\ UNCHANGED userVars => UsersIndexed'
  BY DEF userVars, UsersIndexed
<1>3. QED
  BY <1>1, <1>2, StoreFrame DEF TablesSound, StoreTypeOK, storeVars

LEMMA CreateUserIndexed ==
    ASSUME UsersIndexed, NEW id \in Names, NEW user \in User, CreateUser(id, user)
    PROVE  UsersIndexed'
<1>1. CASE UsernameTaken(user.username)
  BY <1>1 DEF CreateUser, userVars, UsersIndexed
<1>2. CASE ~UsernameTaken(user.username)
  <2>1. /\ DOMAIN users' = DOMAIN users \cup {id}
        /\ users'[id] = user
        /\ \A u \in DOMAIN users \ {id} : users'[u] = users[u]
    BY <1>2 DEF CreateUser, Put
  <2>2. /\ DOMAIN userIndex' = DOMAIN userIndex \cup {user.username}
        /\ userIndex'[user.username] = id
        /\ \A n \in DOMAIN userIndex : userIndex'[n] = userIndex[n]
    BY <1>2 DEF CreateUser, UsernameTaken, Put
  <2>3. QED
    BY <2>1, <2>2 DEF UsersIndexed
<1>3. QED
  BY <1>1, <1>2

LEMMA UpdateAccountType ==
    ASSUME AccountsTypeOK, NEW id, NEW account \in Account, UpdateAccount(id, account)
    PROVE  AccountsTypeOK'
<1>1. CASE id \notin DOMAIN accounts
  BY <1>1 DEF UpdateAccount, accountVars, AccountsTypeOK, IsMap
<1>2. CASE id \in DOMAIN accounts
  <2> DEFINE old == accounts[id].upi
             kept == IF old \in {Empty, account.upi} THEN upiIndex
                     ELSE [u \in DOMAIN upiIndex \ {old} |-> upiIndex[u]]
  <2>1. IsMap(accounts', Names, Account)
    BY <1>2 DEF UpdateAccount, AccountsTypeOK, IsMap
  <2>2. IsMap(kept, Names, Names)
    BY DEF AccountsTypeOK, IsMap
  <2>3. upiIndex' = IF account.upi = Empty THEN kept ELSE Put(kept, account.upi, id)
    BY <1>2 DEF UpdateAccount
  <2>4. account.upi \in Names /\ id \in Names
    BY <1>2 DEF Account, AccountsTypeOK, IsMap
  <2> HIDE DEF kept
  <2>5. IsMap(upiIndex', Names, Names)
    BY <2>2, <2>3, <2>4, PutMap
  <2>6. QED
    BY <2>1, <2>5 DEF AccountsTypeOK, IsMap
<1>3. QED
  BY <1>1, <1>2

LEMMA SeedsTables ==
    ASSUME SeedDefaultData
    PROVE  TablesSound'
<1>1. IsMap(upiIndex', Names, Names)
  <2> DEFINE Upis == {DefaultAccounts[i].upi : i \in DOMAIN DefaultAccounts}
  <2>1. Upis \subseteq Names
    BY BootAssumption DEF IsMap, Account
  <2>2. \A k \in Upis :
            (CHOOSE i \in DOMAIN DefaultAccounts : DefaultAccounts[i].upi = k) \in Names
    BY BootAssumption DEF IsMap
  <2>3. QED
    BY <2>1, <2>2 DEF SeedDefaultData, KeyOf, IsMap
<1>2. IsMap(accounts', Names, Account) /\ NoOverdraft'
  BY BootAssumption DEF SeedDefaultData, NoOverdraft
<1>3. AccountsTypeOK'
  BY <1>1, <1>2 DEF AccountsTypeOK, IsMap
<1>4. LedgerTypeOK'
  BY BootAssumption DEF SeedDefaultData, LedgerTypeOK, IsMap
<1>5. ComplaintsTypeOK'
  BY DEF SeedDefaultData, ComplaintsTypeOK, IsMap
<1>6. UsersTypeOK'
  <2> DEFINE Usernames == {DefaultUsers[i].username : i \in DOMAIN DefaultUsers}
  <2>1. Usernames \subseteq Names
    BY BootAssumption DEF IsMap, User
  <2>2. \A k \in Usernames :
            (CHOOSE i \in DOMAIN DefaultUsers : DefaultUsers[i].username = k) \in Names
    BY BootAssumption DEF IsMap
  <2>3. IsMap(userIndex', Names, Names)
    BY <2>1, <2>2 DEF SeedDefaultData, KeyOf, IsMap
  <2>4. QED
    BY <2>3, BootAssumption DEF SeedDefaultData, UsersTypeOK, IsMap
<1>7. UsersIndexed'
  <2>1. \A u, v \in DOMAIN DefaultUsers :
            DefaultUsers[u].username = DefaultUsers[v].username => u = v
    BY BootAssumption
  <2>2. users' = DefaultUsers
    BY DEF SeedDefaultData
  <2>3. /\ DOMAIN userIndex' = {DefaultUsers[i].username : i \in DOMAIN DefaultUsers}
        /\ \A k \in DOMAIN userIndex' : userIndex'[k] =
                CHOOSE i \in DOMAIN DefaultUsers : DefaultUsers[i].username = k
    BY DEF SeedDefaultData, KeyOf
  <2>4. QED
    BY <2>1, <2>2, <2>3 DEF UsersIndexed
<1>8. QED
  BY <1>2, <1>3, <1>4, <1>5, <1>6, <1>7 DEF TablesSound, StoreTypeOK

LEMMA LoadsAccounts ==
    ASSUME TablesSound, LoadAccount
    PROVE  TablesSound'
<1> DEFINE row == Dataset[at]
           account == LoadedAccount(row)
           user == LoadedUser(row)
<1>0. AccountsTypeOK /\ LedgerTypeOK /\ ComplaintsTypeOK /\ UsersTypeOK
  BY TablesFrame
<1>1. row \in DatasetRow
  BY DatasetAssumption DEF LoadAccount
<1>2. account \in Account /\ account.balance = 0
  <2>1. PercentRisk(row.risk) \in Int
    BY <1>1 DEF DatasetRow, PercentRisk
  <2>2. QED
    BY <1>1, <2>1 DEF LoadedAccount, DatasetRow, Account
<1>3. user \in User
  <2>1. "password123" \in Names
    BY DatasetAssumption
  <2>2. QED
    BY <1>1, <2>1, StoreAssumption DEF LoadedUser, UserOf, DatasetRow, User
<1>4. /\ accounts' = Put(accounts, row.id, account)
      /\ upiIndex' = Put(upiIndex, row.upi, row.id)
      /\ UNCHANGED <<ledgerVars, complaintVars>>
  BY DEF LoadAccount
<1>5. CreateUser(row.id, user)
  BY DEF LoadAccount, CreateUser
<1>6. row.id \in Names /\ row.upi \in Names
  BY <1>1 DEF DatasetRow
<1> HIDE DEF row, account, user
<1>7. AccountsTypeOK'
  BY <1>0, <1>2, <1>4, <1>6, PutMap DEF AccountsTypeOK
<1>8. NoOverdraft'
  BY <1>2, <1>4 DEF Put, NoOverdraft, TablesSound
<1>9. UsersTypeOK' /\ UsersIndexed'
  BY <1>0, <1>3, <1>5, <1>6, CreateUserType, CreateUserIndexed DEF TablesSound
<1>10. LedgerTypeOK' /\ ComplaintsTypeOK'
  BY <1>0, <1>4, StoreFrame
<1>11. QED
  BY <1>7, <1>8, <1>9, <1>10 DEF TablesSound, StoreTypeOK

LEMMA LoadsPayments ==
    ASSUME TablesSound, LoadPayment
    PROVE  TablesSound'
<1> DEFINE pay == DatasetPays[at]
           id == Len(transactions) + 1
<1>0. AccountsTypeOK /\ LedgerTypeOK /\ ComplaintsTypeOK /\ UsersTypeOK
  BY TablesFrame
<1>1. pay \in Transaction
  BY DatasetAssumption DEF LoadPayment
<1>2. transactions' \in Seq(Transaction)
  BY <1>0, <1>1 DEF LoadPayment, LedgerTypeOK
<1>3. txIndex' \in [Names -> Seq(Nat)]
  <2>1. id \in Nat
    BY <1>0 DEF LedgerTypeOK
  <2>2. \A seq \in Seq(Nat) : Append(seq, id) \in Seq(Nat)
    BY <2>1, AppendType
  <2>3. pay.sender \in Names /\ pay.receiver \in Names
    BY <1>1 DEF Transaction
  <2>4. txIndex' = [txIndex EXCEPT ![pay.sender] = Append(@, id),
                                   ![pay.receiver] = Append(@, id)]
    BY DEF LoadPayment, IndexedUnder
  <2>5. txIndex \in [Names -> Seq(Nat)]
    BY <1>0 DEF LedgerTypeOK
  <2> HIDE DEF id, pay
  <2>6. QED
    BY <2>2, <2>3, <2>4, <2>5
<1>4. LedgerTypeOK'
  BY <1>0, <1>2, <1>3 DEF LoadPayment, LedgerTypeOK, IsMap
<1>5. UNCHANGED <<accountVars, complaintVars, userVars>>
  BY DEF LoadPayment
<1>6. QED
  BY <1>0, <1>4, <1>5, StoreFrame, TablesFrame DEF TablesSound, StoreTypeOK

LEMMA RefreshedAccount ==
    ASSUME NEW a, accounts[a] \in Account, NEW demo, demo.account \in Account
    PROVE  /\ Refreshed(a, demo) \in Account
           /\ Refreshed(a, demo).balance \in {accounts[a].balance, demo.account.balance}
BY DEF Account, Refreshed

LEMMA EnsuresAccounts ==
    ASSUME TablesSound, EnsureAccount
    PROVE  TablesSound'
<1> DEFINE demo == DemoAccounts[at]
<1>0. AccountsTypeOK /\ LedgerTypeOK /\ ComplaintsTypeOK /\ UsersTypeOK
  BY TablesFrame
<1>1. /\ demo.id \in Names
      /\ demo.account \in Account
      /\ demo.account.balance >= 0
  BY BootAssumption DEF EnsureAccount
<1>2. \/ CreateAccount(demo.id, demo.account)
      \/ UNCHANGED accountVars
      \/ \E a \in Names : UpdateAccount(a, Refreshed(a, demo))
  <2>1. FindAccountById(demo.id) \subseteq Names
    BY <1>0, <1>1, FindAccountByIdType DEF AccountsTypeOK, IsMap
  <2>2. FindAccountByUpi(demo.account.upi) \subseteq Names
    BY <1>0, <1>1, FindAccountByUpiType DEF Account, AccountsTypeOK, IsMap
  <2>3. QED
    BY <2>1, <2>2 DEF EnsureAccount
<1>3. UNCHANGED <<ledgerVars, complaintVars, userVars>>
  BY DEF EnsureAccount
<1> HIDE DEF demo
<1>4. AccountsTypeOK' /\ NoOverdraft'
  <2>1. CASE CreateAccount(demo.id, demo.account)
    <3>1. AccountsTypeOK'
      BY <1>0, <1>1, <2>1, CreateAccountType
    <3>2. NoOverdraft'
      BY <1>1, <2>1 DEF CreateAccount, Put, accountVars, NoOverdraft, TablesSound
    <3>3. QED
      BY <3>1, <3>2
  <2>2. CASE UNCHANGED accountVars
    BY <1>0, <2>2, StoreFrame, TablesFrame DEF TablesSound
  <2>3. ASSUME NEW a \in Names, UpdateAccount(a, Refreshed(a, demo))
        PROVE  AccountsTypeOK' /\ NoOverdraft'
    <3> DEFINE z == Refreshed(a, demo)
    <3>1. CASE a \notin DOMAIN accounts
      <4>1. UNCHANGED accountVars
        BY <2>3, <3>1 DEF UpdateAccount
      <4>2. QED
        BY <2>2, <4>1
    <3>2. CASE a \in DOMAIN accounts
      <4>1. accounts[a] \in Account /\ accounts[a].balance >= 0
        BY <1>0, <3>2 DEF AccountsTypeOK, IsMap, TablesSound, NoOverdraft
      <4>2. z \in Account /\ z.balance \in {accounts[a].balance, demo.account.balance}
        BY <1>1, <4>1, RefreshedAccount
      <4>3. UpdateAccount(a, z)
        BY <2>3
      <4> HIDE DEF z
      <4>4. AccountsTypeOK'
        BY <1>0, <4>2, <4>3, UpdateAccountType
      <4>5. accounts' = [accounts EXCEPT ![a] = z]
        BY <3>2, <4>3 DEF UpdateAccount
      <4>6. NoOverdraft'
        <5>1. z.balance >= 0
          BY <1>1, <4>1, <4>2
        <5>2. QED
          BY <4>5, <5>1 DEF NoOverdraft, TablesSound
      <4>7. QED
        BY <4>4, <4>6
    <3>3. QED
      BY <3>1, <3>2
  <2>4. QED
    BY <1>2, <2>1, <2>2, <2>3
<1>5. QED
  BY <1>0, <1>3, <1>4, StoreFrame, TablesFrame DEF TablesSound, StoreTypeOK

LEMMA EnsuresUsers ==
    ASSUME TablesSound, EnsureUser
    PROVE  TablesSound'
<1> DEFINE demo == DemoUsers[at]
<1>0. AccountsTypeOK /\ LedgerTypeOK /\ ComplaintsTypeOK /\ UsersTypeOK
  BY TablesFrame
<1>1. demo.id \in Names /\ demo.user \in User
  BY BootAssumption DEF EnsureUser
<1>2. /\ CreateUser(demo.id, demo.user) \/ UNCHANGED userVars
      /\ UNCHANGED <<accountVars, ledgerVars, complaintVars>>
  BY DEF EnsureUser
<1> HIDE DEF demo
<1>3. UsersTypeOK' /\ UsersIndexed'
  BY <1>0, <1>1, <1>2, CreateUserType, CreateUserIndexed, StoreFrame, TablesFrame
  DEF TablesSound
<1>4. QED
  BY <1>0, <1>2, <1>3, StoreFrame, TablesFrame DEF TablesSound, StoreTypeOK

LEMMA SeedsComplaints ==
    ASSUME TablesSound, SeedComplaints
    PROVE  TablesSound'
<1>0. AccountsTypeOK /\ LedgerTypeOK /\ ComplaintsTypeOK /\ UsersTypeOK
  BY TablesFrame
<1>1. complaintOrder' \in Seq(ComplaintIds)
  <2>1. {"CMP-102", "CMP-101", "CMP-100"} \subseteq ComplaintIds
    BY BootAssumption DEF IsMap, DemoComplaints
  <2>2. QED
    BY <2>1 DEF SeedComplaints
<1>2. ComplaintsTypeOK'
  BY <1>1, BootAssumption DEF SeedComplaints, ComplaintsTypeOK, IsMap
<1>3. UNCHANGED <<accountVars, ledgerVars, userVars>>
  BY DEF SeedComplaints
<1>4. QED
  BY <1>0, <1>2, <1>3, StoreFrame, TablesFrame DEF TablesSound, StoreTypeOK

LEMMA StartsUp ==
    ASSUME TablesSound, StartUp
    PROVE  TablesSound' /\ BootStep
<1>1. CASE SeedDefaultData
  BY <1>1, SeedsTables DEF SeedDefaultData
<1>2. CASE LoadAccount
  BY <1>2, LoadsAccounts DEF LoadAccount
<1>3. CASE AccountsLoaded \/ LoadEnds
  BY <1>3, TablesFrame DEF AccountsLoaded, LoadEnds
<1>4. CASE LoadPayment
  BY <1>4, LoadsPayments DEF LoadPayment
<1>5. CASE EnsureAccount
  BY <1>5, EnsuresAccounts DEF EnsureAccount
<1>6. CASE EnsureUser
  BY <1>6, EnsuresUsers DEF EnsureUser
<1>7. CASE SeedComplaints
  BY <1>7, SeedsComplaints DEF SeedComplaints
<1>8. QED
  BY <1>1, <1>2, <1>3, <1>4, <1>5, <1>6, <1>7 DEF StartUp

-----------------------------------------------------------------------------
(* The life of the process.                                                *)

SystemInv ==
    /\ TablesSound
    /\ ThreadsTypeOK /\ ThreadsSound
    /\ TokensSound
    /\ RolesKept

LEMMA SystemInvTypes == SystemInv => TypeInv
BY DEF SystemInv, TablesSound, TypeInv

LEMMA InitSystemInv == SystemInit => SystemInv
<1> SUFFICES ASSUME SystemInit
             PROVE  SystemInv
  OBVIOUS
<1>1. TablesSound
  BY EmptyTablesSound DEF SystemInit, ProcessStart
<1>2. ThreadsTypeOK /\ ThreadsSound
  BY AllSteps, StopSound, BlankType
  DEF SystemInit, ProcessStart, WorkersInit, ThreadsTypeOK, ThreadsSound
<1>3. TokensSound
  BY DEF SystemInit, GatewayInit, TokensSound
<1>4. RolesKept
  BY DEF SystemInit, ProcessStart, WorkersInit, RolesKept
<1>5. QED
  BY <1>1, <1>2, <1>3, <1>4 DEF SystemInv

LEMMA StepSystemInv == SystemInv /\ [SystemNext]_systemVars => SystemInv'
<1> SUFFICES ASSUME SystemInv, [SystemNext]_systemVars
             PROVE  SystemInv'
  OBVIOUS
<1>1. TypeInv
  BY SystemInvTypes
<1>2. CASE UNCHANGED threadVars /\ UNCHANGED gatewayVars /\ TablesSound'
  <2>1. ThreadsTypeOK' /\ ThreadsSound'
    BY <1>2 DEF SystemInv, threadVars, ThreadsTypeOK, ThreadsSound
  <2>2. TokensSound' /\ RolesKept'
    BY <1>2 DEF SystemInv, threadVars, gatewayVars, TokensSound, RolesKept
  <2>3. QED
    BY <1>2, <2>1, <2>2 DEF SystemInv
<1>3. CASE StartUp
  BY <1>2, <1>3, StartsUp DEF SystemInv, BootStep
<1>4. CASE ServeCalls
  <2>1. GatewayNext /\ TokensSound /\ RolesKept
    BY <1>4 DEF ServeCalls, SystemInv
  <2>2. [Next]_vars
    BY <2>1, GatewayStep DEF TokensSound
  <2>3. TypeInv'
    BY <1>1, <2>2, StepTypeInv
  <2>4. NoOverdraft' /\ UsersIndexed'
    BY <1>1, <2>2, StepNoOverdraft, StepUsersIndexed DEF SystemInv, TablesSound
  <2>5. TokensSound'
    BY <1>1, <2>1, <2>3, GatewayTokens
  <2>6. RolesKept'
    BY <1>1, <2>1, GatewayRoles
  <2>7. QED
    BY <2>3, <2>4, <2>5, <2>6 DEF SystemInv, TablesSound, TypeInv
<1>5. CASE Restart
  <2>1. TablesSound'
    BY <1>5 DEF Restart, TablesSound, StoreTypeOK, AccountsTypeOK, LedgerTypeOK,
                ComplaintsTypeOK, UsersTypeOK, IsMap, NoOverdraft, UsersIndexed
  <2>2. ThreadsTypeOK' /\ ThreadsSound'
    BY <1>5, AllSteps, StopSound, BlankType DEF Restart, ThreadsTypeOK, ThreadsSound
  <2>3. TokensSound' /\ RolesKept'
    BY <1>5 DEF SystemInv, Restart, TokensSound, RolesKept
  <2>4. QED
    BY <2>1, <2>2, <2>3 DEF SystemInv
<1>6. CASE UNCHANGED systemVars
  BY <1>2, <1>6, TablesFrame DEF systemVars, vars, SystemInv
<1>7. QED
  BY <1>3, <1>4, <1>5, <1>6 DEF SystemNext

LEMMA SystemInvHolds == SystemSpec => []SystemInv
BY InitSystemInv, StepSystemInv, PTL DEF SystemSpec

(* Nobody does what the role of its token does not allow, nor in another's *)
(* name, whatever tokens are about, expired ones and those of a process    *)
(* that is gone among them.                                                *)
THEOREM RolesEnforced == SystemSpec => []RolesKept
<1>1. SystemInv => RolesKept
  BY DEF SystemInv
<1>2. QED
  BY <1>1, SystemInvHolds, PTL

(* No account is overdrawn at any time in the life of the process, however *)
(* far the dataset was read.                                               *)
THEOREM SystemNeverOverdrawn == SystemSpec => []NoOverdraft
<1>1. SystemInv => NoOverdraft
  BY DEF SystemInv, TablesSound
<1>2. QED
  BY <1>1, SystemInvHolds, PTL

(* The users of the store, of the dataset, of main() and of those who sign *)
(* up never share a username, although each source checks for itself.      *)
THEOREM SystemUsernamesUnique == SystemSpec => []UsersCanLogIn
<1>1. SystemInv => UsersCanLogIn
  BY IndexedCanLogIn DEF SystemInv, TablesSound
<1>2. QED
  BY <1>1, SystemInvHolds, PTL

-----------------------------------------------------------------------------
(* The steps of the system, as the invariants below see them.              *)

LEMMA SystemSteps ==
    ASSUME SystemInv, [SystemNext]_systemVars
    PROVE  \/ UNCHANGED systemVars
           \/ StartUp /\ ~Serving /\ BootStep
           \/ Serving /\ Serving' /\ ServeCalls /\ [Next]_vars
           \/ Restart
<1>1. CASE StartUp
  <2>1. ~Serving
    BY <1>1 DEF Serving, StartUp, SeedDefaultData, LoadAccount, AccountsLoaded, LoadPayment,
                LoadEnds, EnsureAccount, EnsureUser, SeedComplaints
  <2>2. BootStep
    BY <1>1, StartsUp DEF SystemInv
  <2>3. QED
    BY <1>1, <2>1, <2>2
<1>2. CASE ServeCalls
  <2>1. [Next]_vars
    BY <1>2, GatewayStep DEF ServeCalls, SystemInv, TokensSound
  <2>2. QED
    BY <1>2, <2>1 DEF ServeCalls, Serving
<1>3. QED
  BY <1>1, <1>2 DEF SystemNext

-----------------------------------------------------------------------------
(* The users that are there from the start.                                *)

Has(id, user) == id \in DOMAIN users /\ users[id] = user

(* Whoever bears the username of a demo user is that user, and the         *)
(* default and demo users are there once they have been made.              *)
ResidentsInv ==
    phase # "construct" =>
        /\ \A u \in DOMAIN DefaultUsers : Has(u, DefaultUsers[u])
        /\ \A i \in DOMAIN DemoUsers :
            LET demo == DemoUsers[i]
            IN  \/ UsernameTaken(demo.user.username)
                \/ phase = "demoUsers" /\ i < at
                \/ phase \in {"demoComplaints", "serving"}
                => Has(demo.id, demo.user)

(* The ids under which people sign up are none of the users' that are      *)
(* there: a consumer's is its account number, and overwrites.              *)
SignUpsApart(ids) == \A r \in Requests : r.kind = "consumer" => r.number \notin ids

-----------------------------------------------------------------------------
(* The accounts that are there from the start.                             *)

Keyed(a) == Key(a, accounts[a].upi) \in SeedKeys

DemoMade(i) ==
    \/ phase = "demoAccounts" /\ i < at
    \/ phase \in {"demoUsers", "demoComplaints"}

(* While the process starts, every account is one of a source and bears a  *)
(* handle of its own, the rows to come are new, and what is to refer to an *)
(* account finds it.                                                       *)
SeededInv ==
    ~Serving =>
        /\ \A t \in Threads : pc[t] \in {"idle", "done"}
        /\ \A a \in DOMAIN accounts : Keyed(a)
        /\ phase # "construct" => DOMAIN DefaultAccounts \subseteq DOMAIN accounts
        /\ phase = "loadAccounts" =>
                \A i \in DOMAIN Dataset : at <= i => Dataset[i].id \notin DOMAIN accounts
        /\ \A i \in DOMAIN DemoAccounts :
                DemoMade(i) /\ DemoAccounts[i].by = "id" => DemoAccounts[i].id \in DOMAIN accounts

SeedUsersInv ==
    \A u \in SeededUsers \cap DOMAIN users :
        users[u].account \in DOMAIN accounts \cup {Empty}

SerialInv ==
    /\ Alone /\ AllFresh /\ IndexAlive
    /\ \A t \in Threads : ExternalEarly(t)

StoreInv ==
    AccountsReachable /\ HandlesSound /\ ComplaintSuspectExists

(* Who signs up is written under a number that was asked for, or under the *)
(* id of an employee.                                                      *)
LEMMA UserIdsWritten ==
    ASSUME TypeInv, [Next]_vars
    PROVE  \/ UNCHANGED userVars
           \/ \E id, user : /\ CreateUser(id, user)
                            /\ \/ id \in EmployeeIds
                               \/ \E r \in Requests : r.kind = "consumer" /\ r.number = id
<1>1. ASSUME NEW t \in Threads, CreateConsumer(t) \/ CreateConsumerByNumber(t)
      PROVE  \E id, user : /\ CreateUser(id, user)
                           /\ \E r \in Requests : r.kind = "consumer" /\ r.number = id
  <2>1. StepSound(pc[t], req[t], local[t]) /\ pc[t] \in {"createUser", "createUserByNumber"}
    BY <1>1 DEF CreateConsumer, CreateConsumerByNumber, TypeInv, ThreadsSound
  <2>2. /\ req[t] \in RegistrationRequest /\ req[t].kind = "consumer"
        /\ req[t] \in Requests \cup {None}
    BY <2>1 DEF StepSound, ConsumerSteps, TypeInv, ThreadsTypeOK
  <2>3. req[t] \in Requests
    BY <2>2, WorkersAssumption DEF RequestTypes
  <2>4. QED
    BY <1>1, <2>2, <2>3 DEF CreateConsumer, CreateConsumerByNumber
<1>2. ASSUME NEW t \in Threads, CreateEmployee(t)
      PROVE  \E id \in EmployeeIds : \E user : CreateUser(id, user)
  BY <1>2 DEF CreateEmployee
<1>3. UNCHANGED storeVars => UNCHANGED userVars
  BY DEF storeVars
<1>4. ASSUME NEW t \in Threads, Serve(t),
             ~(CreateConsumer(t) \/ CreateConsumerByNumber(t) \/ CreateEmployee(t))
      PROVE  UNCHANGED userVars
  BY <1>4, Writers
  DEF storeVars, ProvisionSuspect, RecordComplaint, TaintSuspect, SetComplaintStatus,
      SetAccountStatus, OpenAccount, ExecuteTransfer
<1>5. QED
  BY <1>1, <1>2, <1>3, <1>4, Steppers

(* So who is there from the start stays as it is.                          *)
LEMMA SeedsNotWritten ==
    ASSUME NEW ids \in SUBSET SeededUsers, SignUpsApart(ids), TypeInv, [Next]_vars,
           NEW u \in ids
    PROVE  /\ u \in DOMAIN users <=> u \in DOMAIN users'
           /\ u \in DOMAIN users => users'[u] = users[u]
<1>1. CASE UNCHANGED userVars
  BY <1>1 DEF userVars
<1>2. ASSUME NEW id, NEW user, CreateUser(id, user),
             \/ id \in EmployeeIds
             \/ \E r \in Requests : r.kind = "consumer" /\ r.number = id
      PROVE  /\ u \in DOMAIN users <=> u \in DOMAIN users'
             /\ u \in DOMAIN users => users'[u] = users[u]
  <2>1. u # id
    BY <1>2, SeedUsersAssumption DEF SignUpsApart
  <2>2. QED
    BY <1>2, <2>1 DEF CreateUser, Put, userVars
<1>3. QED
  BY <1>1, <1>2, UserIdsWritten

LEMMA ResidentIds ==
    /\ DOMAIN DefaultUsers \subseteq ResidentUsers
    /\ \A i \in DOMAIN DemoUsers : DemoUsers[i].id \in ResidentUsers
    /\ ResidentUsers \subseteq SeededUsers
BY DEF ResidentUsers, SeededUsers

(* In one step a user that is not written stays, and a username that was   *)
(* not asked for is taken only if it was.                                  *)
LEMMA UserCreated ==
    ASSUME NEW id, NEW user, CreateUser(id, user)
    PROVE  /\ \A v, other : Has(v, other) /\ v # id => Has(v, other)'
           /\ \A n : UsernameTaken(n)' => UsernameTaken(n) \/ n = user.username
           /\ ~UsernameTaken(user.username) => Has(id, user)'
BY DEF CreateUser, Put, userVars, Has, UsernameTaken

LEMMA DemoUsersSize == DOMAIN DemoUsers = 1..Len(DemoUsers) /\ Len(DemoUsers) = 4
BY DEF DemoUsers

LEMMA ResidentsLoad ==
    ASSUME ResidentsInv, LoadAccount
    PROVE  ResidentsInv'
<1> DEFINE row == Dataset[at]
           user == LoadedUser(row)
<1>1. CreateUser(row.id, user) /\ phase = "loadAccounts" /\ phase' = "loadAccounts"
  BY DEF LoadAccount, CreateUser, NextItem
<1>2. /\ user.username = row.upi
      /\ row.id \notin ResidentUsers
      /\ \A j \in DOMAIN DemoUsers : row.upi # DemoUsers[j].user.username
  BY SeedUsersAssumption DEF LoadAccount, LoadedUser, UserOf
<1> HIDE DEF row, user
<1>3. \A v \in ResidentUsers : \A other : Has(v, other) => Has(v, other)'
  BY <1>1, <1>2, UserCreated
<1>4. \A i \in DOMAIN DemoUsers :
        UsernameTaken(DemoUsers[i].user.username)' => UsernameTaken(DemoUsers[i].user.username)
  BY <1>1, <1>2, UserCreated
<1>5. QED
  BY <1>1, <1>3, <1>4, ResidentIds DEF ResidentsInv

LEMMA ResidentsEnsure ==
    ASSUME SystemInv, ResidentsInv, EnsureUser
    PROVE  ResidentsInv'
<1>0. PICK n \in DOMAIN DemoUsers : n = at
  BY DEF EnsureUser
<1> DEFINE demo == DemoUsers[n]
           Named(i) == DemoUsers[i].user.username
<1>1. /\ phase = "demoUsers"
      /\ IF FindUserByUsername(demo.user.username) = {} THEN CreateUser(demo.id, demo.user)
                                                          ELSE UNCHANGED userVars
      /\ \/ at = Len(DemoUsers) /\ phase' = "demoComplaints"
         \/ at # Len(DemoUsers) /\ phase' = "demoUsers" /\ at' = at + 1
  BY <1>0 DEF EnsureUser, GoToPhase, NextItem
<1>2. /\ \A u \in DOMAIN DefaultUsers : Has(u, DefaultUsers[u])
      /\ \A i \in DOMAIN DemoUsers :
            UsernameTaken(Named(i)) \/ i < at => Has(DemoUsers[i].id, DemoUsers[i].user)
  BY <1>1 DEF ResidentsInv
<1>3. UsernameTaken(demo.user.username) => demo.id \in FindUserByUsername(demo.user.username)
  <2>1. UsersIndexed
    BY DEF SystemInv, TablesSound
  <2>2. QED
    BY <1>1, <1>2, <2>1 DEF Has, UsersIndexed, FindUserByUsername
<1>4. /\ \A u \in DOMAIN DefaultUsers : Has(u, DefaultUsers[u])'
      /\ \A i \in DOMAIN DemoUsers :
            UsernameTaken(Named(i))' \/ i < at \/ i = n => Has(DemoUsers[i].id, DemoUsers[i].user)'
  <2>1. CASE UsernameTaken(demo.user.username)
    <3>1. UNCHANGED userVars
      BY <1>1, <1>3, <2>1
    <3>2. /\ \A v, other : Has(v, other) => Has(v, other)'
          /\ \A name : UsernameTaken(name)' => UsernameTaken(name)
      BY <3>1 DEF userVars, Has, UsernameTaken
    <3>3. QED
      BY <1>1, <1>2, <2>1, <3>2
  <2>2. CASE ~UsernameTaken(demo.user.username)
    <3>1. CreateUser(demo.id, demo.user)
      BY <1>1, <2>2 DEF FindUserByUsername, UsernameTaken
    <3>2. demo.id \notin DOMAIN DefaultUsers
      <4>1. ASSUME demo.id \in DOMAIN DefaultUsers
            PROVE  FALSE
        <5>1. demo.user = DefaultUsers[demo.id] /\ Has(demo.id, demo.user)
          BY <1>1, <1>2, <4>1, SeedUsersAssumption
        <5>2. QED
          BY <2>2, <5>1 DEF SystemInv, TablesSound, UsersIndexed, Has, UsernameTaken
      <4>2. QED
        BY <4>1
    <3>3. \A i \in DOMAIN DemoUsers :
            DemoUsers[i].id = demo.id \/ Named(i) = demo.user.username => i = n
      BY SeedUsersAssumption
    <3> HIDE DEF demo, Named
    <3>4. Has(demo.id, demo.user)'
      BY <2>2, <3>1, UserCreated
    <3>5. \A u \in DOMAIN DefaultUsers : Has(u, DefaultUsers[u])'
      BY <1>2, <3>1, <3>2, UserCreated
    <3>6. ASSUME NEW i \in DOMAIN DemoUsers, i # n, UsernameTaken(Named(i))' \/ i < at
          PROVE  Has(DemoUsers[i].id, DemoUsers[i].user)'
      <4>1. Named(i) # demo.user.username /\ DemoUsers[i].id # demo.id
        BY <3>3, <3>6
      <4>2. UsernameTaken(Named(i)) \/ i < at
        BY <3>1, <3>6, <4>1, UserCreated
      <4>3. QED
        BY <1>2, <3>1, <4>1, <4>2, UserCreated
    <3>7. Has(DemoUsers[n].id, DemoUsers[n].user)'
      BY <3>4 DEF demo
    <3>8. QED
      BY <3>5, <3>6, <3>7
  <2>3. QED
    BY <2>1, <2>2
<1>5. \A i \in DOMAIN DemoUsers : at = Len(DemoUsers) \/ i < at + 1 => i < at \/ i = n
  BY <1>0, DemoUsersSize
<1> HIDE DEF demo
<1>6. QED
  BY <1>1, <1>4, <1>5 DEF ResidentsInv

LEMMA StartsResidents ==
    ASSUME SystemInv, ResidentsInv, StartUp
    PROVE  ResidentsInv'
<1>1. ASSUME UNCHANGED userVars, phase # "construct",
             \/ UNCHANGED <<phase, at>>
             \/ phase = "demoComplaints"
             \/ phase' \notin {"demoUsers", "demoComplaints", "serving"}
             \/ phase' = "demoUsers" /\ at' = 1
      PROVE  ResidentsInv'
  <2>1. /\ \A v, other : Has(v, other) => Has(v, other)'
        /\ \A n : UsernameTaken(n)' => UsernameTaken(n)
    BY <1>1 DEF userVars, Has, UsernameTaken
  <2>2. \A i \in DOMAIN DemoUsers : ~(i < 1)
    BY DemoUsersSize
  <2>3. CASE UNCHANGED <<phase, at>>
    BY <1>1, <2>1, <2>3 DEF ResidentsInv
  <2>4. CASE phase = "demoComplaints"
    BY <1>1, <2>1, <2>4 DEF ResidentsInv
  <2>5. CASE \/ phase' \notin {"demoUsers", "demoComplaints", "serving"}
             \/ phase' = "demoUsers" /\ at' = 1
    BY <1>1, <2>1, <2>2, <2>5 DEF ResidentsInv
  <2>6. QED
    BY <1>1, <2>3, <2>4, <2>5
<1>2. CASE SeedDefaultData
  <2>1. /\ users' = DefaultUsers /\ phase' = "loadAccounts"
        /\ DOMAIN userIndex' = {DefaultUsers[u].username : u \in DOMAIN DefaultUsers}
    BY <1>2 DEF SeedDefaultData, GoToPhase, KeyOf
  <2>2. QED
    BY <2>1, SeedUsersAssumption DEF ResidentsInv, Has, UsernameTaken
<1>3. CASE LoadAccount
  BY <1>3, ResidentsLoad
<1>4. CASE AccountsLoaded \/ LoadEnds \/ LoadPayment
  <2>1. /\ UNCHANGED userVars /\ phase # "construct"
        /\ phase' \in {"loadPayments", "demoAccounts"}
    BY <1>4 DEF AccountsLoaded, LoadEnds, LoadPayment, GoToPhase, NextItem, storeVars
  <2>2. QED
    BY <1>1, <2>1
<1>5. CASE EnsureAccount
  <2>1. /\ UNCHANGED userVars /\ phase = "demoAccounts"
        /\ \/ phase' = "demoAccounts"
           \/ phase' = "demoUsers" /\ at' = 1
    BY <1>5 DEF EnsureAccount, GoToPhase, NextItem
  <2>2. QED
    BY <1>1, <2>1
<1>6. CASE EnsureUser
  BY <1>6, ResidentsEnsure
<1>7. CASE SeedComplaints
  BY <1>1, <1>7 DEF SeedComplaints
<1>8. QED
  BY <1>2, <1>3, <1>4, <1>5, <1>6, <1>7 DEF StartUp

LEMMA StepResidents ==
    ASSUME SignUpsApart(ResidentUsers), SystemInv, ResidentsInv, [SystemNext]_systemVars
    PROVE  ResidentsInv'
<1>1. CASE StartUp
  BY <1>1, StartsResidents
<1>2. CASE Serving /\ Serving' /\ [Next]_vars
  <2>1. \A u \in ResidentUsers : \A user : Has(u, user) => Has(u, user)'
    BY <1>2, ResidentIds, SeedsNotWritten, SystemInvTypes DEF Has
  <2>2. QED
    BY <1>2, <2>1, ResidentIds DEF ResidentsInv, Serving
<1>3. CASE Restart
  BY <1>3 DEF Restart, GoToPhase, ResidentsInv
<1>4. CASE UNCHANGED systemVars
  BY <1>4 DEF systemVars, vars, storeVars, userVars, bootVars, ResidentsInv, Has, UsernameTaken
<1>5. QED
  BY <1>1, <1>2, <1>3, <1>4, SystemSteps

(* In every life of the process the default and the demo users are there   *)
(* with the username and password they were given, however far the dataset *)
(* was read and whoever signs up meanwhile, as long as nobody signs up     *)
(* under the number of one of them.                                        *)
THEOREM DemoUsersStay ==
    ASSUME SignUpsApart(ResidentUsers)
    PROVE  SystemSpec => []DemoUsersKnown
<1>1. SystemInit => ResidentsInv
  BY DEF SystemInit, ProcessStart, ResidentsInv
<1>2. SystemInv /\ ResidentsInv /\ [SystemNext]_systemVars => ResidentsInv'
  BY StepResidents
<1>3. SystemInv /\ ResidentsInv => DemoUsersKnown
  <2> SUFFICES ASSUME SystemInv, ResidentsInv, Serving,
                      NEW id, NEW user, Has(id, user)
               PROVE  \E u \in FindUserByUsername(user.username) : users[u] = user
    BY DEF DemoUsersKnown, ResidentsInv, Serving
  <2>1. QED
    BY DEF SystemInv, TablesSound, UsersIndexed, Has, FindUserByUsername
<1>4. QED
  BY <1>1, <1>2, <1>3, SystemInvHolds, PTL DEF SystemSpec

-----------------------------------------------------------------------------
(* Accounts, one request at a time.                                        *)

LEMMA SeedKeysHold ==
    /\ \A a \in DOMAIN DefaultAccounts : Key(a, DefaultAccounts[a].upi) \in SeedKeys
    /\ \A i \in DOMAIN Dataset : Key(Dataset[i].id, Dataset[i].upi) \in SeedKeys
    /\ \A i \in DOMAIN DemoAccounts :
            Key(DemoAccounts[i].id, DemoAccounts[i].account.upi) \in SeedKeys
BY DEF SeedKeys

LEMMA KeysApart ==
    ASSUME NEW a, NEW u, NEW b, NEW v, Key(a, u) \in SeedKeys, Key(b, v) \in SeedKeys
    PROVE  /\ a # Empty /\ u # Empty
           /\ u = v \/ Fold[a] = Fold[b] => a = b
BY SeedAccountsAssumption DEF Key

LEMMA DemoSize == DOMAIN DemoAccounts = 1..Len(DemoAccounts) /\ Len(DemoAccounts) = 5
BY DEF DemoAccounts

(* An account that comes with a handle nobody bears.                       *)
LEMMA AddedSound ==
    ASSUME AccountsReachable, HandlesSound, IndexAlive,
           NEW id, NEW account, id \notin DOMAIN accounts, account.upi # Empty,
           \A a \in DOMAIN accounts : accounts[a].upi # account.upi,
           accounts' = Put(accounts, id, account),
           upiIndex' = Put(upiIndex, account.upi, id)
    PROVE  AccountsReachable' /\ HandlesSound' /\ IndexAlive'
<1>1. /\ DOMAIN accounts' = DOMAIN accounts \cup {id}
      /\ accounts'[id] = account
      /\ \A a \in DOMAIN accounts : accounts'[a] = accounts[a]
      /\ DOMAIN upiIndex' = DOMAIN upiIndex \cup {account.upi}
      /\ upiIndex'[account.upi] = id
      /\ \A u \in DOMAIN upiIndex \ {account.upi} : upiIndex'[u] = upiIndex[u]
  BY DEF Put
<1>2. AccountsReachable'
  BY <1>1 DEF AccountsReachable
<1>3. HandlesSound'
  BY <1>1 DEF HandlesSound
<1>4. IndexAlive'
  BY <1>1 DEF IndexAlive
<1>5. QED
  BY <1>2, <1>3, <1>4

(* An account that is given a handle nobody else bears.                    *)
LEMMA UpdatedSound ==
    ASSUME AccountsReachable, HandlesSound, IndexAlive, AccountsTypeOK,
           NEW a \in DOMAIN accounts, NEW account, UpdateAccount(a, account),
           account.upi # Empty, accounts[a].upi # Empty,
           \A b \in DOMAIN accounts : accounts[b].upi = account.upi => b = a
    PROVE  AccountsReachable' /\ HandlesSound' /\ IndexAlive'
<1> DEFINE old == accounts[a].upi
           kept == IF old \in {Empty, account.upi} THEN upiIndex
                   ELSE [u \in DOMAIN upiIndex \ {old} |-> upiIndex[u]]
<1>1. /\ DOMAIN accounts' = DOMAIN accounts
      /\ accounts'[a] = account
      /\ \A b \in DOMAIN accounts \ {a} : accounts'[b] = accounts[b]
  BY DEF UpdateAccount, AccountsTypeOK, IsMap
<1>2. upiIndex' = Put(kept, account.upi, a)
  BY DEF UpdateAccount
<1>3. /\ DOMAIN kept = IF old = account.upi THEN DOMAIN upiIndex ELSE DOMAIN upiIndex \ {old}
      /\ \A u \in DOMAIN kept : kept[u] = upiIndex[u]
  OBVIOUS
<1> HIDE DEF kept
<1>4. /\ DOMAIN upiIndex' = DOMAIN kept \cup {account.upi}
      /\ upiIndex'[account.upi] = a
      /\ \A u \in DOMAIN kept \ {account.upi} : upiIndex'[u] = upiIndex[u]
  BY <1>2, <1>3 DEF Put
<1>5. AccountsReachable'
  BY <1>1, <1>3, <1>4 DEF AccountsReachable
<1>6. HandlesSound'
  BY <1>1, <1>3, <1>4 DEF HandlesSound
<1>7. IndexAlive'
  BY <1>1, <1>3, <1>4 DEF IndexAlive
<1>8. QED
  BY <1>5, <1>6, <1>7

TablesLead == AccountsReachable /\ HandlesSound /\ IndexAlive

LEMMA TablesLeadFrame == TablesLead /\ UNCHANGED accountVars => TablesLead'
BY DEF TablesLead, accountVars, AccountsReachable, HandlesSound, IndexAlive

LEMMA SeedsLead ==
    ASSUME SeedDefaultData
    PROVE  /\ TablesLead'
           /\ \A a \in DOMAIN accounts' : Keyed(a)'
           /\ DOMAIN accounts' = DOMAIN DefaultAccounts
<1> DEFINE Upi(a) == DefaultAccounts[a].upi
           Bearer(k) == CHOOSE a \in DOMAIN DefaultAccounts : Upi(a) = k
<1>1. /\ accounts' = DefaultAccounts
      /\ upiIndex' = [k \in {Upi(a) : a \in DOMAIN DefaultAccounts} |-> Bearer(k)]
  BY DEF SeedDefaultData, KeyOf
<1>2. \A a \in DOMAIN DefaultAccounts : Key(a, Upi(a)) \in SeedKeys
  BY SeedKeysHold
<1>3. \A a, b \in DOMAIN DefaultAccounts : Upi(a) = Upi(b) => a = b
  BY <1>2, KeysApart
<1>4. \A a \in DOMAIN DefaultAccounts : Bearer(Upi(a)) = a /\ Upi(a) # Empty
  BY <1>2, <1>3, KeysApart
<1>5. /\ AccountsReachable' /\ HandlesSound' /\ IndexAlive'
  BY <1>1, <1>4 DEF AccountsReachable, HandlesSound, IndexAlive
<1>6. QED
  BY <1>1, <1>2, <1>5 DEF TablesLead, Keyed

LEMMA LoadLeads ==
    ASSUME TablesLead, SeededInv, LoadAccount
    PROVE  /\ TablesLead'
           /\ \A a \in DOMAIN accounts' : Keyed(a)'
           /\ DOMAIN accounts' = DOMAIN accounts \cup {Dataset[at].id}
<1>1. PICK n \in DOMAIN Dataset : n = at
  BY DEF LoadAccount
<1> DEFINE row == Dataset[n]
           account == LoadedAccount(row)
<1>2. /\ accounts' = Put(accounts, row.id, account)
      /\ upiIndex' = Put(upiIndex, row.upi, row.id)
      /\ account.upi = row.upi
      /\ phase = "loadAccounts"
  BY <1>1 DEF LoadAccount, LoadedAccount
<1>3. /\ \A a \in DOMAIN accounts : Keyed(a)
      /\ row.id \notin DOMAIN accounts
  <2>1. at <= n
    BY <1>1, DatasetAssumption
  <2>2. QED
    BY <1>2, <2>1 DEF SeededInv, Serving
<1>4. Key(row.id, row.upi) \in SeedKeys
  BY SeedKeysHold
<1>5. row.upi # Empty /\ \A a \in DOMAIN accounts : accounts[a].upi # row.upi
  BY <1>3, <1>4, KeysApart DEF Keyed
<1> HIDE DEF row, account
<1>6. TablesLead'
  BY <1>2, <1>3, <1>5, AddedSound DEF TablesLead
<1>7. /\ DOMAIN accounts' = DOMAIN accounts \cup {row.id}
      /\ \A a \in DOMAIN accounts' : Keyed(a)'
  BY <1>2, <1>3, <1>4 DEF Put, Keyed
<1>8. QED
  BY <1>1, <1>6, <1>7 DEF row

LEMMA EnsureLeads ==
    ASSUME SystemInv, TablesLead, SeededInv, EnsureAccount
    PROVE  /\ TablesLead'
           /\ \A a \in DOMAIN accounts' : Keyed(a)'
           /\ DOMAIN accounts \subseteq DOMAIN accounts'
           /\ DemoAccounts[at].by = "id" => DemoAccounts[at].id \in DOMAIN accounts'
<1>0. PICK n \in DOMAIN DemoAccounts : n = at
  BY DEF EnsureAccount
<1> DEFINE demo == DemoAccounts[n]
           found == IF demo.by = "id" THEN FindAccountById(demo.id)
                    ELSE FindAccountByUpi(demo.account.upi)
<1>1. /\ \/ found = {} /\ CreateAccount(demo.id, demo.account)
         \/ \E a \in found : IF demo.fields = {} THEN UNCHANGED accountVars
                             ELSE UpdateAccount(a, Refreshed(a, demo))
      /\ phase = "demoAccounts"
  BY <1>0 DEF EnsureAccount
<1>2. AccountsTypeOK /\ \A a \in DOMAIN accounts : Keyed(a)
  BY <1>1, TablesFrame DEF SystemInv, SeededInv, Serving
<1>3. Key(demo.id, demo.account.upi) \in SeedKeys
  BY SeedKeysHold
<1>4. /\ demo.id # Empty /\ demo.account.upi # Empty
      /\ \A a \in DOMAIN accounts :
            /\ accounts[a].upi # Empty
            /\ accounts[a].upi = demo.account.upi => a = demo.id
            /\ Fold[a] = Fold[demo.id] => a = demo.id
  BY <1>2, <1>3, KeysApart DEF Keyed
<1>5. demo.by # "id" => /\ demo.fields = {}
                        /\ \A k \in SeedKeys : k.id = demo.id => k.upi = demo.account.upi
  BY SeedAccountsAssumption
<1> SUFFICES /\ TablesLead'
             /\ \A a \in DOMAIN accounts' : Keyed(a)'
             /\ DOMAIN accounts \subseteq DOMAIN accounts'
             /\ demo.by = "id" => demo.id \in DOMAIN accounts'
  BY <1>0
<1> HIDE DEF demo
<1>6. CASE found = {}
  <2>1. demo.id \notin DOMAIN accounts
    <3>1. CASE demo.by = "id"
      BY <1>4, <1>6, <3>1 DEF FindAccountById
    <3>2. CASE demo.by # "id"
      <4>1. ASSUME demo.id \in DOMAIN accounts
            PROVE  FALSE
        <5>1. accounts[demo.id].upi = demo.account.upi
          BY <1>2, <1>5, <3>2, <4>1 DEF Keyed, Key
        <5>2. /\ demo.account.upi \in DOMAIN upiIndex
              /\ upiIndex[demo.account.upi] = demo.id
          BY <1>4, <4>1, <5>1 DEF TablesLead, AccountsReachable
        <5>3. demo.id \in UpiExact(demo.account.upi)
          BY <4>1, <5>2 DEF UpiExact
        <5>4. QED
          BY <1>4, <1>6, <3>2, <5>3 DEF FindAccountByUpi
      <4>2. QED
        BY <4>1
    <3>3. QED
      BY <3>1, <3>2
  <2>2. demo.account.upi \notin DOMAIN upiIndex
    BY <1>4, <2>1 DEF TablesLead, HandlesSound
  <2>3. \A a \in DOMAIN accounts : accounts[a].upi # demo.account.upi
    BY <1>4, <2>1
  <2>4. CreateAccount(demo.id, demo.account)
    BY <1>1, <1>6
  <2>5. /\ accounts' = Put(accounts, demo.id, demo.account)
        /\ upiIndex' = Put(upiIndex, demo.account.upi, demo.id)
    BY <1>4, <2>2, <2>4 DEF CreateAccount
  <2>6. TablesLead'
    BY <1>4, <2>1, <2>3, <2>5, AddedSound DEF TablesLead
  <2>7. QED
    BY <1>2, <1>3, <2>5, <2>6 DEF Put, Keyed
<1>7. CASE found # {}
  <2>1. demo.by = "id" => found = {demo.id} /\ demo.id \in DOMAIN accounts
    BY <1>4, <1>7 DEF FindAccountById
  <2>2. CASE UNCHANGED accountVars
    BY <1>2, <2>1, <2>2, TablesLeadFrame DEF accountVars, Keyed
  <2>3. CASE demo.by = "id" /\ UpdateAccount(demo.id, Refreshed(demo.id, demo))
    <3> DEFINE account == Refreshed(demo.id, demo)
    <3>1. demo.id \in DOMAIN accounts /\ accounts[demo.id] \in Account
      BY <1>2, <2>1, <2>3 DEF AccountsTypeOK, IsMap
    <3>2. account.upi \in {accounts[demo.id].upi, demo.account.upi}
      BY <3>1 DEF Refreshed, Account
    <3>3. \A b \in DOMAIN accounts : accounts[b].upi = account.upi => b = demo.id
      <4>1. Key(demo.id, accounts[demo.id].upi) \in SeedKeys
        BY <1>2, <3>1 DEF Keyed
      <4>2. Key(demo.id, account.upi) \in SeedKeys
        BY <1>3, <3>2, <4>1
      <4> HIDE DEF account
      <4>3. QED
        BY <1>2, <4>2, KeysApart DEF Keyed
    <3>4. account.upi # Empty /\ accounts[demo.id].upi # Empty
      BY <1>4, <3>1, <3>2
    <3>5. UpdateAccount(demo.id, account)
      BY <2>3
    <3> HIDE DEF account
    <3>6. TablesLead'
      BY <1>2, <3>1, <3>3, <3>4, <3>5, UpdatedSound DEF TablesLead
    <3>7. accounts' = [accounts EXCEPT ![demo.id] = account]
      BY <3>1, <3>5 DEF UpdateAccount
    <3>8. /\ DOMAIN accounts' = DOMAIN accounts
          /\ \A a \in DOMAIN accounts : accounts'[a] = IF a = demo.id THEN account ELSE accounts[a]
      BY <1>2, <3>7 DEF AccountsTypeOK, IsMap
    <3>9. \A a \in DOMAIN accounts' : Keyed(a)'
      BY <1>2, <1>3, <3>1, <3>2, <3>8 DEF Keyed
    <3>10. QED
      BY <3>1, <3>6, <3>8, <3>9
  <2>4. QED
    BY <1>1, <1>5, <1>7, <2>1, <2>2, <2>3
<1>8. QED
  BY <1>6, <1>7

-----------------------------------------------------------------------------
(* Requests one at a time, across restarts.                                *)

(* No thread at rest has read anything.                                    *)
LEMMA RestFresh ==
    ASSUME \A t \in Threads : pc[t] \in {"idle", "done"} /\ ExternalEarly(t)
    PROVE  Alone /\ AllFresh
<1>1. InFlight = {}
  BY DEF InFlight, Idle, Done
<1>2. Alone
  BY <1>1, FS_EmptySet DEF Alone
<1>3. AllFresh
  BY DEF AllFresh, HandlerFresh, TransferFresh, ComplaintFresh, ModerationFresh,
         RegistrationFresh, TransferSteps, PaySteps
<1>4. QED
  BY <1>2, <1>3

LEMMA RestFreshNext ==
    (\A t \in Threads : pc[t] \in {"idle", "done"} /\ ExternalEarly(t))'
        => (Alone /\ AllFresh)'
<1>1. (\A t \in Threads : pc[t] \in {"idle", "done"} /\ ExternalEarly(t)) => Alone /\ AllFresh
  BY RestFresh
<1>2. QED
  BY <1>1, PTL

(* Start-up: what the tables promise.                                      *)
LEMMA StartsSound ==
    ASSUME SystemInv, SeededInv, TablesLead, ComplaintSuspectExists, StartUp
    PROVE  /\ TablesLead'
           /\ \A a \in DOMAIN accounts' : Keyed(a)'
           /\ ComplaintSuspectExists'
           /\ SeedUsersInv => SeedUsersInv'
<1>1. ~Serving /\ \A a \in DOMAIN accounts : Keyed(a)
  <2>1. ~Serving
    BY DEF Serving, StartUp, SeedDefaultData, LoadAccount, AccountsLoaded, LoadPayment,
           LoadEnds, EnsureAccount, EnsureUser, SeedComplaints
  <2>2. QED
    BY <2>1 DEF SeededInv
<1>2. ASSUME UNCHANGED complaintVars, DOMAIN accounts \subseteq DOMAIN accounts'
      PROVE  ComplaintSuspectExists'
  BY <1>2 DEF complaintVars, ComplaintSuspectExists
<1>3. ASSUME UNCHANGED userVars, DOMAIN accounts \subseteq DOMAIN accounts'
      PROVE  SeedUsersInv => SeedUsersInv'
  BY <1>3 DEF userVars, SeedUsersInv
<1>4. ASSUME UNCHANGED accountVars
      PROVE  /\ TablesLead'
             /\ \A a \in DOMAIN accounts' : Keyed(a)'
             /\ DOMAIN accounts \subseteq DOMAIN accounts'
  BY <1>1, <1>4, TablesLeadFrame DEF accountVars, Keyed
<1>5. CASE SeedDefaultData
  <2>1. /\ TablesLead'
        /\ \A a \in DOMAIN accounts' : Keyed(a)'
        /\ DOMAIN accounts' = DOMAIN DefaultAccounts
    BY <1>5, SeedsLead
  <2>2. complaints' = <<>> /\ users' = DefaultUsers
    BY <1>5 DEF SeedDefaultData
  <2>3. ComplaintSuspectExists'
    BY <2>2 DEF ComplaintSuspectExists
  <2>4. \A u \in DOMAIN DefaultUsers :
            DefaultUsers[u].account \in {Empty} \cup DOMAIN DefaultAccounts
    BY SeedUsersAssumption
  <2>5. SeedUsersInv'
    BY <2>1, <2>2, <2>4 DEF SeedUsersInv
  <2>6. QED
    BY <2>1, <2>3, <2>5
<1>6. CASE LoadAccount
  <2>1. PICK n \in DOMAIN Dataset : n = at
    BY <1>6 DEF LoadAccount
  <2> DEFINE row == Dataset[n]
  <2>2. /\ TablesLead'
        /\ \A a \in DOMAIN accounts' : Keyed(a)'
        /\ DOMAIN accounts' = DOMAIN accounts \cup {row.id}
    BY <1>6, <2>1, LoadLeads
  <2>3. UNCHANGED complaintVars /\ CreateUser(row.id, LoadedUser(row))
    BY <1>6, <2>1 DEF LoadAccount, CreateUser
  <2>4. LoadedUser(row).account = row.id
    BY DEF LoadedUser, UserOf
  <2> HIDE DEF row
  <2>5. SeedUsersInv => SeedUsersInv'
    BY <2>2, <2>3, <2>4 DEF SeedUsersInv, CreateUser, Put, userVars
  <2>6. QED
    BY <1>2, <2>2, <2>3, <2>5
<1>7. CASE AccountsLoaded \/ LoadEnds \/ LoadPayment
  <2>1. UNCHANGED <<accountVars, complaintVars, userVars>>
    BY <1>7 DEF AccountsLoaded, LoadEnds, LoadPayment, storeVars
  <2>2. QED
    BY <1>2, <1>3, <1>4, <2>1
<1>8. CASE EnsureAccount
  <2>1. /\ TablesLead'
        /\ \A a \in DOMAIN accounts' : Keyed(a)'
        /\ DOMAIN accounts \subseteq DOMAIN accounts'
    BY <1>8, EnsureLeads
  <2>2. UNCHANGED <<complaintVars, userVars>>
    BY <1>8 DEF EnsureAccount
  <2>3. QED
    BY <1>2, <1>3, <2>1, <2>2
<1>9. CASE EnsureUser
  <2>1. PICK n \in DOMAIN DemoUsers : n = at
    BY <1>9 DEF EnsureUser
  <2> DEFINE demo == DemoUsers[n]
  <2>2. /\ CreateUser(demo.id, demo.user) \/ UNCHANGED userVars
        /\ UNCHANGED <<accountVars, complaintVars>>
        /\ phase # "construct"
    BY <1>9, <2>1 DEF EnsureUser
  <2>3. demo.user.account \in {Empty} \cup DOMAIN DefaultAccounts
    BY SeedUsersAssumption
  <2>4. DOMAIN DefaultAccounts \subseteq DOMAIN accounts /\ accounts' = accounts
    BY <1>1, <2>2 DEF SeededInv, accountVars
  <2> HIDE DEF demo
  <2>5. SeedUsersInv => SeedUsersInv'
    BY <2>2, <2>3, <2>4 DEF SeedUsersInv, CreateUser, Put, userVars
  <2>6. QED
    BY <1>2, <1>4, <2>2, <2>5
<1>10. CASE SeedComplaints
  <2>1. /\ UNCHANGED <<accountVars, userVars>>
        /\ complaints' = DemoComplaints
        /\ phase = "demoComplaints"
    BY <1>10 DEF SeedComplaints
  <2>2. \A i \in DOMAIN DemoAccounts :
            DemoAccounts[i].by = "id" => DemoAccounts[i].id \in DOMAIN accounts
    BY <1>1, <2>1 DEF SeededInv, DemoMade
  <2>3. \A c \in DOMAIN DemoComplaints : DemoComplaints[c].suspect \in DOMAIN accounts
    BY <2>2, SeedAccountsAssumption
  <2>4. ComplaintSuspectExists'
    BY <2>1, <2>3 DEF ComplaintSuspectExists, accountVars
  <2>5. QED
    BY <1>3, <1>4, <2>1, <2>4
<1>11. QED
  BY <1>5, <1>6, <1>7, <1>8, <1>9, <1>10 DEF StartUp

(* Start-up: what is still to come finds what it needs.                    *)
LEMMA StartsSeeded ==
    ASSUME SystemInv, SeededInv, TablesLead, ComplaintSuspectExists, StartUp
    PROVE  SeededInv'
<1>1. ~Serving /\ BootStep
  <2>1. ~Serving
    BY DEF Serving, StartUp, SeedDefaultData, LoadAccount, AccountsLoaded, LoadPayment,
           LoadEnds, EnsureAccount, EnsureUser, SeedComplaints
  <2>2. QED
    BY <2>1, StartsUp DEF SystemInv
<1>2. /\ \A t \in Threads : pc'[t] \in {"idle", "done"}
      /\ \A a \in DOMAIN accounts' : Keyed(a)'
  BY <1>1, StartsSound DEF SeededInv, BootStep, threadVars
<1>3. /\ phase # "construct" => DOMAIN DefaultAccounts \subseteq DOMAIN accounts
      /\ \A i \in DOMAIN DemoAccounts :
            DemoMade(i) /\ DemoAccounts[i].by = "id" => DemoAccounts[i].id \in DOMAIN accounts
  BY <1>1 DEF SeededInv
<1> SUFFICES
        /\ phase' # "construct" => DOMAIN DefaultAccounts \subseteq DOMAIN accounts'
        /\ phase' = "loadAccounts" =>
                \A i \in DOMAIN Dataset : at' <= i => Dataset[i].id \notin DOMAIN accounts'
        /\ ~Serving' => \A i \in DOMAIN DemoAccounts :
                DemoMade(i)' /\ DemoAccounts[i].by = "id"
                    => DemoAccounts[i].id \in DOMAIN accounts'
  BY <1>2, Zenon DEF SeededInv
<1>5. CASE SeedDefaultData
  <2>1. DOMAIN accounts' = DOMAIN DefaultAccounts /\ phase' = "loadAccounts"
    BY <1>5 DEF SeedDefaultData, GoToPhase
  <2>2. \A i \in DOMAIN Dataset : Dataset[i].id \notin DOMAIN DefaultAccounts
    BY SeedAccountsAssumption
  <2>3. QED
    BY <2>1, <2>2 DEF DemoMade
<1>6. CASE LoadAccount
  <2>1. PICK n \in DOMAIN Dataset : n = at
    BY <1>6 DEF LoadAccount
  <2>2. /\ DOMAIN accounts' = DOMAIN accounts \cup {Dataset[n].id}
        /\ phase = "loadAccounts" /\ phase' = "loadAccounts" /\ at' = n + 1
    BY <1>6, <2>1, LoadLeads DEF LoadAccount, NextItem
  <2>3. \A i \in DOMAIN Dataset : i \in Int /\ (Dataset[i].id = Dataset[n].id => i = n)
    BY DatasetAssumption
  <2>4. \A i \in DOMAIN Dataset : n <= i => Dataset[i].id \notin DOMAIN accounts
    BY <1>1, <2>1, <2>2 DEF SeededInv
  <2>5. \A i \in DOMAIN Dataset : at' <= i => Dataset[i].id \notin DOMAIN accounts'
    BY <2>2, <2>3, <2>4
  <2>6. QED
    BY <1>3, <2>2, <2>5 DEF DemoMade
<1>7. CASE AccountsLoaded \/ LoadEnds \/ LoadPayment
  <2>1. /\ UNCHANGED accountVars
        /\ phase # "construct"
        /\ \/ phase' = "loadPayments"
           \/ phase' = "demoAccounts" /\ at' = 1
    BY <1>7 DEF AccountsLoaded, LoadEnds, LoadPayment, storeVars, GoToPhase, NextItem
  <2>2. \A i \in DOMAIN DemoAccounts : ~(i < 1)
    BY DemoSize
  <2>3. QED
    BY <1>3, <2>1, <2>2 DEF accountVars, DemoMade
<1>8. CASE EnsureAccount
  <2>1. PICK n \in DOMAIN DemoAccounts : n = at
    BY <1>8 DEF EnsureAccount
  <2>2. /\ DOMAIN accounts \subseteq DOMAIN accounts'
        /\ DemoAccounts[n].by = "id" => DemoAccounts[n].id \in DOMAIN accounts'
    BY <1>8, <2>1, EnsureLeads
  <2>3. /\ phase = "demoAccounts"
        /\ \/ n = Len(DemoAccounts) /\ phase' = "demoUsers"
           \/ n # Len(DemoAccounts) /\ phase' = "demoAccounts" /\ at' = n + 1
    BY <1>8, <2>1 DEF EnsureAccount, GoToPhase, NextItem
  <2>4. \A i \in DOMAIN DemoAccounts : DemoMade(i)' => i < n \/ i = n
    BY <2>1, <2>3, DemoSize DEF DemoMade
  <2>5. \A i \in DOMAIN DemoAccounts : i < n => DemoMade(i)
    BY <2>1, <2>3 DEF DemoMade
  <2>6. QED
    BY <1>3, <2>2, <2>3, <2>4, <2>5
<1>9. CASE EnsureUser
  <2>1. /\ UNCHANGED accountVars
        /\ phase = "demoUsers" /\ phase' \in {"demoUsers", "demoComplaints"}
    BY <1>9 DEF EnsureUser, GoToPhase, NextItem
  <2>2. QED
    BY <1>3, <2>1 DEF accountVars, DemoMade
<1>10. CASE SeedComplaints
  BY <1>3, <1>10 DEF SeedComplaints, GoToPhase, accountVars, Serving
<1>11. QED
  BY <1>5, <1>6, <1>7, <1>8, <1>9, <1>10 DEF StartUp

(* What holds of the store at every moment of every life of the process.   *)
SystemStoreInv == SystemInv /\ SeededInv /\ SerialInv /\ StoreInv

LEMMA InitSystemStore == SystemInit => SystemStoreInv
<1> SUFFICES ASSUME SystemInit
             PROVE  SystemStoreInv
  OBVIOUS
<1>1. /\ accounts = <<>> /\ upiIndex = <<>> /\ complaints = <<>>
      /\ \A t \in Threads : pc[t] \in {"idle", "done"} /\ ExternalEarly(t)
      /\ phase = "construct"
  BY DEF SystemInit, ProcessStart, EmptyTables, WorkersInit, Blank, ExternalEarly
<1>2. SeededInv
  BY <1>1 DEF SeededInv, DemoMade
<1>3. SerialInv
  BY <1>1, RestFresh DEF SerialInv, IndexAlive
<1>4. StoreInv
  BY <1>1 DEF StoreInv, AccountsReachable, HandlesSound, ComplaintSuspectExists
<1>5. QED
  BY <1>2, <1>3, <1>4, InitSystemInv DEF SystemStoreInv

LEMMA ServesStore ==
    ASSUME MaxInFlight = 1, SuspectsGiven, SystemStoreInv,
           [Next]_vars
    PROVE  SerialInv' /\ StoreInv'
<1>1. TypeInv /\ Alone /\ AllFresh /\ IndexAlive /\ \A t \in Threads : ExternalEarly(t)
  BY SystemInvTypes DEF SystemStoreInv, SerialInv
<1>2. Alone' /\ IndexAlive' /\ \A t \in Threads : ExternalEarly(t)'
  BY <1>1, StepAlone, StepIndexAlive, StepExternal
<1>3. AllFresh'
  BY <1>1, StepFresh DEF AllFresh
<1>4. SerialInv'
  BY <1>2, <1>3 DEF SerialInv
<1>5. AccountsReachable'
  BY <1>1, StepReachable DEF SystemStoreInv, StoreInv
<1>6. HandlesSound'
  <2>1. \A a \in DOMAIN accounts : accounts'[a].upi = accounts[a].upi
    BY <1>1, NothingReopened, HandleKept
  <2>2. QED
    BY <1>1, <2>1, StepHandlesSound DEF SystemStoreInv, StoreInv
<1>7. ComplaintSuspectExists'
  BY <1>1, StepSuspects DEF SystemStoreInv, StoreInv
<1>8. QED
  BY <1>4, <1>5, <1>6, <1>7 DEF StoreInv

LEMMA StepSystemStore ==
    ASSUME MaxInFlight = 1, SuspectsGiven, SystemStoreInv,
           [SystemNext]_systemVars
    PROVE  SystemStoreInv'
<1>1. SystemInv /\ SystemInv'
  BY StepSystemInv DEF SystemStoreInv
<1>2. CASE UNCHANGED systemVars
  <2>1. SerialInv' /\ StoreInv'
    BY <1>2, ServesStore DEF systemVars
  <2>2. SeededInv'
    BY <1>2
    DEF systemVars, vars, storeVars, accountVars, threadVars, bootVars, SystemStoreInv,
        SeededInv, Serving, Keyed, DemoMade
  <2>3. QED
    BY <1>1, <2>1, <2>2 DEF SystemStoreInv
<1>3. CASE StartUp /\ ~Serving /\ BootStep
  <2>1. /\ TablesLead /\ SeededInv /\ ComplaintSuspectExists
        /\ \A t \in Threads : ExternalEarly(t)
    BY DEF SystemStoreInv, SerialInv, StoreInv, TablesLead
  <2>2. SeededInv' /\ TablesLead' /\ ComplaintSuspectExists'
    BY <1>1, <1>3, <2>1, StartsSound, StartsSeeded
  <2>3. (\A t \in Threads : pc[t] \in {"idle", "done"} /\ ExternalEarly(t))'
    BY <1>3, <2>1 DEF SeededInv, BootStep, threadVars, ExternalEarly
  <2>4. Alone' /\ AllFresh'
    BY <2>3, RestFreshNext
  <2>5. QED
    BY <1>1, <2>2, <2>3, <2>4 DEF SystemStoreInv, SerialInv, StoreInv, TablesLead
<1>4. CASE Serving /\ Serving' /\ [Next]_vars
  <2>1. SerialInv' /\ StoreInv'
    BY <1>4, ServesStore
  <2>2. SeededInv'
    BY <1>4 DEF SeededInv
  <2>3. QED
    BY <1>1, <2>1, <2>2 DEF SystemStoreInv
<1>5. CASE Restart
  <2>1. /\ accounts' = <<>> /\ upiIndex' = <<>> /\ complaints' = <<>>
        /\ \A t \in Threads : pc'[t] \in {"idle", "done"} /\ local'[t] = Blank
        /\ phase' = "construct"
    BY <1>5 DEF Restart, GoToPhase
  <2>2. (\A t \in Threads : pc[t] \in {"idle", "done"} /\ ExternalEarly(t))'
    BY <2>1 DEF Blank, ExternalEarly
  <2>3. SeededInv'
    BY <2>1 DEF SeededInv, DemoMade
  <2>4. SerialInv'
    BY <2>1, <2>2, RestFreshNext DEF SerialInv, IndexAlive
  <2>5. StoreInv'
    BY <2>1 DEF StoreInv, AccountsReachable, HandlesSound, ComplaintSuspectExists
  <2>6. QED
    BY <1>1, <2>3, <2>4, <2>5 DEF SystemStoreInv
<1>6. QED
  BY <1>1, <1>2, <1>3, <1>4, <1>5, SystemSteps

LEMMA SystemStoreHolds ==
    ASSUME MaxInFlight = 1, SuspectsGiven
    PROVE  SystemSpec => []SystemStoreInv
BY InitSystemStore, StepSystemStore, PTL DEF SystemSpec

LEMMA StepSeedUsers ==
    ASSUME SignUpsApart(SeededUsers), SystemStoreInv, SeedUsersInv, [SystemNext]_systemVars
    PROVE  SeedUsersInv'
<1>1. SystemInv /\ TypeInv
  BY SystemInvTypes DEF SystemStoreInv
<1>2. CASE StartUp
  BY <1>1, <1>2, StartsSound DEF SystemStoreInv, SerialInv, StoreInv, TablesLead
<1>3. CASE [Next]_vars
  <2>1. \A u \in SeededUsers :
            /\ u \in DOMAIN users <=> u \in DOMAIN users'
            /\ u \in DOMAIN users => users'[u] = users[u]
    BY <1>1, <1>3, SeedsNotWritten
  <2>2. DOMAIN accounts \subseteq DOMAIN accounts'
    BY <1>1, <1>3, AccountsStay
  <2>3. QED
    BY <2>1, <2>2 DEF SeedUsersInv
<1>4. CASE Restart
  BY <1>4 DEF Restart, SeedUsersInv
<1>5. QED
  BY <1>1, <1>2, <1>3, <1>4, SystemSteps DEF systemVars

LEMMA SeedUsersHold ==
    ASSUME MaxInFlight = 1, SuspectsGiven, SignUpsApart(SeededUsers)
    PROVE  SystemSpec => []SeedUsersInv
<1>1. SystemInit => SeedUsersInv
  BY DEF SystemInit, ProcessStart, EmptyTables, SeedUsersInv
<1>2. QED
  BY <1>1, StepSeedUsers, SystemStoreHolds, PTL DEF SystemSpec

(* Served one at a time, the store keeps in every life of the process what *)
(* its tables promise, wherever reading the dataset broke off: handles and *)
(* usernames lead to who bears them, complaints and seeded users to their  *)
(* accounts, and nobody is in debt.                                        *)
THEOREM StoreStaysSound ==
    ASSUME MaxInFlight = 1, SuspectsGiven, SignUpsApart(SeededUsers)
    PROVE  SystemSpec => []StoreSound
<1>1. SystemStoreInv /\ SeedUsersInv => StoreSound
  <2> SUFFICES ASSUME SystemStoreInv, SeedUsersInv
               PROVE  StoreSound
    OBVIOUS
  <2>1. NoOverdraft /\ UsersCanLogIn
    BY IndexedCanLogIn DEF SystemStoreInv, SystemInv, TablesSound
  <2>2. {users[u].account : u \in SeededUsers \cap DOMAIN users} \ {Empty}
            \subseteq DOMAIN accounts
    BY DEF SeedUsersInv
  <2>3. QED
    BY <2>1, <2>2 DEF StoreSound, SystemStoreInv, StoreInv
<1>2. QED
  BY <1>1, SystemStoreHolds, SeedUsersHold, PTL

-----------------------------------------------------------------------------
(* Whose money a payment is.                                               *)

PayersInv == \A t \in Threads : PayerNamed(t)

LEMMA StepPayers ==
    ASSUME SystemInv, PayersInv, [SystemNext]_systemVars
    PROVE  PayersInv'
<1>1. CASE [Next]_vars
  <2>1. TypeInv
    BY SystemInvTypes
  <2>2. QED
    BY <1>1, <2>1, StepPayer DEF PayersInv
<1>2. CASE UNCHANGED threadVars
  BY <1>2 DEF threadVars, PayersInv, PayerNamed
<1>3. CASE Restart
  BY <1>3 DEF Restart, PayersInv, PayerNamed, PaySteps
<1>4. QED
  BY <1>1, <1>2, <1>3, SystemSteps DEF BootStep, systemVars, vars

LEMMA PayersHold == SystemSpec => []PayersInv
<1>1. SystemInit => PayersInv
  BY DEF SystemInit, ProcessStart, WorkersInit, PayersInv, PayerNamed, PaySteps
<1>2. QED
  BY <1>1, StepPayers, SystemInvHolds, PTL DEF SystemSpec

(* A transfer of less than half a paisa moves nothing, but rounds what the *)
(* receiver has to whole paise.                                            *)
AmountsCount == \A amount \in Amounts : ToCents(amount) > 0

LEMMA CreditRaises ==
    ASSUME NEW balance \in Int, NEW cents \in Int, cents > 0
    PROVE  10 * (ToCents(balance) + cents) >= balance
BY DEF ToCents

(* The balance of an account that is not opened anew only falls in a       *)
(* payment from it.                                                        *)
LEMMA BalanceFalls ==
    ASSUME AmountsCount, TypeInv, [Next]_vars, NEW a \in DOMAIN accounts, ~Reopened(a),
           accounts'[a].balance < accounts[a].balance
    PROVE  \E t \in Threads :
                /\ ExecuteTransfer(t) /\ local[t].payer.id = a
                /\ pc'[t] = "done" /\ answer'[t].code = 201
<1>0. /\ accounts[a] \in Account /\ accounts[a].balance \in Int
      /\ transactions \in Seq(Transaction)
  BY DEF TypeInv, StoreTypeOK, AccountsTypeOK, LedgerTypeOK, IsMap, Account
<1>1. ~UNCHANGED ledgerVars
  <2>1. ~BooksKept
    BY <1>0 DEF BooksKept
  <2>2. ASSUME NEW id \in Names, NEW account \in Account, Opens(id, account)
        PROVE  FALSE
    <3>1. accounts'[a] = accounts[a]
      BY <2>2 DEF Opens, CreateAccount, accountVars, Put, Reopened
    <3>2. QED
      BY <1>0, <3>1
  <2>3. ASSUME NEW s \in Names, NEW r \in Names, NEW amount \in Nat, NEW score \in Int,
               Payment(s, r, amount, score)
        PROVE  ~UNCHANGED ledgerVars
    BY <1>0, <2>3 DEF Payment, ExecuteAtomicTransfer, ledgerVars
  <2>4. QED
    BY <2>1, <2>2, <2>3, BookSteps
<1>2. PICK t \in Threads : ExecuteTransfer(t)
  <2>1. PICK t \in Threads : Serve(t)
    BY <1>1, Steppers DEF storeVars
  <2>2. ExecuteTransfer(t)
    BY <1>1, <2>1, Writers
    DEF storeVars, ProvisionSuspect, RecordComplaint, TaintSuspect, SetComplaintStatus,
        SetAccountStatus, OpenAccount, CreateConsumer, CreateConsumerByNumber, CreateEmployee
  <2>3. QED
    BY <2>2
<1> DEFINE s == local[t].payer.id
           r == local[t].peer.id
           cents == ToCents(req[t].amount)
           status == Evaluate(t).status
<1>3. /\ Reply(t, 201, Len(transactions) + 1)
      /\ ExecuteAtomicTransfer(s, r, req[t].amount, Evaluate(t))
  BY <1>1, <1>2 DEF ExecuteTransfer
<1>4. /\ pc'[t] = "done" /\ answer'[t].code = 201
  BY <1>3 DEF Reply, Respond, TypeInv, ThreadsTypeOK
<1>5. accounts'[a] = IF a = s /\ Charged(status) THEN Debit(accounts[a], cents)
                     ELSE IF a = r /\ Delivered(status) THEN Credit(accounts[a], cents)
                     ELSE accounts[a]
  BY <1>3 DEF ExecuteAtomicTransfer
<1>6. cents \in Int /\ cents > 0
  <2>1. pc[t] = "execute"
    BY <1>2 DEF ExecuteTransfer
  <2>2. QED
    BY <2>1, PaymentTypes, ToCentsType DEF AmountsCount
<1> HIDE DEF s, r, cents, status
<1>7. Credit(accounts[a], cents).balance >= accounts[a].balance
  <2>1. Credit(accounts[a], cents).balance = 10 * (ToCents(accounts[a].balance) + cents)
    BY <1>0 DEF Credit, Account
  <2>2. QED
    BY <1>0, <1>6, <2>1, CreditRaises
<1>8. a = s
  <2>1. Credit(accounts[a], cents).balance \in Int
    BY <1>0, <1>6, ToCentsType DEF Credit, Account
  <2>2. QED
    BY <1>0, <1>5, <1>7, <2>1
<1>9. QED
  BY <1>2, <1>4, <1>8 DEF s

(* Who pays came with a token for the account, by its number in any case,  *)
(* or with an employee's.                                                  *)
LEMMA PayersBear ==
    ASSUME SystemInv, PayersInv, NEW t \in Threads, ExecuteTransfer(t)
    PROVE  /\ t \in InFlight
           /\ bearer[t] \in issued
           /\ \/ bearer[t].account = Empty
              \/ Fold[local[t].payer.id] = Fold[bearer[t].account]
<1>1. pc[t] = "execute" /\ StepSound(pc[t], req[t], local[t])
  BY DEF ExecuteTransfer, SystemInv, ThreadsSound
<1>2. req[t] # None /\ req[t].kind = "transfer"
  <2>1. req[t] \in TransferRequest
    BY <1>1 DEF StepSound, TransferSteps
  <2>2. None \notin TransferRequest
    BY WorkersAssumption DEF RequestTypes
  <2>3. QED
    BY <2>1, <2>2 DEF TransferRequest
<1>3. /\ bearer[t] \in issued
      /\ bearer[t].account # Empty => req[t].sender = bearer[t].account
  BY <1>2 DEF SystemInv, RolesKept, OpenKinds
<1>4. Fold[local[t].payer.id] = Fold[req[t].sender]
  BY <1>1 DEF PayersInv, PayerNamed, PaySteps
<1>5. t \in InFlight
  BY ServesInFlight DEF Serve, TransferStep
<1>6. QED
  BY <1>3, <1>4, <1>5

(* No two names differ in case only.                                       *)
NamesApart == \A m, n \in Names : Fold[m] = Fold[n] => m = n

(* Served one at a time, money only leaves an account in a payment that    *)
(* was answered 201, asked for with a token for that account or with an    *)
(* employee's, whichever process granted it.                               *)
THEOREM OwnMoney ==
    ASSUME MaxInFlight = 1, SuspectsGiven, NamesApart, AmountsCount
    PROVE  SystemSpec => OwnMoneyOnly
<1> DEFINE Own ==
        Serving /\ Serving' =>
            \A a \in DOMAIN accounts :
                accounts'[a].balance < accounts[a].balance =>
                    \E t \in InFlight :
                        /\ pc'[t] = "done" /\ answer'[t].code = 201
                        /\ bearer[t] \in issued /\ bearer[t].account \in {a, Empty}
<1>1. SystemStoreInv /\ PayersInv /\ [SystemNext]_systemVars => [Own]_systemVars
  <2> SUFFICES ASSUME SystemStoreInv, PayersInv, [SystemNext]_systemVars, Serving, Serving',
                      NEW a \in DOMAIN accounts, accounts'[a].balance < accounts[a].balance
               PROVE  \E t \in InFlight :
                        /\ pc'[t] = "done" /\ answer'[t].code = 201
                        /\ bearer[t] \in issued /\ bearer[t].account \in {a, Empty}
    OBVIOUS
  <2>0. SystemInv /\ TypeInv /\ AllFresh
    BY SystemInvTypes DEF SystemStoreInv, SerialInv
  <2>1. [Next]_vars
    BY <2>0, SystemSteps DEF Restart, GoToPhase, Serving, systemVars
  <2>2. ~Reopened(a)
    BY <2>0, NothingReopened
  <2>3. PICK t \in Threads :
                /\ ExecuteTransfer(t) /\ local[t].payer.id = a
                /\ pc'[t] = "done" /\ answer'[t].code = 201
    BY <2>0, <2>1, <2>2, BalanceFalls
  <2>4. /\ t \in InFlight
        /\ bearer[t] \in issued
        /\ \/ bearer[t].account = Empty
           \/ Fold[a] = Fold[bearer[t].account]
    BY <2>0, <2>3, PayersBear
  <2>5. a \in Names /\ bearer[t].account \in Names
    BY <2>0, <2>4
    DEF SystemInv, TokensSound, Token, TypeInv, StoreTypeOK, AccountsTypeOK, IsMap
  <2>6. bearer[t].account \in {a, Empty}
    BY <2>4, <2>5 DEF NamesApart
  <2>7. QED
    BY <2>3, <2>4, <2>6
<1>2. QED
  BY <1>1, SystemStoreHolds, PayersHold, PTL DEF SystemSpec, OwnMoneyOnly

-----------------------------------------------------------------------------
(* Sessions: what becomes of a token.                                      *)

(* The profile that is asked for is the bearer's.                          *)
OwnProfile == \A t \in Threads : req[t] # None /\ req[t].kind = "me" => req[t].user = bearer[t].user

LEMMA StepOwnProfile ==
    ASSUME SystemInv, OwnProfile, [SystemNext]_systemVars
    PROVE  OwnProfile'
<1>1. CASE UNCHANGED <<req, bearer>>
  BY <1>1 DEF OwnProfile
<1>2. CASE GatewayNext
  <2>1. ASSUME NEW call \in Calls, NEW token \in issued \cup {None}, Admit(call, token)
        PROVE  OwnProfile'
    <3>1. PICK t \in Threads, r \in Requests :
                /\ Accept(t, r)
                /\ bearer' = [bearer EXCEPT ![t] = token]
                /\ Admissible(r, token)
      BY <2>1, AdmitsRequests DEF SystemInv, TokensSound
    <3>2. /\ req'[t] = r /\ bearer'[t] = token
          /\ \A u \in Threads \ {t} : req'[u] = req[u] /\ bearer'[u] = bearer[u]
      BY <3>1 DEF Accept, SystemInv, ThreadsTypeOK, TokensSound
    <3>3. QED
      BY <3>1, <3>2 DEF OwnProfile, Admissible, OpenKinds
  <2>2. ASSUME NEW call \in Calls, NEW token \in issued \cup {None}, AnswerCall(call, token)
        PROVE  OwnProfile'
    BY <1>1, <2>2 DEF AnswerCall, vars, threadVars, gatewayVars
  <2>3. ASSUME NEW t \in Threads, Work(t)
        PROVE  OwnProfile'
    BY <1>1, <2>3, RequestKept DEF Work, SystemInv
  <2>4. CASE Tick
    BY <1>1, <2>4 DEF Tick, vars, threadVars
  <2>5. QED
    BY <1>2, <2>1, <2>2, <2>3, <2>4 DEF GatewayNext
<1>3. CASE Restart
  BY <1>3 DEF Restart, OwnProfile
<1>4. QED
  BY <1>1, <1>2, <1>3, SystemSteps
  DEF ServeCalls, BootStep, systemVars, vars, threadVars, gatewayVars

(* A thread in service has not answered, and only asks for the account of  *)
(* a token's bearer if that was the request.                               *)
Unanswered(t) ==
    /\ pc[t] # "done" => answer[t] = None
    /\ pc[t] = "accountOfToken" => req[t].kind = "myAccount"

LEMMA StepUnanswered ==
    ASSUME TypeInv, [Next]_vars, NEW t \in Threads, Unanswered(t)
    PROVE  /\ Unanswered(t)'
           /\ answer'[t] # answer[t] => Serve(t) /\ pc'[t] = "done"
<1>0. ThreadsTypeOK
  BY DEF TypeInv
<1>1. CASE UNCHANGED vars
  BY <1>1 DEF vars, threadVars, Unanswered
<1>2. ASSUME NEW u \in Threads, u # t, Serve(u) \/ \E r \in Requests : Accept(u, r)
      PROVE  Unanswered(t)' /\ answer'[t] = answer[t]
  BY <1>0, <1>2, OneThreadMoves DEF Unanswered
<1>3. ASSUME NEW r \in Requests, Accept(t, r)
      PROVE  Unanswered(t)' /\ answer'[t] = answer[t]
  <2>1. pc[t] = "idle" /\ req'[t] = r /\ pc'[t] = FirstStep[r.kind] /\ answer'[t] = answer[t]
    BY <1>0, <1>3 DEF Accept, ThreadsTypeOK
  <2>2. r.kind \in {"transfer", "complaint", "triage", "moderation", "consumer", "employee",
                    "accountLogin", "nameLogin", "me", "myAccount"}
    BY WorkersAssumption
    DEF RequestTypes, TransferRequest, ComplaintRequest, TriageRequest, ModerationRequest,
        RegistrationRequest, LoginRequest, ProfileRequest
  <2>3. pc'[t] = "accountOfToken" => r.kind = "myAccount"
    BY <2>1, <2>2 DEF FirstStep
  <2>4. QED
    BY <2>1, <2>3 DEF Unanswered
<1>4. CASE Serve(t)
  <2>1. pc[t] # "done"
    BY <1>4, ServesInFlight, Resting
  <2>2. pc'[t] = "done" \/ answer'[t] = answer[t]
    BY <1>0, <1>4, RequestKept
  <2>3. pc'[t] # "accountOfToken"
    <3>1. CASE ProfileStep(t)
      BY <1>0, <3>1 DEF ProfileStep, GetMe, GetMyAccount, Reply, Respond, ThreadsTypeOK
    <3>2. CASE ~ProfileStep(t)
      <4>1. pc'[t] \in UNION {TransferSteps, ComplaintSteps, TriageSteps, ModerationSteps,
                              ConsumerSteps, EmployeeSteps, LoginSteps, {"done"}}
        BY <1>0, <1>4, <3>2, HandlersStay DEF Serve, Stays
      <4>2. QED
        BY <4>1 DEF TransferSteps, ComplaintSteps, TriageSteps, ModerationSteps, ConsumerSteps,
                    EmployeeSteps, LoginSteps
    <3>3. QED
      BY <3>1, <3>2
  <2>4. QED
    BY <1>4, <2>1, <2>2, <2>3 DEF Unanswered
<1>5. QED
  BY <1>1, <1>2, <1>3, <1>4 DEF Next

(* Nothing is served while the process starts, and one at a time then, so  *)
(* what a handler has looked up about the users still holds.               *)
SessionInv ==
    /\ Alone
    /\ ~Serving => \A t \in Threads : pc[t] \in {"idle", "done"}
    /\ UserIndexAlive
    /\ ReadUsersFresh
    /\ \A t \in Threads : Unanswered(t)

(* A thread at rest has looked up nothing.                                 *)
RestSession ==
    /\ \A t \in Threads : pc[t] \in {"idle", "done"} /\ Unanswered(t)
    /\ UserIndexAlive

LEMMA RestSessionInv == RestSession => SessionInv
<1> SUFFICES ASSUME RestSession
             PROVE  SessionInv
  OBVIOUS
<1>1. InFlight = {}
  BY DEF RestSession, InFlight, Idle, Done
<1>2. Alone
  BY <1>1, FS_EmptySet DEF Alone
<1>3. ReadUsersFresh
  BY DEF RestSession, ReadUsersFresh, NumberFree, NameFree, LoginFresh, ConsumerSteps
<1>4. QED
  BY <1>2, <1>3 DEF RestSession, SessionInv

LEMMA RestSessionNext == RestSession' => SessionInv'
BY RestSessionInv, PTL

LEMMA StartsIndexAlive ==
    ASSUME UserIndexAlive, StartUp
    PROVE  UserIndexAlive'
<1>1. UNCHANGED userVars => UserIndexAlive'
  BY DEF userVars, UserIndexAlive
<1>2. ASSUME NEW id, NEW user, CreateUser(id, user)
      PROVE  UserIndexAlive'
  BY <1>1, <1>2 DEF CreateUser, Put, UserIndexAlive
<1>3. CASE SeedDefaultData
  <2>1. users' = DefaultUsers /\ userIndex' = KeyOf(DefaultUsers, LAMBDA u : u.username)
    BY <1>3 DEF SeedDefaultData
  <2>2. \A n \in DOMAIN userIndex' : userIndex'[n] \in DOMAIN DefaultUsers
    <3>1. /\ DOMAIN userIndex' = {DefaultUsers[u].username : u \in DOMAIN DefaultUsers}
          /\ \A n \in DOMAIN userIndex' :
                userIndex'[n] = CHOOSE u \in DOMAIN DefaultUsers : DefaultUsers[u].username = n
      BY <2>1 DEF KeyOf
    <3>2. QED
      BY <3>1
  <2>3. QED
    BY <2>1, <2>2 DEF UserIndexAlive
<1>4. CASE LoadAccount
  <2>1. CreateUser(Dataset[at].id, LoadedUser(Dataset[at]))
    BY <1>4 DEF LoadAccount, CreateUser
  <2>2. QED
    BY <1>2, <2>1
<1>5. CASE AccountsLoaded \/ LoadPayment \/ LoadEnds \/ EnsureAccount \/ SeedComplaints
  BY <1>1, <1>5 DEF AccountsLoaded, LoadPayment, LoadEnds, EnsureAccount, SeedComplaints, storeVars
<1>6. CASE EnsureUser
  BY <1>1, <1>2, <1>6 DEF EnsureUser
<1>7. QED
  BY <1>3, <1>4, <1>5, <1>6 DEF StartUp

LEMMA StepSession ==
    ASSUME MaxInFlight = 1, SystemInv, SessionInv, [SystemNext]_systemVars
    PROVE  SessionInv'
<1>1. CASE StartUp /\ ~Serving /\ BootStep
  <2>1. UserIndexAlive'
    BY <1>1, StartsIndexAlive DEF SessionInv
  <2>2. RestSession'
    BY <1>1, <2>1 DEF SessionInv, RestSession, BootStep, threadVars, Unanswered
  <2>3. QED
    BY <2>2, RestSessionNext
<1>2. CASE [Next]_vars /\ (Serving \/ UNCHANGED <<phase, threadVars>>) /\ Serving' = Serving
  <2>1. TypeInv
    BY SystemInvTypes
  <2>2. Alone' /\ UserIndexAlive'
    BY <1>2, <2>1, StepAlone, StepUserIndexAlive DEF SessionInv
  <2>3. ReadUsersFresh'
    BY <1>2, <2>1, StepReadUsers, StepNameFree DEF SessionInv, ReadUsersFresh
  <2>4. \A t \in Threads : Unanswered(t)'
    BY <1>2, <2>1, StepUnanswered DEF SessionInv
  <2>5. ~Serving' => \A t \in Threads : pc'[t] \in {"idle", "done"}
    BY <1>2 DEF SessionInv, threadVars
  <2>6. QED
    BY <2>2, <2>3, <2>4, <2>5 DEF SessionInv
<1>3. CASE Restart
  <2>1. /\ \A t \in Threads : pc'[t] \in {"idle", "done"} /\ answer'[t] = None
        /\ users' = <<>> /\ userIndex' = <<>>
    BY <1>3 DEF Restart
  <2>2. RestSession'
    BY <2>1 DEF RestSession, Unanswered, UserIndexAlive
  <2>3. QED
    BY <2>2, RestSessionNext
<1>4. CASE UNCHANGED systemVars
  BY <1>2, <1>4 DEF systemVars, vars, bootVars, Serving
<1>5. QED
  BY <1>1, <1>2, <1>3, <1>4, SystemSteps

LEMMA SessionHold ==
    ASSUME MaxInFlight = 1
    PROVE  SystemSpec => []SessionInv
<1>1. SystemInit => SessionInv
  <2>1. SystemInit => RestSession
    BY DEF SystemInit, ProcessStart, EmptyTables, WorkersInit, RestSession, Unanswered,
           UserIndexAlive
  <2>2. QED
    BY <2>1, RestSessionInv
<1>2. SystemInv /\ SessionInv /\ [SystemNext]_systemVars => SessionInv'
  BY StepSession
<1>3. QED
  BY <1>1, <1>2, SystemInvHolds, PTL DEF SystemSpec

(* Once calls are served, whoever was there from the start is there, and   *)
(* so is whom this process has granted a token.                            *)
BearersKnown ==
    /\ ~Serving => ResidentsInv /\ fresh = {}
    /\ Serving => ResidentUsers \subseteq DOMAIN users
    /\ \A token \in fresh : token.user \in DOMAIN users

LEMMA StepBearersKnown ==
    ASSUME SystemInv, SessionInv, BearersKnown, [SystemNext]_systemVars
    PROVE  BearersKnown'
<1>1. CASE StartUp /\ ~Serving /\ BootStep
  <2>1. ResidentsInv' /\ fresh' = {}
    BY <1>1, StartsResidents DEF BearersKnown, BootStep
  <2>2. Serving' => ResidentUsers \subseteq DOMAIN users'
    BY <2>1 DEF Serving, ResidentsInv, Has, ResidentUsers
  <2>3. QED
    BY <2>1, <2>2 DEF BearersKnown
<1>2. CASE Serving /\ Serving' /\ ServeCalls /\ [Next]_vars
  <2>0. TypeInv
    BY SystemInvTypes
  <2>1. DOMAIN users \subseteq DOMAIN users'
    BY <1>2, <2>0, StepUserIndexAlive DEF SessionInv
  <2>2. ASSUME NEW t \in Threads, answer'[t] # answer[t], NEW token \in GrantedBy(t)
        PROVE  token.user \in DOMAIN users'
    <3>1. answer'[t].token # None /\ token = Signed(answer'[t].token)
      BY DEF GrantedBy
    <3>2. Serve(t) /\ pc'[t] = "done"
      BY <1>2, <2>0, <2>2, StepUnanswered DEF SessionInv
    <3>3. KnownBearer(answer[t].token)'
      BY <2>0, <3>2, Granting DEF SessionInv, Granted
    <3>4. QED
      BY <3>1, <3>3 DEF KnownBearer, Signed
  <2>3. \A token \in fresh' : token.user \in DOMAIN users'
    BY <1>2, <2>1, <2>2 DEF ServeCalls, BearersKnown
  <2>4. QED
    BY <1>2, <2>1, <2>3 DEF BearersKnown
<1>3. CASE Restart
  BY <1>3 DEF Restart, GoToPhase, Serving, ResidentsInv, BearersKnown
<1>4. CASE UNCHANGED systemVars
  BY <1>4 DEF systemVars, vars, storeVars, userVars, bootVars, Serving, ResidentsInv, Has,
              UsernameTaken, BearersKnown
<1>5. QED
  BY <1>1, <1>2, <1>3, <1>4, SystemSteps

(* Only /auth/me answers a request for a profile.                          *)
LEMMA ProfileAnswered ==
    ASSUME TypeInv, NEW t \in Threads, Serve(t), Unanswered(t), req[t].kind = "me"
    PROVE  GetMe(t)
<1>1. StepSound(pc[t], req[t], local[t]) /\ pc[t] # "accountOfToken"
  BY DEF TypeInv, ThreadsSound, Unanswered
<1>2. pc[t] \notin UNION {TransferSteps, ComplaintSteps, TriageSteps, ModerationSteps,
                          ConsumerSteps, EmployeeSteps, LoginSteps}
  BY <1>1 DEF StepSound, TransferRequest, ComplaintRequest, TriageRequest, ModerationRequest,
              RegistrationRequest, LoginRequest
<1>3. ProfileStep(t)
  BY <1>2, HandlerSteps DEF Serve
<1>4. QED
  BY <1>1, <1>3 DEF ProfileStep, GetMyAccount

(* Served one at a time, every token that the running process granted, and *)
(* every token of a user who is there from the start, whichever process    *)
(* granted it, names someone whom /auth/me finds; nobody is ever removed.  *)
THEOREM SessionsLast ==
    ASSUME MaxInFlight = 1
    PROVE  SystemSpec => SessionHolds
<1> DEFINE MeFound(t) ==
        /\ answer'[t] # None /\ req[t].kind = "me"
        /\ \/ bearer[t] \in fresh
           \/ bearer[t].user \in ResidentUsers
        => answer'[t].code = 200
<1>1. SystemInit => BearersKnown /\ OwnProfile
  BY DEF SystemInit, ProcessStart, WorkersInit, Serving, ResidentsInv, BearersKnown, OwnProfile
<1>2. SystemInv /\ SessionInv /\ BearersKnown /\ OwnProfile /\ [SystemNext]_systemVars
        => BearersKnown' /\ OwnProfile'
  BY StepBearersKnown, StepOwnProfile
<1>3. SystemInv /\ SessionInv /\ BearersKnown /\ OwnProfile /\ [SystemNext]_systemVars
        => [\A t \in InFlight : MeFound(t)]_systemVars
  <2> SUFFICES ASSUME SystemInv, SessionInv, BearersKnown, OwnProfile, [SystemNext]_systemVars,
                      NEW t \in InFlight, answer'[t] # None, req[t].kind = "me",
                      \/ bearer[t] \in fresh
                      \/ bearer[t].user \in ResidentUsers
               PROVE  answer'[t].code = 200
    OBVIOUS
  <2>0. TypeInv /\ t \in Threads /\ pc[t] \notin {"idle", "done"}
    BY SystemInvTypes, Resting DEF InFlight
  <2>1. Serving /\ Unanswered(t) /\ answer[t] = None
    BY <2>0 DEF SessionInv, Unanswered
  <2>2. [Next]_vars
    BY <2>0, <2>1, SystemSteps DEF Restart, systemVars
  <2>3. Serve(t)
    BY <2>0, <2>1, <2>2, StepUnanswered
  <2>4. GetMe(t)
    BY <2>0, <2>1, <2>3, ProfileAnswered
  <2>5. req[t].user = bearer[t].user
    <3>1. req[t] # None
      BY <2>0, <2>4, WorkersAssumption
      DEF GetMe, TypeInv, ThreadsSound, StepSound, ProfileSteps, RequestTypes
    <3>2. QED
      BY <2>0, <3>1 DEF OwnProfile
  <2>6. req[t].user \in DOMAIN users
    BY <2>1, <2>5 DEF BearersKnown
  <2>7. QED
    BY <2>0, <2>4, <2>6 DEF GetMe, FindUserById, Reply, Respond, TypeInv, ThreadsTypeOK
<1>4. QED
  BY <1>1, <1>2, <1>3, SystemInvHolds, SessionHold, PTL DEF SystemSpec, SessionHolds

-----------------------------------------------------------------------------
(* Types, and the scale of the risk.                                       *)

RisksOnScale == \A a \in DOMAIN accounts : accounts[a].risk \in 0..MaxRisk

(* The loader divides what it reads, complaints say what they like: both   *)
(* are taken to stay on the scale.                                         *)
RisksGiven ==
    /\ OpeningRisks \subseteq 0..MaxRisk
    /\ \A i \in DOMAIN Dataset : Dataset[i].risk \in 0..(10 * MaxRisk)

LEMMA PercentRisks ==
    ASSUME NEW risk \in 0..(10 * MaxRisk)
    PROVE  PercentRisk(risk) \in 0..MaxRisk
<1>1. risk \in 0..10000
  BY DEF MaxRisk
<1>2. risk \div 10 \in 0..1000
  BY <1>1, SMT
<1>3. risk <= 100 => 10 * risk \in 0..1000
  BY <1>1
<1>4. QED
  BY <1>1, <1>2, <1>3 DEF PercentRisk, MaxRisk

LEMMA StepRisks ==
    ASSUME RisksGiven, TypeInv, RisksOnScale, [Next]_vars
    PROVE  RisksOnScale'
<1>1. CASE UNCHANGED accountVars
  BY <1>1 DEF accountVars, RisksOnScale
<1>2. ASSUME NEW id \in Names, NEW account \in Account, Opens(id, account)
      PROVE  RisksOnScale'
  <2>1. CreateAccount(id, account) /\ account.risk \in 0..MaxRisk
    BY <1>2 DEF Opens, RisksGiven
  <2>2. QED
    BY <1>1, <2>1 DEF CreateAccount, Put, RisksOnScale
<1>3. ASSUME NEW id, NEW status, UpdateAccountStatus(id, status)
      PROVE  RisksOnScale'
  BY <1>3 DEF UpdateAccountStatus, RisksOnScale, TypeInv, StoreTypeOK, AccountsTypeOK, IsMap,
              Account
<1>4. ASSUME NEW id, NEW status, ApplyTaintUpdate(id, TaintStep, status)
      PROVE  RisksOnScale'
  <2>1. \A a \in DOMAIN accounts : TaintedRisk(accounts[a].risk, TaintStep) \in 0..MaxRisk
    <3>1. \A risk \in 0..MaxRisk : TaintedRisk(risk, TaintStep) \in 0..MaxRisk
      BY DEF TaintedRisk, Clamp, MaxRisk, TaintStep
    <3>2. QED
      BY <3>1 DEF RisksOnScale
  <2>2. \A a \in DOMAIN accounts : accounts[a] \in Account
    BY DEF TypeInv, StoreTypeOK, AccountsTypeOK, IsMap
  <2>3. /\ DOMAIN accounts' = DOMAIN accounts
        /\ \A a \in DOMAIN accounts :
                accounts'[a].risk \in {accounts[a].risk, TaintedRisk(accounts[a].risk, TaintStep)}
    BY <1>4, <2>2 DEF ApplyTaintUpdate, Account
  <2>4. QED
    BY <2>1, <2>3 DEF RisksOnScale
<1>5. ASSUME NEW s, NEW r, NEW amount, NEW score, Payment(s, r, amount, score)
      PROVE  RisksOnScale'
  BY <1>5
  DEF Payment, ExecuteAtomicTransfer, Debit, Credit, RisksOnScale, TypeInv, StoreTypeOK,
      AccountsTypeOK, IsMap, Account
<1>6. QED
  BY <1>1, <1>2, <1>3, <1>4, <1>5, AccountWrites

LEMMA StartsRisks ==
    ASSUME RisksGiven, TypeInv, RisksOnScale, StartUp
    PROVE  RisksOnScale'
<1>1. CASE UNCHANGED accountVars
  BY <1>1 DEF accountVars, RisksOnScale
<1>2. CASE SeedDefaultData
  BY <1>2, BootAssumption DEF SeedDefaultData, RisksOnScale
<1>3. CASE LoadAccount
  <2>1. LoadedAccount(Dataset[at]).risk \in 0..MaxRisk
    BY <1>3, PercentRisks DEF LoadAccount, LoadedAccount, RisksGiven
  <2>2. accounts' = Put(accounts, Dataset[at].id, LoadedAccount(Dataset[at]))
    BY <1>3 DEF LoadAccount
  <2>3. QED
    BY <2>1, <2>2 DEF Put, RisksOnScale
<1>4. CASE EnsureAccount
  <2>1. PICK n \in DOMAIN DemoAccounts : n = at
    BY <1>4 DEF EnsureAccount
  <2> DEFINE demo == DemoAccounts[n]
  <2>2. demo.account.risk \in 0..MaxRisk /\ demo.account \in Account
    BY BootAssumption
  <2>3. \/ UNCHANGED accountVars
        \/ CreateAccount(demo.id, demo.account)
        \/ \E a : UpdateAccount(a, Refreshed(a, demo))
    BY <1>4, <2>1 DEF EnsureAccount
  <2> HIDE DEF demo
  <2>4. CASE CreateAccount(demo.id, demo.account)
    BY <1>1, <2>2, <2>4 DEF CreateAccount, Put, RisksOnScale
  <2>5. ASSUME NEW a \in DOMAIN accounts, UpdateAccount(a, Refreshed(a, demo))
        PROVE  RisksOnScale'
    <3>1. accounts[a] \in Account
      BY DEF TypeInv, StoreTypeOK, AccountsTypeOK, IsMap
    <3>2. Refreshed(a, demo).risk \in {accounts[a].risk, demo.account.risk}
      BY <2>2, <3>1 DEF Account, Refreshed
    <3>3. accounts' = [accounts EXCEPT ![a] = Refreshed(a, demo)]
      BY <2>5 DEF UpdateAccount
    <3>4. QED
      BY <2>2, <3>2, <3>3 DEF RisksOnScale
  <2>6. QED
    BY <1>1, <2>3, <2>4, <2>5 DEF UpdateAccount
<1>5. QED
  BY <1>1, <1>2, <1>3, <1>4
  DEF StartUp, AccountsLoaded, LoadPayment, LoadEnds, EnsureUser, SeedComplaints, storeVars

LEMMA StepSystemRisks ==
    ASSUME RisksGiven, SystemInv, RisksOnScale, [SystemNext]_systemVars
    PROVE  RisksOnScale'
<1>1. TypeInv
  BY SystemInvTypes
<1>2. CASE Restart
  BY <1>2 DEF Restart, RisksOnScale
<1>3. QED
  BY <1>1, <1>2, StartsRisks, StepRisks, SystemSteps DEF systemVars, vars

(* What Gateway and Boot count and keep.                                   *)
CountersSound ==
    /\ now <= MaxTime
    /\ fresh \subseteq issued
    /\ phase \in {"construct", "loadAccounts", "loadPayments", "demoAccounts", "demoUsers",
                  "demoComplaints", "serving"}
    /\ restarts \in 0..MaxRestarts

LEMMA StepCounters ==
    ASSUME SystemInv, CountersSound, [SystemNext]_systemVars
    PROVE  CountersSound'
<1>1. CASE StartUp
  <2>1. BootStep
    BY <1>1, StartsUp DEF SystemInv
  <2>2. phase' \in {"construct", "loadAccounts", "loadPayments", "demoAccounts", "demoUsers",
                    "demoComplaints", "serving"}
    BY <1>1
    DEF CountersSound, StartUp, SeedDefaultData, LoadAccount, AccountsLoaded, LoadPayment,
        LoadEnds, EnsureAccount, EnsureUser, SeedComplaints, GoToPhase, NextItem
  <2>3. QED
    BY <2>1, <2>2 DEF BootStep, gatewayVars, CountersSound
<1>2. CASE ServeCalls
  <2>1. UNCHANGED <<phase, restarts>>
    BY <1>2 DEF ServeCalls
  <2>2. now' <= MaxTime
    <3>1. now' = now \/ (now < MaxTime /\ now' = now + 1)
      BY <1>2 DEF ServeCalls, GatewayNext, AnswerCall, Admit, Work, Tick, gatewayVars
    <3>2. QED
      BY <3>1, GatewayAssumption DEF CountersSound, SystemInv, TokensSound
  <2>3. issued \subseteq issued'
    BY <1>2 DEF ServeCalls, GatewayNext, AnswerCall, Admit, Work, Tick, gatewayVars
  <2>4. ASSUME NEW t \in Threads, answer'[t] # answer[t]
        PROVE  GrantedBy(t) \subseteq issued'
    <3>1. PICK u \in Threads : Work(u)
      <4>1. ASSUME NEW call \in Calls, NEW token \in issued \cup {None}, Admit(call, token)
            PROVE  FALSE
        BY <2>4, <4>1 DEF Admit, Accept
      <4>2. QED
        BY <1>2, <2>4, <4>1 DEF ServeCalls, GatewayNext, AnswerCall, Tick, vars, threadVars
    <3>2. u = t
      BY <2>4, <3>1, OneThreadMoves DEF Work, SystemInv
    <3>3. QED
      BY <3>1, <3>2 DEF Work
  <2>5. fresh' \subseteq issued'
    BY <1>2, <2>3, <2>4 DEF ServeCalls, CountersSound
  <2>6. QED
    BY <2>1, <2>2, <2>5 DEF CountersSound
<1>3. CASE Restart
  <2>1. restarts' \in 0..MaxRestarts
    BY <1>3, DatasetAssumption DEF Restart, CountersSound
  <2>2. QED
    BY <1>3, <2>1 DEF Restart, GoToPhase, CountersSound
<1>4. CASE UNCHANGED systemVars
  BY <1>4 DEF systemVars, gatewayVars, bootVars, CountersSound
<1>5. QED
  BY <1>1, <1>2, <1>3, <1>4 DEF SystemNext

(* In every life of the process every table, token and thread has its      *)
(* type, and no risk leaves the scale of 0 to 100 points: a complaint adds *)
(* to it, and main() and the loader write over it.                         *)
THEOREM AccessTypeCorrect ==
    ASSUME RisksGiven
    PROVE  SystemSpec => []AccessTypeOK
<1>1. SystemInit => RisksOnScale /\ CountersSound
  <2>1. SystemInit => RisksOnScale
    BY DEF SystemInit, ProcessStart, EmptyTables, RisksOnScale
  <2>2. SystemInit => CountersSound
    BY GatewayAssumption, DatasetAssumption
    DEF SystemInit, ProcessStart, GatewayInit, CountersSound
  <2>3. QED
    BY <2>1, <2>2
<1>2. SystemInv /\ RisksOnScale /\ CountersSound /\ [SystemNext]_systemVars
        => RisksOnScale' /\ CountersSound'
  BY StepSystemRisks, StepCounters
<1>3. SystemInv /\ RisksOnScale /\ CountersSound => AccessTypeOK
  BY GatewayAssumption
  DEF SystemInv, TablesSound, ThreadsTypeOK, TokensSound, RisksOnScale, CountersSound,
      AccessTypeOK
<1>4. QED
  BY <1>1, <1>2, <1>3, SystemInvHolds, PTL DEF SystemSpec
=============================================================================
