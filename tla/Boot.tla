-------------------------------- MODULE Boot --------------------------------
(***************************************************************************)
(* The life of the process around the gateway: main() builds the store,    *)
(* links the dataset, makes sure of the demo accounts, users and           *)
(* complaints, and only then lets the server accept.  The tables are in    *)
(* memory and die with the process; the key that signs tokens is a         *)
(* constant of the program, so tokens do not.                              *)
(*                                                                         *)
(* Start-up has one thread, so that a lookup and the write that depends on *)
(* it are one step.                                                        *)
(***************************************************************************)
EXTENDS Gateway, SequencesExt

CONSTANTS
    Dataset,       \* the accounts of 3.json, in order
    DatasetPays,   \* its transactions, in order, by their statuses in the store
    MaxRestarts,   \* bound: how often the process dies
    Rupee          \* 1000 units; fewer in a run, as TLC's integers have 32 bits

DatasetRow == [id: Names, upi: Names, holder: Names, balance: Nat, risk: Int,
               status: AccountStatus]

(* Ids and handles are keys of the dataset, as they are in 3.json, and no  *)
(* default account has one of them.                                        *)
ASSUME DatasetAssumption ==
    /\ Dataset \in Seq(DatasetRow) /\ DatasetPays \in Seq(Transaction)
    /\ \A i, j \in DOMAIN Dataset :
            Dataset[i].id = Dataset[j].id \/ Dataset[i].upi = Dataset[j].upi => i = j
    /\ \A i \in DOMAIN Dataset : Dataset[i].id # Empty /\ Dataset[i].upi # Empty
    /\ "password123" \in Names
    /\ MaxRestarts \in Nat /\ Rupee \in Nat

VARIABLES
    phase,     \* where main() is
    at,        \* the row, account or user it comes to next
    fresh,     \* the tokens granted since it started
    restarts   \* how often it has started again

bootVars == <<phase, at, fresh, restarts>>

systemVars == <<vars, gatewayVars, bootVars>>

AccountOf(upi, holder, rupees, risk, status) ==
    [upi |-> upi, holder |-> holder, balance |-> rupees * Rupee, risk |-> risk,
     status |-> status]

EmptyTables ==
    /\ accounts = <<>> /\ upiIndex = <<>>
    /\ transactions = <<>> /\ txIndex = [n \in Names |-> <<>>] /\ flags = <<>>
    /\ complaints = <<>> /\ complaintOrder = <<>>
    /\ users = <<>> /\ userIndex = <<>>

ProcessStart == EmptyTables /\ WorkersInit /\ phase = "construct" /\ at = 1 /\ fresh = {}

SystemInit == ProcessStart /\ GatewayInit /\ restarts = 0

GoToPhase(p) == phase' = p /\ at' = 1

NextItem == at' = at + 1 /\ UNCHANGED phase

BootStep ==
    UNCHANGED <<threadVars, gatewayVars, fresh, restarts>>

-----------------------------------------------------------------------------
(* seed_default_data, called by the constructor of InMemoryStore            *)

DefaultAccounts ==
    [a \in {"ACC-7A1B8C9D", "ACC-9F2E4A10", "ACC-3B8C1D9E"} |->
        CASE a = "ACC-7A1B8C9D" ->
                AccountOf("siddharth@okaxis", "Siddharth Kumar", 150000, 50, "ACTIVE")
          [] a = "ACC-9F2E4A10" ->
                AccountOf("invest_guru@ybl", "Invest Guru Operations", 45000, 885, "FLAGGED")
          [] a = "ACC-3B8C1D9E" ->
                AccountOf("mule_wallet@paytm", "Fast Cash Payout Node", 92000, 920, "FLAGGED")]

UserOf(username, account, name, password) ==
    [username |-> username, account |-> account, name |-> name, password |-> password]

DefaultUsers ==
    [u \in {"8819A", "BANK-001", "BANK-002"} |->
        CASE u = "8819A" ->
                UserOf("siddharth_k", "ACC-7A1B8C9D", "Siddharth Kumar",
                       "secure_password_123")
          [] u = "BANK-001" ->
                UserOf("analyst_raj", Empty, "Rajesh Sharma", "bank_employee_pass_456")
          [] u = "BANK-002" ->
                UserOf("officer_priya", Empty, "Priya Nair", "admin_investigator_789")]

DefaultPayment ==
    [sender |-> "ACC-7A1B8C9D", receiver |-> "ACC-9F2E4A10", amount |-> 45000 * Rupee,
     status |-> "HELD"]

(* The index of a table by a field.                                        *)
KeyOf(f, Field(_)) ==
    [k \in {Field(f[i]) : i \in DOMAIN f} |-> CHOOSE i \in DOMAIN f : Field(f[i]) = k]

SeedDefaultData ==
    /\ phase = "construct"
    /\ accounts' = DefaultAccounts
    /\ upiIndex' = KeyOf(DefaultAccounts, LAMBDA a : a.upi)
    /\ users' = DefaultUsers
    /\ userIndex' = KeyOf(DefaultUsers, LAMBDA u : u.username)
    /\ transactions' = <<DefaultPayment>>
    /\ txIndex' = [n \in Names |->
                    IF n \in {DefaultPayment.sender, DefaultPayment.receiver} THEN <<1>>
                    ELSE <<>>]
    /\ flags' = [i \in {1} |-> 885]
    /\ complaints' = <<>> /\ complaintOrder' = <<>>
    /\ GoToPhase("loadAccounts")
    /\ BootStep

-----------------------------------------------------------------------------
(* load_from_database_dir                                                   *)

(* Mutant: the fraction is scaled twice.                                   *)
PercentRiskTwice(risk) == IF 0 < risk /\ risk <= 100 THEN 1000 * risk ELSE risk \div 10

(* The dataset's risk is in hundredths; one between 0 and 1 is a fraction. *)
PercentRisk(risk) == IF 0 < risk /\ risk <= 100 THEN 10 * risk ELSE risk \div 10

(* The dataset's balance is not read: the account is left with none.       *)
LoadedAccount(row) ==
    [upi |-> row.upi, holder |-> row.holder, balance |-> 0, risk |-> PercentRisk(row.risk),
     status |-> row.status]

LoadedUser(row) == UserOf(row.upi, row.id, Empty, "password123")

(* One row: the account and its handle overwrite, the user does not.       *)
LoadAccount ==
    LET row == Dataset[at]
        user == LoadedUser(row)
    IN  /\ phase = "loadAccounts"
        /\ at \in DOMAIN Dataset
        /\ accounts' = Put(accounts, row.id, LoadedAccount(row))
        /\ upiIndex' = Put(upiIndex, row.upi, row.id)
        /\ IF UsernameTaken(user.username) THEN UNCHANGED userVars
           ELSE /\ users' = Put(users, row.id, user)
                /\ userIndex' = Put(userIndex, user.username, row.id)
        /\ NextItem
        /\ UNCHANGED <<ledgerVars, complaintVars>>
        /\ BootStep

AccountsLoaded ==
    /\ phase = "loadAccounts"
    /\ at = Len(Dataset) + 1
    /\ GoToPhase("loadPayments")
    /\ UNCHANGED storeVars
    /\ BootStep

(* Neither the accounts nor the flags of a payment are looked at.          *)
LoadPayment ==
    LET pay == DatasetPays[at]
        id == Len(transactions) + 1
    IN  /\ phase = "loadPayments"
        /\ at \in DOMAIN DatasetPays
        /\ transactions' = Append(transactions, pay)
        /\ txIndex' = IndexedUnder(pay.sender, pay.receiver, id)
        /\ NextItem
        /\ UNCHANGED <<accountVars, flags, complaintVars, userVars>>
        /\ BootStep

(* The dataset ends, is not there, or makes the parser throw at any point: *)
(* main goes on with what is there.                                        *)
LoadEnds ==
    /\ phase \in {"loadAccounts", "loadPayments"}
    /\ GoToPhase("demoAccounts")
    /\ UNCHANGED storeVars
    /\ BootStep

-----------------------------------------------------------------------------
(* The demo accounts, users and complaints of main()                        *)

(* by: how main looks for it.  fields: what it writes over an account that *)
(* it finds.                                                               *)
Demo(id, account, by, fields) ==
    [id |-> id, account |-> account, by |-> by, fields |-> fields]

DemoAccounts ==
    <<Demo("ACC-10096", AccountOf("rajesh.mule@oksbi", "Rajesh Kumar", 250000, 940, "FLAGGED"),
           "id", {"upi", "holder", "risk", "status"}),
      Demo("ACC-9F2E4A10",
           AccountOf("invest_guru@ybl", "Deepak Sharma (Invest Guru)", 150000, 885, "FLAGGED"),
           "id", {"upi", "holder"}),
      Demo("ACC-99014",
           AccountOf("invest_guru_global@ybl", "Invest Guru Global Hub", 450000, 890, "FLAGGED"),
           "id", {}),
      Demo("ACC-44910283", AccountOf("vivek.phish@oksbi", "Vivek Singh", 28500, 760, "FLAGGED"),
           "id", {}),
      Demo("ACC-ZOMATO-01",
           AccountOf("zomato@paytm", "Zomato Verified Merchant", 5000000, 40, "ACTIVE"),
           "upi", {})>>

Refreshed(a, demo) ==
    [f \in DOMAIN accounts[a] |->
        IF f \in demo.fields THEN demo.account[f] ELSE accounts[a][f]]

EnsureAccount ==
    LET demo == DemoAccounts[at]
        found == IF demo.by = "id" THEN FindAccountById(demo.id)
                 ELSE FindAccountByUpi(demo.account.upi)
    IN  /\ phase = "demoAccounts"
        /\ at \in DOMAIN DemoAccounts
        /\ \/ found = {} /\ CreateAccount(demo.id, demo.account)
           \/ \E a \in found :
                IF demo.fields = {} THEN UNCHANGED accountVars
                ELSE UpdateAccount(a, Refreshed(a, demo))
        /\ IF at = Len(DemoAccounts) THEN GoToPhase("demoUsers") ELSE NextItem
        /\ UNCHANGED <<ledgerVars, complaintVars, userVars>>
        /\ BootStep

DemoUser(id, user) == [id |-> id, user |-> user]

DemoUsers ==
    <<DemoUser("OFFICER-901", UserOf("OFFICER-901", Empty, "Senior SOC Officer",
                                     "bank_secure_pass")),
      DemoUser("OFF-901", UserOf("OFF-901", Empty, "Officer 901", "officer")),
      DemoUser("SIDDHARTH-KUMAR",
               UserOf("siddharth_kumar", "ACC-7A1B8C9D", "Siddharth Kumar", "secure_pass_123")),
      DemoUser("8819A", UserOf("siddharth_k", "ACC-7A1B8C9D", "Siddharth Kumar",
                               "secure_password_123"))>>

(* Mutant: both demo consumers are given the user id of the same one.      *)
EnsureUserOneId ==
    LET demo == DemoUsers[at]
        id   == IF demo.user.account = Empty THEN demo.id ELSE "8819A"
    IN  /\ phase = "demoUsers"
        /\ at \in DOMAIN DemoUsers
        /\ IF FindUserByUsername(demo.user.username) = {}
           THEN CreateUser(id, demo.user)
           ELSE UNCHANGED userVars
        /\ IF at = Len(DemoUsers) THEN GoToPhase("demoComplaints") ELSE NextItem
        /\ UNCHANGED <<accountVars, ledgerVars, complaintVars>>
        /\ BootStep

EnsureUser ==
    LET demo == DemoUsers[at]
    IN  /\ phase = "demoUsers"
        /\ at \in DOMAIN DemoUsers
        /\ IF FindUserByUsername(demo.user.username) = {}
           THEN CreateUser(demo.id, demo.user)
           ELSE UNCHANGED userVars
        /\ IF at = Len(DemoUsers) THEN GoToPhase("demoComplaints") ELSE NextItem
        /\ UNCHANGED <<accountVars, ledgerVars, complaintVars>>
        /\ BootStep

DemoComplaints ==
    [c \in {"CMP-102", "CMP-101", "CMP-100"} |->
        CASE c = "CMP-102" -> [complainant |-> "ACC-7A1B8C9D", suspect |-> "ACC-10096",
                               tx |-> ExternalTx, status |-> "UNDER_INVESTIGATION"]
          [] c = "CMP-101" -> [complainant |-> "ACC-VIC-A01", suspect |-> "ACC-9F2E4A10",
                               tx |-> ExternalTx, status |-> "OTHER"]
          [] c = "CMP-100" -> [complainant |-> "ACC-VIC-B01", suspect |-> "ACC-44910283",
                               tx |-> ExternalTx, status |-> "RESOLVED"]]

(* list_complaints answers none: nothing has filed one yet.  Then the      *)
(* routes are registered and the server accepts.                           *)
SeedComplaints ==
    /\ phase = "demoComplaints"
    /\ complaintOrder = <<>>
    /\ complaints' = DemoComplaints
    /\ complaintOrder' = <<"CMP-102", "CMP-101", "CMP-100">>
    /\ GoToPhase("serving")
    /\ UNCHANGED <<accountVars, ledgerVars, userVars>>
    /\ BootStep

(* Of the literals above: they are values of the model, no account starts  *)
(* in debt or off the scale of the risk, and no two users have one         *)
(* username.                                                               *)
ASSUME BootAssumption ==
    /\ IsMap(DefaultAccounts, Names, Account)
    /\ \A a \in DOMAIN DefaultAccounts :
            /\ DefaultAccounts[a].balance >= 0
            /\ DefaultAccounts[a].risk \in 0..MaxRisk
    /\ IsMap(DefaultUsers, Names, User)
    /\ \A u, v \in DOMAIN DefaultUsers :
            DefaultUsers[u].username = DefaultUsers[v].username => u = v
    /\ DefaultPayment \in Transaction
    /\ \A i \in DOMAIN DemoAccounts :
            /\ DemoAccounts[i].id \in Names
            /\ DemoAccounts[i].account \in Account
            /\ DemoAccounts[i].account.balance >= 0
            /\ DemoAccounts[i].account.risk \in 0..MaxRisk
    /\ \A i \in DOMAIN DemoUsers : DemoUsers[i].id \in Names /\ DemoUsers[i].user \in User
    /\ IsMap(DemoComplaints, ComplaintIds, Complaint)

StartUp ==
    \/ SeedDefaultData
    \/ LoadAccount
    \/ AccountsLoaded
    \/ LoadPayment
    \/ LoadEnds
    \/ EnsureAccount
    \/ EnsureUser
    \/ SeedComplaints

-----------------------------------------------------------------------------
ServeCalls ==
    /\ phase = "serving"
    /\ GatewayNext
    /\ fresh' = fresh \cup UNION {GrantedBy(t) : t \in {u \in Threads : answer'[u] # answer[u]}}
    /\ UNCHANGED <<phase, at, restarts>>

(* The process ends, by a signal or a crash, and is started again: the     *)
(* tables are gone and so is every thread that had begun, answered or not. *)
Restart ==
    /\ phase = "serving"
    /\ restarts < MaxRestarts
    /\ restarts' = restarts + 1
    /\ accounts' = <<>> /\ upiIndex' = <<>>
    /\ transactions' = <<>> /\ txIndex' = [n \in Names |-> <<>>] /\ flags' = <<>>
    /\ complaints' = <<>> /\ complaintOrder' = <<>>
    /\ users' = <<>> /\ userIndex' = <<>>
    /\ pc' = [t \in Threads |-> IF t \in Idle THEN "idle" ELSE "done"]
    /\ req' = [t \in Threads |-> None]
    /\ local' = [t \in Threads |-> Blank]
    /\ answer' = [t \in Threads |-> None]
    /\ GoToPhase("construct")
    /\ fresh' = {}
    /\ bearer' = [t \in Threads |-> None]
    /\ UNCHANGED <<now, issued>>

SystemNext == StartUp \/ ServeCalls \/ Restart

SystemSpec == SystemInit /\ [][SystemNext]_systemVars
=============================================================================
