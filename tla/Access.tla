------------------------------- MODULE Access -------------------------------
(***************************************************************************)
(* What has to be true of the ONYX backend from its start to its end and   *)
(* beyond, for clients that reach it through the router only.              *)
(***************************************************************************)
EXTENDS Boot, OnyxProperties

Serving == phase = "serving"

(* The users there are from the start: of main(), of the store itself, and *)
(* of the accounts of the dataset.                                         *)
ResidentUsers == {DemoUsers[i].id : i \in DOMAIN DemoUsers} \cup DOMAIN DefaultUsers

SeededUsers == ResidentUsers \cup {Dataset[i].id : i \in DOMAIN Dataset}

Key(id, upi) == [id |-> id, upi |-> upi]

(* The ids and handles that the accounts of the three sources come with.   *)
SeedKeys ==
    {Key(a, DefaultAccounts[a].upi) : a \in DOMAIN DefaultAccounts}
        \cup {Key(Dataset[i].id, Dataset[i].upi) : i \in DOMAIN Dataset}
        \cup {Key(DemoAccounts[i].id, DemoAccounts[i].account.upi) : i \in DOMAIN DemoAccounts}

(* Of the literals and of 3.json: the sources name the same account only   *)
(* where they mean it, in any case.                                        *)
ASSUME SeedAccountsAssumption ==
    /\ \A k \in SeedKeys : k.id # Empty /\ k.upi # Empty
    /\ \A k, l \in SeedKeys : k.upi = l.upi \/ Fold[k.id] = Fold[l.id] => k.id = l.id
    /\ \A i \in DOMAIN Dataset : Dataset[i].id \notin DOMAIN DefaultAccounts
    /\ \A i \in DOMAIN DemoAccounts : DemoAccounts[i].by # "id" =>
            /\ DemoAccounts[i].fields = {}
            /\ \A k \in SeedKeys :
                    k.id = DemoAccounts[i].id => k.upi = DemoAccounts[i].account.upi
    /\ \A c \in DOMAIN DemoComplaints : \E i \in DOMAIN DemoAccounts :
            DemoAccounts[i].by = "id" /\ DemoAccounts[i].id = DemoComplaints[c].suspect

(* And the same user; an employee's id begins with "EMP-", and no other.   *)
ASSUME SeedUsersAssumption ==
    /\ \A i \in DOMAIN DemoUsers, u \in DOMAIN DefaultUsers :
            LET demo == DemoUsers[i]
            IN  demo.id = u \/ demo.user.username = DefaultUsers[u].username =>
                    demo.id = u /\ demo.user = DefaultUsers[u]
    /\ \A i, j \in DOMAIN DemoUsers :
            \/ DemoUsers[i].id = DemoUsers[j].id
            \/ DemoUsers[i].user.username = DemoUsers[j].user.username
            => i = j
    /\ \A i \in DOMAIN Dataset :
            /\ Dataset[i].id \notin ResidentUsers
            /\ \A j \in DOMAIN DemoUsers : Dataset[i].upi # DemoUsers[j].user.username
    /\ {DefaultUsers[u].account : u \in DOMAIN DefaultUsers}
            \cup {DemoUsers[i].user.account : i \in DOMAIN DemoUsers}
        \subseteq {Empty} \cup DOMAIN DefaultAccounts
    /\ EmployeeIds \cap SeededUsers = {}

(* The types of what Gateway and Boot add to the store and the threads;    *)
(* every risk is between 0 and 100.                                        *)
AccessTypeOK ==
    /\ StoreTypeOK
    /\ \A a \in DOMAIN accounts : accounts[a].risk \in 0..MaxRisk
    /\ \A t \in Threads : answer[t] \in AnswerType \cup {None}
    /\ now \in 0..MaxTime
    /\ issued \subseteq Token /\ fresh \subseteq issued
    /\ bearer \in [Threads -> issued \cup {None}]
    /\ phase \in {"construct", "loadAccounts", "loadPayments", "demoAccounts", "demoUsers",
                  "demoComplaints", "serving"}
    /\ restarts \in 0..MaxRestarts

(* Wherever reading the dataset broke off, the store that is served has    *)
(* its handles and usernames as keys, no account overdrawn, and neither a  *)
(* complaint nor a seeded user without its account; requests keep it so.   *)
(* (main.cpp:54 "Seed interactive demo portal accounts, credentials &      *)
(* dispute queue".)                                                        *)
StoreSound ==
    Serving =>
        /\ AccountsReachable /\ HandlesSound /\ UsersCanLogIn
        /\ NoOverdraft /\ ComplaintSuspectExists
        /\ {users[u].account : u \in SeededUsers \cap DOMAIN users} \ {Empty}
                \subseteq DOMAIN accounts

(* Every default and demo user can log in under its own username, with its *)
(* own password, in every life of the process, if nobody signs up under a  *)
(* number such as 8819A, of which the id of such a user is made.           *)
(* (main.cpp:138 "Demo Bank Officers", main.cpp:162 "Demo Consumers".)     *)
DemoUsersKnown ==
    Serving =>
        \A user \in {DemoUsers[i].user : i \in DOMAIN DemoUsers}
                        \cup {DefaultUsers[u] : u \in DOMAIN DefaultUsers} :
            \E u \in FindUserByUsername(user.username) : users[u] = user

(* What a handler works on is what the role of the bearer's token allows:  *)
(* employees moderate and triage, consumers complain for themselves and    *)
(* pay from their own account, and nobody does either without a token.     *)
(* (architecture_defense_brochure.md:252 "RbacMiddleware Guard".)          *)
RolesKept ==
    \A t \in Threads :
        req[t] # None /\ req[t].kind \notin OpenKinds =>
            /\ bearer[t] \in issued
            /\ req[t].kind \in {"moderation", "triage"} => bearer[t].account = Empty
            /\ req[t].kind \in {"complaint", "myAccount"} => bearer[t].account # Empty
            /\ req[t].kind = "complaint" => req[t].caller = bearer[t].account
            /\ req[t].kind = "transfer" /\ bearer[t].account # Empty =>
                    req[t].sender = bearer[t].account

(* A balance only goes down in the service of a request that came with a   *)
(* token for that very account, or with an employee's.                     *)
OwnMoneyOnly ==
    [][Serving /\ Serving' =>
        \A a \in DOMAIN accounts :
            accounts'[a].balance < accounts[a].balance =>
                \E t \in InFlight :
                    /\ pc'[t] = "done" /\ answer'[t].code = 201
                    /\ bearer[t] \in issued /\ bearer[t].account \in {a, Empty}]_systemVars

(* Whoever holds a token is known: a token granted by this process, or by  *)
(* an earlier one to a user who is there from the start, names a user that *)
(* /auth/me finds.                                                         *)
SessionHolds ==
    [][\A t \in InFlight :
        /\ answer'[t] # None /\ req[t].kind = "me"
        /\ \/ bearer[t] \in fresh
           \/ bearer[t].user \in ResidentUsers
        => answer'[t].code = 200]_systemVars
=============================================================================
