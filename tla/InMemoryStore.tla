--------------------------- MODULE InMemoryStore ---------------------------
(***************************************************************************)
(* The shared state of the ONYX backend, db::InMemoryStore, and its        *)
(* operations.  One std::shared_mutex guards every table and each public   *)
(* method holds it from its first access to its last, so a method is one   *)
(* step: what it answers is an operator of the current state, what it      *)
(* changes is an action on the tables it touches.                          *)
(*                                                                         *)
(* Each action constrains its own group of tables only (accountVars,       *)
(* ledgerVars, complaintVars, userVars); the caller says that the others   *)
(* stay as they are.                                                       *)
(***************************************************************************)
EXTENDS Sequences, FiniteSets, RiskRules

CONSTANTS
    Names,          \* every string used as an id, a handle, a name or a password
    Empty,          \* the empty string, one of them
    Fold,           \* Fold[n]: n in lower case
    Overlaps,       \* <<asked, upi>>: the lower-cased handles match as prefix or substring
    ComplaintIds,   \* the ids a complaint can draw (two random bytes)
    SeedAccounts,   \* the accounts present at the start: id -> account
    SeedUsers       \* the users present at the start: user id -> user

Account == [upi: Names, holder: Names, balance: Int, risk: Int, status: AccountStatus]

(* Consumers have an account and employees have none, so that the account  *)
(* tells the role.  The password stands for its salted hash.               *)
User == [username: Names, account: Names, name: Names, password: Names]

Transaction == [sender: Names, receiver: Names, amount: Nat, status: TransactionStatus]

(* An employee may write any string: "OTHER" stands for those without a    *)
(* name.                                                                   *)
ComplaintStatus == {"SUBMITTED", "UNDER_INVESTIGATION", "RESOLVED", "REJECTED", "OTHER"}

Complaint == [complainant: Names, suspect: Names, tx: Int, status: ComplaintStatus]

(* The seeds have ids and handles, no debts and a risk on the scale, and   *)
(* their handles and usernames are keys.                                   *)
ASSUME StoreAssumption ==
    /\ Empty \in Names
    /\ Fold \in [Names -> Names]
    /\ Overlaps \subseteq Names \X Names
    /\ IsFiniteSet(ComplaintIds)
    /\ SeedAccounts \in [DOMAIN SeedAccounts -> Account]
    /\ DOMAIN SeedAccounts \subseteq Names /\ IsFiniteSet(DOMAIN SeedAccounts)
    /\ \A a \in DOMAIN SeedAccounts :
            /\ a # Empty /\ SeedAccounts[a].upi # Empty
            /\ SeedAccounts[a].balance >= 0
            /\ SeedAccounts[a].risk \in 0..MaxRisk
    /\ \A a, b \in DOMAIN SeedAccounts :
            SeedAccounts[a].upi = SeedAccounts[b].upi => a = b
    /\ SeedUsers \in [DOMAIN SeedUsers -> User]
    /\ DOMAIN SeedUsers \subseteq Names
    /\ \A u, v \in DOMAIN SeedUsers :
            SeedUsers[u].username = SeedUsers[v].username => u = v

VARIABLES
    accounts,        \* accounts_by_id_
    upiIndex,        \* account_id_by_upi_
    transactions,    \* transactions_by_id_: the n-th one created has id n
    txIndex,         \* account_tx_index_
    flags,           \* flags_by_tx_id_: transaction id -> score
    complaints,      \* complaints_by_id_
    complaintOrder,  \* complaint_order_
    users,           \* users_by_id_
    userIndex        \* user_id_by_username_

accountVars == <<accounts, upiIndex>>
ledgerVars == <<transactions, txIndex, flags>>
complaintVars == <<complaints, complaintOrder>>
userVars == <<users, userIndex>>
storeVars == <<accountVars, ledgerVars, complaintVars, userVars>>

(* map[k] = v of an unordered_map: insert or overwrite.                    *)
Put(f, k, v) == [x \in DOMAIN f \cup {k} |-> IF x = k THEN v ELSE f[x]]

StoreInit ==
    /\ accounts = SeedAccounts
    /\ upiIndex = [u \in {SeedAccounts[a].upi : a \in DOMAIN SeedAccounts} |->
                       CHOOSE a \in DOMAIN SeedAccounts : SeedAccounts[a].upi = u]
    /\ transactions = <<>>
    /\ txIndex = [n \in Names |-> <<>>]
    /\ flags = <<>>
    /\ complaints = <<>>
    /\ complaintOrder = <<>>
    /\ users = SeedUsers
    /\ userIndex = [n \in {SeedUsers[u].username : u \in DOMAIN SeedUsers} |->
                        CHOOSE u \in DOMAIN SeedUsers : SeedUsers[u].username = n]

-----------------------------------------------------------------------------
(* Accounts                                                                *)

(* Lookups answer the set of ids the program may return: a scan of an      *)
(* unordered_map stops at the first hit, in an order nobody chose.  The    *)
(* empty set is std::nullopt, the answer for a blank name.  The white      *)
(* space around a name, which both trim, is taken to be absent: a number   *)
(* signed up with some is stored with it and cannot be found again by id.  *)
FindAccountById(n) ==
    IF n = Empty THEN {}
    ELSE IF n \in DOMAIN accounts THEN {n}
    ELSE {a \in DOMAIN accounts : Fold[a] = Fold[n]}

UpiExact(n) ==
    {upiIndex[u] : u \in DOMAIN upiIndex \cap {n}} \cap DOMAIN accounts

UpiFolded(n) ==
    {upiIndex[u] : u \in {v \in DOMAIN upiIndex : Fold[v] = Fold[n]}} \cap DOMAIN accounts

UpiScanned(n) ==
    {a \in DOMAIN accounts : Fold[n] \in {Fold[accounts[a].upi], Fold[a]}}

UpiOverlapping(n) ==
    {a \in DOMAIN accounts : <<n, accounts[a].upi>> \in Overlaps}

FindAccountByUpi(n) ==
    IF n = Empty THEN {}
    ELSE IF UpiExact(n) # {} THEN UpiExact(n)
    ELSE IF UpiFolded(n) # {} THEN UpiFolded(n)
    ELSE IF UpiScanned(n) # {} THEN UpiScanned(n)
    ELSE UpiOverlapping(n)

(* Mutant: a handle in use is taken over.                                  *)
CreateAccountAnyHandle(id, account) ==
    /\ accounts' = Put(accounts, id, account)
    /\ upiIndex' = Put(upiIndex, account.upi, id)

(* Mutant: the handle is indexed before it is checked.                     *)
CreateAccountIndexFirst(id, account) ==
    /\ accounts' = IF account.upi \in DOMAIN upiIndex THEN accounts
                   ELSE Put(accounts, id, account)
    /\ upiIndex' = IF account.upi = Empty THEN upiIndex ELSE Put(upiIndex, account.upi, id)

(* Refused only when the handle is taken: an account under the same id is  *)
(* overwritten.                                                            *)
CreateAccount(id, account) ==
    IF account.upi \in DOMAIN upiIndex
    THEN UNCHANGED accountVars
    ELSE /\ accounts' = Put(accounts, id, account)
         /\ upiIndex' = IF account.upi = Empty THEN upiIndex
                        ELSE Put(upiIndex, account.upi, id)

(* Mutant: the handle it had goes on leading to it.                        *)
UpdateAccountKeepHandle(id, account) ==
    IF id \notin DOMAIN accounts
    THEN UNCHANGED accountVars
    ELSE /\ accounts' = [accounts EXCEPT ![id] = account]
         /\ upiIndex' = IF account.upi = Empty THEN upiIndex
                        ELSE Put(upiIndex, account.upi, id)

(* The account is replaced as a whole: its former handle leads nowhere, a  *)
(* new one is taken over from whoever has it.                              *)
UpdateAccount(id, account) ==
    IF id \notin DOMAIN accounts
    THEN UNCHANGED accountVars
    ELSE LET old  == accounts[id].upi
             kept == IF old \in {Empty, account.upi} THEN upiIndex
                     ELSE [u \in DOMAIN upiIndex \ {old} |-> upiIndex[u]]
         IN  /\ accounts' = [accounts EXCEPT ![id] = account]
             /\ upiIndex' = IF account.upi = Empty THEN kept
                            ELSE Put(kept, account.upi, id)

UpdateAccountStatus(id, status) ==
    /\ accounts' = IF id \in DOMAIN accounts
                   THEN [accounts EXCEPT ![id].status = status]
                   ELSE accounts
    /\ UNCHANGED upiIndex

ApplyTaintUpdate(id, delta, status) ==
    /\ accounts' = IF id \in DOMAIN accounts
                   THEN [accounts EXCEPT ![id].risk = TaintedRisk(@, delta),
                                         ![id].status = status]
                   ELSE accounts
    /\ UNCHANGED upiIndex

-----------------------------------------------------------------------------
(* Transactions and flags                                                  *)

FindTransactionsByAccount(a) == txIndex[a]

(* Mutant: the balance the handler saw is relied on.                       *)
CanTransferUnfunded(s, r, amount) ==
    /\ amount > 0
    /\ s # r
    /\ {s, r} \subseteq DOMAIN accounts
    /\ accounts[s].status # "FROZEN"
    /\ accounts[r].status # "FROZEN"

(* Mutant: only the sender's status is checked.                            *)
CanTransferToFrozen(s, r, amount) ==
    /\ amount > 0
    /\ s # r
    /\ {s, r} \subseteq DOMAIN accounts
    /\ accounts[s].status # "FROZEN"
    /\ ToCents(accounts[s].balance) >= ToCents(amount)

(* The checks of execute_atomic_transfer, made under the lock.             *)
CanTransfer(s, r, amount) ==
    /\ amount > 0
    /\ s # r
    /\ {s, r} \subseteq DOMAIN accounts
    /\ accounts[s].status # "FROZEN"
    /\ accounts[r].status # "FROZEN"
    /\ ToCents(accounts[s].balance) >= ToCents(amount)

Debit(account, cents) == [account EXCEPT !.balance = 10 * (ToCents(@) - cents)]

Credit(account, cents) == [account EXCEPT !.balance = 10 * (ToCents(@) + cents)]

(* Mutant: a held payment is not charged.                                  *)
ChargedWhenCompleted(status) == status = "COMPLETED"

(* The money leaves the sender.                                            *)
Charged(status) == status \in {"COMPLETED", "HELD"}

(* Mutant: a held payment reaches its receiver all the same.               *)
DeliveredWhenHeld(status) == status \in {"COMPLETED", "HELD"}

(* The money reaches the receiver.                                         *)
Delivered(status) == status = "COMPLETED"

(* Mutant: the receiver's history is not extended.                         *)
IndexedUnderSender(s, r, id) == [txIndex EXCEPT ![s] = Append(@, id)]

IndexedUnder(s, r, id) == [txIndex EXCEPT ![s] = Append(@, id), ![r] = Append(@, id)]

(* A COMPLETED payment moves the money, a HELD one takes it from the       *)
(* sender, any other leaves both balances; each is recorded, with the      *)
(* amount that was asked for.                                              *)
ExecuteAtomicTransfer(s, r, amount, verdict) ==
    LET cents == ToCents(amount)
        id    == Len(transactions) + 1
        moved == [a \in DOMAIN accounts |->
                    IF a = s /\ Charged(verdict.status)
                    THEN Debit(accounts[a], cents)
                    ELSE IF a = r /\ Delivered(verdict.status)
                    THEN Credit(accounts[a], cents)
                    ELSE accounts[a]]
    IN  /\ accounts' = moved
        /\ transactions' = Append(transactions,
                [sender |-> s, receiver |-> r, amount |-> amount, status |-> verdict.status])
        /\ txIndex' = IndexedUnder(s, r, id)
        /\ flags' = IF verdict.flagged THEN Put(flags, id, verdict.score) ELSE flags
        /\ UNCHANGED upiIndex

-----------------------------------------------------------------------------
(* Complaints                                                              *)

(* Overwrites a complaint that drew the same id, and lists the id again.   *)
CreateComplaint(id, complaint) ==
    /\ complaints' = Put(complaints, id, complaint)
    /\ complaintOrder' = Append(complaintOrder, id)

CountComplaintsForSuspect(a) ==
    Cardinality({c \in DOMAIN complaints :
                    complaints[c].suspect = a /\ complaints[c].status # "REJECTED"})

UpdateComplaintStatus(id, status) ==
    /\ complaints' = IF id \in DOMAIN complaints
                     THEN [complaints EXCEPT ![id].status = status]
                     ELSE complaints
    /\ UNCHANGED complaintOrder

-----------------------------------------------------------------------------
(* Users                                                                   *)

FindUserByUsername(n) ==
    {userIndex[m] : m \in DOMAIN userIndex \cap {n}} \cap DOMAIN users

FindUserById(u) == {u} \cap DOMAIN users

FindUserByAccountId(a) == {u \in DOMAIN users : users[u].account = a}

UsernameTaken(n) == n \in DOMAIN userIndex

(* Mutant: the index is not asked, the caller's check is relied on.        *)
CreateUserUnchecked(id, user) ==
    /\ users' = Put(users, id, user)
    /\ userIndex' = Put(userIndex, user.username, id)

(* Refused only when the username is taken: a user under the same id is    *)
(* overwritten, and its old username goes on pointing at it.               *)
CreateUser(id, user) ==
    IF UsernameTaken(user.username)
    THEN UNCHANGED userVars
    ELSE /\ users' = Put(users, id, user)
         /\ userIndex' = Put(userIndex, user.username, id)

-----------------------------------------------------------------------------
(* The values of the tables.  IsMap(f, K, V): f is what an unordered_map    *)
(* from K to V can hold.                                                   *)
IsMap(f, K, V) == DOMAIN f \subseteq K /\ f \in [DOMAIN f -> V]

AccountsTypeOK == IsMap(accounts, Names, Account) /\ IsMap(upiIndex, Names, Names)

LedgerTypeOK ==
    /\ transactions \in Seq(Transaction)
    /\ txIndex \in [Names -> Seq(Nat)]
    /\ IsMap(flags, Nat, Int)

ComplaintsTypeOK ==
    IsMap(complaints, ComplaintIds, Complaint) /\ complaintOrder \in Seq(ComplaintIds)

UsersTypeOK == IsMap(users, Names, User) /\ IsMap(userIndex, Names, Names)

StoreTypeOK == AccountsTypeOK /\ LedgerTypeOK /\ ComplaintsTypeOK /\ UsersTypeOK
=============================================================================
