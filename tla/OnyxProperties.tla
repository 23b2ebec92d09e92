--------------------------- MODULE OnyxProperties ---------------------------
(***************************************************************************)
(* What has to be true of the ONYX backend, whatever requests its threads  *)
(* serve and however they overlap.                                         *)
(***************************************************************************)
EXTENDS OnyxApi, SequencesExt

-----------------------------------------------------------------------------
(* Money                                                                   *)

(* The paise that payment tx brings to account a, less those it takes.     *)
Moved(a, tx) ==
    (IF tx.receiver = a /\ tx.status = "COMPLETED" THEN ToCents(tx.amount) ELSE 0)
    - (IF tx.sender = a /\ tx.status \in {"COMPLETED", "HELD"} THEN ToCents(tx.amount) ELSE 0)

Total(d) ==
    LET upTo[n \in 0..Len(d)] == IF n = 0 THEN 0 ELSE upTo[n - 1] + d[n]
    IN  upTo[Len(d)]

OpeningBalance(a) == IF a \in DOMAIN SeedAccounts THEN SeedAccounts[a].balance ELSE 0

Reconciled(a) ==
    ToCents(accounts[a].balance) =
        ToCents(OpeningBalance(a))
            + Total([i \in DOMAIN transactions |-> Moved(a, transactions[i])])

(* An account's balance is its opening balance and what its recorded       *)
(* payments moved, to the paisa, however the requests of different threads *)
(* overlapped: no update of a balance is lost and a held payment is        *)
(* charged once.                                                           *)
(* (in_memory_store.cpp:470 "Exact integer cents/paise arithmetic".)       *)
BalancesReconcile == \A a \in DOMAIN accounts : Reconciled(a)

(* A balance is checked under the lock and not when the handler read it,   *)
(* so threads that each saw enough money cannot overdraw between them.     *)
NoOverdraft ==
    \A a \in DOMAIN accounts : accounts[a].balance >= 0

(* The balance of an account that is frozen does not change, even if the   *)
(* freeze came after the handler of a payment had read the account; only   *)
(* creating the account anew could reset it (see NoAccountReplaced).       *)
FrozenUntouched ==
    [][\A a \in DOMAIN accounts :
            accounts[a].status = "FROZEN" /\ accounts'[a].balance # accounts[a].balance =>
                \E t \in Threads :
                    pc[t] \in {"provision", "openAccount"} /\ pc'[t] # pc[t]]_vars

(* The transfers answered 201 are exactly the transactions recorded, one   *)
(* each, between the account the caller named and the one it resolved; a   *)
(* transfer that was refused left no transaction.                          *)
TransferAnsweredOnce ==
    LET paid == {t \in Done : req[t].kind = "transfer" /\ answer[t].code = 201}
    IN  /\ {answer[t].tx : t \in paid} = DOMAIN transactions
        /\ \A t, u \in paid : answer[t].tx = answer[u].tx => t = u
        /\ \A t \in paid :
            LET tx == transactions[answer[t].tx]
            IN  /\ tx.amount = req[t].amount
                /\ tx.receiver = answer[t].about
                /\ Fold[tx.sender] = Fold[req[t].sender]

(* The inverted index lists, in order and once, the transactions an        *)
(* account takes part in: the history that inflow scoring and the          *)
(* transaction list read is neither short nor padded.                      *)
IndexExact ==
    \A n \in Names :
        /\ ToSet(txIndex[n]) =
                {i \in DOMAIN transactions :
                    n \in {transactions[i].sender, transactions[i].receiver}}
        /\ \A j, k \in DOMAIN txIndex[n] : j < k => txIndex[n][j] < txIndex[n][k]

(* A flag is stored with exactly the payments that were not let through,   *)
(* and its score is on the side of the threshold its status says.          *)
FlagsExplainStatus ==
    /\ DOMAIN flags = {i \in DOMAIN transactions : transactions[i].status # "COMPLETED"}
    /\ \A i \in DOMAIN flags :
            transactions[i].status = "HELD" <=> flags[i] >= 750

(* The payment side implements the abstract ledger.                        *)
AbstractLedger ==
    INSTANCE Ledger WITH
        Parties <- Names,
        Sums    <- {ToCents(r.amount) : r \in {q \in Requests : q.kind = "transfer"}},
        Deposits <- {0} \cup {ToCents(OpeningDeposit(r)) :
                                r \in {q \in Requests : q.kind = "consumer"}},
        Opening <- [a \in DOMAIN SeedAccounts |-> ToCents(SeedAccounts[a].balance)],
        cash    <- [a \in DOMAIN accounts |-> ToCents(accounts[a].balance)],
        journal <- [i \in DOMAIN transactions |->
                        [from    |-> transactions[i].sender,
                         to      |-> transactions[i].receiver,
                         sum     |-> ToCents(transactions[i].amount),
                         outcome |-> transactions[i].status]],
        frozen  <- {a \in DOMAIN accounts : accounts[a].status = "FROZEN"}

ImplementsLedger == AbstractLedger!Spec

-----------------------------------------------------------------------------
(* Fraud intelligence                                                      *)

(* The complaints answered 201 against an account.                         *)
AcceptedComplaints(a) ==
    {t \in Done : /\ req[t].kind = "complaint"
                  /\ answer[t].code = 201
                  /\ answer[t].about = a}

(* Every accepted complaint raises its suspect's risk by 25 points and     *)
(* nothing else moves it: no increment is lost to a concurrent one, no     *)
(* refused complaint counts, and the score stops at 100.                   *)
NoTaintLost ==
    \A a \in DOMAIN SeedAccounts :
        accounts[a].risk =
            Clamp(SeedAccounts[a].risk + TaintStep * Cardinality(AcceptedComplaints(a)))

(* A complaint that quotes an ONYX transaction was filed by the account    *)
(* that paid it against the account it paid, although suspect and          *)
(* transaction are looked up in different steps and by different names.    *)
ComplaintOwnership ==
    \A c \in DOMAIN complaints :
        complaints[c].tx \in DOMAIN transactions =>
            /\ transactions[complaints[c].tx].sender = complaints[c].complainant
            /\ transactions[complaints[c].tx].receiver = complaints[c].suspect

(* An account that bears a handle is found under it, so two accounts never *)
(* share one, even when the results of concurrent create_account calls are *)
(* thrown away.                                                            *)
AccountsReachable ==
    \A a \in DOMAIN accounts :
        accounts[a].upi # Empty =>
            accounts[a].upi \in DOMAIN upiIndex /\ upiIndex[accounts[a].upi] = a

(* And an indexed handle leads to the account that bears it: an account is *)
(* not re-created under another handle.                                    *)
HandlesSound ==
    \A u \in DOMAIN upiIndex :
        upiIndex[u] \in DOMAIN accounts /\ accounts[upiIndex[u]].upi = u

(* An account that is open is not opened again by a request that had found *)
(* its number free: it keeps its handle.  Two sign-ups for one number that *)
(* overlap break this.  (architecture_defense_brochure.md:225 "preventing  *)
(* race conditions and thread clobbering".)                                *)
NoAccountReplaced ==
    [][\A a \in DOMAIN accounts : accounts'[a].upi = accounts[a].upi]_vars

(* Every user is found under its username, so no two share one, though the *)
(* check of a username and its use are different steps.                    *)
UsersCanLogIn ==
    \A u \in DOMAIN users : FindUserByUsername(users[u].username) = {u}

(* An account the pre-payment check calls safe would not have a payment to *)
(* it held, whoever pays and whatever the amount: the two sets of rules,   *)
(* written apart with thresholds of their own, do not contradict.          *)
SafeIsNotHeld ==
    \A a \in DOMAIN accounts :
        LET count == CountComplaintsForSuspect(a)
        IN  SafeToPay(accounts[a].status, accounts[a].risk, count) =>
                \A s \in DOMAIN accounts \ {a} :
                \A r \in {q \in Requests : q.kind = "transfer"} :
                    Verdict(Score(accounts[a].risk, count, Len(txIndex[a]),
                                  accounts[s].balance, r.amount)).status # "HELD"

(* Only a moderation request takes an account out of FROZEN.               *)
(* (architecture_defense_brochure.md:189 "Freezes account immediately      *)
(* across graph and transaction engines.")                                 *)
FreezeHolds ==
    [][\A a \in DOMAIN accounts :
            accounts[a].status = "FROZEN" /\ accounts'[a].status # "FROZEN" =>
                \E t \in Threads : pc[t] = "setStatus" /\ pc'[t] = "done"]_vars

ReactivatedByBank(a) ==
    \E t \in Done : /\ req[t].kind = "moderation"
                    /\ req[t].status = "ACTIVE"
                    /\ answer[t].about = a

(* Once every request has been answered, an account with two active        *)
(* complaints that no employee reactivated is no longer ACTIVE.            *)
(* (PRD.md:185 "Automatically increment `risk_score` (+25.0) and set        *)
(* `status = 'FLAGGED'` on the suspect account if active complaints        *)
(* $\ge 2$".)                                                              *)
TwoComplaintsFlag ==
    InFlight = {} =>
        \A a \in DOMAIN accounts :
            CountComplaintsForSuspect(a) >= 2 /\ ~ReactivatedByBank(a) =>
                accounts[a].status # "ACTIVE"

(* Of requests served one after the other: a payment is let through,       *)
(* flagged or held as the rules say of the receiver's risk, the complaints *)
(* about the receiver, the receiver's history and the payer's balance, all *)
(* of which the handler collects from the store under different ids.       *)
DecidedByRules ==
    [][Len(transactions') > Len(transactions) =>
        LET tx == Last(transactions')
        IN  tx.status =
                Verdict(Score(accounts[tx.receiver].risk,
                              CountComplaintsForSuspect(tx.receiver),
                              Len(txIndex[tx.receiver]),
                              accounts[tx.sender].balance, tx.amount)).status]_vars

(* Every complaint names a suspect account that exists.                    *)
(* (migrations/001_init_schema.sql: suspect_account_id REFERENCES          *)
(* accounts(account_id).)                                                  *)
ComplaintSuspectExists ==
    \A c \in DOMAIN complaints : complaints[c].suspect \in DOMAIN accounts

(* An accepted complaint stays in the registry under an id of its own.     *)
(* (migrations/001_init_schema.sql:66 complaint_id PRIMARY KEY.)           *)
ComplaintsKept ==
    InFlight = {} =>
        Cardinality(DOMAIN complaints) =
            Cardinality({t \in Done : req[t].kind = "complaint" /\ answer[t].code = 201})

(* A payment is never made to an account without a handle: looking up a    *)
(* handle that no account bears or resembles finds nothing.                *)
(* (in_memory_store.cpp:288 "bidirectional prefix/handle match".)          *)
NoPaymentToBlankHandle ==
    \A i \in DOMAIN transactions : accounts[transactions[i].receiver].upi # Empty

(* Whoever signed up for an account can log in to it with the number and   *)
(* password it gave, under its name or none, whatever was requested in     *)
(* between and although the result of create_user is thrown away.          *)
(* (auth_controller.cpp:249 "Consumer Login with account_number".)         *)
SignedUpCanLogIn ==
    [][\A t, u \in Threads :
        /\ t \in Done /\ req[t].kind = "consumer" /\ answer[t].code = 201
        /\ u \in InFlight /\ pc'[u] = "done" /\ req[u].kind = "accountLogin"
        /\ req[u].number = req[t].number /\ req[u].password = req[t].password
        /\ req[u].name \in {Empty, req[t].name} /\ req[u].role \in {"any", "consumer"}
        => answer'[u].token # None /\ answer'[u].token.account = req[t].number]_vars

(* A consumer's token, whether from a sign-up or a login, names a user who *)
(* exists and has the username and the account it says.                    *)
TokensGenuine ==
    \A t \in Done :
        LET token == answer[t].token
        IN  token # None /\ token.account # Empty =>
                /\ token.user \in DOMAIN users
                /\ users[token.user].username = token.username
                /\ users[token.user].account = token.account

-----------------------------------------------------------------------------
(* Progress                                                                *)

(* Every request a thread has read is answered.                            *)
EveryRequestAnswered ==
    \A t \in Threads : t \in InFlight ~> t \in Done
=============================================================================
