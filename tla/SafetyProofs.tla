---------------------------- MODULE SafetyProofs ----------------------------
(***************************************************************************)
(* The invariants of the store's tables, for any set of threads, names and *)
(* requests.  Only ten steps write a table; the proofs look at what those  *)
(* do to it, under the type invariant of OnyxProofs.                       *)
(***************************************************************************)
EXTENDS OnyxProofs

-----------------------------------------------------------------------------
(* The steps that write, and what they write.                              *)

LEMMA Writers ==
    ASSUME NEW t \in Threads, Serve(t)
    PROVE  \/ UNCHANGED storeVars
           \/ ExecuteTransfer(t)
           \/ ProvisionSuspect(t)
           \/ RecordComplaint(t)
           \/ TaintSuspect(t)
           \/ SetComplaintStatus(t)
           \/ SetAccountStatus(t)
           \/ OpenAccount(t)
           \/ CreateConsumer(t)
           \/ CreateConsumerByNumber(t)
           \/ CreateEmployee(t)
<1>1. CASE TransferStep(t)
  BY <1>1 DEF TransferStep, RefuseTransfer, ResolveReceiver, ResolveSender,
              CountReceiverComplaints, ReadReceiverHistory
<1>2. CASE ComplaintStep(t)
  BY <1>2 DEF ComplaintStep, RefuseComplaint, FindSuspectByUpi, FindSuspectById,
              CheckOwnership, CountSuspectComplaints
<1>3. CASE TriageStep(t)
  BY <1>3 DEF TriageStep, FindComplaint
<1>4. CASE ModerationStep(t)
  BY <1>4 DEF ModerationStep, FindAccountToModerate, FindHandleToModerate
<1>5. CASE RegistrationStep(t)
  BY <1>5 DEF RegistrationStep, RefuseRegistration, CheckAccountUser,
              CheckNumberAsUsername, FindAccountToClaim, DeriveHandle,
              CheckEmployeeUsername
<1>6. QED
  BY <1>1, <1>2, <1>3, <1>4, <1>5, LoginReads DEF Serve

Amounts == {r.amount : r \in {q \in Requests : q.kind = "transfer"}}

(* What an account may be opened with: nothing, or the deposit of a sign-up. *)
Deposits == {0} \cup {OpeningDeposit(r) : r \in {q \in Requests : q.kind = "consumer"}}

(* The risk an account may be opened with: none, or what a complaint says. *)
OpeningRisks == {0} \cup {r.risk : r \in {q \in Requests : q.kind = "complaint"}}

(* A payment as a step of the store.                                       *)
Payment(s, r, amount, score) ==
    /\ amount \in Amounts
    /\ CanTransfer(s, r, amount)
    /\ ExecuteAtomicTransfer(s, r, amount, Verdict(score))

(* An account is opened by one of two steps, never with a debt, never      *)
(* frozen, and flagged if it is a suspect's.                               *)
Opens(id, account) ==
    /\ account.balance \in Deposits /\ account.balance >= 0
    /\ account.risk \in OpeningRisks /\ account.status # "FROZEN"
    /\ CreateAccount(id, account)
    /\ \E t \in Threads :
        /\ pc'[t] # pc[t]
        /\ \/ /\ pc[t] = "provision"
              /\ id \in ProvisionedIds(req[t]) /\ account.upi = req[t].suspect
              /\ account.status = "FLAGGED"
           \/ pc[t] = "openAccount" /\ id = req[t].number

LEMMA PaymentTypes ==
    ASSUME TypeInv, NEW t \in Threads, pc[t] = "execute"
    PROVE  /\ local[t].payer.id \in Names
           /\ local[t].peer.id \in Names
           /\ req[t].amount \in Nat /\ req[t].amount \in Amounts
           /\ \E score \in Int : Evaluate(t) = Verdict(score)
<1>1. local[t] \in LocalType /\ StepSound("execute", req[t], local[t])
  BY DEF TypeInv, ThreadsTypeOK, ThreadsSound
<1>2. /\ req[t] \in TransferRequest
      /\ local[t].peer \in SnapshotType /\ local[t].payer \in SnapshotType
  BY <1>1 DEF StepSound, TransferSteps, Sender, Peer
<1>3. \E n \in Int : Evaluate(t) = Verdict(n)
  <2>1. /\ local[t].peer.account.risk \in Int /\ local[t].payer.account.balance \in Int
        /\ local[t].tally \in Int /\ local[t].inflow \in Int /\ req[t].amount \in Int
    BY <1>1, <1>2 DEF SnapshotType, Account, LocalType, TransferRequest
  <2>2. Score(local[t].peer.account.risk, local[t].tally, local[t].inflow,
              local[t].payer.account.balance, req[t].amount) \in Int
    BY <2>1, ScoreType, Zenon
  <2>3. QED
    BY <2>2, Zenon DEF Evaluate
<1>4. req[t].amount \in Amounts
  <2>1. req[t] \in Requests
    BY <1>2, WorkersAssumption DEF TypeInv, ThreadsTypeOK, RequestTypes
  <2>2. QED
    BY <1>2, <2>1 DEF Amounts, TransferRequest
<1>5. QED
  BY <1>2, <1>3, <1>4 DEF SnapshotType, TransferRequest

(* A step of the system is a step of a thread, or writes no table.        *)
LEMMA Steppers ==
    ASSUME [Next]_vars
    PROVE  UNCHANGED storeVars \/ \E t \in Threads : Serve(t)
BY DEF Next, vars

LEMMA AccountWrites ==
    ASSUME TypeInv, [Next]_vars
    PROVE  \/ UNCHANGED accountVars
           \/ \E id \in Names, account \in Account : Opens(id, account)
           \/ \E t \in Threads : \E status :
                SetAccountStatus(t) /\ UpdateAccountStatus(local[t].peer.id, status)
           \/ \E t \in Threads : \E status :
                TaintSuspect(t) /\ ApplyTaintUpdate(local[t].peer.id, TaintStep, status)
           \/ \E s, r \in Names, amount \in Nat, score \in Int : Payment(s, r, amount, score)
<1>1. UNCHANGED storeVars => UNCHANGED <<accountVars, ledgerVars, userVars>>
  BY DEF storeVars
<1>2. ASSUME NEW t \in Threads, ExecuteTransfer(t)
      PROVE  \/ UNCHANGED accountVars
             \/ \E s, r \in Names, amount \in Nat, score \in Int :
                    Payment(s, r, amount, score)
  <2>1. pc[t] = "execute"
    BY <1>2 DEF ExecuteTransfer
  <2>2. PICK score \in Int : Evaluate(t) = Verdict(score)
    BY <2>1, PaymentTypes
  <2>3. QED
    BY <1>2, <2>1, <2>2, PaymentTypes DEF ExecuteTransfer, Payment
<1>3. ASSUME NEW t \in Threads, ProvisionSuspect(t)
      PROVE  \E id \in Names, account \in Account : Opens(id, account)
  <2>1. StepSound("provision", req[t], local[t]) /\ pc[t] = "provision"
    BY <1>3 DEF ProvisionSuspect, TypeInv, ThreadsSound
  <2>2. req[t] \in ComplaintRequest /\ req[t].suspect \in Names
    BY <2>1 DEF StepSound, ComplaintSteps, ComplaintRequest
  <2>3. /\ ExternalAccount(req[t]) \in Account
        /\ ExternalAccount(req[t]).upi = req[t].suspect
        /\ ExternalAccount(req[t]).balance = 0
        /\ ExternalAccount(req[t]).status = "FLAGGED"
        /\ ExternalAccount(req[t]).risk = req[t].risk
    BY <2>2, ComplaintAssumption DEF ExternalAccount, Account, ComplaintRequest, AccountStatus
  <2>4. ProvisionedIds(req[t]) \subseteq Names
    BY <2>2, ComplaintAssumption DEF ProvisionedIds
  <2>5. pc'[t] # pc[t]
    BY <1>3, <2>1 DEF ProvisionSuspect, Continue, AfterSuspect, TypeInv, ThreadsTypeOK
  <2>6. req[t] \in Requests /\ req[t].kind = "complaint"
    BY <2>2, WorkersAssumption DEF TypeInv, ThreadsTypeOK, RequestTypes, ComplaintRequest
  <2>7. QED
    BY <1>3, <2>1, <2>3, <2>4, <2>5, <2>6 DEF ProvisionSuspect, Opens, Deposits, OpeningRisks
<1>4. ASSUME NEW t \in Threads, OpenAccount(t)
      PROVE  \E id \in Names, account \in Account : Opens(id, account)
  <2>1. StepSound("openAccount", req[t], local[t]) /\ pc[t] = "openAccount"
    BY <1>4 DEF OpenAccount, TypeInv, ThreadsSound
  <2>2. /\ req[t] \in RegistrationRequest /\ req[t].number # None
        /\ req[t].kind = "consumer"
    BY <2>1 DEF StepSound, ConsumerSteps
  <2> DEFINE account == [upi |-> ChosenHandle(t), holder |-> req[t].name,
                         balance |-> OpeningDeposit(req[t]), risk |-> 0,
                         status |-> "ACTIVE"]
  <2>3. /\ account \in Account /\ account.balance >= 0 /\ account.status # "FROZEN"
        /\ account.risk \in OpeningRisks /\ req[t].number \in Names
    BY <2>2, ConsumerFields DEF Account, AccountStatus, OpeningRisks
  <2>4. account.balance \in Deposits
    <3>1. req[t] \in Requests
      BY <2>2, WorkersAssumption DEF TypeInv, ThreadsTypeOK, RequestTypes
    <3>2. QED
      BY <2>2, <3>1 DEF Deposits
  <2>5. pc'[t] # pc[t]
    BY <1>4, <2>1 DEF OpenAccount, Continue, TypeInv, ThreadsTypeOK
  <2>6. CreateAccount(req[t].number, account)
    BY <1>4 DEF OpenAccount
  <2> HIDE DEF account
  <2>7. QED
    BY <2>1, <2>3, <2>4, <2>5, <2>6 DEF Opens
<1>5. ASSUME NEW t \in Threads, TaintSuspect(t)
      PROVE  \E status : ApplyTaintUpdate(local[t].peer.id, TaintStep, status)
  BY <1>5 DEF TaintSuspect
<1>6. ASSUME NEW t \in Threads, SetAccountStatus(t)
      PROVE  \/ UNCHANGED accountVars
             \/ \E status : UpdateAccountStatus(local[t].peer.id, status)
  BY <1>6 DEF SetAccountStatus
<1>7. ASSUME NEW t \in Threads,
             \/ RecordComplaint(t) \/ SetComplaintStatus(t) \/ CreateConsumer(t)
             \/ CreateConsumerByNumber(t) \/ CreateEmployee(t)
      PROVE  UNCHANGED accountVars
  BY <1>7 DEF RecordComplaint, SetComplaintStatus, CreateConsumer, CreateConsumerByNumber,
              CreateEmployee
<1>8. ASSUME NEW t \in Threads, Serve(t)
      PROVE  \/ UNCHANGED accountVars
             \/ \E id \in Names, account \in Account : Opens(id, account)
             \/ \E u \in Threads : \E status :
                    SetAccountStatus(u) /\ UpdateAccountStatus(local[u].peer.id, status)
             \/ \E u \in Threads : \E status :
                    TaintSuspect(u) /\ ApplyTaintUpdate(local[u].peer.id, TaintStep, status)
             \/ \E s, r \in Names, amount \in Nat, score \in Int :
                    Payment(s, r, amount, score)
  BY <1>1, <1>2, <1>3, <1>4, <1>5, <1>6, <1>7, <1>8, Writers
<1>9. QED
  BY <1>1, <1>8, Steppers

(* A payment takes the next id, and leaves those recorded before it alone. *)
LEMMA PaymentRecorded ==
    ASSUME LedgerTypeOK, NEW s \in Names, NEW r \in Names, NEW amount \in Nat,
           NEW score \in Int, Payment(s, r, amount, score)
    PROVE  LET id == Len(transactions) + 1
               tx == transactions'[id]
           IN  /\ id \in Nat \ {0}
               /\ DOMAIN transactions = 1..Len(transactions)
               /\ DOMAIN transactions' = DOMAIN transactions \cup {id}
               /\ Len(transactions') = id
               /\ id \notin DOMAIN transactions
               /\ \A i \in DOMAIN transactions : transactions'[i] = transactions[i]
               /\ tx.sender = s /\ tx.receiver = r /\ tx.amount = amount
               /\ tx.status = Verdict(score).status
<1> DEFINE id == Len(transactions) + 1
           tx == [sender |-> s, receiver |-> r, amount |-> amount,
                  status |-> Verdict(score).status]
<1>1. transactions' = Append(transactions, tx)
  BY DEF Payment, ExecuteAtomicTransfer
<1>2. transactions \in Seq(Transaction)
  BY DEF LedgerTypeOK
<1>3. /\ tx.sender = s /\ tx.receiver = r /\ tx.amount = amount
      /\ tx.status = Verdict(score).status
  OBVIOUS
<1> HIDE DEF tx
<1>4. /\ id \in Nat \ {0}
      /\ DOMAIN transactions = 1..Len(transactions)
      /\ DOMAIN transactions' = DOMAIN transactions \cup {id}
      /\ Len(transactions') = id
      /\ id \notin DOMAIN transactions
      /\ transactions'[id] = tx
      /\ \A i \in DOMAIN transactions : transactions'[i] = transactions[i]
  BY <1>1, <1>2
<1>5. QED
  BY <1>3, <1>4

LEMMA LedgerWrites ==
    ASSUME TypeInv, [Next]_vars
    PROVE  \/ UNCHANGED ledgerVars
           \/ \E s, r \in Names, amount \in Nat, score \in Int : Payment(s, r, amount, score)
<1>1. UNCHANGED storeVars => UNCHANGED <<accountVars, ledgerVars, userVars>>
  BY DEF storeVars
<1>2. ASSUME NEW t \in Threads, ExecuteTransfer(t)
      PROVE  \/ UNCHANGED ledgerVars
             \/ \E s, r \in Names, amount \in Nat, score \in Int :
                    Payment(s, r, amount, score)
  <2>1. pc[t] = "execute"
    BY <1>2 DEF ExecuteTransfer
  <2>2. PICK score \in Int : Evaluate(t) = Verdict(score)
    BY <2>1, PaymentTypes
  <2>3. QED
    BY <1>2, <2>1, <2>2, PaymentTypes DEF ExecuteTransfer, Payment
<1>3. ASSUME NEW t \in Threads, Serve(t), ~ExecuteTransfer(t)
      PROVE  UNCHANGED ledgerVars
  BY <1>3, Writers
  DEF storeVars, ProvisionSuspect, RecordComplaint, TaintSuspect, SetComplaintStatus,
      SetAccountStatus, OpenAccount, CreateConsumer, CreateConsumerByNumber, CreateEmployee
<1>4. QED
  BY <1>1, <1>2, <1>3, Steppers

LEMMA UserWrites ==
    ASSUME TypeInv, [Next]_vars
    PROVE  UNCHANGED userVars \/ \E id \in Names, user \in User : CreateUser(id, user)
<1>1. UNCHANGED storeVars => UNCHANGED <<accountVars, ledgerVars, userVars>>
  BY DEF storeVars
<1>2. ASSUME NEW t \in Threads, CreateConsumer(t) \/ CreateConsumerByNumber(t)
      PROVE  \E id \in Names, user \in User : CreateUser(id, user)
  <2>1. StepSound(pc[t], req[t], local[t]) /\ pc[t] \in {"createUser", "createUserByNumber"}
    BY <1>2 DEF CreateConsumer, CreateConsumerByNumber, TypeInv, ThreadsSound
  <2>2. req[t] \in RegistrationRequest /\ req[t].number # None
    BY <2>1 DEF StepSound, ConsumerSteps
  <2>3. /\ ConsumerUser(t, RequestedUsername(req[t])) \in User
        /\ ConsumerUser(t, req[t].number) \in User
        /\ req[t].number \in Names
    BY <2>2, ConsumerFields, ConsumerRecords
  <2>4. QED
    BY <1>2, <2>3 DEF CreateConsumer, CreateConsumerByNumber
<1>3. ASSUME NEW t \in Threads, CreateEmployee(t)
      PROVE  \E id \in Names, user \in User : CreateUser(id, user)
  <2>1. StepSound("createEmployee", req[t], local[t])
    BY <1>3 DEF CreateEmployee, TypeInv, ThreadsSound
  <2>2. EmployeeUser(t) \in User
    BY <2>1, EmployeeRecords DEF StepSound, EmployeeSteps
  <2>3. QED
    BY <1>3, <2>2, RegistrationAssumption DEF CreateEmployee
<1>4. ASSUME NEW t \in Threads, Serve(t),
             ~(CreateConsumer(t) \/ CreateConsumerByNumber(t) \/ CreateEmployee(t))
      PROVE  UNCHANGED userVars
  BY <1>4, Writers
  DEF storeVars, ProvisionSuspect, RecordComplaint, TaintSuspect, SetComplaintStatus,
      SetAccountStatus, OpenAccount, ExecuteTransfer
<1>5. QED
  BY <1>1, <1>2, <1>3, <1>4, Steppers

-----------------------------------------------------------------------------
(* Money.                                                                  *)

LEMMA DebitCovered ==
    ASSUME NEW balance \in Int, NEW amount \in Nat, ToCents(balance) >= ToCents(amount)
    PROVE  10 * (ToCents(balance) - ToCents(amount)) >= 0
<1>1. ToCents(balance) \in Int /\ ToCents(amount) \in Int
  BY ToCentsType
<1>2. QED
  BY <1>1

LEMMA CreditPositive ==
    ASSUME NEW balance \in Nat, NEW amount \in Nat
    PROVE  10 * (ToCents(balance) + ToCents(amount)) >= 0
<1>1. ToCents(balance) \in Nat /\ ToCents(amount) \in Nat
  BY ToCentsNat
<1>2. QED
  BY <1>1

LEMMA StepNoOverdraft ==
    ASSUME TypeInv, NoOverdraft, [Next]_vars
    PROVE  NoOverdraft'
<1>0. IsMap(accounts, Names, Account)
  BY DEF TypeInv, StoreTypeOK, AccountsTypeOK
<1>1. CASE UNCHANGED accountVars
  BY <1>1 DEF accountVars, NoOverdraft
<1>2. ASSUME NEW id \in Names, NEW account \in Account, Opens(id, account)
      PROVE  NoOverdraft'
  BY <1>2 DEF Opens, CreateAccount, Put, accountVars, NoOverdraft
<1>3. ASSUME NEW id, NEW status, UpdateAccountStatus(id, status)
      PROVE  NoOverdraft'
  BY <1>0, <1>3 DEF UpdateAccountStatus, NoOverdraft, IsMap, Account
<1>4. ASSUME NEW id, NEW status, ApplyTaintUpdate(id, TaintStep, status)
      PROVE  NoOverdraft'
  BY <1>0, <1>4 DEF ApplyTaintUpdate, NoOverdraft, IsMap, Account
<1>5. ASSUME NEW s \in Names, NEW r \in Names, NEW amount \in Nat, NEW score \in Int,
             Payment(s, r, amount, score)
      PROVE  NoOverdraft'
  <2> SUFFICES ASSUME NEW a \in DOMAIN accounts'
               PROVE  accounts'[a].balance >= 0
    BY DEF NoOverdraft
  <2>1. a \in DOMAIN accounts
    BY <1>5 DEF Payment, ExecuteAtomicTransfer
  <2>2. /\ accounts[a] \in Account
        /\ accounts[a].balance \in Nat
    BY <1>0, <2>1 DEF NoOverdraft, IsMap, Account
  <2>3. CASE accounts'[a] = accounts[a]
    BY <2>2, <2>3
  <2>4. CASE a = s /\ accounts'[a] = Debit(accounts[a], ToCents(amount))
    <3>1. ToCents(accounts[a].balance) >= ToCents(amount)
      BY <1>5, <2>4 DEF Payment, CanTransfer
    <3>2. QED
      BY <2>2, <2>4, <3>1, DebitCovered DEF Debit, Account
  <2>5. CASE accounts'[a] = Credit(accounts[a], ToCents(amount))
    BY <2>2, <2>5, CreditPositive DEF Credit, Account
  <2>6. QED
    BY <1>5, <2>1, <2>3, <2>4, <2>5 DEF Payment, ExecuteAtomicTransfer
<1>6. QED
  BY <1>1, <1>2, <1>3, <1>4, <1>5, AccountWrites

(* No account is overdrawn, however many threads judged their payments by  *)
(* the same balance.                                                       *)
THEOREM NeverOverdrawn == Spec => []NoOverdraft
<1>1. Init => NoOverdraft
  BY StoreAssumption DEF Init, StoreInit, NoOverdraft
<1>2. TypeInv /\ NoOverdraft /\ [Next]_vars => NoOverdraft'
  BY StepNoOverdraft
<1>3. QED
  BY <1>1, <1>2, TypeInvHolds, PTL DEF Spec

LEMMA StepFrozenUntouched ==
    ASSUME TypeInv, [Next]_vars,
           NEW a \in DOMAIN accounts, accounts[a].status = "FROZEN",
           accounts'[a].balance # accounts[a].balance
    PROVE  \E t \in Threads : pc[t] \in {"provision", "openAccount"} /\ pc'[t] # pc[t]
<1>0. IsMap(accounts, Names, Account)
  BY DEF TypeInv, StoreTypeOK, AccountsTypeOK
<1>1. CASE UNCHANGED accountVars
  BY <1>1 DEF accountVars
<1>2. ASSUME NEW id \in Names, NEW account \in Account, Opens(id, account)
      PROVE  \E t \in Threads : pc[t] \in {"provision", "openAccount"} /\ pc'[t] # pc[t]
  BY <1>2 DEF Opens
<1>3. ASSUME NEW id, NEW status, UpdateAccountStatus(id, status)
      PROVE  FALSE
  BY <1>0, <1>3 DEF UpdateAccountStatus, IsMap, Account
<1>4. ASSUME NEW id, NEW status, ApplyTaintUpdate(id, TaintStep, status)
      PROVE  FALSE
  BY <1>0, <1>4 DEF ApplyTaintUpdate, IsMap, Account
<1>5. ASSUME NEW s \in Names, NEW r \in Names, NEW amount \in Nat, NEW score \in Int,
             Payment(s, r, amount, score)
      PROVE  FALSE
  <2>1. a # s /\ a # r
    BY <1>5 DEF Payment, CanTransfer
  <2>2. accounts'[a] = accounts[a]
    BY <1>5, <2>1 DEF Payment, ExecuteAtomicTransfer
  <2>3. QED
    BY <2>2
<1>6. QED
  BY <1>1, <1>2, <1>3, <1>4, <1>5, AccountWrites

(* No payment moves the money of an account that is frozen, even one whose *)
(* handler read the account before the freeze.                             *)
THEOREM FrozenBalances == Spec => FrozenUntouched
<1>1. TypeInv /\ [Next]_vars =>
        [\A a \in DOMAIN accounts :
            accounts[a].status = "FROZEN" /\ accounts'[a].balance # accounts[a].balance =>
                \E t \in Threads :
                    pc[t] \in {"provision", "openAccount"} /\ pc'[t] # pc[t]]_vars
  BY StepFrozenUntouched
<1>2. QED
  BY <1>1, TypeInvHolds, PTL DEF Spec, FrozenUntouched

LEMMA StepFlags ==
    ASSUME TypeInv, FlagsExplainStatus, [Next]_vars
    PROVE  FlagsExplainStatus'
<1>1. CASE UNCHANGED ledgerVars
  BY <1>1 DEF ledgerVars, FlagsExplainStatus
<1>2. ASSUME NEW s \in Names, NEW r \in Names, NEW amount \in Nat, NEW score \in Int,
             Payment(s, r, amount, score)
      PROVE  FlagsExplainStatus'
  <2> DEFINE verdict == Verdict(score)
             id == Len(transactions) + 1
             tx == [sender |-> s, receiver |-> r, amount |-> amount,
                    status |-> verdict.status]
  <2>1. /\ transactions' = Append(transactions, tx)
        /\ flags' = IF verdict.flagged THEN Put(flags, id, verdict.score) ELSE flags
    BY <1>2 DEF Payment, ExecuteAtomicTransfer
  <2>2. transactions \in Seq(Transaction)
    BY DEF TypeInv, StoreTypeOK, LedgerTypeOK
  <2>3. /\ DOMAIN transactions = 1..Len(transactions)
        /\ Len(transactions) \in Nat
        /\ DOMAIN transactions' = DOMAIN transactions \cup {id}
        /\ id \notin DOMAIN transactions
        /\ transactions'[id] = tx
        /\ \A i \in DOMAIN transactions : transactions'[i] = transactions[i]
    <3> HIDE DEF tx
    <3>1. QED
      BY <2>1, <2>2
  <2>4. /\ verdict.flagged <=> verdict.status # "COMPLETED"
        /\ verdict.flagged => (verdict.status = "HELD" <=> verdict.score >= 750)
    <3>1. /\ verdict.status = IF score >= 750 THEN "HELD"
                              ELSE IF score >= 500 THEN "FLAGGED"
                              ELSE "COMPLETED"
          /\ verdict.score = score
      BY DEF Verdict
    <3>2. verdict.flagged <=> score >= 500
      BY DEF Verdict
    <3> HIDE DEF verdict
    <3>3. QED
      BY <3>1, <3>2
  <2>5. tx.status = verdict.status
    OBVIOUS
  <2> HIDE DEF tx, id, verdict
  <2>6. CASE verdict.flagged
    <3>1. /\ DOMAIN flags' = DOMAIN flags \cup {id}
          /\ flags'[id] = verdict.score
          /\ \A i \in DOMAIN flags \ {id} : flags'[i] = flags[i]
      BY <2>1, <2>6 DEF Put
    <3>2. QED
      BY <2>3, <2>4, <2>5, <2>6, <3>1 DEF FlagsExplainStatus
  <2>7. CASE ~verdict.flagged
    BY <2>1, <2>3, <2>4, <2>5, <2>7 DEF FlagsExplainStatus
  <2>8. QED
    BY <2>6, <2>7
<1>3. QED
  BY <1>1, <1>2, LedgerWrites

(* A payment that was not let through has a flag that says why.            *)
THEOREM FlagsMatchPayments == Spec => []FlagsExplainStatus
<1>1. Init => FlagsExplainStatus
  BY DEF Init, StoreInit, FlagsExplainStatus
<1>2. TypeInv /\ FlagsExplainStatus /\ [Next]_vars => FlagsExplainStatus'
  BY StepFlags
<1>3. QED
  BY <1>1, <1>2, TypeInvHolds, PTL DEF Spec

-----------------------------------------------------------------------------
(* Keys.                                                                   *)

LEMMA StepReachable ==
    ASSUME TypeInv, AccountsReachable, [Next]_vars
    PROVE  AccountsReachable'
<1>0. IsMap(accounts, Names, Account)
  BY DEF TypeInv, StoreTypeOK, AccountsTypeOK
<1>1. CASE UNCHANGED accountVars
  BY <1>1 DEF accountVars, AccountsReachable
<1>2. ASSUME NEW id \in Names, NEW account \in Account, Opens(id, account)
      PROVE  AccountsReachable'
  <2>1. CreateAccount(id, account)
    BY <1>2 DEF Opens
  <2>2. CASE account.upi \in DOMAIN upiIndex
    BY <2>1, <2>2 DEF CreateAccount, accountVars, AccountsReachable
  <2>3. CASE account.upi \notin DOMAIN upiIndex
    <3>1. /\ DOMAIN accounts' = DOMAIN accounts \cup {id}
          /\ accounts'[id] = account
          /\ \A a \in DOMAIN accounts \ {id} : accounts'[a] = accounts[a]
      BY <2>1, <2>3 DEF CreateAccount, Put
    <3>2. CASE account.upi = Empty
      BY <2>1, <2>3, <3>1, <3>2 DEF CreateAccount, AccountsReachable
    <3>3. CASE account.upi # Empty
      <4>1. /\ DOMAIN upiIndex' = DOMAIN upiIndex \cup {account.upi}
            /\ upiIndex'[account.upi] = id
            /\ \A u \in DOMAIN upiIndex : upiIndex'[u] = upiIndex[u]
        BY <2>1, <2>3, <3>3 DEF CreateAccount, Put
      <4>2. QED
        BY <3>1, <4>1 DEF AccountsReachable
    <3>4. QED
      BY <3>2, <3>3
  <2>4. QED
    BY <2>2, <2>3
<1>3. ASSUME NEW id, NEW status, UpdateAccountStatus(id, status)
      PROVE  AccountsReachable'
  BY <1>0, <1>3 DEF UpdateAccountStatus, AccountsReachable, IsMap, Account
<1>4. ASSUME NEW id, NEW status, ApplyTaintUpdate(id, TaintStep, status)
      PROVE  AccountsReachable'
  BY <1>0, <1>4 DEF ApplyTaintUpdate, AccountsReachable, IsMap, Account
<1>5. ASSUME NEW s \in Names, NEW r \in Names, NEW amount \in Nat, NEW score \in Int,
             Payment(s, r, amount, score)
      PROVE  AccountsReachable'
  <2>1. /\ DOMAIN accounts' = DOMAIN accounts
        /\ \A a \in DOMAIN accounts : accounts'[a].upi = accounts[a].upi
        /\ upiIndex' = upiIndex
    BY <1>0, <1>5 DEF Payment, ExecuteAtomicTransfer, Debit, Credit, IsMap, Account
  <2>2. QED
    BY <2>1 DEF AccountsReachable
<1>6. QED
  BY <1>1, <1>2, <1>3, <1>4, <1>5, AccountWrites

(* Two accounts never share a handle, although the result of create_account *)
(* is thrown away and its caller's check of the handle is another step.    *)
THEOREM HandlesUnique == Spec => []AccountsReachable
<1>1. Init => AccountsReachable
  <2> SUFFICES ASSUME Init, NEW a \in DOMAIN SeedAccounts
               PROVE  /\ SeedAccounts[a].upi \in DOMAIN upiIndex
                      /\ upiIndex[SeedAccounts[a].upi] = a
    BY DEF Init, StoreInit, AccountsReachable
  <2> DEFINE Bearer(u) == CHOOSE b \in DOMAIN SeedAccounts : SeedAccounts[b].upi = u
  <2>1. Bearer(SeedAccounts[a].upi) = a
    BY StoreAssumption
  <2>2. QED
    BY <2>1 DEF Init, StoreInit
<1>2. TypeInv /\ AccountsReachable /\ [Next]_vars => AccountsReachable'
  BY StepReachable
<1>3. QED
  BY <1>1, <1>2, TypeInvHolds, PTL DEF Spec

(* The index leads from a user's name to the user.                         *)
UsersIndexed ==
    \A u \in DOMAIN users :
        users[u].username \in DOMAIN userIndex /\ userIndex[users[u].username] = u

LEMMA IndexedCanLogIn == UsersIndexed <=> UsersCanLogIn
BY DEF UsersIndexed, UsersCanLogIn, FindUserByUsername

LEMMA StepUsersIndexed ==
    ASSUME TypeInv, UsersIndexed, [Next]_vars
    PROVE  UsersIndexed'
<1>1. CASE UNCHANGED userVars
  BY <1>1 DEF userVars, UsersIndexed
<1>2. ASSUME NEW id \in Names, NEW user \in User, CreateUser(id, user)
      PROVE  UsersIndexed'
  <2>1. CASE UsernameTaken(user.username)
    BY <1>2, <2>1 DEF CreateUser, userVars, UsersIndexed
  <2>2. CASE ~UsernameTaken(user.username)
    <3>1. /\ DOMAIN users' = DOMAIN users \cup {id}
          /\ users'[id] = user
          /\ \A u \in DOMAIN users \ {id} : users'[u] = users[u]
      BY <1>2, <2>2 DEF CreateUser, Put
    <3>2. /\ DOMAIN userIndex' = DOMAIN userIndex \cup {user.username}
          /\ userIndex'[user.username] = id
          /\ \A n \in DOMAIN userIndex : userIndex'[n] = userIndex[n]
      BY <1>2, <2>2 DEF CreateUser, UsernameTaken, Put
    <3>3. QED
      BY <3>1, <3>2 DEF UsersIndexed
  <2>3. QED
    BY <2>1, <2>2
<1>3. QED
  BY <1>1, <1>2, UserWrites

(* Every user is found under its own username, whoever registers at the    *)
(* same time.                                                              *)
THEOREM UsernamesUnique == Spec => []UsersCanLogIn
<1>1. Init => UsersIndexed
  <2> SUFFICES ASSUME Init, NEW u \in DOMAIN SeedUsers
               PROVE  /\ SeedUsers[u].username \in DOMAIN userIndex
                      /\ userIndex[SeedUsers[u].username] = u
    BY DEF Init, StoreInit, UsersIndexed
  <2> DEFINE Bearer(n) == CHOOSE v \in DOMAIN SeedUsers : SeedUsers[v].username = n
  <2>1. Bearer(SeedUsers[u].username) = u
    BY StoreAssumption
  <2>2. QED
    BY <2>1 DEF Init, StoreInit
<1>2. TypeInv /\ UsersIndexed /\ [Next]_vars => UsersIndexed'
  BY StepUsersIndexed
<1>3. QED
  BY <1>1, <1>2, IndexedCanLogIn, TypeInvHolds, PTL DEF Spec

-----------------------------------------------------------------------------
(* The two sets of rules.                                                  *)

(* An account that is safe to pay has a risk below 40 points and no        *)
(* complaint, and the surcharges do not take it from there to 75.          *)
LEMMA SafeScores ==
    ASSUME NEW status, NEW risk \in Int, NEW count \in Nat, NEW inflow \in Nat,
           NEW balance \in Int, NEW amount \in Nat, SafeToPay(status, risk, count)
    PROVE  Verdict(Score(risk, count, inflow, balance, amount)).status # "HELD"
<1>1. ShownRisk(risk) < 400 /\ count = 0
  <2>1. ShownRisk(risk) \in Int
    BY DEF ShownRisk, Clamp, MaxRisk
  <2>2. ~(ShownRisk(risk) >= 400) /\ ~(count > 0)
    BY <2>1 DEF SafeToPay, VerifyLevel
  <2>3. QED
    BY <2>1, <2>2
<1>2. risk < 400
  BY <1>1 DEF ShownRisk, Clamp, MaxRisk
<1>3. /\ InflowSurcharge(inflow) \in {0, 150}
      /\ DrainSurcharge(risk, amount) = 0
      /\ OutflowSurcharge(balance, amount) \in {0, 100}
  BY <1>2 DEF InflowSurcharge, DrainSurcharge, OutflowSurcharge
<1>4. /\ Score(risk, count, inflow, balance, amount) \in Int
      /\ Score(risk, count, inflow, balance, amount) < 750
  BY <1>1, <1>2, <1>3 DEF Score, Clamp, MaxRisk
<1>5. QED
  BY <1>4 DEF Verdict

(* No payment to an account that the check calls safe would be held.       *)
THEOREM SafeIsPaid == Spec => []SafeIsNotHeld
<1>1. TypeInv => SafeIsNotHeld
  <2> SUFFICES ASSUME TypeInv, NEW a \in DOMAIN accounts,
                      SafeToPay(accounts[a].status, accounts[a].risk,
                                CountComplaintsForSuspect(a)),
                      NEW s \in DOMAIN accounts \ {a},
                      NEW r \in Requests, r.kind = "transfer"
               PROVE  Verdict(Score(accounts[a].risk, CountComplaintsForSuspect(a),
                                    Len(txIndex[a]), accounts[s].balance, r.amount)).status
                        # "HELD"
    BY DEF SafeIsNotHeld
  <2>1. /\ DOMAIN accounts \subseteq Names
        /\ accounts \in [DOMAIN accounts -> Account]
        /\ txIndex \in [Names -> Seq(Nat)]
    BY DEF TypeInv, StoreTypeOK, AccountsTypeOK, LedgerTypeOK, IsMap
  <2>2. accounts[a].risk \in Int /\ accounts[s].balance \in Int
    BY <2>1 DEF Account
  <2>3. CountComplaintsForSuspect(a) \in Nat
    BY CountType DEF TypeInv, StoreTypeOK
  <2>4. Len(txIndex[a]) \in Nat
    BY <2>1
  <2>5. r.amount \in Nat
    BY WorkersAssumption
    DEF RequestTypes, TransferRequest, ComplaintRequest, TriageRequest, ModerationRequest,
        RegistrationRequest, LoginRequest, ProfileRequest
  <2>6. QED
    BY <2>2, <2>3, <2>4, <2>5, SafeScores
<1>2. QED
  BY <1>1, TypeInvHolds, PTL

-----------------------------------------------------------------------------
(* Complaints: one that quotes a payment is about that payment.  What is   *)
(* checked in one step still holds when the complaint is stored in a later *)
(* one, and when payments made since have taken new ids.                   *)

(* A reference a client may hold.                                          *)
Quoted(ledger, tx) == tx \in {ExternalTx, NoTx, BadAmount} \cup DOMAIN ledger

(* If tx is a payment, payer made it to payee.                             *)
Owned(ledger, tx, payer, payee) ==
    tx \in DOMAIN ledger => ledger[tx].sender = payer /\ ledger[tx].receiver = payee

(* For one thread: it quotes a known reference from its first step on, and *)
(* owns it once it is about to record the complaint.                       *)
FilingSound(t) ==
    /\ pc[t] \in ComplaintSteps => Quoted(transactions, req[t].tx)
    /\ pc[t] = "record" => Owned(transactions, req[t].tx, req[t].caller, local[t].peer.id)

RegistrySound ==
    \A c \in DOMAIN complaints :
        /\ Quoted(transactions, complaints[c].tx)
        /\ Owned(transactions, complaints[c].tx,
                 complaints[c].complainant, complaints[c].suspect)

OwnershipInv == RegistrySound /\ \A t \in Threads : FilingSound(t)

(* Payments are recorded once and for all, under ids nobody can have       *)
(* quoted before.                                                          *)
LEMMA PaymentsStay ==
    ASSUME TypeInv, [Next]_vars
    PROVE  /\ \A tx : Quoted(transactions, tx) => Quoted(transactions', tx)
           /\ \A tx, payer, payee :
                Quoted(transactions, tx) /\ Owned(transactions, tx, payer, payee)
                    => Owned(transactions', tx, payer, payee)
<1>1. CASE UNCHANGED ledgerVars
  BY <1>1 DEF ledgerVars, Quoted, Owned
<1>2. ASSUME NEW s \in Names, NEW r \in Names, NEW amount \in Nat, NEW score \in Int,
             Payment(s, r, amount, score)
      PROVE  /\ \A tx : Quoted(transactions, tx) => Quoted(transactions', tx)
             /\ \A tx, payer, payee :
                  Quoted(transactions, tx) /\ Owned(transactions, tx, payer, payee)
                    => Owned(transactions', tx, payer, payee)
  <2> DEFINE payment == [sender |-> s, receiver |-> r, amount |-> amount,
                         status |-> Verdict(score).status]
  <2>1. transactions' = Append(transactions, payment)
    BY <1>2 DEF Payment, ExecuteAtomicTransfer
  <2>2. transactions \in Seq(Transaction)
    BY DEF TypeInv, StoreTypeOK, LedgerTypeOK
  <2> HIDE DEF payment
  <2>3. /\ DOMAIN transactions = 1..Len(transactions)
        /\ Len(transactions) \in Nat
        /\ DOMAIN transactions' = 1..(Len(transactions) + 1)
        /\ \A i \in DOMAIN transactions : transactions'[i] = transactions[i]
    BY <2>1, <2>2
  <2>4. ASSUME NEW tx, Quoted(transactions, tx)
        PROVE  /\ Quoted(transactions', tx)
               /\ tx \in DOMAIN transactions' => tx \in DOMAIN transactions
    BY <2>3, <2>4 DEF Quoted, ExternalTx, NoTx, BadAmount
  <2>5. QED
    BY <2>3, <2>4 DEF Owned
<1>3. QED
  BY <1>1, <1>2, LedgerWrites

-----------------------------------------------------------------------------
(* The threads.                                                            *)

(* A thread at a step that is not part of filing a complaint has nothing   *)
(* to keep.                                                                *)
LEMMA NotFiling ==
    ASSUME NEW t \in Threads, pc'[t] \notin ComplaintSteps
    PROVE  FilingSound(t)'
BY DEF FilingSound, ComplaintSteps

(* A login goes on with a login step, refuses or grants a token.           *)
LEMMA LoginMoves ==
    ASSUME NEW t \in Threads, LoginStep(t)
    PROVE  \/ \E step \in LoginSteps : \E locals : Continue(t, step, locals)
           \/ \E code : Reply(t, code, NoTx)
           \/ \E claims : Grant(t, 200, claims)
<1>1. ASSUME NEW s, Authenticate(t, s) \/ Recognise(t, s)
      PROVE  \/ \E step \in LoginSteps : \E locals : Continue(t, step, locals)
             \/ \E code : Reply(t, code, NoTx)
             \/ \E claims : Grant(t, 200, claims)
  BY <1>1 DEF Authenticate, Recognise, LoginSteps
<1>2. CASE RefuseLogin(t) \/ AnswerLogin(t)
  BY <1>2 DEF RefuseLogin, AnswerLogin
<1>3. CASE FindUserOfNumber(t) \/ FindUserNamedNumber(t) \/ FindUserNamed(t)
  BY <1>1, <1>3 DEF FindUserOfNumber, FindUserNamedNumber, FindUserNamed, LoginSteps
<1>4. CASE CheckHolder(t)
  BY <1>1, <1>4 DEF CheckHolder
<1>5. CASE FindUserOfName(t) \/ FindUserOfNameAsAccount(t) \/ SearchUsersByName(t)
  BY <1>1, <1>5 DEF FindUserOfName, FindUserOfNameAsAccount, SearchUsersByName, LoginSteps
<1>6. QED
  BY <1>2, <1>3, <1>4, <1>5 DEF LoginStep

LEMMA OthersSteps ==
    ASSUME ThreadsTypeOK, NEW t \in Threads,
           \/ TransferStep(t) \/ TriageStep(t) \/ ModerationStep(t) \/ RegistrationStep(t)
           \/ LoginStep(t) \/ ProfileStep(t)
    PROVE  pc'[t] \notin ComplaintSteps
<1>1. CASE TransferStep(t)
  BY <1>1 DEF TransferStep, RefuseTransfer, ResolveReceiver, ResolveSender,
              CountReceiverComplaints, ReadReceiverHistory, ExecuteTransfer,
              Continue, Reply, Respond, ComplaintSteps, ThreadsTypeOK
<1>2. CASE TriageStep(t)
  BY <1>2 DEF TriageStep, FindComplaint, SetComplaintStatus,
              Continue, Reply, Respond, ComplaintSteps, ThreadsTypeOK
<1>3. CASE ModerationStep(t)
  BY <1>3 DEF ModerationStep, FindAccountToModerate, FindHandleToModerate,
              SetAccountStatus, Continue, Reply, Respond, ComplaintSteps, ThreadsTypeOK
<1>4. CASE RegistrationStep(t)
  BY <1>4 DEF RegistrationStep, RefuseRegistration, CheckAccountUser,
              CheckNumberAsUsername, FindAccountToClaim, DeriveHandle, OpenAccount,
              CreateConsumer, CreateConsumerByNumber, CheckEmployeeUsername,
              CreateEmployee, Continue, Grant, Reply, Respond, ComplaintSteps, ThreadsTypeOK
<1>5. CASE LoginStep(t)
  <2>1. \/ \E step \in LoginSteps : \E locals : Continue(t, step, locals)
        \/ \E code : Reply(t, code, NoTx)
        \/ \E claims : Grant(t, 200, claims)
    BY <1>5, LoginMoves
  <2>2. QED
    BY <2>1 DEF Continue, Grant, Reply, Respond, LoginSteps, ComplaintSteps, ThreadsTypeOK
<1>6. CASE ProfileStep(t)
  BY <1>6 DEF ProfileStep, GetMe, GetMyAccount, Reply, Respond, ComplaintSteps, ThreadsTypeOK
<1>7. QED
  BY <1>1, <1>2, <1>3, <1>4, <1>5, <1>6

(* A thread that is filing goes on, or answers, with the request it has.   *)
LEMMA FilingMoves ==
    ASSUME ThreadsTypeOK, NEW t \in Threads, ComplaintStep(t)
    PROVE  /\ pc[t] \in ComplaintSteps
           /\ req'[t] = req[t]
           /\ pc'[t] = "record" => req[t].tx = NoTx \/ CheckOwnership(t)
<1>1. AfterSuspect(t) = "record" => req[t].tx = NoTx
  BY DEF AfterSuspect
<1>2. CASE RefuseComplaint(t) \/ FindSuspectByUpi(t) \/ FindSuspectById(t)
  BY <1>1, <1>2 DEF RefuseComplaint, FindSuspectByUpi, FindSuspectById, Continue, Reply,
                    Respond, ComplaintSteps, ThreadsTypeOK
<1>3. CASE ProvisionSuspect(t)
  BY <1>1, <1>3 DEF ProvisionSuspect, Continue, ComplaintSteps, ThreadsTypeOK
<1>4. CASE CheckOwnership(t)
  BY <1>4 DEF CheckOwnership, Continue, Reply, Respond, ComplaintSteps, ThreadsTypeOK
<1>5. CASE RecordComplaint(t) \/ CountSuspectComplaints(t) \/ TaintSuspect(t)
  BY <1>5 DEF RecordComplaint, CountSuspectComplaints, TaintSuspect, Continue, Reply,
              Respond, ComplaintSteps, ThreadsTypeOK
<1>6. QED
  BY <1>2, <1>3, <1>4, <1>5 DEF ComplaintStep

(* A thread is the only one to change its own entries.                     *)
LEMMA OneThreadMoves ==
    ASSUME ThreadsTypeOK, NEW t \in Threads, NEW u \in Threads, u # t,
           Serve(t) \/ \E r \in Requests : Accept(t, r)
    PROVE  /\ pc'[u] = pc[u] /\ req'[u] = req[u]
           /\ local'[u] = local[u] /\ answer'[u] = answer[u]
<1>1. CASE \E r \in Requests : Accept(t, r)
  BY <1>1 DEF Accept, ThreadsTypeOK
<1>2. CASE \/ \E step, locals : Continue(t, step, locals)
           \/ \E code, tx : Reply(t, code, tx)
           \/ \E code, claims : Grant(t, code, claims)
  BY <1>2 DEF Continue, Reply, Grant, Respond, ThreadsTypeOK
<1>3. CASE TransferStep(t)
  BY <1>2, <1>3, ZenonT(60) DEF TransferStep, RefuseTransfer, ResolveReceiver, ResolveSender,
              CountReceiverComplaints, ReadReceiverHistory, ExecuteTransfer
<1>4. CASE ComplaintStep(t)
  BY <1>2, <1>4, ZenonT(60) DEF ComplaintStep, RefuseComplaint, FindSuspectByUpi, FindSuspectById,
              ProvisionSuspect, CheckOwnership, RecordComplaint, CountSuspectComplaints,
              TaintSuspect
<1>5. CASE TriageStep(t)
  BY <1>2, <1>5 DEF TriageStep, FindComplaint, SetComplaintStatus
<1>6. CASE ModerationStep(t)
  BY <1>2, <1>6, ZenonT(60) DEF ModerationStep, FindAccountToModerate, FindHandleToModerate,
              SetAccountStatus
<1>7. CASE RegistrationStep(t)
  BY <1>2, <1>7, ZenonT(60) DEF RegistrationStep, RefuseRegistration, CheckAccountUser,
              CheckNumberAsUsername, FindAccountToClaim, DeriveHandle, OpenAccount,
              CreateConsumer, CreateConsumerByNumber, CheckEmployeeUsername, CreateEmployee
<1>8. CASE LoginStep(t)
  BY <1>2, <1>8, LoginMoves
<1>9. CASE ProfileStep(t)
  BY <1>2, <1>9 DEF ProfileStep, GetMe, GetMyAccount
<1>10. QED
  BY <1>1, <1>3, <1>4, <1>5, <1>6, <1>7, <1>8, <1>9 DEF Serve

LEMMA StepFiling ==
    ASSUME TypeInv, OwnershipInv, [Next]_vars, NEW u \in Threads
    PROVE  FilingSound(u)'
<1>0. ThreadsTypeOK /\ StoreTypeOK
  BY DEF TypeInv
<1>1. ASSUME pc'[u] = pc[u], req'[u] = req[u], local'[u] = local[u]
      PROVE  FilingSound(u)'
  <2>1. FilingSound(u)
    BY DEF OwnershipInv
  <2>2. pc[u] = "record" => Quoted(transactions, req[u].tx)
    BY <2>1 DEF FilingSound, ComplaintSteps
  <2>3. QED
    BY <1>1, <2>1, <2>2, PaymentsStay DEF FilingSound
<1>2. CASE UNCHANGED vars
  BY <1>1, <1>2 DEF vars, threadVars
<1>3. ASSUME NEW t \in Threads, t # u, Serve(t) \/ \E r \in Requests : Accept(t, r)
      PROVE  FilingSound(u)'
  BY <1>0, <1>1, <1>3, OneThreadMoves
<1>4. ASSUME NEW r \in Requests, Accept(u, r), UNCHANGED storeVars
      PROVE  FilingSound(u)'
  <2>1. pc'[u] = FirstStep[r.kind] /\ req'[u] = r
    BY <1>0, <1>4 DEF Accept, ThreadsTypeOK
  <2>2. /\ r.kind \in {"transfer", "complaint", "triage", "moderation", "consumer", "employee",
                       "accountLogin", "nameLogin", "me", "myAccount"}
        /\ Quoted(transactions, r.tx) \/ r.kind # "complaint"
    BY <1>4, WorkersAssumption
    DEF Accept, Quotable, Quoted, RequestTypes, TransferRequest, ComplaintRequest,
        TriageRequest, ModerationRequest, RegistrationRequest, LoginRequest, ProfileRequest
  <2>3. pc'[u] # "record" /\ (pc'[u] \in ComplaintSteps => r.kind = "complaint")
    BY <2>1, <2>2 DEF FirstStep, ComplaintSteps
  <2>4. pc'[u] \in ComplaintSteps => Quoted(transactions', req'[u].tx)
    BY <2>1, <2>2, <2>3, PaymentsStay
  <2>5. QED
    BY <2>3, <2>4 DEF FilingSound
<1>5. CASE \/ TransferStep(u) \/ TriageStep(u) \/ ModerationStep(u) \/ RegistrationStep(u)
           \/ LoginStep(u) \/ ProfileStep(u)
  BY <1>0, <1>5, OthersSteps, NotFiling
<1>6. CASE ComplaintStep(u)
  <2>1. Quoted(transactions, req[u].tx)
    BY <1>0, <1>6, FilingMoves DEF OwnershipInv, FilingSound
  <2>2. Quoted(transactions', req'[u].tx)
    BY <1>0, <1>6, <2>1, FilingMoves, PaymentsStay
  <2>3. ASSUME pc'[u] = "record"
        PROVE  Owned(transactions', req'[u].tx, req'[u].caller, local'[u].peer.id)
    <3>1. CASE req[u].tx = NoTx
      <4>1. 0 \notin DOMAIN transactions'
        BY StepTypeInv DEF TypeInv, StoreTypeOK, LedgerTypeOK
      <4>2. QED
        BY <1>0, <1>6, <3>1, <4>1, FilingMoves DEF Owned, NoTx
    <3>2. CASE CheckOwnership(u)
      <4>1. Continue(u, "record", local[u])
        BY <1>0, <2>3, <3>2 DEF CheckOwnership, Reply, Respond, ThreadsTypeOK
      <4>2. local'[u] = local[u]
        BY <1>0, <4>1 DEF Continue, ThreadsTypeOK
      <4>3. Owned(transactions, req[u].tx, req[u].caller, local[u].peer.id)
        BY <1>0, <2>3, <3>2 DEF CheckOwnership, Reply, Respond, ThreadsTypeOK, Owned
      <4>4. QED
        BY <1>0, <1>6, <2>1, <4>2, <4>3, FilingMoves, PaymentsStay
    <3>3. QED
      BY <1>0, <1>6, <2>3, <3>1, <3>2, FilingMoves
  <2>4. QED
    BY <2>2, <2>3 DEF FilingSound
<1>7. QED
  BY <1>2, <1>3, <1>4, <1>5, <1>6 DEF Next, Serve

-----------------------------------------------------------------------------
(* The registry.                                                           *)

LEMMA StepRegistry ==
    ASSUME TypeInv, OwnershipInv, [Next]_vars
    PROVE  RegistrySound'
<1>0. /\ RegistrySound
      /\ IsMap(complaints, ComplaintIds, Complaint)
  BY DEF OwnershipInv, TypeInv, StoreTypeOK, ComplaintsTypeOK
<1>1. CASE UNCHANGED complaintVars
  BY <1>0, <1>1, PaymentsStay DEF complaintVars, RegistrySound
<1>2. ASSUME NEW t \in Threads, RecordComplaint(t)
      PROVE  RegistrySound'
  <2> DEFINE complaint == [complainant |-> req[t].caller, suspect |-> local[t].peer.id,
                           tx |-> req[t].tx, status |-> "SUBMITTED"]
  <2>1. PICK id \in ComplaintIds : complaints' = Put(complaints, id, complaint)
    BY <1>2 DEF RecordComplaint, CreateComplaint
  <2>2. FilingSound(t) /\ pc[t] = "record"
    BY <1>2 DEF OwnershipInv, RecordComplaint
  <2>3. /\ Quoted(transactions, complaint.tx)
        /\ Owned(transactions, complaint.tx, complaint.complainant, complaint.suspect)
    BY <2>2 DEF FilingSound, ComplaintSteps
  <2>4. /\ Quoted(transactions', complaint.tx)
        /\ Owned(transactions', complaint.tx, complaint.complainant, complaint.suspect)
    BY <2>3, PaymentsStay
  <2> HIDE DEF complaint
  <2>5. \A c \in DOMAIN complaints' :
            \/ complaints'[c] = complaint
            \/ c \in DOMAIN complaints /\ complaints'[c] = complaints[c]
    BY <2>1 DEF Put
  <2>6. QED
    BY <1>0, <2>4, <2>5, PaymentsStay DEF RegistrySound
<1>3. ASSUME NEW t \in Threads, SetComplaintStatus(t)
      PROVE  RegistrySound'
  <2>1. /\ DOMAIN complaints' = DOMAIN complaints
        /\ \A c \in DOMAIN complaints :
            /\ complaints'[c].tx = complaints[c].tx
            /\ complaints'[c].complainant = complaints[c].complainant
            /\ complaints'[c].suspect = complaints[c].suspect
    BY <1>0, <1>3 DEF SetComplaintStatus, UpdateComplaintStatus, IsMap, Complaint
  <2>2. QED
    BY <1>0, <2>1, PaymentsStay DEF RegistrySound
<1>4. ASSUME NEW t \in Threads, Serve(t), ~RecordComplaint(t), ~SetComplaintStatus(t)
      PROVE  UNCHANGED complaintVars
  BY <1>4, Writers
  DEF storeVars, ExecuteTransfer, ProvisionSuspect, TaintSuspect, SetAccountStatus,
      OpenAccount, CreateConsumer, CreateConsumerByNumber, CreateEmployee
<1>5. UNCHANGED storeVars => UNCHANGED complaintVars
  BY DEF storeVars
<1>6. QED
  BY <1>1, <1>2, <1>3, <1>4, <1>5, Steppers

(* A complaint that quotes an ONYX payment was filed by its payer against  *)
(* its payee.                                                              *)
THEOREM ComplaintsOwned == Spec => []ComplaintOwnership
<1>1. Init => OwnershipInv
  BY AllSteps DEF Init, StoreInit, WorkersInit, OwnershipInv, RegistrySound, FilingSound,
                  ComplaintSteps
<1>2. TypeInv /\ OwnershipInv /\ [Next]_vars => OwnershipInv'
  BY StepFiling, StepRegistry DEF OwnershipInv
<1>3. OwnershipInv => ComplaintOwnership
  BY DEF OwnershipInv, RegistrySound, Owned, ComplaintOwnership
<1>4. QED
  BY <1>1, <1>2, <1>3, TypeInvHolds, PTL DEF Spec

-----------------------------------------------------------------------------
(* The accounts present at the start.  Every way to open an account looks  *)
(* for it first, and an account is never removed, so none of the first     *)
(* ones is opened anew, whatever overlaps.                                 *)

NewToSeeds(t) ==
    /\ pc[t] = "provision" => req[t].suspect \notin DOMAIN SeedAccounts
    /\ pc[t] \in {"deriveHandle", "openAccount"} => req[t].number \notin DOMAIN SeedAccounts

SeedsInv == DOMAIN SeedAccounts \subseteq DOMAIN accounts /\ \A t \in Threads : NewToSeeds(t)

(* What happens to one thread in one step of the system.                   *)
LEMMA ThreadMoves ==
    ASSUME ThreadsTypeOK, [Next]_vars, NEW u \in Threads
    PROVE  \/ /\ pc'[u] = pc[u] /\ req'[u] = req[u]
              /\ local'[u] = local[u] /\ answer'[u] = answer[u]
           \/ Serve(u)
           \/ \E r \in Requests : Accept(u, r) /\ UNCHANGED storeVars
<1>1. CASE UNCHANGED vars
  BY <1>1 DEF vars, threadVars
<1>2. ASSUME NEW t \in Threads, Serve(t) \/ \E r \in Requests : Accept(t, r) /\ UNCHANGED storeVars
      PROVE  \/ t = u
             \/ /\ pc'[u] = pc[u] /\ req'[u] = req[u]
                /\ local'[u] = local[u] /\ answer'[u] = answer[u]
  BY <1>2, OneThreadMoves
<1>3. QED
  BY <1>1, <1>2 DEF Next

(* A thread that starts begins with the first step of its kind.            *)
LEMMA FirstSteps ==
    ASSUME ThreadsTypeOK, NEW u \in Threads, NEW r \in Requests, Accept(u, r)
    PROVE  /\ pc[u] = "idle" /\ req'[u] = r /\ local'[u] = local[u]
           /\ pc'[u] \in {"receiver", "suspectByUpi", "complaint", "accountById",
                          "userByAccount", "employeeByName", "userOfNumber", "userOfName",
                          "userOfToken", "accountOfToken"}
<1>1. /\ pc[u] = "idle" /\ req'[u] = r /\ local'[u] = local[u]
      /\ pc'[u] = FirstStep[r.kind]
  BY DEF Accept, ThreadsTypeOK
<1>2. r.kind \in {"transfer", "complaint", "triage", "moderation", "consumer", "employee",
                  "accountLogin", "nameLogin", "me", "myAccount"}
  BY WorkersAssumption
  DEF RequestTypes, TransferRequest, ComplaintRequest, TriageRequest, ModerationRequest,
      RegistrationRequest, LoginRequest, ProfileRequest
<1>3. QED
  BY <1>1, <1>2 DEF FirstStep

(* A step of a handler is taken at a step of its own.                      *)
LEMMA HandlerSteps ==
    ASSUME NEW t \in Threads
    PROVE  /\ TransferStep(t) => pc[t] \in TransferSteps
           /\ ComplaintStep(t) => pc[t] \in ComplaintSteps
           /\ TriageStep(t) => pc[t] \in TriageSteps
           /\ ModerationStep(t) => pc[t] \in ModerationSteps
           /\ RegistrationStep(t) => pc[t] \in ConsumerSteps \cup EmployeeSteps
           /\ LoginStep(t) => pc[t] \in LoginSteps
           /\ ProfileStep(t) => pc[t] \in ProfileSteps
<1>1. TransferStep(t) => pc[t] \in TransferSteps
  BY DEF TransferStep, RefuseTransfer, ResolveReceiver, ResolveSender,
         CountReceiverComplaints, ReadReceiverHistory, ExecuteTransfer, TransferSteps
<1>2. ComplaintStep(t) => pc[t] \in ComplaintSteps
  BY DEF ComplaintStep, RefuseComplaint, FindSuspectByUpi, FindSuspectById, ProvisionSuspect,
         CheckOwnership, RecordComplaint, CountSuspectComplaints, TaintSuspect, ComplaintSteps
<1>3. TriageStep(t) => pc[t] \in TriageSteps
  BY DEF TriageStep, FindComplaint, SetComplaintStatus, TriageSteps
<1>4. ModerationStep(t) => pc[t] \in ModerationSteps
  BY DEF ModerationStep, FindAccountToModerate, FindHandleToModerate, SetAccountStatus,
         ModerationSteps
<1>5. RegistrationStep(t) => pc[t] \in ConsumerSteps \cup EmployeeSteps
  BY DEF RegistrationStep, RefuseRegistration, CheckAccountUser, CheckNumberAsUsername,
         FindAccountToClaim, DeriveHandle, OpenAccount, CreateConsumer,
         CreateConsumerByNumber, CheckEmployeeUsername, CreateEmployee, ConsumerSteps,
         EmployeeSteps
<1>6. LoginStep(t) => pc[t] \in LoginSteps
  BY DEF LoginStep, RefuseLogin, FindUserOfNumber, FindUserNamedNumber, FindUserNamed,
         CheckHolder, FindUserOfName, FindUserOfNameAsAccount, SearchUsersByName,
         AnswerLogin, LoginSteps
<1>7. ProfileStep(t) => pc[t] \in ProfileSteps
  BY DEF ProfileStep, GetMe, GetMyAccount, ProfileSteps
<1>8. QED
  BY <1>1, <1>2, <1>3, <1>4, <1>5, <1>6, <1>7

(* And a handler goes on with a step of its own, or answers.               *)
Stays(t, steps) == pc'[t] \in steps \cup {"done"} /\ req'[t] = req[t]

LEMMA HandlersStay ==
    ASSUME ThreadsTypeOK, NEW t \in Threads
    PROVE  /\ TransferStep(t) => Stays(t, TransferSteps)
           /\ ComplaintStep(t) => Stays(t, ComplaintSteps)
           /\ TriageStep(t) => Stays(t, TriageSteps)
           /\ ModerationStep(t) => Stays(t, ModerationSteps)
           /\ RegistrationStep(t) => Stays(t, ConsumerSteps \cup EmployeeSteps)
           /\ LoginStep(t) => Stays(t, LoginSteps)
           /\ ProfileStep(t) => Stays(t, ProfileSteps)
<1>1. TransferStep(t) => Stays(t, TransferSteps)
  BY DEF TransferStep, RefuseTransfer, ResolveReceiver, ResolveSender,
         CountReceiverComplaints, ReadReceiverHistory, ExecuteTransfer, TransferSteps,
         Continue, Reply, Respond, ThreadsTypeOK, Stays
<1>2. ComplaintStep(t) => Stays(t, ComplaintSteps)
  <2>1. AfterSuspect(t) \in ComplaintSteps
    BY DEF AfterSuspect, ComplaintSteps
  <2>2. ASSUME RefuseComplaint(t) \/ FindSuspectByUpi(t) \/ FindSuspectById(t)
        PROVE  Stays(t, ComplaintSteps)
    BY <2>1, <2>2 DEF RefuseComplaint, FindSuspectByUpi, FindSuspectById, Continue, Reply,
                      Respond, ComplaintSteps, ThreadsTypeOK, Stays
  <2>3. ASSUME ProvisionSuspect(t) \/ CheckOwnership(t)
        PROVE  Stays(t, ComplaintSteps)
    BY <2>1, <2>3 DEF ProvisionSuspect, CheckOwnership, Continue, Reply, Respond,
                      ComplaintSteps, ThreadsTypeOK, Stays
  <2>4. ASSUME RecordComplaint(t) \/ CountSuspectComplaints(t) \/ TaintSuspect(t)
        PROVE  Stays(t, ComplaintSteps)
    BY <2>4 DEF RecordComplaint, CountSuspectComplaints, TaintSuspect, Continue, Reply,
                Respond, ComplaintSteps, ThreadsTypeOK, Stays
  <2>5. QED
    BY <2>2, <2>3, <2>4 DEF ComplaintStep
<1>3. TriageStep(t) => Stays(t, TriageSteps)
  BY DEF TriageStep, FindComplaint, SetComplaintStatus, TriageSteps, Continue, Reply,
         Respond, ThreadsTypeOK, Stays
<1>4. ModerationStep(t) => Stays(t, ModerationSteps)
  BY DEF ModerationStep, FindAccountToModerate, FindHandleToModerate, SetAccountStatus,
         ModerationSteps, Continue, Reply, Respond, ThreadsTypeOK, Stays
<1>5. RegistrationStep(t) => Stays(t, ConsumerSteps \cup EmployeeSteps)
  BY DEF RegistrationStep, RefuseRegistration, CheckAccountUser, CheckNumberAsUsername,
         FindAccountToClaim, DeriveHandle, OpenAccount, CreateConsumer,
         CreateConsumerByNumber, CheckEmployeeUsername, CreateEmployee, ConsumerSteps,
         EmployeeSteps, Continue, Grant, Reply, Respond, ThreadsTypeOK, Stays
<1>6. LoginStep(t) => Stays(t, LoginSteps)
  BY LoginMoves DEF Continue, Grant, Reply, Respond, ThreadsTypeOK, Stays
<1>7. ProfileStep(t) => Stays(t, ProfileSteps)
  BY DEF ProfileStep, GetMe, GetMyAccount, Reply, Respond, ThreadsTypeOK, Stays
<1>8. QED
  BY <1>1, <1>2, <1>3, <1>4, <1>5, <1>6, <1>7

LEMMA RegistrationOpens ==
    ASSUME ThreadsTypeOK, NEW u \in Threads, RegistrationStep(u), NewToSeeds(u),
           AccountsTypeOK, DOMAIN SeedAccounts \subseteq DOMAIN accounts,
           pc[u] = "accountByNumber" => req[u].number \in Names \ {Empty}
    PROVE  /\ req'[u] = req[u]
           /\ pc'[u] \in {"deriveHandle", "openAccount"} =>
                req[u].number \notin DOMAIN SeedAccounts
<1>1. req'[u] = req[u]
  BY HandlersStay DEF Stays
<1>2. CASE FindAccountToClaim(u)
  <2>1. FindAccountById(req[u].number) = {} \/ Continue(u, "createUser", local[u])
    BY <1>2 DEF FindAccountToClaim
  <2>2. FindAccountById(req[u].number) = {} => req[u].number \notin DOMAIN SeedAccounts
    BY <1>2 DEF FindAccountById, FindAccountToClaim
  <2>3. QED
    BY <1>1, <2>1, <2>2 DEF Continue, ThreadsTypeOK
<1>3. CASE DeriveHandle(u)
  BY <1>1, <1>3 DEF DeriveHandle, NewToSeeds
<1>4. CASE ~FindAccountToClaim(u) /\ ~DeriveHandle(u)
  <2>1. pc'[u] \notin {"deriveHandle", "openAccount"}
    BY <1>4 DEF RegistrationStep, RefuseRegistration, CheckAccountUser, CheckNumberAsUsername,
           OpenAccount, CreateConsumer, CreateConsumerByNumber, CheckEmployeeUsername,
           CreateEmployee, Continue, Grant, Reply, Respond, ThreadsTypeOK
  <2>2. QED
    BY <1>1, <2>1
<1>5. QED
  BY <1>2, <1>3, <1>4

LEMMA ComplaintProvisions ==
    ASSUME ThreadsTypeOK, NEW u \in Threads, ComplaintStep(u), pc'[u] = "provision"
    PROVE  /\ req'[u] = req[u] /\ local'[u] = local[u] /\ UNCHANGED storeVars
           /\ pc[u] = "suspectById" /\ FindAccountById(req[u].suspect) = {}
<1>1. AfterSuspect(u) # "provision"
  BY DEF AfterSuspect
<1>2. FindSuspectById(u)
  BY <1>1 DEF ComplaintStep, RefuseComplaint, FindSuspectByUpi, ProvisionSuspect,
         CheckOwnership, RecordComplaint, CountSuspectComplaints, TaintSuspect, Continue,
         Reply, Respond, ThreadsTypeOK
<1>3. QED
  BY <1>1, <1>2 DEF FindSuspectById, Continue, ThreadsTypeOK

LEMMA StepNewToSeeds ==
    ASSUME TypeInv, SeedsInv, [Next]_vars, NEW u \in Threads
    PROVE  NewToSeeds(u)'
<1>0. /\ ThreadsTypeOK /\ AccountsTypeOK /\ NewToSeeds(u)
      /\ DOMAIN SeedAccounts \subseteq DOMAIN accounts
      /\ StepSound(pc[u], req[u], local[u])
  BY DEF TypeInv, StoreTypeOK, ThreadsSound, SeedsInv
<1>1. CASE pc'[u] = pc[u] /\ req'[u] = req[u]
  BY <1>0, <1>1 DEF NewToSeeds
<1>2. ASSUME NEW r \in Requests, Accept(u, r)
      PROVE  NewToSeeds(u)'
  BY <1>0, <1>2, FirstSteps DEF NewToSeeds
<1>3. CASE ComplaintStep(u)
  <2>1. pc'[u] \notin {"deriveHandle", "openAccount"}
    BY <1>0, <1>3, HandlersStay DEF Stays, ComplaintSteps
  <2>2. pc'[u] = "provision" => req'[u].suspect \notin DOMAIN SeedAccounts
    BY <1>0, <1>3, ComplaintProvisions, StoreAssumption DEF FindAccountById
  <2>3. QED
    BY <2>1, <2>2 DEF NewToSeeds
<1>4. CASE RegistrationStep(u)
  <2>1. pc[u] = "accountByNumber" => req[u].number \in Names \ {Empty}
    BY <1>0 DEF StepSound, ConsumerSteps, RegistrationRequest, Given
  <2>2. pc'[u] # "provision"
    BY <1>0, <1>4, HandlersStay DEF Stays, ConsumerSteps, EmployeeSteps
  <2>3. QED
    BY <1>0, <1>4, <2>1, <2>2, RegistrationOpens DEF NewToSeeds
<1>5. CASE \/ TransferStep(u) \/ TriageStep(u) \/ ModerationStep(u)
           \/ LoginStep(u) \/ ProfileStep(u)
  <2>1. pc'[u] \notin {"provision", "deriveHandle", "openAccount"}
    BY <1>0, <1>5, HandlersStay DEF Stays, TransferSteps, TriageSteps, ModerationSteps,
                                    LoginSteps, ProfileSteps
  <2>2. QED
    BY <2>1 DEF NewToSeeds
<1>6. QED
  BY <1>0, <1>1, <1>2, <1>3, <1>4, <1>5, ThreadMoves DEF Serve

(* What a step opens is none of the first accounts.                        *)
LEMMA OpensNoSeed ==
    ASSUME SeedsInv, NEW id, NEW account, Opens(id, account)
    PROVE  id \notin DOMAIN SeedAccounts
BY ComplaintAssumption DEF Opens, SeedsInv, NewToSeeds, ProvisionedIds

LEMMA AccountsStay ==
    ASSUME TypeInv, [Next]_vars
    PROVE  DOMAIN accounts \subseteq DOMAIN accounts'
<1>0. IsMap(accounts, Names, Account)
  BY DEF TypeInv, StoreTypeOK, AccountsTypeOK
<1>1. ASSUME NEW id, NEW account, Opens(id, account)
      PROVE  DOMAIN accounts \subseteq DOMAIN accounts'
  BY <1>1 DEF Opens, CreateAccount, Put, accountVars
<1>2. ASSUME NEW id, NEW status,
             UpdateAccountStatus(id, status) \/ ApplyTaintUpdate(id, TaintStep, status)
      PROVE  DOMAIN accounts \subseteq DOMAIN accounts'
  BY <1>0, <1>2 DEF UpdateAccountStatus, ApplyTaintUpdate, IsMap
<1>3. ASSUME NEW s, NEW r, NEW amount, NEW score, Payment(s, r, amount, score)
      PROVE  DOMAIN accounts \subseteq DOMAIN accounts'
  BY <1>3 DEF Payment, ExecuteAtomicTransfer
<1>4. QED
  BY <1>1, <1>2, <1>3, AccountWrites DEF accountVars

LEMMA SeedsHold == Spec => []SeedsInv
<1>1. Init => SeedsInv
  BY DEF Init, StoreInit, WorkersInit, SeedsInv, NewToSeeds
<1>2. TypeInv /\ SeedsInv /\ [Next]_vars => SeedsInv'
  BY StepNewToSeeds, AccountsStay DEF SeedsInv
<1>3. QED
  BY <1>1, <1>2, TypeInvHolds, PTL DEF Spec

-----------------------------------------------------------------------------
(* Complaints against the first accounts, and the risk they raise.         *)

LEMMA OnlyProvisioning ==
    ASSUME ThreadsTypeOK, NEW t \in Threads, Serve(t), ~ProvisionSuspect(t),
           local'[t].external
    PROVE  local[t].external
<1>0. local[t] \in LocalType
  BY DEF ThreadsTypeOK
<1> USE DEF Continue, Reply, Respond, Blank, ThreadsTypeOK, LocalType
<1>1. CASE TransferStep(t)
  <2>1. CASE RefuseTransfer(t)
    BY <1>0, <2>1 DEF RefuseTransfer
  <2>2. CASE ResolveReceiver(t)
    BY <1>0, <2>2 DEF ResolveReceiver
  <2>3. CASE ResolveSender(t)
    BY <1>0, <2>3 DEF ResolveSender
  <2>4. CASE CountReceiverComplaints(t) \/ ReadReceiverHistory(t)
    BY <1>0, <2>4 DEF CountReceiverComplaints, ReadReceiverHistory
  <2>5. CASE ExecuteTransfer(t)
    BY <1>0, <2>5 DEF ExecuteTransfer
  <2>6. QED
    BY <1>1, <2>1, <2>2, <2>3, <2>4, <2>5 DEF TransferStep
<1>2. CASE ComplaintStep(t)
  BY <1>0, <1>2
  DEF ComplaintStep, RefuseComplaint, FindSuspectByUpi, FindSuspectById, CheckOwnership,
      RecordComplaint, CountSuspectComplaints, TaintSuspect
<1>3. CASE TriageStep(t)
  BY <1>0, <1>3 DEF TriageStep, FindComplaint, SetComplaintStatus
<1>4. CASE ModerationStep(t)
  BY <1>0, <1>4
  DEF ModerationStep, FindAccountToModerate, FindHandleToModerate, SetAccountStatus
<1>5. CASE RegistrationStep(t)
  BY <1>0, <1>5
  DEF RegistrationStep, RefuseRegistration, CheckAccountUser, CheckNumberAsUsername,
      FindAccountToClaim, DeriveHandle, OpenAccount, CreateConsumer, CreateConsumerByNumber,
      CheckEmployeeUsername, CreateEmployee, Grant
<1>6. ASSUME NEW s, Authenticate(t, s) \/ Recognise(t, s)
      PROVE  local[t].external
  BY <1>0, <1>6 DEF Authenticate, Recognise, Grant
<1>7. CASE LoginStep(t)
  BY <1>0, <1>6, <1>7
  DEF LoginStep, RefuseLogin, AnswerLogin, FindUserOfNumber, FindUserNamedNumber,
      FindUserNamed, CheckHolder, FindUserOfName, FindUserOfNameAsAccount, SearchUsersByName,
      Grant
<1>8. CASE ProfileStep(t)
  BY <1>0, <1>8 DEF ProfileStep, GetMe, GetMyAccount
<1>9. QED
  BY <1>1, <1>2, <1>3, <1>4, <1>5, <1>7, <1>8 DEF Serve

(* Only the step that provisions a suspect says so, and not for long.      *)
ExternalEarly(t) == local[t].external => pc[t] \in {"ownership", "record"}

LEMMA StepExternal ==
    ASSUME TypeInv, [Next]_vars, NEW u \in Threads, ExternalEarly(u)
    PROVE  /\ ExternalEarly(u)'
           /\ local'[u].external =>
                \/ ProvisionSuspect(u)
                \/ local[u].external /\ local'[u].peer = local[u].peer
<1>0. ThreadsTypeOK /\ local[u] \in LocalType
  BY DEF TypeInv, ThreadsTypeOK
<1>1. CASE pc'[u] = pc[u] /\ local'[u] = local[u]
  BY <1>1 DEF ExternalEarly
<1>2. ASSUME NEW r \in Requests, Accept(u, r)
      PROVE  ~local'[u].external
  <2>1. pc[u] = "idle" /\ local'[u] = local[u]
    BY <1>0, <1>2, FirstSteps
  <2>2. QED
    BY <2>1 DEF ExternalEarly
<1>3. CASE ProvisionSuspect(u)
  BY <1>0, <1>3 DEF ProvisionSuspect, Continue, AfterSuspect, ThreadsTypeOK, ExternalEarly
<1>4. CASE Serve(u) /\ ~ProvisionSuspect(u)
  <2> SUFFICES ASSUME local'[u].external
               PROVE  pc'[u] \in {"ownership", "record"} /\ local'[u].peer = local[u].peer
                        /\ local[u].external
    BY DEF ExternalEarly
  <2>1. local[u].external /\ pc[u] \in {"ownership", "record"}
    BY <1>0, <1>4, OnlyProvisioning DEF ExternalEarly
  <2>2. ComplaintStep(u)
    BY <1>4, <2>1, HandlerSteps
    DEF Serve, TransferSteps, TriageSteps, ModerationSteps, ConsumerSteps, EmployeeSteps,
        LoginSteps, ProfileSteps
  <2>3. CheckOwnership(u) \/ RecordComplaint(u)
    BY <1>4, <2>1, <2>2
    DEF ComplaintStep, RefuseComplaint, FindSuspectByUpi, FindSuspectById, ProvisionSuspect,
        CountSuspectComplaints, TaintSuspect
  <2>4. \A code, tx : Reply(u, code, tx) => ~local'[u].external
    BY <1>0 DEF Reply, Respond, ThreadsTypeOK, Blank
  <2>5. Continue(u, "record", local[u])
    BY <2>1, <2>3, <2>4 DEF CheckOwnership, RecordComplaint
  <2>6. QED
    BY <1>0, <2>1, <2>5 DEF Continue, ThreadsTypeOK
<1>5. QED
  BY <1>0, <1>1, <1>2, <1>3, <1>4, ThreadMoves DEF ExternalEarly

(* And the suspect is none of the first accounts.                          *)
ProvisionedNew(t) ==
    /\ ExternalEarly(t)
    /\ local[t].external => local[t].peer.id \notin DOMAIN SeedAccounts

LEMMA StepProvisioned ==
    ASSUME TypeInv, SeedsInv, [Next]_vars, NEW u \in Threads, ProvisionedNew(u)
    PROVE  ProvisionedNew(u)'
<1>0. ThreadsTypeOK /\ NewToSeeds(u) /\ local[u] \in LocalType
  BY DEF TypeInv, SeedsInv, ThreadsTypeOK
<1>1. /\ ExternalEarly(u)'
      /\ local'[u].external =>
            \/ ProvisionSuspect(u)
            \/ local[u].external /\ local'[u].peer = local[u].peer
  BY StepExternal DEF ProvisionedNew
<1>2. ASSUME ProvisionSuspect(u)
      PROVE  local'[u].peer.id \notin DOMAIN SeedAccounts
  <2>1. PICK id \in ProvisionedIds(req[u]) :
            local'[u] = [local[u] EXCEPT
                    !.peer = [id |-> id, account |-> ExternalAccount(req[u])],
                    !.external = TRUE]
    BY <1>0, <1>2 DEF ProvisionSuspect, Continue, ThreadsTypeOK
  <2>2. local'[u].peer.id = id
    BY <1>0, <2>1 DEF LocalType
  <2>3. QED
    BY <1>0, <1>2, <2>2, ComplaintAssumption DEF ProvisionSuspect, ProvisionedIds, NewToSeeds
<1>3. QED
  BY <1>1, <1>2 DEF ProvisionedNew

Accepted(t) == pc[t] = "done" /\ req[t].kind = "complaint" /\ answer[t].code = 201

(* A complaint is accepted by its last step: the one that taints the       *)
(* suspect, or that records a complaint about one just provisioned.        *)
LEMMA Accepting ==
    ASSUME TypeInv, [Next]_vars, NEW u \in Threads, NEW a \in DOMAIN SeedAccounts,
           SeedsInv, ProvisionedNew(u), ~TaintSuspect(u)
    PROVE  Accepted(u)' /\ answer'[u].about = a <=> Accepted(u) /\ answer[u].about = a
<1>0. /\ ThreadsTypeOK
      /\ StepSound(pc[u], req[u], local[u])
  BY DEF TypeInv, ThreadsSound
<1>1. CASE pc'[u] = pc[u] /\ req'[u] = req[u] /\ answer'[u] = answer[u]
  BY <1>1 DEF Accepted
<1>2. ASSUME NEW r \in Requests, Accept(u, r)
      PROVE  ~Accepted(u)' /\ ~Accepted(u)
  BY <1>0, <1>2, FirstSteps DEF Accepted
<1>3. CASE Serve(u) /\ ~ComplaintStep(u)
  <2>1. /\ pc[u] # "done" /\ req'[u] = req[u]
        /\ pc[u] \in TransferSteps \cup TriageSteps \cup ModerationSteps \cup ConsumerSteps
                        \cup EmployeeSteps \cup LoginSteps \cup ProfileSteps
    BY <1>0, <1>3, HandlerSteps, HandlersStay
    DEF Serve, Stays, TransferSteps, TriageSteps, ModerationSteps, ConsumerSteps,
        EmployeeSteps, LoginSteps, ProfileSteps
  <2>2. req[u].kind # "complaint"
    BY <1>0, <2>1
    DEF StepSound, TransferRequest, TriageRequest, ModerationRequest, RegistrationRequest,
        LoginRequest, ProfileRequest
  <2>3. QED
    BY <2>1, <2>2 DEF Accepted
<1>4. CASE ComplaintStep(u)
  <2>1. pc[u] # "done"
    BY <1>4, HandlerSteps DEF ComplaintSteps
  <2>2. CASE RefuseComplaint(u) \/ FindSuspectByUpi(u) \/ FindSuspectById(u)
    BY <1>0, <2>1, <2>2 DEF RefuseComplaint, FindSuspectByUpi, FindSuspectById, AfterSuspect,
                            Continue, Reply, Respond, ThreadsTypeOK, Accepted
  <2>3. CASE ProvisionSuspect(u) \/ CheckOwnership(u) \/ CountSuspectComplaints(u)
    <3>1. CASE ProvisionSuspect(u) \/ CountSuspectComplaints(u)
      <4>1. pc'[u] # "done"
        BY <1>0, <3>1
        DEF ProvisionSuspect, CountSuspectComplaints, AfterSuspect, Continue, ThreadsTypeOK
      <4>2. QED
        BY <2>1, <4>1 DEF Accepted
    <3>2. CASE CheckOwnership(u)
      BY <1>0, <2>1, <3>2 DEF CheckOwnership, Continue, Reply, Respond, ThreadsTypeOK, Accepted
    <3>3. QED
      BY <2>3, <3>1, <3>2
  <2>4. CASE RecordComplaint(u) /\ ~local[u].external
    BY <1>0, <2>1, <2>4 DEF RecordComplaint, Continue, ThreadsTypeOK, Accepted
  <2>5. CASE RecordComplaint(u) /\ local[u].external
    <3>1. local[u].peer \in SnapshotType /\ local[u].peer.id \notin DOMAIN SeedAccounts
      BY <1>0, <2>5 DEF RecordComplaint, StepSound, ComplaintSteps, Peer, ProvisionedNew
    <3>2. answer'[u].about = local[u].peer.id
      BY <1>0, <2>5, <3>1, WorkersAssumption DEF RecordComplaint, Reply, Respond, ThreadsTypeOK
    <3>3. QED
      BY <2>1, <3>1, <3>2 DEF Accepted
  <2>6. QED
    BY <1>4, <2>2, <2>3, <2>4, <2>5 DEF ComplaintStep
<1>5. QED
  BY <1>0, <1>1, <1>2, <1>3, <1>4, ThreadMoves

(* The step that taints: what it answers, and what it does to the risk.    *)
LEMMA Tainting ==
    ASSUME TypeInv, NEW t \in Threads, TaintSuspect(t)
    PROVE  /\ ~Accepted(t) /\ Accepted(t)' /\ answer'[t].about = local[t].peer.id
           /\ \A a \in DOMAIN accounts :
                accounts'[a].risk = IF a = local[t].peer.id
                                    THEN TaintedRisk(accounts[a].risk, TaintStep)
                                    ELSE accounts[a].risk
<1>1. /\ ThreadsTypeOK /\ StepSound("taint", req[t], local[t]) /\ pc[t] = "taint"
      /\ IsMap(accounts, Names, Account)
  BY DEF TypeInv, ThreadsSound, TaintSuspect, StoreTypeOK, AccountsTypeOK
<1>2. req[t].kind = "complaint" /\ local[t].peer # None
  BY <1>1, WorkersAssumption DEF StepSound, ComplaintSteps, ComplaintRequest, Peer
<1>3. ~Accepted(t) /\ Accepted(t)' /\ answer'[t].about = local[t].peer.id
  BY <1>1, <1>2 DEF TaintSuspect, Reply, Respond, ThreadsTypeOK, Accepted
<1>4. PICK status : ApplyTaintUpdate(local[t].peer.id, TaintStep, status)
  BY DEF TaintSuspect
<1>5. QED
  BY <1>1, <1>3, <1>4 DEF ApplyTaintUpdate, IsMap, Account

(* No other step moves the risk of the first accounts.                     *)
LEMMA RiskKept ==
    ASSUME TypeInv, SeedsInv, [Next]_vars, ~\E t \in Threads : TaintSuspect(t),
           NEW a \in DOMAIN SeedAccounts
    PROVE  accounts'[a].risk = accounts[a].risk
<1>0. IsMap(accounts, Names, Account) /\ a \in DOMAIN accounts
  BY DEF TypeInv, StoreTypeOK, AccountsTypeOK, SeedsInv
<1>1. ASSUME NEW id, NEW account, Opens(id, account)
      PROVE  accounts'[a].risk = accounts[a].risk
  <2>1. a # id
    BY <1>1, OpensNoSeed
  <2>2. QED
    BY <1>0, <1>1, <2>1 DEF Opens, CreateAccount, Put, accountVars
<1>2. ASSUME NEW id, NEW status, UpdateAccountStatus(id, status)
      PROVE  accounts'[a].risk = accounts[a].risk
  BY <1>0, <1>2 DEF UpdateAccountStatus, IsMap, Account
<1>3. ASSUME NEW s, NEW r, NEW amount, NEW score, Payment(s, r, amount, score)
      PROVE  accounts'[a].risk = accounts[a].risk
  BY <1>0, <1>3 DEF Payment, ExecuteAtomicTransfer, Debit, Credit, IsMap, Account
<1>4. QED
  BY <1>1, <1>2, <1>3, AccountWrites DEF accountVars

LEMMA TaintAdds ==
    ASSUME NEW risk \in 0..MaxRisk, NEW n \in Nat
    PROVE  TaintedRisk(Clamp(risk + TaintStep * n), TaintStep) = Clamp(risk + TaintStep * (n + 1))
<1>1. TaintStep * n \in Nat /\ TaintStep * (n + 1) = TaintStep * n + TaintStep
  BY DEF TaintStep
<1> DEFINE raised == TaintStep * n
<1>2. \A k \in Nat : Clamp(Clamp(k) + TaintStep) = Clamp(k + TaintStep)
  BY DEF Clamp, MaxRisk, TaintStep
<1>3. risk + raised \in Nat /\ risk + raised + TaintStep = risk + TaintStep * (n + 1)
  BY <1>1 DEF MaxRisk, TaintStep
<1>4. QED
  BY <1>2, <1>3 DEF TaintedRisk

TaintInv ==
    /\ \A t \in Threads : ProvisionedNew(t)
    /\ \A a \in DOMAIN SeedAccounts : IsFiniteSet(AcceptedComplaints(a))
    /\ NoTaintLost

LEMMA StepTaint ==
    ASSUME TypeInv, SeedsInv, TaintInv, [Next]_vars
    PROVE  TaintInv'
<1>1. \A t \in Threads : ProvisionedNew(t)'
  BY StepProvisioned DEF TaintInv
<1>2. SUFFICES ASSUME NEW a \in DOMAIN SeedAccounts
               PROVE  /\ IsFiniteSet(AcceptedComplaints(a)')
                      /\ accounts'[a].risk = Clamp(SeedAccounts[a].risk
                            + TaintStep * Cardinality(AcceptedComplaints(a)'))
  BY <1>1 DEF TaintInv, NoTaintLost
<1> DEFINE filed == AcceptedComplaints(a)
<1>3. /\ IsFiniteSet(filed) /\ Cardinality(filed) \in Nat
      /\ accounts[a].risk = Clamp(SeedAccounts[a].risk + TaintStep * Cardinality(filed))
      /\ a \in DOMAIN accounts
  BY FS_CardinalityType DEF TaintInv, NoTaintLost, SeedsInv
<1>4. CASE ~\E t \in Threads : TaintSuspect(t)
  <2>1. filed' = filed
    <3>1. \A u \in Threads :
            Accepted(u)' /\ answer'[u].about = a <=> Accepted(u) /\ answer[u].about = a
      BY <1>4, Accepting DEF TaintInv
    <3>2. QED
      BY <3>1 DEF AcceptedComplaints, Accepted, Done
  <2>2. QED
    BY <1>3, <1>4, <2>1, RiskKept
<1>5. ASSUME NEW t \in Threads, TaintSuspect(t)
      PROVE  /\ IsFiniteSet(filed')
             /\ accounts'[a].risk = Clamp(SeedAccounts[a].risk + TaintStep * Cardinality(filed'))
  <2>1. /\ ~Accepted(t) /\ Accepted(t)' /\ answer'[t].about = local[t].peer.id
        /\ accounts'[a].risk = IF a = local[t].peer.id
                               THEN TaintedRisk(accounts[a].risk, TaintStep)
                               ELSE accounts[a].risk
    BY <1>3, <1>5, Tainting
  <2>2. ASSUME NEW u \in Threads, u # t
        PROVE  Accepted(u)' /\ answer'[u].about = a <=> Accepted(u) /\ answer[u].about = a
    <3>1. Serve(t) /\ ThreadsTypeOK
      BY <1>5 DEF Serve, ComplaintStep, TypeInv
    <3>2. QED
      BY <2>2, <3>1, OneThreadMoves DEF Accepted
  <2>3. CASE a = local[t].peer.id
    <3>1. filed' = filed \cup {t} /\ t \notin filed
      BY <2>1, <2>2, <2>3 DEF AcceptedComplaints, Accepted, Done
    <3>2. IsFiniteSet(filed') /\ Cardinality(filed') = Cardinality(filed) + 1
      BY <1>3, <3>1, FS_AddElement
    <3> HIDE DEF filed
    <3>3. SeedAccounts[a].risk \in 0..MaxRisk
      BY StoreAssumption
    <3>4. QED
      BY <1>3, <2>1, <2>3, <3>2, <3>3, TaintAdds
  <2>4. CASE a # local[t].peer.id
    <3>1. filed' = filed
      BY <2>1, <2>2, <2>4 DEF AcceptedComplaints, Accepted, Done
    <3>2. QED
      BY <1>3, <2>1, <2>4, <3>1
  <2>5. QED
    BY <2>3, <2>4
<1>6. QED
  BY <1>4, <1>5

LEMMA TaintHolds == Spec => []TaintInv
<1>1. Init => TaintInv
  <2> SUFFICES ASSUME Init
               PROVE  TaintInv
    OBVIOUS
  <2>1. \A t \in Threads : ProvisionedNew(t)
    BY DEF Init, WorkersInit, ProvisionedNew, ExternalEarly, Blank
  <2>2. ASSUME NEW a \in DOMAIN SeedAccounts
        PROVE  AcceptedComplaints(a) = {}
    BY DEF Init, WorkersInit, AcceptedComplaints, Done
  <2>3. ASSUME NEW a \in DOMAIN SeedAccounts
        PROVE  accounts[a].risk = Clamp(SeedAccounts[a].risk + TaintStep * 0)
    <3>1. SeedAccounts[a].risk \in 0..1000 /\ accounts[a] = SeedAccounts[a]
      BY StoreAssumption DEF Init, StoreInit, MaxRisk
    <3>2. SeedAccounts[a].risk + TaintStep * 0 = SeedAccounts[a].risk
      BY <3>1 DEF TaintStep
    <3>3. QED
      BY <3>1, <3>2 DEF Clamp, MaxRisk
  <2>4. QED
    BY <2>1, <2>2, <2>3, FS_EmptySet DEF TaintInv, NoTaintLost
<1>2. TypeInv /\ SeedsInv /\ TaintInv /\ [Next]_vars => TaintInv'
  BY StepTaint
<1>3. QED
  BY <1>1, <1>2, TypeInvHolds, SeedsHold, PTL DEF Spec

(* Every accepted complaint against an account present at the start has    *)
(* raised its risk by its 25 points, however many were filed at once.      *)
THEOREM NoComplaintLost == Spec => []NoTaintLost
<1>1. TaintInv => NoTaintLost
  BY DEF TaintInv
<1>2. QED
  BY <1>1, TaintHolds, PTL
=============================================================================
