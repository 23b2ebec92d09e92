----------------------------- MODULE OnyxProofs -----------------------------
(***************************************************************************)
(* Theorems about OnyxApi, for any set of threads, names and requests.     *)
(*                                                                         *)
(* A table keeps its type only because a request reaches a step with the   *)
(* locals that step reads.  StepSound says what those are, for a thread    *)
(* at a step with a request and its locals; it is a predicate of values    *)
(* and not of variables, so a step has to establish it for one thread.     *)
(***************************************************************************)
EXTENDS OnyxProperties, FiniteSetTheorems, TLAPS

-----------------------------------------------------------------------------
(* What each operation of the store keeps true of its tables.              *)

(* Writing a key keeps a map a map, and leaves the other keys alone.       *)
LEMMA PutMap ==
    ASSUME NEW K, NEW V, NEW f, IsMap(f, K, V), NEW k \in K, NEW v \in V
    PROVE  IsMap(Put(f, k, v), K, V)
BY DEF IsMap, Put

LEMMA AppendType ==
    ASSUME NEW T, NEW seq \in Seq(T), NEW e \in T
    PROVE  Append(seq, e) \in Seq(T)
OBVIOUS

(* A lookup answers accounts that exist.                                   *)
LEMMA FindAccountByIdType ==
    ASSUME AccountsTypeOK, NEW n \in Names
    PROVE  /\ FindAccountById(n) \subseteq DOMAIN accounts
           /\ \A a \in FindAccountById(n) : Fold[a] = Fold[n]
BY DEF FindAccountById

LEMMA FindAccountByUpiType ==
    ASSUME NEW n
    PROVE  FindAccountByUpi(n) \subseteq DOMAIN accounts
BY DEF FindAccountByUpi, UpiExact, UpiFolded, UpiScanned, UpiOverlapping

(* The count of a suspect's complaints is a number: the registry is finite. *)
LEMMA CountType ==
    ASSUME ComplaintsTypeOK, NEW a
    PROVE  CountComplaintsForSuspect(a) \in Nat
<1> DEFINE C == {c \in DOMAIN complaints :
                    complaints[c].suspect = a /\ complaints[c].status # "REJECTED"}
<1>1. IsFiniteSet(C)
  <2>1. C \subseteq ComplaintIds
    BY DEF ComplaintsTypeOK, IsMap
  <2>2. QED
    BY <2>1, FS_Subset, StoreAssumption
<1>2. QED
  BY <1>1, FS_CardinalityType DEF CountComplaintsForSuspect

-----------------------------------------------------------------------------
(* The rules compute risks and verdicts of their types.                    *)

LEMMA ClampType ==
    ASSUME NEW risk \in Int
    PROVE  Clamp(risk) \in Int /\ 0 <= Clamp(risk) /\ Clamp(risk) <= MaxRisk
BY DEF Clamp, MaxRisk

LEMMA TaintedRiskType ==
    ASSUME NEW risk \in Int, NEW delta \in Int
    PROVE  TaintedRisk(risk, delta) \in Int
BY ClampType DEF TaintedRisk

LEMMA ToCentsType == \A mills \in Int : ToCents(mills) \in Int
BY DEF ToCents

LEMMA ToCentsNat == \A mills \in Nat : ToCents(mills) \in Nat
BY DEF ToCents

LEMMA ScoreType ==
    ASSUME NEW risk \in Int, NEW count \in Int, NEW inflow \in Int,
           NEW balance \in Int, NEW amount \in Int
    PROVE  Score(risk, count, inflow, balance, amount) \in Int
<1> DEFINE total == risk + 200 * count + InflowSurcharge(inflow)
                        + DrainSurcharge(risk, amount) + OutflowSurcharge(balance, amount)
<1>1. /\ InflowSurcharge(inflow) \in Int
      /\ DrainSurcharge(risk, amount) \in Int
      /\ OutflowSurcharge(balance, amount) \in Int
  BY DEF InflowSurcharge, DrainSurcharge, OutflowSurcharge
<1>2. total \in Int
  BY <1>1
<1>3. Clamp(total) \in Int
  <2> HIDE DEF total
  <2>1. QED
    BY <1>2, ClampType
<1>4. QED
  BY <1>3 DEF Score

LEMMA VerdictType ==
    ASSUME NEW score \in Int
    PROVE  Verdict(score) \in [score : Int, flagged : BOOLEAN, status : PaymentStatus]
BY DEF Verdict, PaymentStatus

-----------------------------------------------------------------------------
(* Accounts.                                                               *)

LEMMA CreateAccountType ==
    ASSUME AccountsTypeOK, NEW id \in Names, NEW account \in Account,
           CreateAccount(id, account)
    PROVE  AccountsTypeOK'
<1>1. CASE account.upi \in DOMAIN upiIndex
  BY <1>1 DEF CreateAccount, accountVars, AccountsTypeOK, IsMap
<1>2. CASE account.upi \notin DOMAIN upiIndex
  <2>1. IsMap(accounts', Names, Account)
    BY <1>2, PutMap DEF CreateAccount, AccountsTypeOK
  <2>2. account.upi \in Names
    BY DEF Account
  <2>3. IsMap(upiIndex', Names, Names)
    BY <1>2, <2>2, PutMap DEF CreateAccount, AccountsTypeOK
  <2>4. QED
    BY <2>1, <2>3 DEF AccountsTypeOK, IsMap
<1>3. QED
  BY <1>1, <1>2

LEMMA UpdateAccountStatusType ==
    ASSUME AccountsTypeOK, NEW id, NEW status \in AccountStatus,
           UpdateAccountStatus(id, status)
    PROVE  AccountsTypeOK'
BY DEF UpdateAccountStatus, AccountsTypeOK, IsMap, Account

LEMMA ApplyTaintUpdateType ==
    ASSUME AccountsTypeOK, NEW id, NEW delta \in Int, NEW status \in AccountStatus,
           ApplyTaintUpdate(id, delta, status)
    PROVE  AccountsTypeOK'
<1>1. CASE id \in DOMAIN accounts
  <2>1. accounts[id] \in Account
    BY <1>1 DEF AccountsTypeOK, IsMap
  <2>2. TaintedRisk(accounts[id].risk, delta) \in Int
    BY <2>1, TaintedRiskType DEF Account
  <2>3. QED
    BY <1>1, <2>1, <2>2 DEF ApplyTaintUpdate, AccountsTypeOK, IsMap, Account
<1>2. CASE id \notin DOMAIN accounts
  BY <1>2 DEF ApplyTaintUpdate, AccountsTypeOK, IsMap
<1>3. QED
  BY <1>1, <1>2

(* What a transfer does to the balances.                                   *)
LEMMA DebitCreditType ==
    ASSUME NEW account \in Account, NEW cents \in Int
    PROVE  Debit(account, cents) \in Account /\ Credit(account, cents) \in Account
BY ToCentsType DEF Debit, Credit, Account

LEMMA TransferType ==
    ASSUME AccountsTypeOK, LedgerTypeOK, NEW s \in Names, NEW r \in Names,
           NEW amount \in Nat, NEW score \in Int,
           ExecuteAtomicTransfer(s, r, amount, Verdict(score))
    PROVE  AccountsTypeOK' /\ LedgerTypeOK'
<1> DEFINE verdict == Verdict(score)
<1> DEFINE id == Len(transactions) + 1
<1>1. verdict \in [score : Int, flagged : BOOLEAN, status : PaymentStatus]
  BY VerdictType
<1>2. ToCents(amount) \in Int
  BY ToCentsType
<1>3. IsMap(accounts', Names, Account)
  BY <1>2, DebitCreditType DEF ExecuteAtomicTransfer, AccountsTypeOK, IsMap
<1>4. AccountsTypeOK'
  BY <1>3 DEF AccountsTypeOK, IsMap, ExecuteAtomicTransfer
<1>5. id \in Nat
  BY DEF LedgerTypeOK
<1>6. transactions' \in Seq(Transaction)
  <2>1. [sender |-> s, receiver |-> r, amount |-> amount, status |-> verdict.status]
            \in Transaction
    BY <1>1 DEF Transaction, TransactionStatus
  <2>2. QED
    BY <2>1 DEF ExecuteAtomicTransfer, LedgerTypeOK
<1>7. txIndex' \in [Names -> Seq(Nat)]
  <2>1. \A seq \in Seq(Nat) : Append(seq, id) \in Seq(Nat)
    BY <1>5, AppendType
  <2>2. txIndex \in [Names -> Seq(Nat)]
    BY DEF LedgerTypeOK
  <2>3. txIndex' = [txIndex EXCEPT ![s] = Append(@, id), ![r] = Append(@, id)]
    BY DEF ExecuteAtomicTransfer, IndexedUnder
  <2> HIDE DEF id
  <2>4. QED
    BY <2>1, <2>2, <2>3
<1>8. IsMap(flags', Nat, Int)
  <2>1. CASE verdict.flagged
    BY <2>1, <1>1, <1>5, PutMap DEF ExecuteAtomicTransfer, LedgerTypeOK
  <2>2. CASE ~verdict.flagged
    BY <2>2 DEF ExecuteAtomicTransfer, LedgerTypeOK
  <2>3. QED
    BY <2>1, <2>2
<1>9. QED
  BY <1>4, <1>6, <1>7, <1>8 DEF LedgerTypeOK, IsMap

-----------------------------------------------------------------------------
(* Complaints and users.                                                   *)

LEMMA CreateComplaintType ==
    ASSUME ComplaintsTypeOK, NEW id \in ComplaintIds, NEW complaint \in Complaint,
           CreateComplaint(id, complaint)
    PROVE  ComplaintsTypeOK'
<1>1. IsMap(complaints', ComplaintIds, Complaint)
  BY PutMap DEF CreateComplaint, ComplaintsTypeOK
<1>2. QED
  BY <1>1 DEF CreateComplaint, ComplaintsTypeOK, IsMap

LEMMA UpdateComplaintStatusType ==
    ASSUME ComplaintsTypeOK, NEW id, NEW status \in ComplaintStatus,
           UpdateComplaintStatus(id, status)
    PROVE  ComplaintsTypeOK'
BY DEF UpdateComplaintStatus, ComplaintsTypeOK, IsMap, Complaint

LEMMA CreateUserType ==
    ASSUME UsersTypeOK, NEW id \in Names, NEW user \in User, CreateUser(id, user)
    PROVE  UsersTypeOK'
<1>1. CASE UsernameTaken(user.username)
  BY <1>1 DEF CreateUser, userVars, UsersTypeOK, IsMap
<1>2. CASE ~UsernameTaken(user.username)
  <2>1. IsMap(users', Names, User)
    BY <1>2, PutMap DEF CreateUser, UsersTypeOK
  <2>2. user.username \in Names
    BY DEF User
  <2>3. IsMap(userIndex', Names, Names)
    BY <1>2, <2>2, PutMap DEF CreateUser, UsersTypeOK
  <2>4. QED
    BY <2>1, <2>3 DEF UsersTypeOK, IsMap
<1>3. QED
  BY <1>1, <1>2

-----------------------------------------------------------------------------
(* The threads.                                                            *)

Sender(l) == l.payer \in SnapshotType

Peer(l) == l.peer \in SnapshotType

Known(l) == l.user \in UserSnapshotType

StepSound(step, r, l) ==
    /\ step \in TransferSteps =>
        /\ r \in TransferRequest
        /\ step # "receiver" => WellFormedTransfer(r) /\ Peer(l)
        /\ step \in {"countComplaints", "readHistory", "execute"} => Sender(l)
    /\ step \in ComplaintSteps =>
        /\ r \in ComplaintRequest
        /\ step # "suspectByUpi" => r.caller # None /\ r.suspect # None
        /\ step \in {"ownership", "record", "count", "taint"} => Peer(l)
    /\ step \in TriageSteps =>
        /\ r \in TriageRequest
        /\ step = "setTriage" => r.status # None
    /\ step \in ModerationSteps =>
        /\ r \in ModerationRequest
        /\ step = "setStatus" => Peer(l)
    /\ step \in ConsumerSteps =>
        /\ r \in RegistrationRequest /\ r.kind = "consumer"
        /\ step # "userByAccount" => r.number # None
    /\ step \in EmployeeSteps => r \in RegistrationRequest /\ r.kind = "employee"
    /\ step \in LoginSteps =>
        /\ r \in LoginRequest
        /\ step \in {"holderOfAccount", "accountOfUser"} => Known(l)
    /\ step \in ProfileSteps => r \in ProfileRequest

ThreadsTypeOK ==
    /\ pc \in [Threads -> Steps]
    /\ req \in [Threads -> Requests \cup {None}]
    /\ local \in [Threads -> LocalType]
    /\ answer \in [Threads -> AnswerType \cup {None}]

ThreadsSound == \A t \in Threads : StepSound(pc[t], req[t], local[t])

TypeInv == StoreTypeOK /\ ThreadsTypeOK /\ ThreadsSound

USE DEF Sender, Peer, Known

-----------------------------------------------------------------------------
(* What the three ways a thread can move keep true of the threads.         *)

LEMMA AllSteps ==
    /\ {"idle", "done"} \subseteq Steps
    /\ TransferSteps \subseteq Steps
    /\ ComplaintSteps \subseteq Steps
    /\ TriageSteps \subseteq Steps
    /\ ModerationSteps \subseteq Steps
    /\ ConsumerSteps \subseteq Steps
    /\ EmployeeSteps \subseteq Steps
    /\ LoginSteps \subseteq Steps
    /\ ProfileSteps \subseteq Steps
BY DEF Steps

LEMMA StopSound == \A r, l : StepSound("idle", r, l) /\ StepSound("done", r, l)
BY DEF StepSound, TransferSteps, ComplaintSteps, TriageSteps, ModerationSteps,
        ConsumerSteps, EmployeeSteps, LoginSteps, ProfileSteps

LEMMA BlankType == Blank \in LocalType
BY DEF Blank, LocalType

LEMMA ContinueType ==
    ASSUME ThreadsTypeOK, ThreadsSound, NEW t \in Threads,
           NEW step \in Steps, NEW locals \in LocalType,
           StepSound(step, req[t], locals), Continue(t, step, locals)
    PROVE  ThreadsTypeOK' /\ ThreadsSound'
<1>1. ThreadsTypeOK'
  BY DEF ThreadsTypeOK, Continue
<1>2. ASSUME NEW u \in Threads
      PROVE  StepSound(pc'[u], req'[u], local'[u])
  <2>1. CASE u = t
    BY <2>1 DEF Continue, ThreadsTypeOK
  <2>2. CASE u # t
    BY <2>2 DEF Continue, ThreadsTypeOK, ThreadsSound
  <2>3. QED
    BY <2>1, <2>2
<1>3. QED
  BY <1>1, <1>2 DEF ThreadsSound

LEMMA RespondType ==
    ASSUME ThreadsTypeOK, ThreadsSound, NEW t \in Threads,
           NEW code \in {200, 201, 400, 401, 403, 404, 409, 500}, NEW tx \in Nat,
           NEW token \in Claims \cup {None}, Respond(t, code, tx, token)
    PROVE  ThreadsTypeOK' /\ ThreadsSound'
<1> DEFINE about == IF local[t].peer = None THEN None ELSE local[t].peer.id
<1>1. about \in Names \cup {None}
  BY DEF ThreadsTypeOK, LocalType, SnapshotType
<1>2. [code |-> code, tx |-> tx, token |-> token, about |-> about] \in AnswerType
  BY <1>1 DEF AnswerType
<1>3. ThreadsTypeOK'
  BY <1>2, AllSteps, BlankType DEF ThreadsTypeOK, Respond
<1>4. ASSUME NEW u \in Threads
      PROVE  StepSound(pc'[u], req'[u], local'[u])
  <2>1. CASE u = t
    BY <2>1, StopSound DEF Respond, ThreadsTypeOK
  <2>2. CASE u # t
    BY <2>2 DEF Respond, ThreadsTypeOK, ThreadsSound
  <2>3. QED
    BY <2>1, <2>2
<1>5. QED
  BY <1>3, <1>4 DEF ThreadsSound

LEMMA ReplyType ==
    ASSUME ThreadsTypeOK, ThreadsSound, NEW t \in Threads,
           NEW code \in {200, 201, 400, 401, 403, 404, 409, 500}, NEW tx \in Nat,
           Reply(t, code, tx)
    PROVE  ThreadsTypeOK' /\ ThreadsSound'
BY RespondType DEF Reply

LEMMA GrantType ==
    ASSUME ThreadsTypeOK, ThreadsSound, NEW t \in Threads,
           NEW code \in {200, 201}, NEW claims \in Claims, Grant(t, code, claims)
    PROVE  ThreadsTypeOK' /\ ThreadsSound'
BY RespondType DEF Grant, NoTx

LEMMA AcceptType ==
    ASSUME ThreadsTypeOK, ThreadsSound, NEW t \in Threads, NEW r \in Requests,
           Accept(t, r)
    PROVE  ThreadsTypeOK' /\ ThreadsSound'
<1>1. FirstStep[r.kind] \in Steps /\ StepSound(FirstStep[r.kind], r, local[t])
  <2>1. r \in RequestTypes
    BY WorkersAssumption
  <2>2. CASE r \in TransferRequest
    BY <2>2, AllSteps
    DEF TransferRequest, FirstStep, StepSound, TransferSteps, ComplaintSteps, TriageSteps,
        ModerationSteps,
        ConsumerSteps, EmployeeSteps, LoginSteps, ProfileSteps
  <2>3. CASE r \in ComplaintRequest
    BY <2>3, AllSteps
    DEF ComplaintRequest, FirstStep, StepSound, TransferSteps, ComplaintSteps, TriageSteps,
        ModerationSteps,
        ConsumerSteps, EmployeeSteps, LoginSteps, ProfileSteps
  <2>4. CASE r \in TriageRequest
    BY <2>4, AllSteps
    DEF TriageRequest, FirstStep, StepSound, TransferSteps, ComplaintSteps, TriageSteps,
        ModerationSteps,
        ConsumerSteps, EmployeeSteps, LoginSteps, ProfileSteps
  <2>5. CASE r \in ModerationRequest
    BY <2>5, AllSteps
    DEF ModerationRequest, FirstStep, StepSound, TransferSteps, ComplaintSteps, TriageSteps,
        ModerationSteps,
        ConsumerSteps, EmployeeSteps, LoginSteps, ProfileSteps
  <2>6. CASE r \in RegistrationRequest
    BY <2>6, AllSteps
    DEF RegistrationRequest, FirstStep, StepSound, TransferSteps, ComplaintSteps, TriageSteps,
        ModerationSteps,
        ConsumerSteps, EmployeeSteps, LoginSteps, ProfileSteps
  <2>7. CASE r \in LoginRequest
    BY <2>7, AllSteps
    DEF LoginRequest, FirstStep, StepSound, TransferSteps, ComplaintSteps, TriageSteps,
        ModerationSteps, ConsumerSteps, EmployeeSteps, LoginSteps, ProfileSteps
  <2>8. CASE r \in ProfileRequest
    BY <2>8, AllSteps
    DEF ProfileRequest, FirstStep, StepSound, TransferSteps, ComplaintSteps, TriageSteps,
        ModerationSteps, ConsumerSteps, EmployeeSteps, LoginSteps, ProfileSteps
  <2>9. QED
    BY <2>1, <2>2, <2>3, <2>4, <2>5, <2>6, <2>7, <2>8 DEF RequestTypes
<1>2. ThreadsTypeOK'
  BY <1>1 DEF ThreadsTypeOK, Accept
<1>3. ASSUME NEW u \in Threads
      PROVE  StepSound(pc'[u], req'[u], local'[u])
  <2>1. CASE u = t
    BY <2>1, <1>1 DEF Accept, ThreadsTypeOK
  <2>2. CASE u # t
    BY <2>2 DEF Accept, ThreadsTypeOK, ThreadsSound
  <2>3. QED
    BY <2>1, <2>2
<1>4. QED
  BY <1>2, <1>3 DEF ThreadsSound

LEMMA SnapshotOK ==
    ASSUME AccountsTypeOK, NEW a \in DOMAIN accounts
    PROVE  Snapshot(a) \in SnapshotType
BY DEF AccountsTypeOK, IsMap, Snapshot, SnapshotType

LEMMA LocalUpdates ==
    ASSUME NEW l \in LocalType
    PROVE  /\ \A s \in SnapshotType :
                /\ [l EXCEPT !.peer = s] \in LocalType
                /\ [l EXCEPT !.peer = s].peer = s
                /\ [l EXCEPT !.payer = s] \in LocalType
                /\ [l EXCEPT !.payer = s].payer = s
                /\ [l EXCEPT !.payer = s].peer = l.peer
                /\ [l EXCEPT !.peer = s, !.external = TRUE] \in LocalType
                /\ [l EXCEPT !.peer = s, !.external = TRUE].peer = s
           /\ \A s \in UserSnapshotType :
                /\ [l EXCEPT !.user = s] \in LocalType
                /\ [l EXCEPT !.user = s].user = s
           /\ \A n \in Nat :
                /\ [l EXCEPT !.tally = n] \in LocalType
                /\ [l EXCEPT !.tally = n].peer = l.peer
                /\ [l EXCEPT !.tally = n].payer = l.payer
                /\ [l EXCEPT !.inflow = n] \in LocalType
                /\ [l EXCEPT !.inflow = n].peer = l.peer
                /\ [l EXCEPT !.inflow = n].payer = l.payer
BY DEF LocalType

LEMMA StoreFrame ==
    /\ AccountsTypeOK /\ UNCHANGED accountVars => AccountsTypeOK'
    /\ LedgerTypeOK /\ UNCHANGED ledgerVars => LedgerTypeOK'
    /\ ComplaintsTypeOK /\ UNCHANGED complaintVars => ComplaintsTypeOK'
    /\ UsersTypeOK /\ UNCHANGED userVars => UsersTypeOK'
    /\ StoreTypeOK /\ UNCHANGED storeVars => StoreTypeOK'
BY DEF accountVars, ledgerVars, complaintVars, userVars, storeVars, StoreTypeOK,
       AccountsTypeOK, LedgerTypeOK, ComplaintsTypeOK, UsersTypeOK, IsMap

-----------------------------------------------------------------------------
(* Transfers.                                                              *)

LEMMA TransferPreserves ==
    ASSUME TypeInv, NEW t \in Threads, TransferStep(t)
    PROVE  TypeInv'
<1> USE DEF TypeInv
<1>0. StoreTypeOK => AccountsTypeOK /\ LedgerTypeOK /\ ComplaintsTypeOK /\ UsersTypeOK
  BY DEF StoreTypeOK
<1>1. /\ local[t] \in LocalType
      /\ StepSound(pc[t], req[t], local[t])
  BY DEF ThreadsTypeOK, ThreadsSound
<1>2. \A step, l :
        /\ step \in TransferSteps \ {"receiver"}
        /\ req[t] \in TransferRequest /\ WellFormedTransfer(req[t]) /\ Peer(l)
        /\ step # "sender" => Sender(l)
        => step \in Steps /\ StepSound(step, req[t], l)
  BY AllSteps DEF StepSound, TransferSteps, ComplaintSteps, TriageSteps, ModerationSteps,
        ConsumerSteps, EmployeeSteps, LoginSteps, ProfileSteps
<1>3. CASE RefuseTransfer(t)
  BY <1>3, ReplyType, StoreFrame DEF RefuseTransfer, NoTx
<1>4. CASE ResolveReceiver(t)
  <2>1. req[t] \in TransferRequest /\ WellFormedTransfer(req[t])
    BY <1>1, <1>4 DEF StepSound, ResolveReceiver, TransferSteps
  <2>2. req[t].to \in Names
    BY <2>1 DEF WellFormedTransfer, TransferRequest
  <2> DEFINE found == IF req[t].by = "upi"
                      THEN FindAccountByUpi(req[t].to)
                      ELSE FindAccountById(req[t].to)
  <2>3. found \subseteq DOMAIN accounts
    BY <1>0, <2>2, FindAccountByUpiType, FindAccountByIdType
  <2>4. CASE Reply(t, 404, NoTx)
    BY <1>4, <2>4, ReplyType, StoreFrame DEF ResolveReceiver, NoTx
  <2>5. ASSUME NEW a \in found,
               Continue(t, "sender", [local[t] EXCEPT !.peer = Snapshot(a)])
        PROVE  TypeInv'
    <3>1. Snapshot(a) \in SnapshotType
      BY <1>0, <2>3, SnapshotOK
    <3>2. StepSound("sender", req[t], [local[t] EXCEPT !.peer = Snapshot(a)])
      BY <1>1, <1>2, <2>1, <3>1, LocalUpdates DEF TransferSteps
    <3>3. "sender" \in Steps
      BY AllSteps DEF TransferSteps
    <3>4. QED
      BY <1>1, <1>4, <2>5, <3>1, <3>2, <3>3, LocalUpdates, ContinueType, StoreFrame
      DEF ResolveReceiver
  <2>6. QED
    BY <1>4, <2>4, <2>5 DEF ResolveReceiver
<1>5. CASE ResolveSender(t)
  <2>1. req[t] \in TransferRequest /\ WellFormedTransfer(req[t]) /\ Peer(local[t])
    BY <1>1, <1>5 DEF StepSound, ResolveSender, TransferSteps
  <2>2. FindAccountById(req[t].sender) \subseteq DOMAIN accounts
    BY <1>0, <2>1, FindAccountByIdType DEF WellFormedTransfer, TransferRequest
  <2>3. CASE \E code \in {400, 404} : Reply(t, code, NoTx)
    BY <1>5, <2>3, ReplyType, StoreFrame DEF ResolveSender, NoTx
  <2>4. ASSUME NEW a \in FindAccountById(req[t].sender),
               Continue(t, "countComplaints", [local[t] EXCEPT !.payer = Snapshot(a)])
        PROVE  TypeInv'
    <3>1. Snapshot(a) \in SnapshotType
      BY <1>0, <2>2, SnapshotOK
    <3>2. StepSound("countComplaints", req[t], [local[t] EXCEPT !.payer = Snapshot(a)])
      BY <1>1, <1>2, <2>1, <3>1, LocalUpdates DEF TransferSteps
    <3>3. "countComplaints" \in Steps
      BY AllSteps DEF TransferSteps
    <3>4. QED
      BY <1>1, <1>5, <2>4, <3>1, <3>2, <3>3, LocalUpdates, ContinueType, StoreFrame
      DEF ResolveSender
  <2>5. QED
    BY <1>5, <2>3, <2>4, ZenonT(60) DEF ResolveSender
<1>6. CASE CountReceiverComplaints(t)
  <2>1. /\ req[t] \in TransferRequest /\ WellFormedTransfer(req[t])
        /\ Peer(local[t]) /\ Sender(local[t])
    BY <1>1, <1>6 DEF StepSound, CountReceiverComplaints, TransferSteps
  <2> DEFINE l == [local[t] EXCEPT !.tally = CountComplaintsForSuspect(local[t].peer.id)]
  <2>2. l \in LocalType /\ l.peer = local[t].peer /\ l.payer = local[t].payer
    BY <1>0, <1>1, CountType, LocalUpdates
  <2>3. "readHistory" \in Steps /\ StepSound("readHistory", req[t], l)
    BY <1>2, <2>1, <2>2 DEF TransferSteps
  <2>4. Continue(t, "readHistory", l) /\ UNCHANGED storeVars
    BY <1>6 DEF CountReceiverComplaints
  <2> HIDE DEF l
  <2>5. QED
    BY <2>2, <2>3, <2>4, ContinueType, StoreFrame
<1>7. CASE ReadReceiverHistory(t)
  <2>1. /\ req[t] \in TransferRequest /\ WellFormedTransfer(req[t])
        /\ Peer(local[t]) /\ Sender(local[t])
    BY <1>1, <1>7 DEF StepSound, ReadReceiverHistory, TransferSteps
  <2> DEFINE l == [local[t] EXCEPT
                    !.inflow = Len(FindTransactionsByAccount(local[t].peer.id))]
  <2>2. Len(FindTransactionsByAccount(local[t].peer.id)) \in Nat
    BY <1>0, <2>1 DEF FindTransactionsByAccount, LedgerTypeOK, SnapshotType
  <2>3. l \in LocalType /\ l.peer = local[t].peer /\ l.payer = local[t].payer
    BY <1>1, <2>2, LocalUpdates
  <2>4. "execute" \in Steps /\ StepSound("execute", req[t], l)
    BY <1>2, <2>1, <2>3 DEF TransferSteps
  <2>5. Continue(t, "execute", l) /\ UNCHANGED storeVars
    BY <1>7 DEF ReadReceiverHistory
  <2> HIDE DEF l
  <2>6. QED
    BY <2>3, <2>4, <2>5, ContinueType, StoreFrame
<1>8. CASE ExecuteTransfer(t)
  <2>1. /\ req[t] \in TransferRequest /\ WellFormedTransfer(req[t])
        /\ Peer(local[t]) /\ Sender(local[t])
    BY <1>1, <1>8 DEF StepSound, ExecuteTransfer, TransferSteps
  <2>2. ComplaintsTypeOK' /\ UsersTypeOK'
    BY <1>0, <1>8, StoreFrame DEF ExecuteTransfer
  <2>3. Len(transactions) + 1 \in Nat
    BY <1>0 DEF LedgerTypeOK
  <2>4. ThreadsTypeOK' /\ ThreadsSound'
    BY <1>8, <2>3, ReplyType DEF ExecuteTransfer, NoTx
  <2>5. AccountsTypeOK' /\ LedgerTypeOK'
    <3> DEFINE score == Score(local[t].peer.account.risk, local[t].tally, local[t].inflow,
                              local[t].payer.account.balance, req[t].amount)
    <3>1. CASE UNCHANGED <<accountVars, ledgerVars>>
      BY <1>0, <3>1, StoreFrame
    <3>2. CASE ExecuteAtomicTransfer(local[t].payer.id, local[t].peer.id, req[t].amount,
                                     Evaluate(t))
      <4>1. /\ local[t].payer.id \in Names /\ local[t].peer.id \in Names
            /\ req[t].amount \in Nat
        BY <2>1 DEF SnapshotType, TransferRequest
      <4>2. score \in Int
        BY <1>1, <2>1, ScoreType DEF SnapshotType, Account, LocalType, TransferRequest
      <4>3. Evaluate(t) = Verdict(score)
        BY DEF Evaluate
      <4> HIDE DEF score
      <4>4. QED
        BY <1>0, <3>2, <4>1, <4>2, <4>3, TransferType
    <3>3. QED
      BY <1>8, <3>1, <3>2 DEF ExecuteTransfer
  <2>6. QED
    BY <2>2, <2>4, <2>5 DEF StoreTypeOK
<1>9. QED
  BY <1>3, <1>4, <1>5, <1>6, <1>7, <1>8 DEF TransferStep

-----------------------------------------------------------------------------
(* Complaints.                                                             *)

LEMMA StatusAfterComplaintType ==
    ASSUME NEW status \in AccountStatus, NEW risk \in Int, NEW count \in Int
    PROVE  StatusAfterComplaint(status, risk, count) \in AccountStatus
BY DEF StatusAfterComplaint, AccountStatus

LEMMA ComplaintPreserves ==
    ASSUME TypeInv, NEW t \in Threads, ComplaintStep(t)
    PROVE  TypeInv'
<1> USE DEF TypeInv
<1>0. StoreTypeOK => AccountsTypeOK /\ LedgerTypeOK /\ ComplaintsTypeOK /\ UsersTypeOK
  BY DEF StoreTypeOK
<1>1. /\ local[t] \in LocalType
      /\ StepSound(pc[t], req[t], local[t])
  BY DEF ThreadsTypeOK, ThreadsSound
<1>2. \A step, l :
        /\ step \in ComplaintSteps
        /\ req[t] \in ComplaintRequest /\ req[t].caller # None /\ req[t].suspect # None
        /\ step \in {"ownership", "record", "count", "taint"} => Peer(l)
        => step \in Steps /\ StepSound(step, req[t], l)
  BY AllSteps DEF StepSound, TransferSteps, ComplaintSteps, TriageSteps, ModerationSteps,
        ConsumerSteps, EmployeeSteps, LoginSteps, ProfileSteps
<1>3. pc[t] \in ComplaintSteps \ {"suspectByUpi"} =>
        /\ req[t] \in ComplaintRequest /\ req[t].caller # None /\ req[t].suspect # None
        /\ req[t].caller \in Names /\ req[t].suspect \in Names
  BY <1>1 DEF StepSound, ComplaintRequest
<1>4. pc[t] \in {"ownership", "record", "count", "taint"} => Peer(local[t])
  BY <1>1 DEF StepSound, ComplaintSteps
<1>5. \A l \in LocalType :
        /\ req[t] \in ComplaintRequest /\ req[t].caller # None /\ req[t].suspect # None
        /\ Peer(l) /\ Continue(t, AfterSuspect(t), l)
        => ThreadsTypeOK' /\ ThreadsSound'
  <2>1. AfterSuspect(t) \in {"ownership", "record"}
    BY DEF AfterSuspect
  <2>2. QED
    BY <1>2, <2>1, ContinueType DEF ComplaintSteps
<1>6. CASE RefuseComplaint(t)
  BY <1>6, ReplyType, StoreFrame DEF RefuseComplaint, NoTx
<1>7. CASE FindSuspectByUpi(t)
  <2>1. /\ req[t] \in ComplaintRequest /\ req[t].caller # None /\ req[t].suspect # None
        /\ req[t].suspect \in Names
    BY <1>1, <1>7 DEF FindSuspectByUpi, StepSound, ComplaintSteps, ComplaintRequest
  <2>2. CASE Continue(t, "suspectById", local[t])
    BY <1>1, <1>2, <1>7, <2>1, <2>2, ContinueType, StoreFrame
    DEF ComplaintSteps, FindSuspectByUpi
  <2>3. ASSUME NEW a \in FindAccountByUpi(req[t].suspect),
               Continue(t, AfterSuspect(t), [local[t] EXCEPT !.peer = Snapshot(a)])
        PROVE  TypeInv'
    <3>1. Snapshot(a) \in SnapshotType
      BY <1>0, FindAccountByUpiType, SnapshotOK
    <3>2. QED
      BY <1>1, <1>5, <1>7, <2>1, <2>3, <3>1, LocalUpdates, StoreFrame DEF FindSuspectByUpi
  <2>4. QED
    BY <1>7, <2>2, <2>3 DEF FindSuspectByUpi
<1>8. CASE FindSuspectById(t)
  <2>1. /\ req[t] \in ComplaintRequest /\ req[t].caller # None /\ req[t].suspect # None
        /\ req[t].suspect \in Names
    BY <1>3, <1>8 DEF FindSuspectById, ComplaintSteps
  <2>2. CASE Continue(t, "provision", local[t])
    BY <1>1, <1>2, <1>8, <2>1, <2>2, ContinueType, StoreFrame
    DEF ComplaintSteps, FindSuspectById
  <2>3. ASSUME NEW a \in FindAccountById(req[t].suspect),
               Continue(t, AfterSuspect(t), [local[t] EXCEPT !.peer = Snapshot(a)])
        PROVE  TypeInv'
    <3>1. Snapshot(a) \in SnapshotType
      BY <1>0, <2>1, FindAccountByIdType, SnapshotOK
    <3>2. QED
      BY <1>1, <1>5, <1>8, <2>1, <2>3, <3>1, LocalUpdates, StoreFrame DEF FindSuspectById
  <2>4. QED
    BY <1>8, <2>2, <2>3 DEF FindSuspectById
<1>9. CASE ProvisionSuspect(t)
  <2>1. /\ req[t] \in ComplaintRequest /\ req[t].caller # None /\ req[t].suspect # None
        /\ req[t].suspect \in Names
    BY <1>3, <1>9 DEF ProvisionSuspect, ComplaintSteps
  <2>2. ExternalAccount(req[t]) \in Account
    BY <2>1, ComplaintAssumption DEF ExternalAccount, Account, ComplaintRequest, AccountStatus
  <2> DEFINE suspect(id) == [id |-> id, account |-> ExternalAccount(req[t])]
  <2>3. PICK id \in ProvisionedIds(req[t]) :
            /\ CreateAccount(id, ExternalAccount(req[t]))
            /\ Continue(t, AfterSuspect(t),
                    [local[t] EXCEPT !.peer = suspect(id), !.external = TRUE])
    BY <1>9 DEF ProvisionSuspect
  <2>4. id \in Names
    BY <2>1, ComplaintAssumption DEF ProvisionedIds
  <2>5. AccountsTypeOK'
    BY <1>0, <2>2, <2>3, <2>4, CreateAccountType
  <2>6. suspect(id) \in SnapshotType
    BY <2>2, <2>4 DEF SnapshotType
  <2>7. ThreadsTypeOK' /\ ThreadsSound'
    <3> HIDE DEF suspect
    <3>1. QED
      BY <1>1, <1>5, <2>1, <2>3, <2>6, LocalUpdates
  <2>8. QED
    BY <1>0, <1>9, <2>5, <2>7, StoreFrame DEF ProvisionSuspect, StoreTypeOK
<1>10. CASE CheckOwnership(t)
  <2>1. CASE \E code \in {400, 403, 500} : Reply(t, code, NoTx)
    BY <1>10, <2>1, ReplyType, StoreFrame DEF CheckOwnership, NoTx
  <2>2. CASE Continue(t, "record", local[t])
    <3>1. "record" \in Steps /\ StepSound("record", req[t], local[t])
      BY <1>2, <1>3, <1>4, <1>10 DEF CheckOwnership, ComplaintSteps
    <3>2. QED
      BY <1>1, <1>10, <2>2, <3>1, ContinueType, StoreFrame DEF CheckOwnership
  <2>3. QED
    BY <1>10, <2>1, <2>2 DEF CheckOwnership
<1>11. CASE RecordComplaint(t)
  <2>1. /\ req[t] \in ComplaintRequest /\ req[t].caller # None /\ req[t].suspect # None
        /\ req[t].caller \in Names /\ Peer(local[t])
    BY <1>3, <1>4, <1>11 DEF RecordComplaint, ComplaintSteps
  <2> DEFINE complaint == [complainant |-> req[t].caller, suspect |-> local[t].peer.id,
                           tx |-> req[t].tx, status |-> "SUBMITTED"]
  <2>2. complaint \in Complaint
    BY <2>1 DEF Complaint, ComplaintStatus, SnapshotType, ComplaintRequest
  <2>3. ComplaintsTypeOK'
    <3> HIDE DEF complaint
    <3>1. PICK id \in ComplaintIds : CreateComplaint(id, complaint)
      BY <1>11 DEF RecordComplaint, complaint
    <3>2. QED
      BY <1>0, <2>2, <3>1, CreateComplaintType
  <2>4. CASE Reply(t, 201, NoTx)
    BY <1>0, <1>11, <2>3, <2>4, ReplyType, StoreFrame DEF RecordComplaint, NoTx, StoreTypeOK
  <2>5. CASE Continue(t, "count", local[t])
    <3>1. "count" \in Steps /\ StepSound("count", req[t], local[t])
      BY <1>2, <2>1 DEF ComplaintSteps
    <3>2. ThreadsTypeOK' /\ ThreadsSound'
      BY <1>1, <2>5, <3>1, ContinueType
    <3>3. QED
      BY <1>0, <1>11, <2>3, <3>2, StoreFrame DEF RecordComplaint, StoreTypeOK
  <2>6. QED
    BY <1>11, <2>4, <2>5 DEF RecordComplaint
<1>12. CASE CountSuspectComplaints(t)
  <2> DEFINE l == [local[t] EXCEPT !.tally = CountComplaintsForSuspect(local[t].peer.id)]
  <2>1. l \in LocalType /\ l.peer = local[t].peer
    BY <1>0, <1>1, CountType, LocalUpdates
  <2>2. "taint" \in Steps /\ StepSound("taint", req[t], l)
    BY <1>2, <1>3, <1>4, <1>12, <2>1 DEF CountSuspectComplaints, ComplaintSteps
  <2>3. Continue(t, "taint", l) /\ UNCHANGED storeVars
    BY <1>12 DEF CountSuspectComplaints
  <2> HIDE DEF l
  <2>4. QED
    BY <2>1, <2>2, <2>3, ContinueType, StoreFrame
<1>13. CASE TaintSuspect(t)
  <2>1. Peer(local[t])
    BY <1>4, <1>13 DEF TaintSuspect
  <2> DEFINE status == StatusAfterComplaint(local[t].peer.account.status,
                            local[t].peer.account.risk, local[t].tally)
  <2>2. status \in AccountStatus
    BY <1>1, <2>1, StatusAfterComplaintType DEF SnapshotType, Account, LocalType
  <2>3. AccountsTypeOK'
    <3>1. ApplyTaintUpdate(local[t].peer.id, TaintStep, status)
      BY <1>13 DEF TaintSuspect
    <3> HIDE DEF status
    <3>2. QED
      BY <1>0, <2>2, <3>1, ApplyTaintUpdateType DEF TaintStep
  <2>4. ThreadsTypeOK' /\ ThreadsSound'
    BY <1>13, ReplyType DEF TaintSuspect, NoTx
  <2>5. QED
    BY <1>0, <1>13, <2>3, <2>4, StoreFrame DEF TaintSuspect, StoreTypeOK
<1>14. QED
  BY <1>6, <1>7, <1>8, <1>9, <1>10, <1>11, <1>12, <1>13 DEF ComplaintStep

LEMMA TriagePreserves ==
    ASSUME TypeInv, NEW t \in Threads, TriageStep(t)
    PROVE  TypeInv'
<1> USE DEF TypeInv
<1>0. StoreTypeOK => AccountsTypeOK /\ LedgerTypeOK /\ ComplaintsTypeOK /\ UsersTypeOK
  BY DEF StoreTypeOK
<1>1. /\ local[t] \in LocalType
      /\ StepSound(pc[t], req[t], local[t])
  BY DEF ThreadsTypeOK, ThreadsSound
<1>2. CASE FindComplaint(t)
  <2>1. req[t] \in TriageRequest
    BY <1>1, <1>2 DEF FindComplaint, StepSound, TriageSteps
  <2>2. CASE \E code \in {400, 404} : Reply(t, code, NoTx)
    BY <1>1, <1>2, <2>2, ReplyType, StoreFrame DEF FindComplaint, NoTx
  <2>3. CASE req[t].status # None /\ Continue(t, "setTriage", local[t])
    <3>1. "setTriage" \in Steps /\ StepSound("setTriage", req[t], local[t])
      BY <2>1, <2>3, AllSteps DEF StepSound, TransferSteps, ComplaintSteps, TriageSteps,
                                  ModerationSteps, ConsumerSteps, EmployeeSteps, LoginSteps,
                                  ProfileSteps
    <3>2. QED
      BY <1>1, <1>2, <2>3, <3>1, ContinueType, StoreFrame DEF FindComplaint
  <2>4. QED
    BY <1>2, <2>2, <2>3 DEF FindComplaint
<1>3. CASE SetComplaintStatus(t)
  <2>1. req[t].status \in ComplaintStatus
    BY <1>1, <1>3 DEF SetComplaintStatus, StepSound, TriageSteps, TriageRequest
  <2>2. ComplaintsTypeOK'
    BY <1>0, <1>3, <2>1, UpdateComplaintStatusType DEF SetComplaintStatus
  <2>3. ThreadsTypeOK' /\ ThreadsSound'
    BY <1>3, ReplyType DEF SetComplaintStatus, NoTx
  <2>4. QED
    BY <1>0, <1>3, <2>2, <2>3, StoreFrame DEF SetComplaintStatus, StoreTypeOK
<1>4. QED
  BY <1>2, <1>3 DEF TriageStep

-----------------------------------------------------------------------------
(* Moderation.                                                             *)

LEMMA ModerationPreserves ==
    ASSUME TypeInv, NEW t \in Threads, ModerationStep(t)
    PROVE  TypeInv'
<1> USE DEF TypeInv
<1>0. StoreTypeOK => AccountsTypeOK /\ LedgerTypeOK /\ ComplaintsTypeOK /\ UsersTypeOK
  BY DEF StoreTypeOK
<1>1. /\ local[t] \in LocalType
      /\ StepSound(pc[t], req[t], local[t])
  BY DEF ThreadsTypeOK, ThreadsSound
<1>2. \A step, l :
        /\ step \in ModerationSteps
        /\ req[t] \in ModerationRequest
        /\ step = "setStatus" => Peer(l)
        => step \in Steps /\ StepSound(step, req[t], l)
  BY AllSteps DEF StepSound, TransferSteps, ComplaintSteps, TriageSteps, ModerationSteps,
        ConsumerSteps, EmployeeSteps, LoginSteps, ProfileSteps
<1>3. pc[t] \in ModerationSteps => req[t] \in ModerationRequest /\ req[t].account \in Names
  BY <1>1 DEF StepSound, ModerationRequest
<1>4. ASSUME NEW a \in DOMAIN accounts, req[t] \in ModerationRequest,
             Continue(t, "setStatus", [local[t] EXCEPT !.peer = Snapshot(a)]),
             UNCHANGED storeVars
      PROVE  TypeInv'
  <2>1. Snapshot(a) \in SnapshotType
    BY <1>0, SnapshotOK
  <2>2. /\ "setStatus" \in Steps
        /\ StepSound("setStatus", req[t], [local[t] EXCEPT !.peer = Snapshot(a)])
    BY <1>1, <1>2, <1>4, <2>1, LocalUpdates DEF ModerationSteps
  <2>3. QED
    BY <1>1, <1>4, <2>1, <2>2, LocalUpdates, ContinueType, StoreFrame
<1>5. CASE FindAccountToModerate(t)
  <2>1. req[t] \in ModerationRequest /\ req[t].account \in Names
    BY <1>3, <1>5 DEF FindAccountToModerate, ModerationSteps
  <2>2. "accountByUpi" \in Steps /\ StepSound("accountByUpi", req[t], local[t])
    BY <1>2, <2>1 DEF ModerationSteps
  <2>3. FindAccountById(req[t].account) \subseteq DOMAIN accounts
    BY <1>0, <2>1, FindAccountByIdType
  <2>4. QED
    BY <1>1, <1>4, <1>5, <2>1, <2>2, <2>3, ContinueType, StoreFrame
    DEF FindAccountToModerate
<1>6. CASE FindHandleToModerate(t)
  <2>1. req[t] \in ModerationRequest
    BY <1>3, <1>6 DEF FindHandleToModerate, ModerationSteps
  <2>2. FindAccountByUpi(req[t].account) \subseteq DOMAIN accounts
    BY FindAccountByUpiType
  <2>3. CASE Reply(t, 404, NoTx)
    BY <1>6, <2>3, ReplyType, StoreFrame DEF FindHandleToModerate, NoTx
  <2>4. ASSUME NEW a \in FindAccountByUpi(req[t].account),
               Continue(t, "setStatus", [local[t] EXCEPT !.peer = Snapshot(a)])
        PROVE  TypeInv'
    BY <1>4, <1>6, <2>1, <2>2, <2>4 DEF FindHandleToModerate
  <2>5. QED
    BY <1>6, <2>3, <2>4 DEF FindHandleToModerate
<1>7. CASE SetAccountStatus(t)
  <2>1. ThreadsTypeOK' /\ ThreadsSound'
    BY <1>7, ReplyType DEF SetAccountStatus, NoTx
  <2>2. AccountsTypeOK'
    BY <1>0, <1>7, UpdateAccountStatusType, StoreFrame DEF SetAccountStatus
  <2>3. QED
    BY <1>0, <1>7, <2>1, <2>2, StoreFrame DEF SetAccountStatus, StoreTypeOK
<1>8. QED
  BY <1>5, <1>6, <1>7 DEF ModerationStep

-----------------------------------------------------------------------------
(* Registration.                                                           *)

LEMMA ConsumerFields ==
    ASSUME NEW t \in Threads, req[t] \in RegistrationRequest, req[t].number # None
    PROVE  /\ req[t].number \in Names
           /\ ChosenHandle(t) \in Names
           /\ OpeningDeposit(req[t]) \in Nat
           /\ RequestedUsername(req[t]) \in Names
           /\ req[t].name \in Names
           /\ req[t].password \in Names
BY DEF RegistrationRequest, Given, ChosenHandle, OpeningDeposit, DefaultBalance, RequestedUsername

LEMMA ConsumerRecords ==
    ASSUME NEW t \in Threads, req[t] \in RegistrationRequest, req[t].number # None,
           NEW username \in Names
    PROVE  ConsumerUser(t, username) \in User /\ ConsumerClaims(t, username) \in Claims
BY ConsumerFields DEF ConsumerUser, ConsumerClaims, User, Claims

LEMMA EmployeeRecords ==
    ASSUME NEW t \in Threads, req[t] \in RegistrationRequest
    PROVE  /\ EmployeeUser(t) \in User
           /\ \A id \in EmployeeIds :
                [user |-> id, username |-> EmployeeUser(t).username, account |-> Empty]
                    \in Claims
<1>1. EmployeeUsername(req[t]) \in Names /\ req[t].name \in Names /\ req[t].password \in Names
  BY DEF EmployeeUsername, RegistrationRequest, Given
<1>2. EmployeeUser(t) \in User
  BY <1>1, StoreAssumption DEF EmployeeUser, User
<1>3. QED
  BY <1>2, StoreAssumption, RegistrationAssumption DEF User, Claims

LEMMA RegistrationPreserves ==
    ASSUME TypeInv, NEW t \in Threads, RegistrationStep(t)
    PROVE  TypeInv'
<1> USE DEF TypeInv
<1>0. StoreTypeOK => AccountsTypeOK /\ LedgerTypeOK /\ ComplaintsTypeOK /\ UsersTypeOK
  BY DEF StoreTypeOK
<1>1. /\ local[t] \in LocalType
      /\ StepSound(pc[t], req[t], local[t])
  BY DEF ThreadsTypeOK, ThreadsSound
<1>2. \A step, l :
        /\ step \in ConsumerSteps
        /\ req[t] \in RegistrationRequest /\ req[t].number # None
        /\ req[t].kind = "consumer"
        => step \in Steps /\ StepSound(step, req[t], l)
  BY AllSteps DEF StepSound, TransferSteps, ComplaintSteps, TriageSteps, ModerationSteps,
        ConsumerSteps, EmployeeSteps, LoginSteps, ProfileSteps
<1>3. /\ pc[t] \in ConsumerSteps =>
            req[t] \in RegistrationRequest /\ req[t].kind = "consumer"
      /\ pc[t] \in ConsumerSteps \ {"userByAccount"} => req[t].number # None
      /\ pc[t] \in EmployeeSteps =>
            req[t] \in RegistrationRequest /\ req[t].kind = "employee"
  BY <1>1 DEF StepSound, EmployeeSteps
<1>4. ASSUME NEW step \in ConsumerSteps, NEW l \in LocalType,
             req[t] \in RegistrationRequest, req[t].number # None,
             req[t].kind = "consumer", Continue(t, step, l)
      PROVE  ThreadsTypeOK' /\ ThreadsSound'
  BY <1>2, <1>4, ContinueType
<1>5. CASE RefuseRegistration(t)
  BY <1>5, ReplyType, StoreFrame DEF RefuseRegistration, NoTx
<1>6. CASE CheckAccountUser(t)
  <2>1. /\ req[t] \in RegistrationRequest /\ req[t].number # None
        /\ req[t].kind = "consumer"
    BY <1>3, <1>6 DEF CheckAccountUser, ConsumerFieldsGiven, ConsumerSteps
  <2>2. QED
    BY <1>1, <1>4, <1>6, <2>1, ReplyType, StoreFrame
    DEF CheckAccountUser, ConsumerFieldsGiven, ConsumerSteps, NoTx
<1>7. CASE CheckNumberAsUsername(t)
  <2>1. /\ req[t] \in RegistrationRequest /\ req[t].number # None
        /\ req[t].kind = "consumer"
    BY <1>3, <1>7 DEF CheckNumberAsUsername, ConsumerSteps
  <2>2. QED
    BY <1>1, <1>4, <1>7, <2>1, ReplyType, StoreFrame
    DEF CheckNumberAsUsername, ConsumerSteps, NoTx
<1>8. CASE FindAccountToClaim(t)
  <2>1. /\ req[t] \in RegistrationRequest /\ req[t].number # None
        /\ req[t].kind = "consumer"
    BY <1>3, <1>8 DEF FindAccountToClaim, ConsumerSteps
  <2>2. QED
    BY <1>1, <1>4, <1>8, <2>1, StoreFrame DEF FindAccountToClaim, ConsumerSteps
<1>9. CASE DeriveHandle(t)
  <2>1. /\ req[t] \in RegistrationRequest /\ req[t].number # None
        /\ req[t].kind = "consumer"
    BY <1>3, <1>9 DEF DeriveHandle, ConsumerSteps
  <2> DEFINE l == [local[t] EXCEPT
                    !.tally = IF FindAccountByUpi(req[t].derived) = {} THEN 0 ELSE 1]
  <2>2. l \in LocalType
    BY <1>1, LocalUpdates
  <2>3. Continue(t, "openAccount", l) /\ UNCHANGED storeVars
    BY <1>9 DEF DeriveHandle
  <2> HIDE DEF l
  <2>4. QED
    BY <1>4, <2>1, <2>2, <2>3, StoreFrame DEF ConsumerSteps
<1>10. CASE OpenAccount(t)
  <2>1. /\ req[t] \in RegistrationRequest /\ req[t].number # None
        /\ req[t].kind = "consumer"
    BY <1>3, <1>10 DEF OpenAccount, ConsumerSteps
  <2> DEFINE account == [upi |-> ChosenHandle(t), holder |-> req[t].name,
                         balance |-> OpeningDeposit(req[t]), risk |-> 0,
                         status |-> "ACTIVE"]
  <2>2. account \in Account
    BY <2>1, ConsumerFields DEF Account, AccountStatus
  <2>3. AccountsTypeOK'
    <3>1. CreateAccount(req[t].number, account)
      BY <1>10 DEF OpenAccount
    <3> HIDE DEF account
    <3>2. QED
      BY <1>0, <2>1, <2>2, <3>1, ConsumerFields, CreateAccountType
  <2>4. ThreadsTypeOK' /\ ThreadsSound'
    BY <1>1, <1>4, <1>10, <2>1 DEF OpenAccount, ConsumerSteps
  <2>5. QED
    BY <1>0, <1>10, <2>3, <2>4, StoreFrame DEF OpenAccount, StoreTypeOK
<1>11. CASE CreateConsumer(t)
  <2>1. /\ req[t] \in RegistrationRequest /\ req[t].number # None
        /\ req[t].kind = "consumer"
    BY <1>3, <1>11 DEF CreateConsumer, ConsumerSteps
  <2>2. /\ ConsumerUser(t, RequestedUsername(req[t])) \in User
        /\ ConsumerClaims(t, RequestedUsername(req[t])) \in Claims
    BY <2>1, ConsumerFields, ConsumerRecords
  <2>3. UsersTypeOK'
    BY <1>0, <1>11, <2>1, <2>2, ConsumerFields, CreateUserType DEF CreateConsumer
  <2>4. ThreadsTypeOK' /\ ThreadsSound'
    BY <1>1, <1>4, <1>11, <2>1, <2>2, GrantType DEF CreateConsumer, ConsumerSteps
  <2>5. QED
    BY <1>0, <1>11, <2>3, <2>4, StoreFrame DEF CreateConsumer, StoreTypeOK
<1>12. CASE CreateConsumerByNumber(t)
  <2>1. /\ req[t] \in RegistrationRequest /\ req[t].number # None
        /\ req[t].kind = "consumer"
    BY <1>3, <1>12 DEF CreateConsumerByNumber, ConsumerSteps
  <2>2. ConsumerUser(t, req[t].number) \in User /\ ConsumerClaims(t, req[t].number) \in Claims
    BY <2>1, ConsumerFields, ConsumerRecords
  <2>3. UsersTypeOK'
    BY <1>0, <1>12, <2>1, <2>2, ConsumerFields, CreateUserType DEF CreateConsumerByNumber
  <2>4. ThreadsTypeOK' /\ ThreadsSound'
    BY <1>12, <2>2, GrantType DEF CreateConsumerByNumber
  <2>5. QED
    BY <1>0, <1>12, <2>3, <2>4, StoreFrame DEF CreateConsumerByNumber, StoreTypeOK
<1>13. CASE CheckEmployeeUsername(t)
  <2>0. req[t] \in RegistrationRequest /\ req[t].kind = "employee"
    BY <1>3, <1>13 DEF CheckEmployeeUsername, EmployeeSteps
  <2>1. /\ "createEmployee" \in Steps
        /\ StepSound("createEmployee", req[t], local[t])
    BY <2>0, AllSteps
    DEF StepSound, TransferSteps, ComplaintSteps, TriageSteps,
        ModerationSteps,
        ConsumerSteps, EmployeeSteps, LoginSteps, ProfileSteps
  <2>2. QED
    BY <1>1, <1>13, <2>1, ContinueType, ReplyType, StoreFrame
    DEF CheckEmployeeUsername, NoTx
<1>14. CASE CreateEmployee(t)
  <2>1. req[t] \in RegistrationRequest
    BY <1>3, <1>14 DEF CreateEmployee, EmployeeSteps
  <2> DEFINE claims(id) == [user |-> id, username |-> EmployeeUser(t).username,
                            account |-> Empty]
  <2>2. PICK id \in EmployeeIds :
            CreateUser(id, EmployeeUser(t)) /\ Grant(t, 201, claims(id))
    BY <1>14 DEF CreateEmployee
  <2>3. UsersTypeOK'
    BY <1>0, <2>1, <2>2, EmployeeRecords, RegistrationAssumption, CreateUserType
  <2>4. ThreadsTypeOK' /\ ThreadsSound'
    <3>1. claims(id) \in Claims
      BY <2>1, EmployeeRecords
    <3> HIDE DEF claims
    <3>2. QED
      BY <2>2, <3>1, GrantType
  <2>5. QED
    BY <1>0, <1>14, <2>3, <2>4, StoreFrame DEF CreateEmployee, StoreTypeOK
<1>15. QED
  BY <1>5, <1>6, <1>7, <1>8, <1>9, <1>10, <1>11, <1>12, <1>13, <1>14
  DEF RegistrationStep

-----------------------------------------------------------------------------
(* Logins.                                                                 *)

LEMMA UserSnapshotOK ==
    ASSUME UsersTypeOK, NEW u \in DOMAIN users
    PROVE  UserSnapshot(u) \in UserSnapshotType
BY DEF UsersTypeOK, IsMap, UserSnapshot, UserSnapshotType

LEMMA LoginContinue ==
    ASSUME TypeInv, NEW t \in Threads, req[t] \in LoginRequest, NEW step \in LoginSteps,
           NEW l \in LocalType, step \in {"holderOfAccount", "accountOfUser"} => Known(l),
           Continue(t, step, l)
    PROVE  ThreadsTypeOK' /\ ThreadsSound'
<1>1. step \in Steps /\ StepSound(step, req[t], l)
  BY AllSteps DEF StepSound, TransferSteps, ComplaintSteps, TriageSteps, ModerationSteps,
        ConsumerSteps, EmployeeSteps, LoginSteps, ProfileSteps
<1>2. QED
  BY <1>1, ContinueType DEF TypeInv

LEMMA AuthenticateType ==
    ASSUME TypeInv, NEW t \in Threads, req[t] \in LoginRequest,
           NEW s \in UserSnapshotType, Authenticate(t, s)
    PROVE  ThreadsTypeOK' /\ ThreadsSound'
<1>1. local[t] \in LocalType
  BY DEF TypeInv, ThreadsTypeOK
<1>2. ClaimsOf(s) \in Claims
  BY DEF ClaimsOf, Claims, UserSnapshotType, User
<1>3. CASE Reply(t, 401, NoTx)
  BY <1>3, ReplyType DEF TypeInv, NoTx
<1>4. CASE Grant(t, 200, ClaimsOf(s))
  BY <1>2, <1>4, GrantType DEF TypeInv
<1>5. CASE Continue(t, "accountOfUser", [local[t] EXCEPT !.user = s])
  BY <1>1, <1>5, LocalUpdates, LoginContinue DEF LoginSteps
<1>6. QED
  BY <1>3, <1>4, <1>5 DEF Authenticate

LEMMA RecogniseType ==
    ASSUME TypeInv, NEW t \in Threads, req[t] \in LoginRequest,
           NEW s \in UserSnapshotType, Recognise(t, s)
    PROVE  ThreadsTypeOK' /\ ThreadsSound'
<1>1. local[t] \in LocalType
  BY DEF TypeInv, ThreadsTypeOK
<1>2. CASE Reply(t, 401, NoTx)
  BY <1>2, ReplyType DEF TypeInv, NoTx
<1>3. CASE Continue(t, "holderOfAccount", [local[t] EXCEPT !.user = s])
  BY <1>1, <1>3, LocalUpdates, LoginContinue DEF LoginSteps
<1>4. CASE Authenticate(t, s)
  BY <1>4, AuthenticateType
<1>5. QED
  BY <1>2, <1>3, <1>4 DEF Recognise

(* A login writes no table.                                                *)
LEMMA LoginReads ==
    ASSUME NEW t \in Threads, LoginStep(t) \/ ProfileStep(t)
    PROVE  UNCHANGED storeVars
BY DEF LoginStep, ProfileStep, RefuseLogin, FindUserOfNumber, FindUserNamedNumber,
       FindUserNamed, CheckHolder, FindUserOfName, FindUserOfNameAsAccount,
       SearchUsersByName, AnswerLogin, GetMe, GetMyAccount

LEMMA LoginPreserves ==
    ASSUME TypeInv, NEW t \in Threads, LoginStep(t)
    PROVE  TypeInv'
<1>0. UsersTypeOK
  BY DEF TypeInv, StoreTypeOK
<1>1. /\ local[t] \in LocalType
      /\ StepSound(pc[t], req[t], local[t])
  BY DEF TypeInv, ThreadsTypeOK, ThreadsSound
<1>2. /\ pc[t] \in LoginSteps => req[t] \in LoginRequest
      /\ pc[t] \in {"holderOfAccount", "accountOfUser"} => Known(local[t])
  BY <1>1 DEF StepSound, LoginSteps
<1>3. \A u \in DOMAIN users : UserSnapshot(u) \in UserSnapshotType
  BY <1>0, UserSnapshotOK
<1>4. SUFFICES ThreadsTypeOK' /\ ThreadsSound'
  BY LoginReads, StoreFrame DEF TypeInv
<1>5. ASSUME NEW code \in {400, 401}, Reply(t, code, NoTx)
      PROVE  ThreadsTypeOK' /\ ThreadsSound'
  BY <1>5, ReplyType DEF TypeInv, NoTx
<1>6. \A n : /\ FindUserByAccountId(n) \subseteq DOMAIN users
             /\ FindUserByUsername(n) \subseteq DOMAIN users
  BY DEF FindUserByAccountId, FindUserByUsername
<1>7. CASE RefuseLogin(t)
  BY <1>5, <1>7 DEF RefuseLogin
<1>8. CASE FindUserOfNumber(t)
  BY <1>1, <1>2, <1>3, <1>6, <1>8, LoginContinue, RecogniseType
  DEF FindUserOfNumber, LoginSteps
<1>9. CASE FindUserNamedNumber(t)
  BY <1>1, <1>2, <1>3, <1>5, <1>6, <1>9, LoginContinue, RecogniseType
  DEF FindUserNamedNumber, LoginSteps
<1>10. CASE FindUserNamed(t)
  BY <1>2, <1>3, <1>5, <1>6, <1>10, RecogniseType DEF FindUserNamed, LoginSteps
<1>11. CASE CheckHolder(t)
  BY <1>2, <1>5, <1>11, AuthenticateType DEF CheckHolder, LoginSteps
<1>12. CASE FindUserOfName(t)
  BY <1>1, <1>2, <1>3, <1>6, <1>12, LoginContinue, AuthenticateType
  DEF FindUserOfName, LoginSteps
<1>13. CASE FindUserOfNameAsAccount(t)
  BY <1>1, <1>2, <1>3, <1>6, <1>13, LoginContinue, AuthenticateType
  DEF FindUserOfNameAsAccount, LoginSteps
<1>14. CASE SearchUsersByName(t)
  BY <1>2, <1>3, <1>5, <1>14, AuthenticateType DEF SearchUsersByName, LoginSteps
<1>15. CASE AnswerLogin(t)
  <2>1. ClaimsOf(local[t].user) \in Claims
    BY <1>2, <1>15 DEF AnswerLogin, ClaimsOf, Claims, UserSnapshotType, User
  <2>2. QED
    BY <1>15, <2>1, GrantType DEF AnswerLogin, TypeInv
<1>16. QED
  BY <1>7, <1>8, <1>9, <1>10, <1>11, <1>12, <1>13, <1>14, <1>15 DEF LoginStep

LEMMA ProfilePreserves ==
    ASSUME TypeInv, NEW t \in Threads, ProfileStep(t)
    PROVE  TypeInv'
<1>1. PICK code \in {200, 404} : Reply(t, code, NoTx)
  BY DEF ProfileStep, GetMe, GetMyAccount
<1>2. ThreadsTypeOK' /\ ThreadsSound'
  BY <1>1, ReplyType DEF TypeInv, NoTx
<1>3. QED
  BY <1>2, LoginReads, StoreFrame DEF TypeInv

-----------------------------------------------------------------------------
(* The type invariant of the composed system.                              *)

LEMMA InitTypeInv == Init => TypeInv
<1> SUFFICES ASSUME Init
             PROVE  TypeInv
  OBVIOUS
<1>1. ThreadsTypeOK /\ ThreadsSound
  BY AllSteps, StopSound, BlankType DEF Init, WorkersInit, ThreadsTypeOK, ThreadsSound
<1>2. AccountsTypeOK
  <2> DEFINE Upis == {SeedAccounts[a].upi : a \in DOMAIN SeedAccounts}
  <2>1. IsMap(accounts, Names, Account)
    BY StoreAssumption DEF Init, StoreInit, IsMap
  <2>2. Upis \subseteq Names
    BY StoreAssumption DEF Account
  <2>3. \A u \in Upis :
            (CHOOSE a \in DOMAIN SeedAccounts : SeedAccounts[a].upi = u) \in Names
    BY StoreAssumption
  <2>4. IsMap(upiIndex, Names, Names)
    BY <2>2, <2>3 DEF Init, StoreInit, IsMap
  <2>5. QED
    BY <2>1, <2>4 DEF AccountsTypeOK
<1>3. LedgerTypeOK
  BY DEF Init, StoreInit, LedgerTypeOK, IsMap
<1>4. ComplaintsTypeOK
  BY DEF Init, StoreInit, ComplaintsTypeOK, IsMap
<1>5. UsersTypeOK
  <2> DEFINE Usernames == {SeedUsers[u].username : u \in DOMAIN SeedUsers}
  <2>1. IsMap(users, Names, User)
    BY StoreAssumption DEF Init, StoreInit, IsMap
  <2>2. Usernames \subseteq Names
    BY StoreAssumption DEF User
  <2>3. \A n \in Usernames :
            (CHOOSE u \in DOMAIN SeedUsers : SeedUsers[u].username = n) \in Names
    BY StoreAssumption
  <2>4. IsMap(userIndex, Names, Names)
    BY <2>2, <2>3 DEF Init, StoreInit, IsMap
  <2>5. QED
    BY <2>1, <2>4 DEF UsersTypeOK
<1>6. QED
  BY <1>1, <1>2, <1>3, <1>4, <1>5 DEF TypeInv, StoreTypeOK

LEMMA StepTypeInv == TypeInv /\ [Next]_vars => TypeInv'
<1> SUFFICES ASSUME TypeInv, [Next]_vars
             PROVE  TypeInv'
  OBVIOUS
<1>1. CASE UNCHANGED vars
  <2>1. StoreTypeOK'
    BY <1>1, StoreFrame DEF vars, TypeInv
  <2>2. ThreadsTypeOK' /\ ThreadsSound'
    BY <1>1 DEF vars, threadVars, TypeInv, ThreadsTypeOK, ThreadsSound
  <2>3. QED
    BY <2>1, <2>2 DEF TypeInv
<1>2. ASSUME NEW t \in Threads, NEW r \in Requests, Accept(t, r), UNCHANGED storeVars
      PROVE  TypeInv'
  BY <1>2, AcceptType, StoreFrame DEF TypeInv
<1>3. ASSUME NEW t \in Threads, Serve(t)
      PROVE  TypeInv'
  BY <1>3, TransferPreserves, ComplaintPreserves, TriagePreserves, ModerationPreserves,
     RegistrationPreserves, LoginPreserves, ProfilePreserves DEF Serve
<1>4. QED
  BY <1>1, <1>2, <1>3 DEF Next

LEMMA TypeInvHolds == Spec => []TypeInv
BY InitTypeInv, StepTypeInv, PTL DEF Spec

(* Every table and every local of a handler holds a value of its type: a   *)
(* handler never uses an account it has not found.                         *)
THEOREM TypeCorrect == Spec => []TypeOK
<1>1. TypeInv => TypeOK
  BY DEF TypeInv, TypeOK, ThreadsTypeOK
<1>2. QED
  BY <1>1, TypeInvHolds, PTL
=============================================================================
