---------------------------- MODULE LedgerProofs ----------------------------
(***************************************************************************)
(* Payments, for any set of threads, names and requests: each belongs to   *)
(* the one request that was answered with it, the histories list it, the   *)
(* balances add up to it, and the store keeps the books of module Ledger.  *)
(***************************************************************************)
EXTENDS SafetyProofs, SequenceTheorems, WellFoundedInduction

-----------------------------------------------------------------------------
(* The payments that were answered.                                        *)

PaySteps == {"countComplaints", "readHistory", "execute"}

(* A thread about to pay has found the sender under the name it was given. *)
PayerNamed(t) == pc[t] \in PaySteps => Fold[local[t].payer.id] = Fold[req[t].sender]

Paid(t) == pc[t] = "done" /\ req[t].kind = "transfer" /\ answer[t].code = 201

(* Thread t was answered with a payment, and it is the one it asked for.   *)
AnsweredRight(t) ==
    LET tx == transactions[answer[t].tx]
    IN  /\ answer[t].tx \in DOMAIN transactions
        /\ tx.amount = req[t].amount
        /\ tx.receiver = answer[t].about
        /\ Fold[tx.sender] = Fold[req[t].sender]

AnsweredInv ==
    /\ \A t \in Threads : PayerNamed(t)
    /\ \A t \in Threads : Paid(t) => AnsweredRight(t)
    /\ \A t, u \in Threads : Paid(t) /\ Paid(u) /\ answer[t].tx = answer[u].tx => t = u
    /\ \A i \in DOMAIN transactions : \E t \in Threads : Paid(t) /\ answer[t].tx = i

LEMMA ContinueTo ==
    ASSUME ThreadsTypeOK, NEW t \in Threads, NEW next, NEW locals, Continue(t, next, locals)
    PROVE  pc'[t] = next
BY DEF ThreadsTypeOK, Continue

(* A thread at work on something else has no transfer to answer.           *)
LEMMA OthersServe ==
    ASSUME ThreadsTypeOK, ThreadsSound, NEW t \in Threads, Serve(t), ~TransferStep(t)
    PROVE  /\ pc[t] \notin {"idle", "done"} /\ pc'[t] \notin TransferSteps
           /\ req'[t] = req[t] /\ req[t].kind # "transfer"
<1>0. StepSound(pc[t], req[t], local[t])
  BY DEF ThreadsSound
<1>1. CASE ComplaintStep(t)
  <2>1. pc[t] \in ComplaintSteps /\ req'[t] = req[t]
    BY <1>1, FilingMoves
  <2>2. pc'[t] \notin TransferSteps
    <3>1. AfterSuspect(t) \notin TransferSteps
      BY DEF AfterSuspect, TransferSteps
    <3>2. CASE RefuseComplaint(t) \/ FindSuspectByUpi(t) \/ FindSuspectById(t)
      <4>1. CASE RefuseComplaint(t)
        BY <4>1 DEF RefuseComplaint, Reply, Respond, TransferSteps, ThreadsTypeOK
      <4>2. CASE FindSuspectByUpi(t)
        <5>1. pc'[t] \in {"suspectById", AfterSuspect(t)}
          BY <4>2, ContinueTo DEF FindSuspectByUpi
        <5>2. QED
          BY <3>1, <5>1 DEF TransferSteps
      <4>3. CASE FindSuspectById(t)
        <5>1. pc'[t] \in {"provision", AfterSuspect(t)}
          BY <4>3, ContinueTo DEF FindSuspectById
        <5>2. QED
          BY <3>1, <5>1 DEF TransferSteps
      <4>4. QED
        BY <3>2, <4>1, <4>2, <4>3
    <3>3. CASE ProvisionSuspect(t) \/ CheckOwnership(t)
      <4>1. CASE ProvisionSuspect(t)
        <5>1. pc'[t] = AfterSuspect(t)
          BY <4>1, ContinueTo DEF ProvisionSuspect
        <5>2. QED
          BY <3>1, <5>1
      <4>2. CASE CheckOwnership(t)
        BY <4>2 DEF CheckOwnership, Continue, Reply, Respond, TransferSteps, ThreadsTypeOK
      <4>3. QED
        BY <3>3, <4>1, <4>2
    <3>4. CASE RecordComplaint(t) \/ CountSuspectComplaints(t) \/ TaintSuspect(t)
      BY <3>4 DEF RecordComplaint, CountSuspectComplaints, TaintSuspect, Continue, Reply,
                  Respond, TransferSteps, ThreadsTypeOK
    <3>5. QED
      BY <1>1, <3>2, <3>3, <3>4 DEF ComplaintStep
  <2>3. req[t].kind # "transfer" /\ pc[t] \notin {"idle", "done"}
    BY <1>0, <2>1 DEF StepSound, ComplaintRequest, ComplaintSteps
  <2>4. QED
    BY <2>1, <2>2, <2>3
<1>2. CASE TriageStep(t)
  <2>1. pc[t] \in TriageSteps /\ req'[t] = req[t] /\ pc'[t] \notin TransferSteps
    BY <1>2 DEF TriageStep, FindComplaint, SetComplaintStatus,
                Continue, Reply, Respond, TransferSteps, TriageSteps, ThreadsTypeOK
  <2>2. QED
    BY <1>0, <2>1 DEF StepSound, TriageRequest, TriageSteps
<1>3. CASE ModerationStep(t)
  <2>1. pc[t] \in ModerationSteps /\ req'[t] = req[t] /\ pc'[t] \notin TransferSteps
    BY <1>3 DEF ModerationStep, FindAccountToModerate, FindHandleToModerate, SetAccountStatus,
                Continue, Reply, Respond, TransferSteps, ModerationSteps, ThreadsTypeOK
  <2>2. QED
    BY <1>0, <2>1 DEF StepSound, ModerationRequest, ModerationSteps
<1>4. CASE RegistrationStep(t)
  <2>1. /\ pc[t] \in ConsumerSteps \cup EmployeeSteps /\ req'[t] = req[t]
        /\ pc'[t] \notin TransferSteps
    BY <1>4 DEF RegistrationStep, RefuseRegistration, CheckAccountUser,
                CheckNumberAsUsername, FindAccountToClaim, DeriveHandle, OpenAccount,
                CreateConsumer, CreateConsumerByNumber, CheckEmployeeUsername, CreateEmployee,
                Continue, Grant, Reply, Respond, TransferSteps, ConsumerSteps, EmployeeSteps,
                ThreadsTypeOK
  <2>2. QED
    BY <1>0, <2>1 DEF StepSound, RegistrationRequest, ConsumerSteps, EmployeeSteps
<1>5. CASE LoginStep(t)
  <2>1. pc[t] \in LoginSteps
    BY <1>5 DEF LoginStep, RefuseLogin, FindUserOfNumber, FindUserNamedNumber, FindUserNamed,
                CheckHolder, FindUserOfName, FindUserOfNameAsAccount, SearchUsersByName,
                AnswerLogin, LoginSteps
  <2>2. \/ \E step \in LoginSteps : \E locals : Continue(t, step, locals)
        \/ \E code : Reply(t, code, NoTx)
        \/ \E claims : Grant(t, 200, claims)
    BY <1>5, LoginMoves
  <2>3. req'[t] = req[t] /\ pc'[t] \notin TransferSteps
    BY <2>2 DEF Continue, Grant, Reply, Respond, LoginSteps, TransferSteps, ThreadsTypeOK
  <2>4. QED
    BY <1>0, <2>1, <2>3 DEF StepSound, LoginRequest, LoginSteps
<1>6. CASE ProfileStep(t)
  <2>1. pc[t] \in ProfileSteps /\ req'[t] = req[t] /\ pc'[t] \notin TransferSteps
    BY <1>6 DEF ProfileStep, GetMe, GetMyAccount, Reply, Respond, TransferSteps, ProfileSteps,
                ThreadsTypeOK
  <2>2. QED
    BY <1>0, <2>1 DEF StepSound, ProfileRequest, ProfileSteps
<1>7. QED
  BY <1>1, <1>2, <1>3, <1>4, <1>5, <1>6 DEF Serve

(* A transfer keeps its sender from where it looked it up to where it      *)
(* pays, and is answered 201 by no other step.                             *)
LEMMA TransferMoves ==
    ASSUME ThreadsTypeOK, NEW t \in Threads, TransferStep(t)
    PROVE  /\ pc[t] \in TransferSteps /\ req'[t] = req[t]
           /\ pc'[t] \in PaySteps =>
                \/ pc[t] \in PaySteps /\ local'[t].payer = local[t].payer
                \/ local'[t].payer.id \in FindAccountById(req[t].sender)
           /\ ExecuteTransfer(t) \/ ~Paid(t)'
<1>0. local[t] \in LocalType
  BY DEF ThreadsTypeOK
<1>1. CASE RefuseTransfer(t) \/ ResolveReceiver(t)
  BY <1>1 DEF RefuseTransfer, ResolveReceiver, Continue, Reply, Respond, TransferSteps,
              PaySteps, Paid, ThreadsTypeOK
<1>2. CASE ResolveSender(t)
  <2>1. \/ \E code \in {400, 404} : Reply(t, code, NoTx)
        \/ \E a \in FindAccountById(req[t].sender) :
                Continue(t, "countComplaints", [local[t] EXCEPT !.payer = Snapshot(a)])
    BY <1>2 DEF ResolveSender
  <2>2. CASE \E code \in {400, 404} : Reply(t, code, NoTx)
    BY <1>2, <2>2 DEF ResolveSender, Reply, Respond, TransferSteps, PaySteps, Paid, ThreadsTypeOK
  <2>3. ASSUME NEW a \in FindAccountById(req[t].sender),
               Continue(t, "countComplaints", [local[t] EXCEPT !.payer = Snapshot(a)])
        PROVE  local'[t].payer.id = a
    BY <1>0, <2>3 DEF Continue, Snapshot, LocalType, ThreadsTypeOK
  <2>4. QED
    BY <1>2, <2>1, <2>2, <2>3
    DEF ResolveSender, Continue, TransferSteps, PaySteps, Paid, ThreadsTypeOK
<1>3. CASE CountReceiverComplaints(t) \/ ReadReceiverHistory(t)
  BY <1>0, <1>3 DEF CountReceiverComplaints, ReadReceiverHistory, Continue, TransferSteps,
                    PaySteps, Paid, LocalType, ThreadsTypeOK
<1>4. CASE ExecuteTransfer(t)
  BY <1>4 DEF ExecuteTransfer, Reply, Respond, TransferSteps, PaySteps, ThreadsTypeOK
<1>5. QED
  BY <1>1, <1>2, <1>3, <1>4 DEF TransferStep

LEMMA StepPayer ==
    ASSUME TypeInv, [Next]_vars, NEW u \in Threads, PayerNamed(u)
    PROVE  PayerNamed(u)'
<1>0. ThreadsTypeOK /\ ThreadsSound
  BY DEF TypeInv
<1>1. CASE UNCHANGED vars
  BY <1>0, <1>1 DEF vars, threadVars, PayerNamed
<1>2. ASSUME NEW t \in Threads, t # u, Serve(t) \/ \E r \in Requests : Accept(t, r)
      PROVE  PayerNamed(u)'
  BY <1>0, <1>2, OneThreadMoves DEF PayerNamed
<1>3. ASSUME NEW r \in Requests, Accept(u, r)
      PROVE  PayerNamed(u)'
  <2>1. pc'[u] = FirstStep[r.kind]
    BY <1>0, <1>3 DEF Accept, ThreadsTypeOK
  <2>2. pc'[u] \notin PaySteps
    BY <2>1, WorkersAssumption
    DEF FirstStep, PaySteps, RequestTypes, TransferRequest, ComplaintRequest, TriageRequest,
        ModerationRequest, RegistrationRequest, LoginRequest, ProfileRequest
  <2>3. QED
    BY <2>2 DEF PayerNamed
<1>4. CASE Serve(u) /\ ~TransferStep(u)
  BY <1>0, <1>4, OthersServe DEF PayerNamed, TransferSteps, PaySteps
<1>5. CASE TransferStep(u)
  <2>1. \A a \in FindAccountById(req[u].sender) : Fold[a] = Fold[req[u].sender]
    BY DEF FindAccountById
  <2>2. QED
    BY <1>0, <1>5, <2>1, TransferMoves DEF PayerNamed
<1>6. QED
  BY <1>1, <1>2, <1>3, <1>4, <1>5 DEF Next

(* Steps that record no payment answer none.                               *)
LEMMA NothingPaid ==
    ASSUME TypeInv, [Next]_vars, NEW u \in Threads, Paid(u)',
           ~ExecuteTransfer(u)
    PROVE  Paid(u) /\ req'[u] = req[u] /\ answer'[u] = answer[u]
<1>0. ThreadsTypeOK /\ ThreadsSound
  BY DEF TypeInv
<1>1. CASE UNCHANGED vars
  BY <1>1 DEF vars, threadVars, Paid
<1>2. ASSUME NEW t \in Threads, t # u, Serve(t) \/ \E r \in Requests : Accept(t, r)
      PROVE  Paid(u) /\ req'[u] = req[u] /\ answer'[u] = answer[u]
  BY <1>0, <1>2, OneThreadMoves DEF Paid
<1>3. ASSUME NEW r \in Requests, Accept(u, r)
      PROVE  FALSE
  <2>1. pc'[u] = FirstStep[r.kind]
    BY <1>0, <1>3 DEF Accept, ThreadsTypeOK
  <2>2. pc'[u] # "done"
    BY <2>1, WorkersAssumption
    DEF FirstStep, RequestTypes, TransferRequest, ComplaintRequest, TriageRequest,
        ModerationRequest, RegistrationRequest, LoginRequest, ProfileRequest
  <2>3. QED
    BY <2>2 DEF Paid
<1>4. CASE Serve(u) /\ ~TransferStep(u)
  BY <1>0, <1>4, OthersServe DEF Paid
<1>5. CASE TransferStep(u)
  BY <1>0, <1>5, TransferMoves
<1>6. QED
  BY <1>1, <1>2, <1>3, <1>4, <1>5 DEF Next

(* And what has been answered stays so.                                    *)
LEMMA PaidStays ==
    ASSUME TypeInv, [Next]_vars, NEW u \in Threads, Paid(u)
    PROVE  Paid(u)' /\ req'[u] = req[u] /\ answer'[u] = answer[u]
<1>0. ThreadsTypeOK /\ ThreadsSound
  BY DEF TypeInv
<1>1. CASE UNCHANGED vars
  BY <1>1 DEF vars, threadVars, Paid
<1>2. ASSUME NEW t \in Threads, t # u, Serve(t) \/ \E r \in Requests : Accept(t, r)
      PROVE  Paid(u)' /\ req'[u] = req[u] /\ answer'[u] = answer[u]
  BY <1>0, <1>2, OneThreadMoves DEF Paid
<1>3. ~\E r \in Requests : Accept(u, r)
  BY DEF Accept, Paid
<1>4. ~Serve(u)
  BY <1>0, OthersServe, TransferMoves DEF Paid, TransferSteps
<1>5. QED
  BY <1>1, <1>2, <1>3, <1>4 DEF Next

(* A transfer that was refused is not one that was paid.                   *)
LEMMA RefusedIsNotPaid ==
    ASSUME TypeInv, NEW t \in Threads, ExecuteTransfer(t), UNCHANGED ledgerVars
    PROVE  ~Paid(t)'
<1>1. ~ExecuteAtomicTransfer(local[t].payer.id, local[t].peer.id, req[t].amount, Evaluate(t))
  <2> DEFINE payment == [sender |-> local[t].payer.id, receiver |-> local[t].peer.id,
                         amount |-> req[t].amount, status |-> Evaluate(t).status]
  <2>1. transactions \in Seq(Transaction)
    BY DEF TypeInv, StoreTypeOK, LedgerTypeOK
  <2> HIDE DEF payment
  <2>2. transactions # Append(transactions, payment)
    <3>1. Len(Append(transactions, payment)) = Len(transactions) + 1 /\ Len(transactions) \in Nat
      BY <2>1
    <3>2. QED
      BY <3>1
  <2>3. QED
    BY <2>2 DEF ExecuteAtomicTransfer, ledgerVars, payment
<1>2. Reply(t, 400, NoTx)
  BY <1>1 DEF ExecuteTransfer
<1>3. QED
  BY <1>2 DEF Reply, Respond, Paid, TypeInv, ThreadsTypeOK

(* Only the step that pays writes the ledger.                              *)
LEMMA PayersOnly ==
    ASSUME [Next]_vars
    PROVE  UNCHANGED ledgerVars \/ \E t \in Threads : ExecuteTransfer(t)
<1>1. UNCHANGED storeVars => UNCHANGED ledgerVars
  BY DEF storeVars
<1>2. ASSUME NEW t \in Threads, Serve(t), ~ExecuteTransfer(t)
      PROVE  UNCHANGED ledgerVars
  BY <1>2, Writers
  DEF storeVars, ProvisionSuspect, RecordComplaint, TaintSuspect, SetComplaintStatus,
      SetAccountStatus, OpenAccount, CreateConsumer, CreateConsumerByNumber, CreateEmployee
<1>3. QED
  BY <1>1, <1>2, Steppers

(* The step that pays: one payment is added, and answered to thread t.     *)
LEMMA PayingStep ==
    ASSUME TypeInv, AnsweredInv, NEW t \in Threads, ExecuteTransfer(t), ~UNCHANGED ledgerVars
    PROVE  LET id == Len(transactions) + 1
           IN  /\ DOMAIN transactions' = DOMAIN transactions \cup {id}
               /\ id \notin DOMAIN transactions
               /\ \A i \in DOMAIN transactions : transactions'[i] = transactions[i]
               /\ answer'[t].tx = id /\ AnsweredRight(t)' /\ ~Paid(t) /\ Paid(t)'
<1> DEFINE id == Len(transactions) + 1
           payment == [sender |-> local[t].payer.id, receiver |-> local[t].peer.id,
                       amount |-> req[t].amount, status |-> Evaluate(t).status]
<1>1. /\ transactions' = Append(transactions, payment)
      /\ Reply(t, 201, id)
      /\ pc[t] = "execute"
  BY DEF ExecuteTransfer, ExecuteAtomicTransfer
<1>2. transactions \in Seq(Transaction)
  BY DEF TypeInv, StoreTypeOK, LedgerTypeOK
<1>3. /\ payment.sender = local[t].payer.id /\ payment.receiver = local[t].peer.id
      /\ payment.amount = req[t].amount
  OBVIOUS
<1> HIDE DEF payment
<1>4. /\ DOMAIN transactions' = DOMAIN transactions \cup {id}
      /\ id \notin DOMAIN transactions
      /\ transactions'[id] = payment
      /\ \A i \in DOMAIN transactions : transactions'[i] = transactions[i]
  BY <1>1, <1>2
<1> HIDE DEF id
<1>5. /\ ThreadsTypeOK
      /\ StepSound("execute", req[t], local[t])
      /\ Fold[local[t].payer.id] = Fold[req[t].sender]
  BY <1>1 DEF TypeInv, ThreadsSound, AnsweredInv, PayerNamed, PaySteps
<1>6. req[t].kind = "transfer" /\ local[t].peer # None
  <2>1. req[t] \in TransferRequest /\ local[t].peer \in SnapshotType
    BY <1>5 DEF StepSound, TransferSteps, Peer
  <2>2. local[t].peer # None
    BY <2>1, WorkersAssumption
  <2>3. QED
    BY <2>1, <2>2 DEF TransferRequest
<1>7. /\ pc'[t] = "done" /\ req'[t] = req[t]
      /\ answer'[t].code = 201 /\ answer'[t].tx = id /\ answer'[t].about = local[t].peer.id
  BY <1>1, <1>5, <1>6 DEF Reply, Respond, ThreadsTypeOK
<1>8. AnsweredRight(t)'
  BY <1>3, <1>4, <1>5, <1>7 DEF AnsweredRight
<1>9. Paid(t)' /\ ~Paid(t)
  BY <1>1, <1>6, <1>7 DEF Paid
<1>10. QED
  BY <1>4, <1>7, <1>8, <1>9 DEF id

LEMMA StepAnswered ==
    ASSUME TypeInv, AnsweredInv, [Next]_vars
    PROVE  AnsweredInv'
<1>1. \A u \in Threads : PayerNamed(u)'
  BY StepPayer DEF AnsweredInv
<1>2. CASE UNCHANGED ledgerVars
  <2>1. UNCHANGED transactions
    BY <1>2 DEF ledgerVars
  <2>2. ASSUME NEW u \in Threads, Paid(u)'
        PROVE  Paid(u) /\ req'[u] = req[u] /\ answer'[u] = answer[u]
    <3>1. CASE ~ExecuteTransfer(u)
      BY <2>2, <3>1, NothingPaid
    <3>2. CASE ExecuteTransfer(u)
      BY <1>2, <2>2, <3>2, RefusedIsNotPaid
    <3>3. QED
      BY <3>1, <3>2
  <2>3. QED
    BY <1>1, <2>1, <2>2, PaidStays DEF AnsweredInv, AnsweredRight
<1>3. ASSUME NEW t \in Threads, ExecuteTransfer(t), ~UNCHANGED ledgerVars
      PROVE  AnsweredInv'
  <2> DEFINE id == Len(transactions) + 1
  <2>1. /\ DOMAIN transactions' = DOMAIN transactions \cup {id}
        /\ id \notin DOMAIN transactions
        /\ \A i \in DOMAIN transactions : transactions'[i] = transactions[i]
        /\ answer'[t].tx = id /\ AnsweredRight(t)' /\ ~Paid(t) /\ Paid(t)'
    BY <1>3, PayingStep
  <2> HIDE DEF id
  <2>2. ASSUME NEW u \in Threads, u # t
        PROVE  Paid(u)' => Paid(u) /\ req'[u] = req[u] /\ answer'[u] = answer[u]
    <3>1. Serve(t)
      BY <1>3 DEF Serve, TransferStep
    <3>2. QED
      BY <2>2, <3>1, OneThreadMoves DEF TypeInv, Paid
  <2>3. ASSUME NEW u \in Threads, Paid(u)'
        PROVE  AnsweredRight(u)' /\ (u # t => answer'[u].tx \in DOMAIN transactions)
    BY <2>1, <2>2, <2>3 DEF AnsweredInv, AnsweredRight
  <2>4. ASSUME NEW u \in Threads, NEW v \in Threads, Paid(u)', Paid(v)',
               answer'[u].tx = answer'[v].tx
        PROVE  u = v
    BY <2>1, <2>2, <2>3, <2>4 DEF AnsweredInv
  <2>5. ASSUME NEW i \in DOMAIN transactions'
        PROVE  \E u \in Threads : Paid(u)' /\ answer'[u].tx = i
    BY <2>1, <2>5, PaidStays DEF AnsweredInv
  <2>6. QED
    BY <1>1, <2>3, <2>4, <2>5 DEF AnsweredInv
<1>4. QED
  BY <1>2, <1>3, PayersOnly

(* Every payment was answered to the one request that asked for it, and a  *)
(* request answered with a payment has made it.                            *)
THEOREM PaymentsAnsweredOnce == Spec => []TransferAnsweredOnce
<1>1. Init => AnsweredInv
  BY DEF Init, StoreInit, WorkersInit, AnsweredInv, PayerNamed, PaySteps, Paid
<1>2. AnsweredInv => TransferAnsweredOnce
  <2> SUFFICES ASSUME AnsweredInv
               PROVE  TransferAnsweredOnce
    OBVIOUS
  <2> DEFINE paid == {t \in Done : req[t].kind = "transfer" /\ answer[t].code = 201}
  <2>1. \A t : t \in paid <=> t \in Threads /\ Paid(t)
    BY DEF Done, Paid
  <2> HIDE DEF paid
  <2>2. {answer[t].tx : t \in paid} = DOMAIN transactions
    BY <2>1 DEF AnsweredInv, AnsweredRight
  <2>3. \A t, u \in paid : answer[t].tx = answer[u].tx => t = u
    BY <2>1 DEF AnsweredInv
  <2>4. \A t \in paid : AnsweredRight(t)
    BY <2>1 DEF AnsweredInv
  <2>5. QED
    BY <2>2, <2>3, <2>4 DEF TransferAnsweredOnce, AnsweredRight, paid
<1>3. QED
  BY <1>1, <1>2, StepAnswered, TypeInvHolds, PTL DEF Spec

-----------------------------------------------------------------------------
(* The history of an account.                                              *)

(* A payment that is recorded is there for good.                           *)
LEMMA LedgerGrows ==
    ASSUME TypeInv, [Next]_vars
    PROVE  /\ DOMAIN transactions \subseteq DOMAIN transactions'
           /\ \A i \in DOMAIN transactions : transactions'[i] = transactions[i]
<1>1. UNCHANGED ledgerVars => transactions' = transactions
  BY DEF ledgerVars
<1>2. LedgerTypeOK
  BY DEF TypeInv, StoreTypeOK
<1>3. QED
  BY <1>1, <1>2, LedgerWrites, PaymentRecorded

LEMMA AppendParts ==
    ASSUME NEW S, NEW q \in Seq(S), NEW e \in S
    PROVE  /\ Append(q, e) \in Seq(S)
           /\ \A k \in DOMAIN Append(q, e) :
                Append(q, e)[k] = e \/ (k \in DOMAIN q /\ Append(q, e)[k] = q[k])
<1> DEFINE longer == Append(q, e)
<1>1. /\ Len(q) \in Nat /\ DOMAIN q = 1..Len(q)
      /\ longer \in Seq(S) /\ Len(longer) = Len(q) + 1
      /\ longer[Len(q) + 1] = e
      /\ \A k \in 1..Len(q) : longer[k] = q[k]
  OBVIOUS
<1> HIDE DEF longer
<1>2. DOMAIN longer = 1..(Len(q) + 1)
  BY <1>1
<1>3. ASSUME NEW k \in DOMAIN longer
      PROVE  longer[k] = e \/ (k \in DOMAIN q /\ longer[k] = q[k])
  <2>1. k = Len(q) + 1 \/ k \in 1..Len(q)
    BY <1>1, <1>2
  <2>2. QED
    BY <1>1, <2>1
<1>4. QED
  BY <1>1, <1>3 DEF longer

(* Numbers that grow, and end below the next: so do they with it.          *)
Rising(q) == \A j, k \in DOMAIN q : j < k => q[j] < q[k]

LEMMA AppendRises ==
    ASSUME NEW q \in Seq(Nat), NEW e \in Nat, Rising(q), \A i \in ToSet(q) : i < e
    PROVE  /\ ToSet(Append(q, e)) = ToSet(q) \cup {e}
           /\ Rising(Append(q, e))
<1> DEFINE longer == Append(q, e)
<1>1. /\ Len(q) \in Nat /\ DOMAIN q = 1..Len(q)
      /\ longer[Len(q) + 1] = e
      /\ \A k \in DOMAIN q : longer[k] = q[k]
      /\ DOMAIN longer = DOMAIN q \cup {Len(q) + 1}
  OBVIOUS
<1> HIDE DEF longer
<1>2. ToSet(longer) = ToSet(q) \cup {e}
  <2>1. Len(q) + 1 \notin DOMAIN q
    BY <1>1
  <2>2. QED
    BY <1>1, <2>1 DEF ToSet
<1>3. ASSUME NEW j \in DOMAIN longer, NEW k \in DOMAIN longer, j < k
      PROVE  longer[j] < longer[k]
  <2>1. j \in DOMAIN q
    BY <1>1, <1>3
  <2>2. longer[j] = q[j] /\ q[j] < e
    BY <1>1, <2>1 DEF ToSet
  <2>3. CASE k \in DOMAIN q
    BY <1>1, <1>3, <2>1, <2>2, <2>3 DEF Rising
  <2>4. CASE k = Len(q) + 1
    BY <1>1, <2>2, <2>4
  <2>5. QED
    BY <1>1, <2>3, <2>4
<1>4. QED
  BY <1>2, <1>3 DEF Rising, longer

Parties(n) ==
    {i \in DOMAIN transactions : n \in {transactions[i].sender, transactions[i].receiver}}

LEMMA StepIndex ==
    ASSUME TypeInv, IndexExact, [Next]_vars
    PROVE  IndexExact'
<1>0. LedgerTypeOK /\ txIndex \in [Names -> Seq(Nat)]
  BY DEF TypeInv, StoreTypeOK, LedgerTypeOK
<1>1. CASE UNCHANGED ledgerVars
  BY <1>1 DEF ledgerVars, IndexExact
<1>2. ASSUME NEW s \in Names, NEW r \in Names, NEW amount \in Nat, NEW score \in Int,
             Payment(s, r, amount, score)
      PROVE  IndexExact'
  <2> DEFINE id == Len(transactions) + 1
  <2>1. txIndex' = [txIndex EXCEPT ![s] = Append(@, id), ![r] = Append(@, id)] /\ s # r
    BY <1>2 DEF Payment, ExecuteAtomicTransfer, IndexedUnder, CanTransfer
  <2>2. /\ DOMAIN transactions = 1..Len(transactions) /\ id \in Nat
        /\ DOMAIN transactions' = DOMAIN transactions \cup {id}
        /\ id \notin DOMAIN transactions
        /\ \A i \in DOMAIN transactions : transactions'[i] = transactions[i]
        /\ transactions'[id].sender = s /\ transactions'[id].receiver = r
    BY <1>0, <1>2, PaymentRecorded
  <2>3. \A i \in DOMAIN transactions : i < id
    BY <1>0, <2>2 DEF LedgerTypeOK
  <2> HIDE DEF id
  <2>4. SUFFICES ASSUME NEW n \in Names
                 PROVE  ToSet(txIndex'[n]) = Parties(n)' /\ Rising(txIndex'[n])
    BY DEF IndexExact, Parties, Rising
  <2>5. /\ txIndex[n] \in Seq(Nat) /\ Rising(txIndex[n])
        /\ ToSet(txIndex[n]) = Parties(n)
    BY <1>0 DEF IndexExact, Parties, Rising
  <2>6. CASE n \in {s, r}
    <3>1. txIndex'[n] = Append(txIndex[n], id)
      BY <1>0, <2>1, <2>6
    <3>2. \A i \in ToSet(txIndex[n]) : i < id
      BY <2>3, <2>5 DEF Parties
    <3>3. Parties(n)' = Parties(n) \cup {id}
      BY <2>2, <2>6 DEF Parties
    <3>4. QED
      BY <2>2, <2>5, <3>1, <3>2, <3>3, AppendRises
  <2>7. CASE n \notin {s, r}
    <3>1. txIndex'[n] = txIndex[n]
      BY <1>0, <2>1, <2>7
    <3>2. Parties(n)' = Parties(n)
      BY <2>2, <2>7 DEF Parties
    <3>3. QED
      BY <2>5, <3>1, <3>2
  <2>8. QED
    BY <2>6, <2>7
<1>3. QED
  BY <1>1, <1>2, LedgerWrites

(* An account's history lists the payments it made or received, each once  *)
(* and in the order they were made.                                        *)
THEOREM HistoriesExact == Spec => []IndexExact
<1>1. Init => IndexExact
  BY DEF Init, StoreInit, IndexExact, ToSet
<1>2. QED
  BY <1>1, StepIndex, TypeInvHolds, PTL DEF Spec

-----------------------------------------------------------------------------
(* Sums of sequences.                                                      *)

(* What holds of 0, and of n + 1 if of n, holds of every number: the       *)
(* intervals 1..n are well ordered by inclusion.                           *)
LEMMA NatByOnes ==
    ASSUME NEW S, 0 \in S, \A n \in S \cap Nat : n + 1 \in S
    PROVE  Nat \subseteq S
<1> DEFINE Missing == {1..n : n \in Nat \ S}
<1>1. SUFFICES ASSUME Missing # {}
               PROVE  FALSE
  OBVIOUS
<1>2. Missing \subseteq FiniteSubsetsOf(Nat)
  <2>1. ASSUME NEW n \in Nat
        PROVE  1..n \subseteq Nat /\ IsFiniteSet(1..n)
    BY FS_Interval
  <2>2. QED
    BY <2>1 DEF FiniteSubsetsOf
<1>3. IsWellFoundedOn(StrictSubsetOrdering(Nat), FiniteSubsetsOf(Nat))
  BY FS_StrictSubsetOrderingWellFounded
<1>4. PICK X \in Missing : \A Y \in Missing : <<Y, X>> \notin StrictSubsetOrdering(Nat)
  <2> HIDE DEF Missing
  <2>1. QED
    BY <1>1, <1>2, <1>3, WFMin
<1>5. PICK n \in Nat \ S : X = 1..n
  BY <1>4
<1>6. n - 1 \in Nat /\ n - 1 \notin S
  <2>1. n # 0
    BY <1>5
  <2>2. n - 1 \in Nat /\ (n - 1) + 1 = n
    BY <2>1
  <2>3. QED
    BY <1>5, <2>2
<1>7. 1..(n - 1) \subseteq 1..n /\ n \in 1..n /\ n \notin 1..(n - 1)
  BY <1>5, <1>6
<1>8. 1..(n - 1) \in Missing
  BY <1>6
<1>9. <<1..(n - 1), 1..n>> \in StrictSubsetOrdering(Nat)
  <2>1. 1..n \subseteq Nat
    BY <1>5
  <2>2. QED
    BY <1>7, <2>1 DEF StrictSubsetOrdering
<1>10. QED
  BY <1>4, <1>5, <1>8, <1>9

(* The equations that define the sums up to each place of d.               *)
IsTotals(d, f) ==
    f = [n \in 0..Len(d) |-> IF n = 0 THEN 0 ELSE f[n - 1] + d[n]]

LEMMA TotalsExist ==
    ASSUME NEW d \in Seq(Int)
    PROVE  \E f : IsTotals(d, f) /\ f \in [0..Len(d) -> Int]
<1> DEFINE Upto(m, f) == f = [n \in 0..m |-> IF n = 0 THEN 0 ELSE f[n - 1] + d[n]]
           S == {m \in Nat : m <= Len(d) => \E f \in [0..m -> Int] : Upto(m, f)}
<1>1. 0 \in S
  <2>1. [n \in 0..0 |-> 0] \in [0..0 -> Int] /\ Upto(0, [n \in 0..0 |-> 0])
    OBVIOUS
  <2>2. QED
    BY <2>1
<1>2. ASSUME NEW m \in Nat, m \in S
      PROVE  m + 1 \in S
  <2>1. SUFFICES ASSUME m + 1 <= Len(d)
                 PROVE  \E f \in [0..(m + 1) -> Int] : Upto(m + 1, f)
    OBVIOUS
  <2>2. PICK f \in [0..m -> Int] : Upto(m, f)
    <3>1. m <= Len(d) /\ m \in S
      BY <1>2, <2>1
    <3> HIDE DEF Upto
    <3>2. QED
      BY <3>1
  <2> DEFINE g == [n \in 0..(m + 1) |-> IF n = m + 1 THEN f[m] + d[m + 1] ELSE f[n]]
  <2>3. \A n \in 0..m : f[n] \in Int /\ f[n] = IF n = 0 THEN 0 ELSE f[n - 1] + d[n]
    BY <2>2
  <2>4. d[m + 1] \in Int
    BY <2>1
  <2>5. g \in [0..(m + 1) -> Int]
    BY <2>3, <2>4
  <2>6. \A n \in 0..(m + 1) : g[n] = IF n = 0 THEN 0 ELSE g[n - 1] + d[n]
    BY <2>3
  <2>7. Upto(m + 1, g)
    <3> HIDE DEF g
    <3>1. QED
      BY <2>5, <2>6
  <2>8. QED
    BY <2>5, <2>7
<1>3. Len(d) \in S
  <2>1. \A n \in S \cap Nat : n + 1 \in S
    BY <1>2
  <2> HIDE DEF S
  <2>2. Nat \subseteq S
    BY <1>1, <2>1, NatByOnes
  <2>3. QED
    BY <2>2
<1>4. QED
  BY <1>3 DEF IsTotals

LEMMA TotalsAgree ==
    ASSUME NEW d \in Seq(Int), NEW e \in Seq(Int), NEW f, NEW g, IsTotals(d, f), IsTotals(e, g),
           NEW m \in Nat, m <= Len(d), m <= Len(e), \A i \in 1..m : d[i] = e[i]
    PROVE  f[m] = g[m]
<1> DEFINE S == {n \in Nat : n <= m => f[n] = g[n]}
<1>0. /\ \A n \in 0..m : f[n] = IF n = 0 THEN 0 ELSE f[n - 1] + d[n]
      /\ \A n \in 0..m : g[n] = IF n = 0 THEN 0 ELSE g[n - 1] + e[n]
  <2>1. /\ \A n \in 0..Len(d) : f[n] = IF n = 0 THEN 0 ELSE f[n - 1] + d[n]
        /\ \A n \in 0..Len(e) : g[n] = IF n = 0 THEN 0 ELSE g[n - 1] + e[n]
    BY Zenon DEF IsTotals
  <2>2. 0..m \subseteq 0..Len(d) /\ 0..m \subseteq 0..Len(e)
    OBVIOUS
  <2>3. QED
    BY <2>1, <2>2, Zenon
<1>1. 0 \in S
  BY <1>0
<1>2. ASSUME NEW n \in Nat, n \in S
      PROVE  n + 1 \in S
  <2>1. SUFFICES ASSUME n + 1 <= m
                 PROVE  f[n + 1] = g[n + 1]
    OBVIOUS
  <2>2. f[n + 1] = f[n] + d[n + 1] /\ g[n + 1] = g[n] + e[n + 1]
    BY <1>0, <2>1
  <2>3. QED
    BY <1>2, <2>1, <2>2
<1>3. m \in S
  <2>1. \A n \in S \cap Nat : n + 1 \in S
    BY <1>2
  <2> HIDE DEF S
  <2>2. Nat \subseteq S
    BY <1>1, <2>1, NatByOnes
  <2>3. QED
    BY <2>2
<1>4. QED
  BY <1>3

LEMMA TotalIs ==
    ASSUME NEW d \in Seq(Int)
    PROVE  \E f : IsTotals(d, f) /\ f \in [0..Len(d) -> Int] /\ Total(d) = f[Len(d)]
<1> DEFINE g == CHOOSE f : IsTotals(d, f)
<1>1. PICK f : IsTotals(d, f) /\ f \in [0..Len(d) -> Int]
  BY TotalsExist
<1>2. IsTotals(d, g)
  BY <1>1
<1>3. Total(d) = g[Len(d)]
  BY DEF Total, IsTotals
<1> HIDE DEF g
<1>4. g[Len(d)] = f[Len(d)]
  BY <1>1, <1>2, TotalsAgree
<1>5. QED
  BY <1>1, <1>3, <1>4

LEMMA TotalAppend ==
    ASSUME NEW d \in Seq(Int), NEW x \in Int
    PROVE  Total(d) \in Int /\ Total(Append(d, x)) = Total(d) + x
<1> DEFINE e == Append(d, x)
<1>1. /\ e \in Seq(Int) /\ Len(d) \in Nat /\ Len(e) = Len(d) + 1 /\ e[Len(e)] = x
      /\ \A i \in 1..Len(d) : d[i] = e[i]
  OBVIOUS
<1> HIDE DEF e
<1>2. PICK f : IsTotals(d, f) /\ f \in [0..Len(d) -> Int] /\ Total(d) = f[Len(d)]
  BY TotalIs
<1>3. PICK g : IsTotals(e, g) /\ g \in [0..Len(e) -> Int] /\ Total(e) = g[Len(e)]
  BY <1>1, TotalIs
<1>4. g[Len(d)] = f[Len(d)]
  <2>1. Len(d) \in Nat /\ Len(d) <= Len(d) /\ Len(d) <= Len(e)
    BY <1>1
  <2>2. IsTotals(d, f) /\ IsTotals(e, g)
    BY <1>2, <1>3
  <2> HIDE DEF IsTotals
  <2>3. QED
    BY ONLY <1>1, <2>1, <2>2, TotalsAgree
<1>5. g[Len(e)] = g[Len(d)] + x
  BY <1>1, <1>3 DEF IsTotals
<1>6. QED
  BY <1>1, <1>2, <1>3, <1>4, <1>5 DEF e

LEMMA TotalOfNothing ==
    ASSUME NEW d \in Seq(Int), \A i \in 1..Len(d) : d[i] = 0
    PROVE  Total(d) = 0
<1>1. PICK f : IsTotals(d, f) /\ f \in [0..Len(d) -> Int] /\ Total(d) = f[Len(d)]
  BY TotalIs
<1>2. \A n \in 0..Len(d) : f[n] = IF n = 0 THEN 0 ELSE f[n - 1] + d[n]
  BY <1>1, Zenon DEF IsTotals
<1> DEFINE S == {n \in Nat : n <= Len(d) => f[n] = 0}
<1>3. 0 \in S
  BY <1>2
<1>4. ASSUME NEW n \in Nat, n \in S
      PROVE  n + 1 \in S
  <2>1. SUFFICES ASSUME n + 1 <= Len(d)
                 PROVE  f[n + 1] = 0
    OBVIOUS
  <2>2. f[n + 1] = f[n] + d[n + 1]
    BY <1>2, <2>1
  <2>3. QED
    BY <1>4, <2>1, <2>2
<1>5. Len(d) \in S
  <2>1. \A n \in S \cap Nat : n + 1 \in S
    BY <1>4
  <2> HIDE DEF S
  <2>2. Nat \subseteq S
    BY <1>3, <2>1, NatByOnes
  <2>3. QED
    BY <2>2
<1>6. QED
  BY <1>1, <1>5

-----------------------------------------------------------------------------
(* The books.                                                              *)

(* A step that records no payment and opens no account.                    *)
BooksKept ==
    /\ DOMAIN accounts' = DOMAIN accounts
    /\ \A a \in DOMAIN accounts :
        accounts'[a].upi = accounts[a].upi /\ accounts'[a].balance = accounts[a].balance
    /\ UNCHANGED upiIndex

LEMMA BookSteps ==
    ASSUME TypeInv, [Next]_vars
    PROVE  \/ \E s, r \in Names, amount \in Nat, score \in Int : Payment(s, r, amount, score)
           \/ /\ UNCHANGED ledgerVars
              /\ BooksKept \/ \E id \in Names, account \in Account : Opens(id, account)
<1>0. IsMap(accounts, Names, Account)
  BY DEF TypeInv, StoreTypeOK, AccountsTypeOK
<1>1. ASSUME NEW id, NEW status, UpdateAccountStatus(id, status)
      PROVE  BooksKept
  BY <1>0, <1>1 DEF UpdateAccountStatus, BooksKept, IsMap, Account
<1>2. ASSUME NEW id, NEW status, ApplyTaintUpdate(id, TaintStep, status)
      PROVE  BooksKept
  BY <1>0, <1>2 DEF ApplyTaintUpdate, BooksKept, IsMap, Account
<1>3. UNCHANGED accountVars => BooksKept
  BY DEF accountVars, BooksKept
<1>4. QED
  BY <1>1, <1>2, <1>3, AccountWrites, LedgerWrites

(* Who takes part in a payment has an account.                             *)
PartiesKnown ==
    \A i \in DOMAIN transactions :
        {transactions[i].sender, transactions[i].receiver} \subseteq DOMAIN accounts

LEMMA StepParties ==
    ASSUME TypeInv, PartiesKnown, [Next]_vars
    PROVE  PartiesKnown'
<1>0. LedgerTypeOK /\ DOMAIN accounts \subseteq DOMAIN accounts'
  BY AccountsStay DEF TypeInv, StoreTypeOK
<1>1. CASE UNCHANGED ledgerVars
  BY <1>0, <1>1 DEF ledgerVars, PartiesKnown
<1>2. ASSUME NEW s \in Names, NEW r \in Names, NEW amount \in Nat, NEW score \in Int,
             Payment(s, r, amount, score)
      PROVE  PartiesKnown'
  <2>1. {s, r} \subseteq DOMAIN accounts
    BY <1>2 DEF Payment, CanTransfer
  <2>2. \A i \in DOMAIN transactions' :
            \/ i \in DOMAIN transactions /\ transactions'[i] = transactions[i]
            \/ transactions'[i].sender = s /\ transactions'[i].receiver = r
    BY <1>0, <1>2, PaymentRecorded
  <2>3. QED
    BY <1>0, <2>1, <2>2 DEF PartiesKnown
<1>3. QED
  BY <1>1, <1>2, LedgerWrites

LEMMA PartiesHold == Spec => []PartiesKnown
<1>1. Init => PartiesKnown
  BY DEF Init, StoreInit, PartiesKnown
<1>2. QED
  BY <1>1, StepParties, TypeInvHolds, PTL DEF Spec

(* What each recorded payment moved for account a.                         *)
Moves(a) == [i \in DOMAIN transactions |-> Moved(a, transactions[i])]

LEMMA MovedType ==
    ASSUME NEW a, NEW tx \in Transaction
    PROVE  Moved(a, tx) \in Int
BY ToCentsNat DEF Moved, Transaction

LEMMA MovesType ==
    ASSUME LedgerTypeOK, NEW a
    PROVE  Moves(a) \in Seq(Int) /\ Len(Moves(a)) = Len(transactions)
<1>1. /\ DOMAIN transactions = 1..Len(transactions) /\ Len(transactions) \in Nat
      /\ \A i \in DOMAIN transactions : transactions[i] \in Transaction
  BY DEF LedgerTypeOK
<1>2. Moves(a) \in [1..Len(transactions) -> Int]
  BY <1>1, MovedType DEF Moves
<1>3. QED
  BY <1>1, <1>2

LEMMA AppendAt ==
    ASSUME NEW S, NEW q \in Seq(S), NEW e \in S
    PROVE  Append(q, e) = [i \in 1..(Len(q) + 1) |-> IF i = Len(q) + 1 THEN e ELSE q[i]]
<1> DEFINE f == [i \in 1..(Len(q) + 1) |-> IF i = Len(q) + 1 THEN e ELSE q[i]]
<1>1. /\ Append(q, e) \in Seq(S) /\ Len(q) \in Nat /\ Len(Append(q, e)) = Len(q) + 1
      /\ \A i \in 1..(Len(q) + 1) : Append(q, e)[i] = IF i = Len(q) + 1 THEN e ELSE q[i]
  BY AppendProperties
<1>2. f \in Seq(S) /\ Len(f) = Len(q) + 1
  <2>1. f \in [1..(Len(q) + 1) -> S]
    OBVIOUS
  <2> HIDE DEF f
  <2>2. QED
    BY <1>1, <2>1
<1>3. \A i \in 1..(Len(q) + 1) : f[i] = IF i = Len(q) + 1 THEN e ELSE q[i]
  OBVIOUS
<1> HIDE DEF f
<1>4. Append(q, e) = f
  BY <1>1, <1>2, <1>3, SeqEqual
<1>5. QED
  BY <1>4 DEF f

LEMMA MovesAppend ==
    ASSUME LedgerTypeOK, LedgerTypeOK', NEW a, NEW s \in Names, NEW r \in Names, NEW amount \in Nat,
           NEW score \in Int, Payment(s, r, amount, score)
    PROVE  LET tx == transactions'[Len(transactions) + 1]
           IN  Total(Moves(a)') = Total(Moves(a)) + Moved(a, tx) /\ Moved(a, tx) \in Int
<1> DEFINE id == Len(transactions) + 1
           x == Moved(a, transactions'[id])
<1>1. /\ id \in Nat \ {0} /\ DOMAIN transactions = 1..Len(transactions)
      /\ DOMAIN transactions' = DOMAIN transactions \cup {id}
      /\ Len(transactions') = id
      /\ \A i \in DOMAIN transactions : transactions'[i] = transactions[i]
  BY PaymentRecorded
<1>2. transactions'[id] \in Transaction
  BY <1>1 DEF LedgerTypeOK
<1>3. x \in Int
  BY <1>2, MovedType
<1>4. Moves(a) \in Seq(Int) /\ Len(Moves(a)) = Len(transactions)
  BY MovesType
<1>5. DOMAIN Moves(a)' = 1..id
  BY <1>1 DEF Moves, LedgerTypeOK
<1>6. \A i \in 1..id : Moves(a)'[i] = IF i = id THEN x ELSE Moves(a)[i]
  <2>1. \A i \in DOMAIN transactions : Moves(a)'[i] = Moves(a)[i]
    BY <1>1 DEF Moves
  <2>2. Moves(a)'[id] = x
    BY <1>1 DEF Moves
  <2>3. QED
    BY <1>1, <2>1, <2>2
<1> HIDE DEF x
<1>7. Moves(a)' = Append(Moves(a), x)
  <2>1. Append(Moves(a), x) = [i \in 1..id |-> IF i = id THEN x ELSE Moves(a)[i]]
    BY <1>3, <1>4, AppendAt
  <2>2. Moves(a)' = [i \in DOMAIN Moves(a)' |-> Moves(a)'[i]]
    BY DEF Moves
  <2> HIDE DEF id
  <2>3. QED
    BY <1>5, <1>6, <2>1, <2>2
<1>8. QED
  BY <1>3, <1>4, <1>7, TotalAppend DEF x

LEMMA CentsOfTen == \A k \in Int : ToCents(10 * k) = k
BY DEF ToCents

(* What a payment moves is what its record says, to the paisa.             *)
LEMMA BalanceMoves ==
    ASSUME AccountsTypeOK, LedgerTypeOK, NEW s \in Names, NEW r \in Names, NEW amount \in Nat,
           NEW score \in Int, Payment(s, r, amount, score), NEW a \in DOMAIN accounts
    PROVE  LET tx == transactions'[Len(transactions) + 1]
           IN  ToCents(accounts'[a].balance) = ToCents(accounts[a].balance) + Moved(a, tx)
<1> DEFINE tx == transactions'[Len(transactions) + 1]
           status == Verdict(score).status
           cents == ToCents(amount)
           before == ToCents(accounts[a].balance)
<1>1. tx.sender = s /\ tx.receiver = r /\ tx.amount = amount /\ tx.status = status
  BY PaymentRecorded
<1>2. s # r /\ accounts[a] \in Account /\ cents \in Int /\ before \in Int
  BY ToCentsType DEF Payment, CanTransfer, AccountsTypeOK, IsMap, Account
<1>3. accounts'[a] = IF a = s /\ Charged(status) THEN Debit(accounts[a], cents)
                     ELSE IF a = r /\ Delivered(status) THEN Credit(accounts[a], cents)
                     ELSE accounts[a]
  BY DEF Payment, ExecuteAtomicTransfer
<1>4. /\ ToCents(Debit(accounts[a], cents).balance) = before - cents
      /\ ToCents(Credit(accounts[a], cents).balance) = before + cents
  <2>1. /\ Debit(accounts[a], cents).balance = 10 * (before - cents)
        /\ Credit(accounts[a], cents).balance = 10 * (before + cents)
    BY <1>2 DEF Debit, Credit, Account
  <2> HIDE DEF before, cents
  <2>2. before - cents \in Int /\ before + cents \in Int
    BY <1>2
  <2>3. QED
    BY <2>1, <2>2, CentsOfTen
<1>5. Moved(a, tx) = (IF r = a /\ status = "COMPLETED" THEN cents ELSE 0)
                     - (IF s = a /\ status \in {"COMPLETED", "HELD"} THEN cents ELSE 0)
  <2> HIDE DEF tx, status
  <2>1. QED
    BY <1>1 DEF Moved
<1>6. SUFFICES ToCents(accounts'[a].balance) = before + Moved(a, tx)
  OBVIOUS
<1>7. accounts'[a] = accounts[a] => ToCents(accounts'[a].balance) = before
  OBVIOUS
<1> HIDE DEF tx, status, cents, before
<1>8. CASE a = s
  BY <1>2, <1>3, <1>4, <1>5, <1>7, <1>8 DEF Charged
<1>9. CASE a = r
  BY <1>2, <1>3, <1>4, <1>5, <1>7, <1>9 DEF Delivered
<1>10. CASE a \notin {s, r}
  BY <1>2, <1>3, <1>5, <1>7, <1>10
<1>11. QED
  BY <1>8, <1>9, <1>10

(* create_account writes over account a.                                   *)
Reopened(a) ==
    \E account \in Account : Opens(a, account) /\ account.upi \notin DOMAIN upiIndex

(* An account that is not opened anew keeps its books.                     *)
LEMMA ReconciledKept ==
    ASSUME TypeInv, [Next]_vars, NEW a \in DOMAIN accounts, Reconciled(a), ~Reopened(a)
    PROVE  Reconciled(a)'
<1>0. /\ AccountsTypeOK /\ LedgerTypeOK /\ LedgerTypeOK'
      /\ ToCents(accounts[a].balance) = ToCents(OpeningBalance(a)) + Total(Moves(a))
  <2>1. TypeInv'
    BY StepTypeInv
  <2>2. QED
    BY <2>1 DEF TypeInv, StoreTypeOK, Reconciled, Moves
<1>1. SUFFICES ToCents(accounts'[a].balance) = ToCents(OpeningBalance(a)) + Total(Moves(a)')
  BY DEF Reconciled, Moves, OpeningBalance
<1>2. ASSUME NEW s \in Names, NEW r \in Names, NEW amount \in Nat, NEW score \in Int,
             Payment(s, r, amount, score)
      PROVE  ToCents(accounts'[a].balance) = ToCents(OpeningBalance(a)) + Total(Moves(a)')
  <2> DEFINE moved == Moved(a, transactions'[Len(transactions) + 1])
  <2>1. /\ ToCents(accounts'[a].balance) = ToCents(accounts[a].balance) + moved
        /\ Total(Moves(a)') = Total(Moves(a)) + moved /\ moved \in Int
    BY <1>0, <1>2, BalanceMoves, MovesAppend
  <2>2. Total(Moves(a)) \in Int
    BY <1>0, MovesType, TotalAppend
  <2>3. ToCents(OpeningBalance(a)) \in Int
    BY ToCentsType, StoreAssumption DEF OpeningBalance, Account
  <2> HIDE DEF moved
  <2>4. QED
    BY <1>0, <2>1, <2>2, <2>3
<1>3. ASSUME UNCHANGED ledgerVars,
             BooksKept \/ \E id \in Names, account \in Account : Opens(id, account)
      PROVE  ToCents(accounts'[a].balance) = ToCents(OpeningBalance(a)) + Total(Moves(a)')
  <2>1. accounts'[a].balance = accounts[a].balance
    <3>1. ASSUME NEW id, NEW account \in Account, Opens(id, account)
          PROVE  accounts'[a].balance = accounts[a].balance
      <4>1. CASE account.upi \in DOMAIN upiIndex
        BY <3>1, <4>1 DEF Opens, CreateAccount, accountVars
      <4>2. CASE account.upi \notin DOMAIN upiIndex
        BY <3>1, <4>2 DEF Opens, CreateAccount, Put, Reopened
      <4>3. QED
        BY <4>1, <4>2
    <3>2. QED
      BY <1>3, <3>1 DEF BooksKept
  <2>2. Moves(a)' = Moves(a)
    BY <1>3 DEF Moves, ledgerVars
  <2>3. QED
    BY <1>0, <2>1, <2>2
<1>4. QED
  BY <1>2, <1>3, BookSteps

LEMMA InitReconciled ==
    ASSUME Init, NEW a \in DOMAIN SeedAccounts
    PROVE  Reconciled(a)
<1>1. accounts[a].balance = OpeningBalance(a) /\ OpeningBalance(a) \in Int
  BY StoreAssumption DEF Init, StoreInit, OpeningBalance, Account
<1>2. [i \in DOMAIN transactions |-> Moved(a, transactions[i])] = <<>>
  BY DEF Init, StoreInit
<1>3. /\ <<>> \in Seq(Int) /\ Len(<<>>) = 0
      /\ \A i \in 1..Len(<<>>) : <<>>[i] = 0
  OBVIOUS
<1>4. Total(<<>>) = 0
  BY <1>3, TotalOfNothing
<1>5. QED
  BY <1>1, <1>2, <1>4, ToCentsType DEF Reconciled

(* The balance of an account that was there from the start is its opening  *)
(* balance and what its recorded payments moved, whatever overlaps.        *)
THEOREM FirstBalancesReconcile == Spec => [](\A a \in DOMAIN SeedAccounts : Reconciled(a))
<1> DEFINE Books == \A a \in DOMAIN SeedAccounts : Reconciled(a)
<1>1. Init => Books
  BY InitReconciled
<1>2. TypeInv /\ SeedsInv /\ Books /\ [Next]_vars => Books'
  BY OpensNoSeed, ReconciledKept DEF SeedsInv, Reopened
<1>3. QED
  BY <1>1, <1>2, TypeInvHolds, SeedsHold, PTL DEF Spec

-----------------------------------------------------------------------------
(* As long as no account is opened over another.                           *)

OpenedOnce == [][\A a \in DOMAIN accounts : ~Reopened(a)]_vars

LEMMA HandleKept ==
    ASSUME TypeInv, [Next]_vars, NEW a \in DOMAIN accounts, ~Reopened(a)
    PROVE  a \in DOMAIN accounts' /\ accounts'[a].upi = accounts[a].upi
<1>0. AccountsTypeOK /\ a \in DOMAIN accounts'
  BY AccountsStay DEF TypeInv, StoreTypeOK
<1>1. ASSUME NEW s, NEW r, NEW amount, NEW score, Payment(s, r, amount, score)
      PROVE  accounts'[a].upi = accounts[a].upi
  BY <1>0, <1>1 DEF Payment, ExecuteAtomicTransfer, Debit, Credit, AccountsTypeOK, IsMap, Account
<1>2. ASSUME NEW id, NEW account \in Account, Opens(id, account)
      PROVE  accounts'[a].upi = accounts[a].upi
  <2>1. CASE account.upi \in DOMAIN upiIndex
    BY <1>2, <2>1 DEF Opens, CreateAccount, accountVars
  <2>2. CASE account.upi \notin DOMAIN upiIndex
    BY <1>2, <2>2 DEF Opens, CreateAccount, Put, Reopened
  <2>3. QED
    BY <2>1, <2>2
<1>3. BooksKept => accounts'[a].upi = accounts[a].upi
  BY DEF BooksKept
<1>4. QED
  BY <1>0, <1>1, <1>2, <1>3, BookSteps

LEMMA StepHandlesSound ==
    ASSUME TypeInv, HandlesSound, [Next]_vars,
           \A a \in DOMAIN accounts : accounts'[a].upi = accounts[a].upi
    PROVE  HandlesSound'
<1>1. \A u \in DOMAIN upiIndex :
        upiIndex[u] \in DOMAIN accounts' /\ accounts'[upiIndex[u]].upi = u
  BY AccountsStay DEF HandlesSound
<1>2. CASE UNCHANGED upiIndex
  BY <1>1, <1>2 DEF HandlesSound
<1>3. ASSUME NEW id, NEW account \in Account, Opens(id, account)
      PROVE  HandlesSound'
  <2>1. CASE account.upi \in DOMAIN upiIndex
    BY <1>2, <1>3, <2>1 DEF Opens, CreateAccount, accountVars
  <2>2. CASE account.upi \notin DOMAIN upiIndex
    BY <1>1, <1>3, <2>2 DEF Opens, CreateAccount, Put, HandlesSound
  <2>3. QED
    BY <2>1, <2>2
<1>4. ASSUME NEW s, NEW r, NEW amount, NEW score, Payment(s, r, amount, score)
      PROVE  UNCHANGED upiIndex
  BY <1>4 DEF Payment, ExecuteAtomicTransfer
<1>5. BooksKept => UNCHANGED upiIndex
  BY DEF BooksKept
<1>6. QED
  BY <1>2, <1>3, <1>4, <1>5, BookSteps

LEMMA InitHandles == Init => HandlesSound
<1> SUFFICES ASSUME Init, NEW u \in DOMAIN upiIndex
             PROVE  upiIndex[u] \in DOMAIN accounts /\ accounts[upiIndex[u]].upi = u
  BY DEF HandlesSound
<1>1. \E a \in DOMAIN SeedAccounts : SeedAccounts[a].upi = u
  BY DEF Init, StoreInit
<1>2. upiIndex[u] = CHOOSE a \in DOMAIN SeedAccounts : SeedAccounts[a].upi = u
  BY DEF Init, StoreInit
<1>3. QED
  BY <1>1, <1>2 DEF Init, StoreInit

LEMMA OnceNoAccountReplaced == Spec /\ OpenedOnce => NoAccountReplaced
<1>1. TypeInv /\ [Next]_vars /\ [\A a \in DOMAIN accounts : ~Reopened(a)]_vars
        => [\A a \in DOMAIN accounts : accounts'[a].upi = accounts[a].upi]_vars
  BY HandleKept
<1>2. QED
  BY <1>1, TypeInvHolds, PTL DEF Spec, OpenedOnce, NoAccountReplaced

LEMMA KeptHandlesSound == Spec /\ NoAccountReplaced => []HandlesSound
<1>1. TypeInv /\ HandlesSound /\ [Next]_vars
        /\ [\A a \in DOMAIN accounts : accounts'[a].upi = accounts[a].upi]_vars
        => HandlesSound'
  <2>1. TypeInv /\ HandlesSound /\ UNCHANGED vars => HandlesSound'
    BY DEF vars, storeVars, accountVars, HandlesSound
  <2>2. QED
    BY <2>1, StepHandlesSound
<1>2. QED
  BY <1>1, InitHandles, TypeInvHolds, PTL DEF Spec, NoAccountReplaced

(* The books as the ledger sees them.                                      *)
Cash == [a \in DOMAIN accounts |-> ToCents(accounts[a].balance)]

Entry(tx) ==
    [from |-> tx.sender, to |-> tx.receiver, sum |-> ToCents(tx.amount), outcome |-> tx.status]

Journal == [i \in DOMAIN transactions |-> Entry(transactions[i])]

Frozen == {a \in DOMAIN accounts : accounts[a].status = "FROZEN"}

LEMMA JournalAppend ==
    ASSUME LedgerTypeOK, NEW s \in Names, NEW r \in Names, NEW amount \in Nat,
           NEW score \in Int, Payment(s, r, amount, score)
    PROVE  Journal' = Append(Journal, Entry(transactions'[Len(transactions) + 1]))
<1> DEFINE id == Len(transactions) + 1
           entry == Entry(transactions'[id])
           Entries == {Journal[i] : i \in DOMAIN transactions} \cup {entry}
<1>1. /\ id \in Nat \ {0} /\ DOMAIN transactions = 1..Len(transactions)
      /\ Len(transactions) \in Nat
      /\ DOMAIN transactions' = DOMAIN transactions \cup {id}
      /\ \A i \in DOMAIN transactions : transactions'[i] = transactions[i]
  <2>1. Len(transactions) \in Nat
    BY DEF LedgerTypeOK
  <2>2. QED
    BY <2>1, PaymentRecorded
<1>2. DOMAIN Journal' = 1..id
  BY <1>1 DEF Journal
<1>3. \A i \in 1..id : Journal'[i] = IF i = id THEN entry ELSE Journal[i]
  <2>1. \A i \in DOMAIN transactions : Journal'[i] = Journal[i]
    BY <1>1 DEF Journal
  <2>2. Journal'[id] = entry
    BY <1>1 DEF Journal
  <2>3. QED
    BY <1>1, <2>1, <2>2
<1> HIDE DEF entry
<1>4. Journal \in Seq(Entries) /\ Len(Journal) = Len(transactions)
  <2>1. Journal \in [1..Len(transactions) -> Entries]
    BY <1>1 DEF Journal
  <2> HIDE DEF Entries
  <2>2. QED
    BY <1>1, <2>1
<1>5. Append(Journal, entry) = [i \in 1..id |-> IF i = id THEN entry ELSE Journal[i]]
  <2>1. entry \in Entries
    OBVIOUS
  <2> HIDE DEF Entries
  <2>2. QED
    BY <1>4, <2>1, AppendAt
<1>6. Journal' = [i \in DOMAIN Journal' |-> Journal'[i]]
  BY DEF Journal
<1> HIDE DEF id, Entries
<1>7. QED
  BY <1>2, <1>3, <1>5, <1>6 DEF entry, id

LEMMA LedgerPays ==
    ASSUME AccountsTypeOK, LedgerTypeOK, NEW s \in Names, NEW r \in Names, NEW amount \in Nat,
           NEW score \in Int, Payment(s, r, amount, score)
    PROVE  AbstractLedger!Next
<1> DEFINE tx == transactions'[Len(transactions) + 1]
           status == Verdict(score).status
           sum == ToCents(amount)
<1>1. /\ tx.sender = s /\ tx.receiver = r /\ tx.amount = amount /\ tx.status = status
  BY PaymentRecorded
<1>2. Journal' = Append(Journal, [from |-> s, to |-> r, sum |-> sum, outcome |-> status])
  <2>1. Entry(tx) = [from |-> s, to |-> r, sum |-> sum, outcome |-> status]
    <3> HIDE DEF tx, status
    <3>1. QED
      BY <1>1 DEF Entry
  <2>2. QED
    BY <2>1, JournalAppend
<1>3. /\ s # r /\ {s, r} \subseteq DOMAIN accounts \ Frozen
      /\ Cash[s] >= sum
  BY DEF Payment, CanTransfer, Cash, Frozen
<1>4. DOMAIN accounts' = DOMAIN accounts /\ Frozen' = Frozen
  BY DEF Payment, ExecuteAtomicTransfer, Debit, Credit, Frozen, AccountsTypeOK, IsMap, Account
<1>5. \A a \in DOMAIN accounts : ToCents(accounts'[a].balance) = Cash[a] + Moved(a, tx)
  BY BalanceMoves DEF Cash
<1>6. \A a \in DOMAIN accounts :
        Moved(a, tx) = (IF r = a /\ status = "COMPLETED" THEN sum ELSE 0)
                        - (IF s = a /\ status \in {"COMPLETED", "HELD"} THEN sum ELSE 0)
  <2> HIDE DEF tx, status
  <2>1. QED
    BY <1>1 DEF Moved
<1>7. \A a \in DOMAIN accounts : Cash[a] \in Int
  BY ToCentsType DEF Cash, AccountsTypeOK, IsMap, Account
<1>8. sum \in Int /\ sum \in {ToCents(q.amount) : q \in {p \in Requests : p.kind = "transfer"}}
  BY ToCentsType DEF Payment, Amounts
<1>9. status \in {"COMPLETED", "HELD", "FLAGGED"}
  BY DEF Verdict
<1>10. Cash' = [a \in DOMAIN accounts |-> Cash[a] + Moved(a, tx)]
  BY <1>4, <1>5 DEF Cash
<1>11. Cash = [a \in DOMAIN accounts |-> Cash[a]]
  BY DEF Cash
<1> HIDE DEF tx, status, sum
<1>12. CASE status = "COMPLETED"
  <2>1. Cash' = [Cash EXCEPT ![s] = @ - sum, ![r] = @ + sum]
    BY <1>3, <1>6, <1>7, <1>8, <1>10, <1>11, <1>12
  <2>2. AbstractLedger!Pay(s, r, sum)
    BY <1>2, <1>3, <1>4, <1>12, <2>1
    DEF AbstractLedger!Pay, AbstractLedger!Payment, Cash, Journal, Entry, Frozen
  <2>3. QED
    BY <1>8, <2>2 DEF AbstractLedger!Next
<1>13. CASE status = "HELD"
  <2>1. Cash' = [Cash EXCEPT ![s] = @ - sum]
    BY <1>3, <1>6, <1>7, <1>8, <1>10, <1>11, <1>13
  <2>2. AbstractLedger!Hold(s, r, sum)
    BY <1>2, <1>3, <1>4, <1>13, <2>1
    DEF AbstractLedger!Hold, AbstractLedger!Payment, Cash, Journal, Entry, Frozen
  <2>3. QED
    BY <1>8, <2>2 DEF AbstractLedger!Next
<1>14. CASE status = "FLAGGED"
  <2>1. Cash' = Cash
    BY <1>6, <1>7, <1>8, <1>10, <1>11, <1>14
  <2>2. AbstractLedger!Note(s, r, sum)
    BY <1>2, <1>3, <1>4, <1>14, <2>1
    DEF AbstractLedger!Note, AbstractLedger!Payment, Cash, Journal, Entry, Frozen
  <2>3. QED
    BY <1>8, <2>2 DEF AbstractLedger!Next
<1>15. QED
  BY <1>9, <1>12, <1>13, <1>14

LEMMA LedgerOpens ==
    ASSUME AccountsTypeOK, UNCHANGED ledgerVars, NEW id \in Names, NEW account \in Account,
           Opens(id, account), account.upi \notin DOMAIN upiIndex, id \notin DOMAIN accounts
    PROVE  AbstractLedger!Next
<1> DEFINE deposit == ToCents(account.balance)
<1>1. /\ DOMAIN accounts' = DOMAIN accounts \cup {id} /\ accounts'[id] = account
      /\ \A a \in DOMAIN accounts : accounts'[a] = accounts[a]
      /\ account.status # "FROZEN"
  BY DEF Opens, CreateAccount, Put
<1>2. Cash' = [b \in DOMAIN Cash \cup {id} |-> IF b = id THEN deposit ELSE Cash[b]]
  BY <1>1 DEF Cash
<1>3. Frozen' = Frozen
  BY <1>1 DEF Frozen
<1>4. Journal' = Journal
  BY DEF Journal, ledgerVars
<1>5. deposit \in {0} \cup {ToCents(OpeningDeposit(r)) :
                                r \in {q \in Requests : q.kind = "consumer"}}
  <2>1. account.balance = 0 \/ \E r \in {q \in Requests : q.kind = "consumer"} :
                                    account.balance = OpeningDeposit(r)
    BY DEF Opens, Deposits
  <2>2. ToCents(0) = 0
    BY DEF ToCents
  <2>3. QED
    BY <2>1, <2>2
<1> HIDE DEF deposit
<1>6. AbstractLedger!Open(id, deposit)
  BY <1>2, <1>3, <1>4 DEF AbstractLedger!Open, Cash, Journal, Entry, Frozen
<1>7. QED
  BY <1>5, <1>6 DEF AbstractLedger!Next

(* Every step is one of the ledger, or leaves it alone.                    *)
LEMMA StepLedger ==
    ASSUME TypeInv, [Next]_vars, \A a \in DOMAIN accounts : ~Reopened(a)
    PROVE  [AbstractLedger!Next]_AbstractLedger!ledgerVariables
<1>0. AccountsTypeOK /\ LedgerTypeOK
  BY DEF TypeInv, StoreTypeOK
<1>1. ASSUME NEW s \in Names, NEW r \in Names, NEW amount \in Nat, NEW score \in Int,
             Payment(s, r, amount, score)
      PROVE  AbstractLedger!Next
  BY <1>0, <1>1, LedgerPays
<1>2. ASSUME UNCHANGED ledgerVars, BooksKept
      PROVE  AbstractLedger!Next
  <2>1. Cash' = Cash /\ Frozen' \subseteq DOMAIN Cash
    BY <1>2 DEF BooksKept, Cash, Frozen
  <2>2. Journal' = Journal
    BY <1>2 DEF ledgerVars, Journal
  <2>3. AbstractLedger!Moderate
    BY <2>1, <2>2 DEF AbstractLedger!Moderate, Cash, Journal, Entry, Frozen
  <2>4. QED
    BY <2>3 DEF AbstractLedger!Next
<1>3. ASSUME UNCHANGED ledgerVars, NEW id \in Names, NEW account \in Account,
             Opens(id, account)
      PROVE  [AbstractLedger!Next]_AbstractLedger!ledgerVariables
  <2>1. CASE account.upi \in DOMAIN upiIndex
    BY <1>3, <2>1 DEF Opens, CreateAccount, accountVars, ledgerVars,
                      AbstractLedger!ledgerVariables
  <2>2. CASE account.upi \notin DOMAIN upiIndex
    <3>1. id \notin DOMAIN accounts
      BY <1>3, <2>2 DEF Reopened
    <3>2. QED
      BY <1>0, <1>3, <2>2, <3>1, LedgerOpens
  <2>3. QED
    BY <2>1, <2>2
<1>4. QED
  BY <1>1, <1>2, <1>3, BookSteps

LEMMA InitLedger == Init => AbstractLedger!Init
<1> SUFFICES ASSUME Init
             PROVE  AbstractLedger!Init
  OBVIOUS
<1>1. accounts = SeedAccounts /\ transactions = <<>>
  BY DEF Init, StoreInit
<1>2. Journal = <<>>
  BY <1>1 DEF Journal
<1>3. QED
  BY <1>1, <1>2 DEF AbstractLedger!Init, Journal, Entry

LEMMA OnceImplementsLedger == Spec /\ OpenedOnce => ImplementsLedger
<1>1. TypeInv /\ [Next]_vars /\ [\A a \in DOMAIN accounts : ~Reopened(a)]_vars
        => [AbstractLedger!Next]_AbstractLedger!ledgerVariables
  <2>1. UNCHANGED vars => UNCHANGED AbstractLedger!ledgerVariables
    BY DEF vars, storeVars, accountVars, ledgerVars, AbstractLedger!ledgerVariables
  <2>2. QED
    BY <2>1, StepLedger
<1>2. QED
  BY <1>1, InitLedger, TypeInvHolds, PTL
  DEF Spec, OpenedOnce, ImplementsLedger, AbstractLedger!Spec

-----------------------------------------------------------------------------
(* Where nobody signs up.                                                  *)

(* And a complaint names someone, and no id that is yet to be drawn: then  *)
(* two requests can open the same account only under the same handle, and  *)
(* the second is refused, however they overlap.                            *)
NoSignUps ==
    \A r \in Requests :
        /\ r.kind # "consumer"
        /\ r.kind = "complaint" => r.suspect \notin {Empty} \cup ExternalIds

(* An account opened for a suspect has its id for a handle, or a drawn id. *)
SuspectsNamed ==
    \A id \in DOMAIN accounts \ (DOMAIN SeedAccounts \cup ExternalIds) : accounts[id].upi = id

LEMMA OpensNamed ==
    ASSUME NoSignUps, TypeInv, SeedsInv, NEW id \in Names, NEW account \in Account,
           Opens(id, account)
    PROVE  /\ id \in ExternalIds => id \notin DOMAIN accounts
           /\ id \notin ExternalIds => account.upi = id
           /\ id # Empty \/ id \in ExternalIds
           /\ account.balance = 0
<1>1. PICK t \in Threads :
        \/ /\ pc[t] = "provision"
           /\ id \in ProvisionedIds(req[t]) /\ account.upi = req[t].suspect
        \/ pc[t] = "openAccount" /\ id = req[t].number
  BY DEF Opens
<1>2. StepSound(pc[t], req[t], local[t]) /\ req[t] \in Requests \cup {None}
  BY DEF TypeInv, ThreadsSound, ThreadsTypeOK
<1>3. pc[t] # "openAccount"
  BY <1>2, WorkersAssumption DEF StepSound, ConsumerSteps, NoSignUps, RequestTypes
<1>4. req[t] \in Requests /\ req[t].kind = "complaint"
  BY <1>1, <1>2, <1>3, WorkersAssumption
  DEF StepSound, ComplaintSteps, ComplaintRequest, RequestTypes
<1>5. req[t].suspect \notin {Empty} \cup ExternalIds
  BY <1>4 DEF NoSignUps
<1>6. account.balance = 0
  BY DEF Opens, Deposits, NoSignUps
<1>7. QED
  BY <1>1, <1>3, <1>5, <1>6 DEF ProvisionedIds

LEMMA NoneReopened ==
    ASSUME NoSignUps, TypeInv, SeedsInv, AccountsReachable, SuspectsNamed,
           NEW a \in DOMAIN accounts
    PROVE  ~Reopened(a)
<1> SUFFICES ASSUME NEW account \in Account, Opens(a, account)
             PROVE  account.upi \in DOMAIN upiIndex
  BY DEF Reopened
<1>1. a \in Names
  BY DEF TypeInv, StoreTypeOK, AccountsTypeOK, IsMap
<1>2. a \notin ExternalIds /\ account.upi = a /\ a # Empty
  BY <1>1, OpensNamed
<1>3. a \notin DOMAIN SeedAccounts
  BY OpensNoSeed
<1>4. QED
  BY <1>2, <1>3 DEF SuspectsNamed, AccountsReachable

LEMMA StepNamed ==
    ASSUME NoSignUps, TypeInv, SeedsInv, AccountsReachable, SuspectsNamed, [Next]_vars
    PROVE  SuspectsNamed'
<1>1. \A a \in DOMAIN accounts : accounts'[a].upi = accounts[a].upi
  BY HandleKept, NoneReopened
<1>2. ASSUME NEW id \in Names, NEW account \in Account, Opens(id, account)
      PROVE  SuspectsNamed'
  <2>1. CASE account.upi \in DOMAIN upiIndex
    BY <1>2, <2>1 DEF Opens, CreateAccount, accountVars, SuspectsNamed
  <2>2. CASE account.upi \notin DOMAIN upiIndex
    <3>1. DOMAIN accounts' = DOMAIN accounts \cup {id} /\ accounts'[id] = account
      BY <1>2, <2>2 DEF Opens, CreateAccount, Put
    <3>2. id \notin ExternalIds => account.upi = id
      BY <1>2, OpensNamed
    <3>3. QED
      BY <1>1, <3>1, <3>2 DEF SuspectsNamed
  <2>3. QED
    BY <2>1, <2>2
<1>3. ASSUME NEW s, NEW r, NEW amount, NEW score, Payment(s, r, amount, score)
      PROVE  DOMAIN accounts' = DOMAIN accounts
  BY <1>3 DEF Payment, ExecuteAtomicTransfer
<1>4. BooksKept => DOMAIN accounts' = DOMAIN accounts
  BY DEF BooksKept
<1>5. DOMAIN accounts' = DOMAIN accounts => SuspectsNamed'
  BY <1>1 DEF SuspectsNamed
<1>6. QED
  BY <1>2, <1>3, <1>4, <1>5, BookSteps

LEMMA NamedHold ==
    ASSUME NoSignUps
    PROVE  Spec => []SuspectsNamed
<1>1. Init => SuspectsNamed
  BY DEF Init, StoreInit, SuspectsNamed
<1>2. TypeInv /\ SeedsInv /\ AccountsReachable /\ SuspectsNamed /\ [Next]_vars => SuspectsNamed'
  BY StepNamed
<1>3. QED
  BY <1>1, <1>2, TypeInvHolds, SeedsHold, HandlesUnique, PTL DEF Spec

LEMMA NoSignUpsOpenOnce ==
    ASSUME NoSignUps
    PROVE  Spec => OpenedOnce
<1>1. TypeInv /\ SeedsInv /\ AccountsReachable /\ SuspectsNamed =>
        [\A a \in DOMAIN accounts : ~Reopened(a)]_vars
  BY NoneReopened
<1>2. QED
  BY <1>1, NamedHold, TypeInvHolds, SeedsHold, HandlesUnique, PTL DEF Spec, OpenedOnce

(* Where nobody signs up, the program keeps the books of module Ledger:    *)
(* no money moves but by a recorded payment that its payer could cover     *)
(* and whose parties were not frozen.                                      *)
THEOREM LedgerImplemented ==
    ASSUME NoSignUps
    PROVE  Spec => ImplementsLedger
BY NoSignUpsOpenOnce, OnceImplementsLedger, PTL

(* There an indexed handle leads to the account that bears it.             *)
THEOREM HandlesLead ==
    ASSUME NoSignUps
    PROVE  Spec => []HandlesSound
BY NoSignUpsOpenOnce, OnceNoAccountReplaced, KeptHandlesSound, PTL

LEMMA StepBalances ==
    ASSUME NoSignUps, TypeInv, SeedsInv, AccountsReachable, SuspectsNamed, PartiesKnown,
           BalancesReconcile, [Next]_vars
    PROVE  BalancesReconcile'
<1>0. LedgerTypeOK /\ \A a \in DOMAIN accounts : Reconciled(a)'
  BY NoneReopened, ReconciledKept DEF TypeInv, StoreTypeOK, BalancesReconcile
<1>1. ASSUME UNCHANGED ledgerVars, NEW id \in Names, NEW account \in Account,
             Opens(id, account)
      PROVE  BalancesReconcile'
  <2>1. CASE account.upi \in DOMAIN upiIndex
    BY <1>0, <1>1, <2>1 DEF Opens, CreateAccount, accountVars, BalancesReconcile
  <2>2. CASE account.upi \notin DOMAIN upiIndex
    <3>1. /\ DOMAIN accounts' = DOMAIN accounts \cup {id} /\ accounts'[id] = account
          /\ account.balance = 0
      BY <1>1, <2>2, OpensNamed DEF Opens, CreateAccount, Put
    <3>2. id \notin DOMAIN accounts /\ id \notin DOMAIN SeedAccounts
      BY <1>1, <2>2, NoneReopened, OpensNoSeed DEF Reopened
    <3>3. Moves(id) \in Seq(Int) /\ \A i \in 1..Len(Moves(id)) : Moves(id)[i] = 0
      <4>1. \A i \in DOMAIN transactions : Moved(id, transactions[i]) = 0
        BY <3>2 DEF PartiesKnown, Moved
      <4>2. Moves(id) \in Seq(Int) /\ DOMAIN Moves(id) = DOMAIN transactions
        BY <1>0, MovesType DEF Moves
      <4>3. QED
        BY <4>1, <4>2 DEF Moves
    <3>4. Total(Moves(id)) = 0
      BY <3>3, TotalOfNothing
    <3>5. Moves(id)' = Moves(id)
      BY <1>1 DEF Moves, ledgerVars
    <3>6. ToCents(0) = 0 /\ OpeningBalance(id) = 0
      BY <3>2 DEF ToCents, OpeningBalance
    <3>7. Reconciled(id)'
      BY <3>1, <3>4, <3>5, <3>6 DEF Reconciled, Moves, OpeningBalance
    <3>8. QED
      BY <1>0, <3>1, <3>7 DEF BalancesReconcile
  <2>3. QED
    BY <2>1, <2>2
<1>2. ASSUME NEW s, NEW r, NEW amount, NEW score, Payment(s, r, amount, score)
      PROVE  DOMAIN accounts' = DOMAIN accounts
  BY <1>2 DEF Payment, ExecuteAtomicTransfer
<1>3. BooksKept => DOMAIN accounts' = DOMAIN accounts
  BY DEF BooksKept
<1>4. DOMAIN accounts' = DOMAIN accounts => BalancesReconcile'
  BY <1>0 DEF BalancesReconcile
<1>5. QED
  BY <1>1, <1>2, <1>3, <1>4, BookSteps

(* There every balance, those of accounts opened on the way too, is what   *)
(* the recorded payments leave of the opening balance.                     *)
THEOREM BalancesExact ==
    ASSUME NoSignUps
    PROVE  Spec => []BalancesReconcile
<1>1. Init => BalancesReconcile
  BY InitReconciled DEF Init, StoreInit, BalancesReconcile
<1>2. TypeInv /\ SeedsInv /\ AccountsReachable /\ SuspectsNamed /\ PartiesKnown
        /\ BalancesReconcile /\ [Next]_vars => BalancesReconcile'
  BY StepBalances
<1>3. QED
  BY <1>1, <1>2, NamedHold, PartiesHold, TypeInvHolds, SeedsHold, HandlesUnique, PTL DEF Spec
=============================================================================
