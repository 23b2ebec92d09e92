---------------------------- MODULE SerialProofs ----------------------------
(***************************************************************************)
(* What holds as long as requests do not overlap: then what a handler has  *)
(* read is still true when it writes.  For any set of names and requests,  *)
(* and any number of threads of which one at a time has a request.         *)
(***************************************************************************)
EXTENDS LedgerProofs

-----------------------------------------------------------------------------
(* One thread at a time.                                                   *)

Alone == IsFiniteSet(InFlight) /\ \A t, u \in InFlight : t = u

LEMMA Resting ==
    ASSUME NEW u \in Threads
    PROVE  u \in InFlight <=> pc[u] \notin {"idle", "done"}
BY DEF InFlight, Idle, Done

LEMMA ServesInFlight ==
    ASSUME NEW t \in Threads, Serve(t)
    PROVE  t \in InFlight
<1>1. pc[t] \notin {"idle", "done"}
  BY HandlerSteps
  DEF Serve, TransferSteps, ComplaintSteps, TriageSteps, ModerationSteps, ConsumerSteps,
      EmployeeSteps, LoginSteps, ProfileSteps
<1>2. QED
  BY <1>1, Resting

LEMMA AcceptsAlone ==
    ASSUME MaxInFlight = 1, Alone, NEW t \in Threads, NEW r \in Requests, Accept(t, r)
    PROVE  InFlight = {}
<1>1. Cardinality(InFlight) \in Nat /\ Cardinality(InFlight) < 1
  BY FS_CardinalityType DEF Alone, Accept
<1>2. QED
  BY <1>1, FS_EmptySet DEF Alone

(* What a step is to any one thread: a step of its own, or one in which it *)
(* is at rest.                                                             *)
LEMMA OnlyOne ==
    ASSUME MaxInFlight = 1, TypeInv, Alone, [Next]_vars, NEW u \in Threads
    PROVE  \/ UNCHANGED vars
           \/ Serve(u)
           \/ pc'[u] \in {"idle", "done"}
           \/ /\ \E r \in Requests : Accept(u, r)
              /\ UNCHANGED storeVars
<1>0. ThreadsTypeOK
  BY DEF TypeInv
<1>1. ASSUME NEW t \in Threads, t # u,
             Serve(t) \/ \E r \in Requests : Accept(t, r)
      PROVE  pc'[u] \in {"idle", "done"}
  <2>1. pc'[u] = pc[u]
    BY <1>0, <1>1, OneThreadMoves
  <2>2. u \notin InFlight
    BY <1>1, ServesInFlight, AcceptsAlone DEF Alone
  <2>3. QED
    BY <2>1, <2>2, Resting
<1>2. QED
  BY <1>1 DEF Next

LEMMA StepAlone ==
    ASSUME MaxInFlight = 1, TypeInv, Alone, [Next]_vars
    PROVE  Alone'
<1>0. ThreadsTypeOK
  BY DEF TypeInv
<1>1. CASE UNCHANGED vars
  BY <1>1 DEF vars, threadVars, Alone, InFlight, Idle, Done
<1>2. ASSUME NEW t \in Threads, Serve(t)
      PROVE  InFlight' \subseteq InFlight
  <2>1. t \in InFlight /\ \A u \in Threads \ {t} : pc'[u] = pc[u]
    BY <1>0, <1>2, ServesInFlight, OneThreadMoves
  <2>2. QED
    BY <2>1 DEF InFlight, Idle, Done
<1>3. ASSUME NEW t \in Threads, NEW r \in Requests, Accept(t, r)
      PROVE  InFlight' \subseteq {t}
  <2>1. InFlight = {} /\ \A u \in Threads \ {t} : pc'[u] = pc[u]
    BY <1>0, <1>3, AcceptsAlone, OneThreadMoves
  <2>2. QED
    BY <2>1 DEF InFlight, Idle, Done
<1>4. ASSUME NEW t \in Threads, InFlight' \subseteq {t}
      PROVE  Alone'
  <2>1. IsFiniteSet({t})
    BY FS_Singleton
  <2>2. IsFiniteSet(InFlight')
    BY <1>4, <2>1, FS_Subset
  <2>3. QED
    BY <1>4, <2>2 DEF Alone
<1>5. InFlight' \subseteq InFlight => Alone'
  BY FS_Subset DEF Alone
<1>6. QED
  BY <1>1, <1>2, <1>3, <1>4, <1>5 DEF Next

LEMMA AloneHolds ==
    ASSUME MaxInFlight = 1
    PROVE  Spec => []Alone
<1>1. Init => Alone
  <2>1. Init => InFlight = {}
    BY DEF Init, WorkersInit, InFlight, Idle, Done
  <2>2. QED
    BY <2>1, FS_EmptySet DEF Alone
<1>2. QED
  BY <1>1, StepAlone, TypeInvHolds, PTL DEF Spec

-----------------------------------------------------------------------------
(* What a handler has read is still so.                                    *)

Current(s) == s.id \in DOMAIN accounts /\ s.account = accounts[s.id]

TransferFresh(t) ==
    /\ pc[t] \in TransferSteps \ {"receiver"} => Current(local[t].peer)
    /\ pc[t] \in PaySteps => Current(local[t].payer)
    /\ pc[t] \in {"readHistory", "execute"} =>
            local[t].tally = CountComplaintsForSuspect(local[t].peer.id)
    /\ pc[t] = "execute" => local[t].inflow = Len(txIndex[local[t].peer.id])

ComplaintFresh(t) ==
    /\ pc[t] \in {"suspectById", "provision"} => FindAccountByUpi(req[t].suspect) = {}
    /\ pc[t] = "provision" => FindAccountById(req[t].suspect) = {}
    /\ pc[t] \in {"ownership", "record", "count", "taint"} => Current(local[t].peer)
    /\ pc[t] \in {"ownership", "record"} /\ local[t].external =>
            local[t].peer.account.status = "FLAGGED"
    /\ pc[t] = "taint" => local[t].tally = CountComplaintsForSuspect(local[t].peer.id)

ModerationFresh(t) == pc[t] = "setStatus" => Current(local[t].peer)

RegistrationFresh(t) ==
    pc[t] \in {"deriveHandle", "openAccount"} => req[t].number \notin DOMAIN accounts

HandlerFresh(t) ==
    TransferFresh(t) /\ ComplaintFresh(t) /\ ModerationFresh(t) /\ RegistrationFresh(t)

(* An indexed handle leads to an account, and is none without a name.      *)
IndexAlive == \A u \in DOMAIN upiIndex : u # Empty /\ upiIndex[u] \in DOMAIN accounts

LEMMA StepIndexAlive ==
    ASSUME TypeInv, IndexAlive, [Next]_vars
    PROVE  IndexAlive'
<1>0. DOMAIN accounts \subseteq DOMAIN accounts'
  BY AccountsStay
<1>1. ASSUME NEW id, NEW account, Opens(id, account)
      PROVE  IndexAlive'
  <2>1. CASE account.upi \in DOMAIN upiIndex
    BY <1>1, <2>1 DEF Opens, CreateAccount, accountVars, IndexAlive
  <2>2. CASE account.upi \notin DOMAIN upiIndex
    BY <1>0, <1>1, <2>2 DEF Opens, CreateAccount, Put, IndexAlive
  <2>3. QED
    BY <2>1, <2>2
<1>2. UNCHANGED upiIndex => IndexAlive'
  BY <1>0 DEF IndexAlive
<1>3. ASSUME NEW s, NEW r, NEW amount, NEW score, Payment(s, r, amount, score)
      PROVE  UNCHANGED upiIndex
  BY <1>3 DEF Payment, ExecuteAtomicTransfer
<1>4. QED
  BY <1>1, <1>2, <1>3, BookSteps DEF BooksKept

LEMMA IndexAliveHolds == Spec => []IndexAlive
<1>1. Init => IndexAlive
  <2> SUFFICES ASSUME Init, NEW u \in DOMAIN upiIndex
               PROVE  u # Empty /\ upiIndex[u] \in DOMAIN accounts
    BY DEF IndexAlive
  <2>1. PICK a \in DOMAIN SeedAccounts : SeedAccounts[a].upi = u
    BY DEF Init, StoreInit
  <2>2. QED
    BY <2>1, StoreAssumption, InitHandles DEF HandlesSound
<1>2. QED
  BY <1>1, StepIndexAlive, TypeInvHolds, PTL DEF Spec

(* A handle that nothing answers to is free.                               *)
LEMMA UnfoundIsFree ==
    ASSUME IndexAlive, NEW n, FindAccountByUpi(n) = {}
    PROVE  n \notin DOMAIN upiIndex
<1>1. n = Empty \/ UpiExact(n) = {}
  BY DEF FindAccountByUpi
<1>2. QED
  BY <1>1 DEF IndexAlive, UpiExact

-----------------------------------------------------------------------------
(* The steps of a thread keep it so.                                       *)

LEMMA SnapshotCurrent ==
    ASSUME NEW a \in DOMAIN accounts
    PROVE  Current(Snapshot(a))
BY DEF Current, Snapshot

LEMMA TransferKeepsFresh ==
    ASSUME TypeInv, NEW u \in Threads, TransferStep(u), TransferFresh(u)
    PROVE  TransferFresh(u)'
<1>0. /\ ThreadsTypeOK /\ AccountsTypeOK
      /\ local[u] \in LocalType /\ StepSound(pc[u], req[u], local[u])
  BY DEF TypeInv, StoreTypeOK, ThreadsTypeOK, ThreadsSound
<1>1. ASSUME pc'[u] \in {"idle", "done"}
      PROVE  TransferFresh(u)'
  BY <1>1 DEF TransferFresh, TransferSteps, PaySteps
<1>2. CASE RefuseTransfer(u) \/ ExecuteTransfer(u)
  <2>1. pc'[u] = "done"
    BY <1>0, <1>2 DEF RefuseTransfer, ExecuteTransfer, Reply, Respond, ThreadsTypeOK
  <2>2. QED
    BY <1>1, <2>1
<1>3. CASE ResolveReceiver(u)
  <2>1. CASE \E code : Reply(u, code, NoTx)
    BY <1>0, <1>1, <2>1 DEF Reply, Respond, ThreadsTypeOK
  <2>2. ASSUME NEW a \in DOMAIN accounts, UNCHANGED storeVars,
               Continue(u, "sender", [local[u] EXCEPT !.peer = Snapshot(a)])
        PROVE  TransferFresh(u)'
    <3>1. pc'[u] = "sender" /\ local'[u].peer = Snapshot(a) /\ accounts' = accounts
      BY <1>0, <2>2 DEF Continue, ThreadsTypeOK, LocalType, storeVars, accountVars
    <3>2. QED
      BY <3>1, SnapshotCurrent DEF TransferFresh, PaySteps, Current, Snapshot
  <2>3. /\ FindAccountByUpi(req[u].to) \subseteq DOMAIN accounts
        /\ pc[u] = "receiver" /\ req[u].to \in Names
    BY <1>0, <1>3, FindAccountByUpiType
    DEF ResolveReceiver, WellFormedTransfer, StepSound, TransferSteps, TransferRequest
  <2>4. FindAccountById(req[u].to) \subseteq DOMAIN accounts
    BY <1>0, <2>3, FindAccountByIdType
  <2>5. QED
    BY <1>3, <2>1, <2>2, <2>3, <2>4 DEF ResolveReceiver
<1>4. CASE ResolveSender(u)
  <2>1. CASE \E code : Reply(u, code, NoTx)
    BY <1>0, <1>1, <2>1 DEF Reply, Respond, ThreadsTypeOK
  <2>2. ASSUME NEW a \in DOMAIN accounts, UNCHANGED storeVars,
               Continue(u, "countComplaints", [local[u] EXCEPT !.payer = Snapshot(a)])
        PROVE  TransferFresh(u)'
    <3>1. /\ pc'[u] = "countComplaints" /\ local'[u].payer = Snapshot(a)
          /\ local'[u].peer = local[u].peer /\ accounts' = accounts
      BY <1>0, <2>2 DEF Continue, ThreadsTypeOK, LocalType, storeVars, accountVars
    <3>2. Current(local[u].peer)
      BY <1>4 DEF TransferFresh, ResolveSender, TransferSteps
    <3>3. QED
      BY <3>1, <3>2, SnapshotCurrent DEF TransferFresh, PaySteps, Current, Snapshot
  <2>3. req[u].sender \in Names
    BY <1>0, <1>4
    DEF ResolveSender, WellFormedTransfer, StepSound, TransferSteps, TransferRequest
  <2>4. FindAccountById(req[u].sender) \subseteq DOMAIN accounts
    BY <1>0, <2>3, FindAccountByIdType
  <2>5. QED
    BY <1>4, <2>1, <2>2, <2>4 DEF ResolveSender
<1>5. CASE CountReceiverComplaints(u)
  <2>1. /\ pc'[u] = "readHistory" /\ accounts' = accounts /\ complaints' = complaints
        /\ local'[u].peer = local[u].peer /\ local'[u].payer = local[u].payer
        /\ local'[u].tally = CountComplaintsForSuspect(local[u].peer.id)
    BY <1>0, <1>5 DEF CountReceiverComplaints, Continue, ThreadsTypeOK, LocalType, storeVars,
                      accountVars, complaintVars
  <2>2. QED
    BY <1>5, <2>1 DEF CountReceiverComplaints, TransferFresh, TransferSteps, PaySteps, Current,
                      CountComplaintsForSuspect
<1>6. CASE ReadReceiverHistory(u)
  <2>1. /\ pc'[u] = "execute" /\ accounts' = accounts /\ complaints' = complaints
        /\ txIndex' = txIndex /\ local'[u].tally = local[u].tally
        /\ local'[u].peer = local[u].peer /\ local'[u].payer = local[u].payer
        /\ local'[u].inflow = Len(txIndex[local[u].peer.id])
    BY <1>0, <1>6 DEF ReadReceiverHistory, FindTransactionsByAccount, Continue, ThreadsTypeOK,
                      LocalType, storeVars, accountVars, complaintVars, ledgerVars
  <2>2. QED
    BY <1>6, <2>1 DEF ReadReceiverHistory, TransferFresh, TransferSteps, PaySteps, Current,
                      CountComplaintsForSuspect
<1>7. QED
  BY <1>2, <1>3, <1>4, <1>5, <1>6 DEF TransferStep

LEMMA ModerationKeepsFresh ==
    ASSUME TypeInv, NEW u \in Threads, ModerationStep(u)
    PROVE  ModerationFresh(u)'
<1>0. /\ ThreadsTypeOK /\ AccountsTypeOK
      /\ local[u] \in LocalType /\ StepSound(pc[u], req[u], local[u])
  BY DEF TypeInv, StoreTypeOK, ThreadsTypeOK, ThreadsSound
<1>1. CASE pc'[u] # "setStatus"
  BY <1>1 DEF ModerationFresh
<1>2. CASE SetAccountStatus(u) \/ \E code : Reply(u, code, NoTx)
  BY <1>0, <1>1, <1>2 DEF SetAccountStatus, Reply, Respond, ThreadsTypeOK
<1>3. CASE \E step : step # "setStatus" /\ Continue(u, step, local[u])
  BY <1>0, <1>1, <1>3 DEF Continue, ThreadsTypeOK
<1>4. ASSUME NEW a \in DOMAIN accounts, UNCHANGED storeVars,
             Continue(u, "setStatus", [local[u] EXCEPT !.peer = Snapshot(a)])
      PROVE  ModerationFresh(u)'
  <2>1. local'[u].peer = Snapshot(a) /\ accounts' = accounts
    BY <1>0, <1>4 DEF Continue, ThreadsTypeOK, LocalType, storeVars, accountVars
  <2>2. QED
    BY <2>1 DEF ModerationFresh, Current, Snapshot
<1>5. /\ FindAccountByUpi(req[u].account) \subseteq DOMAIN accounts
      /\ FindAccountById(req[u].account) \subseteq DOMAIN accounts
  <2>1. req[u].account \in Names
    BY <1>0, HandlerSteps DEF StepSound, ModerationRequest
  <2>2. QED
    BY <1>0, <2>1, FindAccountByUpiType, FindAccountByIdType
<1>6. QED
  BY <1>2, <1>3, <1>4, <1>5 DEF ModerationStep, FindAccountToModerate, FindHandleToModerate

LEMMA RegistrationKeepsFresh ==
    ASSUME TypeInv, NEW u \in Threads, RegistrationStep(u), RegistrationFresh(u)
    PROVE  RegistrationFresh(u)'
<1>0. /\ ThreadsTypeOK /\ StepSound(pc[u], req[u], local[u])
      /\ req'[u] = req[u]
  BY HandlersStay DEF TypeInv, ThreadsTypeOK, ThreadsSound, Stays
<1>1. CASE FindAccountToClaim(u)
  <2>1. req[u].number \in Names \ {Empty}
    BY <1>0, <1>1
    DEF FindAccountToClaim, StepSound, ConsumerSteps, RegistrationRequest, Given
  <2>2. \/ Continue(u, "createUser", local[u])
        \/ req[u].number \notin DOMAIN accounts
    BY <1>1, <2>1 DEF FindAccountToClaim, FindAccountById
  <2>3. accounts' = accounts
    BY <1>1 DEF FindAccountToClaim, storeVars, accountVars
  <2>4. QED
    BY <1>0, <2>2, <2>3 DEF RegistrationFresh, Continue, ThreadsTypeOK
<1>2. CASE DeriveHandle(u)
  BY <1>0, <1>2 DEF DeriveHandle, RegistrationFresh, storeVars, accountVars
<1>3. CASE ~FindAccountToClaim(u) /\ ~DeriveHandle(u)
  <2>1. pc'[u] \notin {"deriveHandle", "openAccount"}
    BY <1>0, <1>3 DEF RegistrationStep, RefuseRegistration, CheckAccountUser, CheckNumberAsUsername,
           OpenAccount, CreateConsumer, CreateConsumerByNumber, CheckEmployeeUsername,
           CreateEmployee, Continue, Grant, Reply, Respond, ThreadsTypeOK
  <2>2. QED
    BY <2>1 DEF RegistrationFresh
<1>4. QED
  BY <1>1, <1>2, <1>3

LEMMA ComplaintKeepsFresh ==
    ASSUME TypeInv, IndexAlive, NEW u \in Threads, ComplaintStep(u), ComplaintFresh(u),
           ExternalEarly(u)
    PROVE  ComplaintFresh(u)'
<1>0. /\ ThreadsTypeOK /\ AccountsTypeOK
      /\ local[u] \in LocalType /\ StepSound(pc[u], req[u], local[u])
      /\ req'[u] = req[u]
  BY HandlersStay DEF TypeInv, StoreTypeOK, ThreadsTypeOK, ThreadsSound, Stays
<1>1. ASSUME pc'[u] \in {"idle", "done"}
      PROVE  ComplaintFresh(u)'
  BY <1>1 DEF ComplaintFresh
<1>2. AfterSuspect(u) \in {"record", "ownership"}
  BY DEF AfterSuspect
<1>3. CASE (\E code : Reply(u, code, NoTx)) \/ TaintSuspect(u)
  BY <1>0, <1>1, <1>3 DEF TaintSuspect, Reply, Respond, ThreadsTypeOK
<1>4. ASSUME NEW a \in DOMAIN accounts, UNCHANGED storeVars, ~local[u].external,
             Continue(u, AfterSuspect(u), [local[u] EXCEPT !.peer = Snapshot(a)])
      PROVE  ComplaintFresh(u)'
  <2>1. /\ pc'[u] \in {"record", "ownership"} /\ local'[u].peer = Snapshot(a)
        /\ ~local'[u].external /\ accounts' = accounts
    BY <1>0, <1>2, <1>4 DEF Continue, ThreadsTypeOK, LocalType, storeVars, accountVars
  <2>2. QED
    BY <2>1 DEF ComplaintFresh, Current, Snapshot
<1>5. CASE FindSuspectByUpi(u)
  <2>1. CASE /\ FindAccountByUpi(req[u].suspect) = {} /\ UNCHANGED storeVars
             /\ Continue(u, "suspectById", local[u])
    <3>1. pc'[u] = "suspectById" /\ FindAccountByUpi(req[u].suspect)' = {}
      BY <1>0, <2>1 DEF Continue, ThreadsTypeOK, storeVars, accountVars, FindAccountByUpi,
                        UpiExact, UpiFolded, UpiScanned, UpiOverlapping
    <3>2. QED
      BY <1>0, <3>1 DEF ComplaintFresh
  <2>2. ~local[u].external
    BY <1>5 DEF ExternalEarly, FindSuspectByUpi
  <2>3. FindAccountByUpi(req[u].suspect) \subseteq DOMAIN accounts
    BY FindAccountByUpiType
  <2>4. QED
    BY <1>4, <1>5, <2>1, <2>2, <2>3 DEF FindSuspectByUpi
<1>6. CASE FindSuspectById(u)
  <2>1. CASE /\ FindAccountById(req[u].suspect) = {} /\ UNCHANGED storeVars
             /\ Continue(u, "provision", local[u])
    <3>1. FindAccountByUpi(req[u].suspect) = {}
      BY <1>6 DEF ComplaintFresh, FindSuspectById
    <3>2. /\ pc'[u] = "provision" /\ FindAccountByUpi(req[u].suspect)' = {}
          /\ FindAccountById(req[u].suspect)' = {}
      BY <1>0, <2>1, <3>1 DEF Continue, ThreadsTypeOK, storeVars, accountVars, FindAccountByUpi,
                        UpiExact, UpiFolded, UpiScanned, UpiOverlapping, FindAccountById
    <3>3. QED
      BY <1>0, <3>2 DEF ComplaintFresh
  <2>2. ~local[u].external
    BY <1>6 DEF ExternalEarly, FindSuspectById
  <2>3. req[u].suspect \in Names
    BY <1>0, <1>6 DEF FindSuspectById, StepSound, ComplaintSteps, ComplaintRequest
  <2>4. FindAccountById(req[u].suspect) \subseteq DOMAIN accounts
    BY <1>0, <2>3, FindAccountByIdType
  <2>5. QED
    BY <1>4, <1>6, <2>1, <2>2, <2>4 DEF FindSuspectById
<1>7. CASE ProvisionSuspect(u)
  <2>1. FindAccountByUpi(req[u].suspect) = {}
    BY <1>7 DEF ComplaintFresh, ProvisionSuspect
  <2>2. PICK id \in ProvisionedIds(req[u]) :
            /\ CreateAccount(id, ExternalAccount(req[u]))
            /\ Continue(u, AfterSuspect(u),
                [local[u] EXCEPT !.peer = [id |-> id, account |-> ExternalAccount(req[u])],
                                 !.external = TRUE])
    BY <1>7 DEF ProvisionSuspect
  <2>3. /\ pc'[u] \in {"record", "ownership"}
        /\ local'[u].peer = [id |-> id, account |-> ExternalAccount(req[u])]
    BY <1>0, <1>2, <2>2 DEF Continue, ThreadsTypeOK, LocalType
  <2>4. ExternalAccount(req[u]).upi \notin DOMAIN upiIndex
    BY <2>1, UnfoundIsFree DEF ExternalAccount
  <2>5. id \in DOMAIN accounts' /\ accounts'[id] = ExternalAccount(req[u])
    BY <2>2, <2>4 DEF CreateAccount, Put
  <2>6. ExternalAccount(req[u]).status = "FLAGGED"
    BY DEF ExternalAccount
  <2>7. QED
    BY <2>3, <2>5, <2>6 DEF ComplaintFresh, Current
<1>8. CASE CheckOwnership(u)
  <2>1. CASE Continue(u, "record", local[u])
    BY <1>0, <1>8, <2>1 DEF CheckOwnership, ComplaintFresh, Current, Continue, ThreadsTypeOK,
                            storeVars, accountVars
  <2>2. QED
    BY <1>3, <1>8, <2>1 DEF CheckOwnership
<1>9. CASE RecordComplaint(u)
  <2>1. CASE Continue(u, "count", local[u])
    BY <1>0, <1>9, <2>1 DEF RecordComplaint, ComplaintFresh, Current, Continue, ThreadsTypeOK,
                            accountVars
  <2>2. CASE Reply(u, 201, NoTx)
    BY <1>3, <2>2
  <2>3. QED
    BY <1>9, <2>1, <2>2 DEF RecordComplaint
<1>10. CASE CountSuspectComplaints(u)
  <2>1. /\ pc'[u] = "taint" /\ accounts' = accounts /\ complaints' = complaints
        /\ local'[u].peer = local[u].peer
        /\ local'[u].tally = CountComplaintsForSuspect(local[u].peer.id)
    BY <1>0, <1>10 DEF CountSuspectComplaints, Continue, ThreadsTypeOK, LocalType, storeVars,
                       accountVars, complaintVars
  <2>2. QED
    BY <1>10, <2>1 DEF CountSuspectComplaints, ComplaintFresh, Current,
                       CountComplaintsForSuspect
<1>11. CASE RefuseComplaint(u)
  BY <1>3, <1>11 DEF RefuseComplaint
<1>12. QED
  BY <1>3, <1>5, <1>6, <1>7, <1>8, <1>9, <1>10, <1>11 DEF ComplaintStep

(* Away from the steps that rely on what was read, nothing is to be shown. *)
LEMMA NothingRead ==
    ASSUME NEW u \in Threads
    PROVE  /\ pc'[u] \notin TransferSteps \ {"receiver"} => TransferFresh(u)'
           /\ pc'[u] \notin ComplaintSteps \ {"suspectByUpi"} => ComplaintFresh(u)'
           /\ pc'[u] # "setStatus" => ModerationFresh(u)'
           /\ pc'[u] \notin {"deriveHandle", "openAccount"} => RegistrationFresh(u)'
<1>1. pc'[u] \notin TransferSteps \ {"receiver"} => TransferFresh(u)'
  BY DEF TransferFresh, TransferSteps, PaySteps
<1>2. pc'[u] \notin ComplaintSteps \ {"suspectByUpi"} => ComplaintFresh(u)'
  BY DEF ComplaintFresh, ComplaintSteps
<1>3. QED
  BY <1>1, <1>2 DEF ModerationFresh, RegistrationFresh

LEMMA ServeKeepsFresh ==
    ASSUME TypeInv, IndexAlive, NEW u \in Threads, Serve(u), HandlerFresh(u), ExternalEarly(u)
    PROVE  HandlerFresh(u)'
<1>0. ThreadsTypeOK
  BY DEF TypeInv
<1>1. CASE TransferStep(u)
  <2>1. pc'[u] \in TransferSteps \cup {"done"} /\ TransferFresh(u)'
    BY <1>0, <1>1, HandlersStay, TransferKeepsFresh DEF Stays, HandlerFresh
  <2>2. QED
    BY <2>1, NothingRead DEF HandlerFresh, TransferSteps, ComplaintSteps
<1>2. CASE ComplaintStep(u)
  <2>1. pc'[u] \in ComplaintSteps \cup {"done"} /\ ComplaintFresh(u)'
    BY <1>0, <1>2, HandlersStay, ComplaintKeepsFresh DEF Stays, HandlerFresh
  <2>2. QED
    BY <2>1, NothingRead DEF HandlerFresh, TransferSteps, ComplaintSteps
<1>3. CASE ModerationStep(u)
  <2>1. pc'[u] \in ModerationSteps \cup {"done"} /\ ModerationFresh(u)'
    BY <1>0, <1>3, HandlersStay, ModerationKeepsFresh DEF Stays
  <2>2. QED
    BY <2>1, NothingRead DEF HandlerFresh, TransferSteps, ComplaintSteps, ModerationSteps
<1>4. CASE RegistrationStep(u)
  <2>1. pc'[u] \in ConsumerSteps \cup EmployeeSteps \cup {"done"} /\ RegistrationFresh(u)'
    BY <1>0, <1>4, HandlersStay, RegistrationKeepsFresh DEF Stays, HandlerFresh
  <2>2. QED
    BY <2>1, NothingRead
    DEF HandlerFresh, TransferSteps, ComplaintSteps, ConsumerSteps, EmployeeSteps
<1>5. CASE TriageStep(u) \/ LoginStep(u) \/ ProfileStep(u)
  <2>1. pc'[u] \in TriageSteps \cup LoginSteps \cup ProfileSteps \cup {"done"}
    BY <1>0, <1>5, HandlersStay DEF Stays
  <2>2. QED
    BY <2>1, NothingRead
    DEF HandlerFresh, TransferSteps, ComplaintSteps, TriageSteps, LoginSteps, ProfileSteps
<1>6. QED
  BY <1>1, <1>2, <1>3, <1>4, <1>5 DEF Serve

LEMMA StepFresh ==
    ASSUME MaxInFlight = 1, TypeInv, Alone, IndexAlive, [Next]_vars,
           NEW u \in Threads, ExternalEarly(u), HandlerFresh(u)
    PROVE  HandlerFresh(u)'
<1>1. CASE UNCHANGED vars
  <2>1. /\ UNCHANGED <<accounts, upiIndex, complaints, txIndex>>
        /\ UNCHANGED <<pc, req, local>>
    BY <1>1 DEF vars, storeVars, accountVars, complaintVars, ledgerVars, threadVars
  <2>2. TransferFresh(u)'
    BY <2>1 DEF HandlerFresh, TransferFresh, Current, CountComplaintsForSuspect
  <2>3. FindAccountByUpi(req[u].suspect)' = FindAccountByUpi(req[u].suspect)
    BY <2>1 DEF FindAccountByUpi, UpiExact, UpiFolded, UpiScanned, UpiOverlapping
  <2>4. FindAccountById(req[u].suspect)' = FindAccountById(req[u].suspect)
    BY <2>1 DEF FindAccountById
  <2>5. ComplaintFresh(u)'
    BY <2>1, <2>3, <2>4 DEF HandlerFresh, ComplaintFresh, Current, CountComplaintsForSuspect
  <2>6. QED
    BY <2>1, <2>2, <2>5 DEF HandlerFresh, ModerationFresh, RegistrationFresh, Current
<1>2. CASE Serve(u)
  BY <1>2, ServeKeepsFresh
<1>3. CASE pc'[u] \in {"idle", "done"}
  BY <1>3, NothingRead DEF HandlerFresh, TransferSteps, ComplaintSteps
<1>4. CASE \E r \in Requests : Accept(u, r)
  <2>1. pc'[u] \in {"receiver", "suspectByUpi", "complaint", "accountById",
                    "userByAccount", "employeeByName", "userOfNumber", "userOfName",
                    "userOfToken", "accountOfToken"}
    BY <1>4, FirstSteps DEF TypeInv
  <2>2. QED
    BY <2>1, NothingRead DEF HandlerFresh, TransferSteps, ComplaintSteps
<1>5. QED
  BY <1>1, <1>2, <1>3, <1>4, OnlyOne

AllFresh == \A t \in Threads : HandlerFresh(t)

LEMMA FreshHolds ==
    ASSUME MaxInFlight = 1
    PROVE  Spec => []AllFresh
<1>1. Init => AllFresh
  <2> SUFFICES ASSUME Init, NEW t \in Threads
               PROVE  HandlerFresh(t)
    BY DEF AllFresh
  <2>1. pc[t] = "idle"
    BY DEF Init, WorkersInit
  <2>2. QED
    BY <2>1 DEF HandlerFresh, TransferFresh, ComplaintFresh, ModerationFresh, RegistrationFresh,
                TransferSteps, PaySteps
<1>2. TypeInv /\ Alone /\ IndexAlive /\ TaintInv /\ AllFresh /\ [Next]_vars => AllFresh'
  BY StepFresh DEF AllFresh, TaintInv, ProvisionedNew
<1>3. QED
  BY <1>1, <1>2, TypeInvHolds, AloneHolds, IndexAliveHolds, TaintHolds, PTL DEF Spec

-----------------------------------------------------------------------------
(* Payments.                                                               *)

LEMMA StepDecision ==
    ASSUME TypeInv, AllFresh, [Next]_vars, Len(transactions') > Len(transactions)
    PROVE  LET tx == Last(transactions')
           IN  tx.status =
                Verdict(Score(accounts[tx.receiver].risk,
                              CountComplaintsForSuspect(tx.receiver),
                              Len(txIndex[tx.receiver]),
                              accounts[tx.sender].balance, tx.amount)).status
<1>1. ~UNCHANGED transactions
  BY DEF TypeInv, StoreTypeOK, LedgerTypeOK
<1>2. PICK t \in Threads : ExecuteTransfer(t)
  <2>1. PICK t \in Threads : Serve(t)
    BY <1>1, Steppers DEF storeVars, ledgerVars
  <2>2. ExecuteTransfer(t)
    BY <1>1, <2>1, Writers
    DEF storeVars, ledgerVars, ProvisionSuspect, RecordComplaint, TaintSuspect,
        SetComplaintStatus, SetAccountStatus, OpenAccount, CreateConsumer,
        CreateConsumerByNumber, CreateEmployee
  <2>3. QED
    BY <2>2
<1> DEFINE s == local[t].payer.id
           r == local[t].peer.id
           tx == [sender |-> s, receiver |-> r, amount |-> req[t].amount,
                  status |-> Evaluate(t).status]
<1>3. transactions' = Append(transactions, tx)
  BY <1>1, <1>2 DEF ExecuteTransfer, ExecuteAtomicTransfer, ledgerVars
<1>4. Last(transactions') = tx
  <2>1. transactions \in Seq(Transaction)
    BY DEF TypeInv, StoreTypeOK, LedgerTypeOK
  <2> HIDE DEF tx
  <2>2. QED
    BY <1>3, <2>1 DEF Last
<1>5. /\ local[t].peer.account = accounts[r] /\ local[t].payer.account = accounts[s]
      /\ local[t].tally = CountComplaintsForSuspect(r)
      /\ local[t].inflow = Len(txIndex[r])
  BY <1>2
  DEF AllFresh, HandlerFresh, TransferFresh, ExecuteTransfer, Current, TransferSteps, PaySteps
<1>6. QED
  BY <1>4, <1>5 DEF Evaluate

(* Served one at a time, a payment is let through, flagged or held as the  *)
(* rules say of the parties the handler resolved.                          *)
THEOREM DecisionsByRules ==
    ASSUME MaxInFlight = 1
    PROVE  Spec => DecidedByRules
<1> DEFINE Decided ==
        Len(transactions') > Len(transactions) =>
            LET tx == Last(transactions')
            IN  tx.status =
                    Verdict(Score(accounts[tx.receiver].risk,
                                  CountComplaintsForSuspect(tx.receiver),
                                  Len(txIndex[tx.receiver]),
                                  accounts[tx.sender].balance, tx.amount)).status
<1>1. TypeInv /\ AllFresh /\ [Next]_vars => [Decided]_vars
  BY StepDecision
<1>2. QED
  BY <1>1, TypeInvHolds, FreshHolds, PTL DEF Spec, DecidedByRules

-----------------------------------------------------------------------------
(* Complaints.                                                             *)

LEMMA ComplaintWrites ==
    ASSUME TypeInv, [Next]_vars
    PROVE  \/ UNCHANGED complaintVars
           \/ \E t \in Threads : RecordComplaint(t)
           \/ \E t \in Threads : SetComplaintStatus(t)
<1>1. ASSUME NEW t \in Threads, Serve(t), ~RecordComplaint(t), ~SetComplaintStatus(t)
      PROVE  UNCHANGED complaintVars
  BY <1>1, Writers
  DEF storeVars, ExecuteTransfer, ProvisionSuspect, TaintSuspect, SetAccountStatus,
      OpenAccount, CreateConsumer, CreateConsumerByNumber, CreateEmployee
<1>2. UNCHANGED storeVars => UNCHANGED complaintVars
  BY DEF storeVars
<1>3. QED
  BY <1>1, <1>2, Steppers

LEMMA StepSuspects ==
    ASSUME TypeInv, AllFresh, ComplaintSuspectExists, [Next]_vars
    PROVE  ComplaintSuspectExists'
<1>0. /\ DOMAIN accounts \subseteq DOMAIN accounts'
      /\ IsMap(complaints, ComplaintIds, Complaint)
  BY AccountsStay DEF TypeInv, StoreTypeOK, ComplaintsTypeOK
<1>1. CASE UNCHANGED complaintVars
  BY <1>0, <1>1 DEF complaintVars, ComplaintSuspectExists
<1>2. ASSUME NEW t \in Threads, RecordComplaint(t)
      PROVE  ComplaintSuspectExists'
  <2>1. local[t].peer.id \in DOMAIN accounts
    BY <1>2 DEF AllFresh, HandlerFresh, ComplaintFresh, RecordComplaint, Current
  <2>2. PICK id \in ComplaintIds :
            complaints' = Put(complaints, id,
                [complainant |-> req[t].caller, suspect |-> local[t].peer.id,
                 tx |-> req[t].tx, status |-> "SUBMITTED"])
    BY <1>2 DEF RecordComplaint, CreateComplaint
  <2>3. QED
    BY <1>0, <2>1, <2>2 DEF Put, ComplaintSuspectExists
<1>3. ASSUME NEW t \in Threads, SetComplaintStatus(t)
      PROVE  ComplaintSuspectExists'
  BY <1>0, <1>3 DEF SetComplaintStatus, UpdateComplaintStatus, IsMap, Complaint,
                    ComplaintSuspectExists
<1>4. QED
  BY <1>1, <1>2, <1>3, ComplaintWrites

(* Served one at a time, every complaint names a suspect that exists, the  *)
(* one provisioned for it too although nobody looks at the result.         *)
THEOREM SuspectsExist ==
    ASSUME MaxInFlight = 1
    PROVE  Spec => []ComplaintSuspectExists
<1>1. Init => ComplaintSuspectExists
  BY DEF Init, StoreInit, ComplaintSuspectExists
<1>2. TypeInv /\ AllFresh /\ ComplaintSuspectExists /\ [Next]_vars => ComplaintSuspectExists'
  BY StepSuspects
<1>3. QED
  BY <1>1, <1>2, TypeInvHolds, FreshHolds, PTL DEF Spec

-----------------------------------------------------------------------------
(* Accounts.  Only the account without a name is ever opened again, and    *)
(* then as it was: without a handle.                                       *)

BlankNamed == Empty \in DOMAIN accounts => accounts[Empty].upi = Empty

LEMMA OpensBlank ==
    ASSUME TypeInv, NEW account, Opens(Empty, account)
    PROVE  account.upi = Empty
<1>1. PICK t \in Threads :
        \/ /\ pc[t] = "provision"
           /\ Empty \in ProvisionedIds(req[t]) /\ account.upi = req[t].suspect
        \/ pc[t] = "openAccount" /\ Empty = req[t].number
  BY DEF Opens
<1>2. StepSound(pc[t], req[t], local[t])
  BY DEF TypeInv, ThreadsSound
<1>3. pc[t] # "openAccount"
  BY <1>1, <1>2, WorkersAssumption, StoreAssumption
  DEF StepSound, ConsumerSteps, RegistrationRequest, Given
<1>4. QED
  BY <1>1, <1>3, ComplaintAssumption DEF ProvisionedIds

LEMMA StepBlankNamed ==
    ASSUME TypeInv, BlankNamed, [Next]_vars
    PROVE  BlankNamed'
<1>1. ASSUME NEW id \in Names, NEW account \in Account, Opens(id, account)
      PROVE  BlankNamed'
  <2>1. CASE account.upi \in DOMAIN upiIndex
    BY <1>1, <2>1 DEF Opens, CreateAccount, accountVars, BlankNamed
  <2>2. CASE account.upi \notin DOMAIN upiIndex
    BY <1>1, <2>2, OpensBlank DEF Opens, CreateAccount, Put, BlankNamed
  <2>3. QED
    BY <2>1, <2>2
<1>2. ASSUME NEW s, NEW r, NEW amount, NEW score, Payment(s, r, amount, score)
      PROVE  BlankNamed'
  BY <1>2 DEF Payment, ExecuteAtomicTransfer, Debit, Credit, TypeInv, StoreTypeOK,
              AccountsTypeOK, IsMap, Account, BlankNamed
<1>3. BooksKept => BlankNamed'
  BY DEF BooksKept, BlankNamed
<1>4. QED
  BY <1>1, <1>2, <1>3, BookSteps

LEMMA BlankNamedHolds == Spec => []BlankNamed
<1>1. Init => BlankNamed
  BY StoreAssumption DEF Init, StoreInit, BlankNamed
<1>2. QED
  BY <1>1, StepBlankNamed, TypeInvHolds, PTL DEF Spec

LEMMA OnlyBlankReopened ==
    ASSUME TypeInv, AllFresh, NEW a \in DOMAIN accounts, NEW account, Opens(a, account)
    PROVE  /\ a = Empty
           /\ account.upi = Empty /\ account.status = "FLAGGED"
           /\ \E t \in Threads : pc[t] = "provision" /\ req[t].suspect = Empty
<1>1. PICK t \in Threads :
        \/ /\ pc[t] = "provision" /\ account.status = "FLAGGED"
           /\ a \in ProvisionedIds(req[t]) /\ account.upi = req[t].suspect
        \/ pc[t] = "openAccount" /\ a = req[t].number
  BY DEF Opens
<1>2. pc[t] # "openAccount"
  BY <1>1 DEF AllFresh, HandlerFresh, RegistrationFresh
<1>3. a = req[t].suspect /\ FindAccountById(a) = {}
  BY <1>1, <1>2 DEF AllFresh, HandlerFresh, ComplaintFresh, ProvisionedIds
<1>4. a = Empty
  BY <1>3 DEF FindAccountById
<1>5. QED
  BY <1>1, <1>2, <1>3, <1>4

(* Served one at a time, whoever opens an account has looked for it, and   *)
(* it is still not there: this is what HandlesLeadSerially rests on.       *)
LEMMA SerialAccountsKept ==
    ASSUME MaxInFlight = 1
    PROVE  Spec => NoAccountReplaced
<1>1. ASSUME TypeInv, AllFresh, BlankNamed, [Next]_vars, NEW a \in DOMAIN accounts
      PROVE  accounts'[a].upi = accounts[a].upi
  <2>1. CASE ~Reopened(a)
    BY <1>1, <2>1, HandleKept
  <2>2. CASE Reopened(a)
    <3>1. PICK account \in Account : Opens(a, account) /\ account.upi \notin DOMAIN upiIndex
      BY <2>2 DEF Reopened
    <3>2. a = Empty /\ account.upi = Empty
      BY <1>1, <3>1, OnlyBlankReopened
    <3>3. accounts'[a] = account
      BY <3>1 DEF Opens, CreateAccount, Put
    <3>4. QED
      BY <1>1, <3>2, <3>3 DEF BlankNamed
  <2>3. QED
    BY <2>1, <2>2
<1>2. TypeInv /\ AllFresh /\ BlankNamed /\ [Next]_vars =>
        [\A a \in DOMAIN accounts : accounts'[a].upi = accounts[a].upi]_vars
  BY <1>1
<1>3. QED
  BY <1>2, TypeInvHolds, FreshHolds, BlankNamedHolds, PTL DEF Spec, NoAccountReplaced

(* And so every indexed handle leads to the account that bears it.         *)
THEOREM HandlesLeadSerially ==
    ASSUME MaxInFlight = 1
    PROVE  Spec => []HandlesSound
BY SerialAccountsKept, KeptHandlesSound, PTL

(* No complaint is filed against the empty name.                           *)
SuspectsGiven == \A r \in Requests : r.kind = "complaint" => r.suspect # Empty

LEMMA NothingReopened ==
    ASSUME SuspectsGiven, TypeInv, AllFresh, NEW a \in DOMAIN accounts
    PROVE  ~Reopened(a)
<1> SUFFICES ASSUME Reopened(a)
             PROVE  FALSE
  OBVIOUS
<1>1. PICK t \in Threads : pc[t] = "provision" /\ req[t].suspect = Empty
  BY OnlyBlankReopened DEF Reopened
<1>2. req[t] \in ComplaintRequest /\ req[t] \in Requests \cup {None}
  BY <1>1 DEF TypeInv, ThreadsSound, ThreadsTypeOK, StepSound, ComplaintSteps
<1>3. req[t] \in Requests /\ req[t].kind = "complaint"
  BY <1>2, WorkersAssumption DEF ComplaintRequest, RequestTypes
<1>4. QED
  BY <1>1, <1>3 DEF SuspectsGiven

(* Served one at a time, sign-ups included, the program keeps the books of *)
(* module Ledger.                                                          *)
THEOREM LedgerImplementedSerially ==
    ASSUME MaxInFlight = 1, SuspectsGiven
    PROVE  Spec => ImplementsLedger
<1>1. TypeInv /\ AllFresh => [\A a \in DOMAIN accounts : ~Reopened(a)]_vars
  BY NothingReopened
<1>2. Spec => OpenedOnce
  BY <1>1, TypeInvHolds, FreshHolds, PTL DEF OpenedOnce
<1>3. QED
  BY <1>2, OnceImplementsLedger, PTL

-----------------------------------------------------------------------------
(* What becomes of an account's status.                                    *)

LEMMA StatusSteps ==
    ASSUME TypeInv, [Next]_vars, NEW a \in DOMAIN accounts, ~Reopened(a)
    PROVE  \/ accounts'[a].status = accounts[a].status
           \/ \E t \in Threads :
                /\ SetAccountStatus(t) /\ local[t].peer.id = a
                /\ req[t].status \in AccountStatus /\ accounts'[a].status = req[t].status
           \/ \E t \in Threads :
                LET suspect == local[t].peer.account
                IN  /\ TaintSuspect(t) /\ local[t].peer.id = a
                    /\ accounts'[a].status =
                            StatusAfterComplaint(suspect.status, suspect.risk, local[t].tally)
<1>0. accounts[a] \in Account
  BY DEF TypeInv, StoreTypeOK, AccountsTypeOK, IsMap
<1>1. UNCHANGED accountVars => accounts'[a].status = accounts[a].status
  BY DEF accountVars
<1>2. ASSUME NEW account \in Account, NEW id, Opens(id, account)
      PROVE  accounts'[a].status = accounts[a].status
  <2>1. CASE account.upi \in DOMAIN upiIndex
    BY <1>1, <1>2, <2>1 DEF Opens, CreateAccount
  <2>2. CASE account.upi \notin DOMAIN upiIndex
    BY <1>2, <2>2 DEF Opens, CreateAccount, Put, Reopened
  <2>3. QED
    BY <2>1, <2>2
<1>3. ASSUME NEW s, NEW r, NEW amount, NEW score, Payment(s, r, amount, score)
      PROVE  accounts'[a].status = accounts[a].status
  BY <1>0, <1>3 DEF Payment, ExecuteAtomicTransfer, Debit, Credit, Account
<1>4. ASSUME NEW t \in Threads, SetAccountStatus(t)
      PROVE  \/ accounts'[a].status = accounts[a].status
             \/ /\ local[t].peer.id = a /\ req[t].status \in AccountStatus
                /\ accounts'[a].status = req[t].status
  BY <1>0, <1>1, <1>4 DEF SetAccountStatus, UpdateAccountStatus, Account
<1>5. ASSUME NEW t \in Threads, TaintSuspect(t)
      PROVE  \/ accounts'[a].status = accounts[a].status
             \/ /\ local[t].peer.id = a
                /\ accounts'[a].status =
                        StatusAfterComplaint(local[t].peer.account.status,
                                             local[t].peer.account.risk, local[t].tally)
  BY <1>0, <1>5 DEF TaintSuspect, ApplyTaintUpdate, Account
<1>6. QED
  BY <1>1, <1>2, <1>3, <1>4, <1>5, AccountWrites

LEMMA TaintReads ==
    ASSUME AllFresh, NEW t \in Threads, TaintSuspect(t)
    PROVE  LET a == local[t].peer.id
           IN  /\ a \in DOMAIN accounts /\ local[t].peer.account = accounts[a]
               /\ local[t].tally = CountComplaintsForSuspect(a)
BY DEF AllFresh, HandlerFresh, ComplaintFresh, TaintSuspect, Current

(* Served one at a time, only a moderation request takes an account out of *)
(* FROZEN.                                                                 *)
THEOREM FreezesHold ==
    ASSUME MaxInFlight = 1, SuspectsGiven
    PROVE  Spec => FreezeHolds
<1>1. ASSUME TypeInv, AllFresh, [Next]_vars, NEW a \in DOMAIN accounts,
             accounts[a].status = "FROZEN", accounts'[a].status # "FROZEN"
      PROVE  \E t \in Threads : pc[t] = "setStatus" /\ pc'[t] = "done"
  <2>1. ASSUME NEW t \in Threads, TaintSuspect(t), local[t].peer.id = a
        PROVE  StatusAfterComplaint(local[t].peer.account.status, local[t].peer.account.risk,
                                    local[t].tally) = "FROZEN"
    BY <1>1, <2>1, TaintReads DEF StatusAfterComplaint
  <2>2. ASSUME NEW t \in Threads, SetAccountStatus(t)
        PROVE  pc[t] = "setStatus" /\ pc'[t] = "done"
    BY <1>1, <2>2 DEF SetAccountStatus, Reply, Respond, TypeInv, ThreadsTypeOK
  <2>3. QED
    BY <1>1, <2>1, <2>2, NothingReopened, StatusSteps
<1>2. TypeInv /\ AllFresh /\ [Next]_vars =>
        [\A a \in DOMAIN accounts :
            accounts[a].status = "FROZEN" /\ accounts'[a].status # "FROZEN" =>
                \E t \in Threads : pc[t] = "setStatus" /\ pc'[t] = "done"]_vars
  BY <1>1
<1>3. QED
  BY <1>2, TypeInvHolds, FreshHolds, PTL DEF Spec, FreezeHolds

-----------------------------------------------------------------------------
(* Two complaints.                                                         *)

(* A complaint that bank employees reject they do not take up again.       *)
NoneReinstated ==
    \A q, r \in Requests :
        /\ q.kind = "triage" /\ r.kind = "triage" /\ q.complaint = r.complaint
        /\ q.status = "REJECTED"
        => r.status = "REJECTED"

(* A rejected complaint is one they reject.                                *)
RejectedByTriage ==
    \A c \in DOMAIN complaints :
        complaints[c].status = "REJECTED" =>
            \E r \in Requests : r.kind = "triage" /\ r.complaint = c /\ r.status = "REJECTED"

(* The complaint that made two is filed by a request that has yet to write *)
(* the status.                                                             *)
BeingFlagged(a) ==
    \E t \in Threads : pc[t] \in {"count", "taint"} /\ local[t].peer.id = a

Suspected(a) == CountComplaintsForSuspect(a) >= 2 /\ ~ReactivatedByBank(a)

FlagSound ==
    \A a \in DOMAIN accounts :
        Suspected(a) => accounts[a].status # "ACTIVE" \/ BeingFlagged(a)

Against(a) == {c \in DOMAIN complaints :
                    complaints[c].suspect = a /\ complaints[c].status # "REJECTED"}

LEMMA AgainstFinite ==
    ASSUME ComplaintsTypeOK, NEW a
    PROVE  IsFiniteSet(Against(a)) /\ CountComplaintsForSuspect(a) = Cardinality(Against(a))
<1>1. IsFiniteSet(ComplaintIds) /\ Against(a) \subseteq ComplaintIds
  BY StoreAssumption DEF ComplaintsTypeOK, IsMap, Against
<1>2. QED
  BY <1>1, FS_Subset DEF Against, CountComplaintsForSuspect

(* Fewer complaints, a smaller count.                                      *)
LEMMA FewerAgainst ==
    ASSUME ComplaintsTypeOK, ComplaintsTypeOK', NEW a, Against(a)' \subseteq Against(a),
           CountComplaintsForSuspect(a)' >= 2
    PROVE  CountComplaintsForSuspect(a) >= 2
<1>1. IsFiniteSet(Against(a)) /\ CountComplaintsForSuspect(a) = Cardinality(Against(a))
  BY AgainstFinite
<1>2. CountComplaintsForSuspect(a)' = Cardinality(Against(a)')
  BY DEF Against, CountComplaintsForSuspect
<1>3. Cardinality(Against(a)') <= Cardinality(Against(a))
  BY <1>1, FS_Subset
<1>4. Cardinality(Against(a)') \in Nat /\ Cardinality(Against(a)) \in Nat
  BY <1>1, FS_Subset, FS_CardinalityType
<1>5. QED
  BY <1>1, <1>2, <1>3, <1>4

(* A complaint more against an account is one being filed against it.      *)
LEMMA MoreAgainst ==
    ASSUME NoneReinstated, TypeInv, RejectedByTriage, [Next]_vars,
           NEW a, ~(Against(a)' \subseteq Against(a))
    PROVE  \E t \in Threads :
                /\ RecordComplaint(t) /\ local[t].peer.id = a
                /\ \/ local[t].external
                   \/ pc'[t] = "count" /\ local'[t].peer = local[t].peer
<1>0. IsMap(complaints, ComplaintIds, Complaint)
  BY DEF TypeInv, StoreTypeOK, ComplaintsTypeOK
<1>1. ~UNCHANGED complaints
  BY DEF Against
<1>2. ASSUME NEW t \in Threads, SetComplaintStatus(t)
      PROVE  FALSE
  <2> DEFINE id == req[t].complaint
  <2>1. id \in DOMAIN complaints /\ complaints' = [complaints EXCEPT ![id].status = req[t].status]
    BY <1>1, <1>2 DEF SetComplaintStatus, UpdateComplaintStatus
  <2>2. req[t] \in Requests /\ req[t].kind = "triage"
    <3>1. req[t] \in TriageRequest /\ req[t] \in Requests \cup {None}
      BY <1>2 DEF SetComplaintStatus, TypeInv, ThreadsSound, ThreadsTypeOK, StepSound, TriageSteps
    <3>2. QED
      BY <3>1, WorkersAssumption DEF TriageRequest, RequestTypes
  <2>3. complaints[id].status = "REJECTED" => req[t].status = "REJECTED"
    BY <2>1, <2>2 DEF RejectedByTriage, NoneReinstated
  <2>4. \A c \in DOMAIN complaints :
            /\ c \in DOMAIN complaints' /\ complaints'[c].suspect = complaints[c].suspect
            /\ c # id => complaints'[c].status = complaints[c].status
            /\ c = id => complaints'[c].status = req[t].status
    BY <1>0, <2>1 DEF IsMap, Complaint
  <2>5. DOMAIN complaints' = DOMAIN complaints
    BY <2>1
  <2> HIDE DEF id
  <2>6. QED
    BY <2>3, <2>4, <2>5 DEF Against
<1>3. PICK t \in Threads : RecordComplaint(t)
  BY <1>1, <1>2, ComplaintWrites DEF complaintVars
<1>4. local[t].peer.id = a
  <2>1. PICK id \in ComplaintIds :
            complaints' = Put(complaints, id,
                [complainant |-> req[t].caller, suspect |-> local[t].peer.id,
                 tx |-> req[t].tx, status |-> "SUBMITTED"])
    BY <1>3 DEF RecordComplaint, CreateComplaint
  <2>2. QED
    BY <2>1 DEF Put, Against
<1>5. local[t].external \/ (pc'[t] = "count" /\ local'[t].peer = local[t].peer)
  BY <1>3 DEF RecordComplaint, Continue, TypeInv, ThreadsTypeOK
<1>6. QED
  BY <1>3, <1>4, <1>5

LEMMA TaintFlags ==
    ASSUME TypeInv, AllFresh, [Next]_vars, NEW t \in Threads, TaintSuspect(t),
           CountComplaintsForSuspect(local[t].peer.id) >= 2
    PROVE  accounts'[local[t].peer.id].status # "ACTIVE"
<1> DEFINE a == local[t].peer.id
           suspect == local[t].peer.account
<1>1. /\ a \in DOMAIN accounts /\ suspect = accounts[a]
      /\ local[t].tally = CountComplaintsForSuspect(a)
  BY TaintReads
<1>2. StatusAfterComplaint(suspect.status, suspect.risk, local[t].tally) # "ACTIVE"
  BY <1>1 DEF StatusAfterComplaint
<1>3. accounts[a] \in Account
  BY <1>1 DEF TypeInv, StoreTypeOK, AccountsTypeOK, IsMap
<1>4. QED
  BY <1>1, <1>2, <1>3 DEF TaintSuspect, ApplyTaintUpdate, Account

(* A request that is counting goes on to write the status it leads to.     *)
LEMMA FlaggingGoesOn ==
    ASSUME TypeInv, [Next]_vars, NEW a, BeingFlagged(a), ~BeingFlagged(a)'
    PROVE  \E t \in Threads : TaintSuspect(t) /\ local[t].peer.id = a
<1>0. ThreadsTypeOK
  BY DEF TypeInv
<1>1. PICK t \in Threads : pc[t] \in {"count", "taint"} /\ local[t].peer.id = a
  BY DEF BeingFlagged
<1>2. ~(pc'[t] \in {"count", "taint"} /\ local'[t].peer.id = a)
  BY DEF BeingFlagged
<1>3. Serve(t)
  <2>1. pc[t] # "idle"
    BY <1>1
  <2>2. QED
    BY <1>0, <1>1, <1>2, <2>1, ThreadMoves DEF Accept
<1>4. ComplaintStep(t)
  BY <1>1, <1>3, HandlerSteps
  DEF Serve, TransferSteps, TriageSteps, ModerationSteps, ConsumerSteps, EmployeeSteps,
      LoginSteps, ProfileSteps
<1>5. CountSuspectComplaints(t) \/ TaintSuspect(t)
  BY <1>1, <1>4 DEF ComplaintStep, RefuseComplaint, FindSuspectByUpi, FindSuspectById,
                    ProvisionSuspect, CheckOwnership, RecordComplaint
<1>6. ~CountSuspectComplaints(t)
  <2> SUFFICES ASSUME CountSuspectComplaints(t)
               PROVE  pc'[t] = "taint" /\ local'[t].peer = local[t].peer
    BY <1>1, <1>2
  <2>1. QED
    BY <1>0 DEF CountSuspectComplaints, Continue, ThreadsTypeOK, LocalType
<1>7. QED
  BY <1>1, <1>5, <1>6

(* What a bank employee did stays done.                                    *)
LEMMA ReactivatedStays ==
    ASSUME TypeInv, [Next]_vars, NEW a, ReactivatedByBank(a)
    PROVE  ReactivatedByBank(a)'
<1>0. ThreadsTypeOK
  BY DEF TypeInv
<1>1. PICK t \in Threads :
        /\ pc[t] = "done" /\ req[t].kind = "moderation" /\ req[t].status = "ACTIVE"
        /\ answer[t].about = a
  BY DEF ReactivatedByBank, Done
<1>2. ~Serve(t) /\ ~\E r \in Requests : Accept(t, r)
  BY <1>1, ServesInFlight, Resting DEF Accept
<1>3. pc'[t] = pc[t] /\ req'[t] = req[t] /\ answer'[t] = answer[t]
  BY <1>0, <1>2, ThreadMoves
<1>4. QED
  BY <1>1, <1>3 DEF ReactivatedByBank, Done

LEMMA StepFlagSound ==
    ASSUME NoneReinstated, TypeInv, TypeInv', AllFresh, RejectedByTriage,
           ComplaintSuspectExists, FlagSound, [Next]_vars
    PROVE  FlagSound'
<1> SUFFICES ASSUME NEW a \in DOMAIN accounts', Suspected(a)', ~BeingFlagged(a)'
             PROVE  accounts'[a].status # "ACTIVE"
  BY DEF FlagSound
<1>0. /\ ThreadsTypeOK /\ ComplaintsTypeOK /\ ComplaintsTypeOK'
      /\ CountComplaintsForSuspect(a)' >= 2 /\ ~ReactivatedByBank(a)'
  BY DEF TypeInv, StoreTypeOK, Suspected
<1>1. CASE ~(Against(a)' \subseteq Against(a))
  <2>1. PICK t \in Threads :
            /\ RecordComplaint(t) /\ local[t].peer.id = a
            /\ \/ local[t].external
               \/ pc'[t] = "count" /\ local'[t].peer = local[t].peer
    BY <1>1, MoreAgainst
  <2>2. local[t].external
    BY <2>1 DEF BeingFlagged
  <2>3. accounts[a].status = "FLAGGED"
    BY <2>1, <2>2 DEF AllFresh, HandlerFresh, ComplaintFresh, Current, RecordComplaint
  <2>4. QED
    BY <2>1, <2>3 DEF RecordComplaint, accountVars
<1>2. CASE Against(a)' \subseteq Against(a)
  <2>1. CountComplaintsForSuspect(a) >= 2
    BY <1>0, <1>2, FewerAgainst
  <2>2. a \in DOMAIN accounts
    <3>1. a \notin DOMAIN accounts => Against(a) = {}
      BY DEF ComplaintSuspectExists, Against
    <3>2. CountComplaintsForSuspect(a) = Cardinality(Against(a))
      BY <1>0, AgainstFinite
    <3>3. QED
      BY <2>1, <3>1, <3>2, FS_EmptySet
  <2>3. accounts[a].status # "ACTIVE" \/ BeingFlagged(a)
    BY <1>0, <2>1, <2>2, ReactivatedStays DEF FlagSound, Suspected
  <2>4. ASSUME NEW t \in Threads, TaintSuspect(t), local[t].peer.id = a
        PROVE  accounts'[a].status # "ACTIVE"
    BY <2>1, <2>4, TaintFlags
  <2>5. ASSUME NEW t \in Threads, SetAccountStatus(t), local[t].peer.id = a,
               req[t].status \in AccountStatus, accounts'[a].status = req[t].status
        PROVE  accounts'[a].status # "ACTIVE"
    <3>1. StepSound("setStatus", req[t], local[t]) /\ pc[t] = "setStatus"
      BY <2>5 DEF SetAccountStatus, TypeInv, ThreadsSound
    <3>2. req[t].kind = "moderation" /\ local[t].peer # None
      BY <3>1, WorkersAssumption DEF StepSound, ModerationSteps, ModerationRequest, Peer
    <3>3. pc'[t] = "done" /\ req'[t] = req[t] /\ answer'[t].about = a
      BY <1>0, <2>5, <3>2 DEF SetAccountStatus, Reply, Respond, ThreadsTypeOK
    <3>4. QED
      BY <1>0, <2>5, <3>2, <3>3 DEF ReactivatedByBank, Done
  <2>6. CASE Reopened(a)
    <3>1. PICK account \in Account : Opens(a, account) /\ account.upi \notin DOMAIN upiIndex
      BY <2>6 DEF Reopened
    <3>2. accounts'[a] = account /\ account.status = "FLAGGED"
      BY <2>2, <3>1, OnlyBlankReopened DEF Opens, CreateAccount, Put
    <3>3. QED
      BY <3>2
  <2>7. CASE ~Reopened(a)
    BY <2>2, <2>3, <2>4, <2>5, <2>7, StatusSteps, FlaggingGoesOn
  <2>8. QED
    BY <2>6, <2>7
<1>3. QED
  BY <1>1, <1>2

LEMMA StepRejected ==
    ASSUME TypeInv, RejectedByTriage, [Next]_vars
    PROVE  RejectedByTriage'
<1>0. IsMap(complaints, ComplaintIds, Complaint)
  BY DEF TypeInv, StoreTypeOK, ComplaintsTypeOK
<1>1. CASE UNCHANGED complaintVars
  BY <1>1 DEF complaintVars, RejectedByTriage
<1>2. ASSUME NEW t \in Threads, RecordComplaint(t)
      PROVE  RejectedByTriage'
  <2>1. PICK id \in ComplaintIds :
            complaints' = Put(complaints, id,
                [complainant |-> req[t].caller, suspect |-> local[t].peer.id,
                 tx |-> req[t].tx, status |-> "SUBMITTED"])
    BY <1>2 DEF RecordComplaint, CreateComplaint
  <2>2. \A c \in DOMAIN complaints' :
            \/ complaints'[c].status = "SUBMITTED"
            \/ c \in DOMAIN complaints /\ complaints'[c] = complaints[c]
    BY <2>1 DEF Put
  <2>3. QED
    BY <2>2 DEF RejectedByTriage
<1>3. ASSUME NEW t \in Threads, SetComplaintStatus(t)
      PROVE  RejectedByTriage'
  <2>1. req[t] \in Requests /\ req[t].kind = "triage"
    <3>1. req[t] \in TriageRequest /\ req[t] \in Requests \cup {None}
      BY <1>3 DEF SetComplaintStatus, TypeInv, ThreadsSound, ThreadsTypeOK, StepSound, TriageSteps
    <3>2. QED
      BY <3>1, WorkersAssumption DEF TriageRequest, RequestTypes
  <2>2. \A c \in DOMAIN complaints' :
            /\ c \in DOMAIN complaints
            /\ \/ complaints'[c].status = complaints[c].status
               \/ c = req[t].complaint /\ complaints'[c].status = req[t].status
    BY <1>0, <1>3 DEF SetComplaintStatus, UpdateComplaintStatus, IsMap, Complaint
  <2>3. QED
    BY <2>1, <2>2 DEF RejectedByTriage
<1>4. QED
  BY <1>1, <1>2, <1>3, ComplaintWrites

(* Served one at a time, an account with two active complaints that no     *)
(* employee reactivated is no longer ACTIVE, unless employees take up      *)
(* again a complaint they rejected, which no handler looks at.             *)
THEOREM TwoComplaintsSuffice ==
    ASSUME MaxInFlight = 1, NoneReinstated
    PROVE  Spec => []TwoComplaintsFlag
<1>1. Init => RejectedByTriage /\ FlagSound
  <2> SUFFICES ASSUME Init
               PROVE  RejectedByTriage /\ FlagSound
    OBVIOUS
  <2>1. complaints = <<>>
    BY DEF Init, StoreInit
  <2>2. \A a : CountComplaintsForSuspect(a) = 0
    BY <2>1, FS_EmptySet DEF CountComplaintsForSuspect
  <2>3. QED
    BY <2>1, <2>2 DEF RejectedByTriage, FlagSound, Suspected
<1>2. TypeInv /\ TypeInv' /\ AllFresh /\ ComplaintSuspectExists /\ RejectedByTriage
        /\ FlagSound /\ [Next]_vars => RejectedByTriage' /\ FlagSound'
  BY StepRejected, StepFlagSound
<1>3. FlagSound => TwoComplaintsFlag
  <2> SUFFICES ASSUME FlagSound, InFlight = {}, NEW a \in DOMAIN accounts, Suspected(a)
               PROVE  accounts[a].status # "ACTIVE"
    BY DEF TwoComplaintsFlag, Suspected
  <2>1. ~BeingFlagged(a)
    BY Resting DEF BeingFlagged
  <2>2. QED
    BY <2>1 DEF FlagSound
<1>4. QED
  BY <1>1, <1>2, <1>3, TypeInvHolds, FreshHolds, SuspectsExist, PTL DEF Spec

-----------------------------------------------------------------------------
(* Users and tokens.                                                       *)

(* An account number is no employee's user id: a consumer's is its account *)
(* number, so such a user would be written over.                           *)
NumbersApart ==
    /\ \A r \in Requests :
        r.kind = "consumer" =>
            /\ r.number \notin EmployeeIds
            /\ r.number \in DOMAIN SeedUsers => SeedUsers[r.number].account = r.number
    /\ \A u \in DOMAIN SeedUsers \cap EmployeeIds : SeedUsers[u].account = Empty

(* A consumer who signed up goes by its account number, and no consumer by *)
(* the id of an employee.                                                  *)
ConsumersNamed ==
    \A u \in DOMAIN users :
        users[u].account # Empty =>
            /\ u \notin EmployeeIds
            /\ \/ u = users[u].account
               \/ u \in DOMAIN SeedUsers /\ users[u].account = SeedUsers[u].account

UserIndexAlive == \A n \in DOMAIN userIndex : userIndex[n] \in DOMAIN users

(* What a registration has looked for is still free.                       *)
NumberFree(t) ==
    /\ pc[t] \in ConsumerSteps \ {"userByAccount"} => FindUserByAccountId(req[t].number) = {}
    /\ pc[t] \in ConsumerSteps \ {"userByAccount", "userByName"} =>
            ~UsernameTaken(req[t].number)

NameFree(t) == pc[t] = "createEmployee" => ~UsernameTaken(EmployeeUsername(req[t]))

(* And the user a login has found is as it was.                            *)
UserFound(s) == s.id \in DOMAIN users /\ s.user = users[s.id]

LoginFresh(t) == pc[t] \in {"holderOfAccount", "accountOfUser"} => UserFound(local[t].user)

LEMMA StepUserIndexAlive ==
    ASSUME TypeInv, UserIndexAlive, [Next]_vars
    PROVE  UserIndexAlive' /\ DOMAIN users \subseteq DOMAIN users'
<1>1. UNCHANGED userVars => UserIndexAlive' /\ DOMAIN users \subseteq DOMAIN users'
  BY DEF userVars, UserIndexAlive
<1>2. ASSUME NEW id, NEW user, CreateUser(id, user)
      PROVE  UserIndexAlive' /\ DOMAIN users \subseteq DOMAIN users'
  BY <1>1, <1>2 DEF CreateUser, Put, UserIndexAlive
<1>3. QED
  BY <1>1, <1>2, UserWrites

LEMMA UserIndexAliveHolds == Spec => []UserIndexAlive
<1>1. Init => UserIndexAlive
  <2> SUFFICES ASSUME Init, NEW n \in DOMAIN userIndex
               PROVE  userIndex[n] \in DOMAIN users
    BY DEF UserIndexAlive
  <2>1. \E u \in DOMAIN SeedUsers : SeedUsers[u].username = n
    BY DEF Init, StoreInit
  <2>2. userIndex[n] = CHOOSE u \in DOMAIN SeedUsers : SeedUsers[u].username = n
    BY DEF Init, StoreInit
  <2>3. QED
    BY <2>1, <2>2 DEF Init, StoreInit
<1>2. QED
  BY <1>1, StepUserIndexAlive, TypeInvHolds, PTL DEF Spec

LEMMA RegistrationKeepsFree ==
    ASSUME TypeInv, UserIndexAlive, NEW u \in Threads, RegistrationStep(u), NumberFree(u)
    PROVE  NumberFree(u)'
<1>0. ThreadsTypeOK /\ req'[u] = req[u]
  BY HandlersStay DEF TypeInv, Stays
<1>1. ASSUME pc'[u] \in {"done", "createEmployee"}
      PROVE  NumberFree(u)'
  BY <1>1 DEF NumberFree, ConsumerSteps
<1>2. CASE RefuseRegistration(u) \/ CheckEmployeeUsername(u) \/ CreateEmployee(u)
            \/ CreateConsumerByNumber(u)
  BY <1>0, <1>1, <1>2 DEF RefuseRegistration, CheckEmployeeUsername, CreateEmployee,
                          CreateConsumerByNumber, Continue, Grant, Reply, Respond, ThreadsTypeOK
<1>3. CASE CheckAccountUser(u)
  <2>1. CASE Reply(u, 409, NoTx)
    BY <1>0, <1>1, <2>1 DEF Reply, Respond, ThreadsTypeOK
  <2>2. CASE FindUserByAccountId(req[u].number) = {} /\ Continue(u, "userByName", local[u])
    BY <1>0, <1>3, <2>2 DEF CheckAccountUser, Continue, ThreadsTypeOK, NumberFree, storeVars,
                            userVars, FindUserByAccountId
  <2>3. QED
    BY <1>3, <2>1, <2>2 DEF CheckAccountUser
<1>4. CASE CheckNumberAsUsername(u)
  <2>1. CASE Reply(u, 409, NoTx)
    BY <1>0, <1>1, <2>1 DEF Reply, Respond, ThreadsTypeOK
  <2>2. CASE /\ FindUserByUsername(req[u].number) = {}
             /\ Continue(u, "accountByNumber", local[u])
    <3>1. FindUserByAccountId(req[u].number) = {} /\ ~UsernameTaken(req[u].number)
      BY <1>4, <2>2 DEF CheckNumberAsUsername, NumberFree, ConsumerSteps, FindUserByUsername,
                        UserIndexAlive, UsernameTaken
    <3>2. QED
      BY <1>0, <1>4, <3>1 DEF CheckNumberAsUsername, NumberFree, storeVars, userVars,
                              FindUserByAccountId, UsernameTaken
  <2>3. QED
    BY <1>4, <2>1, <2>2 DEF CheckNumberAsUsername
<1>5. CASE FindAccountToClaim(u) \/ DeriveHandle(u) \/ OpenAccount(u) \/ CreateConsumer(u)
  <2>1. CASE \E claims : Grant(u, 201, claims)
    BY <1>0, <1>1, <2>1 DEF Grant, Respond, ThreadsTypeOK
  <2>2. CASE UNCHANGED userVars
    <3>1. FindUserByAccountId(req[u].number) = {} /\ ~UsernameTaken(req[u].number)
      BY <1>5 DEF FindAccountToClaim, DeriveHandle, OpenAccount, CreateConsumer, NumberFree,
                  ConsumerSteps
    <3>2. QED
      BY <1>0, <2>2, <3>1 DEF NumberFree, userVars, FindUserByAccountId, UsernameTaken
  <2>3. FindAccountToClaim(u) \/ DeriveHandle(u) \/ OpenAccount(u) => UNCHANGED userVars
    BY DEF FindAccountToClaim, DeriveHandle, OpenAccount, storeVars
  <2>4. CreateConsumer(u) => UNCHANGED userVars \/ \E claims : Grant(u, 201, claims)
    BY DEF CreateConsumer, CreateUser, UsernameTaken, ConsumerUser
  <2>5. QED
    BY <1>5, <2>1, <2>2, <2>3, <2>4
<1>6. QED
  BY <1>2, <1>3, <1>4, <1>5 DEF RegistrationStep

LEMMA LoginKeepsFresh ==
    ASSUME TypeInv, NEW u \in Threads, LoginStep(u), LoginFresh(u)
    PROVE  LoginFresh(u)'
<1>0. ThreadsTypeOK /\ UNCHANGED users
  BY LoginReads DEF TypeInv, storeVars, userVars
<1>1. ASSUME \/ \E code : Reply(u, code, NoTx)
             \/ \E claims : Grant(u, 200, claims)
             \/ \E step : /\ step \notin {"holderOfAccount", "accountOfUser"}
                          /\ Continue(u, step, local[u])
      PROVE  LoginFresh(u)'
  BY <1>0, <1>1 DEF Reply, Grant, Respond, Continue, ThreadsTypeOK, LoginFresh
<1>2. ASSUME NEW s, UserFound(s), Authenticate(u, s) \/ Recognise(u, s)
      PROVE  LoginFresh(u)'
  <2>1. ASSUME NEW step, Continue(u, step, [local[u] EXCEPT !.user = s])
        PROVE  LoginFresh(u)'
    BY <1>0, <1>2, <2>1 DEF Continue, ThreadsTypeOK, LocalType, LoginFresh, UserFound
  <2>2. QED
    BY <1>1, <1>2, <2>1 DEF Authenticate, Recognise
<1>3. \A v \in DOMAIN users : UserFound(UserSnapshot(v))
  BY DEF UserFound, UserSnapshot
<1>4. /\ \A n : FindUserByAccountId(n) \subseteq DOMAIN users
      /\ \A n : FindUserByUsername(n) \subseteq DOMAIN users
  BY DEF FindUserByAccountId, FindUserByUsername
<1>5. CASE RefuseLogin(u) \/ AnswerLogin(u)
  BY <1>1, <1>5 DEF RefuseLogin, AnswerLogin
<1>6. CASE FindUserOfNumber(u)
  BY <1>1, <1>2, <1>3, <1>4, <1>6 DEF FindUserOfNumber
<1>7. CASE FindUserNamedNumber(u)
  BY <1>1, <1>2, <1>3, <1>4, <1>7 DEF FindUserNamedNumber
<1>8. CASE FindUserNamed(u)
  BY <1>1, <1>2, <1>3, <1>4, <1>8 DEF FindUserNamed
<1>9. CASE CheckHolder(u)
  BY <1>1, <1>2, <1>9 DEF CheckHolder, LoginFresh
<1>10. CASE FindUserOfName(u)
  BY <1>1, <1>2, <1>3, <1>4, <1>10 DEF FindUserOfName
<1>11. CASE FindUserOfNameAsAccount(u)
  BY <1>1, <1>2, <1>3, <1>4, <1>11 DEF FindUserOfNameAsAccount
<1>12. CASE SearchUsersByName(u)
  BY <1>1, <1>2, <1>3, <1>12 DEF SearchUsersByName
<1>13. QED
  BY <1>5, <1>6, <1>7, <1>8, <1>9, <1>10, <1>11, <1>12 DEF LoginStep

LEMMA StepReadUsers ==
    ASSUME MaxInFlight = 1, TypeInv, Alone, UserIndexAlive, [Next]_vars, NEW u \in Threads,
           NumberFree(u), LoginFresh(u)
    PROVE  NumberFree(u)' /\ LoginFresh(u)'
<1>0. ThreadsTypeOK
  BY DEF TypeInv
<1>1. pc'[u] \notin ConsumerSteps => NumberFree(u)'
  BY DEF NumberFree
<1>2. pc'[u] \notin LoginSteps => LoginFresh(u)'
  BY DEF LoginFresh, LoginSteps
<1>3. CASE UNCHANGED vars
  BY <1>3 DEF vars, storeVars, userVars, threadVars, NumberFree, LoginFresh, UserFound,
              FindUserByAccountId, UsernameTaken
<1>4. CASE Serve(u)
  <2>1. CASE RegistrationStep(u)
    <3>1. pc'[u] \notin LoginSteps
      BY <1>0, <2>1, HandlersStay DEF Stays, ConsumerSteps, EmployeeSteps, LoginSteps
    <3>2. QED
      BY <1>2, <2>1, <3>1, RegistrationKeepsFree
  <2>2. CASE LoginStep(u)
    <3>1. pc'[u] \notin ConsumerSteps
      BY <1>0, <2>2, HandlersStay DEF Stays, ConsumerSteps, LoginSteps
    <3>2. QED
      BY <1>1, <2>2, <3>1, LoginKeepsFresh
  <2>3. CASE ~RegistrationStep(u) /\ ~LoginStep(u)
    <3>1. pc'[u] \in UNION {TransferSteps, ComplaintSteps, TriageSteps, ModerationSteps,
                            ProfileSteps, {"done"}}
      BY <1>0, <1>4, <2>3, HandlersStay DEF Stays, Serve
    <3>2. pc'[u] \notin ConsumerSteps /\ pc'[u] \notin LoginSteps
      BY <3>1 DEF TransferSteps, ComplaintSteps, TriageSteps, ModerationSteps, ProfileSteps,
                  ConsumerSteps, LoginSteps
    <3>3. QED
      BY <1>1, <1>2, <3>2
  <2>4. QED
    BY <2>1, <2>2, <2>3
<1>5. CASE pc'[u] \in {"idle", "done"}
  BY <1>1, <1>2, <1>5 DEF ConsumerSteps, LoginSteps
<1>6. CASE \E r \in Requests : Accept(u, r)
  <2>1. pc'[u] \in {"receiver", "suspectByUpi", "complaint", "accountById",
                    "userByAccount", "employeeByName", "userOfNumber", "userOfName",
                    "userOfToken", "accountOfToken"}
    BY <1>0, <1>6, FirstSteps
  <2>2. QED
    BY <2>1 DEF NumberFree, LoginFresh, ConsumerSteps
<1>7. QED
  BY <1>3, <1>4, <1>5, <1>6, OnlyOne

LEMMA StepNameFree ==
    ASSUME MaxInFlight = 1, TypeInv, Alone, UserIndexAlive, [Next]_vars, NEW u \in Threads,
           NameFree(u)
    PROVE  NameFree(u)'
<1>0. ThreadsTypeOK
  BY DEF TypeInv
<1>1. pc'[u] # "createEmployee" => NameFree(u)'
  BY DEF NameFree
<1>2. CASE UNCHANGED vars
  BY <1>2 DEF vars, storeVars, userVars, threadVars, NameFree, UsernameTaken
<1>3. CASE CheckEmployeeUsername(u)
  <2>1. CASE Reply(u, 409, NoTx)
    BY <1>0, <1>1, <2>1 DEF Reply, Respond, ThreadsTypeOK
  <2>2. CASE FindUserByUsername(EmployeeUsername(req[u])) = {} /\ UNCHANGED req
    BY <1>3, <2>2 DEF CheckEmployeeUsername, storeVars, userVars, FindUserByUsername,
                      UserIndexAlive, UsernameTaken, NameFree
  <2>3. QED
    BY <1>3, <2>1, <2>2 DEF CheckEmployeeUsername, Continue
<1>4. CASE RegistrationStep(u) /\ ~CheckEmployeeUsername(u)
  BY <1>0, <1>1, <1>4
  DEF RegistrationStep, RefuseRegistration, CheckAccountUser, CheckNumberAsUsername,
      FindAccountToClaim, DeriveHandle, OpenAccount, CreateConsumer, CreateConsumerByNumber,
      CreateEmployee, Continue, Grant, Reply, Respond, ThreadsTypeOK
<1>5. CASE Serve(u) /\ ~RegistrationStep(u)
  <2>1. pc'[u] \in UNION {TransferSteps, ComplaintSteps, TriageSteps, ModerationSteps,
                          LoginSteps, ProfileSteps, {"done"}}
    BY <1>0, <1>5, HandlersStay DEF Stays, Serve
  <2>2. pc'[u] # "createEmployee"
    BY <2>1 DEF TransferSteps, ComplaintSteps, TriageSteps, ModerationSteps, LoginSteps,
                ProfileSteps
  <2>3. QED
    BY <1>1, <2>2
<1>6. CASE pc'[u] \in {"idle", "done"} \/ \E r \in Requests : Accept(u, r)
  BY <1>0, <1>1, <1>6, FirstSteps
<1>7. QED
  BY <1>2, <1>3, <1>4, <1>5, <1>6, OnlyOne

ReadUsersFresh == \A t \in Threads : NumberFree(t) /\ NameFree(t) /\ LoginFresh(t)

LEMMA ReadUsersFreshHolds ==
    ASSUME MaxInFlight = 1
    PROVE  Spec => []ReadUsersFresh
<1>1. Init => ReadUsersFresh
  BY DEF Init, WorkersInit, ReadUsersFresh, NumberFree, NameFree, LoginFresh, ConsumerSteps
<1>2. TypeInv /\ Alone /\ UserIndexAlive /\ ReadUsersFresh /\ [Next]_vars => ReadUsersFresh'
  BY StepReadUsers, StepNameFree DEF ReadUsersFresh
<1>3. QED
  BY <1>1, <1>2, TypeInvHolds, AloneHolds, UserIndexAliveHolds, PTL DEF Spec

(* The steps that write a user.                                            *)
LEMMA ConsumerCreated ==
    ASSUME TypeInv, ReadUsersFresh, NEW t \in Threads,
           CreateConsumer(t) \/ CreateConsumerByNumber(t)
    PROVE  /\ req[t] \in Requests /\ req[t].kind = "consumer" /\ req[t].number \in Names \ {Empty}
           /\ \A u \in DOMAIN users : users[u].account # req[t].number
           /\ \/ UNCHANGED users /\ pc'[t] # "done"
              \/ \E username :
                    /\ users' = Put(users, req[t].number, ConsumerUser(t, username))
                    /\ Grant(t, 201, ConsumerClaims(t, username))
<1>1. pc[t] \in {"createUser", "createUserByNumber"}
  BY DEF CreateConsumer, CreateConsumerByNumber
<1>2. /\ req[t] \in RegistrationRequest /\ req[t].kind = "consumer" /\ req[t].number # None
      /\ req[t] \in Requests \cup {None}
  BY <1>1 DEF TypeInv, ThreadsSound, ThreadsTypeOK, StepSound, ConsumerSteps
<1>3. req[t] \in Requests /\ req[t].number \in Names \ {Empty}
  BY <1>2, WorkersAssumption DEF RequestTypes, RegistrationRequest, Given
<1>4. /\ \A u \in DOMAIN users : users[u].account # req[t].number
      /\ ~UsernameTaken(req[t].number)
  BY <1>1 DEF ReadUsersFresh, NumberFree, ConsumerSteps, FindUserByAccountId
<1>5. ASSUME CreateConsumer(t)
      PROVE  \/ UNCHANGED users /\ pc'[t] # "done"
             \/ \E username :
                    /\ users' = Put(users, req[t].number, ConsumerUser(t, username))
                    /\ Grant(t, 201, ConsumerClaims(t, username))
  <2>1. CASE UsernameTaken(RequestedUsername(req[t]))
    BY <1>5, <2>1 DEF CreateConsumer, CreateUser, UsernameTaken, ConsumerUser, userVars,
                      Continue, TypeInv, ThreadsTypeOK
  <2>2. CASE ~UsernameTaken(RequestedUsername(req[t]))
    BY <1>5, <2>2 DEF CreateConsumer, CreateUser, UsernameTaken, ConsumerUser
  <2>3. QED
    BY <2>1, <2>2
<1>6. ASSUME CreateConsumerByNumber(t)
      PROVE  \E username :
                /\ users' = Put(users, req[t].number, ConsumerUser(t, username))
                /\ Grant(t, 201, ConsumerClaims(t, username))
  BY <1>4, <1>6 DEF CreateConsumerByNumber, CreateUser, ConsumerUser, UsernameTaken
<1>7. QED
  BY <1>2, <1>3, <1>4, <1>5, <1>6

LEMMA UserSteps ==
    ASSUME [Next]_vars
    PROVE  \/ UNCHANGED users
           \/ \E t \in Threads : CreateConsumer(t) \/ CreateConsumerByNumber(t)
           \/ \E t \in Threads : CreateEmployee(t)
<1>1. UNCHANGED storeVars => UNCHANGED users
  BY DEF storeVars, userVars
<1>2. ASSUME NEW t \in Threads, Serve(t),
             ~(CreateConsumer(t) \/ CreateConsumerByNumber(t) \/ CreateEmployee(t))
      PROVE  UNCHANGED users
  BY <1>2, Writers
  DEF storeVars, userVars, ProvisionSuspect, RecordComplaint, TaintSuspect,
      SetComplaintStatus, SetAccountStatus, OpenAccount, ExecuteTransfer
<1>3. QED
  BY <1>1, <1>2, Steppers

(* No user with an account is written over.                                *)
LEMMA StepConsumers ==
    ASSUME NumbersApart, TypeInv, ReadUsersFresh, ConsumersNamed, [Next]_vars
    PROVE  /\ ConsumersNamed'
           /\ \A u \in DOMAIN users :
                users[u].account # Empty => u \in DOMAIN users' /\ users'[u] = users[u]
<1>1. CASE UNCHANGED users
  BY <1>1 DEF ConsumersNamed
<1>2. ASSUME NEW t \in Threads, CreateConsumer(t) \/ CreateConsumerByNumber(t)
      PROVE  /\ ConsumersNamed'
             /\ \A u \in DOMAIN users :
                    users[u].account # Empty => u \in DOMAIN users' /\ users'[u] = users[u]
  <2> DEFINE n == req[t].number
  <2>1. /\ req[t] \in Requests /\ req[t].kind = "consumer" /\ n \in Names \ {Empty}
        /\ \A u \in DOMAIN users : users[u].account # n
    BY <1>2, ConsumerCreated
  <2>2. CASE \E username : users' = Put(users, n, ConsumerUser(t, username))
    <3>1. PICK username : users' = Put(users, n, ConsumerUser(t, username))
      BY <2>2
    <3>2. n \notin EmployeeIds /\ n \in DOMAIN SeedUsers => SeedUsers[n].account = n
      BY <2>1 DEF NumbersApart
    <3>3. n \in DOMAIN users => users[n].account = Empty
      BY <2>1, <3>2 DEF ConsumersNamed
    <3>4. ConsumerUser(t, username).account = n
      BY DEF ConsumerUser
    <3>5. n \notin EmployeeIds
      BY <2>1 DEF NumbersApart
    <3> HIDE DEF n
    <3>6. QED
      BY <3>1, <3>3, <3>4, <3>5 DEF Put, ConsumersNamed
  <2>3. QED
    BY <1>1, <1>2, <2>2, ConsumerCreated
<1>3. ASSUME NEW t \in Threads, CreateEmployee(t)
      PROVE  /\ ConsumersNamed'
             /\ \A u \in DOMAIN users :
                    users[u].account # Empty => u \in DOMAIN users' /\ users'[u] = users[u]
  <2>1. PICK id \in EmployeeIds : CreateUser(id, EmployeeUser(t))
    BY <1>3 DEF CreateEmployee
  <2>2. EmployeeUser(t).account = Empty
    BY DEF EmployeeUser
  <2>3. id \in DOMAIN users => users[id].account = Empty
    BY DEF ConsumersNamed
  <2>4. CASE users' = Put(users, id, EmployeeUser(t))
    BY <2>2, <2>3, <2>4 DEF Put, ConsumersNamed
  <2>5. QED
    BY <1>1, <2>1, <2>4 DEF CreateUser, userVars
<1>4. QED
  BY <1>1, <1>2, <1>3, UserSteps

LEMMA ConsumersNamedHolds ==
    ASSUME MaxInFlight = 1, NumbersApart
    PROVE  Spec => []ConsumersNamed
<1>1. Init => ConsumersNamed
  BY DEF Init, StoreInit, ConsumersNamed, NumbersApart
<1>2. TypeInv /\ ReadUsersFresh /\ ConsumersNamed /\ [Next]_vars => ConsumersNamed'
  BY StepConsumers
<1>3. QED
  BY <1>1, <1>2, TypeInvHolds, ReadUsersFreshHolds, PTL DEF Spec

(* A token says of a consumer what the store says.                         *)
Genuine(token) ==
    token # None /\ token.account # Empty =>
        /\ token.user \in DOMAIN users
        /\ users[token.user].username = token.username
        /\ users[token.user].account = token.account

KnownBearer(token) == token # None => token.user \in DOMAIN users

(* A step that answers grants no token, or a genuine one to a user who is  *)
(* there.                                                                  *)
Granted(t) == Genuine(answer[t].token) /\ KnownBearer(answer[t].token)

LEMMA Granting ==
    ASSUME TypeInv, ReadUsersFresh, NEW t \in Threads, Serve(t), pc'[t] = "done"
    PROVE  Granted(t)'
<1>0. ThreadsTypeOK
  BY DEF TypeInv
<1>1. ASSUME \E code, tx : Reply(t, code, tx)
      PROVE  Granted(t)'
  BY <1>0, <1>1 DEF Reply, Respond, ThreadsTypeOK, Granted, Genuine, KnownBearer
<1>2. ASSUME NEW step, NEW l, step # "done", Continue(t, step, l)
      PROVE  FALSE
  BY <1>0, <1>2 DEF Continue, ThreadsTypeOK
<1>3. ASSUME NEW code, NEW claims, Grant(t, code, claims)
      PROVE  answer'[t].token = claims
  BY <1>0, <1>3 DEF Grant, Respond, ThreadsTypeOK
<1>4. CASE TransferStep(t)
  BY <1>1, <1>2, <1>4 DEF TransferStep, RefuseTransfer, ResolveReceiver, ResolveSender,
                          CountReceiverComplaints, ReadReceiverHistory, ExecuteTransfer
<1>5. CASE ComplaintStep(t)
  <2>1. AfterSuspect(t) # "done"
    BY DEF AfterSuspect
  <2>2. QED
    BY <1>1, <1>2, <1>5, <2>1
    DEF ComplaintStep, RefuseComplaint, FindSuspectByUpi, FindSuspectById, ProvisionSuspect,
        CheckOwnership, RecordComplaint, CountSuspectComplaints, TaintSuspect
<1>6. CASE TriageStep(t) \/ ModerationStep(t) \/ ProfileStep(t)
  BY <1>1, <1>2, <1>6
  DEF TriageStep, FindComplaint, SetComplaintStatus, ModerationStep, FindAccountToModerate,
      FindHandleToModerate, SetAccountStatus, ProfileStep, GetMe, GetMyAccount
<1>7. CASE RegistrationStep(t)
  <2>1. CASE CreateConsumer(t) \/ CreateConsumerByNumber(t)
    <3>1. PICK username :
            /\ users' = Put(users, req[t].number, ConsumerUser(t, username))
            /\ Grant(t, 201, ConsumerClaims(t, username))
      BY <2>1, ConsumerCreated
    <3>2. answer'[t].token = ConsumerClaims(t, username)
      BY <1>3, <3>1
    <3>3. /\ req[t].number \in DOMAIN users'
          /\ users'[req[t].number] = ConsumerUser(t, username)
      BY <3>1 DEF Put
    <3>4. QED
      BY <3>2, <3>3 DEF Granted, Genuine, KnownBearer, ConsumerClaims, ConsumerUser
  <2>2. CASE CreateEmployee(t)
    <3> DEFINE claims(id) ==
            [user |-> id, username |-> EmployeeUser(t).username, account |-> Empty]
    <3>1. PICK id : CreateUser(id, EmployeeUser(t)) /\ Grant(t, 201, claims(id))
      BY <2>2 DEF CreateEmployee
    <3>2. answer'[t].token = claims(id)
      BY <1>3, <3>1
    <3>3. ~UsernameTaken(EmployeeUser(t).username)
      BY <2>2 DEF CreateEmployee, ReadUsersFresh, NameFree, EmployeeUser
    <3>4. id \in DOMAIN users'
      BY <3>1, <3>3 DEF CreateUser, Put
    <3>5. QED
      BY <3>2, <3>4 DEF Granted, Genuine, KnownBearer
  <2>3. CASE RefuseRegistration(t) \/ CheckAccountUser(t) \/ CheckNumberAsUsername(t)
                \/ FindAccountToClaim(t) \/ DeriveHandle(t) \/ OpenAccount(t)
                \/ CheckEmployeeUsername(t)
    BY <1>1, <1>2, <2>3 DEF RefuseRegistration, CheckAccountUser, CheckNumberAsUsername,
                    FindAccountToClaim, DeriveHandle, OpenAccount, CheckEmployeeUsername
  <2>4. QED
    BY <1>7, <2>1, <2>2, <2>3 DEF RegistrationStep
<1>8. CASE LoginStep(t)
  <2>1. UNCHANGED users
    BY <1>8, LoginReads DEF storeVars, userVars
  <2>2. ASSUME NEW s, UserFound(s), Authenticate(t, s) \/ Recognise(t, s)
        PROVE  Granted(t)'
    <3>1. CASE s.user.account = Empty /\ Grant(t, 200, ClaimsOf(s))
      <4>1. answer'[t].token = ClaimsOf(s)
        BY <1>3, <3>1
      <4>2. QED
        BY <2>1, <2>2, <3>1, <4>1 DEF Granted, Genuine, KnownBearer, ClaimsOf, UserFound
    <3>2. QED
      BY <1>1, <1>2, <2>2, <3>1 DEF Authenticate, Recognise
  <2>3. CASE AnswerLogin(t)
    <3>1. answer'[t].token = ClaimsOf(local[t].user)
      BY <1>3, <2>3 DEF AnswerLogin
    <3>2. UserFound(local[t].user)
      BY <2>3 DEF AnswerLogin, ReadUsersFresh, LoginFresh
    <3>3. QED
      BY <2>1, <3>1, <3>2 DEF Granted, Genuine, KnownBearer, ClaimsOf, UserFound
  <2>4. \A v \in DOMAIN users : UserFound(UserSnapshot(v))
    BY DEF UserFound, UserSnapshot
  <2>5. /\ \A n : FindUserByAccountId(n) \subseteq DOMAIN users
        /\ \A n : FindUserByUsername(n) \subseteq DOMAIN users
    BY DEF FindUserByAccountId, FindUserByUsername
  <2>6. CASE RefuseLogin(t) \/ FindUserOfNumber(t)
    BY <1>1, <1>2, <2>2, <2>4, <2>5, <2>6 DEF RefuseLogin, FindUserOfNumber
  <2>7. CASE FindUserNamedNumber(t) \/ FindUserNamed(t)
    BY <1>1, <1>2, <2>2, <2>4, <2>5, <2>7 DEF FindUserNamedNumber, FindUserNamed
  <2>8. CASE CheckHolder(t)
    <3>1. UserFound(local[t].user)
      BY <2>8 DEF CheckHolder, ReadUsersFresh, LoginFresh
    <3>2. QED
      BY <1>1, <1>2, <2>2, <2>8, <3>1 DEF CheckHolder
  <2>9. CASE FindUserOfName(t) \/ FindUserOfNameAsAccount(t) \/ SearchUsersByName(t)
    BY <1>1, <1>2, <2>2, <2>4, <2>5, <2>9
    DEF FindUserOfName, FindUserOfNameAsAccount, SearchUsersByName
  <2>10. QED
    BY <1>8, <2>3, <2>6, <2>7, <2>8, <2>9 DEF LoginStep
<1>9. QED
  BY <1>4, <1>5, <1>6, <1>7, <1>8 DEF Serve

(* Served one at a time, a consumer's token names a user who exists and    *)
(* has the username and the account it says, as long as no account number  *)
(* is an employee's user id.                                               *)
THEOREM TokensStayGenuine ==
    ASSUME MaxInFlight = 1, NumbersApart
    PROVE  Spec => []TokensGenuine
<1>1. Init => TokensGenuine
  BY DEF Init, WorkersInit, TokensGenuine, Done
<1>2. ASSUME TypeInv, ReadUsersFresh, ConsumersNamed, TokensGenuine, [Next]_vars
      PROVE  TokensGenuine'
  <2> SUFFICES ASSUME NEW t \in Threads, pc'[t] = "done"
               PROVE  Genuine(answer[t].token)'
    BY DEF TokensGenuine, Genuine, Done
  <2>1. CASE pc[t] = "done" /\ answer'[t] = answer[t]
    <3>1. Genuine(answer[t].token)
      BY <1>2, <2>1 DEF TokensGenuine, Genuine, Done
    <3>2. \A u \in DOMAIN users :
            users[u].account # Empty => u \in DOMAIN users' /\ users'[u] = users[u]
      BY <1>2, StepConsumers
    <3>3. QED
      BY <2>1, <3>1, <3>2 DEF Genuine
  <2>2. CASE Serve(t)
    BY <1>2, <2>2, Granting DEF Granted
  <2>3. ASSUME NEW r \in Requests, Accept(t, r)
        PROVE  FALSE
    BY <1>2, <2>3, FirstSteps DEF TypeInv
  <2>4. QED
    BY <1>2, <2>1, <2>2, <2>3, ThreadMoves DEF TypeInv
<1>3. QED
  BY <1>1, <1>2, TypeInvHolds, ReadUsersFreshHolds, ConsumersNamedHolds, PTL DEF Spec

-----------------------------------------------------------------------------
(* Sign-up and login.  Whoever has signed up is the one user of its        *)
(* account, under its account number, and stays that: a later registration *)
(* under the number or the username is refused or given another name.      *)

FieldsGiven(t) == pc[t] \in ConsumerSteps \ {"userByAccount"} => ConsumerFieldsGiven(req[t])

OnlyUserOf(n) ==
    /\ n # Empty /\ n \in DOMAIN users /\ users[n].account = n
    /\ \A v \in DOMAIN users : users[v].account = n => v = n

SignedUp(t) == t \in Done /\ req[t].kind = "consumer" /\ answer[t].code = 201

Registered(t) ==
    /\ OnlyUserOf(req[t].number)
    /\ users[req[t].number].name = req[t].name
    /\ users[req[t].number].password = req[t].password
    /\ ConsumerFieldsGiven(req[t])

(* A login as the user who signed up with t.                               *)
LoginAs(u, t) ==
    /\ req[u].kind = "accountLogin"
    /\ req[u].number = req[t].number /\ req[u].password = req[t].password
    /\ req[u].name \in {Empty, req[t].name} /\ req[u].role \in {"any", "consumer"}

(* It is halfway at most one step on, with the user it should have found.  *)
LoginSound(u) ==
    \A t \in Threads :
        SignedUp(t) /\ pc[u] \in LoginSteps /\ LoginAs(u, t) =>
            \/ pc[u] = "userOfNumber"
            \/ pc[u] = "accountOfUser" /\ local[u].user.user.account = req[t].number

SignUpInv ==
    /\ \A t \in Threads : FieldsGiven(t)
    /\ \A t \in Threads : SignedUp(t) => Registered(t)
    /\ \A u \in Threads : LoginSound(u)

LEMMA StepFieldsGiven ==
    ASSUME ThreadsTypeOK, [Next]_vars, NEW t \in Threads, FieldsGiven(t)
    PROVE  FieldsGiven(t)'
<1>1. pc'[t] \notin ConsumerSteps \/ pc'[t] = "userByAccount" => FieldsGiven(t)'
  BY DEF FieldsGiven
<1>2. CASE pc'[t] = pc[t] /\ req'[t] = req[t]
  BY <1>2 DEF FieldsGiven
<1>3. CASE RegistrationStep(t)
  <2>1. req'[t] = req[t] /\ pc[t] \in ConsumerSteps \cup EmployeeSteps
    BY <1>3, HandlersStay, HandlerSteps DEF Stays
  <2>2. CASE pc[t] \in ConsumerSteps \ {"userByAccount"}
    BY <2>1, <2>2 DEF FieldsGiven
  <2>3. CASE pc[t] = "userByAccount"
    BY <1>3, <2>1, <2>3
    DEF RegistrationStep, RefuseRegistration, CheckAccountUser, CheckNumberAsUsername,
        FindAccountToClaim, DeriveHandle, OpenAccount, CreateConsumer, CreateConsumerByNumber,
        CheckEmployeeUsername, CreateEmployee, Reply, Respond, FieldsGiven, ConsumerSteps,
        ThreadsTypeOK
  <2>4. CASE pc[t] \in EmployeeSteps
    <3>1. RefuseRegistration(t) \/ CheckEmployeeUsername(t) \/ CreateEmployee(t)
      BY <1>3, <2>4
      DEF RegistrationStep, CheckAccountUser, CheckNumberAsUsername, FindAccountToClaim,
          DeriveHandle, OpenAccount, CreateConsumer, CreateConsumerByNumber, EmployeeSteps
    <3>2. pc'[t] \in {"done", "createEmployee"}
      BY <3>1 DEF RefuseRegistration, CheckEmployeeUsername, CreateEmployee, Reply, Respond,
                  Grant, Continue, ThreadsTypeOK
    <3>3. QED
      BY <1>1, <3>2 DEF ConsumerSteps
  <2>5. QED
    BY <2>1, <2>2, <2>3, <2>4
<1>4. CASE Serve(t) /\ ~RegistrationStep(t)
  <2>1. pc'[t] \in UNION {TransferSteps, ComplaintSteps, TriageSteps, ModerationSteps,
                          LoginSteps, ProfileSteps, {"done"}}
    BY <1>4, HandlersStay DEF Stays, Serve
  <2>2. pc'[t] \notin ConsumerSteps
    BY <2>1 DEF TransferSteps, ComplaintSteps, TriageSteps, ModerationSteps, ProfileSteps,
                ConsumerSteps, LoginSteps
  <2>3. QED
    BY <1>1, <2>2
<1>5. CASE \E r \in Requests : Accept(t, r)
  <2>1. pc'[t] \in {"receiver", "suspectByUpi", "complaint", "accountById",
                    "userByAccount", "employeeByName", "userOfNumber", "userOfName",
                    "userOfToken", "accountOfToken"}
    BY <1>5, FirstSteps
  <2>2. QED
    BY <1>1, <2>1 DEF ConsumerSteps
<1>6. QED
  BY <1>2, <1>3, <1>4, <1>5, ThreadMoves

LEMMA StepOnlyUserOf ==
    ASSUME NumbersApart, TypeInv, ReadUsersFresh, ConsumersNamed, [Next]_vars,
           NEW n, OnlyUserOf(n)
    PROVE  OnlyUserOf(n)' /\ users'[n] = users[n]
<1>1. n \in DOMAIN users' /\ users'[n] = users[n]
  BY StepConsumers DEF OnlyUserOf
<1>2. CASE UNCHANGED users
  BY <1>2 DEF OnlyUserOf
<1>3. ASSUME NEW id, NEW user, user.account # n, users' = Put(users, id, user)
      PROVE  OnlyUserOf(n)'
  BY <1>1, <1>3 DEF Put, OnlyUserOf
<1>4. ASSUME NEW t \in Threads, CreateConsumer(t) \/ CreateConsumerByNumber(t)
      PROVE  OnlyUserOf(n)'
  <2>1. req[t].number # n
    BY <1>4, ConsumerCreated DEF OnlyUserOf
  <2>2. \A username : ConsumerUser(t, username).account # n
    BY <2>1 DEF ConsumerUser
  <2>3. QED
    BY <1>2, <1>3, <1>4, <2>2, ConsumerCreated
<1>5. ASSUME NEW t \in Threads, CreateEmployee(t)
      PROVE  OnlyUserOf(n)'
  <2>1. PICK id \in EmployeeIds : CreateUser(id, EmployeeUser(t))
    BY <1>5 DEF CreateEmployee
  <2>2. EmployeeUser(t).account # n
    BY DEF EmployeeUser, OnlyUserOf
  <2>3. QED
    BY <1>2, <1>3, <2>1, <2>2 DEF CreateUser, userVars
<1>6. QED
  BY <1>1, <1>2, <1>4, <1>5, UserSteps

(* The answer 201 to a consumer's registration follows create_user.        *)
LEMMA SigningUp ==
    ASSUME TypeInv, ReadUsersFresh, NEW t \in Threads, FieldsGiven(t), Serve(t), SignedUp(t)'
    PROVE  Registered(t)'
<1>0. /\ ThreadsTypeOK /\ req'[t] = req[t] /\ pc'[t] = "done" /\ answer'[t].code = 201
      /\ req[t].kind = "consumer" /\ StepSound(pc[t], req[t], local[t])
  BY HandlersStay DEF TypeInv, ThreadsSound, Stays, Serve, SignedUp, Done
<1>1. pc[t] \notin UNION {TransferSteps, ComplaintSteps, TriageSteps, ModerationSteps,
                          EmployeeSteps, LoginSteps, ProfileSteps}
  BY <1>0 DEF StepSound, TransferRequest, ComplaintRequest, TriageRequest, ModerationRequest,
              LoginRequest, ProfileRequest
<1>2. RegistrationStep(t) /\ pc[t] \in ConsumerSteps
  BY <1>1, HandlerSteps DEF Serve
<1>3. ASSUME NEW code, NEW token, Respond(t, code, NoTx, token)
      PROVE  code = 201
  BY <1>0, <1>3 DEF Respond, ThreadsTypeOK
<1>4. ASSUME NEW step, NEW l, step # "done", Continue(t, step, l)
      PROVE  FALSE
  BY <1>0, <1>4 DEF Continue, ThreadsTypeOK
<1>5. CreateConsumer(t) \/ CreateConsumerByNumber(t)
  BY <1>1, <1>2, <1>3, <1>4
  DEF RegistrationStep, RefuseRegistration, CheckAccountUser, CheckNumberAsUsername,
      FindAccountToClaim, DeriveHandle, OpenAccount, CheckEmployeeUsername, CreateEmployee,
      EmployeeSteps, Reply
<1>6. PICK username : users' = Put(users, req[t].number, ConsumerUser(t, username))
  BY <1>0, <1>5, ConsumerCreated
<1>7. /\ req[t].number # Empty
      /\ \A u \in DOMAIN users : users[u].account # req[t].number
  BY <1>5, ConsumerCreated
<1>8. ConsumerFieldsGiven(req[t])
  BY <1>5 DEF FieldsGiven, CreateConsumer, CreateConsumerByNumber, ConsumerSteps
<1> DEFINE user == ConsumerUser(t, username)
<1>9. user.account = req[t].number /\ user.name = req[t].name /\ user.password = req[t].password
  BY DEF ConsumerUser
<1> HIDE DEF user
<1>10. /\ DOMAIN users' = DOMAIN users \cup {req[t].number}
       /\ users'[req[t].number] = user
       /\ \A v \in DOMAIN users \ {req[t].number} : users'[v] = users[v]
  BY <1>6 DEF Put, user
<1>11. QED
  BY <1>0, <1>7, <1>8, <1>9, <1>10 DEF Registered, OnlyUserOf

(* The first step of a login finds whoever signed up.                      *)
LEMMA LoggingIn ==
    ASSUME TypeInv, NEW t \in Threads, NEW u \in Threads, SignedUp(t), Registered(t),
           LoginAs(u, t), LoginSound(u), Serve(u), pc[u] \in LoginSteps
    PROVE  \/ /\ pc'[u] = "accountOfUser"
              /\ local'[u].user.user.account = req[t].number
           \/ /\ pc'[u] = "done"
              /\ answer'[u].token \in Claims /\ answer'[u].token.account = req[t].number
<1>0. /\ ThreadsTypeOK /\ local[u] \in LocalType
      /\ StepSound(pc[u], req[u], local[u])
  BY DEF TypeInv, ThreadsTypeOK, ThreadsSound
<1> DEFINE n == req[t].number
<1>1. /\ n # Empty /\ n \in DOMAIN users /\ users[n].account = n
      /\ FindUserByAccountId(n) = {n}
      /\ users[n].name = req[t].name /\ users[n].password = req[t].password
      /\ req[t].name # Empty /\ req[t].password # Empty
  BY DEF Registered, OnlyUserOf, ConsumerFieldsGiven, FindUserByAccountId
<1>2. LoginStep(u)
  <2>1. pc[u] \notin UNION {TransferSteps, ComplaintSteps, TriageSteps, ModerationSteps,
                            ConsumerSteps, EmployeeSteps, ProfileSteps}
    BY DEF TransferSteps, ComplaintSteps, TriageSteps, ModerationSteps, ConsumerSteps,
           EmployeeSteps, ProfileSteps, LoginSteps
  <2>2. QED
    BY <2>1, HandlerSteps DEF Serve
<1>3. CASE pc[u] = "userOfNumber"
  <2>1. FindUserOfNumber(u)
    BY <1>1, <1>2, <1>3
    DEF LoginStep, RefuseLogin, FindUserNamedNumber, FindUserNamed, CheckHolder,
        FindUserOfName, FindUserOfNameAsAccount, SearchUsersByName, AnswerLogin, LoginAs
  <2>2. Recognise(u, UserSnapshot(n))
    BY <1>1, <2>1 DEF FindUserOfNumber, LoginAs
  <2>3. UserSnapshot(n).user = users[n]
    BY DEF UserSnapshot
  <2>4. AnswersToName(req[u], users[n]) /\ CredentialsAccepted(req[u], users[n])
    BY <1>1 DEF AnswersToName, CredentialsAccepted, RoleOf, LoginAs
  <2> HIDE DEF n
  <2>5. Continue(u, "accountOfUser", [local[u] EXCEPT !.user = UserSnapshot(n)])
    BY <1>1, <2>2, <2>3, <2>4 DEF Recognise, Authenticate
  <2>6. QED
    BY <1>0, <1>1, <2>3, <2>5 DEF Continue, ThreadsTypeOK, LocalType, n
<1>4. CASE pc[u] = "accountOfUser" /\ local[u].user.user.account = n
  <2>1. AnswerLogin(u)
    BY <1>2, <1>4
    DEF LoginStep, RefuseLogin, FindUserOfNumber, FindUserNamedNumber, FindUserNamed,
        CheckHolder, FindUserOfName, FindUserOfNameAsAccount, SearchUsersByName
  <2>2. local[u].user \in UserSnapshotType
    BY <1>0, <1>4 DEF StepSound, LoginSteps, Known
  <2>3. ClaimsOf(local[u].user) \in Claims /\ ClaimsOf(local[u].user).account = n
    BY <1>4, <2>2 DEF ClaimsOf, Claims, UserSnapshotType, User
  <2>4. pc'[u] = "done" /\ answer'[u].token = ClaimsOf(local[u].user)
    BY <1>0, <2>1 DEF AnswerLogin, Grant, Respond, ThreadsTypeOK
  <2>5. QED
    BY <2>3, <2>4
<1>5. QED
  BY <1>3, <1>4 DEF LoginSound

LEMMA StepSignUps ==
    ASSUME NumbersApart, MaxInFlight = 1, TypeInv, Alone, ReadUsersFresh, ConsumersNamed,
           SignUpInv, [Next]_vars
    PROVE  SignUpInv'
<1>0. ThreadsTypeOK
  BY DEF TypeInv
<1>1. ASSUME NEW t \in Threads, SignedUp(t)'
      PROVE  \/ Registered(t)' /\ Serve(t)
             \/ SignedUp(t) /\ Registered(t)' /\ req'[t] = req[t]
  <2>1. ASSUME NEW r \in Requests, Accept(t, r)
        PROVE  FALSE
    BY <1>0, <1>1, <2>1, FirstSteps DEF SignedUp, Done
  <2>2. CASE pc'[t] = pc[t] /\ req'[t] = req[t] /\ answer'[t] = answer[t]
    <3>1. SignedUp(t)
      BY <1>1, <2>2 DEF SignedUp, Done
    <3>2. Registered(t)
      BY <3>1 DEF SignUpInv
    <3>3. OnlyUserOf(req[t].number)' /\ users'[req[t].number] = users[req[t].number]
      <4>1. PICK n : n = req[t].number
        OBVIOUS
      <4>2. OnlyUserOf(n)
        BY <3>2, <4>1 DEF Registered
      <4>3. OnlyUserOf(n)' /\ users'[n] = users[n]
        BY <4>2, StepOnlyUserOf
      <4>4. req'[t].number = n
        BY <2>2, <4>1
      <4>5. QED
        BY <4>1, <4>3, <4>4 DEF OnlyUserOf
    <3>4. QED
      BY <2>2, <3>1, <3>2, <3>3 DEF Registered
  <2>3. CASE Serve(t)
    BY <1>1, <2>3, SigningUp DEF SignUpInv
  <2>4. QED
    BY <1>0, <2>1, <2>2, <2>3, ThreadMoves
<1>2. ASSUME NEW u \in Threads
      PROVE  LoginSound(u)'
  <2> SUFFICES ASSUME NEW t \in Threads,
                      SignedUp(t)', pc'[u] \in LoginSteps, LoginAs(u, t)'
               PROVE  \/ pc'[u] = "userOfNumber"
                      \/ pc'[u] = "accountOfUser"
                            /\ local'[u].user.user.account = req'[t].number
    BY DEF LoginSound
  <2>1. LoginSound(u)
    BY DEF SignUpInv
  <2>2. CASE UNCHANGED vars
    BY <2>1, <2>2 DEF LoginSound, vars, threadVars, SignedUp, Done, LoginAs
  <2>3. CASE Serve(u)
    <3>1. LoginStep(u)
      <4>1. pc'[u] \notin UNION {TransferSteps, ComplaintSteps, TriageSteps, ModerationSteps,
                                 ConsumerSteps, EmployeeSteps, ProfileSteps, {"done"}}
        BY DEF TransferSteps, ComplaintSteps, TriageSteps, ModerationSteps, ConsumerSteps,
               EmployeeSteps, ProfileSteps, LoginSteps
      <4>2. QED
        BY <1>0, <2>3, <4>1, HandlersStay DEF Serve, Stays
    <3>2. pc[u] \in LoginSteps /\ req'[u] = req[u]
      BY <1>0, <3>1, HandlersStay, HandlerSteps DEF Stays
    <3>3. t # u
      BY DEF SignedUp, Done, LoginSteps
    <3>4. pc'[t] = pc[t] /\ req'[t] = req[t] /\ answer'[t] = answer[t]
      BY <1>0, <2>3, <3>3, OneThreadMoves
    <3>5. SignedUp(t) /\ LoginAs(u, t)
      BY <3>2, <3>4 DEF SignedUp, Done, LoginAs
    <3>6. Registered(t)
      BY <3>5 DEF SignUpInv
    <3>7. pc'[u] # "done"
      BY DEF LoginSteps
    <3>8. QED
      BY <2>1, <2>3, <3>2, <3>4, <3>5, <3>6, <3>7, LoggingIn
  <2>4. CASE pc'[u] \in {"idle", "done"}
    BY <2>4 DEF LoginSteps
  <2>5. ASSUME NEW r \in Requests, Accept(u, r)
        PROVE  pc'[u] = "userOfNumber"
    <3>1. /\ pc'[u] = FirstStep[r.kind] /\ req'[u] = r
      BY <1>0, <2>5 DEF Accept, ThreadsTypeOK
    <3>2. QED
      BY <3>1 DEF LoginAs, FirstStep
  <2>6. QED
    BY <2>2, <2>3, <2>4, <2>5, OnlyOne
<1>3. \A t \in Threads : FieldsGiven(t)'
  BY <1>0, StepFieldsGiven DEF SignUpInv
<1>4. QED
  BY <1>1, <1>2, <1>3 DEF SignUpInv

LEMMA SignUpsHold ==
    ASSUME NumbersApart, MaxInFlight = 1
    PROVE  Spec => []SignUpInv
<1>1. Init => SignUpInv
  BY DEF Init, WorkersInit, SignUpInv, FieldsGiven, SignedUp, LoginSound, Done, ConsumerSteps,
         LoginSteps
<1>2. TypeInv /\ Alone /\ ReadUsersFresh /\ ConsumersNamed /\ SignUpInv /\ [Next]_vars
        => SignUpInv'
  BY StepSignUps
<1>3. QED
  BY <1>1, <1>2, TypeInvHolds, AloneHolds, ReadUsersFreshHolds, ConsumersNamedHolds, PTL DEF Spec

(* Served one at a time, whoever signed up for an account can log in to it *)
(* with the number and password it gave, as long as no account number is   *)
(* an employee's user id.                                                  *)
THEOREM SignedUpLogIn ==
    ASSUME NumbersApart, MaxInFlight = 1
    PROVE  Spec => SignedUpCanLogIn
<1>1. ASSUME TypeInv, Alone, SignUpInv, [Next]_vars, NEW t \in Threads, NEW u \in Threads,
             t \in Done, req[t].kind = "consumer", answer[t].code = 201,
             u \in InFlight, pc'[u] = "done", LoginAs(u, t)
      PROVE  answer'[u].token # None /\ answer'[u].token.account = req[t].number
  <2>0. ThreadsTypeOK /\ pc[u] \notin {"idle", "done"}
    BY <1>1, Resting DEF TypeInv
  <2>1. Serve(u)
    <3>1. ASSUME NEW r \in Requests, Accept(u, r)
          PROVE  FALSE
      BY <2>0, <3>1, FirstSteps
    <3>2. QED
      BY <1>1, <2>0, <3>1, ThreadMoves
  <2>2. pc[u] \in LoginSteps
    <3>1. StepSound(pc[u], req[u], local[u])
      BY <1>1 DEF TypeInv, ThreadsSound
    <3>2. pc[u] \notin UNION {TransferSteps, ComplaintSteps, TriageSteps, ModerationSteps,
                              ConsumerSteps, EmployeeSteps, ProfileSteps}
      BY <1>1, <3>1 DEF StepSound, TransferRequest, ComplaintRequest, TriageRequest,
                        ModerationRequest, ProfileRequest, LoginAs
    <3>3. QED
      BY <2>1, <3>2, HandlerSteps DEF Serve
  <2>3. SignedUp(t) /\ Registered(t) /\ LoginSound(u)
    BY <1>1 DEF SignUpInv, SignedUp
  <2>4. answer'[u].token \in Claims /\ answer'[u].token.account = req[t].number
    BY <1>1, <2>1, <2>2, <2>3, LoggingIn
  <2>5. QED
    BY <2>4, WorkersAssumption
<1>2. TypeInv /\ Alone /\ SignUpInv /\ [Next]_vars =>
        (\A t, u \in Threads :
            /\ t \in Done /\ req[t].kind = "consumer" /\ answer[t].code = 201
            /\ u \in InFlight /\ pc'[u] = "done" /\ req[u].kind = "accountLogin"
            /\ req[u].number = req[t].number /\ req[u].password = req[t].password
            /\ req[u].name \in {Empty, req[t].name} /\ req[u].role \in {"any", "consumer"}
            => answer'[u].token # None /\ answer'[u].token.account = req[t].number)
  BY <1>1 DEF LoginAs
<1>3. QED
  BY <1>2, TypeInvHolds, AloneHolds, SignUpsHold, PTL DEF Spec, SignedUpCanLogIn
=============================================================================
