-------------------------- MODULE TransferHandler --------------------------
(***************************************************************************)
(* POST /api/v1/transactions: TransactionController::execute_transaction   *)
(* with FraudDetectionEngine::evaluate_transaction inside it.              *)
(***************************************************************************)
EXTENDS Workers

TransferSteps == {"receiver", "sender", "countComplaints", "readHistory", "execute"}

WellFormedTransfer(r) == r.amount > 0 /\ r.sender # None /\ r.to # None

(* The checks of the body and of the caller, before any store call.        *)
RefuseTransfer(t) ==
    /\ pc[t] = "receiver"
    /\ ~WellFormedTransfer(req[t])
    /\ IF req[t].amount > 0 /\ req[t].sender = None /\ req[t].role = "consumer"
       THEN Reply(t, 403, NoTx)
       ELSE Reply(t, 400, NoTx)
    /\ UNCHANGED storeVars

(* find_account_by_upi or find_account_by_id of the recipient.             *)
ResolveReceiver(t) ==
    LET found == IF req[t].by = "upi"
                 THEN FindAccountByUpi(req[t].to)
                 ELSE FindAccountById(req[t].to)
    IN  /\ pc[t] = "receiver"
        /\ WellFormedTransfer(req[t])
        /\ \/ found = {} /\ Reply(t, 404, NoTx)
           \/ \E a \in found :
                Continue(t, "sender", [local[t] EXCEPT !.peer = Snapshot(a)])
        /\ UNCHANGED storeVars

(* find_account_by_id of the sender.                                       *)
ResolveSender(t) ==
    LET found == FindAccountById(req[t].sender)
    IN  /\ pc[t] = "sender"
        /\ \/ found = {} /\ Reply(t, 404, NoTx)
           \/ local[t].peer.id \in found /\ Reply(t, 400, NoTx)
           \/ \E a \in found \ {local[t].peer.id} :
                Continue(t, "countComplaints", [local[t] EXCEPT !.payer = Snapshot(a)])
        /\ UNCHANGED storeVars

(* Mutant: the complaints against the sender are counted.                  *)
CountSenderComplaints(t) ==
    /\ pc[t] = "countComplaints"
    /\ Continue(t, "readHistory",
            [local[t] EXCEPT !.tally = CountComplaintsForSuspect(local[t].payer.id)])
    /\ UNCHANGED storeVars

(* count_complaints_for_suspect of the receiver.                           *)
CountReceiverComplaints(t) ==
    /\ pc[t] = "countComplaints"
    /\ Continue(t, "readHistory",
            [local[t] EXCEPT !.tally = CountComplaintsForSuspect(local[t].peer.id)])
    /\ UNCHANGED storeVars

(* find_transactions_by_account of the receiver.                           *)
ReadReceiverHistory(t) ==
    /\ pc[t] = "readHistory"
    /\ Continue(t, "execute",
            [local[t] EXCEPT !.inflow = Len(FindTransactionsByAccount(local[t].peer.id))])
    /\ UNCHANGED storeVars

(* The verdict on a payment, from what the thread has read.                *)
Evaluate(t) ==
    Verdict(Score(local[t].peer.account.risk, local[t].tally, local[t].inflow,
                  local[t].payer.account.balance, req[t].amount))

(* Mutant: the result of the store call is not looked at.                  *)
ExecuteTransferUnchecked(t) ==
    LET s == local[t].payer.id
        r == local[t].peer.id
    IN  /\ pc[t] = "execute"
        /\ IF CanTransfer(s, r, req[t].amount)
           THEN ExecuteAtomicTransfer(s, r, req[t].amount, Evaluate(t))
           ELSE UNCHANGED <<accountVars, ledgerVars>>
        /\ Reply(t, 201, Len(transactions) + 1)
        /\ UNCHANGED <<complaintVars, userVars>>

(* Mutant: a refused transfer waits for money instead of answering.        *)
ExecuteTransferWhenFunded(t) ==
    LET s == local[t].payer.id
        r == local[t].peer.id
    IN  /\ pc[t] = "execute"
        /\ CanTransfer(s, r, req[t].amount)
        /\ ExecuteAtomicTransfer(s, r, req[t].amount, Evaluate(t))
        /\ Reply(t, 201, Len(transactions) + 1)
        /\ UNCHANGED <<complaintVars, userVars>>

(* execute_atomic_transfer with the verdict just reached.                  *)
ExecuteTransfer(t) ==
    LET s == local[t].payer.id
        r == local[t].peer.id
    IN  /\ pc[t] = "execute"
        /\ \/ /\ CanTransfer(s, r, req[t].amount)
              /\ ExecuteAtomicTransfer(s, r, req[t].amount, Evaluate(t))
              /\ Reply(t, 201, Len(transactions) + 1)
           \/ /\ ~CanTransfer(s, r, req[t].amount)
              /\ Reply(t, 400, NoTx)
              /\ UNCHANGED <<accountVars, ledgerVars>>
        /\ UNCHANGED <<complaintVars, userVars>>

TransferStep(t) ==
    \/ RefuseTransfer(t)
    \/ ResolveReceiver(t)
    \/ ResolveSender(t)
    \/ CountReceiverComplaints(t)
    \/ ReadReceiverHistory(t)
    \/ ExecuteTransfer(t)
=============================================================================
