------------------------- MODULE ModerationHandler -------------------------
(***************************************************************************)
(* PUT /api/v1/accounts/:id/status: AccountController::update_status, by   *)
(* which a bank employee freezes, flags or reactivates an account.  The    *)
(* node action of the graph routes makes the same three store calls.       *)
(***************************************************************************)
EXTENDS Workers

ModerationSteps == {"accountById", "accountByUpi", "setStatus"}

(* find_account_by_id of the path parameter.                               *)
FindAccountToModerate(t) ==
    LET found == FindAccountById(req[t].account)
    IN  /\ pc[t] = "accountById"
        /\ \/ found = {} /\ Continue(t, "accountByUpi", local[t])
           \/ \E a \in found :
                Continue(t, "setStatus", [local[t] EXCEPT !.peer = Snapshot(a)])
        /\ UNCHANGED storeVars

(* find_account_by_upi of it, when no id matched.                          *)
FindHandleToModerate(t) ==
    LET found == FindAccountByUpi(req[t].account)
    IN  /\ pc[t] = "accountByUpi"
        /\ \/ found = {} /\ Reply(t, 404, NoTx)
           \/ \E a \in found :
                Continue(t, "setStatus", [local[t] EXCEPT !.peer = Snapshot(a)])
        /\ UNCHANGED storeVars

(* Mutant: the status is not checked before it is written.                 *)
SetAnyStatus(t) ==
    /\ pc[t] = "setStatus"
    /\ UpdateAccountStatus(local[t].peer.id, req[t].status)
    /\ Reply(t, 200, NoTx)
    /\ UNCHANGED <<ledgerVars, complaintVars, userVars>>

(* The body is parsed now: an unsupported status is refused, a supported   *)
(* one is written with update_account_status.                              *)
SetAccountStatus(t) ==
    /\ pc[t] = "setStatus"
    /\ \/ /\ req[t].status \in AccountStatus
          /\ UpdateAccountStatus(local[t].peer.id, req[t].status)
          /\ Reply(t, 200, NoTx)
       \/ /\ req[t].status \notin AccountStatus
          /\ Reply(t, 400, NoTx)
          /\ UNCHANGED accountVars
    /\ UNCHANGED <<ledgerVars, complaintVars, userVars>>

ModerationStep(t) ==
    \/ FindAccountToModerate(t)
    \/ FindHandleToModerate(t)
    \/ SetAccountStatus(t)
=============================================================================
