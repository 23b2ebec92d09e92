-------------------------- MODULE ComplaintHandler --------------------------
(***************************************************************************)
(* POST /api/v1/complaints and PUT /api/v1/complaints/:id/status:          *)
(* ComplaintController::file_complaint and update_complaint_status.        *)
(***************************************************************************)
EXTENDS Workers

CONSTANTS
    Handles,      \* the names that contain an '@'
    ExternalHolder,  \* the holder "Unregistered Beneficiary" and the suspect's name
    ExternalIds   \* the ids "EXT-ACC-" and four random bytes

ASSUME ComplaintAssumption ==
    /\ Handles \subseteq Names
    /\ ExternalHolder \in Names
    /\ ExternalIds \subseteq Names \ (DOMAIN SeedAccounts \cup {Empty})

ComplaintSteps ==
    {"suspectByUpi", "suspectById", "provision", "ownership", "record", "count", "taint"}

TriageSteps == {"complaint", "setTriage"}

(* The account file_complaint opens for a suspect it cannot find.          *)
ExternalAccount(r) ==
    [upi |-> r.suspect, holder |-> ExternalHolder, balance |-> 0, risk |-> r.risk,
     status |-> "FLAGGED"]

(* A name without '@' becomes the account's id, a handle gets a random id, *)
(* which is taken to be new.                                               *)
ProvisionedIds(r) ==
    IF r.suspect \in Handles THEN ExternalIds \ DOMAIN accounts ELSE {r.suspect}

(* Once the suspect is known: read the amount and look the transaction up  *)
(* if one was quoted.                                                      *)
AfterSuspect(t) == IF req[t].tx = NoTx THEN "record" ELSE "ownership"

(* The checks of the caller and of the body, before any store call.        *)
RefuseComplaint(t) ==
    /\ pc[t] = "suspectByUpi"
    /\ \/ req[t].caller = None /\ Reply(t, 403, NoTx)
       \/ req[t].caller # None /\ req[t].suspect = None /\ Reply(t, 400, NoTx)
    /\ UNCHANGED storeVars

(* find_account_by_upi of the suspect.                                     *)
FindSuspectByUpi(t) ==
    LET found == FindAccountByUpi(req[t].suspect)
    IN  /\ pc[t] = "suspectByUpi"
        /\ req[t].caller # None /\ req[t].suspect # None
        /\ \/ found = {} /\ Continue(t, "suspectById", local[t])
           \/ \E a \in found :
                Continue(t, AfterSuspect(t), [local[t] EXCEPT !.peer = Snapshot(a)])
        /\ UNCHANGED storeVars

(* find_account_by_id of the same string.                                  *)
FindSuspectById(t) ==
    LET found == FindAccountById(req[t].suspect)
    IN  /\ pc[t] = "suspectById"
        /\ \/ found = {} /\ Continue(t, "provision", local[t])
           \/ \E a \in found :
                Continue(t, AfterSuspect(t), [local[t] EXCEPT !.peer = Snapshot(a)])
        /\ UNCHANGED storeVars

(* Mutant: the account of an external suspect is not opened.               *)
ProvisionNothing(t) ==
    /\ pc[t] = "provision"
    /\ \E id \in ProvisionedIds(req[t]) :
        Continue(t, AfterSuspect(t),
            [local[t] EXCEPT !.peer = [id |-> id, account |-> ExternalAccount(req[t])],
                             !.external = TRUE])
    /\ UNCHANGED storeVars

(* create_account of the external suspect, whose result is not looked at.  *)
ProvisionSuspect(t) ==
    /\ pc[t] = "provision"
    /\ \E id \in ProvisionedIds(req[t]) :
        /\ CreateAccount(id, ExternalAccount(req[t]))
        /\ Continue(t, AfterSuspect(t),
                [local[t] EXCEPT !.peer = [id |-> id, account |-> ExternalAccount(req[t])],
                                 !.external = TRUE])
    /\ UNCHANGED <<ledgerVars, complaintVars, userVars>>

(* Mutant: who was paid is not checked.                                    *)
CheckPayerOnly(t) ==
    LET known == req[t].tx \in DOMAIN transactions
        tx == transactions[req[t].tx]
    IN  /\ pc[t] = "ownership"
        /\ \/ req[t].tx = BadAmount /\ Reply(t, 500, NoTx)
           \/ known /\ tx.sender # req[t].caller /\ Reply(t, 403, NoTx)
           \/ /\ req[t].tx # BadAmount
              /\ known => tx.sender = req[t].caller
              /\ Continue(t, "record", local[t])
        /\ UNCHANGED storeVars

(* find_transaction_by_id of the quoted transaction, and the checks that   *)
(* it was paid by the caller to the suspect.  A reference ONYX does not    *)
(* know is an external transaction and is not checked.  An amount that is  *)
(* no number throws before the look-up, and the router answers 500: an     *)
(* account opened for the suspect remains.                                 *)
CheckOwnership(t) ==
    LET known == req[t].tx \in DOMAIN transactions
        tx == transactions[req[t].tx]
    IN  /\ pc[t] = "ownership"
        /\ \/ req[t].tx = BadAmount /\ Reply(t, 500, NoTx)
           \/ known /\ tx.sender # req[t].caller /\ Reply(t, 403, NoTx)
           \/ /\ known /\ tx.sender = req[t].caller
              /\ tx.receiver # local[t].peer.id
              /\ Reply(t, 400, NoTx)
           \/ /\ req[t].tx # BadAmount
              /\ known => tx.sender = req[t].caller /\ tx.receiver = local[t].peer.id
              /\ Continue(t, "record", local[t])
        /\ UNCHANGED storeVars

(* create_complaint under a random id.  For an external suspect this is    *)
(* the last store call.                                                    *)
RecordComplaint(t) ==
    /\ pc[t] = "record"
    /\ \E id \in ComplaintIds :
        /\ CreateComplaint(id,
                [complainant |-> req[t].caller, suspect |-> local[t].peer.id,
                 tx |-> req[t].tx, status |-> "SUBMITTED"])
        /\ IF local[t].external
           THEN Reply(t, 201, NoTx)
           ELSE Continue(t, "count", local[t])
    /\ UNCHANGED <<accountVars, ledgerVars, userVars>>

(* count_complaints_for_suspect.                                           *)
CountSuspectComplaints(t) ==
    /\ pc[t] = "count"
    /\ Continue(t, "taint",
            [local[t] EXCEPT !.tally = CountComplaintsForSuspect(local[t].peer.id)])
    /\ UNCHANGED storeVars

(* Mutant: the account is written back as it was read, with its new risk.  *)
TaintCopyOfSuspect(t) ==
    LET id == local[t].peer.id
        suspect == local[t].peer.account
    IN  /\ pc[t] = "taint"
        /\ accounts' = [accounts EXCEPT ![id] =
                [suspect EXCEPT !.risk = TaintedRisk(@, TaintStep),
                                !.status = StatusAfterComplaint(@, suspect.risk, local[t].tally)]]
        /\ UNCHANGED upiIndex
        /\ Reply(t, 201, NoTx)
        /\ UNCHANGED <<ledgerVars, complaintVars, userVars>>

(* apply_taint_update: the risk is raised in place, the status is the one  *)
(* derived from the copy of the account read at the start.                 *)
TaintSuspect(t) ==
    LET suspect == local[t].peer.account
    IN  /\ pc[t] = "taint"
        /\ ApplyTaintUpdate(local[t].peer.id, TaintStep,
                StatusAfterComplaint(suspect.status, suspect.risk, local[t].tally))
        /\ Reply(t, 201, NoTx)
        /\ UNCHANGED <<ledgerVars, complaintVars, userVars>>

-----------------------------------------------------------------------------
(* A body without a status is refused; then find_complaint_by_id and       *)
(* update_complaint_status.                                                *)

FindComplaint(t) ==
    LET known == req[t].complaint \in DOMAIN complaints
    IN  /\ pc[t] = "complaint"
        /\ \/ req[t].status = None /\ Reply(t, 400, NoTx)
           \/ req[t].status # None /\ ~known /\ Reply(t, 404, NoTx)
           \/ req[t].status # None /\ known /\ Continue(t, "setTriage", local[t])
        /\ UNCHANGED storeVars

SetComplaintStatus(t) ==
    /\ pc[t] = "setTriage"
    /\ UpdateComplaintStatus(req[t].complaint, req[t].status)
    /\ Reply(t, 200, NoTx)
    /\ UNCHANGED <<accountVars, ledgerVars, userVars>>

ComplaintStep(t) ==
    \/ RefuseComplaint(t)
    \/ FindSuspectByUpi(t)
    \/ FindSuspectById(t)
    \/ ProvisionSuspect(t)
    \/ CheckOwnership(t)
    \/ RecordComplaint(t)
    \/ CountSuspectComplaints(t)
    \/ TaintSuspect(t)

TriageStep(t) == FindComplaint(t) \/ SetComplaintStatus(t)
=============================================================================
