------------------------------ MODULE OnyxApi ------------------------------
(***************************************************************************)
(* The ONYX backend as its clients see it: threads serving transfers,      *)
(* complaints, triage, moderation, registration and login requests against *)
(* one store.                                                              *)
(***************************************************************************)
EXTENDS TransferHandler, ComplaintHandler, ModerationHandler, RegistrationHandler,
        SessionHandler

vars == <<storeVars, threadVars>>

Init == StoreInit /\ WorkersInit

Serve(t) ==
    \/ TransferStep(t)
    \/ ComplaintStep(t)
    \/ TriageStep(t)
    \/ ModerationStep(t)
    \/ RegistrationStep(t)
    \/ LoginStep(t)
    \/ ProfileStep(t)

Next ==
    \E t \in Threads :
        \/ \E r \in Requests : Accept(t, r) /\ UNCHANGED storeVars
        \/ Serve(t)

Spec == Init /\ [][Next]_vars

(* A thread that has a request is scheduled until it has answered: its     *)
(* steps wait for nothing but the store's mutex, which every method        *)
(* releases.  No client is obliged to send anything.                       *)
FairSpec == Spec /\ \A t \in Threads : WF_vars(Serve(t))

-----------------------------------------------------------------------------
Steps ==
    UNION {{"idle", "done"}, TransferSteps, ComplaintSteps, TriageSteps, ModerationSteps,
           ConsumerSteps, EmployeeSteps, LoginSteps, ProfileSteps}

AnswerType ==
    [code: {200, 201, 400, 401, 403, 404, 409, 500}, tx: Nat, token: Claims \cup {None},
     about: Names \cup {None}]

(* Every table and every local holds a value of its type.                  *)
TypeOK ==
    /\ StoreTypeOK
    /\ pc \in [Threads -> Steps]
    /\ req \in [Threads -> Requests \cup {None}]
    /\ local \in [Threads -> LocalType]
    /\ answer \in [Threads -> AnswerType \cup {None}]
=============================================================================
