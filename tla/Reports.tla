------------------------------ MODULE Reports ------------------------------
(***************************************************************************)
(* The handlers that only read: the check before a payment                 *)
(* (AccountController::verify_risk), payments and their flags              *)
(* (TransactionController), the registry of complaints                     *)
(* (ComplaintController), and the totals that employees see (main.cpp and  *)
(* GraphEngine::compute_network_metrics).  Each is a chain of store calls, *)
(* so a report may mix what the store held at different moments.           *)
(*                                                                         *)
(* A recorded payment never changes, so a copy of one is its id.  Which    *)
(* accounts bear an archetype of the benchmark or a merchant's badge is    *)
(* left open, and the accounts' order in a listing, that of an             *)
(* unordered_map, is left out.                                             *)
(***************************************************************************)
EXTENDS GraphEngine

CONSTANT ReportRequests   \* the requests for a report

Roles == {"consumer", "employee"}

(* A filter of None is no filter.                                          *)
ReportRequest ==
    [kind: {"verify"}, name: Names]
    \cup [kind: {"flagDetails", "transaction"}, role: Roles, caller: Names \cup {None}, tx: Nat]
    \cup [kind: {"history"}, role: Roles, caller: Names \cup {None}]
    \cup [kind: {"metrics", "audit", "stats"}]
    \cup [kind: {"directory"}, limit: Nat, offset: Nat]
    \cup [kind: {"cases"}, filter: ComplaintStatus \cup {None}, limit: Nat]
    \cup [kind: {"case"}, complaint: ComplaintIds]

ASSUME ReportAssumption == ReportRequests \subseteq ReportRequest

VARIABLES
    stage,   \* the store call the reading thread makes next
    query,   \* the report it prepares
    page,    \* what it has read so far
    result   \* the status it answered

reportVars == <<stage, query, page, result>>

(* account, tally, reasons: of the recipient being checked.  payments, and *)
(* those of them found flagged.  cases: the complaints copied, shown: what *)
(* was looked up for each.  at: the payment or complaint whose turn it is. *)
(* known, for the properties: the transactions there were when the         *)
(* recipient was found.                                                    *)
NewPage ==
    [account |-> None, tally |-> 0, reasons |-> {}, known |-> 0,
     payments |-> <<>>, flagged |-> {}, cases |-> <<>>, shown |-> <<>>, at |-> 1,
     users |-> 0, accounts |-> 0, frozen |-> 0, held |-> 0, listed |-> 0]

FirstRead ==
    [verify |-> "recipient", flagDetails |-> "payment", transaction |-> "payment",
     history |-> "payments", metrics |-> "accounts", audit |-> "users", stats |-> "accounts",
     directory |-> "accounts", cases |-> "complaints", case |-> "complaint"]

ReportInit ==
    /\ stage = "idle"
    /\ query = None
    /\ page = NewPage
    /\ result = None

Read(next, seen) == stage' = next /\ page' = seen /\ UNCHANGED <<query, result>>

Show(seen) == stage' = "answered" /\ result' = 200 /\ page' = seen /\ UNCHANGED query

Refuse(status) == stage' = "answered" /\ result' = status /\ UNCHANGED <<query, page>>

AskForReport(q) ==
    /\ stage = "idle"
    /\ stage' = FirstRead[q.kind]
    /\ query' = q
    /\ UNCHANGED <<page, result>>

-----------------------------------------------------------------------------
(* The check before a payment                                              *)

(* A string with an '@' is first taken for a handle, any other for an id;  *)
(* then the other way round.                                               *)
FoundFirst == IF query.name \in Handles THEN FindAccountByUpi(query.name)
                                        ELSE FindAccountById(query.name)

FoundNext == IF query.name \in Handles THEN FindAccountById(query.name)
                                       ELSE FindAccountByUpi(query.name)

FoundRecipient(a) ==
    Read("complaintsAbout", [page EXCEPT !.account = Snapshot(a), !.known = Len(transactions)])

FindRecipient ==
    /\ stage = "recipient"
    /\ \/ query.name = Empty /\ Refuse(400)
       \/ query.name # Empty /\ FoundFirst = {} /\ Read("recipientOtherwise", page)
       \/ \E a \in FoundFirst : FoundRecipient(a)

FindRecipientOtherwise ==
    /\ stage = "recipientOtherwise"
    /\ \/ FoundNext = {} /\ Refuse(404)
       \/ \E a \in FoundNext : FoundRecipient(a)

(* The lines a recipient may have by the ground truth of the benchmark and *)
(* as a verified merchant.                                                 *)
Archetypes == {{}, {"ARCHETYPE"}}

Badges == {{}, {"MERCHANT"}}

(* An archetype says it all of a FLAGGED account.                          *)
StandingReasons(account, tally, archetype) ==
    archetype
        \cup ({account.status} \ (IF archetype = {} THEN {"ACTIVE"} ELSE {"ACTIVE", "FLAGGED"}))
        \cup (IF tally > 0 THEN {"COMPLAINTS"} ELSE {})

(* The history is only looked at when nothing else is wrong.               *)
CountComplaintsAbout ==
    LET tally == CountComplaintsForSuspect(page.account.id)
    IN  /\ stage = "complaintsAbout"
        /\ \E archetype \in Archetypes, badge \in Badges :
            LET reasons == StandingReasons(page.account.account, tally, archetype)
            IN  IF reasons = {} THEN Read("velocity", [page EXCEPT !.tally = tally])
                ELSE Show([page EXCEPT !.tally = tally, !.reasons = reasons \cup badge])

VelocityReasons(a, risk) ==
    LET history == ToSet(FindTransactionsByAccount(a))
        payers  == {transactions[i].sender : i \in {j \in history : transactions[j].receiver = a}}
        spends  == \E i \in history : transactions[i].sender = a
    IN  (IF Cardinality(payers) >= 3 THEN {"INFLOW"} ELSE {})
        \cup (IF payers # {} /\ spends /\ risk >= 600 THEN {"DRAIN"} ELSE {})

(* Unlike the level, the reasons go by the risk as it is stored.  Only who *)
(* has no other line is called clean or elevated.                          *)
CheckVelocity ==
    LET risk == page.account.account.risk
    IN  /\ stage = "velocity"
        /\ \E badge \in Badges :
            LET found == VelocityReasons(page.account.id, risk) \cup badge
            IN  Show([page EXCEPT !.reasons =
                    IF found # {} THEN found
                    ELSE IF risk < 400 THEN {"CLEAN"} ELSE {"ELEVATED"}])

(* is_safe_to_pay of the answer.                                           *)
ShownSafe == SafeToPay(page.account.account.status, page.account.account.risk, page.tally)

-----------------------------------------------------------------------------
(* Payments and their flags                                                *)

(* Mutant: whoever knows the id may look.                                  *)
MayViewAny(i) == query.role = "consumer" => query.caller # None

MayView(i) ==
    query.role = "consumer" =>
        query.caller \in {transactions[i].sender, transactions[i].receiver}

FindPayment ==
    /\ stage = "payment"
    /\ IF query.tx \notin DOMAIN transactions THEN Refuse(404)
       ELSE IF ~MayView(query.tx) THEN Refuse(403)
       ELSE Read("flags", [page EXCEPT !.payments = <<query.tx>>])

(* A consumer's own payments, or all of them; without an account there are *)
(* none.                                                                   *)
PaymentsOf(q) ==
    IF q.kind # "history" \/ q.role = "employee" THEN [i \in DOMAIN transactions |-> i]
    ELSE IF q.caller = None THEN <<>> ELSE FindTransactionsByAccount(q.caller)

(* The audit and the statistics only count them.                           *)
ListPayments ==
    LET listed == PaymentsOf(query)
        held   == {i \in ToSet(listed) : transactions[i].status = "HELD"}
        seen   == [page EXCEPT !.payments = listed, !.held = Cardinality(held)]
    IN  /\ stage = "payments"
        /\ IF query.kind \in {"audit", "stats"} \/ listed = <<>>
           THEN Show(seen) ELSE Read("flags", seen)

FindFlag(i) == {i} \cap DOMAIN flags

(* find_flag_by_transaction_id, for one payment after the other.           *)
LookUpFlag ==
    LET seen == [page EXCEPT !.flagged = @ \cup FindFlag(page.payments[page.at]),
                             !.at = @ + 1]
    IN  /\ stage = "flags"
        /\ IF page.at = Len(page.payments) THEN Show(seen) ELSE Read("flags", seen)

-----------------------------------------------------------------------------
(* Totals                                                                  *)

CountUsers ==
    /\ stage = "users"
    /\ Read("accounts", [page EXCEPT !.users = Cardinality(DOMAIN users)])

(* How many accounts a page of the directory has.                          *)
PageSize(q, total) ==
    IF q.offset >= total THEN 0
    ELSE ClampTo(0, total - q.offset, ClampTo(1, 200, q.limit))

CountAccounts ==
    LET total  == Cardinality(DOMAIN accounts)
        frozen == {a \in DOMAIN accounts : accounts[a].status = "FROZEN"}
        seen   == [page EXCEPT !.accounts = total, !.frozen = Cardinality(frozen)]
    IN  /\ stage = "accounts"
        /\ \/ /\ query.kind = "directory"
              /\ Show([seen EXCEPT !.listed = PageSize(query, total)])
           \/ query.kind # "directory" /\ Read("payments", seen)

-----------------------------------------------------------------------------
(* Complaints                                                              *)

(* list_complaints appends before it compares: a limit of 0 shows one.  A  *)
(* complaint that took over another's id is in complaint_order_ twice.     *)
ListedCases(q) ==
    LET matching == Picked(complaintOrder,
                        {c \in DOMAIN complaints : q.filter \in {None, complaints[c].status}})
        room == IF q.limit = 0 THEN 1 ELSE q.limit
    IN  IF Len(matching) <= room THEN matching ELSE SubSeq(matching, 1, room)

CopyCases(ids) == [k \in DOMAIN ids |-> complaints[ids[k]]]

ListCases ==
    LET seen == [page EXCEPT !.cases = CopyCases(ListedCases(query))]
    IN  /\ stage = "complaints"
        /\ IF seen.cases = <<>> THEN Show(seen) ELSE Read("suspectById", seen)

FindCase ==
    /\ stage = "complaint"
    /\ IF query.complaint \in DOMAIN complaints
       THEN Read("suspectById", [page EXCEPT !.cases = CopyCases(<<query.complaint>>)])
       ELSE Refuse(404)

Case == page.cases[page.at]

(* Add what was found of the suspect to the case whose turn it is.         *)
ShowSuspect(a) == [page EXCEPT !.shown = Append(@, [suspect |-> a, filer |-> None])]

(* Mutant: the suspect of the case before is shown again.                  *)
SuspectOfFirst ==
    LET found == FindAccountById(page.cases[1].suspect)
    IN  /\ stage = "suspectById"
        /\ \/ \E a \in found : Read("filer", ShowSuspect(a))
           \/ found = {} /\ Read("suspectByUpi", page)

FindCaseSuspect ==
    LET found == FindAccountById(Case.suspect)
    IN  /\ stage = "suspectById"
        /\ \/ \E a \in found : Read("filer", ShowSuspect(a))
           \/ found = {} /\ Read("suspectByUpi", page)

FindCaseSuspectByUpi ==
    LET found == FindAccountByUpi(Case.suspect)
    IN  /\ stage = "suspectByUpi"
        /\ \/ \E a \in found : Read("filer", ShowSuspect(a))
           \/ found = {} /\ Read("filer", ShowSuspect(None))

FindFiler ==
    LET found == FindUserByAccountId(Case.complainant)
    IN  /\ stage = "filer"
        /\ \E u \in found \cup {x \in {None} : found = {}} :
            LET seen == [page EXCEPT !.shown[page.at].filer = u, !.at = @ + 1]
            IN  IF page.at = Len(page.cases) THEN Show(seen) ELSE Read("suspectById", seen)

-----------------------------------------------------------------------------
ReportStep ==
    \/ FindRecipient \/ FindRecipientOtherwise \/ CountComplaintsAbout \/ CheckVelocity
    \/ FindPayment \/ ListPayments \/ LookUpFlag
    \/ CountUsers \/ CountAccounts
    \/ ListCases \/ FindCase \/ FindCaseSuspect \/ FindCaseSuspectByUpi \/ FindFiler

ReportRead == (\E q \in ReportRequests : AskForReport(q)) \/ ReportStep

(* Bound: one reader, of a subgraph or of a report, beside the workers;    *)
(* readers change nothing, so they cannot disturb each other.              *)
ReadersNext ==
    \/ Next /\ UNCHANGED <<graphVars, reportVars>>
    \/ GraphRead /\ stage = "idle" /\ UNCHANGED <<vars, reportVars>>
    \/ ReportRead /\ step = "idle" /\ UNCHANGED <<vars, graphVars>>

\* The whole program before its first request, its reader threads included.
ReadersInit ==
    Init /\ GraphInit /\ ReportInit

ReadersSpec ==
    ReadersInit /\ [][ReadersNext]_<<vars, graphVars, reportVars>>

-----------------------------------------------------------------------------
Shown(kinds) == stage = "answered" /\ result = 200 /\ query.kind \in kinds

PaymentReports == {"flagDetails", "transaction", "history", "metrics"}

(* Every variable of a reader keeps its type: what it has copied exists,   *)
(* and it has looked up nothing it has not copied.                         *)
ReadersTypeOK ==
    /\ GraphTypeOK
    /\ stage \in {"idle", "recipientOtherwise", "complaintsAbout", "velocity", "flags", "answered",
                  "suspectById", "suspectByUpi", "filer"}
                    \cup {FirstRead[k] : k \in DOMAIN FirstRead}
    /\ query \in ReportRequests \cup {None}
    /\ result \in {None, 200, 400, 403, 404}
    /\ page.account \in SnapshotType \cup {None}
    /\ page.flagged \subseteq ToSet(page.payments)
    /\ ToSet(page.payments) \subseteq DOMAIN transactions
    /\ page.cases \in Seq(Complaint) /\ Len(page.shown) <= Len(page.cases)
    /\ page.frozen <= page.accounts /\ page.listed <= page.accounts

(* A consumer's subgraph is centred on its own account, although route and *)
(* engine look the account up separately.  (main.cpp:282 "consumers can    *)
(* only extract subgraphs centered on their own account".)                 *)
OwnSubgraphOnly ==
    Answered /\ ask.role = "consumer" => Head(walk.nodes) = ask.caller

(* Every payment a consumer is shown is one it made or received, found by  *)
(* its id or through the index.                                            *)
OwnPaymentsOnly ==
    Shown(PaymentReports \ {"metrics"}) /\ query.role = "consumer" =>
        \A i \in ToSet(page.payments) :
            query.caller \in {transactions[i].sender, transactions[i].receiver}

(* A consumer sees its own records only.                                   *)
OwnRecordsOnly == OwnSubgraphOnly /\ OwnPaymentsOnly

(* Payments and flags are read in different calls, while payments go on,   *)
(* and still a payment is reported as flagged exactly when it was not let  *)
(* through: no held payment is explained as a clean transfer, and the      *)
(* metrics count neither more flags nor fewer.                             *)
FlaggedAsDecided ==
    Shown(PaymentReports) =>
        page.flagged = {i \in ToSet(page.payments) : transactions[i].status # "COMPLETED"}

(* Who has complained, or is complaining, about a.                         *)
Accused(a) ==
    \E t \in Threads :
        /\ req[t] # None /\ req[t].kind = "complaint"
        /\ \/ t \in Done /\ answer[t].about = a
           \/ t \in InFlight /\ local[t].peer # None /\ local[t].peer.id = a

(* The check before a payment keeps its word: unless somebody complains of *)
(* the account, no payment made to it after it was called safe is held,    *)
(* whatever was paid in between; and only a safe account is said to have a *)
(* clean history.  (transaction_controller.cpp and account_controller.cpp  *)
(* judge by rules of their own.)                                           *)
VerdictHolds ==
    Shown({"verify"}) =>
        /\ ShownSafe /\ ~Accused(page.account.id) =>
            \A i \in (page.known + 1)..Len(transactions) :
                transactions[i].receiver = page.account.id => transactions[i].status # "HELD"
        /\ "CLEAN" \in page.reasons => ShownSafe

(* Every complaint of an answer is shown with the suspect it was filed     *)
(* against, looked up again under an id that a client may have chosen, and *)
(* there are no more than asked for, one at least.                         *)
CasesShown ==
    Shown({"cases", "case"}) =>
        /\ \A k \in DOMAIN page.cases : page.shown[k].suspect = page.cases[k].suspect
        /\ query.kind = "cases" => Len(page.cases) <= (IF query.limit = 0 THEN 1 ELSE query.limit)
=============================================================================
