--------------------------- MODULE ReadersProofs ---------------------------
(***************************************************************************)
(* The readers, for any set of threads, names and requests.  Payments and  *)
(* flags are read in different calls, and agree, because a payment and its *)
(* flag are recorded in one call and neither ever changes.  Served one at  *)
(* a time, complaints are shown with their suspects and the check before a *)
(* payment repeats what the store says.  A walk over the payments ends     *)
(* with the subgraph that was asked for, whatever is paid meanwhile: after *)
(* lemmas on the balls around an account and on the queue of the walk,     *)
(* what holds of the walk between its steps (Walked) is shown to be kept   *)
(* by each of them.  Last come the types of the walk and of the reports,   *)
(* and that a consumer is shown its own subgraph.                          *)
(***************************************************************************)
EXTENDS Reports, SerialProofs

PageFields ==
    {"account", "tally", "reasons", "known", "payments", "flagged", "cases", "shown", "at",
     "users", "accounts", "frozen", "held", "listed"}

(* A page keeps its fields, and a copy of a payment is that of a recorded  *)
(* one.                                                                    *)
PageSound ==
    /\ page = [f \in PageFields |-> page[f]]
    /\ page.payments \in Seq(DOMAIN transactions)

(* A report goes through the steps of its kind.                            *)
Routed ==
    /\ stage # "idle" => query \in ReportRequests
    /\ stage \in {"recipient", "recipientOtherwise", "complaintsAbout", "velocity"} =>
            query.kind = "verify"
    /\ stage \in {"complaints", "complaint", "suspectById", "suspectByUpi", "filer"} =>
            query.kind \in {"cases", "case"}
    /\ stage = "complaints" => query.kind = "cases"
    /\ stage \in {"users", "accounts"} =>
            query.kind \in {"metrics", "audit", "stats", "directory"}
    /\ stage = "payments" => query.kind \in {"history", "metrics", "audit", "stats"}
    /\ stage = "payment" => query.kind \in {"flagDetails", "transaction"}
    /\ stage = "flags" => query.kind \in PaymentReports

BeforePayments == {"idle", "users", "accounts", "payments", "payment"}

(* Of the payments looked up so far, those that were not let through are   *)
(* the flagged ones.                                                       *)
FlagsRead ==
    /\ stage \in BeforePayments => page.payments = <<>> /\ page.flagged = {} /\ page.at = 1
    /\ stage = "flags" =>
        /\ page.at \in 1..Len(page.payments)
        /\ page.flagged = {i \in {page.payments[k] : k \in 1..(page.at - 1)} :
                                transactions[i].status # "COMPLETED"}

(* And those a consumer is to be shown are its own.                        *)
OwnSeen ==
    stage # "idle" /\ query.kind \in {"flagDetails", "transaction", "history"}
        /\ query.role = "consumer" =>
            \A k \in DOMAIN page.payments :
                query.caller \in {transactions[page.payments[k]].sender,
                                  transactions[page.payments[k]].receiver}

PageInv == PageSound /\ Routed /\ FlagsRead /\ FlaggedAsDecided /\ OwnSeen

-----------------------------------------------------------------------------
(* Readers change nothing.                                                 *)

LEMMA ReadersStep == [ReadersNext]_<<vars, graphVars, reportVars>> => [Next]_vars
BY DEF ReadersNext

(* A program that is read from runs as it would without: what is proved of *)
(* Spec holds beside any number of reports.                                *)
THEOREM ReadersOnlyRead == ReadersSpec => Spec
<1>1. ReadersInit => Init
  BY DEF ReadersInit
<1>2. QED
  BY <1>1, ReadersStep, PTL DEF ReadersSpec, Spec

-----------------------------------------------------------------------------
(* The history of an account lists payments that are recorded, and that    *)
(* the account made or received.                                           *)

HistoriesRecorded ==
    \A a \in Names : txIndex[a] \in Seq(DOMAIN transactions)

HistoriesOwn ==
    \A a \in Names : \A k \in DOMAIN txIndex[a] :
        a \in {transactions[txIndex[a][k]].sender, transactions[txIndex[a][k]].receiver}

HistoriesInv == HistoriesRecorded /\ HistoriesOwn

LEMMA ExactHistories == TypeInv /\ IndexExact => HistoriesInv
<1> SUFFICES ASSUME TypeInv, IndexExact, NEW a \in Names
             PROVE  /\ txIndex[a] \in Seq(DOMAIN transactions)
                    /\ \A k \in DOMAIN txIndex[a] :
                        a \in {transactions[txIndex[a][k]].sender,
                               transactions[txIndex[a][k]].receiver}
  BY DEF HistoriesInv, HistoriesRecorded, HistoriesOwn
<1>1. txIndex[a] \in Seq(Nat)
  BY DEF TypeInv, StoreTypeOK, LedgerTypeOK
<1>2. \A k \in DOMAIN txIndex[a] : txIndex[a][k] \in Parties(a)
  BY DEF IndexExact, ToSet, Parties
<1>3. txIndex[a] \in Seq(DOMAIN transactions)
  BY <1>1, <1>2 DEF Parties
<1>4. QED
  BY <1>2, <1>3 DEF Parties

LEMMA HistoriesHold == Spec => []HistoriesInv
BY ExactHistories, HistoriesExact, TypeInvHolds, PTL

-----------------------------------------------------------------------------
(* A step of the program, while the reader has its page.                   *)

LEMMA WorkersKeepPage ==
    ASSUME TypeInv, PageInv, [Next]_vars, UNCHANGED reportVars
    PROVE  PageInv'
<1>1. /\ DOMAIN transactions \subseteq DOMAIN transactions'
      /\ \A i \in DOMAIN transactions : transactions'[i] = transactions[i]
  BY LedgerGrows
<1>2. UNCHANGED <<stage, query, page, result>>
  BY DEF reportVars
<1>3. \A k \in 1..Len(page.payments) : page.payments[k] \in DOMAIN transactions
  BY DEF PageInv, PageSound
<1>4. PageSound'
  BY <1>1, <1>2 DEF PageInv, PageSound
<1>5. Routed'
  BY <1>2 DEF PageInv, Routed
<1>6. FlagsRead'
  <2>1. CASE stage = "flags"
    <3>1. page.at \in 1..Len(page.payments) /\ Len(page.payments) \in Nat
      BY <2>1 DEF PageInv, FlagsRead, PageSound
    <3>2. \A k \in 1..(page.at - 1) : page.payments[k] \in DOMAIN transactions
      BY <1>3, <3>1
    <3>3. {i \in {page.payments[k] : k \in 1..(page.at - 1)} :
                transactions'[i].status # "COMPLETED"}
            = {i \in {page.payments[k] : k \in 1..(page.at - 1)} :
                transactions[i].status # "COMPLETED"}
      BY <1>1, <3>2
    <3>4. QED
      BY <1>2, <2>1, <3>1, <3>3 DEF PageInv, FlagsRead, BeforePayments
  <2>2. CASE stage # "flags"
    BY <1>2, <2>2 DEF PageInv, FlagsRead
  <2>3. QED
    BY <2>1, <2>2
<1>7. FlaggedAsDecided'
  <2>1. ToSet(page.payments) \subseteq DOMAIN transactions
    BY <1>3 DEF ToSet, PageInv, PageSound
  <2>2. {i \in ToSet(page.payments) : transactions'[i].status # "COMPLETED"}
          = {i \in ToSet(page.payments) : transactions[i].status # "COMPLETED"}
    BY <1>1, <2>1
  <2>3. QED
    BY <1>2, <2>2 DEF PageInv, FlaggedAsDecided, Shown
<1>8. OwnSeen'
  <2>1. DOMAIN page.payments = 1..Len(page.payments)
    BY DEF PageInv, PageSound
  <2>2. QED
    BY <1>1, <1>2, <1>3, <2>1 DEF PageInv, OwnSeen
<1>9. QED
  BY <1>4, <1>5, <1>6, <1>7, <1>8 DEF PageInv

-----------------------------------------------------------------------------
(* A step of the reader, while the store stays as it is.                   *)

Elsewhere ==
    {"recipient", "recipientOtherwise", "complaintsAbout", "velocity", "complaints", "complaint",
     "suspectById", "suspectByUpi", "filer"}

LEMMA AskKeepsPage ==
    ASSUME PageInv, UNCHANGED vars, NEW q \in ReportRequests, AskForReport(q)
    PROVE  PageInv'
<1>1. /\ stage = "idle" /\ stage' = FirstRead[q.kind]
      /\ query' = q /\ UNCHANGED <<page, result, transactions>>
  BY DEF AskForReport, vars, storeVars, ledgerVars
<1>2. q \in ReportRequest
  BY ReportAssumption
<1>3. Routed' /\ stage' \in (BeforePayments \ {"idle"}) \cup Elsewhere
  BY <1>1, <1>2 DEF ReportRequest, FirstRead, Routed, BeforePayments, Elsewhere
<1>4. FlagsRead'
  BY <1>1, <1>3 DEF PageInv, FlagsRead, BeforePayments, Elsewhere
<1>5. FlaggedAsDecided'
  BY <1>3 DEF FlaggedAsDecided, Shown, BeforePayments, Elsewhere
<1>6. OwnSeen'
  BY <1>1 DEF PageInv, FlagsRead, BeforePayments, OwnSeen
<1>7. QED
  BY <1>1, <1>3, <1>4, <1>5, <1>6 DEF PageInv, PageSound

(* The reports that show no payments.                                      *)
LEMMA OthersKeepPage ==
    ASSUME PageInv, UNCHANGED vars,
           \/ FindRecipient \/ FindRecipientOtherwise \/ CountComplaintsAbout \/ CheckVelocity
           \/ ListCases \/ FindCase \/ FindCaseSuspect \/ FindCaseSuspectByUpi \/ FindFiler
    PROVE  PageInv'
<1>1. /\ page = [f \in PageFields |-> page[f]]
      /\ stage \in Elsewhere => query.kind \notin PaymentReports
      /\ UNCHANGED transactions
  BY DEF PageInv, PageSound, Routed, Elsewhere, PaymentReports, vars, storeVars, ledgerVars
<1>2. /\ stage \in Elsewhere /\ stage' \in Elsewhere \cup {"answered"} /\ query' = query
      /\ page' = [f \in PageFields |-> page'[f]] /\ page'.payments = page.payments
      /\ Routed'
  <2>1. CASE FindRecipient \/ FindRecipientOtherwise
    BY <2>1, <1>1 DEF PageInv, Routed, FindRecipient, FindRecipientOtherwise, FoundRecipient,
                      Read, Refuse, Elsewhere, PageFields
  <2>2. CASE CountComplaintsAbout \/ CheckVelocity
    BY <2>2, <1>1 DEF PageInv, Routed, CountComplaintsAbout, CheckVelocity, Read, Show,
                      Elsewhere, PageFields
  <2>3. CASE ListCases \/ FindCase
    BY <2>3, <1>1 DEF PageInv, Routed, ListCases, FindCase, Read, Show, Refuse, Elsewhere,
                      PageFields
  <2>4. CASE FindCaseSuspect \/ FindCaseSuspectByUpi
    BY <2>4, <1>1 DEF PageInv, Routed, FindCaseSuspect, FindCaseSuspectByUpi, ShowSuspect,
                      Read, Elsewhere, PageFields
  <2>5. CASE FindFiler
    BY <2>5, <1>1 DEF PageInv, Routed, FindFiler, Read, Show, Elsewhere, PageFields
  <2>6. QED
    BY <2>1, <2>2, <2>3, <2>4, <2>5
<1>3. FlagsRead' /\ FlaggedAsDecided' /\ OwnSeen'
  BY <1>1, <1>2 DEF PageInv, OwnSeen, FlagsRead, FlaggedAsDecided, Shown, Elsewhere, BeforePayments
<1>4. QED
  BY <1>1, <1>2, <1>3 DEF PageInv, PageSound

LEMMA TotalsKeepPage ==
    ASSUME PageInv, UNCHANGED vars, CountUsers \/ CountAccounts
    PROVE  PageInv'
<1>1. /\ page = [f \in PageFields |-> page[f]]
      /\ UNCHANGED transactions
  BY DEF PageInv, PageSound, vars, storeVars, ledgerVars
<1>2. /\ stage \in {"users", "accounts"} /\ query' = query
      /\ page' = [f \in PageFields |-> page'[f]]
      /\ page'.payments = page.payments /\ page'.flagged = page.flagged /\ page'.at = page.at
      /\ \/ stage' \in {"accounts", "payments"}
         \/ stage' = "answered" /\ query.kind \notin PaymentReports
      /\ Routed'
  <2>1. CASE CountUsers
    BY <2>1, <1>1 DEF PageInv, Routed, CountUsers, Read, PageFields
  <2>2. CASE CountAccounts
    <3>1. PICK total, frozen, listed :
            LET seen == [page EXCEPT !.accounts = total, !.frozen = frozen]
            IN  /\ stage = "accounts"
                /\ \/ query.kind = "directory" /\ Show([seen EXCEPT !.listed = listed])
                   \/ query.kind # "directory" /\ Read("payments", seen)
      BY <2>2 DEF CountAccounts
    <3>2. query.kind \in {"metrics", "audit", "stats", "directory"} /\ query \in ReportRequests
      BY <3>1 DEF PageInv, Routed
    <3>3. CASE query.kind = "directory"
      <4>1. /\ page' = [[[page EXCEPT !.accounts = total] EXCEPT !.frozen = frozen]
                            EXCEPT !.listed = listed]
            /\ stage' = "answered" /\ query' = query /\ stage = "accounts"
        BY <3>1, <3>3 DEF Show
      <4>2. /\ page' = [f \in PageFields |-> page'[f]]
            /\ page'.payments = page.payments
            /\ page'.flagged = page.flagged /\ page'.at = page.at
        BY <1>1, <4>1 DEF PageFields
      <4>3. query.kind \notin PaymentReports
        BY <3>3 DEF PaymentReports
      <4>4. QED
        BY <3>2, <4>1, <4>2, <4>3 DEF Routed
    <3>4. CASE query.kind # "directory"
      BY <1>1, <3>1, <3>2, <3>4 DEF Routed, Read, PageFields
    <3>5. QED
      BY <3>3, <3>4
  <2>3. QED
    BY <2>1, <2>2
<1>3. FlagsRead' /\ FlaggedAsDecided' /\ OwnSeen'
  BY <1>1, <1>2 DEF PageInv, OwnSeen, FlagsRead, FlaggedAsDecided, Shown, BeforePayments
<1>4. QED
  BY <1>1, <1>2, <1>3 DEF PageInv, PageSound

LEMMA FindPaymentKeepsPage ==
    ASSUME PageInv, UNCHANGED vars, FindPayment
    PROVE  PageInv'
<1>1. /\ page = [f \in PageFields |-> page[f]] /\ stage = "payment"
      /\ page.payments = <<>> /\ page.flagged = {} /\ page.at = 1
      /\ UNCHANGED transactions
  BY DEF PageInv, PageSound, FlagsRead, BeforePayments, FindPayment, vars, storeVars, ledgerVars
<1>2. CASE stage' = "answered" /\ result' # 200 /\ UNCHANGED <<query, page>>
  BY <1>1, <1>2 DEF PageInv, PageSound, Routed, FlagsRead, FlaggedAsDecided, Shown,
                    BeforePayments, OwnSeen
<1>3. CASE /\ query.tx \in DOMAIN transactions /\ MayView(query.tx)
           /\ stage' = "flags" /\ query' = query
           /\ page' = [page EXCEPT !.payments = <<query.tx>>]
  <2>1. /\ page' = [f \in PageFields |-> page'[f]]
        /\ page'.payments = <<query.tx>> /\ page'.flagged = {} /\ page'.at = 1
    BY <1>1, <1>3 DEF PageFields
  <2>2. <<query.tx>> \in Seq(DOMAIN transactions) /\ Len(<<query.tx>>) = 1
    BY <1>3
  <2>3. {page'.payments[k] : k \in 1..(1 - 1)} = {}
    OBVIOUS
  <2>4. PageSound' /\ FlagsRead'
    BY <1>1, <1>3, <2>1, <2>2, <2>3 DEF PageSound, FlagsRead, BeforePayments
  <2>5. OwnSeen'
    BY <1>1, <1>3, <2>1 DEF OwnSeen, MayView
  <2>6. QED
    BY <1>1, <1>3, <2>4, <2>5 DEF PageInv, Routed, PaymentReports, FlaggedAsDecided, Shown
<1>4. QED
  BY <1>2, <1>3 DEF FindPayment, Refuse, Read

LEMMA ListPaymentsKeepsPage ==
    ASSUME TypeInv, HistoriesInv, PageInv, UNCHANGED vars, ListPayments
    PROVE  PageInv'
<1> DEFINE listed == PaymentsOf(query)
<1>1. /\ page = [f \in PageFields |-> page[f]] /\ stage = "payments"
      /\ page.flagged = {} /\ page.at = 1
      /\ query \in ReportRequests /\ query.kind \in {"history", "metrics", "audit", "stats"}
      /\ UNCHANGED transactions
  BY DEF PageInv, PageSound, Routed, FlagsRead, BeforePayments, ListPayments, vars, storeVars,
         ledgerVars
<1>2. listed \in Seq(DOMAIN transactions)
  <2>1. CASE query.kind # "history" \/ query.role = "employee"
    <3>1. listed = [i \in DOMAIN transactions |-> i]
      BY <2>1 DEF PaymentsOf
    <3>2. transactions \in Seq(Transaction)
      BY DEF TypeInv, StoreTypeOK, LedgerTypeOK
    <3> HIDE DEF listed
    <3>3. QED
      BY <3>1, <3>2
  <2>2. CASE ~(query.kind # "history" \/ query.role = "employee") /\ query.caller # None
    <3>1. query.caller \in Names
      BY <1>1, <2>2, ReportAssumption DEF ReportRequest
    <3>2. QED
      BY <2>2, <3>1 DEF PaymentsOf, FindTransactionsByAccount, HistoriesInv, HistoriesRecorded
  <2>3. CASE ~(query.kind # "history" \/ query.role = "employee") /\ query.caller = None
    <3>1. listed = <<>>
      BY <2>3 DEF PaymentsOf
    <3> HIDE DEF listed
    <3>2. QED
      BY <3>1
  <2>4. QED
    BY <2>1, <2>2, <2>3
<1>3. ASSUME query.kind = "history", query.role = "consumer", NEW k \in DOMAIN listed
      PROVE  query.caller \in {transactions[listed[k]].sender, transactions[listed[k]].receiver}
  <2>1. CASE query.caller = None
    <3>1. listed = <<>>
      BY <1>3, <2>1 DEF PaymentsOf
    <3> HIDE DEF listed
    <3>2. QED
      BY <1>3, <3>1
  <2>2. CASE query.caller # None
    <3>1. query.caller \in Names /\ listed = txIndex[query.caller]
      BY <1>1, <1>3, <2>2, ReportAssumption
      DEF ReportRequest, PaymentsOf, FindTransactionsByAccount
    <3> HIDE DEF listed
    <3>2. QED
      BY <1>3, <3>1 DEF HistoriesInv, HistoriesOwn
  <2>3. QED
    BY <2>1, <2>2
<1> HIDE DEF listed
<1>4. PICK held :
        LET seen == [page EXCEPT !.payments = listed, !.held = held]
        IN  IF query.kind \in {"audit", "stats"} \/ listed = <<>>
            THEN Show(seen) ELSE Read("flags", seen)
  BY DEF ListPayments, listed
<1>5. /\ query' = query
      /\ page' = [f \in PageFields |-> page'[f]]
      /\ page'.payments = listed /\ page'.flagged = {} /\ page'.at = 1
  <2>1. /\ query' = query
        /\ page' = [[page EXCEPT !.payments = listed] EXCEPT !.held = held]
    BY <1>4 DEF Show, Read
  <2>2. QED
    BY <1>1, <2>1 DEF PageFields
<1>6. PageSound'
  BY <1>1, <1>2, <1>5 DEF PageSound
<1>7. OwnSeen'
  BY <1>1, <1>3, <1>5 DEF OwnSeen
<1>8. CASE stage' = "answered" /\ (query.kind \in {"audit", "stats"} \/ listed = <<>>)
  <2>1. listed = <<>> => ToSet(page'.payments) = {}
    BY <1>5 DEF ToSet
  <2>2. FlaggedAsDecided'
    BY <1>5, <1>8, <2>1 DEF FlaggedAsDecided, Shown, PaymentReports
  <2>3. QED
    BY <1>1, <1>5, <1>6, <1>8, <1>7, <2>2 DEF PageInv, Routed, FlagsRead, BeforePayments
<1>9. CASE stage' = "flags" /\ query.kind \notin {"audit", "stats"} /\ listed # <<>>
  <2>1. Len(listed) \in Nat \ {0}
    BY <1>2, <1>9
  <2>2. {page'.payments[k] : k \in 1..(1 - 1)} = {}
    OBVIOUS
  <2>3. FlagsRead'
    BY <1>5, <1>9, <2>1, <2>2 DEF FlagsRead, BeforePayments
  <2>4. QED
    BY <1>1, <1>5, <1>6, <1>9, <1>7, <2>3
    DEF PageInv, Routed, PaymentReports, FlaggedAsDecided, Shown
<1>10. QED
  BY <1>4, <1>8, <1>9 DEF Show, Read

LEMMA LookUpKeepsPage ==
    ASSUME FlagsExplainStatus, PageInv, UNCHANGED vars, LookUpFlag
    PROVE  PageInv'
<1> DEFINE Clean(i) == transactions[i].status = "COMPLETED"
           ReadTo(n) == {i \in {page.payments[k] : k \in 1..n} : ~Clean(i)}
           tx == page.payments[page.at]
<1>1. /\ page = [f \in PageFields |-> page[f]] /\ stage = "flags"
      /\ page.payments \in Seq(DOMAIN transactions)
      /\ page.at \in 1..Len(page.payments)
      /\ page.flagged = ReadTo(page.at - 1)
      /\ query \in ReportRequests
      /\ UNCHANGED transactions
  BY DEF PageInv, PageSound, Routed, FlagsRead, LookUpFlag, vars, storeVars, ledgerVars
<1>2. tx \in DOMAIN transactions
  BY <1>1
<1>3. FindFlag(tx) = {i \in {tx} : ~Clean(i)}
  BY <1>2 DEF FindFlag, FlagsExplainStatus
<1>4. /\ 1..page.at = 1..(page.at - 1) \cup {page.at}
      /\ DOMAIN page.payments = 1..Len(page.payments)
  BY <1>1
<1>5. ReadTo(page.at) = page.flagged \cup FindFlag(tx)
  <2>1. {page.payments[k] : k \in 1..page.at}
          = {page.payments[k] : k \in 1..(page.at - 1)} \cup {tx}
    BY <1>4
  <2> HIDE DEF tx, Clean
  <2>2. QED
    BY <1>1, <1>3, <2>1
<1>6. /\ query' = query
      /\ page' = [f \in PageFields |-> page'[f]]
      /\ page'.payments = page.payments
      /\ page'.flagged = page.flagged \cup FindFlag(tx)
      /\ page'.at = page.at + 1
      /\ IF page.at = Len(page.payments) THEN stage' = "answered" ELSE stage' = "flags"
  <2> HIDE DEF tx
  <2>1. LET seen == [page EXCEPT !.flagged = @ \cup FindFlag(tx), !.at = @ + 1]
        IN  IF page.at = Len(page.payments) THEN Show(seen) ELSE Read("flags", seen)
    BY DEF LookUpFlag, tx
  <2>2. QED
    BY <1>1, <2>1 DEF Show, Read, PageFields
<1>7. PageSound' /\ Routed' /\ OwnSeen'
  BY <1>1, <1>6 DEF PageInv, PageSound, Routed, OwnSeen
<1>8. CASE page.at = Len(page.payments)
  <2>1. ToSet(page.payments) = {page.payments[k] : k \in 1..page.at}
    BY <1>4, <1>8 DEF ToSet
  <2>2. page'.flagged = {i \in ToSet(page'.payments) : transactions'[i].status # "COMPLETED"}
    BY <1>1, <1>5, <1>6, <2>1
  <2>3. QED
    BY <1>6, <1>7, <1>8, <2>2 DEF PageInv, FlagsRead, BeforePayments, FlaggedAsDecided
<1>9. CASE page.at # Len(page.payments)
  <2>1. page.at + 1 \in 1..Len(page.payments) /\ (page.at + 1) - 1 = page.at
    BY <1>1, <1>9
  <2>2. FlagsRead'
    <3>1. page'.flagged = {i \in {page'.payments[k] : k \in 1..(page'.at - 1)} :
                                transactions'[i].status # "COMPLETED"}
      <4>1. page'.payments = page.payments /\ page'.at - 1 = page.at
        BY <1>6, <2>1
      <4>2. page'.flagged = ReadTo(page.at)
        BY <1>5, <1>6
      <4>3. QED
        BY <1>1, <4>1, <4>2
    <3>2. page'.at \in 1..Len(page'.payments) /\ stage' = "flags"
      BY <1>6, <1>9, <2>1
    <3>3. QED
      BY <3>1, <3>2 DEF FlagsRead, BeforePayments
  <2>3. QED
    BY <1>6, <1>7, <1>9, <2>2 DEF PageInv, FlaggedAsDecided, Shown
<1>10. QED
  BY <1>8, <1>9

-----------------------------------------------------------------------------
LEMMA StepPage ==
    ASSUME TypeInv, FlagsExplainStatus, HistoriesInv, PageInv,
           [ReadersNext]_<<vars, graphVars, reportVars>>
    PROVE  PageInv'
<1>1. CASE UNCHANGED reportVars
  BY <1>1, WorkersKeepPage, ReadersStep
<1>2. CASE ReportRead /\ UNCHANGED vars
  <2>1. CASE \E q \in ReportRequests : AskForReport(q)
    BY <1>2, <2>1, AskKeepsPage
  <2>2. CASE CountUsers \/ CountAccounts
    BY <1>2, <2>2, TotalsKeepPage
  <2>3. CASE FindPayment
    BY <1>2, <2>3, FindPaymentKeepsPage
  <2>4. CASE ListPayments
    BY <1>2, <2>4, ListPaymentsKeepsPage
  <2>5. CASE LookUpFlag
    BY <1>2, <2>5, LookUpKeepsPage
  <2>6. QED
    BY <1>2, <2>1, <2>2, <2>3, <2>4, <2>5, OthersKeepPage DEF ReportRead, ReportStep
<1>3. QED
  BY <1>1, <1>2 DEF ReadersNext

LEMMA InitPage == ReadersInit => PageInv
<1> SUFFICES ASSUME ReadersInit
             PROVE  PageInv
  OBVIOUS
<1>1. stage = "idle" /\ page = NewPage
  BY DEF ReadersInit, ReportInit
<1>2. /\ page = [f \in PageFields |-> page[f]]
      /\ page.payments = <<>> /\ page.flagged = {} /\ page.at = 1
  BY <1>1 DEF NewPage, PageFields
<1>3. <<>> \in Seq(DOMAIN transactions)
  OBVIOUS
<1>4. QED
  BY <1>1, <1>2, <1>3 DEF PageInv, PageSound, Routed, FlagsRead, FlaggedAsDecided, Shown, OwnSeen

LEMMA PageInvHolds == ReadersSpec => []PageInv
<1>1. Spec => [](TypeInv /\ FlagsExplainStatus /\ HistoriesInv)
  BY TypeInvHolds, FlagsMatchPayments, HistoriesHold, PTL
<1>2. TypeInv /\ FlagsExplainStatus /\ HistoriesInv /\ PageInv
        /\ [ReadersNext]_<<vars, graphVars, reportVars>> => PageInv'
  BY StepPage
<1>3. QED
  BY <1>1, <1>2, InitPage, ReadersOnlyRead, PTL DEF ReadersSpec

(* A payment is shown as flagged exactly when it was not let through,      *)
(* whatever is paid while the flags are looked up.                         *)
THEOREM FlagsShownRight == ReadersSpec => []FlaggedAsDecided
BY PageInvHolds, PTL DEF PageInv

(* A consumer is shown no payment but its own.                             *)
THEOREM PaymentsShownOwn == ReadersSpec => []OwnPaymentsOnly
<1>1. PageInv => OwnPaymentsOnly
  <2> SUFFICES ASSUME PageInv, Shown(PaymentReports \ {"metrics"}), query.role = "consumer",
                      NEW i \in ToSet(page.payments)
               PROVE  query.caller \in {transactions[i].sender, transactions[i].receiver}
    BY DEF OwnPaymentsOnly
  <2>1. PICK k \in DOMAIN page.payments : i = page.payments[k]
    BY DEF ToSet
  <2>2. QED
    BY <2>1 DEF PageInv, OwnSeen, Shown, PaymentReports
<1>2. QED
  BY <1>1, PageInvHolds, PTL

-----------------------------------------------------------------------------
(* Functions defined by recursion along a sequence.                        *)

(* f holds what m applications of next make of base.                       *)
IsIteration(f, m, base, next) ==
    \A n \in 0..m : f[n] = IF n = 0 THEN base ELSE next[<<n, f[n - 1]>>]

Iterated(S, base, m, next) == \E f \in [0..m -> S] : IsIteration(f, m, base, next)

(* Applied m times, a function that stays in S has m + 1 values there.     *)
LEMMA Iterates ==
    ASSUME NEW S, NEW base \in S, NEW m \in Nat, NEW next \in [(1..m) \X S -> S]
    PROVE  Iterated(S, base, m, next)
<1> DEFINE Upto(k, f) ==
                \A n \in 0..k : f[n] = IF n = 0 THEN base ELSE next[<<n, f[n - 1]>>]
           Reached == {k \in Nat : k <= m => \E f \in [0..k -> S] : Upto(k, f)}
<1>1. 0 \in Reached
  <2>1. [n \in 0..0 |-> base] \in [0..0 -> S] /\ Upto(0, [n \in 0..0 |-> base])
    OBVIOUS
  <2>2. QED
    BY <2>1
<1>2. ASSUME NEW k \in Nat, k \in Reached
      PROVE  k + 1 \in Reached
  <2>1. SUFFICES ASSUME k + 1 <= m
                 PROVE  \E f \in [0..(k + 1) -> S] : Upto(k + 1, f)
    OBVIOUS
  <2>2. PICK f \in [0..k -> S] : Upto(k, f)
    <3>1. k <= m /\ k \in Reached
      BY <1>2, <2>1
    <3> HIDE DEF Upto
    <3>2. QED
      BY <3>1
  <2>3. f[k] \in S /\ k + 1 \in 1..m
    BY <2>1
  <2>4. next[<<k + 1, f[k]>>] \in S
    BY <2>3
  <2> DEFINE g == [n \in 0..(k + 1) |-> IF n = k + 1 THEN next[<<k + 1, f[k]>>] ELSE f[n]]
  <2>5. g \in [0..(k + 1) -> S]
    <3>1. \A n \in 0..(k + 1) : n # k + 1 => n \in 0..k
      OBVIOUS
    <3>2. QED
      BY <2>4, <3>1
  <2>6. \A n \in 0..k : g[n] = f[n]
    OBVIOUS
  <2>7. Upto(k + 1, g)
    <3>1. g[k + 1] = next[<<k + 1, g[k]>>]
      <4>1. k + 1 \in 0..(k + 1) /\ k \in 0..k
        OBVIOUS
      <4>2. g[k + 1] = next[<<k + 1, f[k]>>]
        BY <4>1
      <4>3. g[k] = f[k]
        BY <2>6, <4>1
      <4> HIDE DEF g
      <4>4. QED
        BY <4>2, <4>3
    <3> HIDE DEF g
    <3>2. ASSUME NEW n \in 0..(k + 1)
          PROVE  g[n] = IF n = 0 THEN base ELSE next[<<n, g[n - 1]>>]
      <4>1. CASE n = k + 1
        <5>1. n - 1 = k /\ n # 0
          BY <4>1
        <5>2. QED
          BY <3>1, <4>1, <5>1
      <4>2. CASE n \in 0..k
        <5>1. n # 0 => n - 1 \in 0..k
          BY <4>2
        <5>2. g[n] = IF n = 0 THEN base ELSE next[<<n, f[n - 1]>>]
          BY <2>2, <2>6, <4>2
        <5>3. QED
          BY <2>6, <5>1, <5>2
      <4>3. QED
        BY <4>1, <4>2
    <3>3. QED
      BY <3>2
  <2>8. QED
    BY <2>5, <2>7
<1>3. m \in Reached
  <2>1. \A n \in Reached \cap Nat : n + 1 \in Reached
    BY <1>2
  <2> HIDE DEF Reached
  <2>2. Nat \subseteq Reached
    BY <1>1, <2>1, NatByOnes
  <2>3. QED
    BY <2>2
<1>4. QED
  BY <1>3 DEF Iterated, IsIteration

(* Appending to a sequence appends to its elements, and repeats none that  *)
(* it does not have.                                                       *)
LEMMA AppendElements ==
    ASSUME NEW S, NEW q \in Seq(S), NEW e \in S
    PROVE  /\ Append(q, e) \in Seq(S) /\ Len(Append(q, e)) = Len(q) + 1
           /\ ToSet(Append(q, e)) = ToSet(q) \cup {e}
           /\ IsInjective(q) /\ e \notin ToSet(q) => IsInjective(Append(q, e))
<1> DEFINE longer == Append(q, e)
<1>1. /\ Len(q) \in Nat /\ DOMAIN q = 1..Len(q)
      /\ longer \in Seq(S) /\ Len(longer) = Len(q) + 1
      /\ longer[Len(q) + 1] = e
      /\ \A k \in DOMAIN q : longer[k] = q[k]
      /\ DOMAIN longer = DOMAIN q \cup {Len(q) + 1}
  OBVIOUS
<1> HIDE DEF longer
<1>2. ToSet(longer) = ToSet(q) \cup {e}
  <2>1. Len(q) + 1 \notin DOMAIN q
    BY <1>1
  <2>2. QED
    BY <1>1, <2>1 DEF ToSet
<1>3. IsInjective(q) /\ e \notin ToSet(q) => IsInjective(longer)
  BY <1>1 DEF IsInjective, ToSet
<1>4. QED
  BY <1>1, <1>2, <1>3 DEF longer

(* The equations of Picked.                                                *)
IsPicks(seq, X, f) ==
    f = [n \in 0..Len(seq) |->
            IF n = 0 THEN <<>>
            ELSE IF seq[n] \in X THEN Append(f[n - 1], seq[n]) ELSE f[n - 1]]

LEMMA PicksExist ==
    ASSUME NEW T, NEW seq \in Seq(T), NEW X
    PROVE  \E f : IsPicks(seq, X, f)
<1> DEFINE m == Len(seq)
           next == [p \in (1..m) \X Seq(T) |->
                        IF seq[p[1]] \in X THEN Append(p[2], seq[p[1]]) ELSE p[2]]
<1>1. m \in Nat /\ <<>> \in Seq(T)
  OBVIOUS
<1>2. next \in [(1..m) \X Seq(T) -> Seq(T)]
  OBVIOUS
<1>3. \A n \in 1..m, q \in Seq(T) :
        next[<<n, q>>] = IF seq[n] \in X THEN Append(q, seq[n]) ELSE q
  OBVIOUS
<1> HIDE DEF next, m
<1>4. PICK f \in [0..m -> Seq(T)] :
        \A n \in 0..m : f[n] = IF n = 0 THEN <<>> ELSE next[<<n, f[n - 1]>>]
  <2>1. Iterated(Seq(T), <<>>, m, next)
    BY <1>1, <1>2, Iterates
  <2>2. QED
    BY <2>1 DEF Iterated, IsIteration
<1>5. ASSUME NEW n \in 0..m
      PROVE  f[n] = IF n = 0 THEN <<>>
                    ELSE IF seq[n] \in X THEN Append(f[n - 1], seq[n]) ELSE f[n - 1]
  <2>1. n # 0 => n \in 1..m /\ n - 1 \in 0..m
    BY <1>1
  <2>2. n # 0 => f[n - 1] \in Seq(T)
    BY <2>1
  <2>3. QED
    BY <1>3, <1>4, <2>1, <2>2
<1>6. f = [n \in 0..m |->
            IF n = 0 THEN <<>>
            ELSE IF seq[n] \in X THEN Append(f[n - 1], seq[n]) ELSE f[n - 1]]
  BY <1>5
<1>7. QED
  BY <1>6 DEF IsPicks, m

LEMMA PickedIs ==
    ASSUME NEW T, NEW seq \in Seq(T), NEW X
    PROVE  /\ Picked(seq, X) \in Seq(T)
           /\ ToSet(Picked(seq, X)) = ToSet(seq) \cap X
           /\ IsInjective(seq) => IsInjective(Picked(seq, X))
<1> DEFINE f == CHOOSE g : IsPicks(seq, X, g)
           Before(n) == {seq[j] : j \in 1..n}
           Right(n) == /\ f[n] \in Seq(T)
                       /\ ToSet(f[n]) = Before(n) \cap X
                       /\ IsInjective(seq) => IsInjective(f[n])
           S == {n \in Nat : n <= Len(seq) => Right(n)}
<1>1. Picked(seq, X) = f[Len(seq)]
  BY DEF Picked, IsPicks
<1>2. IsPicks(seq, X, f)
  BY PicksExist
<1> HIDE DEF f
<1>3. \A n \in 0..Len(seq) :
        f[n] = IF n = 0 THEN <<>>
               ELSE IF seq[n] \in X THEN Append(f[n - 1], seq[n]) ELSE f[n - 1]
  BY <1>2, Zenon DEF IsPicks
<1>4. Len(seq) \in Nat /\ DOMAIN seq = 1..Len(seq) /\ \A j \in 1..Len(seq) : seq[j] \in T
  OBVIOUS
<1>5. 0 \in S
  <2>1. f[0] = <<>>
    BY <1>3, <1>4
  <2>2. Before(0) = {} /\ ToSet(<<>>) = {} /\ IsInjective(<<>>) /\ <<>> \in Seq(T)
    BY DEF ToSet, IsInjective
  <2>3. QED
    BY <2>1, <2>2
<1>6. ASSUME NEW n \in Nat, n \in S
      PROVE  n + 1 \in S
  <2>1. SUFFICES ASSUME n + 1 <= Len(seq)
                 PROVE  Right(n + 1)
    OBVIOUS
  <2>2. Right(n) /\ n + 1 \in DOMAIN seq /\ n + 1 # 0 /\ (n + 1) - 1 = n
    BY <1>4, <1>6, <2>1
  <2>3. f[n + 1] = IF seq[n + 1] \in X THEN Append(f[n], seq[n + 1]) ELSE f[n]
    BY <1>3, <2>1, <2>2
  <2>4. Before(n + 1) = Before(n) \cup {seq[n + 1]}
    <3>1. 1..(n + 1) = 1..n \cup {n + 1}
      OBVIOUS
    <3>2. QED
      BY <3>1
  <2>5. IsInjective(seq) => seq[n + 1] \notin Before(n)
    <3>1. \A j \in 1..n : j \in DOMAIN seq /\ j # n + 1
      BY <1>4, <2>1
    <3>2. QED
      BY <2>2, <3>1 DEF IsInjective
  <2>6. seq[n + 1] \in T
    BY <1>4, <2>2
  <2> HIDE DEF Before
  <2>7. CASE seq[n + 1] \in X
    BY <2>2, <2>3, <2>4, <2>5, <2>6, <2>7, AppendElements
  <2>8. CASE seq[n + 1] \notin X
    BY <2>2, <2>3, <2>4, <2>8
  <2>9. QED
    BY <2>7, <2>8
<1>7. Len(seq) \in S
  <2>1. \A n \in S \cap Nat : n + 1 \in S
    BY <1>6
  <2> HIDE DEF S
  <2>2. Nat \subseteq S
    BY <1>5, <2>1, NatByOnes
  <2>3. QED
    BY <1>4, <2>2
<1>8. Right(Len(seq))
  BY <1>4, <1>7
<1>9. QED
  BY <1>1, <1>4, <1>8 DEF ToSet

-----------------------------------------------------------------------------
(* Complaints, with the suspects looked up again.                          *)

CaseEntry == [suspect: Names \cup {None}, filer: Names \cup {None}]

BeforeCases == {"idle", "complaints", "complaint"}

SuspectStages == {"suspectById", "suspectByUpi"}

Room(q) == IF q.limit = 0 THEN 1 ELSE q.limit

(* As many cases are copied as were asked for, one at least, and every one *)
(* before the one whose turn it is has been looked up.                     *)
CasesRead ==
    /\ page.cases \in Seq(Complaint) /\ page.shown \in Seq(CaseEntry)
    /\ stage \notin SuspectStages \cup {"filer", "answered"} =>
            page.cases = <<>> /\ page.shown = <<>>
    /\ stage \in BeforeCases => page.at = 1
    /\ stage \in SuspectStages =>
            page.at \in 1..Len(page.cases) /\ Len(page.shown) = page.at - 1
    /\ stage = "filer" => page.at \in 1..Len(page.cases) /\ Len(page.shown) = page.at
    /\ stage = "answered" => Len(page.shown) <= Len(page.cases)
    /\ Shown({"cases", "case"}) => Len(page.shown) = Len(page.cases)
    /\ stage # "idle" /\ query.kind = "cases" => Len(page.cases) <= Room(query)

LEMMA SubSeqType ==
    ASSUME NEW S, NEW q \in Seq(S), NEW m \in Nat, m <= Len(q)
    PROVE  SubSeq(q, 1, m) \in Seq(S) /\ Len(SubSeq(q, 1, m)) = m
OBVIOUS

LEMMA ListedAreFiled ==
    ASSUME ComplaintsTypeOK, NEW q, q.limit \in Nat
    PROVE  ListedCases(q) \in Seq(DOMAIN complaints) /\ Len(ListedCases(q)) <= Room(q)
<1> DEFINE wanted == {c \in DOMAIN complaints : q.filter \in {None, complaints[c].status}}
           matching == Picked(complaintOrder, wanted)
<1>1. complaintOrder \in Seq(ComplaintIds)
  BY DEF ComplaintsTypeOK
<1>2. matching \in Seq(ComplaintIds) /\ ToSet(matching) \subseteq wanted
  BY <1>1, PickedIs
<1>3. ListedCases(q) = IF Len(matching) <= Room(q) THEN matching
                       ELSE SubSeq(matching, 1, Room(q))
  BY DEF ListedCases, Room
<1>4. wanted \subseteq DOMAIN complaints
  OBVIOUS
<1> HIDE DEF matching, wanted
<1>5. matching \in Seq(DOMAIN complaints)
  <2>1. \A k \in 1..Len(matching) : matching[k] \in DOMAIN complaints
    BY <1>2, <1>4 DEF ToSet
  <2>2. QED
    BY <1>2, <2>1
<1>6. Room(q) \in Nat
  BY DEF Room
<1>7. CASE Len(matching) <= Room(q)
  BY <1>3, <1>5, <1>7
<1>8. CASE ~(Len(matching) <= Room(q))
  <2>1. Len(matching) \in Nat
    BY <1>5
  <2>2. Room(q) <= Len(matching)
    BY <1>6, <1>8, <2>1
  <2>3. /\ SubSeq(matching, 1, Room(q)) \in Seq(DOMAIN complaints)
        /\ Len(SubSeq(matching, 1, Room(q))) = Room(q)
    BY <1>5, <1>6, <2>2, SubSeqType
  <2>4. QED
    BY <1>3, <1>6, <1>8, <2>3
<1>9. QED
  BY <1>7, <1>8

LEMMA CopyType ==
    ASSUME ComplaintsTypeOK, NEW ids \in Seq(DOMAIN complaints)
    PROVE  /\ CopyCases(ids) \in Seq(Complaint) /\ Len(CopyCases(ids)) = Len(ids)
           /\ \A k \in DOMAIN CopyCases(ids) :
                \E c \in DOMAIN complaints : CopyCases(ids)[k] = complaints[c]
<1>1. DOMAIN ids = 1..Len(ids) /\ \A k \in DOMAIN ids : ids[k] \in DOMAIN complaints
  OBVIOUS
<1>2. \A c \in DOMAIN complaints : complaints[c] \in Complaint
  BY DEF ComplaintsTypeOK, IsMap
<1>3. CopyCases(ids) = [k \in 1..Len(ids) |-> complaints[ids[k]]]
  BY <1>1 DEF CopyCases
<1>4. QED
  BY <1>1, <1>2, <1>3

(* What the steps of a report do to its cases.                             *)
LEMMA CasesUntouched ==
    ASSUME PageInv, CasesRead,
           \/ FindRecipient \/ FindRecipientOtherwise \/ CountComplaintsAbout \/ CheckVelocity
           \/ FindPayment \/ ListPayments \/ LookUpFlag \/ CountUsers \/ CountAccounts
    PROVE  /\ CasesRead' /\ page'.cases = page.cases /\ page'.shown = page.shown
           /\ stage' # "suspectByUpi"
<1>1. /\ page = [f \in PageFields |-> page[f]]
  BY DEF PageInv, PageSound
<1>2. /\ stage \notin BeforeCases \cup SuspectStages \cup {"filer", "answered"}
      /\ stage' \notin BeforeCases \cup SuspectStages \cup {"filer"}
      /\ query.kind \notin {"cases", "case"} /\ query' = query
      /\ page'.cases = page.cases /\ page'.shown = page.shown
  <2>1. CASE FindRecipient \/ FindRecipientOtherwise
    BY <2>1, <1>1 DEF PageInv, Routed, FindRecipient, FindRecipientOtherwise, FoundRecipient,
                      Read, Refuse, PageFields, BeforeCases, SuspectStages
  <2>2. CASE CountComplaintsAbout \/ CheckVelocity
    BY <2>2, <1>1 DEF PageInv, Routed, CountComplaintsAbout, CheckVelocity, Read, Show,
                      PageFields, BeforeCases, SuspectStages
  <2>3. CASE FindPayment
    BY <2>3, <1>1 DEF PageInv, Routed, FindPayment, Read, Refuse, PageFields, BeforeCases,
                      SuspectStages
  <2>4. CASE ListPayments
    <3>1. PICK listed, held :
            LET seen == [page EXCEPT !.payments = listed, !.held = held]
            IN  /\ stage = "payments"
                /\ Show(seen) \/ Read("flags", seen)
      BY <2>4 DEF ListPayments
    <3>2. QED
      BY <3>1, <1>1 DEF PageInv, Routed, Read, Show, PageFields, BeforeCases, SuspectStages
  <2>5. CASE LookUpFlag
    <3>1. PICK flagged, at :
            LET seen == [page EXCEPT !.flagged = flagged, !.at = at]
            IN  /\ stage = "flags"
                /\ Show(seen) \/ Read("flags", seen)
      BY <2>5 DEF LookUpFlag
    <3>2. QED
      BY <3>1, <1>1 DEF PageInv, Routed, PaymentReports, Read, Show, PageFields, BeforeCases,
                        SuspectStages
  <2>6. CASE CountUsers
    BY <2>6, <1>1 DEF PageInv, Routed, CountUsers, Read, PageFields, BeforeCases, SuspectStages
  <2>7. CASE CountAccounts
    <3>1. PICK total, frozen, listed :
            LET seen == [page EXCEPT !.accounts = total, !.frozen = frozen]
            IN  /\ stage = "accounts"
                /\ Show([seen EXCEPT !.listed = listed]) \/ Read("payments", seen)
      BY <2>7 DEF CountAccounts
    <3>2. QED
      BY <3>1, <1>1 DEF PageInv, Routed, Read, Show, PageFields, BeforeCases, SuspectStages
  <2>8. QED
    BY <2>1, <2>2, <2>3, <2>4, <2>5, <2>6, <2>7
<1>3. page.cases = <<>> /\ page.shown = <<>>
  BY <1>2 DEF CasesRead
<1>4. QED
  BY <1>2, <1>3 DEF CasesRead, Shown, SuspectStages

LEMMA CasesAsked ==
    ASSUME TypeInv, PageInv, CasesRead, ListCases \/ FindCase
    PROVE  /\ CasesRead'
           /\ page'.shown = <<>>
           /\ \A k \in DOMAIN page'.cases : \E c \in DOMAIN complaints : page'.cases[k] = complaints[c]
<1>1. /\ page = [f \in PageFields |-> page[f]]
      /\ page.cases = <<>> /\ page.shown = <<>> /\ page.at = 1
      /\ query \in ReportRequest /\ query.kind \in {"cases", "case"}
      /\ ComplaintsTypeOK
  BY ReportAssumption
  DEF PageInv, PageSound, Routed, CasesRead, ListCases, FindCase, BeforeCases, SuspectStages,
      TypeInv, StoreTypeOK
<1>2. <<>> \in Seq(Complaint) /\ <<>> \in Seq(CaseEntry) /\ Len(<<>>) = 0
  OBVIOUS
<1>3. CASE FindCase /\ query.complaint \notin DOMAIN complaints
  <2>1. stage' = "answered" /\ result' = 404 /\ query' = query /\ page' = page
    BY <1>3 DEF FindCase, Refuse
  <2>2. query.kind = "cases" => 0 <= Room(query)
    BY <1>1 DEF Room, ReportRequest
  <2>3. QED
    BY <1>1, <1>2, <2>1, <2>2 DEF CasesRead, Shown, SuspectStages, BeforeCases
<1>4. ASSUME NEW ids \in Seq(DOMAIN complaints), query' = query,
             page' = [page EXCEPT !.cases = CopyCases(ids)],
             query.kind = "cases" => Len(ids) <= Room(query),
             \/ stage' = "answered" /\ ids = <<>>
             \/ stage' = "suspectById" /\ ids # <<>>
      PROVE  /\ CasesRead'
             /\ page'.shown = <<>>
             /\ \A k \in DOMAIN page'.cases :
                    \E c \in DOMAIN complaints : page'.cases[k] = complaints[c]
  <2>1. page'.cases = CopyCases(ids) /\ page'.shown = <<>> /\ page'.at = 1
    BY <1>1, <1>4 DEF PageFields
  <2>2. CopyCases(ids) \in Seq(Complaint) /\ Len(CopyCases(ids)) = Len(ids)
    BY <1>1, CopyType
  <2>3. Len(ids) \in Nat /\ (Len(ids) = 0 <=> ids = <<>>)
    OBVIOUS
  <2>4. CasesRead'
    BY <1>2, <1>4, <2>1, <2>2, <2>3 DEF CasesRead, Shown, SuspectStages, BeforeCases
  <2>5. QED
    BY <1>1, <2>1, <2>4, CopyType
<1>5. CASE ListCases
  <2> DEFINE ids == ListedCases(query)
  <2>1. stage = "complaints" /\ query.kind = "cases"
    BY <1>1, <1>5 DEF ListCases, PageInv, Routed
  <2>2. query.limit \in Nat
    BY <1>1, <2>1 DEF ReportRequest
  <2>3. ids \in Seq(DOMAIN complaints) /\ Len(ids) <= Room(query)
    BY <1>1, <2>2, ListedAreFiled
  <2>4. LET seen == [page EXCEPT !.cases = CopyCases(ids)]
        IN  IF seen.cases = <<>> THEN Show(seen) ELSE Read("suspectById", seen)
    BY <1>5 DEF ListCases
  <2> HIDE DEF ids
  <2>5. [page EXCEPT !.cases = CopyCases(ids)].cases = CopyCases(ids)
    BY <1>1 DEF PageFields
  <2>6. CopyCases(ids) = <<>> <=> ids = <<>>
    BY <1>1, <2>3, CopyType
  <2>7. QED
    BY <1>4, <2>3, <2>4, <2>5, <2>6 DEF Show, Read
<1>6. CASE FindCase /\ query.complaint \in DOMAIN complaints
  <2>1. /\ stage = "complaint" /\ stage' = "suspectById" /\ query' = query
        /\ page' = [page EXCEPT !.cases = CopyCases(<<query.complaint>>)]
    BY <1>6 DEF FindCase, Read
  <2>2. <<query.complaint>> \in Seq(DOMAIN complaints) /\ <<query.complaint>> # <<>>
    BY <1>6
  <2>3. query.kind = "cases" => Len(<<query.complaint>>) <= Room(query)
    <3>1. Len(<<query.complaint>>) = 1
      OBVIOUS
    <3>2. QED
      BY <1>1, <3>1 DEF Room, ReportRequest
  <2>4. QED
    BY <1>4, <2>1, <2>2, <2>3
<1>7. QED
  BY <1>3, <1>5, <1>6

LEMMA SuspectLookedUp ==
    ASSUME TypeInv, PageInv, CasesRead, FindCaseSuspect \/ FindCaseSuspectByUpi
    PROVE  /\ CasesRead' /\ page'.cases = page.cases
           /\ page.at = Len(page.shown) + 1 /\ page.at \in DOMAIN page.cases
           /\ \/ /\ stage = "suspectById" /\ FindAccountById(Case.suspect) = {}
                 /\ page'.shown = page.shown
              \/ /\ stage' = "filer"
                 /\ \E a \in Names \cup {None} :
                        /\ page'.shown = Append(page.shown, [suspect |-> a, filer |-> None])
                        /\ stage = "suspectById" => a \in FindAccountById(Case.suspect)
<1>1. /\ page = [f \in PageFields |-> page[f]]
      /\ stage \in SuspectStages
      /\ page.at \in 1..Len(page.cases) /\ Len(page.shown) = page.at - 1
      /\ page.cases \in Seq(Complaint) /\ page.shown \in Seq(CaseEntry)
  BY DEF PageInv, PageSound, CasesRead, FindCaseSuspect, FindCaseSuspectByUpi, SuspectStages
<1>2. /\ Len(page.cases) \in Nat /\ Len(page.shown) + 1 = page.at
      /\ page.at \in DOMAIN page.cases
      /\ Case = page.cases[page.at] /\ Case.suspect \in Names
  <2>1. page.cases[page.at] \in Complaint
    BY <1>1
  <2>2. QED
    BY <1>1, <2>1 DEF Case, Complaint
<1>3. FindAccountById(Case.suspect) \cup FindAccountByUpi(Case.suspect) \subseteq Names
  BY <1>2, FindAccountByIdType, FindAccountByUpiType DEF TypeInv, StoreTypeOK, AccountsTypeOK, IsMap
<1>4. CASE stage = "suspectById" /\ stage' = "suspectByUpi" /\ UNCHANGED <<page, query>>
           /\ FindAccountById(Case.suspect) = {}
  <2>1. CasesRead'
    BY <1>1, <1>4 DEF CasesRead, SuspectStages, BeforeCases, Shown
  <2>2. QED
    BY <1>2, <1>4, <2>1
<1>5. ASSUME NEW a \in Names \cup {None}, Read("filer", ShowSuspect(a)),
             \/ a \in FindAccountById(Case.suspect)
             \/ stage = "suspectByUpi"
      PROVE  /\ CasesRead' /\ page'.cases = page.cases /\ stage' = "filer"
             /\ page'.shown = Append(page.shown, [suspect |-> a, filer |-> None])
  <2> DEFINE entry == [suspect |-> a, filer |-> None]
  <2>1. /\ stage' = "filer" /\ query' = query
        /\ page'.cases = page.cases /\ page'.at = page.at
        /\ page'.shown = Append(page.shown, entry)
    BY <1>1, <1>5 DEF Read, ShowSuspect, PageFields
  <2>2. entry \in CaseEntry
    BY DEF CaseEntry
  <2> HIDE DEF entry
  <2>3. /\ Append(page.shown, entry) \in Seq(CaseEntry)
        /\ Len(Append(page.shown, entry)) = page.at
    BY <1>1, <1>2, <2>2
  <2>4. CasesRead'
    BY <1>1, <2>1, <2>3 DEF CasesRead, SuspectStages, BeforeCases, Shown
  <2>5. QED
    BY <2>1, <2>4 DEF entry
<1>6. CASE FindCaseSuspect
  <2>1. CASE FindAccountById(Case.suspect) = {} /\ Read("suspectByUpi", page)
    BY <1>2, <1>4, <1>6, <2>1 DEF FindCaseSuspect, Read
  <2>2. CASE \E a \in FindAccountById(Case.suspect) : Read("filer", ShowSuspect(a))
    <3>1. PICK a \in FindAccountById(Case.suspect) : Read("filer", ShowSuspect(a))
      BY <2>2
    <3>2. a \in Names \cup {None}
      BY <1>3
    <3>3. QED
      BY <1>2, <1>5, <3>1, <3>2
  <2>3. QED
    BY <1>6, <2>1, <2>2 DEF FindCaseSuspect
<1>7. CASE FindCaseSuspectByUpi
  <2>1. stage = "suspectByUpi"
    BY <1>7 DEF FindCaseSuspectByUpi
  <2>2. PICK a \in Names \cup {None} : Read("filer", ShowSuspect(a))
    BY <1>3, <1>7 DEF FindCaseSuspectByUpi
  <2>3. QED
    BY <1>2, <1>5, <2>1, <2>2
<1>8. QED
  BY <1>6, <1>7

LEMMA FilerLookedUp ==
    ASSUME TypeInv, PageInv, CasesRead, FindFiler
    PROVE  /\ CasesRead' /\ page'.cases = page.cases
           /\ Len(page'.shown) = Len(page.shown)
           /\ \A k \in DOMAIN page'.shown : page'.shown[k].suspect = page.shown[k].suspect
           /\ stage' # "suspectByUpi"
<1>1. /\ page = [f \in PageFields |-> page[f]]
      /\ stage = "filer"
      /\ page.at \in 1..Len(page.cases) /\ Len(page.shown) = page.at
      /\ page.cases \in Seq(Complaint) /\ page.shown \in Seq(CaseEntry)
  BY DEF PageInv, PageSound, CasesRead, FindFiler
<1>2. Len(page.cases) \in Nat /\ page.at \in DOMAIN page.shown
  BY <1>1
<1>3. PICK u \in FindUserByAccountId(Case.complainant) \cup {None} :
        LET seen == [page EXCEPT !.shown[page.at].filer = u, !.at = @ + 1]
        IN  IF page.at = Len(page.cases) THEN Show(seen) ELSE Read("suspectById", seen)
  BY DEF FindFiler
<1>4. u \in Names \cup {None}
  BY <1>3 DEF FindUserByAccountId, TypeInv, StoreTypeOK, UsersTypeOK, IsMap
<1> DEFINE shown == [page.shown EXCEPT ![page.at].filer = u]
<1>5. /\ query' = query
      /\ page'.cases = page.cases /\ page'.at = page.at + 1 /\ page'.shown = shown
      /\ IF page.at = Len(page.cases) THEN stage' = "answered" /\ result' = 200
                                      ELSE stage' = "suspectById"
  <2>1. page' = [page EXCEPT !.shown[page.at].filer = u, !.at = @ + 1]
    BY <1>3 DEF Show, Read
  <2>2. page'.cases = page.cases /\ page'.at = page.at + 1 /\ page'.shown = shown
    BY <1>1, <2>1 DEF PageFields
  <2> HIDE DEF shown
  <2>3. QED
    BY <1>3, <2>2 DEF Show, Read
<1>6. [page.shown[page.at] EXCEPT !.filer = u] \in CaseEntry
  <2>1. page.shown[page.at] \in CaseEntry
    BY <1>1, <1>2
  <2>2. QED
    BY <1>4, <2>1 DEF CaseEntry
<1>7. shown \in Seq(CaseEntry) /\ Len(shown) = page.at
  BY <1>1, <1>2, <1>6
<1>8. \A k \in DOMAIN shown : shown[k].suspect = page.shown[k].suspect
  <2>1. DOMAIN shown = DOMAIN page.shown
    OBVIOUS
  <2>2. ASSUME NEW k \in DOMAIN page.shown
        PROVE  shown[k].suspect = page.shown[k].suspect
    <3>1. page.shown[k] \in CaseEntry
      BY <1>1
    <3>2. CASE k = page.at
      BY <3>1, <3>2 DEF CaseEntry
    <3>3. CASE k # page.at
      BY <3>3
    <3>4. QED
      BY <3>2, <3>3
  <2>3. QED
    BY <2>1, <2>2
<1> HIDE DEF shown
<1>9. CasesRead'
  <2>1. query.kind = "cases" => Len(page.cases) <= Room(query)
    BY <1>1 DEF CasesRead
  <2>2. CASE page.at = Len(page.cases)
    BY <1>1, <1>2, <1>5, <1>7, <2>1, <2>2 DEF CasesRead, SuspectStages, BeforeCases, Shown
  <2>3. CASE page.at # Len(page.cases)
    <3>1. page.at + 1 \in 1..Len(page.cases) /\ (page.at + 1) - 1 = page.at
      BY <1>1, <1>2, <2>3
    <3>2. stage' = "suspectById"
      BY <1>5, <2>3
    <3>3. QED
      BY <1>1, <1>2, <1>5, <1>7, <2>1, <3>1, <3>2 DEF CasesRead, SuspectStages, BeforeCases, Shown
  <2>4. QED
    BY <2>2, <2>3
<1>10. QED
  BY <1>1, <1>5, <1>7, <1>8, <1>9

LEMMA StepCases ==
    ASSUME TypeInv, PageInv, CasesRead, [ReadersNext]_<<vars, graphVars, reportVars>>
    PROVE  CasesRead'
<1>1. CASE UNCHANGED reportVars
  BY <1>1 DEF reportVars, CasesRead, Shown, Room
<1>2. ASSUME NEW q \in ReportRequests, AskForReport(q)
      PROVE  CasesRead'
  <2>1. q \in ReportRequest
    BY ReportAssumption
  <2>2. /\ stage = "idle" /\ query' = q /\ page' = page
        /\ stage' \notin SuspectStages \cup {"idle", "filer", "answered"}
    BY <1>2, <2>1 DEF AskForReport, FirstRead, ReportRequest, SuspectStages
  <2>3. page.cases = <<>> /\ Len(<<>>) = 0
    BY <2>2 DEF CasesRead, SuspectStages
  <2>4. q.kind = "cases" => 0 <= Room(q)
    BY <2>1 DEF Room, ReportRequest
  <2>5. QED
    BY <2>2, <2>3, <2>4 DEF CasesRead, SuspectStages, BeforeCases, Shown
<1>3. CASE ReportStep
  BY <1>3, CasesUntouched, CasesAsked, SuspectLookedUp, FilerLookedUp DEF ReportStep
<1>4. QED
  BY <1>1, <1>2, <1>3 DEF ReadersNext, ReportRead

LEMMA CasesHold == ReadersSpec => []CasesRead
<1>1. ReadersInit => CasesRead
  <2>1. <<>> \in Seq(Complaint) /\ <<>> \in Seq(CaseEntry)
    OBVIOUS
  <2>2. QED
    BY <2>1 DEF ReadersInit, ReportInit, NewPage, CasesRead, SuspectStages, BeforeCases, Shown
<1>2. ReadersSpec => []TypeInv
  BY ReadersOnlyRead, TypeInvHolds, PTL
<1>3. QED
  BY <1>1, <1>2, StepCases, PageInvHolds, PTL DEF ReadersSpec

-----------------------------------------------------------------------------
(* No account is opened under the empty name, if none is complained of.    *)
NamesGiven == Empty \notin DOMAIN accounts

LEMMA StepNamesGiven ==
    ASSUME SuspectsGiven, TypeInv, NamesGiven, [Next]_vars
    PROVE  NamesGiven'
<1>1. ASSUME NEW id \in Names, NEW account \in Account, Opens(id, account)
      PROVE  id # Empty
  <2>1. PICK t \in Threads :
            \/ pc[t] = "provision" /\ id \in ProvisionedIds(req[t])
            \/ pc[t] = "openAccount" /\ id = req[t].number
    BY <1>1 DEF Opens
  <2>2. StepSound(pc[t], req[t], local[t]) /\ req[t] \in Requests \cup {None}
    BY DEF TypeInv, ThreadsSound, ThreadsTypeOK
  <2>3. CASE pc[t] = "openAccount"
    BY <2>1, <2>2, <2>3, WorkersAssumption, StoreAssumption
    DEF StepSound, ConsumerSteps, RegistrationRequest, Given
  <2>4. CASE pc[t] = "provision"
    <3>1. req[t] \in ComplaintRequest
      BY <2>2, <2>4 DEF StepSound, ComplaintSteps
    <3>2. req[t] \in Requests /\ req[t].kind = "complaint"
      BY <2>2, <3>1, WorkersAssumption DEF ComplaintRequest, RequestTypes
    <3>3. QED
      BY <2>1, <2>4, <3>2, ComplaintAssumption DEF ProvisionedIds, SuspectsGiven
  <2>5. QED
    BY <2>1, <2>3, <2>4
<1>2. ASSUME NEW id \in Names, NEW account \in Account, Opens(id, account)
      PROVE  NamesGiven'
  BY <1>1, <1>2 DEF Opens, CreateAccount, Put, accountVars, NamesGiven
<1>3. ASSUME NEW s, NEW r, NEW amount, NEW score, Payment(s, r, amount, score)
      PROVE  NamesGiven'
  BY <1>3 DEF Payment, ExecuteAtomicTransfer, NamesGiven
<1>4. BooksKept => NamesGiven'
  BY DEF BooksKept, NamesGiven
<1>5. QED
  BY <1>2, <1>3, <1>4, BookSteps

LEMMA NamesGivenHolds ==
    ASSUME SuspectsGiven
    PROVE  Spec => []NamesGiven
<1>1. Init => NamesGiven
  BY StoreAssumption DEF Init, StoreInit, NamesGiven
<1>2. TypeInv /\ NamesGiven /\ [Next]_vars => NamesGiven'
  BY StepNamesGiven
<1>3. QED
  BY <1>1, <1>2, TypeInvHolds, PTL DEF Spec

(* The suspect of a complaint that was copied is there to be found, and    *)
(* what is shown of it is what it was filed against.                       *)
SuspectsShown ==
    /\ stage # "suspectByUpi"
    /\ \A k \in DOMAIN page.cases : page.cases[k].suspect \in DOMAIN accounts
    /\ \A k \in DOMAIN page.shown : page.shown[k].suspect = page.cases[k].suspect

LEMMA StepSuspectsShown ==
    ASSUME TypeInv, PageInv, CasesRead, ComplaintSuspectExists, NamesGiven, SuspectsShown,
           [ReadersNext]_<<vars, graphVars, reportVars>>
    PROVE  SuspectsShown'
<1>1. DOMAIN accounts \subseteq DOMAIN accounts'
  BY ReadersStep, AccountsStay
<1>2. CASE UNCHANGED <<stage, page>>
  BY <1>1, <1>2 DEF SuspectsShown
<1>3. ASSUME NEW q \in ReportRequests, AskForReport(q)
      PROVE  SuspectsShown'
  <2>1. q \in ReportRequest
    BY ReportAssumption
  <2>2. page' = page /\ stage' # "suspectByUpi"
    BY <1>3, <2>1 DEF AskForReport, FirstRead, ReportRequest
  <2>3. QED
    BY <1>1, <2>2 DEF SuspectsShown
<1>4. CASE \/ FindRecipient \/ FindRecipientOtherwise \/ CountComplaintsAbout \/ CheckVelocity
           \/ FindPayment \/ ListPayments \/ LookUpFlag \/ CountUsers \/ CountAccounts
  <2>1. page'.cases = page.cases /\ page'.shown = page.shown /\ stage' # "suspectByUpi"
    BY <1>4, CasesUntouched
  <2>2. QED
    BY <1>1, <2>1 DEF SuspectsShown
<1>5. CASE ListCases \/ FindCase
  <2>1. /\ page'.shown = <<>>
        /\ \A k \in DOMAIN page'.cases : \E c \in DOMAIN complaints : page'.cases[k] = complaints[c]
    BY <1>5, CasesAsked
  <2>2. stage' # "suspectByUpi"
    BY <1>5 DEF ListCases, FindCase, Show, Read, Refuse
  <2>3. DOMAIN <<>> = {}
    OBVIOUS
  <2>4. QED
    BY <1>1, <2>1, <2>2, <2>3 DEF SuspectsShown, ComplaintSuspectExists
<1>6. CASE FindCaseSuspect \/ FindCaseSuspectByUpi
  <2>1. /\ page'.cases = page.cases
        /\ page.at = Len(page.shown) + 1 /\ page.at \in DOMAIN page.cases
        /\ stage = "suspectById"
    BY <1>6, SuspectLookedUp DEF FindCaseSuspect, FindCaseSuspectByUpi, SuspectsShown
  <2>2. FindAccountById(Case.suspect) = {page.cases[page.at].suspect}
    <3>1. page.cases[page.at].suspect \in DOMAIN accounts
      BY <2>1 DEF SuspectsShown
    <3>2. QED
      BY <3>1 DEF FindAccountById, Case, NamesGiven
  <2>3. PICK a : /\ a = page.cases[page.at].suspect
                 /\ page'.shown = Append(page.shown, [suspect |-> a, filer |-> None])
                 /\ stage' = "filer"
    BY <1>6, <2>1, <2>2, SuspectLookedUp
  <2> DEFINE entry == [suspect |-> a, filer |-> None]
  <2>4. page.shown \in Seq(CaseEntry) /\ entry.suspect = a
    BY DEF CasesRead
  <2> HIDE DEF entry
  <2>5. ASSUME NEW k \in DOMAIN page'.shown
        PROVE  page'.shown[k].suspect = page.cases[k].suspect
    <3>1. page'.shown = Append(page.shown, entry)
      BY <2>3 DEF entry
    <3>2. \/ k \in DOMAIN page.shown /\ page'.shown[k] = page.shown[k]
          \/ k = page.at /\ page'.shown[k] = entry
      BY <2>1, <2>4, <2>5, <3>1
    <3>3. QED
      BY <2>3, <2>4, <3>2 DEF SuspectsShown
  <2>6. QED
    BY <1>1, <2>1, <2>3, <2>5 DEF SuspectsShown
<1>7. CASE FindFiler
  <2>1. /\ page'.cases = page.cases /\ stage' # "suspectByUpi"
        /\ Len(page'.shown) = Len(page.shown)
        /\ \A k \in DOMAIN page'.shown : page'.shown[k].suspect = page.shown[k].suspect
        /\ page'.shown \in Seq(CaseEntry) /\ page.shown \in Seq(CaseEntry)
    BY <1>7, FilerLookedUp DEF CasesRead
  <2>2. DOMAIN page'.shown = DOMAIN page.shown
    BY <2>1
  <2>3. QED
    BY <1>1, <2>1, <2>2 DEF SuspectsShown
<1>8. QED
  BY <1>2, <1>3, <1>4, <1>5, <1>6, <1>7 DEF ReadersNext, ReportRead, ReportStep, reportVars

(* Served one at a time, every complaint of an answer is shown with the    *)
(* suspect it was filed against, and there are no more than asked for.     *)
THEOREM CasesShownRight ==
    ASSUME MaxInFlight = 1, SuspectsGiven
    PROVE  ReadersSpec => []CasesShown
<1>1. Spec => []NamesGiven
  BY NamesGivenHolds
<1>2. Spec => [](TypeInv /\ ComplaintSuspectExists)
  BY TypeInvHolds, SuspectsExist, PTL
<1>3. ReadersInit => SuspectsShown
  BY DEF ReadersInit, ReportInit, NewPage, SuspectsShown
<1>4. TypeInv /\ PageInv /\ CasesRead /\ ComplaintSuspectExists /\ NamesGiven /\ SuspectsShown
        /\ [ReadersNext]_<<vars, graphVars, reportVars>> => SuspectsShown'
  BY StepSuspectsShown
<1>5. ReadersSpec => []SuspectsShown
  BY <1>1, <1>2, <1>3, <1>4, ReadersOnlyRead, PageInvHolds, CasesHold, PTL DEF ReadersSpec
<1>6. PageInv /\ CasesRead /\ SuspectsShown => CasesShown
  <2> SUFFICES ASSUME CasesRead, SuspectsShown, Shown({"cases", "case"})
               PROVE  /\ \A k \in DOMAIN page.cases :
                            page.shown[k].suspect = page.cases[k].suspect
                      /\ query.kind = "cases" => Len(page.cases) <= Room(query)
    BY DEF CasesShown, Room
  <2>1. DOMAIN page.cases = DOMAIN page.shown
    BY DEF CasesRead
  <2>2. QED
    BY <2>1 DEF CasesRead, SuspectsShown, Shown
<1>7. QED
  BY <1>5, <1>6, PageInvHolds, CasesHold, PTL

-----------------------------------------------------------------------------
(* The check before a payment.                                             *)

(* Somebody's complaint about a is in the registry.                        *)
Filed(a) ==
    \E t \in Threads :
        \/ Accepted(t) /\ answer[t].about = a
        \/ pc[t] \in {"count", "taint"} /\ local[t].peer.id = a

(* What is filed stays filed.                                              *)
LEMMA FiledStays ==
    ASSUME TypeInv, [Next]_vars, NEW a, Filed(a)
    PROVE  Filed(a)'
<1>0. ThreadsTypeOK
  BY DEF TypeInv
<1>1. PICK t \in Threads :
        \/ Accepted(t) /\ answer[t].about = a
        \/ pc[t] \in {"count", "taint"} /\ local[t].peer.id = a
  BY DEF Filed
<1>2. CASE /\ pc'[t] = pc[t] /\ req'[t] = req[t]
           /\ local'[t] = local[t] /\ answer'[t] = answer[t]
  BY <1>1, <1>2 DEF Filed, Accepted
<1>3. CASE Serve(t)
  <2>1. pc[t] \in {"count", "taint"} /\ local[t].peer.id = a
    BY <1>1, <1>3, HandlerSteps
    DEF Accepted, Serve, TransferSteps, ComplaintSteps, TriageSteps, ModerationSteps,
        ConsumerSteps, EmployeeSteps, LoginSteps, ProfileSteps
  <2>2. ComplaintStep(t)
    BY <1>3, <2>1, HandlerSteps
    DEF Serve, TransferSteps, TriageSteps, ModerationSteps, ConsumerSteps, EmployeeSteps,
        LoginSteps, ProfileSteps
  <2>3. CountSuspectComplaints(t) \/ TaintSuspect(t)
    BY <2>1, <2>2
    DEF ComplaintStep, RefuseComplaint, FindSuspectByUpi, FindSuspectById, ProvisionSuspect,
        CheckOwnership, RecordComplaint
  <2>4. CASE CountSuspectComplaints(t)
    <3>1. pc'[t] = "taint" /\ local'[t].peer = local[t].peer
      BY <1>0, <2>4 DEF CountSuspectComplaints, Continue, ThreadsTypeOK, LocalType
    <3>2. QED
      BY <2>1, <3>1 DEF Filed
  <2>5. CASE TaintSuspect(t)
    BY <2>1, <2>5, Tainting DEF Filed
  <2>6. QED
    BY <2>3, <2>4, <2>5
<1>4. CASE \E r \in Requests : Accept(t, r)
  BY <1>0, <1>1, <1>4, FirstSteps DEF Accepted
<1>5. QED
  BY <1>0, <1>2, <1>3, <1>4, ThreadMoves

(* Every complaint of the registry has been filed by somebody.             *)
RegistryFiled == \A c \in DOMAIN complaints : Filed(complaints[c].suspect)

LEMMA StepRegistryFiled ==
    ASSUME TypeInv, RegistryFiled, [Next]_vars
    PROVE  RegistryFiled'
<1>0. ThreadsTypeOK /\ IsMap(complaints, ComplaintIds, Complaint)
  BY DEF TypeInv, StoreTypeOK, ComplaintsTypeOK
<1>1. CASE UNCHANGED complaintVars
  <2>1. complaints' = complaints
    BY <1>1 DEF complaintVars
  <2>2. ASSUME NEW c \in DOMAIN complaints
        PROVE  Filed(complaints[c].suspect)'
    <3>1. PICK a : a = complaints[c].suspect
      OBVIOUS
    <3>2. Filed(a)'
      BY <3>1, FiledStays DEF RegistryFiled
    <3>3. QED
      BY <2>1, <3>1, <3>2
  <2>3. QED
    BY <2>1, <2>2 DEF RegistryFiled
<1>2. ASSUME NEW t \in Threads, RecordComplaint(t)
      PROVE  RegistryFiled'
  <2>1. /\ pc[t] = "record" /\ local[t].peer \in SnapshotType /\ local[t].peer # None
        /\ req[t] \in ComplaintRequest
    <3>1. pc[t] = "record" /\ StepSound("record", req[t], local[t])
      BY <1>2 DEF RecordComplaint, TypeInv, ThreadsSound
    <3>2. QED
      BY <3>1, WorkersAssumption DEF StepSound, ComplaintSteps, Peer
  <2>2. PICK a : a = local[t].peer.id
    OBVIOUS
  <2>3. Filed(a)'
    <3>1. CASE local[t].external
      <4>1. Accepted(t)' /\ answer'[t].about = a
        BY <1>0, <1>2, <2>1, <2>2, <3>1
        DEF RecordComplaint, Reply, Respond, ThreadsTypeOK, Accepted, ComplaintRequest
      <4>2. QED
        BY <4>1 DEF Filed
    <3>2. CASE ~local[t].external
      <4>1. pc'[t] = "count" /\ local'[t] = local[t]
        BY <1>0, <1>2, <3>2 DEF RecordComplaint, Continue, ThreadsTypeOK
      <4>2. QED
        BY <2>2, <4>1 DEF Filed
    <3>3. QED
      BY <3>1, <3>2
  <2>4. PICK id \in ComplaintIds :
            complaints' = Put(complaints, id,
                [complainant |-> req[t].caller, suspect |-> local[t].peer.id,
                 tx |-> req[t].tx, status |-> "SUBMITTED"])
    BY <1>2 DEF RecordComplaint, CreateComplaint
  <2>5. ASSUME NEW c \in DOMAIN complaints'
        PROVE  \E b : b = complaints'[c].suspect /\ Filed(b)'
    <3>1. CASE c = id
      <4>1. complaints'[c].suspect = a
        BY <2>2, <2>4, <3>1 DEF Put
      <4>2. QED
        BY <2>3, <4>1
    <3>2. CASE c # id
      <4>1. c \in DOMAIN complaints /\ complaints'[c] = complaints[c]
        BY <2>4, <2>5, <3>2 DEF Put
      <4>2. PICK b : b = complaints[c].suspect
        OBVIOUS
      <4>3. Filed(b)'
        BY <4>1, <4>2, FiledStays DEF RegistryFiled
      <4>4. QED
        BY <4>1, <4>2, <4>3
    <3>3. QED
      BY <3>1, <3>2
  <2>6. QED
    BY <2>5 DEF RegistryFiled
<1>3. ASSUME NEW t \in Threads, SetComplaintStatus(t)
      PROVE  RegistryFiled'
  <2>1. /\ DOMAIN complaints' = DOMAIN complaints
        /\ \A c \in DOMAIN complaints : complaints'[c].suspect = complaints[c].suspect
    BY <1>0, <1>3 DEF SetComplaintStatus, UpdateComplaintStatus, IsMap, Complaint
  <2>2. ASSUME NEW c \in DOMAIN complaints'
        PROVE  \E b : b = complaints'[c].suspect /\ Filed(b)'
    <3>1. PICK b : b = complaints[c].suspect
      OBVIOUS
    <3>2. Filed(b)'
      BY <2>1, <3>1, FiledStays DEF RegistryFiled
    <3>3. QED
      BY <2>1, <3>1, <3>2
  <2>3. QED
    BY <2>2 DEF RegistryFiled
<1>4. QED
  BY <1>1, <1>2, <1>3, ComplaintWrites

(* Nobody having filed anything against it, an account keeps its risk.     *)
LEMMA RiskUnmoved ==
    ASSUME SuspectsGiven, TypeInv, AllFresh, [Next]_vars, NEW a \in DOMAIN accounts, ~Filed(a)
    PROVE  accounts'[a].risk = accounts[a].risk
<1>0. IsMap(accounts, Names, Account)
  BY DEF TypeInv, StoreTypeOK, AccountsTypeOK
<1>1. ASSUME NEW id, NEW account \in Account, Opens(id, account)
      PROVE  accounts'[a].risk = accounts[a].risk
  <2>1. id # a \/ account.upi \in DOMAIN upiIndex
    BY <1>1, NothingReopened DEF Reopened
  <2>2. QED
    BY <1>0, <1>1, <2>1 DEF Opens, CreateAccount, Put, accountVars
<1>2. ASSUME NEW id, NEW status, UpdateAccountStatus(id, status)
      PROVE  accounts'[a].risk = accounts[a].risk
  BY <1>0, <1>2 DEF UpdateAccountStatus, IsMap, Account
<1>3. ASSUME NEW t \in Threads, NEW status,
             TaintSuspect(t) /\ ApplyTaintUpdate(local[t].peer.id, TaintStep, status)
      PROVE  accounts'[a].risk = accounts[a].risk
  <2>1. local[t].peer.id # a
    BY <1>3 DEF TaintSuspect, Filed
  <2>2. QED
    BY <1>0, <1>3, <2>1 DEF ApplyTaintUpdate, IsMap, Account
<1>4. ASSUME NEW s, NEW r, NEW amount, NEW score, Payment(s, r, amount, score)
      PROVE  accounts'[a].risk = accounts[a].risk
  BY <1>0, <1>4 DEF Payment, ExecuteAtomicTransfer, Debit, Credit, IsMap, Account
<1>5. QED
  BY <1>1, <1>2, <1>3, <1>4, AccountWrites DEF accountVars

(* Nobody having filed anything against it, no payment to an account that  *)
(* is safe by its risk is held.                                            *)
LEMMA SafelyPaid ==
    ASSUME TypeInv, AllFresh, RegistryFiled, [Next]_vars, NEW a \in DOMAIN accounts, ~Filed(a),
           NEW status, SafeToPay(status, accounts[a].risk, 0),
           NEW i \in DOMAIN transactions' \ DOMAIN transactions, transactions'[i].receiver = a
    PROVE  transactions'[i].status # "HELD"
<1>0. LedgerTypeOK /\ IsMap(accounts, Names, Account) /\ txIndex \in [Names -> Seq(Nat)]
  BY DEF TypeInv, StoreTypeOK, AccountsTypeOK, LedgerTypeOK
<1>1. CountComplaintsForSuspect(a) = 0
  <2>1. {c \in DOMAIN complaints :
            complaints[c].suspect = a /\ complaints[c].status # "REJECTED"} = {}
    BY DEF RegistryFiled
  <2>2. QED
    BY <2>1, FS_EmptySet DEF CountComplaintsForSuspect
<1>2. PICK s \in Names, r \in Names, amount \in Nat, score \in Int : Payment(s, r, amount, score)
  BY LedgerWrites DEF ledgerVars
<1>3. /\ Len(transactions') = Len(transactions) + 1 /\ Len(transactions) \in Nat
      /\ i = Len(transactions')
      /\ transactions'[i].sender = s /\ transactions'[i].receiver = r
      /\ transactions'[i].amount = amount
  BY <1>0, <1>2, PaymentRecorded
<1>4. s \in DOMAIN accounts /\ r = a
  BY <1>2, <1>3 DEF Payment, CanTransfer
<1>5. Last(transactions') = transactions'[i]
  BY <1>3 DEF Last
<1>6. transactions'[i].status =
        Verdict(Score(accounts[a].risk, 0, Len(txIndex[a]), accounts[s].balance, amount)).status
  <2>1. Len(transactions') > Len(transactions)
    BY <1>3
  <2>2. LET tx == Last(transactions')
        IN  tx.status =
                Verdict(Score(accounts[tx.receiver].risk,
                              CountComplaintsForSuspect(tx.receiver),
                              Len(txIndex[tx.receiver]),
                              accounts[tx.sender].balance, tx.amount)).status
    BY <2>1, StepDecision
  <2>3. QED
    BY <1>1, <1>3, <1>4, <1>5, <2>2
<1>7. /\ accounts[a].risk \in Int /\ accounts[s].balance \in Int
      /\ Len(txIndex[a]) \in Nat
  <2>1. accounts[a] \in Account /\ accounts[s] \in Account /\ txIndex[a] \in Seq(Nat)
    BY <1>0, <1>4 DEF IsMap
  <2>2. QED
    BY <2>1 DEF Account
<1>8. \A risk, balance \in Int, inflow \in Nat :
        SafeToPay(status, risk, 0) =>
            Verdict(Score(risk, 0, inflow, balance, amount)).status # "HELD"
  BY SafeScores
<1>9. QED
  BY <1>6, <1>7, <1>8

(* A risk is none, or a point at least: one between would be read as a     *)
(* probability.                                                            *)
Pointed(risk) == risk = 0 \/ risk >= 10

RisksInPoints ==
    /\ \A a \in DOMAIN SeedAccounts : Pointed(SeedAccounts[a].risk)
    /\ \A r \in Requests : r.kind = "complaint" => Pointed(r.risk)

RisksPointed == \A a \in DOMAIN accounts : Pointed(accounts[a].risk)

LEMMA StepRisksPointed ==
    ASSUME RisksInPoints, TypeInv, RisksPointed, [Next]_vars
    PROVE  RisksPointed'
<1>0. IsMap(accounts, Names, Account)
  BY DEF TypeInv, StoreTypeOK, AccountsTypeOK
<1>1. ASSUME NEW id, NEW account, Opens(id, account)
      PROVE  RisksPointed'
  <2>1. account.risk \in OpeningRisks
    BY <1>1 DEF Opens
  <2>2. Pointed(account.risk)
    BY <2>1 DEF OpeningRisks, RisksInPoints, Pointed
  <2>3. CreateAccount(id, account)
    BY <1>1 DEF Opens
  <2>4. QED
    BY <2>2, <2>3 DEF CreateAccount, Put, accountVars, RisksPointed
<1>2. ASSUME NEW id, NEW status, UpdateAccountStatus(id, status)
      PROVE  RisksPointed'
  BY <1>0, <1>2 DEF UpdateAccountStatus, IsMap, Account, RisksPointed
<1>3. ASSUME NEW id, NEW status, ApplyTaintUpdate(id, TaintStep, status)
      PROVE  RisksPointed'
  <2>1. \A risk \in Int : Pointed(risk) => Pointed(TaintedRisk(risk, TaintStep))
    BY DEF TaintedRisk, Clamp, MaxRisk, TaintStep, Pointed
  <2>2. \A b \in DOMAIN accounts : accounts[b] \in Account /\ accounts[b].risk \in Int
    BY <1>0 DEF IsMap, Account
  <2>3. \A b \in DOMAIN accounts' :
            /\ b \in DOMAIN accounts
            /\ \/ accounts'[b].risk = accounts[b].risk
               \/ accounts'[b].risk = TaintedRisk(accounts[b].risk, TaintStep)
    BY <1>0, <1>3 DEF ApplyTaintUpdate, IsMap, Account
  <2>4. QED
    BY <2>1, <2>2, <2>3 DEF RisksPointed
<1>4. ASSUME NEW s, NEW r, NEW amount, NEW score, Payment(s, r, amount, score)
      PROVE  RisksPointed'
  BY <1>0, <1>4 DEF Payment, ExecuteAtomicTransfer, Debit, Credit, IsMap, Account, RisksPointed
<1>5. QED
  BY <1>1, <1>2, <1>3, <1>4, AccountWrites DEF accountVars, RisksPointed

(* A thread that has answered still knows what it was asked.               *)
Asked == \A t \in Threads : pc[t] # "idle" => req[t] # None

LEMMA StepAsked ==
    ASSUME TypeInv, Asked, [Next]_vars
    PROVE  Asked'
<1>0. ThreadsTypeOK
  BY DEF TypeInv
<1> SUFFICES ASSUME NEW t \in Threads, pc'[t] # "idle"
             PROVE  req'[t] # None
  BY DEF Asked
<1>1. CASE Serve(t)
  <2>1. req'[t] = req[t] /\ pc[t] # "idle"
    BY <1>0, <1>1, HandlerSteps, HandlersStay
    DEF Serve, Stays, TransferSteps, ComplaintSteps, TriageSteps, ModerationSteps,
        ConsumerSteps, EmployeeSteps, LoginSteps, ProfileSteps
  <2>2. QED
    BY <2>1 DEF Asked
<1>2. ASSUME NEW r \in Requests, Accept(t, r)
      PROVE  req'[t] # None
  BY <1>0, <1>2, FirstSteps, WorkersAssumption
<1>3. QED
  BY <1>0, <1>1, <1>2, ThreadMoves DEF Asked

LEMMA FiledAccuses ==
    ASSUME TypeInv, Asked, NEW a, Filed(a)
    PROVE  Accused(a)
<1>1. PICK t \in Threads :
        \/ Accepted(t) /\ answer[t].about = a
        \/ pc[t] \in {"count", "taint"} /\ local[t].peer.id = a
  BY DEF Filed
<1>2. CASE Accepted(t) /\ answer[t].about = a
  BY <1>2 DEF Accepted, Done, Accused, Asked
<1>3. CASE pc[t] \in {"count", "taint"} /\ local[t].peer.id = a
  <2>1. /\ t \in InFlight
        /\ req[t] \in ComplaintRequest /\ local[t].peer \in SnapshotType
    BY <1>3 DEF TypeInv, ThreadsSound, StepSound, ComplaintSteps, Peer, InFlight, Idle, Done
  <2>2. QED
    BY <1>3, <2>1, WorkersAssumption DEF Accused, ComplaintRequest, Asked, InFlight, Idle
<1>4. QED
  BY <1>1, <1>2, <1>3

(* The recipient has been found.                                           *)
Checked == stage \in {"complaintsAbout", "velocity"} \/ Shown({"verify"})

(* Unless somebody files a complaint against it, its risk is what it was,  *)
(* and no payment made to it since is held if that risk is safe.  A clean  *)
(* history has nothing against it.                                         *)
VerdictSound ==
    LET a    == page.account.id
        seen == page.account.account
    IN  Checked =>
            /\ page.account \in SnapshotType /\ a \in DOMAIN accounts
            /\ page.known \in 0..Len(transactions)
            /\ Pointed(seen.risk)
            /\ ~Filed(a) => accounts[a].risk = seen.risk
            /\ ~Filed(a) /\ SafeToPay(seen.status, seen.risk, 0) =>
                    \A i \in (page.known + 1)..Len(transactions) :
                        transactions[i].receiver = a => transactions[i].status # "HELD"
            /\ stage # "complaintsAbout" => page.tally \in Nat
            /\ stage = "velocity" => seen.status = "ACTIVE" /\ page.tally = 0
            /\ stage = "answered" /\ "CLEAN" \in page.reasons =>
                    seen.status = "ACTIVE" /\ page.tally = 0 /\ seen.risk < 400

LEMMA WorkersKeepVerdict ==
    ASSUME SuspectsGiven, TypeInv, AllFresh, RegistryFiled, VerdictSound,
           [Next]_vars, UNCHANGED reportVars
    PROVE  VerdictSound'
<1> SUFFICES ASSUME Checked
             PROVE  VerdictSound'
  BY DEF VerdictSound, Checked, Shown, reportVars
<1>0. UNCHANGED <<stage, query, page, result>>
  BY DEF reportVars
<1>1. PICK a, seen : a = page.account.id /\ seen = page.account.account
  OBVIOUS
<1>2. /\ page.account \in SnapshotType /\ a \in DOMAIN accounts
      /\ page.known \in 0..Len(transactions)
      /\ Pointed(seen.risk)
      /\ ~Filed(a) => accounts[a].risk = seen.risk
      /\ ~Filed(a) /\ SafeToPay(seen.status, seen.risk, 0) =>
            \A i \in (page.known + 1)..Len(transactions) :
                transactions[i].receiver = a => transactions[i].status # "HELD"
  BY <1>1 DEF VerdictSound
<1>3. a \in DOMAIN accounts'
  BY <1>2, AccountsStay
<1>4. ~Filed(a)' => ~Filed(a)
  BY FiledStays
<1>5. ~Filed(a)' => accounts'[a].risk = seen.risk
  BY <1>2, <1>4, RiskUnmoved
<1>6. /\ DOMAIN transactions \subseteq DOMAIN transactions'
      /\ \A i \in DOMAIN transactions : transactions'[i] = transactions[i]
  BY LedgerGrows
<1>7. /\ transactions \in Seq(Transaction) /\ transactions' \in Seq(Transaction)
  BY StepTypeInv DEF TypeInv, StoreTypeOK, LedgerTypeOK
<1>8. /\ DOMAIN transactions = 1..Len(transactions) /\ Len(transactions) \in Nat
      /\ DOMAIN transactions' = 1..Len(transactions') /\ Len(transactions') \in Nat
  BY <1>7
<1>9. page.known \in 0..Len(transactions')
  BY <1>2, <1>6, <1>8
<1>10. ASSUME ~Filed(a)', SafeToPay(seen.status, seen.risk, 0),
              NEW i \in (page.known + 1)..Len(transactions'), transactions'[i].receiver = a
       PROVE  transactions'[i].status # "HELD"
  <2>1. i \in DOMAIN transactions'
    BY <1>2, <1>8, <1>10
  <2>2. CASE i \in DOMAIN transactions
    BY <1>2, <1>4, <1>6, <1>8, <1>10, <2>2
  <2>3. CASE i \notin DOMAIN transactions
    BY <1>2, <1>4, <1>10, <2>1, <2>3, SafelyPaid
  <2>4. QED
    BY <2>2, <2>3
<1>11. \E b, copy :
            /\ b = page'.account.id /\ copy = page'.account.account
            /\ page'.account \in SnapshotType /\ b \in DOMAIN accounts'
            /\ page'.known \in 0..Len(transactions')
            /\ Pointed(copy.risk)
            /\ ~Filed(b)' => accounts'[b].risk = copy.risk
            /\ ~Filed(b)' /\ SafeToPay(copy.status, copy.risk, 0) =>
                 \A i \in (page'.known + 1)..Len(transactions') :
                    transactions'[i].receiver = b => transactions'[i].status # "HELD"
  BY <1>0, <1>1, <1>2, <1>3, <1>5, <1>9, <1>10
<1>12. QED
  BY <1>0, <1>11 DEF VerdictSound, Checked, Shown

(* The steps of the check.                                                 *)
LEMMA RecipientFound ==
    ASSUME TypeInv, PageInv, RisksPointed, UNCHANGED vars, FindRecipient \/ FindRecipientOtherwise
    PROVE  VerdictSound'
<1>0. /\ AccountsTypeOK /\ transactions \in Seq(Transaction)
      /\ query \in ReportRequest /\ query.kind = "verify" /\ query.name \in Names
      /\ page = [f \in PageFields |-> page[f]]
      /\ UNCHANGED <<accounts, transactions>>
  BY ReportAssumption
  DEF TypeInv, StoreTypeOK, LedgerTypeOK, PageInv, Routed, PageSound, FindRecipient,
      FindRecipientOtherwise, vars, storeVars, accountVars, ledgerVars, ReportRequest
<1>1. FoundFirst \cup FoundNext \subseteq DOMAIN accounts
  BY <1>0, FindAccountByIdType, FindAccountByUpiType DEF FoundFirst, FoundNext
<1>2. CASE \E a \in DOMAIN accounts : FoundRecipient(a)
  <2>1. PICK a \in DOMAIN accounts : FoundRecipient(a)
    BY <1>2
  <2>2. /\ stage' = "complaintsAbout"
        /\ page'.account = Snapshot(a) /\ page'.known = Len(transactions)
    BY <1>0, <2>1 DEF FoundRecipient, Read, PageFields
  <2>3. /\ Snapshot(a) \in SnapshotType /\ Snapshot(a).id = a
        /\ Snapshot(a).account = accounts[a]
    BY <1>0, SnapshotOK DEF Snapshot
  <2>4. (Len(transactions) + 1)..Len(transactions) = {} /\ Len(transactions) \in Nat
    BY <1>0
  <2>5. QED
    BY <1>0, <2>2, <2>3, <2>4 DEF VerdictSound, Shown, RisksPointed
<1>3. CASE \/ stage' = "recipientOtherwise"
           \/ stage' = "answered" /\ result' # 200
  BY <1>3 DEF VerdictSound, Checked, Shown
<1>4. QED
  BY <1>1, <1>2, <1>3 DEF FindRecipient, FindRecipientOtherwise, Refuse, Read

LEMMA RecipientJudged ==
    ASSUME TypeInv, PageInv, VerdictSound, UNCHANGED vars, CountComplaintsAbout \/ CheckVelocity
    PROVE  VerdictSound'
<1>0. /\ page = [f \in PageFields |-> page[f]]
      /\ UNCHANGED <<accounts, transactions, pc, req, local, answer>>
      /\ Checked
  BY DEF PageInv, PageSound, vars, storeVars, accountVars, ledgerVars, threadVars, Checked,
         CountComplaintsAbout, CheckVelocity
<1>1. \A a : Filed(a)' <=> Filed(a)
  BY <1>0 DEF Filed, Accepted
<1>2. page.account \in SnapshotType /\ page.account.account.status \in AccountStatus
  BY <1>0 DEF VerdictSound, SnapshotType, Account
<1>3. ASSUME NEW tally \in Nat, NEW reasons,
             stage' \in {"velocity", "answered"},
             page'.account = page.account /\ page'.known = page.known,
             page'.tally = tally /\ page'.reasons = reasons,
             stage' = "velocity" => page.account.account.status = "ACTIVE" /\ tally = 0,
             stage' = "answered" /\ "CLEAN" \in reasons =>
                page.account.account.status = "ACTIVE" /\ tally = 0
                    /\ page.account.account.risk < 400
      PROVE  VerdictSound'
  <2>1. PICK a, seen : a = page.account.id /\ seen = page.account.account
    OBVIOUS
  <2>2. /\ page.account \in SnapshotType /\ a \in DOMAIN accounts
        /\ page.known \in 0..Len(transactions)
        /\ Pointed(seen.risk)
        /\ ~Filed(a) => accounts[a].risk = seen.risk
        /\ ~Filed(a) /\ SafeToPay(seen.status, seen.risk, 0) =>
              \A i \in (page.known + 1)..Len(transactions) :
                  transactions[i].receiver = a => transactions[i].status # "HELD"
    BY <1>0, <2>1 DEF VerdictSound
  <2>3. Filed(a)' <=> Filed(a)
    BY <1>1
  <2>4. page'.account.id = a /\ page'.account.account = seen
    BY <1>3, <2>1
  <2>5. /\ page'.account \in SnapshotType /\ page'.account.id \in DOMAIN accounts'
        /\ page'.known \in 0..Len(transactions')
        /\ Pointed(page'.account.account.risk)
    BY <1>0, <1>3, <2>2, <2>4
  <2>6. \E b, copy :
            /\ b = page'.account.id /\ copy = page'.account.account
            /\ ~Filed(b)' => accounts'[b].risk = copy.risk
            /\ ~Filed(b)' /\ SafeToPay(copy.status, copy.risk, 0) =>
                 \A i \in (page'.known + 1)..Len(transactions') :
                    transactions'[i].receiver = b => transactions'[i].status # "HELD"
    <3>1. ~Filed(a)' => accounts'[a].risk = seen.risk
      BY <1>0, <2>2, <2>3
    <3>2. ~Filed(a)' /\ SafeToPay(seen.status, seen.risk, 0) =>
             \A i \in (page.known + 1)..Len(transactions) :
                transactions[i].receiver = a => transactions[i].status # "HELD"
      BY <2>2, <2>3
    <3>3. page'.known = page.known /\ transactions' = transactions
      BY <1>0, <1>3
    <3>4. QED
      BY <2>4, <3>1, <3>2, <3>3
  <2>7. /\ page'.tally \in Nat
        /\ stage' = "velocity" => page'.account.account.status = "ACTIVE" /\ page'.tally = 0
        /\ stage' = "answered" /\ "CLEAN" \in page'.reasons =>
                /\ page'.account.account.status = "ACTIVE" /\ page'.tally = 0
                /\ page'.account.account.risk < 400
    BY <1>3
  <2>8. QED
    BY <2>5, <2>6, <2>7 DEF VerdictSound
<1>4. CASE CountComplaintsAbout
  <2>1. PICK tally : tally = CountComplaintsForSuspect(page.account.id)
    OBVIOUS
  <2>2. tally \in Nat
    BY <2>1, CountType DEF TypeInv, StoreTypeOK
  <2>3. PICK archetype \in Archetypes, badge \in Badges :
            LET reasons == StandingReasons(page.account.account, tally, archetype)
            IN  IF reasons = {} THEN Read("velocity", [page EXCEPT !.tally = tally])
                ELSE Show([page EXCEPT !.tally = tally, !.reasons = reasons \cup badge])
    BY <1>4, <2>1 DEF CountComplaintsAbout
  <2>4. PICK reasons, lines :
            /\ reasons = StandingReasons(page.account.account, tally, archetype)
            /\ lines = reasons \cup badge
    OBVIOUS
  <2>5. "CLEAN" \notin lines
    BY <1>2, <2>4 DEF StandingReasons, AccountStatus, Archetypes, Badges
  <2>6. reasons = {} => page.account.account.status = "ACTIVE" /\ tally = 0
    BY <1>2, <2>2, <2>4 DEF StandingReasons, AccountStatus
  <2>7. CASE reasons = {}
    <3>1. stage' = "velocity" /\ page' = [page EXCEPT !.tally = tally]
      BY <2>3, <2>4, <2>7 DEF Read
    <3>2. /\ page'.account = page.account /\ page'.known = page.known
          /\ page'.tally = tally /\ page'.reasons = page.reasons
      BY <1>0, <3>1 DEF PageFields
    <3>3. QED
      BY <1>3, <2>2, <2>6, <2>7, <3>1, <3>2
  <2>8. CASE reasons # {}
    <3>1. stage' = "answered" /\ page' = [page EXCEPT !.tally = tally, !.reasons = lines]
      BY <2>3, <2>4, <2>8 DEF Show
    <3>2. /\ page'.account = page.account /\ page'.known = page.known
          /\ page'.tally = tally /\ page'.reasons = lines
      BY <1>0, <3>1 DEF PageFields
    <3>3. QED
      BY <1>3, <2>2, <2>5, <3>1, <3>2
  <2>9. QED
    BY <2>7, <2>8
<1>5. CASE CheckVelocity
  <2>1. stage = "velocity" /\ page.account.account.status = "ACTIVE" /\ page.tally = 0
    BY <1>0, <1>5 DEF CheckVelocity, VerdictSound
  <2>2. PICK risk : risk = page.account.account.risk
    OBVIOUS
  <2>3. PICK found, reasons :
            /\ \E badge \in Badges : found = VelocityReasons(page.account.id, risk) \cup badge
            /\ reasons = IF found # {} THEN found
                         ELSE IF risk < 400 THEN {"CLEAN"} ELSE {"ELEVATED"}
            /\ Show([page EXCEPT !.reasons = reasons])
    BY <1>5, <2>2 DEF CheckVelocity
  <2>4. "CLEAN" \notin found
    BY <2>3 DEF VelocityReasons, Badges
  <2>5. /\ stage' = "answered"
        /\ page'.account = page.account /\ page'.known = page.known
        /\ page'.tally = page.tally /\ page'.reasons = reasons
    BY <1>0, <2>3 DEF Show, PageFields
  <2>6. "CLEAN" \in reasons => risk < 400
    BY <2>3, <2>4
  <2>7. QED
    BY <1>3, <2>1, <2>2, <2>5, <2>6
<1>6. QED
  BY <1>4, <1>5

(* The other steps of a reader, those that tell no verdict.                *)
LEMMA OthersTellNoVerdict ==
    ASSUME PageInv,
           \/ \E q \in ReportRequests : AskForReport(q)
           \/ FindPayment \/ ListPayments \/ LookUpFlag
           \/ CountUsers \/ CountAccounts
           \/ ListCases \/ FindCase \/ FindCaseSuspect \/ FindCaseSuspectByUpi \/ FindFiler
    PROVE  VerdictSound'
<1>1. ~Checked'
  <2>1. CASE \E q \in ReportRequests : AskForReport(q)
    <3>1. PICK q \in ReportRequests : AskForReport(q)
      BY <2>1
    <3>2. q \in ReportRequest
      BY ReportAssumption
    <3>3. QED
      BY <3>1, <3>2 DEF AskForReport, ReportRequest, FirstRead, Checked, Shown
  <2>2. CASE FindPayment \/ ListPayments \/ LookUpFlag
    <3>1. /\ query.kind # "verify" /\ query' = query
          /\ stage' \in {"flags", "answered"}
      BY <2>2 DEF PageInv, Routed, PaymentReports, FindPayment, ListPayments, LookUpFlag,
                  Show, Refuse, Read
    <3>2. QED
      BY <3>1 DEF Checked, Shown
  <2>3. CASE CountUsers \/ CountAccounts
    <3>1. /\ query.kind # "verify" /\ query' = query
          /\ stage' \in {"accounts", "payments", "answered"}
      BY <2>3 DEF PageInv, Routed, CountUsers, CountAccounts, Show, Read
    <3>2. QED
      BY <3>1 DEF Checked, Shown
  <2>4. CASE ListCases \/ FindCase \/ FindCaseSuspect \/ FindCaseSuspectByUpi \/ FindFiler
    <3>1. /\ query.kind # "verify" /\ query' = query
          /\ stage' \in {"suspectById", "suspectByUpi", "filer", "answered"}
      BY <2>4 DEF PageInv, Routed, ListCases, FindCase, FindCaseSuspect, FindCaseSuspectByUpi,
                  FindFiler, Show, Refuse, Read
    <3>2. QED
      BY <3>1 DEF Checked, Shown
  <2>5. QED
    BY <2>1, <2>2, <2>3, <2>4
<1>2. QED
  BY <1>1 DEF VerdictSound

LEMMA StepVerdict ==
    ASSUME SuspectsGiven, TypeInv, AllFresh, RegistryFiled, RisksPointed, PageInv, VerdictSound,
           [ReadersNext]_<<vars, graphVars, reportVars>>
    PROVE  VerdictSound'
<1>1. CASE UNCHANGED reportVars
  BY <1>1, ReadersStep, WorkersKeepVerdict
<1>2. CASE ReportRead /\ UNCHANGED vars
  BY <1>2, RecipientFound, RecipientJudged, OthersTellNoVerdict DEF ReportRead, ReportStep
<1>3. QED
  BY <1>1, <1>2 DEF ReadersNext

(* What the threads and the store keep to, when one request is served      *)
(* after the other.                                                        *)
FilingInv == TypeInv /\ AllFresh /\ RegistryFiled /\ RisksPointed /\ Asked

LEMMA FilingHolds ==
    ASSUME MaxInFlight = 1, RisksInPoints
    PROVE  Spec => []FilingInv
<1>1. Init => RegistryFiled /\ RisksPointed /\ Asked
  <2> SUFFICES ASSUME Init
               PROVE  RegistryFiled /\ RisksPointed /\ Asked
    OBVIOUS
  <2>1. DOMAIN complaints = {} /\ accounts = SeedAccounts /\ \A t \in Threads : pc[t] = "idle"
    BY DEF Init, StoreInit, WorkersInit
  <2>2. QED
    BY <2>1 DEF RegistryFiled, RisksPointed, RisksInPoints, Asked
<1>2. /\ TypeInv /\ AllFresh /\ RegistryFiled /\ RisksPointed /\ Asked /\ [Next]_vars
      => RegistryFiled' /\ RisksPointed' /\ Asked'
  BY StepRegistryFiled, StepRisksPointed, StepAsked
<1>3. QED
  BY <1>1, <1>2, TypeInvHolds, FreshHolds, PTL DEF Spec, FilingInv

LEMMA VerdictSoundHolds ==
    ASSUME MaxInFlight = 1, SuspectsGiven, RisksInPoints
    PROVE  ReadersSpec => []VerdictSound
<1>1. ReadersInit => VerdictSound
  BY DEF ReadersInit, ReportInit, VerdictSound, Checked, Shown
<1>2. /\ FilingInv /\ PageInv /\ VerdictSound
      /\ [ReadersNext]_<<vars, graphVars, reportVars>>
      => VerdictSound'
  BY StepVerdict DEF FilingInv
<1>3. QED
  BY <1>1, <1>2, FilingHolds, ReadersOnlyRead, PageInvHolds, PTL DEF ReadersSpec

(* The check before a payment keeps its word, one request after the other: *)
(* unless somebody complains of the account, no payment made to it after   *)
(* it was called safe is held, however many the readers see in between,    *)
(* and only a safe account has a clean history.                            *)
THEOREM VerdictsKept ==
    ASSUME MaxInFlight = 1, SuspectsGiven, RisksInPoints
    PROVE  ReadersSpec => []VerdictHolds
<1>1. FilingInv /\ VerdictSound => VerdictHolds
  <2> SUFFICES ASSUME FilingInv, VerdictSound, Shown({"verify"})
               PROVE  /\ ShownSafe /\ ~Accused(page.account.id) =>
                            \A i \in (page.known + 1)..Len(transactions) :
                                transactions[i].receiver = page.account.id =>
                                    transactions[i].status # "HELD"
                      /\ "CLEAN" \in page.reasons => ShownSafe
    BY DEF VerdictHolds
  <2>0. Checked /\ stage = "answered"
    BY DEF Checked, Shown
  <2>1. PICK a, seen : a = page.account.id /\ seen = page.account.account
    OBVIOUS
  <2>2. /\ page.account \in SnapshotType /\ Pointed(seen.risk)
        /\ ~Filed(a) /\ SafeToPay(seen.status, seen.risk, 0) =>
              \A i \in (page.known + 1)..Len(transactions) :
                  transactions[i].receiver = a => transactions[i].status # "HELD"
        /\ page.tally \in Nat
        /\ "CLEAN" \in page.reasons => seen.status = "ACTIVE" /\ page.tally = 0 /\ seen.risk < 400
    BY <2>0, <2>1 DEF VerdictSound
  <2>3. seen.risk \in Int
    BY <2>1, <2>2 DEF SnapshotType, Account
  <2>4. ASSUME ShownSafe, ~Accused(a)
        PROVE  \A i \in (page.known + 1)..Len(transactions) :
                  transactions[i].receiver = a => transactions[i].status # "HELD"
    <3>1. ~Filed(a)
      BY <2>4, FiledAccuses DEF FilingInv
    <3>2. page.tally = 0
      BY <2>1, <2>2, <2>3, <2>4 DEF ShownSafe, SafeToPay, VerifyLevel
    <3>3. SafeToPay(seen.status, seen.risk, 0)
      BY <2>1, <2>4, <3>2 DEF ShownSafe
    <3>4. QED
      BY <2>2, <3>1, <3>3
  <2>5. ASSUME "CLEAN" \in page.reasons
        PROVE  ShownSafe
    BY <2>1, <2>2, <2>3, <2>5 DEF ShownSafe, SafeToPay, VerifyLevel, ShownRisk, Clamp, MaxRisk, Pointed
  <2>6. QED
    BY <2>1, <2>4, <2>5
<1>2. QED
  BY <1>1, FilingHolds, VerdictSoundHolds, ReadersOnlyRead, PTL
-----------------------------------------------------------------------------
(* The balls around an account, whatever the payments.                     *)
Ends(tx, i) == {tx[i].sender, tx[i].receiver}

Around(tx, X, k) ==
    X \cup UNION {Ends(tx, i) : i \in {j \in 1..k : Ends(tx, j) \cap X # {}}}

IsBalls(tx, a, n, k, f) ==
    f = [m \in 0..n |-> IF m = 0 THEN {a} ELSE Around(tx, f[m - 1], k)]

BallOver(tx, a, n, k) == (CHOOSE f : IsBalls(tx, a, n, k, f))[n]

(* The first k payments are made between names of N.                       *)
Between(tx, k, N) == \A i \in 1..k : Ends(tx, i) \subseteq N

LEMMA BallsExist ==
    ASSUME NEW tx, NEW N, NEW a \in N, NEW n \in Nat, NEW k \in Nat, Between(tx, k, N)
    PROVE  \E f : IsBalls(tx, a, n, k, f)
<1> DEFINE next == [p \in (1..n) \X SUBSET N |-> Around(tx, p[2], k)]
<1>1. \A X \in SUBSET N : Around(tx, X, k) \in SUBSET N
  BY DEF Around, Between
<1>2. next \in [(1..n) \X SUBSET N -> SUBSET N] /\ {a} \in SUBSET N
  BY <1>1
<1>3. \A m \in 1..n, X \in SUBSET N : next[<<m, X>>] = Around(tx, X, k)
  OBVIOUS
<1> HIDE DEF next
<1>4. PICK f \in [0..n -> SUBSET N] :
        \A m \in 0..n : f[m] = IF m = 0 THEN {a} ELSE next[<<m, f[m - 1]>>]
  <2>1. Iterated(SUBSET N, {a}, n, next)
    BY <1>2, Iterates
  <2>2. QED
    BY <2>1 DEF Iterated, IsIteration
<1>5. ASSUME NEW m \in 0..n
      PROVE  f[m] = IF m = 0 THEN {a} ELSE Around(tx, f[m - 1], k)
  <2>1. m # 0 => m \in 1..n /\ m - 1 \in 0..n
    OBVIOUS
  <2>2. QED
    BY <1>3, <1>4, <2>1
<1>6. f = [m \in 0..n |-> IF m = 0 THEN {a} ELSE Around(tx, f[m - 1], k)]
  BY <1>5
<1>7. QED
  BY <1>6 DEF IsBalls

LEMMA BallsAgree ==
    ASSUME NEW tx, NEW a, NEW k, NEW n \in Nat, NEW l \in Nat, NEW f, NEW g,
           IsBalls(tx, a, n, k, f), IsBalls(tx, a, l, k, g), NEW m \in Nat, m <= n, m <= l
    PROVE  f[m] = g[m]
<1> DEFINE S == {j \in Nat : j <= m => f[j] = g[j]}
<1>0. /\ \A j \in 0..m : f[j] = IF j = 0 THEN {a} ELSE Around(tx, f[j - 1], k)
      /\ \A j \in 0..m : g[j] = IF j = 0 THEN {a} ELSE Around(tx, g[j - 1], k)
  <2>1. /\ \A j \in 0..n : f[j] = IF j = 0 THEN {a} ELSE Around(tx, f[j - 1], k)
        /\ \A j \in 0..l : g[j] = IF j = 0 THEN {a} ELSE Around(tx, g[j - 1], k)
    BY Zenon DEF IsBalls
  <2>2. 0..m \subseteq 0..n /\ 0..m \subseteq 0..l
    OBVIOUS
  <2>3. QED
    BY <2>1, <2>2, Zenon
<1>1. 0 \in S
  BY <1>0
<1>2. ASSUME NEW j \in Nat, j \in S
      PROVE  j + 1 \in S
  <2>1. SUFFICES ASSUME j + 1 <= m
                 PROVE  f[j + 1] = g[j + 1]
    OBVIOUS
  <2>2. f[j] = g[j] /\ j + 1 \in 0..m /\ j + 1 # 0 /\ (j + 1) - 1 = j
    BY <1>2, <2>1
  <2>3. f[j + 1] = Around(tx, f[j], k) /\ g[j + 1] = Around(tx, g[j], k)
    BY <1>0, <2>2
  <2>4. QED
    BY <2>2, <2>3
<1>3. m \in S
  <2>1. \A j \in S \cap Nat : j + 1 \in S
    BY <1>2
  <2> HIDE DEF S
  <2>2. Nat \subseteq S
    BY <1>1, <2>1, NatByOnes
  <2>3. QED
    BY <2>2
<1>4. QED
  BY <1>3

(* The equations of a ball.                                                *)
LEMMA BallOverIs ==
    ASSUME NEW tx, NEW N, NEW a \in N, NEW k \in Nat, Between(tx, k, N)
    PROVE  /\ BallOver(tx, a, 0, k) = {a}
           /\ \A n \in Nat :
                BallOver(tx, a, n + 1, k) = Around(tx, BallOver(tx, a, n, k), k)
<1> DEFINE F(m) == CHOOSE f : IsBalls(tx, a, m, k, f)
<1>1. \A m \in Nat : IsBalls(tx, a, m, k, F(m))
  BY BallsExist
<1>2. \A m \in Nat : BallOver(tx, a, m, k) = F(m)[m]
  BY DEF BallOver
<1> HIDE DEF F
<1>3. \A m \in Nat : \A j \in 0..m :
        F(m)[j] = IF j = 0 THEN {a} ELSE Around(tx, F(m)[j - 1], k)
  BY <1>1, Zenon DEF IsBalls
<1>4. BallOver(tx, a, 0, k) = {a}
  BY <1>2, <1>3
<1> SUFFICES ASSUME NEW n \in Nat
             PROVE  BallOver(tx, a, n + 1, k) = Around(tx, BallOver(tx, a, n, k), k)
  BY <1>4
<1>5. F(n + 1)[n + 1] = Around(tx, F(n + 1)[n], k)
  <2>1. n + 1 \in Nat /\ n + 1 \in 0..(n + 1) /\ n + 1 # 0 /\ (n + 1) - 1 = n
    OBVIOUS
  <2>2. QED
    BY <1>3, <2>1
<1>6. F(n + 1)[n] = F(n)[n]
  <2>1. n + 1 \in Nat /\ n <= n + 1 /\ n <= n
    OBVIOUS
  <2>2. IsBalls(tx, a, n + 1, k, F(n + 1)) /\ IsBalls(tx, a, n, k, F(n))
    BY <1>1, <2>1
  <2>3. QED
    BY <2>1, <2>2, BallsAgree
<1>7. QED
  BY <1>2, <1>4, <1>5, <1>6

(* A ball holds the smaller ones, and grows with the payments.             *)
LEMMA BallsGrow ==
    ASSUME NEW tx, NEW N, NEW a \in N, NEW k \in Nat, NEW l \in Nat, k <= l, Between(tx, l, N),
           NEW n \in Nat
    PROVE  /\ BallOver(tx, a, n, k) \subseteq N
           /\ BallOver(tx, a, n, k) \subseteq BallOver(tx, a, n + 1, k)
           /\ BallOver(tx, a, n, k) \subseteq BallOver(tx, a, n, l)
<1> DEFINE S == {m \in Nat : /\ BallOver(tx, a, m, k) \subseteq N
                             /\ BallOver(tx, a, m, k) \subseteq BallOver(tx, a, m, l)}
<1>0. Between(tx, k, N)
  BY DEF Between
<1>e. \A m \in Nat :
        /\ BallOver(tx, a, 0, k) = {a} /\ BallOver(tx, a, 0, l) = {a}
        /\ BallOver(tx, a, m + 1, k) = Around(tx, BallOver(tx, a, m, k), k)
        /\ BallOver(tx, a, m + 1, l) = Around(tx, BallOver(tx, a, m, l), l)
  <2>1. /\ BallOver(tx, a, 0, k) = {a}
        /\ \A m \in Nat :
            BallOver(tx, a, m + 1, k) = Around(tx, BallOver(tx, a, m, k), k)
    BY <1>0, BallOverIs
  <2>2. /\ BallOver(tx, a, 0, l) = {a}
        /\ \A m \in Nat :
            BallOver(tx, a, m + 1, l) = Around(tx, BallOver(tx, a, m, l), l)
    BY BallOverIs
  <2>3. QED
    BY <2>1, <2>2
<1>1. 0 \in S
  BY <1>e
<1>2. ASSUME NEW m \in Nat, m \in S
      PROVE  m + 1 \in S
  <2>1. PICK X, Y : X = BallOver(tx, a, m, k) /\ Y = BallOver(tx, a, m, l)
    OBVIOUS
  <2>2. /\ BallOver(tx, a, m + 1, k) = Around(tx, X, k)
        /\ BallOver(tx, a, m + 1, l) = Around(tx, Y, l)
    BY <1>e, <2>1
  <2>3. X \subseteq N /\ X \subseteq Y
    BY <1>2, <2>1
  <2>4. Around(tx, X, k) \subseteq N
    BY <1>0, <2>3 DEF Around, Between
  <2>5. Around(tx, X, k) \subseteq Around(tx, Y, l)
    <3>1. 1..k \subseteq 1..l
      OBVIOUS
    <3>2. QED
      BY <2>3, <3>1 DEF Around
  <2>6. QED
    BY <2>2, <2>4, <2>5
<1>3. \A m \in S \cap Nat : m + 1 \in S
  BY <1>2
<1>4. n \in S
  <2> HIDE DEF S
  <2>1. Nat \subseteq S
    BY <1>1, <1>3, NatByOnes
  <2>2. QED
    BY <2>1
<1>5. BallOver(tx, a, n, k) \subseteq BallOver(tx, a, n + 1, k)
  BY <1>0, BallOverIs DEF Around
<1>6. QED
  BY <1>4, <1>5

LEMMA BallsNested ==
    ASSUME NEW tx, NEW N, NEW a \in N, NEW k \in Nat, Between(tx, k, N),
           NEW m \in Nat, NEW n \in Nat, m <= n
    PROVE  BallOver(tx, a, m, k) \subseteq BallOver(tx, a, n, k)
<1> DEFINE S == {j \in Nat : BallOver(tx, a, m, k) \subseteq BallOver(tx, a, m + j, k)}
<1>1. 0 \in S
  <2>1. m + 0 = m
    OBVIOUS
  <2>2. QED
    BY <2>1
<1>2. ASSUME NEW j \in Nat, j \in S
      PROVE  j + 1 \in S
  <2>1. m + j \in Nat /\ m + (j + 1) = (m + j) + 1 /\ k <= k
    OBVIOUS
  <2>2. BallOver(tx, a, m + j, k) \subseteq BallOver(tx, a, (m + j) + 1, k)
    BY <2>1, BallsGrow
  <2>3. QED
    BY <1>2, <2>1, <2>2
<1>3. \A j \in S \cap Nat : j + 1 \in S
  BY <1>2
<1>4. n - m \in S
  <2> HIDE DEF S
  <2>1. Nat \subseteq S
    BY <1>1, <1>3, NatByOnes
  <2>2. QED
    BY <2>1
<1>5. m + (n - m) = n
  OBVIOUS
<1>6. QED
  BY <1>4, <1>5

(* Later payments do not change it.                                        *)
LEMMA BallsStay ==
    ASSUME NEW tx, NEW ux, NEW N, NEW a \in N, NEW k \in Nat, Between(tx, k, N),
           \A i \in 1..k : ux[i] = tx[i], NEW n \in Nat
    PROVE  BallOver(ux, a, n, k) = BallOver(tx, a, n, k)
<1> DEFINE S == {m \in Nat : BallOver(ux, a, m, k) = BallOver(tx, a, m, k)}
<1>0. Between(ux, k, N)
  BY DEF Between, Ends
<1>e. \A m \in Nat :
        /\ BallOver(tx, a, 0, k) = {a} /\ BallOver(ux, a, 0, k) = {a}
        /\ BallOver(tx, a, m + 1, k) = Around(tx, BallOver(tx, a, m, k), k)
        /\ BallOver(ux, a, m + 1, k) = Around(ux, BallOver(ux, a, m, k), k)
  <2>1. /\ BallOver(tx, a, 0, k) = {a}
        /\ \A m \in Nat :
            BallOver(tx, a, m + 1, k) = Around(tx, BallOver(tx, a, m, k), k)
    BY BallOverIs
  <2>2. /\ BallOver(ux, a, 0, k) = {a}
        /\ \A m \in Nat :
            BallOver(ux, a, m + 1, k) = Around(ux, BallOver(ux, a, m, k), k)
    BY <1>0, BallOverIs
  <2>3. QED
    BY <2>1, <2>2
<1>1. 0 \in S
  BY <1>e
<1>2. ASSUME NEW m \in Nat, m \in S
      PROVE  m + 1 \in S
  <2>1. PICK X : X = BallOver(tx, a, m, k)
    OBVIOUS
  <2>2. /\ BallOver(tx, a, m + 1, k) = Around(tx, X, k)
        /\ BallOver(ux, a, m + 1, k) = Around(ux, X, k)
    BY <1>2, <1>e, <2>1
  <2>3. Around(ux, X, k) = Around(tx, X, k)
    BY DEF Around, Ends
  <2>4. QED
    BY <2>2, <2>3
<1>3. \A m \in S \cap Nat : m + 1 \in S
  BY <1>2
<1>4. n \in S
  <2> HIDE DEF S
  <2>1. Nat \subseteq S
    BY <1>1, <1>3, NatByOnes
  <2>2. QED
    BY <2>1
<1>5. QED
  BY <1>4

(* The balls of the properties are those.                                  *)
LEMMA BallIs ==
    ASSUME NEW a, NEW n, NEW k
    PROVE  /\ Ball(a, n, k) = BallOver(transactions, a, n, k)
           /\ Ball(a, n, k)' = BallOver(transactions', a, n, k)
BY DEF Ball, BallOver, IsBalls, Around, Ends

-----------------------------------------------------------------------------
(* What the neighbours queued make of a walk.                              *)

QueueEntry == [id: Names, depth: Nat]

WalkType ==
    [root: Names, queue: Seq(QueueEntry), visited: SUBSET Names, at: QueueEntry \cup {None},
     nodes: Seq(Names), edges: Seq(Nat), known: Nat]

SameWalk(w, v) ==
    /\ v.root = w.root /\ v.at = w.at /\ v.nodes = w.nodes /\ v.edges = w.edges
    /\ v.known = w.known

Added(w, v) == (Len(w.queue) + 1)..Len(v.queue)

(* v is w with the names of N visited: those that were not are queued, once *)
(* each, one payment further than the account at hand.                     *)
Extends(w, v, N) ==
    /\ v \in WalkType /\ SameWalk(w, v)
    /\ v.visited = w.visited \cup N
    /\ Len(w.queue) <= Len(v.queue)
    /\ \A k \in 1..Len(w.queue) : v.queue[k] = w.queue[k]
    /\ \A k \in Added(w, v) :
        v.queue[k].id \in N \ w.visited /\ v.queue[k].depth = w.at.depth + 1
    /\ \A x \in N \ w.visited : \E k \in Added(w, v) : v.queue[k].id = x
    /\ \A j, k \in Added(w, v) : v.queue[j].id = v.queue[k].id => j = k

LEMMA EnqueueExtends ==
    ASSUME NEW w \in WalkType, NEW v, NEW N, Extends(w, v, N), w.at \in QueueEntry,
           NEW i, Neighbour(i, w.at.id) \in Names
    PROVE  Extends(w, Enqueue(v, i), N \cup {Neighbour(i, w.at.id)})
<1>1. PICK n, d : n = Neighbour(i, w.at.id) /\ d = w.at.depth + 1
  OBVIOUS
<1>2. v \in WalkType /\ v.at = w.at /\ n \in Names /\ d \in Nat
  BY <1>1 DEF Extends, SameWalk, QueueEntry
<1>3. CASE n \in v.visited
  <2>1. Enqueue(v, i) = v
    BY <1>1, <1>2, <1>3 DEF Enqueue
  <2>2. n \in w.visited \/ n \in N
    BY <1>3 DEF Extends
  <2>3. (N \cup {n}) \ w.visited = N \ w.visited /\ w.visited \cup N = w.visited \cup (N \cup {n})
    BY <2>2
  <2>4. QED
    BY <1>1, <2>1, <2>3 DEF Extends
<1>4. CASE n \notin v.visited
  <2>1. PICK e : e = [id |-> n, depth |-> d]
    OBVIOUS
  <2>2. e \in QueueEntry /\ e.id = n /\ e.depth = d
    BY <1>2, <2>1 DEF QueueEntry
  <2>3. PICK u : u = [[v EXCEPT !.visited = v.visited \cup {n}] EXCEPT !.queue = Append(v.queue, e)]
    OBVIOUS
  <2>4. Enqueue(v, i) = u
    BY <1>1, <1>2, <1>4, <2>1, <2>3 DEF Enqueue, WalkType
  <2>5. /\ u \in WalkType /\ SameWalk(v, u)
        /\ u.visited = v.visited \cup {n} /\ u.queue = Append(v.queue, e)
    <3>1. Append(v.queue, e) \in Seq(QueueEntry) /\ v.visited \cup {n} \in SUBSET Names
      BY <1>2, <2>2 DEF WalkType
    <3>2. PICK q, x : q = Append(v.queue, e) /\ x = v.visited \cup {n}
      OBVIOUS
    <3>3. u = [[v EXCEPT !.visited = x] EXCEPT !.queue = q]
      BY <2>3, <3>2
    <3>4. q \in Seq(QueueEntry) /\ x \in SUBSET Names
      BY <3>1, <3>2
    <3>5. u \in WalkType /\ SameWalk(v, u) /\ u.visited = x /\ u.queue = q
      BY <1>2, <3>3, <3>4 DEF WalkType, SameWalk
    <3>6. QED
      BY <3>2, <3>5
  <2>6. /\ Len(u.queue) = Len(v.queue) + 1 /\ Len(v.queue) \in Nat /\ Len(w.queue) \in Nat
        /\ \A k \in 1..Len(v.queue) : u.queue[k] = v.queue[k]
        /\ u.queue[Len(v.queue) + 1] = e
    BY <1>2, <2>2, <2>5 DEF WalkType
  <2>7. PICK l, m : l = Len(w.queue) /\ m = Len(v.queue)
    OBVIOUS
  <2>8. /\ l <= m /\ l \in Nat /\ m \in Nat /\ Added(w, v) = (l + 1)..m
        /\ Added(w, u) = (l + 1)..(m + 1)
    BY <2>6, <2>7 DEF Extends, Added
  <2>9. \A k \in Added(w, u) :
          \/ k \in Added(w, v) /\ u.queue[k] = v.queue[k]
          \/ k = m + 1 /\ u.queue[k] = e
    <3>1. \A k \in (l + 1)..(m + 1) : k \in (l + 1)..m \/ k = m + 1
      BY <2>8
    <3>2. \A k \in (l + 1)..m : k \in 1..m
      BY <2>8
    <3>3. QED
      BY <2>6, <2>7, <2>8, <3>1, <3>2
  <2>10. \A k \in Added(w, v) : k \in Added(w, u) /\ u.queue[k] = v.queue[k] /\ k # m + 1
    <3>1. \A k \in (l + 1)..m : k \in 1..m /\ k \in (l + 1)..(m + 1) /\ k # m + 1
      BY <2>8
    <3>2. QED
      BY <2>6, <2>7, <2>8, <3>1
  <2>11. m + 1 \in Added(w, u) /\ u.queue[m + 1] = e
    BY <2>6, <2>7, <2>8
  <2>12. n \notin w.visited /\ n \notin N
    BY <1>4 DEF Extends
  <2>13. u.visited = w.visited \cup (N \cup {n}) /\ SameWalk(w, u) /\ Len(w.queue) <= Len(u.queue)
    BY <2>5, <2>6, <2>7, <2>8 DEF Extends, SameWalk
  <2>14. \A k \in 1..Len(w.queue) : u.queue[k] = w.queue[k]
    <3>1. \A k \in 1..l : k \in 1..m
      BY <2>8
    <3>2. QED
      BY <2>6, <2>7, <3>1 DEF Extends
  <2>15. \A k \in Added(w, u) :
          u.queue[k].id \in (N \cup {n}) \ w.visited /\ u.queue[k].depth = w.at.depth + 1
    BY <1>1, <2>2, <2>9, <2>12 DEF Extends
  <2>16. \A x \in (N \cup {n}) \ w.visited : \E k \in Added(w, u) : u.queue[k].id = x
    BY <2>2, <2>10, <2>11 DEF Extends
  <2>17. \A k \in Added(w, v) : v.queue[k].id # n
    BY <2>12 DEF Extends
  <2>18. \A j, k \in Added(w, u) : u.queue[j].id = u.queue[k].id => j = k
    BY <2>2, <2>9, <2>17 DEF Extends
  <2>19. Extends(w, u, N \cup {n})
    BY <2>5, <2>13, <2>14, <2>15, <2>16, <2>18 DEF Extends
  <2>20. QED
    BY <1>1, <2>4, <2>19
<1>5. QED
  BY <1>3, <1>4

(* The equations of Enqueued.                                              *)
IsEnqueueing(w, taken, f) ==
    f = [n \in 0..Len(taken) |-> IF n = 0 THEN w ELSE Enqueue(f[n - 1], taken[n])]

LEMMA EnqueueType ==
    ASSUME NEW v \in WalkType, v.at \in QueueEntry, NEW i, Neighbour(i, v.at.id) \in Names
    PROVE  Enqueue(v, i) \in WalkType /\ Enqueue(v, i).at = v.at
<1>1. Extends(v, v, {})
  BY DEF Extends, SameWalk, Added, WalkType
<1>2. Extends(v, Enqueue(v, i), {} \cup {Neighbour(i, v.at.id)})
  BY <1>1, EnqueueExtends
<1>3. QED
  BY <1>2 DEF Extends, SameWalk

LEMMA EnqueueingExists ==
    ASSUME NEW w \in WalkType, w.at \in QueueEntry, NEW taken \in Seq(Nat),
           \A i \in ToSet(taken) : Neighbour(i, w.at.id) \in Names
    PROVE  \E f : IsEnqueueing(w, taken, f)
<1> DEFINE m == Len(taken)
           S == {v \in WalkType : v.at = w.at}
           next == [p \in (1..m) \X S |-> Enqueue(p[2], taken[p[1]])]
<1>1. m \in Nat /\ w \in S /\ \A n \in 1..m : taken[n] \in ToSet(taken)
  BY DEF ToSet
<1>2. \A n \in 1..m, v \in S : Enqueue(v, taken[n]) \in S
  <2> SUFFICES ASSUME NEW n \in 1..m, NEW v \in S
               PROVE  Enqueue(v, taken[n]) \in WalkType /\ Enqueue(v, taken[n]).at = v.at
    OBVIOUS
  <2>1. v \in WalkType /\ v.at = w.at
    OBVIOUS
  <2>2. Neighbour(taken[n], v.at.id) \in Names
    BY <1>1, <2>1
  <2>3. QED
    BY <2>1, <2>2, EnqueueType
<1> HIDE DEF S
<1>3. next \in [(1..m) \X S -> S]
  BY <1>2
<1>4. \A n \in 1..m, v \in S : next[<<n, v>>] = Enqueue(v, taken[n])
  OBVIOUS
<1> HIDE DEF next, m
<1>5. PICK f \in [0..m -> S] :
        \A n \in 0..m : f[n] = IF n = 0 THEN w ELSE next[<<n, f[n - 1]>>]
  <2>1. Iterated(S, w, m, next)
    BY <1>1, <1>3, Iterates
  <2>2. QED
    BY <2>1 DEF Iterated, IsIteration
<1>6. ASSUME NEW n \in 0..m
      PROVE  f[n] = IF n = 0 THEN w ELSE Enqueue(f[n - 1], taken[n])
  <2>1. n # 0 => n \in 1..m /\ n - 1 \in 0..m
    BY <1>1
  <2>2. n # 0 => f[n - 1] \in S
    BY <2>1
  <2>3. QED
    BY <1>4, <1>5, <2>1, <2>2
<1>7. f = [n \in 0..m |-> IF n = 0 THEN w ELSE Enqueue(f[n - 1], taken[n])]
  BY <1>6
<1>8. QED
  BY <1>7 DEF IsEnqueueing, m

LEMMA EnqueuedExtends ==
    ASSUME NEW w \in WalkType, w.at \in QueueEntry, NEW taken \in Seq(Nat),
           \A i \in ToSet(taken) : Neighbour(i, w.at.id) \in Names
    PROVE  Extends(w, Enqueued(w, taken), {Neighbour(i, w.at.id) : i \in ToSet(taken)})
<1> DEFINE f == CHOOSE g : IsEnqueueing(w, taken, g)
           N(n) == {Neighbour(taken[j], w.at.id) : j \in 1..n}
           S == {n \in Nat : n <= Len(taken) => Extends(w, f[n], N(n))}
<1>1. Enqueued(w, taken) = f[Len(taken)]
  BY DEF Enqueued, IsEnqueueing
<1>2. IsEnqueueing(w, taken, f)
  BY EnqueueingExists
<1> HIDE DEF f
<1>3. \A n \in 0..Len(taken) : f[n] = IF n = 0 THEN w ELSE Enqueue(f[n - 1], taken[n])
  BY <1>2, Zenon DEF IsEnqueueing
<1>4. Len(taken) \in Nat /\ DOMAIN taken = 1..Len(taken)
  OBVIOUS
<1>5. 0 \in S
  <2>1. f[0] = w
    BY <1>3, <1>4
  <2>2. N(0) = {}
    OBVIOUS
  <2>3. Extends(w, w, {})
    BY DEF Extends, SameWalk, Added, WalkType
  <2>4. QED
    BY <2>1, <2>2, <2>3
<1>6. ASSUME NEW n \in Nat, n \in S
      PROVE  n + 1 \in S
  <2>1. SUFFICES ASSUME n + 1 <= Len(taken)
                 PROVE  Extends(w, f[n + 1], N(n + 1))
    OBVIOUS
  <2>2. Extends(w, f[n], N(n)) /\ n + 1 \in DOMAIN taken /\ n + 1 # 0 /\ (n + 1) - 1 = n
    BY <1>4, <1>6, <2>1
  <2>3. f[n + 1] = Enqueue(f[n], taken[n + 1])
    BY <1>3, <2>1, <2>2
  <2>4. N(n + 1) = N(n) \cup {Neighbour(taken[n + 1], w.at.id)}
    <3>1. 1..(n + 1) = 1..n \cup {n + 1}
      OBVIOUS
    <3>2. QED
      BY <3>1
  <2>5. Neighbour(taken[n + 1], w.at.id) \in Names
    BY <2>2 DEF ToSet
  <2> HIDE DEF N
  <2>6. QED
    BY <2>2, <2>3, <2>4, <2>5, EnqueueExtends
<1>7. Len(taken) \in S
  <2>1. \A n \in S \cap Nat : n + 1 \in S
    BY <1>6
  <2> HIDE DEF S
  <2>2. Nat \subseteq S
    BY <1>5, <2>1, NatByOnes
  <2>3. QED
    BY <1>4, <2>2
<1>8. Extends(w, f[Len(taken)], N(Len(taken)))
  BY <1>4, <1>7
<1>9. N(Len(taken)) = {Neighbour(i, w.at.id) : i \in ToSet(taken)}
  BY <1>4 DEF ToSet
<1>10. QED
  BY <1>1, <1>8, <1>9

-----------------------------------------------------------------------------
(* What a walk knows of the payments tx between the accounts of A, with    *)
(* the hops h and the limit l it was asked for; busy while the account at  *)
(* hand is being expanded.                                                 *)

QueueIds(w) == {w.queue[k].id : k \in DOMAIN w.queue}

(* Every account visited is either a node or queued, and that once.        *)
Sorted(w, busy, A) ==
    /\ w \in WalkType
    /\ w.visited \subseteq A
    /\ w.visited = ToSet(w.nodes) \cup QueueIds(w)
    /\ ToSet(w.nodes) \cap QueueIds(w) = {}
    /\ IsInjective(w.nodes)
    /\ \A j, k \in DOMAIN w.queue : w.queue[j].id = w.queue[k].id => j = k
    /\ IF w.nodes = <<>> THEN w.queue # <<>> /\ w.queue[1].id = w.root ELSE w.nodes[1] = w.root
    /\ busy => w.at \in QueueEntry /\ w.at.id \in ToSet(w.nodes)

(* Both ends of an edge have been visited.                                 *)
Joined(w, tx, l) ==
    /\ ToSet(w.edges) \subseteq DOMAIN tx
    /\ IsInjective(w.edges) /\ Len(w.edges) <= l
    /\ \A i \in ToSet(w.edges) : Ends(tx, i) \subseteq w.visited

(* The accounts one payment further are queued behind the nearer ones.     *)
Layered(w, busy, h) ==
    /\ \A j, k \in DOMAIN w.queue :
        j <= k =>
            w.queue[j].depth <= w.queue[k].depth /\ w.queue[k].depth <= w.queue[j].depth + 1
    /\ \A k \in DOMAIN w.queue : w.queue[k].depth <= h
    /\ busy =>
        /\ w.at.depth < h
        /\ \A k \in DOMAIN w.queue :
            w.at.depth <= w.queue[k].depth /\ w.queue[k].depth <= w.at.depth + 1

(* None is further away than its depth says,                               *)
Near(w, busy, tx, h) ==
    /\ \A k \in DOMAIN w.queue :
        w.queue[k].id \in BallOver(tx, w.root, w.queue[k].depth, Len(tx))
    /\ busy => w.at.id \in BallOver(tx, w.root, w.at.depth, Len(tx))
    /\ ToSet(w.nodes) \subseteq BallOver(tx, w.root, h, Len(tx))

Settled(w, busy) == ToSet(w.nodes) \ (IF busy THEN {w.at.id} ELSE {})

(* and while there is room, none is nearer, by the payments known when the *)
(* walk began; of those all that touch a settled account are edges.        *)
Thorough(w, busy, tx, h, l) ==
    /\ w.known \in 0..Len(tx)
    /\ Len(w.edges) < l =>
        /\ \A k \in DOMAIN w.queue, m \in Nat :
            m < w.queue[k].depth => w.queue[k].id \notin BallOver(tx, w.root, m, w.known)
        /\ busy =>
            \A m \in Nat : m < w.at.depth => w.at.id \notin BallOver(tx, w.root, m, w.known)
        /\ \A x \in Settled(w, busy) \cap BallOver(tx, w.root, h - 1, w.known) :
            \A i \in 1..w.known : x \in Ends(tx, i) => i \in ToSet(w.edges)

Walked(w, busy, A, tx, h, l) ==
    /\ Sorted(w, busy, A) /\ Joined(w, tx, l) /\ Layered(w, busy, h)
    /\ Near(w, busy, tx, h) /\ Thorough(w, busy, tx, h, l)

(* The payments of a ledger are between accounts.                          *)
Payments(tx, A) ==
    /\ Len(tx) \in Nat /\ DOMAIN tx = 1..Len(tx) /\ Between(tx, Len(tx), A)
    /\ A \subseteq Names

LEMMA RootVisited ==
    ASSUME NEW w, NEW busy, NEW A, Sorted(w, busy, A)
    PROVE  w.root \in w.visited /\ w.root \in A
<1>1. /\ w.queue \in Seq(QueueEntry) /\ w.nodes \in Seq(Names)
      /\ w.visited = ToSet(w.nodes) \cup QueueIds(w) /\ w.visited \subseteq A
  BY DEF Sorted, WalkType
<1>2. CASE w.nodes = <<>>
  <2>1. w.queue # <<>> /\ w.queue[1].id = w.root
    BY <1>2 DEF Sorted
  <2>2. 1 \in DOMAIN w.queue
    BY <1>1, <2>1
  <2>3. QED
    BY <1>1, <2>1, <2>2 DEF QueueIds
<1>3. CASE w.nodes # <<>>
  <2>1. w.nodes[1] = w.root
    BY <1>3 DEF Sorted
  <2>2. 1 \in DOMAIN w.nodes
    BY <1>1, <1>3
  <2>3. QED
    BY <1>1, <2>1, <2>2 DEF ToSet
<1>4. QED
  BY <1>2, <1>3

(* Whatever is within m payments of the root has been visited, once all    *)
(* that is left to do is m payments away.                                  *)
LEMMA BallVisited ==
    ASSUME NEW w, NEW busy \in BOOLEAN, NEW A, NEW tx, NEW h \in Nat, NEW l \in Nat,
           Payments(tx, A), Walked(w, busy, A, tx, h, l), Len(w.edges) < l,
           NEW m \in Nat, m <= h,
           \A k \in DOMAIN w.queue : m <= w.queue[k].depth,
           busy => m <= w.at.depth
    PROVE  BallOver(tx, w.root, m, w.known) \subseteq w.visited
<1> DEFINE B(j) == BallOver(tx, w.root, j, w.known)
           S == {j \in Nat : j <= m => B(j) \subseteq w.visited}
<1>1. /\ w.root \in A /\ w.root \in w.visited
      /\ w.known \in Nat /\ w.known <= Len(tx) /\ Between(tx, w.known, A)
  <2>1. w.known \in 0..Len(tx) /\ Len(tx) \in Nat /\ Between(tx, Len(tx), A)
    BY DEF Walked, Thorough, Payments
  <2>2. 1..w.known \subseteq 1..Len(tx)
    BY <2>1
  <2>3. QED
    BY <2>1, <2>2, RootVisited DEF Walked, Between
<1>2. B(0) = {w.root} /\ \A j \in Nat : B(j + 1) = Around(tx, B(j), w.known)
  <2>1. PICK r, k : r = w.root /\ k = w.known
    OBVIOUS
  <2>2. /\ BallOver(tx, r, 0, k) = {r}
        /\ \A j \in Nat : BallOver(tx, r, j + 1, k) = Around(tx, BallOver(tx, r, j, k), k)
    <3>1. r \in A /\ k \in Nat /\ Between(tx, k, A)
      BY <1>1, <2>1
    <3>2. QED
      BY <3>1, BallOverIs
  <2>3. QED
    BY <2>1, <2>2
<1>3. \A j \in Nat : j <= h - 1 => B(j) \subseteq B(h - 1)
  <2>1. PICK r, k : r = w.root /\ k = w.known
    OBVIOUS
  <2> SUFFICES ASSUME NEW j \in Nat, j <= h - 1
               PROVE  BallOver(tx, r, j, k) \subseteq BallOver(tx, r, h - 1, k)
    BY <2>1
  <2>2. h - 1 \in Nat
    OBVIOUS
  <2>3. QED
    BY <1>1, <2>1, <2>2, BallsNested
<1>4. /\ \A k \in DOMAIN w.queue, j \in Nat :
            j < w.queue[k].depth => w.queue[k].id \notin B(j)
      /\ busy => \A j \in Nat : j < w.at.depth => w.at.id \notin B(j)
      /\ \A x \in Settled(w, busy) \cap B(h - 1) :
            \A i \in 1..w.known : x \in Ends(tx, i) => i \in ToSet(w.edges)
  BY DEF Walked, Thorough
<1>5. /\ w.visited = ToSet(w.nodes) \cup QueueIds(w)
      /\ \A i \in ToSet(w.edges) : Ends(tx, i) \subseteq w.visited
      /\ \A k \in DOMAIN w.queue : w.queue[k].depth \in Nat
      /\ busy => w.at.depth \in Nat
  <2>1. w.queue \in Seq(QueueEntry) /\ (busy => w.at \in QueueEntry)
    BY DEF Walked, Sorted, WalkType
  <2>2. \A k \in DOMAIN w.queue : w.queue[k] \in QueueEntry
    BY <2>1
  <2>3. QED
    BY <2>1, <2>2 DEF Walked, Sorted, Joined, QueueEntry
<1> HIDE DEF B
<1>6. 0 \in S
  BY <1>1, <1>2
<1>7. ASSUME NEW j \in Nat, j \in S
      PROVE  j + 1 \in S
  <2>1. SUFFICES ASSUME j + 1 <= m
                 PROVE  B(j + 1) \subseteq w.visited
    OBVIOUS
  <2>2. B(j) \subseteq w.visited /\ B(j) \subseteq B(h - 1)
    <3>1. j <= m /\ j <= h - 1
      BY <2>1
    <3>2. QED
      BY <1>3, <1>7, <3>1
  <2>3. \A k \in DOMAIN w.queue : w.queue[k].id \notin B(j)
    BY <1>4, <1>5, <2>1
  <2>4. busy => w.at.id \notin B(j)
    BY <1>4, <1>5, <2>1
  <2>5. ASSUME NEW x \in B(j)
        PROVE  x \in Settled(w, busy)
    BY <1>5, <2>2, <2>3, <2>4 DEF QueueIds, Settled
  <2>6. ASSUME NEW i \in 1..w.known, NEW x \in B(j), x \in Ends(tx, i)
        PROVE  Ends(tx, i) \subseteq w.visited
    <3>1. i \in ToSet(w.edges)
      BY <1>4, <2>2, <2>5, <2>6
    <3>2. QED
      BY <1>5, <3>1
  <2>7. Around(tx, B(j), w.known) \subseteq w.visited
    BY <2>2, <2>6 DEF Around
  <2>8. QED
    BY <1>2, <2>7
<1>8. m \in S
  <2>1. \A j \in S \cap Nat : j + 1 \in S
    BY <1>7
  <2> HIDE DEF S
  <2>2. Nat \subseteq S
    BY <1>6, <2>1, NatByOnes
  <2>3. QED
    BY <2>2
<1>9. QED
  BY <1>8 DEF B

(* Balls, as the lemmas below need them.                                   *)
LEMMA PaymentBalls ==
    ASSUME NEW tx, NEW A, Payments(tx, A), NEW a \in A, NEW k \in 0..Len(tx)
    PROVE  /\ BallOver(tx, a, 0, k) = {a}
           /\ \A n \in Nat : BallOver(tx, a, n + 1, k) = Around(tx, BallOver(tx, a, n, k), k)
           /\ \A m, n \in Nat : m <= n => BallOver(tx, a, m, k) \subseteq BallOver(tx, a, n, k)
<1>1. k \in Nat /\ Between(tx, k, A)
  <2>1. 1..k \subseteq 1..Len(tx) /\ k \in Nat
    BY DEF Payments
  <2>2. QED
    BY <2>1 DEF Payments, Between
<1>2. /\ BallOver(tx, a, 0, k) = {a}
      /\ \A n \in Nat : BallOver(tx, a, n + 1, k) = Around(tx, BallOver(tx, a, n, k), k)
  BY <1>1, BallOverIs
<1>3. ASSUME NEW m \in Nat, NEW n \in Nat, m <= n
      PROVE  BallOver(tx, a, m, k) \subseteq BallOver(tx, a, n, k)
  BY <1>1, <1>3, BallsNested
<1>4. QED
  BY <1>2, <1>3

(* The walk begins at the root.                                            *)
LEMMA BeginWalked ==
    ASSUME NEW tx, NEW A, Payments(tx, A), NEW a \in A, NEW h \in Nat, NEW l \in Nat, NEW w,
           w = [root |-> a, queue |-> <<[id |-> a, depth |-> 0]>>, visited |-> {a},
                at |-> None, nodes |-> <<>>, edges |-> <<>>, known |-> Len(tx)]
    PROVE  Walked(w, FALSE, A, tx, h, l) /\ w.queue # <<>>
<1>1. PICK e : e = [id |-> a, depth |-> 0]
  OBVIOUS
<1>2. e \in QueueEntry /\ e.id = a /\ e.depth = 0 /\ a \in Names
  BY <1>1 DEF QueueEntry, Payments
<1>3. PICK q : q = <<e>>
  OBVIOUS
<1>4. /\ q \in Seq(QueueEntry) /\ DOMAIN q = {1} /\ q[1] = e /\ q # <<>> /\ Len(q) = 1
  BY <1>2, <1>3
<1>5. /\ <<>> \in Seq(Names) /\ <<>> \in Seq(Nat) /\ ToSet(<<>>) = {} /\ IsInjective(<<>>)
      /\ Len(<<>>) = 0
  BY DEF ToSet, IsInjective
<1>6. /\ w.root = a /\ w.queue = q /\ w.visited = {a} /\ w.nodes = <<>> /\ w.edges = <<>>
      /\ w.known = Len(tx) /\ Len(tx) \in Nat /\ w \in WalkType
  BY <1>1, <1>2, <1>3, <1>4, <1>5 DEF WalkType, Payments
<1>7. Sorted(w, FALSE, A)
  BY <1>2, <1>4, <1>5, <1>6 DEF Sorted, QueueIds
<1>8. Joined(w, tx, l)
  BY <1>5, <1>6 DEF Joined
<1>9. Layered(w, FALSE, h)
  BY <1>2, <1>4, <1>6 DEF Layered
<1>10. BallOver(tx, a, 0, Len(tx)) = {a}
  <2>1. Len(tx) \in 0..Len(tx)
    BY <1>6
  <2>2. QED
    BY <2>1, PaymentBalls
<1>11. Near(w, FALSE, tx, h)
  BY <1>2, <1>4, <1>5, <1>6, <1>10 DEF Near
<1>12. Thorough(w, FALSE, tx, h, l)
  BY <1>2, <1>4, <1>5, <1>6 DEF Thorough, Settled
<1>13. QED
  BY <1>4, <1>6, <1>7, <1>8, <1>9, <1>11, <1>12 DEF Walked

(* The first of the queue becomes a node: it is expanded, or left as it is *)
(* when it is as far away as was asked for or there is no more room.       *)
LEMMA VisitWalked ==
    ASSUME NEW tx, NEW A, Payments(tx, A), NEW h \in Nat \ {0}, NEW l \in Nat, NEW w, NEW v,
           Walked(w, FALSE, A, tx, h, l), w.queue # <<>>,
           v \in WalkType,
           v.root = w.root, v.queue = Tail(w.queue), v.visited = w.visited,
           v.at = Head(w.queue), v.nodes = Append(w.nodes, v.at.id), v.edges = w.edges,
           v.known = w.known
    PROVE  /\ v.at.depth < h => Walked(v, TRUE, A, tx, h, l)
           /\ ~(v.at.depth < h /\ Len(v.edges) < l) => Walked(v, FALSE, A, tx, h, l)
<1>1. PICK q, r, e : q = w.queue /\ r = v.queue /\ e = v.at
  OBVIOUS
<1>2. /\ q \in Seq(QueueEntry) /\ q # <<>> /\ r = Tail(q) /\ e = q[1]
      /\ w.nodes \in Seq(Names) /\ w.visited \subseteq A /\ w.edges \in Seq(Nat)
      /\ w.visited = ToSet(w.nodes) \cup QueueIds(w)
      /\ ToSet(w.nodes) \cap QueueIds(w) = {}
      /\ IsInjective(w.nodes)
      /\ \A j, k \in DOMAIN q : q[j].id = q[k].id => j = k
  BY <1>1 DEF Walked, Sorted, WalkType
<1>3. /\ Len(q) \in Nat \ {0} /\ DOMAIN q = 1..Len(q) /\ r \in Seq(QueueEntry)
      /\ DOMAIN r = 1..(Len(q) - 1) /\ \A k \in DOMAIN r : r[k] = q[k + 1]
      /\ \A k \in DOMAIN q : q[k] \in QueueEntry
  BY <1>2
<1>4. e \in QueueEntry /\ e.id \in Names /\ e.depth \in Nat /\ 1 \in DOMAIN q
  <2>1. 1 \in DOMAIN q
    BY <1>3
  <2>2. e \in QueueEntry
    BY <1>2, <1>3, <2>1
  <2>3. QED
    BY <2>1, <2>2 DEF QueueEntry
<1>5. \A k \in DOMAIN r : k + 1 \in DOMAIN q /\ k + 1 # 1
  BY <1>3
<1>6. \A k \in DOMAIN q : k = 1 \/ \E j \in DOMAIN r : k = j + 1
  <2> SUFFICES ASSUME NEW k \in DOMAIN q, k # 1
               PROVE  \E j \in DOMAIN r : k = j + 1
    OBVIOUS
  <2>1. k - 1 \in DOMAIN r /\ k = (k - 1) + 1
    BY <1>3
  <2>2. QED
    BY <2>1
<1>7. /\ QueueIds(w) = {e.id} \cup QueueIds(v)
      /\ e.id \notin QueueIds(v)
  <2>1. QueueIds(w) = {q[k].id : k \in DOMAIN q} /\ QueueIds(v) = {r[k].id : k \in DOMAIN r}
    BY <1>1 DEF QueueIds
  <2>2. \A k \in DOMAIN r : r[k] = q[k + 1] /\ k + 1 \in DOMAIN q /\ k + 1 # 1
    BY <1>3, <1>5
  <2>3. QueueIds(v) \subseteq QueueIds(w) /\ e.id \in QueueIds(w)
    BY <1>2, <1>4, <2>1, <2>2
  <2>4. ASSUME NEW k \in DOMAIN q
        PROVE  q[k].id \in {e.id} \cup QueueIds(v)
    <3>1. CASE k = 1
      BY <1>2, <3>1
    <3>2. CASE k # 1
      <4>1. PICK j \in DOMAIN r : k = j + 1
        BY <1>6, <3>2
      <4>2. QED
        BY <2>1, <2>2, <4>1
    <3>3. QED
      BY <3>1, <3>2
  <2>5. e.id \notin QueueIds(v)
    BY <1>2, <1>4, <2>1, <2>2
  <2>6. ASSUME NEW x \in QueueIds(w)
        PROVE  x \in {e.id} \cup QueueIds(v)
    <3>1. PICK k \in DOMAIN q : x = q[k].id
      BY <2>1
    <3>2. QED
      BY <2>4, <3>1
  <2>7. QED
    BY <2>3, <2>5, <2>6
<1>8. /\ v.nodes \in Seq(Names) /\ ToSet(v.nodes) = ToSet(w.nodes) \cup {e.id}
      /\ IsInjective(v.nodes) /\ v.nodes # <<>>
  <2>1. e.id \notin ToSet(w.nodes)
    BY <1>2, <1>7
  <2>2. v.nodes = Append(w.nodes, e.id) /\ Len(v.nodes) = Len(w.nodes) + 1 /\ Len(w.nodes) \in Nat
    BY <1>1, <1>2, <1>4
  <2>3. QED
    <3>1. PICK nodes, x : nodes = w.nodes /\ x = e.id
      OBVIOUS
    <3>2. nodes \in Seq(Names) /\ x \in Names /\ x \notin ToSet(nodes) /\ IsInjective(nodes)
      BY <1>2, <1>4, <2>1, <3>1
    <3>3. /\ Append(nodes, x) \in Seq(Names) /\ ToSet(Append(nodes, x)) = ToSet(nodes) \cup {x}
          /\ IsInjective(Append(nodes, x))
      BY <3>2, AppendElements
    <3>4. Append(nodes, x) # <<>>
      BY <3>2
    <3>5. QED
      BY <2>2, <3>1, <3>3, <3>4
<1>9. v.nodes[1] = v.root
  <2>1. CASE w.nodes = <<>>
    <3>1. q[1].id = w.root
      BY <1>1, <2>1 DEF Walked, Sorted
    <3>2. v.nodes[1] = e.id
      BY <1>1, <2>1
    <3>3. QED
      BY <1>2, <3>1, <3>2
  <2>2. CASE w.nodes # <<>>
    <3>1. w.nodes[1] = w.root
      BY <2>2 DEF Walked, Sorted
    <3>2. Append(w.nodes, e.id)[1] = w.nodes[1]
      BY <1>2, <1>4, <2>2
    <3>3. QED
      BY <1>1, <3>1, <3>2
  <2>3. QED
    BY <2>1, <2>2
<1>10. ASSUME NEW j \in DOMAIN r, NEW k \in DOMAIN r, r[j].id = r[k].id
       PROVE  j = k
  <2>1. j + 1 = k + 1
    BY <1>2, <1>3, <1>5, <1>10
  <2>2. QED
    BY <1>3, <2>1
<1>11. Sorted(v, TRUE, A) /\ Sorted(v, FALSE, A)
  BY <1>1, <1>2, <1>4, <1>7, <1>8, <1>9, <1>10 DEF Sorted
<1>12. Joined(v, tx, l)
  BY DEF Walked, Joined
<1>13. /\ \A j, k \in DOMAIN q :
            j <= k => q[j].depth <= q[k].depth /\ q[k].depth <= q[j].depth + 1
       /\ \A k \in DOMAIN q : q[k].depth <= h
  BY <1>1 DEF Walked, Layered
<1>14. /\ \A j, k \in DOMAIN r :
            j <= k => r[j].depth <= r[k].depth /\ r[k].depth <= r[j].depth + 1
       /\ \A k \in DOMAIN r : r[k].depth <= h
       /\ \A k \in DOMAIN r : e.depth <= r[k].depth /\ r[k].depth <= e.depth + 1
       /\ e.depth <= h
  <2>1. \A j, k \in DOMAIN r : j <= k => j + 1 <= k + 1
    BY <1>3
  <2>2. \A k \in DOMAIN r : 1 <= k + 1
    BY <1>3
  <2>3. QED
    BY <1>2, <1>3, <1>4, <1>5, <1>13, <2>1, <2>2
<1>15. Layered(v, FALSE, h) /\ (e.depth < h => Layered(v, TRUE, h))
  BY <1>1, <1>14 DEF Layered
<1>16. Near(v, FALSE, tx, h) /\ Near(v, TRUE, tx, h)
  <2>1. /\ \A k \in DOMAIN q : q[k].id \in BallOver(tx, w.root, q[k].depth, Len(tx))
        /\ ToSet(w.nodes) \subseteq BallOver(tx, w.root, h, Len(tx))
    BY <1>1 DEF Walked, Near
  <2>2. \A k \in DOMAIN r : r[k].id \in BallOver(tx, w.root, r[k].depth, Len(tx))
    BY <1>3, <1>5, <2>1
  <2>3. e.id \in BallOver(tx, w.root, e.depth, Len(tx))
    BY <1>2, <1>4, <2>1
  <2>4. BallOver(tx, w.root, e.depth, Len(tx)) \subseteq BallOver(tx, w.root, h, Len(tx))
    <3>1. PICK a, k : a = w.root /\ k = Len(tx)
      OBVIOUS
    <3>2. a \in A /\ k \in 0..Len(tx)
      <4>1. Len(tx) \in 0..Len(tx)
        BY DEF Payments
      <4>2. QED
        BY <3>1, <4>1, RootVisited DEF Walked
    <3>3. \A m, n \in Nat : m <= n => BallOver(tx, a, m, k) \subseteq BallOver(tx, a, n, k)
      BY <3>2, PaymentBalls
    <3>4. QED
      BY <1>4, <1>14, <3>1, <3>3
  <2>5. QED
    BY <1>1, <1>8, <2>1, <2>2, <2>3, <2>4 DEF Near
<1>17. ASSUME NEW busy \in BOOLEAN, ~busy => ~(e.depth < h /\ Len(v.edges) < l)
       PROVE  Thorough(v, busy, tx, h, l)
  <2> SUFFICES ASSUME Len(w.edges) < l
               PROVE  /\ \A k \in DOMAIN r, m \in Nat :
                            m < r[k].depth => r[k].id \notin BallOver(tx, w.root, m, w.known)
                      /\ \A m \in Nat : m < e.depth => e.id \notin BallOver(tx, w.root, m, w.known)
                      /\ \A x \in Settled(v, busy) \cap BallOver(tx, w.root, h - 1, w.known) :
                            \A i \in 1..w.known : x \in Ends(tx, i) => i \in ToSet(w.edges)
    BY <1>1 DEF Walked, Thorough
  <2>1. /\ \A k \in DOMAIN q, m \in Nat :
            m < q[k].depth => q[k].id \notin BallOver(tx, w.root, m, w.known)
        /\ \A x \in ToSet(w.nodes) \cap BallOver(tx, w.root, h - 1, w.known) :
            \A i \in 1..w.known : x \in Ends(tx, i) => i \in ToSet(w.edges)
    BY <1>1 DEF Walked, Thorough, Settled
  <2>2. \A m \in Nat : m < e.depth => e.id \notin BallOver(tx, w.root, m, w.known)
    BY <1>2, <1>4, <2>1
  <2>3. \A k \in DOMAIN r, m \in Nat :
            m < r[k].depth => r[k].id \notin BallOver(tx, w.root, m, w.known)
    BY <1>3, <1>5, <2>1
  <2>4. ~busy => e.id \notin BallOver(tx, w.root, h - 1, w.known)
    <3> SUFFICES ASSUME ~busy
                 PROVE  e.id \notin BallOver(tx, w.root, h - 1, w.known)
      OBVIOUS
    <3>1. h - 1 \in Nat /\ h - 1 < e.depth
      BY <1>4, <1>17
    <3>2. QED
      BY <2>2, <3>1
  <2>5. Settled(v, busy) \cap BallOver(tx, w.root, h - 1, w.known) \subseteq ToSet(w.nodes)
    BY <1>1, <1>8, <2>4 DEF Settled
  <2>6. QED
    BY <2>1, <2>2, <2>3, <2>5
<1>18. QED
  BY <1>1, <1>11, <1>12, <1>15, <1>16, <1>17 DEF Walked

Pops(w, v) ==
    /\ v \in WalkType
    /\ v.root = w.root /\ v.queue = Tail(w.queue) /\ v.visited = w.visited
    /\ v.at = Head(w.queue) /\ v.nodes = Append(w.nodes, v.at.id) /\ v.edges = w.edges
    /\ v.known = w.known

LEMMA PopWalked ==
    ASSUME NEW tx, NEW A, Payments(tx, A), NEW h \in Nat \ {0}, NEW l \in Nat, NEW w, NEW v,
           Walked(w, FALSE, A, tx, h, l), w.queue # <<>>, Pops(w, v)
    PROVE  /\ v.at.depth < h => Walked(v, TRUE, A, tx, h, l)
           /\ ~(v.at.depth < h /\ Len(v.edges) < l) => Walked(v, FALSE, A, tx, h, l)
<1>1. /\ v \in WalkType
      /\ v.root = w.root /\ v.queue = Tail(w.queue) /\ v.visited = w.visited
      /\ v.at = Head(w.queue) /\ v.nodes = Append(w.nodes, v.at.id) /\ v.edges = w.edges
      /\ v.known = w.known
  BY DEF Pops
<1>2. QED
  BY <1>1, VisitWalked

LEMMA ConcatElements ==
    ASSUME NEW S, NEW q \in Seq(S), NEW r \in Seq(S), IsInjective(q), IsInjective(r),
           ToSet(q) \cap ToSet(r) = {}
    PROVE  /\ q \o r \in Seq(S) /\ Len(q \o r) = Len(q) + Len(r)
           /\ ToSet(q \o r) = ToSet(q) \cup ToSet(r)
           /\ IsInjective(q \o r)
<1> DEFINE c == q \o r
<1>1. /\ Len(q) \in Nat /\ Len(r) \in Nat /\ c \in Seq(S) /\ Len(c) = Len(q) + Len(r)
      /\ DOMAIN q = 1..Len(q) /\ DOMAIN r = 1..Len(r) /\ DOMAIN c = 1..(Len(q) + Len(r))
      /\ \A k \in DOMAIN q : c[k] = q[k]
      /\ \A k \in DOMAIN r : c[k + Len(q)] = r[k]
  OBVIOUS
<1> HIDE DEF c
<1>2. \A k \in DOMAIN c : k \in DOMAIN q \/ (k - Len(q) \in DOMAIN r /\ c[k] = r[k - Len(q)])
  <2> SUFFICES ASSUME NEW k \in DOMAIN c, k \notin DOMAIN q
               PROVE  k - Len(q) \in DOMAIN r /\ c[k] = r[k - Len(q)]
    OBVIOUS
  <2>1. k - Len(q) \in DOMAIN r /\ (k - Len(q)) + Len(q) = k
    BY <1>1
  <2>2. QED
    BY <1>1, <2>1
<1>3. ToSet(c) = ToSet(q) \cup ToSet(r)
  <2>1. ToSet(c) \subseteq ToSet(q) \cup ToSet(r)
    BY <1>1, <1>2 DEF ToSet
  <2>2. \A k \in DOMAIN q : k \in DOMAIN c
    BY <1>1
  <2>3. \A k \in DOMAIN r : k + Len(q) \in DOMAIN c
    BY <1>1
  <2>4. ToSet(q) \subseteq ToSet(c)
    BY <1>1, <2>2 DEF ToSet
  <2>5. ToSet(r) \subseteq ToSet(c)
    BY <1>1, <2>3 DEF ToSet
  <2>6. QED
    BY <2>1, <2>4, <2>5
<1>4. IsInjective(c)
  <2> SUFFICES ASSUME NEW j \in DOMAIN c, NEW k \in DOMAIN c, c[j] = c[k]
               PROVE  j = k
    BY DEF IsInjective
  <2>1. CASE j \in DOMAIN q /\ k \in DOMAIN q
    BY <1>1, <2>1 DEF IsInjective
  <2>2. CASE j \notin DOMAIN q /\ k \notin DOMAIN q
    <3>1. j - Len(q) = k - Len(q)
      BY <1>2, <2>2 DEF IsInjective
    <3>2. QED
      BY <1>1, <3>1
  <2>3. CASE j \in DOMAIN q /\ k \notin DOMAIN q
    BY <1>1, <1>2, <2>3 DEF ToSet
  <2>4. CASE j \notin DOMAIN q /\ k \in DOMAIN q
    BY <1>1, <1>2, <2>4 DEF ToSet
  <2>5. QED
    BY <2>1, <2>2, <2>3, <2>4
<1>5. QED
  BY <1>1, <1>3, <1>4 DEF c

(* The payments of the account at hand become edges, as far as there is    *)
(* room, and the accounts at their other ends are queued.                  *)
LEMMA ExpandWalked ==
    ASSUME NEW tx, NEW A, Payments(tx, A), NEW h \in Nat \ {0}, NEW l \in Nat, NEW w,
           Walked(w, TRUE, A, tx, h, l),
           NEW taken \in Seq(Nat), IsInjective(taken), NEW new,
           new = {i \in DOMAIN tx : w.at.id \in Ends(tx, i)} \ ToSet(w.edges),
           ToSet(taken) \subseteq new, Len(w.edges) + Len(taken) <= l,
           Len(w.edges) + Len(taken) < l => ToSet(taken) = new,
           NEW N, N \subseteq Names,
           \A i \in ToSet(taken) : \E x \in N : Ends(tx, i) = {w.at.id, x},
           \A x \in N : \E i \in ToSet(taken) : Ends(tx, i) = {w.at.id, x},
           NEW u, u \in WalkType,
           u.root = w.root, u.queue = w.queue, u.visited = w.visited, u.at = w.at,
           u.nodes = w.nodes, u.edges = w.edges \o taken, u.known = w.known,
           NEW v, Extends(u, v, N)
    PROVE  Walked(v, FALSE, A, tx, h, l)
<1>1. PICK q, r, e, n : q = w.queue /\ r = v.queue /\ e = w.at /\ n = Len(w.queue)
  OBVIOUS
<1>2. /\ w.queue = q /\ q \in Seq(QueueEntry) /\ Len(q) = n /\ n \in Nat /\ DOMAIN q = 1..n
      /\ e \in QueueEntry /\ e.id \in Names /\ e.depth \in Nat /\ e.id \in ToSet(w.nodes)
      /\ w.nodes \in Seq(Names) /\ w.visited \subseteq A /\ w.edges \in Seq(Nat)
      /\ w.visited = ToSet(w.nodes) \cup QueueIds(w)
      /\ ToSet(w.nodes) \cap QueueIds(w) = {}
      /\ IsInjective(w.nodes)
      /\ \A j, k \in DOMAIN q : q[j].id = q[k].id => j = k
  <2>1. /\ q \in Seq(QueueEntry) /\ e \in QueueEntry /\ e.id \in ToSet(w.nodes)
        /\ w.nodes \in Seq(Names) /\ w.visited \subseteq A /\ w.edges \in Seq(Nat)
        /\ w.visited = ToSet(w.nodes) \cup QueueIds(w)
        /\ ToSet(w.nodes) \cap QueueIds(w) = {}
        /\ IsInjective(w.nodes)
        /\ \A j, k \in DOMAIN q : q[j].id = q[k].id => j = k
    BY <1>1 DEF Walked, Sorted, WalkType
  <2>2. QED
    BY <1>1, <2>1 DEF QueueEntry
<1>3. /\ v \in WalkType /\ r \in Seq(QueueEntry)
      /\ v.root = w.root /\ v.nodes = w.nodes /\ v.edges = w.edges \o taken /\ v.known = w.known
      /\ v.visited = w.visited \cup N
  BY <1>1 DEF Extends, SameWalk, WalkType
<1>4. /\ Len(r) \in Nat /\ DOMAIN r = 1..Len(r) /\ n <= Len(r)
      /\ \A k \in 1..n : r[k] = q[k]
      /\ \A k \in (n + 1)..Len(r) : r[k].id \in N \ w.visited /\ r[k].depth = e.depth + 1
      /\ \A x \in N \ w.visited : \E k \in (n + 1)..Len(r) : r[k].id = x
      /\ \A j, k \in (n + 1)..Len(r) : r[j].id = r[k].id => j = k
  <2>1. Len(r) \in Nat /\ DOMAIN r = 1..Len(r)
    BY <1>3
  <2>2. Added(u, v) = (n + 1)..Len(r) /\ Len(u.queue) = n
    BY <1>1 DEF Added
  <2>3. QED
    BY <1>1, <2>1, <2>2 DEF Extends
<1>5. /\ \A k \in DOMAIN r : k \in 1..n \/ k \in (n + 1)..Len(r)
      /\ \A k \in 1..n : k \in DOMAIN r /\ k \in DOMAIN q
      /\ \A k \in (n + 1)..Len(r) : k \in DOMAIN r
      /\ \A j, k \in DOMAIN r : j <= k /\ k \in 1..n => j \in 1..n
  BY <1>2, <1>4
<1>6. \A k \in 1..n : r[k].id \in QueueIds(w) /\ r[k].id \in w.visited
  <2>1. QueueIds(w) = {q[k].id : k \in DOMAIN q} /\ QueueIds(w) \subseteq w.visited
    BY <1>1, <1>2 DEF QueueIds
  <2>2. \A k \in 1..n : r[k].id \in {q[j].id : j \in DOMAIN q}
    BY <1>2, <1>4
  <2>3. QED
    BY <2>1, <2>2
<1>7. QueueIds(v) = QueueIds(w) \cup (N \ w.visited)
  <2>1. QueueIds(w) = {q[k].id : k \in DOMAIN q} /\ QueueIds(v) = {r[k].id : k \in DOMAIN r}
    BY <1>1 DEF QueueIds
  <2>2. QueueIds(v) \subseteq QueueIds(w) \cup (N \ w.visited)
    <3>1. ASSUME NEW k \in DOMAIN r
          PROVE  r[k].id \in QueueIds(w) \cup (N \ w.visited)
      BY <1>4, <1>5, <1>6
    <3>2. QED
      BY <2>1, <3>1
  <2>3. QueueIds(w) \subseteq QueueIds(v)
    <3>1. ASSUME NEW k \in DOMAIN q
          PROVE  q[k].id \in {r[j].id : j \in DOMAIN r}
      BY <1>2, <1>4, <1>5
    <3>2. QED
      BY <2>1, <3>1
  <2>4. N \ w.visited \subseteq QueueIds(v)
    <3>1. ASSUME NEW x \in N \ w.visited
          PROVE  x \in {r[j].id : j \in DOMAIN r}
      BY <1>4, <1>5
    <3>2. QED
      BY <2>1, <3>1
  <2>5. QED
    BY <2>2, <2>3, <2>4
<1>8. DOMAIN tx = 1..Len(tx) /\ Len(tx) \in Nat /\ \A i \in DOMAIN tx : Ends(tx, i) \subseteq A
  BY DEF Payments, Between
<1>9. N \subseteq A
  <2>1. ToSet(taken) \subseteq DOMAIN tx
    OBVIOUS
  <2>2. QED
    BY <1>8, <2>1
<1>10. Sorted(v, FALSE, A)
  <2>1. v.visited \subseteq A
    BY <1>2, <1>3, <1>9
  <2>2. v.visited = ToSet(v.nodes) \cup QueueIds(v)
    BY <1>2, <1>3, <1>7
  <2>3. ToSet(v.nodes) \cap QueueIds(v) = {}
    BY <1>2, <1>3, <1>7
  <2>4. \A j, k \in DOMAIN r : r[j].id = r[k].id => j = k
    BY <1>2, <1>4, <1>5, <1>6
  <2>5. w.nodes # <<>> /\ w.nodes[1] = w.root
    <3>1. w.nodes # <<>>
      BY <1>2 DEF ToSet
    <3>2. QED
      BY <3>1 DEF Walked, Sorted
  <2>6. QED
    BY <1>1, <1>2, <1>3, <2>1, <2>2, <2>3, <2>4, <2>5 DEF Sorted
<1>11. /\ w.edges \o taken \in Seq(Nat) /\ Len(w.edges \o taken) = Len(w.edges) + Len(taken)
       /\ ToSet(w.edges \o taken) = ToSet(w.edges) \cup ToSet(taken)
       /\ IsInjective(w.edges \o taken)
  <2>1. PICK edges : edges = w.edges
    OBVIOUS
  <2>2. edges \in Seq(Nat) /\ IsInjective(edges) /\ ToSet(edges) \cap ToSet(taken) = {}
    BY <1>2, <2>1 DEF Walked, Joined
  <2>3. QED
    BY <2>1, <2>2, ConcatElements
<1>12. Joined(v, tx, l)
  <2>1. /\ ToSet(w.edges) \subseteq DOMAIN tx
        /\ \A i \in ToSet(w.edges) : Ends(tx, i) \subseteq w.visited
    BY DEF Walked, Joined
  <2>2. \A i \in ToSet(taken) : i \in DOMAIN tx /\ Ends(tx, i) \subseteq w.visited \cup N
    <3>1. w.at.id \in w.visited
      BY <1>1, <1>2
    <3>2. QED
      BY <3>1
  <2>3. QED
    BY <1>3, <1>11, <2>1, <2>2 DEF Joined
<1>13. /\ \A j, k \in DOMAIN q :
            j <= k => q[j].depth <= q[k].depth /\ q[k].depth <= q[j].depth + 1
       /\ \A k \in DOMAIN q : q[k].depth <= h
       /\ e.depth < h
       /\ \A k \in DOMAIN q : e.depth <= q[k].depth /\ q[k].depth <= e.depth + 1
       /\ \A k \in DOMAIN q : q[k].depth \in Nat
  <2>1. \A k \in DOMAIN q : q[k] \in QueueEntry
    BY <1>2
  <2>2. QED
    BY <1>1, <2>1 DEF Walked, Layered, QueueEntry
<1>14. Layered(v, FALSE, h)
  <2>1. \A j, k \in DOMAIN r :
            j <= k => r[j].depth <= r[k].depth /\ r[k].depth <= r[j].depth + 1
    <3> SUFFICES ASSUME NEW j \in DOMAIN r, NEW k \in DOMAIN r, j <= k
                 PROVE  r[j].depth <= r[k].depth /\ r[k].depth <= r[j].depth + 1
      OBVIOUS
    <3>1. CASE k \in 1..n
      BY <1>2, <1>4, <1>5, <1>13, <3>1
    <3>2. CASE k \in (n + 1)..Len(r) /\ j \in 1..n
      BY <1>2, <1>4, <1>13, <3>2
    <3>3. CASE k \in (n + 1)..Len(r) /\ j \in (n + 1)..Len(r)
      BY <1>2, <1>4, <3>3
    <3>4. QED
      BY <1>5, <3>1, <3>2, <3>3
  <2>2. ASSUME NEW k \in DOMAIN r
        PROVE  r[k].depth <= h
    <3>1. CASE k \in 1..n
      BY <1>4, <1>5, <1>13, <3>1
    <3>2. CASE k \in (n + 1)..Len(r)
      BY <1>2, <1>4, <1>13, <3>2
    <3>3. QED
      BY <1>5, <3>1, <3>2
  <2>3. QED
    BY <1>1, <2>1, <2>2 DEF Layered
<1>15. PICK a, known : a = w.root /\ known = w.known
  OBVIOUS
<1>16. a \in A /\ known \in 0..Len(tx) /\ known \in Nat /\ Len(tx) \in 0..Len(tx)
  <2>1. w.root \in A
    BY RootVisited DEF Walked
  <2>2. w.known \in 0..Len(tx)
    BY DEF Walked, Thorough
  <2>3. QED
    BY <1>8, <1>15, <2>1, <2>2
<1>17. /\ \A j \in Nat : BallOver(tx, a, j + 1, Len(tx)) = Around(tx, BallOver(tx, a, j, Len(tx)), Len(tx))
       /\ \A i, j \in Nat : i <= j => BallOver(tx, a, i, known) \subseteq BallOver(tx, a, j, known)
  <2>1. PICK top : top = Len(tx)
    OBVIOUS
  <2>2. top \in 0..Len(tx)
    BY <1>16, <2>1
  <2>3. \A j \in Nat : BallOver(tx, a, j + 1, top) = Around(tx, BallOver(tx, a, j, top), top)
    BY <1>16, <2>2, PaymentBalls
  <2>4. \A i, j \in Nat : i <= j => BallOver(tx, a, i, known) \subseteq BallOver(tx, a, j, known)
    BY <1>16, PaymentBalls
  <2>5. QED
    BY <2>1, <2>3, <2>4
<1>18. Near(v, FALSE, tx, h)
  <2>1. /\ \A k \in DOMAIN q : q[k].id \in BallOver(tx, a, q[k].depth, Len(tx))
        /\ e.id \in BallOver(tx, a, e.depth, Len(tx))
        /\ ToSet(w.nodes) \subseteq BallOver(tx, a, h, Len(tx))
    BY <1>1, <1>15 DEF Walked, Near
  <2>2. \A x \in N : x \in BallOver(tx, a, e.depth + 1, Len(tx))
    <3> SUFFICES ASSUME NEW x \in N
                 PROVE  x \in Around(tx, BallOver(tx, a, e.depth, Len(tx)), Len(tx))
      BY <1>2, <1>17
    <3>1. PICK i \in ToSet(taken) : Ends(tx, i) = {e.id, x}
      BY <1>1
    <3>2. i \in 1..Len(tx) /\ e.id \in Ends(tx, i) /\ x \in Ends(tx, i)
      BY <1>8, <3>1
    <3>3. Ends(tx, i) \cap BallOver(tx, a, e.depth, Len(tx)) # {}
      BY <2>1, <3>2
    <3>4. QED
      BY <3>2, <3>3 DEF Around
  <2>3. ASSUME NEW k \in DOMAIN r
        PROVE  r[k].id \in BallOver(tx, a, r[k].depth, Len(tx))
    <3>1. CASE k \in 1..n
      BY <1>4, <1>5, <2>1, <3>1
    <3>2. CASE k \in (n + 1)..Len(r)
      <4>1. r[k].id \in N /\ r[k].depth = e.depth + 1
        BY <1>4, <3>2
      <4>2. QED
        BY <2>2, <4>1
    <3>3. QED
      BY <1>5, <3>1, <3>2
  <2>4. QED
    BY <1>1, <1>3, <1>15, <2>1, <2>3 DEF Near
<1>19. Thorough(v, FALSE, tx, h, l)
  <2> SUFFICES ASSUME Len(v.edges) < l
               PROVE  /\ \A k \in DOMAIN r, m \in Nat :
                            m < r[k].depth => r[k].id \notin BallOver(tx, a, m, known)
                      /\ \A x \in ToSet(w.nodes) \cap BallOver(tx, a, h - 1, known) :
                            \A i \in 1..known : x \in Ends(tx, i) => i \in ToSet(v.edges)
    BY <1>1, <1>3, <1>15, <1>16 DEF Thorough, Settled
  <2>1. Len(w.edges) + Len(taken) < l /\ Len(w.edges) < l /\ Len(w.edges) \in Nat
    BY <1>2, <1>3, <1>11
  <2>2. /\ \A k \in DOMAIN q, m \in Nat :
            m < q[k].depth => q[k].id \notin BallOver(tx, a, m, known)
        /\ \A x \in (ToSet(w.nodes) \ {e.id}) \cap BallOver(tx, a, h - 1, known) :
            \A i \in 1..known : x \in Ends(tx, i) => i \in ToSet(w.edges)
    BY <1>1, <1>15, <2>1 DEF Walked, Thorough, Settled
  <2>3. BallOver(tx, a, e.depth, known) \subseteq w.visited
    <3>1. \A k \in DOMAIN w.queue : e.depth <= w.queue[k].depth
      BY <1>1, <1>13
    <3>2. e.depth <= w.at.depth /\ e.depth <= h
      BY <1>1, <1>2, <1>13
    <3>3. BallOver(tx, w.root, e.depth, w.known) \subseteq w.visited
      BY <1>2, <2>1, <3>1, <3>2, BallVisited
    <3>4. QED
      BY <1>15, <3>3
  <2>4. ASSUME NEW k \in DOMAIN r, NEW m \in Nat, m < r[k].depth
        PROVE  r[k].id \notin BallOver(tx, a, m, known)
    <3>1. CASE k \in 1..n
      BY <1>4, <1>5, <2>2, <2>4, <3>1
    <3>2. CASE k \in (n + 1)..Len(r)
      <4>1. m <= e.depth /\ r[k].id \notin w.visited
        BY <1>2, <1>4, <2>4, <3>2
      <4>2. BallOver(tx, a, m, known) \subseteq w.visited
        BY <1>2, <1>17, <2>3, <4>1
      <4>3. QED
        BY <4>1, <4>2
    <3>3. QED
      BY <1>5, <3>1, <3>2
  <2>5. ToSet(v.edges) = ToSet(w.edges) \cup new
    BY <1>3, <1>11, <2>1
  <2>6. \A i \in 1..known : e.id \in Ends(tx, i) => i \in ToSet(v.edges)
    <3>1. \A i \in 1..known : i \in DOMAIN tx
      BY <1>8, <1>16
    <3>2. QED
      BY <1>1, <2>5, <3>1
  <2>7. QED
    BY <2>2, <2>4, <2>5, <2>6
<1>20. QED
  BY <1>10, <1>12, <1>14, <1>18, <1>19 DEF Walked

(* What a walk knows stays true while payments are made and accounts       *)
(* opened.                                                                 *)
LEMMA WalkedStays ==
    ASSUME NEW tx, NEW A, Payments(tx, A), NEW ux, NEW B, Payments(ux, B), A \subseteq B,
           DOMAIN tx \subseteq DOMAIN ux, \A i \in DOMAIN tx : ux[i] = tx[i],
           NEW h \in Nat \ {0}, NEW l \in Nat, NEW w, NEW busy, Walked(w, busy, A, tx, h, l)
    PROVE  Walked(w, busy, B, ux, h, l)
<1>1. PICK a, m, n, known : a = w.root /\ m = Len(tx) /\ n = Len(ux) /\ known = w.known
  OBVIOUS
<1>2. /\ m \in Nat /\ n \in Nat /\ m <= n /\ DOMAIN tx = 1..m /\ DOMAIN ux = 1..n
      /\ Between(tx, m, A) /\ Between(ux, n, B)
  <2>1. m \in Nat /\ n \in Nat /\ DOMAIN tx = 1..m /\ DOMAIN ux = 1..n
    BY <1>1 DEF Payments
  <2>2. m <= n
    <3>1. m = 0 \/ m \in 1..m
      BY <2>1
    <3>2. QED
      BY <2>1, <3>1
  <2>3. QED
    BY <1>1, <2>1, <2>2 DEF Payments
<1>3. a \in A /\ a \in B /\ known \in Nat /\ known <= m
  <2>1. w.root \in A
    BY RootVisited DEF Walked
  <2>2. w.known \in 0..Len(tx)
    BY DEF Walked, Thorough
  <2>3. QED
    BY <1>1, <1>2, <2>1, <2>2
<1>4. Sorted(w, busy, B)
  BY DEF Walked, Sorted
<1>5. Joined(w, ux, l)
  BY DEF Walked, Joined, Ends
<1>6. Layered(w, busy, h)
  BY DEF Walked
<1>7. \A j \in Nat : BallOver(tx, a, j, m) \subseteq BallOver(ux, a, j, n)
  <2> SUFFICES ASSUME NEW j \in Nat
               PROVE  BallOver(tx, a, j, m) \subseteq BallOver(ux, a, j, n)
    OBVIOUS
  <2>1. BallOver(ux, a, j, m) = BallOver(tx, a, j, m)
    BY <1>2, <1>3, BallsStay
  <2>2. BallOver(ux, a, j, m) \subseteq BallOver(ux, a, j, n)
    BY <1>2, <1>3, BallsGrow
  <2>3. QED
    BY <2>1, <2>2
<1>8. \A j \in Nat : BallOver(ux, a, j, known) = BallOver(tx, a, j, known)
  <2> SUFFICES ASSUME NEW j \in Nat
               PROVE  BallOver(ux, a, j, known) = BallOver(tx, a, j, known)
    OBVIOUS
  <2>1. \A i \in 1..known : i \in DOMAIN tx
    BY <1>2, <1>3
  <2>2. Between(tx, known, A) /\ \A i \in 1..known : ux[i] = tx[i]
    BY <1>2, <2>1 DEF Between
  <2>3. QED
    BY <1>3, <2>2, BallsStay
<1>9. /\ \A k \in DOMAIN w.queue : w.queue[k].depth \in Nat
      /\ busy => w.at.depth \in Nat
  <2>1. w.queue \in Seq(QueueEntry) /\ (busy => w.at \in QueueEntry)
    BY DEF Walked, Sorted, WalkType
  <2>2. \A k \in DOMAIN w.queue : w.queue[k] \in QueueEntry
    BY <2>1
  <2>3. QED
    BY <2>1, <2>2 DEF QueueEntry
<1>10. Near(w, busy, ux, h)
  BY <1>1, <1>7, <1>9 DEF Walked, Near
<1>11. Thorough(w, busy, ux, h, l)
  <2>1. \A i \in 1..known : Ends(ux, i) = Ends(tx, i)
    BY <1>2, <1>3 DEF Ends
  <2>2. known \in 0..n
    BY <1>2, <1>3
  <2>3. CASE Len(w.edges) < l
    <3>1. /\ \A k \in DOMAIN w.queue, j \in Nat :
                j < w.queue[k].depth => w.queue[k].id \notin BallOver(ux, a, j, known)
          /\ busy => \A j \in Nat : j < w.at.depth => w.at.id \notin BallOver(ux, a, j, known)
      BY <1>1, <1>8, <2>3 DEF Walked, Thorough
    <3>2. \A x \in Settled(w, busy) \cap BallOver(tx, a, h - 1, known) :
            \A i \in 1..known : x \in Ends(ux, i) => i \in ToSet(w.edges)
      BY <1>1, <2>1, <2>3 DEF Walked, Thorough
    <3>3. Settled(w, busy) \cap BallOver(ux, a, h - 1, known)
            = Settled(w, busy) \cap BallOver(tx, a, h - 1, known)
      <4>1. h - 1 \in Nat
        OBVIOUS
      <4>2. QED
        BY <1>8, <4>1
    <3>4. QED
      BY <1>1, <2>2, <3>1, <3>2, <3>3 DEF Thorough
  <2>4. QED
    BY <1>1, <2>2, <2>3 DEF Thorough
<1>12. QED
  BY <1>4, <1>5, <1>6, <1>10, <1>11 DEF Walked

(* With nothing left to visit, the walk is what was asked for.             *)
LEMMA WalkedExactly ==
    ASSUME NEW tx, NEW A, Payments(tx, A), NEW h \in Nat \ {0}, NEW l \in Nat, NEW w,
           Walked(w, FALSE, A, tx, h, l), w.queue = <<>>
    PROVE  /\ w.nodes # <<>> /\ Head(w.nodes) = w.root /\ ToSet(w.nodes) = w.visited
           /\ w.root \in A
           /\ Len(w.edges) < l =>
                \A i \in 1..w.known :
                    Ends(tx, i) \cap BallOver(tx, w.root, h - 1, w.known) # {} => i \in ToSet(w.edges)
           /\ IsInjective(w.nodes) /\ IsInjective(w.edges)
           /\ ToSet(w.nodes) \subseteq BallOver(tx, w.root, h, Len(tx))
           /\ Len(w.edges) <= l
           /\ \A i \in ToSet(w.edges) : Ends(tx, i) \subseteq ToSet(w.nodes)
<1>1. DOMAIN w.queue = {} /\ QueueIds(w) = {}
  BY DEF QueueIds
<1>2. ToSet(w.nodes) = w.visited /\ w.nodes \in Seq(Names) /\ w.nodes # <<>> /\ w.nodes[1] = w.root
  BY <1>1 DEF Walked, Sorted, WalkType
<1>3. Head(w.nodes) = w.root
  BY <1>2
<1>4. ASSUME Len(w.edges) < l, NEW i \in 1..w.known,
             Ends(tx, i) \cap BallOver(tx, w.root, h - 1, w.known) # {}
      PROVE  i \in ToSet(w.edges)
  <2>1. PICK m : m = h - 1
    OBVIOUS
  <2>2. m \in Nat /\ m <= h
    BY <2>1
  <2>3. BallOver(tx, w.root, m, w.known) \subseteq w.visited
    BY <1>1, <1>4, <2>2, BallVisited
  <2>4. PICK x \in Ends(tx, i) : x \in BallOver(tx, w.root, h - 1, w.known)
    BY <1>4
  <2>5. x \in Settled(w, FALSE)
    BY <1>2, <2>1, <2>3, <2>4 DEF Settled
  <2>6. QED
    BY <1>4, <2>4, <2>5 DEF Walked, Thorough
<1>5. w.root \in A
  BY RootVisited DEF Walked
<1>6. QED
  BY <1>2, <1>3, <1>4, <1>5 DEF Walked, Sorted, Joined, Near

-----------------------------------------------------------------------------
(* The walk of the program.                                                *)

(* The ids an account may be opened under, and roots that none of them but *)
(* themselves may be mistaken for: found by its id in other case, a root   *)
(* is one that no payment names.                                           *)
OpenableIds ==
    UNION {DOMAIN SeedAccounts, ExternalIds,
           {r.suspect : r \in {q \in Requests : q.kind = "complaint"}} \ (Handles \cup {None}),
           {r.number : r \in {q \in Requests : q.kind = "consumer"}}}

RootsDistinct ==
    \A r \in GraphRequests, id \in OpenableIds : Fold[id] = Fold[r.root] => id = r.root

IdsOpenable == DOMAIN accounts \subseteq OpenableIds

LEMMA StepIdsOpenable ==
    ASSUME TypeInv, IdsOpenable, [Next]_vars
    PROVE  IdsOpenable'
<1>1. ASSUME NEW id \in Names, NEW account \in Account, Opens(id, account)
      PROVE  id \in OpenableIds
  <2>1. PICK t \in Threads :
            \/ pc[t] = "provision" /\ id \in ProvisionedIds(req[t])
            \/ pc[t] = "openAccount" /\ id = req[t].number
    BY <1>1 DEF Opens
  <2>2. StepSound(pc[t], req[t], local[t]) /\ req[t] \in Requests \cup {None}
    BY DEF TypeInv, ThreadsSound, ThreadsTypeOK
  <2>3. CASE pc[t] = "openAccount"
    <3>1. req[t] \in RegistrationRequest /\ req[t].kind = "consumer"
      BY <2>2, <2>3 DEF StepSound, ConsumerSteps
    <3>2. req[t] \in Requests
      BY <2>2, <3>1, WorkersAssumption DEF RequestTypes
    <3>3. QED
      BY <2>1, <2>3, <3>1, <3>2 DEF OpenableIds
  <2>4. CASE pc[t] = "provision"
    <3>1. req[t] \in ComplaintRequest /\ req[t].suspect # None
      BY <2>2, <2>4 DEF StepSound, ComplaintSteps
    <3>2. req[t] \in Requests /\ req[t].kind = "complaint"
      BY <2>2, <3>1, WorkersAssumption DEF ComplaintRequest, RequestTypes
    <3>3. QED
      BY <2>1, <2>4, <3>1, <3>2 DEF ProvisionedIds, OpenableIds
  <2>5. QED
    BY <2>1, <2>3, <2>4
<1>2. ASSUME NEW id \in Names, NEW account \in Account, Opens(id, account)
      PROVE  IdsOpenable'
  BY <1>1, <1>2 DEF Opens, CreateAccount, Put, accountVars, IdsOpenable
<1>3. ASSUME NEW s, NEW r, NEW amount, NEW score, Payment(s, r, amount, score)
      PROVE  IdsOpenable'
  BY <1>3 DEF Payment, ExecuteAtomicTransfer, IdsOpenable
<1>4. BooksKept => IdsOpenable'
  BY DEF BooksKept, IdsOpenable
<1>5. QED
  BY <1>2, <1>3, <1>4, BookSteps

Walking == step \in {"visit", "expand"} \/ Answered

WalkInv ==
    /\ step \in {"idle", "ownById", "ownByUpi", "rootById", "rootByUpi", "visit", "expand",
                 "done"}
    /\ IF step = "idle" THEN ask = None ELSE ask \in GraphRequests
    /\ code \in {None, 200, 403, 404}
    /\ IF Walking THEN Walked(walk, step = "expand", DOMAIN accounts, transactions, Hops, Limit)
       ELSE walk = None
    /\ step = "visit" => walk.queue # <<>>
    /\ Answered => walk.queue = <<>>

(* What the walk relies on.                                                *)
StoreInv == TypeInv /\ IndexExact /\ PartiesKnown /\ NamesGiven /\ IdsOpenable

LEMMA StorePayments ==
    ASSUME StoreInv
    PROVE  Payments(transactions, DOMAIN accounts)
<1>1. transactions \in Seq(Transaction) /\ DOMAIN accounts \subseteq Names
  BY DEF StoreInv, TypeInv, StoreTypeOK, LedgerTypeOK, AccountsTypeOK, IsMap
<1>2. Len(transactions) \in Nat /\ DOMAIN transactions = 1..Len(transactions)
  BY <1>1
<1>3. QED
  BY <1>1, <1>2 DEF StoreInv, PartiesKnown, Payments, Between, Ends

LEMMA AskedSizes ==
    ASSUME WalkInv, step # "idle"
    PROVE  Hops \in Nat \ {0} /\ Limit \in Nat
BY GraphAssumption DEF WalkInv, GraphRequest, Hops, Limit, ClampTo

LEMMA StepPayments ==
    ASSUME StoreInv, StoreInv', [Next]_vars
    PROVE  Payments(transactions', DOMAIN accounts')
<1>1. transactions' \in Seq(Transaction) /\ DOMAIN accounts' \subseteq Names
  BY DEF StoreInv, TypeInv, StoreTypeOK, LedgerTypeOK, AccountsTypeOK, IsMap
<1>2. Len(transactions') \in Nat /\ DOMAIN transactions' = 1..Len(transactions')
  BY <1>1
<1>3. QED
  BY <1>1, <1>2 DEF StoreInv, PartiesKnown, Payments, Between, Ends

(* A step of the program.                                                  *)
LEMMA WorkersKeepWalk ==
    ASSUME StoreInv, StoreInv', WalkInv, [Next]_vars, UNCHANGED graphVars
    PROVE  WalkInv'
<1>1. UNCHANGED <<step, ask, walk, code, Hops, Limit>>
  BY DEF graphVars, Hops, Limit
<1>2. CASE ~Walking
  BY <1>1, <1>2 DEF WalkInv, Walking, Answered
<1>3. CASE Walking
  <2>1. PICK tx, ux, A, B, h, l, w, busy :
            /\ tx = transactions /\ ux = transactions'
            /\ A = DOMAIN accounts /\ B = DOMAIN accounts'
            /\ h = Hops /\ l = Limit /\ w = walk /\ busy = (step = "expand")
    OBVIOUS
  <2>2. Payments(tx, A) /\ Payments(ux, B)
    BY <2>1, StorePayments, StepPayments
  <2>3. A \subseteq B /\ DOMAIN tx \subseteq DOMAIN ux /\ \A i \in DOMAIN tx : ux[i] = tx[i]
    BY <2>1, AccountsStay, LedgerGrows DEF StoreInv
  <2>4. h \in Nat \ {0} /\ l \in Nat
    BY <1>3, <2>1, AskedSizes DEF Walking, Answered
  <2>5. Walked(w, busy, A, tx, h, l)
    BY <1>3, <2>1 DEF WalkInv
  <2>6. Walked(w, busy, B, ux, h, l)
    BY <2>2, <2>3, <2>4, <2>5, WalkedStays
  <2>7. Walking' /\ Answered' = Answered
    BY <1>1, <1>3 DEF Walking, Answered
  <2>8. Walked(walk, step = "expand", DOMAIN accounts, transactions, Hops, Limit)'
    BY <1>1, <2>1, <2>6
  <2>9. QED
    BY <1>1, <2>7, <2>8 DEF WalkInv
<1>4. QED
  BY <1>2, <1>3

(* The steps of the walking thread.                                        *)
LEMMA RootAsked ==
    ASSUME WalkInv, UNCHANGED vars,
           (\E r \in GraphRequests : AskForGraph(r)) \/ CheckOwnById \/ CheckOwnByUpi
    PROVE  WalkInv'
<1>1. ~Walking
  BY DEF AskForGraph, CheckOwnById, CheckOwnByUpi, Walking, Answered
<1>2. walk = None
  BY <1>1 DEF WalkInv
<1>3. CASE \E r \in GraphRequests : AskForGraph(r)
  BY <1>2, <1>3 DEF AskForGraph, WalkInv, Walking, Answered
<1>4. CASE CheckOwnById \/ CheckOwnByUpi
  <2>1. /\ walk' = None /\ ask' = ask /\ ask \in GraphRequests
        /\ \/ step' \in {"ownByUpi", "rootById"} /\ code' = code
           \/ step' = "done" /\ code' = 403
    BY <1>2, <1>4 DEF WalkInv, CheckOwnById, CheckOwnByUpi, GoTo, GraphReply
  <2>2. QED
    BY <2>1 DEF WalkInv, Walking, Answered
<1>5. QED
  BY <1>3, <1>4

LEMMA RootFound ==
    ASSUME RootsDistinct, StoreInv, WalkInv, UNCHANGED vars, FindRootById \/ FindRootByUpi
    PROVE  WalkInv'
<1>1. /\ step \in {"rootById", "rootByUpi"} /\ ask \in GraphRequests
      /\ UNCHANGED <<accounts, transactions>>
  BY DEF WalkInv, FindRootById, FindRootByUpi, vars, storeVars, accountVars, ledgerVars
<1>2. walk = None
  BY <1>1 DEF WalkInv, Walking, Answered
<1>3. ASSUME NEW a \in DOMAIN accounts, BeginWalk(a)
      PROVE  WalkInv'
  <2>1. PICK tx, A, h, l, w :
            /\ tx = transactions /\ A = DOMAIN accounts /\ h = Hops /\ l = Limit
            /\ w = NewWalk(a)
    OBVIOUS
  <2>2. Payments(tx, A) /\ h \in Nat \ {0} /\ l \in Nat
    BY <1>1, <2>1, StorePayments, AskedSizes
  <2>3. Walked(w, FALSE, A, tx, h, l) /\ w.queue # <<>>
    <3>1. w = [root |-> a, queue |-> <<[id |-> a, depth |-> 0]>>, visited |-> {a},
               at |-> None, nodes |-> <<>>, edges |-> <<>>, known |-> Len(tx)]
      BY <2>1 DEF NewWalk
    <3>2. a \in A
      BY <2>1
    <3>3. QED
      BY <2>2, <3>1, <3>2, BeginWalked
  <2>4. step' = "visit" /\ walk' = w /\ UNCHANGED <<ask, code, Hops, Limit>>
    BY <1>3, <2>1 DEF BeginWalk, Hops, Limit
  <2>5. Walking' /\ ~Answered'
    BY <2>4 DEF Walking, Answered
  <2>6. Walked(walk, step = "expand", DOMAIN accounts, transactions, Hops, Limit)'
    BY <1>1, <2>1, <2>3, <2>4
  <2>7. QED
    BY <1>1, <2>3, <2>4, <2>5, <2>6 DEF WalkInv
<1>4. CASE FindRootById
  <2>1. CASE FindAccountById(ask.root) = {}
    BY <1>1, <1>2, <1>4, <2>1 DEF FindRootById, GoTo, WalkInv, Walking, Answered
  <2>2. CASE FindAccountById(ask.root) # {}
    <3>1. PICK a \in DOMAIN accounts : a = ask.root \/ Fold[a] = Fold[ask.root]
      BY <2>2 DEF FindAccountById
    <3>2. a = ask.root
      BY <1>1, <3>1 DEF StoreInv, IdsOpenable, RootsDistinct
    <3>3. BeginWalk(a)
      BY <1>4, <2>2, <3>2 DEF FindRootById
    <3>4. QED
      BY <1>3, <3>3
  <2>3. QED
    BY <2>1, <2>2
<1>5. CASE FindRootByUpi
  <2>1. CASE \E a \in FindAccountByUpi(ask.root) : BeginWalk(a)
    BY <1>3, <2>1, FindAccountByUpiType
  <2>2. CASE GraphReply(404) /\ UNCHANGED walk
    BY <1>1, <1>2, <2>2 DEF GraphReply, WalkInv, Walking, Answered
  <2>3. QED
    BY <1>5, <2>1, <2>2 DEF FindRootByUpi
<1>6. QED
  BY <1>4, <1>5

LEMMA WalkContinued ==
    ASSUME WalkInv, UNCHANGED vars, step # "idle", NEW w, ContinueWalk(w),
           Walked(w, FALSE, DOMAIN accounts, transactions, Hops, Limit)
    PROVE  WalkInv'
<1>1. PICK tx, A, h, l : tx = transactions /\ A = DOMAIN accounts /\ h = Hops /\ l = Limit
  OBVIOUS
<1>2. /\ walk' = w /\ UNCHANGED <<ask, accounts, transactions, Hops, Limit>>
      /\ \/ w.queue = <<>> /\ step' = "done" /\ code' = 200
         \/ w.queue # <<>> /\ step' = "visit" /\ code' = code
  BY DEF ContinueWalk, GraphReply, Hops, Limit, vars, storeVars, accountVars, ledgerVars
<1>3. Walked(w, FALSE, A, tx, h, l)
  BY <1>1
<1>4. Walked(walk, step = "expand", DOMAIN accounts, transactions, Hops, Limit)'
  BY <1>1, <1>2, <1>3
<1>5. Walking'
  BY <1>2 DEF Walking, Answered
<1>6. QED
  BY <1>2, <1>4, <1>5 DEF WalkInv, Answered

LEMMA NodeVisited ==
    ASSUME StoreInv, WalkInv, UNCHANGED vars, VisitNode
    PROVE  WalkInv'
<1>1. PICK tx, A, h, l, old, e :
        /\ tx = transactions /\ A = DOMAIN accounts /\ h = Hops /\ l = Limit
        /\ old = walk /\ e = Head(walk.queue)
  OBVIOUS
<1>2. /\ step = "visit" /\ ask \in GraphRequests /\ code \in {None, 200, 403, 404}
      /\ UNCHANGED <<accounts, transactions>>
      /\ Walked(old, FALSE, A, tx, h, l) /\ old.queue # <<>>
  BY <1>1 DEF VisitNode, WalkInv, Walking, vars, storeVars, accountVars, ledgerVars
<1>3. Payments(tx, A) /\ h \in Nat \ {0} /\ l \in Nat
  BY <1>1, <1>2, StorePayments, AskedSizes
<1>4. old \in WalkType /\ old.visited \subseteq A /\ old.queue \in Seq(QueueEntry)
  BY <1>2 DEF Walked, Sorted, WalkType
<1>5. e \in QueueEntry /\ e.id \in Names /\ Tail(old.queue) \in Seq(QueueEntry)
  <2>1. e \in QueueEntry /\ Tail(old.queue) \in Seq(QueueEntry)
    BY <1>1, <1>2, <1>4
  <2>2. QED
    BY <2>1 DEF QueueEntry
<1>6. e.id \in DOMAIN accounts
  <2>1. 1 \in DOMAIN old.queue /\ e = old.queue[1]
    BY <1>1, <1>2, <1>4
  <2>2. e.id \in QueueIds(old)
    BY <2>1 DEF QueueIds
  <2>3. QED
    BY <1>1, <1>2, <2>2 DEF Walked, Sorted
<1>7. FindAccountById(e.id) = {e.id}
  BY <1>6 DEF FindAccountById, StoreInv, NamesGiven
<1>8. PICK w :
        /\ w = [[[old EXCEPT !.queue = Tail(old.queue)] EXCEPT !.at = e]
                    EXCEPT !.nodes = Append(old.nodes, e.id)]
        /\ IF Expandable(w)
           THEN step' = "expand" /\ walk' = w /\ UNCHANGED <<ask, code>>
           ELSE ContinueWalk(w)
  <2> DEFINE popped == [walk EXCEPT !.queue = Tail(@), !.at = Head(walk.queue)]
  <2>1. PICK nodes \in {Append(walk.nodes, a) : a \in FindAccountById(e.id)}
                            \cup {n \in {walk.nodes} : FindAccountById(e.id) = {}} :
            LET w == [popped EXCEPT !.nodes = nodes]
            IN  IF Expandable(w)
                THEN step' = "expand" /\ walk' = w /\ UNCHANGED <<ask, code>>
                ELSE ContinueWalk(w)
    BY <1>1 DEF VisitNode
  <2>2. nodes = Append(old.nodes, e.id)
    BY <1>1, <1>7, <2>1
  <2>3. popped = [[old EXCEPT !.queue = Tail(old.queue)] EXCEPT !.at = e]
    BY <1>1
  <2> HIDE DEF popped
  <2>4. QED
    BY <2>1, <2>2, <2>3
<1>9. /\ w \in WalkType
      /\ w.root = old.root /\ w.queue = Tail(old.queue) /\ w.visited = old.visited
      /\ w.at = e /\ w.nodes = Append(old.nodes, e.id) /\ w.edges = old.edges
      /\ w.known = old.known
  <2>1. PICK q, nodes : q = Tail(old.queue) /\ nodes = Append(old.nodes, e.id)
    OBVIOUS
  <2>2. q \in Seq(QueueEntry) /\ nodes \in Seq(Names)
    BY <1>4, <1>5, <2>1 DEF WalkType
  <2>3. w = [[[old EXCEPT !.queue = q] EXCEPT !.at = e] EXCEPT !.nodes = nodes]
    BY <1>8, <2>1
  <2>4. /\ w \in WalkType
        /\ w.root = old.root /\ w.queue = q /\ w.visited = old.visited
        /\ w.at = e /\ w.nodes = nodes /\ w.edges = old.edges /\ w.known = old.known
    BY <1>4, <1>5, <2>2, <2>3 DEF WalkType
  <2>5. QED
    BY <2>1, <2>4
<1>10. /\ w.at.depth < h => Walked(w, TRUE, A, tx, h, l)
       /\ ~(w.at.depth < h /\ Len(w.edges) < l) => Walked(w, FALSE, A, tx, h, l)
  <2>1. Pops(old, w)
    BY <1>1, <1>9 DEF Pops
  <2>2. Payments(tx, A) /\ h \in Nat \ {0} /\ l \in Nat
    BY <1>3
  <2>3. Walked(old, FALSE, A, tx, h, l) /\ old.queue # <<>>
    BY <1>2
  <2>4. w.at.depth < h => Walked(w, TRUE, A, tx, h, l)
    BY ONLY <2>1, <2>2, <2>3, PopWalked
  <2>5. ~(w.at.depth < h /\ Len(w.edges) < l) => Walked(w, FALSE, A, tx, h, l)
    BY ONLY <2>1, <2>2, <2>3, PopWalked
  <2>6. QED
    BY <2>4, <2>5
<1>11. CASE Expandable(w)
  <2>1. step' = "expand" /\ walk' = w /\ UNCHANGED <<ask, code, Hops, Limit>>
    BY <1>8, <1>11 DEF Hops, Limit
  <2>2. Walked(w, TRUE, A, tx, h, l)
    BY <1>1, <1>10, <1>11 DEF Expandable
  <2>3. Walked(walk, step = "expand", DOMAIN accounts, transactions, Hops, Limit)'
    BY <1>1, <1>2, <2>1, <2>2
  <2>4. QED
    BY <1>2, <2>1, <2>3 DEF WalkInv, Walking, Answered
<1>12. CASE ~Expandable(w)
  <2>1. ContinueWalk(w)
    BY <1>8, <1>12
  <2>2. Walked(w, FALSE, A, tx, h, l)
    BY <1>1, <1>10, <1>12 DEF Expandable
  <2>3. Walked(w, FALSE, DOMAIN accounts, transactions, Hops, Limit)
    BY <1>1, <2>2
  <2>4. step # "idle"
    BY <1>2
  <2>5. QED
    BY <2>1, <2>3, <2>4, WalkContinued
<1>13. QED
  BY <1>11, <1>12

(* The payments to take up: all that are new, or as many as there is room  *)
(* for.                                                                    *)
LEMMA FreshIs ==
    ASSUME TypeInv, IndexExact, NEW w \in WalkType, w.at \in QueueEntry, Limit \in Nat,
           Len(w.edges) <= Limit, NEW new,
           new = {i \in DOMAIN transactions : w.at.id \in Ends(transactions, i)} \ ToSet(w.edges)
    PROVE  /\ Fresh(w) \in Seq(Nat) /\ IsInjective(Fresh(w)) /\ ToSet(Fresh(w)) \subseteq new
           /\ Len(w.edges) + Len(Fresh(w)) <= Limit
           /\ Len(w.edges) + Len(Fresh(w)) < Limit => ToSet(Fresh(w)) = new
<1>1. PICK a, seq, X, room :
        /\ a = w.at.id /\ seq = FindTransactionsByAccount(w.at.id)
        /\ X = DOMAIN transactions \ ToSet(w.edges)
        /\ room = Limit - Len(w.edges)
  OBVIOUS
<1>2. a \in Names /\ w.edges \in Seq(Nat)
  BY <1>1 DEF QueueEntry, WalkType
<1>3. room \in Nat /\ Len(w.edges) \in Nat
  BY <1>1, <1>2
<1>4. /\ seq \in Seq(Nat) /\ IsInjective(seq)
      /\ ToSet(seq) = {i \in DOMAIN transactions : a \in Ends(transactions, i)}
  <2>1. seq = txIndex[a] /\ txIndex \in [Names -> Seq(Nat)]
    BY <1>1 DEF FindTransactionsByAccount, TypeInv, StoreTypeOK, LedgerTypeOK
  <2>2. seq \in Seq(Nat)
    BY <1>2, <2>1
  <2>3. /\ ToSet(seq) = {i \in DOMAIN transactions : a \in Ends(transactions, i)}
        /\ \A j, k \in DOMAIN seq : j < k => seq[j] < seq[k]
    BY <1>2, <2>1 DEF IndexExact, Ends
  <2>4. \A j, k \in DOMAIN seq : seq[j] = seq[k] => j = k
    <3> SUFFICES ASSUME NEW j \in DOMAIN seq, NEW k \in DOMAIN seq, seq[j] = seq[k]
                 PROVE  j = k
      OBVIOUS
    <3>1. j \in Nat /\ k \in Nat /\ seq[j] \in Nat /\ seq[k] \in Nat
      BY <2>2
    <3>2. ~(j < k) /\ ~(k < j)
      BY <2>3, <3>1
    <3>3. QED
      BY <3>1, <3>2
  <2>5. QED
    BY <2>2, <2>3, <2>4 DEF IsInjective
<1>5. PICK picked : picked = Picked(seq, X)
  OBVIOUS
<1>6. picked \in Seq(Nat) /\ IsInjective(picked) /\ ToSet(picked) = new
  <2>1. ToSet(picked) = ToSet(seq) \cap X /\ picked \in Seq(Nat) /\ IsInjective(picked)
    BY <1>4, <1>5, PickedIs
  <2>2. ToSet(seq) \cap X = new
    BY <1>1, <1>4
  <2>3. QED
    BY <2>1, <2>2
<1>7. Fresh(w) = IF Len(picked) <= room THEN picked ELSE SubSeq(picked, 1, room)
  BY <1>1, <1>5 DEF Fresh
<1>8. CASE Len(picked) <= room
  <2>1. Fresh(w) = picked
    BY <1>7, <1>8
  <2>2. Len(picked) \in Nat
    BY <1>6
  <2>3. PICK m, n : m = Len(picked) /\ n = Len(w.edges)
    OBVIOUS
  <2>4. n + m <= Limit
    BY <1>1, <1>3, <1>8, <2>2, <2>3
  <2>5. QED
    BY <1>6, <2>1, <2>3, <2>4
<1>9. CASE ~(Len(picked) <= room)
  <2>1. Len(picked) \in Nat /\ room <= Len(picked)
    BY <1>3, <1>6, <1>9
  <2>2. PICK some : some = SubSeq(picked, 1, room)
    OBVIOUS
  <2>3. some \in Seq(Nat) /\ Len(some) = room
    BY <1>3, <1>6, <2>1, <2>2, SubSeqType
  <2>4. \A k \in DOMAIN some : k \in DOMAIN picked /\ some[k] = picked[k]
    BY <1>3, <1>6, <2>1, <2>2
  <2>5. IsInjective(some) /\ ToSet(some) \subseteq new
    BY <1>6, <2>4 DEF IsInjective, ToSet
  <2>6. Len(w.edges) + Len(some) = Limit
    BY <1>1, <1>3, <2>3
  <2>7. QED
    BY <1>7, <1>9, <2>2, <2>3, <2>5, <2>6
<1>10. QED
  BY <1>8, <1>9

LEMMA NodeExpanded ==
    ASSUME StoreInv, WalkInv, UNCHANGED vars, ExpandNode
    PROVE  WalkInv'
<1>1. PICK tx, A, h, l, w, taken :
        /\ tx = transactions /\ A = DOMAIN accounts /\ h = Hops /\ l = Limit
        /\ w = walk /\ taken = Fresh(walk)
  OBVIOUS
<1>2. step = "expand" /\ Walked(w, TRUE, A, tx, h, l)
  BY <1>1 DEF ExpandNode, WalkInv, Walking
<1>3. Payments(tx, A) /\ h \in Nat \ {0} /\ l \in Nat
  BY <1>1, <1>2, StorePayments, AskedSizes
<1>4. /\ w \in WalkType /\ w.at \in QueueEntry /\ w.at.id \in Names
      /\ w.edges \in Seq(Nat) /\ Len(w.edges) <= l
  <2>1. w \in WalkType /\ w.at \in QueueEntry /\ Len(w.edges) <= l
    BY <1>2 DEF Walked, Sorted, Joined
  <2>2. QED
    BY <2>1 DEF WalkType, QueueEntry
<1>5. PICK new : new = {i \in DOMAIN tx : w.at.id \in Ends(tx, i)} \ ToSet(w.edges)
  OBVIOUS
<1>6. /\ taken \in Seq(Nat) /\ IsInjective(taken) /\ ToSet(taken) \subseteq new
      /\ Len(w.edges) + Len(taken) <= l
      /\ Len(w.edges) + Len(taken) < l => ToSet(taken) = new
  <2>1. TypeInv /\ IndexExact
    BY DEF StoreInv
  <2>2. QED
    BY <1>1, <1>3, <1>4, <1>5, <2>1, FreshIs
<1>7. PICK u, edges : edges = w.edges \o taken /\ u = [w EXCEPT !.edges = edges]
  OBVIOUS
<1>8. /\ u \in WalkType
      /\ u.root = w.root /\ u.queue = w.queue /\ u.visited = w.visited /\ u.at = w.at
      /\ u.nodes = w.nodes /\ u.edges = edges /\ u.known = w.known
  <2>1. edges \in Seq(Nat)
    BY <1>4, <1>6, <1>7
  <2>2. QED
    BY <1>4, <1>7, <2>1 DEF WalkType
<1>9. \A i \in new : i \in DOMAIN tx /\ w.at.id \in Ends(tx, i) /\ Ends(tx, i) \subseteq Names
  BY <1>3, <1>5 DEF Payments, Between
<1>10. \A i \in ToSet(taken) :
        Neighbour(i, w.at.id) \in Names /\ Ends(tx, i) = {w.at.id, Neighbour(i, w.at.id)}
  BY <1>1, <1>6, <1>9 DEF Neighbour, Ends
<1>11. PICK v, N : v = Enqueued(u, taken) /\ N = {Neighbour(i, w.at.id) : i \in ToSet(taken)}
  OBVIOUS
<1>12. Extends(u, v, N)
  BY <1>4, <1>6, <1>8, <1>10, <1>11, EnqueuedExtends
<1>13. /\ N \subseteq Names
       /\ \A i \in ToSet(taken) : \E x \in N : Ends(tx, i) = {w.at.id, x}
       /\ \A x \in N : \E i \in ToSet(taken) : Ends(tx, i) = {w.at.id, x}
  BY <1>10, <1>11
<1>14. Walked(v, FALSE, A, tx, h, l)
  BY <1>2, <1>3, <1>5, <1>6, <1>7, <1>8, <1>12, <1>13, ExpandWalked
<1>15. ContinueWalk(v)
  BY <1>1, <1>7, <1>11 DEF ExpandNode
<1>16. Walked(v, FALSE, DOMAIN accounts, transactions, Hops, Limit)
  BY <1>1, <1>14
<1>17. QED
  BY <1>2, <1>15, <1>16, WalkContinued

LEMMA StepWalk ==
    ASSUME RootsDistinct, StoreInv, StoreInv', WalkInv,
           [ReadersNext]_<<vars, graphVars, reportVars>>
    PROVE  WalkInv'
<1>1. CASE UNCHANGED graphVars
  BY <1>1, ReadersStep, WorkersKeepWalk
<1>2. CASE GraphRead /\ UNCHANGED vars
  BY <1>2, RootAsked, RootFound, NodeVisited, NodeExpanded DEF GraphRead, GraphStep
<1>3. QED
  BY <1>1, <1>2 DEF ReadersNext

LEMMA StoreInvHolds ==
    ASSUME SuspectsGiven
    PROVE  Spec => []StoreInv
<1>1. Init => IdsOpenable
  BY DEF Init, StoreInit, IdsOpenable, OpenableIds
<1>2. TypeInv /\ IdsOpenable /\ [Next]_vars => IdsOpenable'
  BY StepIdsOpenable
<1>3. Spec => []IdsOpenable
  BY <1>1, <1>2, TypeInvHolds, PTL DEF Spec
<1>4. TypeInv /\ IndexExact /\ PartiesKnown /\ NamesGiven /\ IdsOpenable => StoreInv
  BY DEF StoreInv
<1>5. QED
  BY <1>3, <1>4, TypeInvHolds, HistoriesExact, PartiesHold, NamesGivenHolds, PTL

LEMMA WalkInvHolds ==
    ASSUME SuspectsGiven, RootsDistinct
    PROVE  ReadersSpec => []WalkInv
<1>1. ReadersInit => WalkInv
  BY DEF ReadersInit, GraphInit, WalkInv, Walking, Answered
<1>2. StoreInv /\ StoreInv' /\ WalkInv /\ [ReadersNext]_<<vars, graphVars, reportVars>>
        => WalkInv'
  BY StepWalk
<1>3. QED
  BY <1>1, <1>2, StoreInvHolds, ReadersOnlyRead, PTL DEF ReadersSpec

(* What an answer shows.                                                   *)
LEMMA AnswerExact ==
    ASSUME StoreInv, WalkInv
    PROVE  EdgesJoinNodes /\ SubgraphExact
<1> SUFFICES ASSUME Answered
             PROVE  EdgesJoinNodes /\ SubgraphExact
  BY DEF EdgesJoinNodes, SubgraphExact
<1>1. PICK tx, A, h, l, w, n :
        /\ tx = transactions /\ A = DOMAIN accounts /\ h = Hops /\ l = Limit
        /\ w = walk /\ n = Len(transactions)
  OBVIOUS
<1>2. step # "idle" /\ Walked(w, FALSE, A, tx, h, l) /\ w.queue = <<>>
  BY <1>1 DEF WalkInv, Walking, Answered
<1>3. Payments(tx, A) /\ h \in Nat \ {0} /\ l \in Nat
  BY <1>1, <1>2, StorePayments, AskedSizes
<1>4. /\ Head(w.nodes) = w.root
      /\ Len(w.edges) < l =>
            \A i \in 1..w.known :
                Ends(tx, i) \cap BallOver(tx, w.root, h - 1, w.known) # {} => i \in ToSet(w.edges)
      /\ IsInjective(w.nodes) /\ IsInjective(w.edges)
      /\ ToSet(w.nodes) \subseteq BallOver(tx, w.root, h, n)
      /\ Len(w.edges) <= l
      /\ \A i \in ToSet(w.edges) : Ends(tx, i) \subseteq ToSet(w.nodes)
  <2>1. Len(tx) = n
    BY <1>1
  <2>2. Walked(w, FALSE, A, tx, h, l) /\ w.queue = <<>>
    BY <1>2
  <2>3. /\ w.nodes # <<>> /\ Head(w.nodes) = w.root /\ ToSet(w.nodes) = w.visited
        /\ w.root \in A
        /\ Len(w.edges) < l =>
              \A i \in 1..w.known :
                  Ends(tx, i) \cap BallOver(tx, w.root, h - 1, w.known) # {} => i \in ToSet(w.edges)
        /\ IsInjective(w.nodes) /\ IsInjective(w.edges)
        /\ ToSet(w.nodes) \subseteq BallOver(tx, w.root, h, Len(tx))
        /\ Len(w.edges) <= l
        /\ \A i \in ToSet(w.edges) : Ends(tx, i) \subseteq ToSet(w.nodes)
    BY ONLY <1>3, <2>2, WalkedExactly, Zenon
  <2>4. QED
    BY <2>1, <2>3
<1>5. EdgesJoinNodes
  BY <1>1, <1>4 DEF EdgesJoinNodes, NodeSet, Ends
<1>6. PICK root, m, k : root = w.root /\ m = h - 1 /\ k = w.known
  OBVIOUS
<1>7. /\ Ball(root, m, k) = BallOver(tx, root, m, k)
      /\ Ball(root, h, n) = BallOver(tx, root, h, n)
  BY <1>1, BallIs
<1>8. SubgraphExact
  BY <1>1, <1>4, <1>6, <1>7 DEF SubgraphExact, NodeSet, Ends
<1>9. QED
  BY <1>5, <1>8

(* Whatever is paid meanwhile, both ends of every edge of a subgraph are   *)
(* among its nodes (GraphEngine::extract_subgraph, graph_engine.cpp:9).    *)
THEOREM SubgraphsJoined ==
    ASSUME SuspectsGiven, RootsDistinct
    PROVE  ReadersSpec => []EdgesJoinNodes
<1>1. StoreInv /\ WalkInv => EdgesJoinNodes
  BY AnswerExact
<1>2. QED
  BY <1>1, StoreInvHolds, WalkInvHolds, ReadersOnlyRead, PTL

(* Every payment known when the walk began that touches an account fewer   *)
(* than Hops payments from the root is in the answer, unless the limit was *)
(* reached; nothing is further away, and nothing is there twice.           *)
THEOREM SubgraphsExact ==
    ASSUME SuspectsGiven, RootsDistinct
    PROVE  ReadersSpec => []SubgraphExact
<1>1. StoreInv /\ WalkInv => SubgraphExact
  BY AnswerExact
<1>2. QED
  BY <1>1, StoreInvHolds, WalkInvHolds, ReadersOnlyRead, PTL

-----------------------------------------------------------------------------
(* The types of the readers, whatever overlaps.                            *)

(* A walk has seen accounts and payments that are there, and has queued no *)
(* account twice.                                                          *)
Traced(w, A, D, l) ==
    /\ w \in WalkType
    /\ ToSet(w.nodes) \subseteq A
    /\ ToSet(w.edges) \subseteq D /\ IsInjective(w.edges) /\ Len(w.edges) <= l
    /\ QueueIds(w) \subseteq w.visited
    /\ \A j, k \in DOMAIN w.queue : w.queue[j].id = w.queue[k].id => j = k

BeforeWalk == {"idle", "ownById", "ownByUpi", "rootById", "rootByUpi"}

WalkTraced ==
    /\ step \in BeforeWalk \cup {"visit", "expand", "done"}
    /\ IF step = "idle" THEN ask = None ELSE ask \in GraphRequests
    /\ code \in {None, 200, 403, 404}
    /\ step \in BeforeWalk => walk = None
    /\ step \in {"visit", "expand"} \/ walk # None =>
            Traced(walk, DOMAIN accounts, DOMAIN transactions, Limit)
    /\ step = "visit" => walk.queue # <<>>
    /\ step = "expand" => walk.at \in QueueEntry

LEMMA LimitType ==
    ASSUME WalkTraced, step # "idle"
    PROVE  Limit \in Nat
BY GraphAssumption DEF WalkTraced, GraphRequest, Limit, ClampTo

LEMMA WorkersKeepTrace ==
    ASSUME TypeInv, WalkTraced, [Next]_vars, UNCHANGED graphVars
    PROVE  WalkTraced'
<1>1. UNCHANGED <<step, ask, walk, code, Limit>>
  BY DEF graphVars, Limit
<1>2. DOMAIN accounts \subseteq DOMAIN accounts' /\ DOMAIN transactions \subseteq DOMAIN transactions'
  BY AccountsStay, LedgerGrows
<1>3. PICK w, A, B, D, E, l :
        /\ w = walk /\ A = DOMAIN accounts /\ B = DOMAIN accounts'
        /\ D = DOMAIN transactions /\ E = DOMAIN transactions' /\ l = Limit
  OBVIOUS
<1>4. Traced(w, A, D, l) => Traced(w, B, E, l)
  BY <1>2, <1>3 DEF Traced
<1>5. step \in {"visit", "expand"} \/ walk # None => Traced(w, B, E, l)
  BY <1>3, <1>4 DEF WalkTraced
<1>6. (step \in {"visit", "expand"} \/ walk # None
          => Traced(walk, DOMAIN accounts, DOMAIN transactions, Limit))'
  BY <1>1, <1>3, <1>5
<1>7. QED
  BY <1>1, <1>6 DEF WalkTraced

LEMMA WalkBegun ==
    ASSUME TypeInv, WalkTraced, UNCHANGED vars,
           \/ \E r \in GraphRequests : AskForGraph(r)
           \/ CheckOwnById \/ CheckOwnByUpi \/ FindRootById \/ FindRootByUpi
    PROVE  WalkTraced'
<1>1. /\ step \in BeforeWalk /\ walk = None
      /\ step # "idle" => ask \in GraphRequests
      /\ code \in {None, 200, 403, 404}
  BY DEF WalkTraced, BeforeWalk, AskForGraph, CheckOwnById, CheckOwnByUpi, FindRootById,
         FindRootByUpi
<1>2. ASSUME walk' = None, step' \in (BeforeWalk \ {"idle"}) \cup {"done"},
             ask' \in GraphRequests, code' \in {None, 200, 403, 404}
      PROVE  WalkTraced'
  BY <1>2 DEF WalkTraced, BeforeWalk
<1>3. CASE \E r \in GraphRequests : AskForGraph(r)
  <2>1. /\ walk' = None /\ step' \in {"rootById", "ownById", "done"}
        /\ ask' \in GraphRequests /\ code' \in {code, 403}
    BY <1>1, <1>3 DEF AskForGraph
  <2>2. QED
    BY <1>1, <1>2, <2>1 DEF BeforeWalk
<1>4. CASE CheckOwnById \/ CheckOwnByUpi
  <2>1. /\ walk' = None /\ step' \in {"ownByUpi", "rootById", "done"}
        /\ ask' = ask /\ step # "idle" /\ code' \in {code, 403}
    BY <1>1, <1>4 DEF CheckOwnById, CheckOwnByUpi, GoTo, GraphReply
  <2>2. QED
    BY <1>1, <1>2, <2>1 DEF BeforeWalk
<1>5. ASSUME NEW root \in Names, BeginWalk(root), step # "idle"
      PROVE  WalkTraced'
  <2>1. PICK w : w = NewWalk(root)
    OBVIOUS
  <2>2. PICK q : q = <<[id |-> root, depth |-> 0]>>
    OBVIOUS
  <2>3. q \in Seq(QueueEntry) /\ Len(q) = 1 /\ DOMAIN q = {1} /\ q[1].id = root
    BY <2>2 DEF QueueEntry
  <2>4. Len(transactions) \in Nat
    BY DEF TypeInv, StoreTypeOK, LedgerTypeOK
  <2>5. /\ w \in WalkType /\ w.queue = q /\ w.visited = {root}
        /\ w.nodes = <<>> /\ w.edges = <<>>
    <3>1. w = [root |-> root, queue |-> q, visited |-> {root}, at |-> None,
               nodes |-> <<>>, edges |-> <<>>, known |-> Len(transactions)]
      BY <2>1, <2>2 DEF NewWalk
    <3>2. <<>> \in Seq(Names) /\ <<>> \in Seq(Nat)
      OBVIOUS
    <3>3. QED
      BY <2>3, <2>4, <3>1, <3>2 DEF WalkType
  <2>6. ToSet(<<>>) = {} /\ IsInjective(<<>>) /\ Len(<<>>) = 0
    BY DEF ToSet, IsInjective
  <2>7. Limit \in Nat
    BY <1>5, LimitType
  <2>8. Traced(w, DOMAIN accounts, DOMAIN transactions, Limit)
    BY <2>3, <2>5, <2>6, <2>7 DEF Traced, QueueIds
  <2>9. step' = "visit" /\ walk' = w /\ UNCHANGED <<ask, code, accounts, transactions, Limit>>
    BY <1>5, <2>1 DEF BeginWalk, Limit, vars, storeVars, accountVars, ledgerVars
  <2>10. Traced(walk, DOMAIN accounts, DOMAIN transactions, Limit)'
    BY <2>8, <2>9
  <2>11. walk'.queue # <<>>
    <3>1. q # <<>>
      BY <2>3
    <3>2. QED
      BY <2>5, <2>9, <3>1
  <2>12. /\ step' = "visit" /\ ask' \in GraphRequests /\ code' \in {None, 200, 403, 404}
    BY <1>1, <1>5, <2>9
  <2>13. QED
    BY <2>10, <2>11, <2>12 DEF WalkTraced, BeforeWalk
<1>6. CASE FindRootById
  <2>1. CASE GoTo("rootByUpi")
    BY <1>1, <1>2, <1>6, <2>1 DEF GoTo, FindRootById, BeforeWalk
  <2>2. CASE BeginWalk(ask.root)
    <3>1. step # "idle"
      BY <1>6 DEF FindRootById
    <3>2. ask.root \in Names
      BY <1>1, <3>1, GraphAssumption DEF GraphRequest
    <3>3. QED
      BY <1>5, <2>2, <3>1, <3>2
  <2>3. QED
    BY <1>6, <2>1, <2>2 DEF FindRootById
<1>7. CASE FindRootByUpi
  <2>1. CASE \E a \in FindAccountByUpi(ask.root) : BeginWalk(a)
    <3>1. PICK a \in DOMAIN accounts : BeginWalk(a)
      BY <2>1, FindAccountByUpiType
    <3>2. a \in Names /\ step # "idle"
      BY <1>7 DEF FindRootByUpi, TypeInv, StoreTypeOK, AccountsTypeOK, IsMap
    <3>3. QED
      BY <1>5, <3>1, <3>2
  <2>2. CASE GraphReply(404) /\ UNCHANGED walk
    BY <1>1, <1>2, <1>7, <2>2 DEF GraphReply, FindRootByUpi
  <2>3. QED
    BY <1>7, <2>1, <2>2 DEF FindRootByUpi
<1>8. QED
  BY <1>3, <1>4, <1>6, <1>7

LEMMA TraceContinued ==
    ASSUME WalkTraced, UNCHANGED vars, step # "idle", NEW w, ContinueWalk(w),
           Traced(w, DOMAIN accounts, DOMAIN transactions, Limit)
    PROVE  WalkTraced'
<1>1. /\ walk' = w /\ UNCHANGED <<ask, accounts, transactions, Limit>>
      /\ \/ step' = "done" /\ code' = 200
         \/ w.queue # <<>> /\ step' = "visit" /\ code' = code
  BY DEF ContinueWalk, GraphReply, Limit, vars, storeVars, accountVars, ledgerVars
<1>2. Traced(walk, DOMAIN accounts, DOMAIN transactions, Limit)'
  BY <1>1
<1>3. QED
  BY <1>1, <1>2 DEF WalkTraced, BeforeWalk

(* The rest of a queue.                                                    *)
LEMMA TailDistinct ==
    ASSUME NEW q \in Seq(QueueEntry), q # <<>>,
           \A j, k \in DOMAIN q : q[j].id = q[k].id => j = k
    PROVE  /\ Tail(q) \in Seq(QueueEntry) /\ Head(q) \in QueueEntry
           /\ \A k \in DOMAIN Tail(q) : k + 1 \in DOMAIN q /\ Tail(q)[k] = q[k + 1]
           /\ \A j, k \in DOMAIN Tail(q) : Tail(q)[j].id = Tail(q)[k].id => j = k
<1>1. /\ Tail(q) \in Seq(QueueEntry) /\ Head(q) \in QueueEntry
      /\ \A k \in DOMAIN Tail(q) : k \in Nat /\ k + 1 \in DOMAIN q /\ Tail(q)[k] = q[k + 1]
  OBVIOUS
<1>2. ASSUME NEW j \in DOMAIN Tail(q), NEW k \in DOMAIN Tail(q), Tail(q)[j].id = Tail(q)[k].id
      PROVE  j = k
  <2>1. j + 1 = k + 1
    BY <1>1, <1>2
  <2>2. QED
    BY <1>1, <2>1
<1>3. QED
  BY <1>1, <1>2

LEMMA VisitTraced ==
    ASSUME TypeInv, WalkTraced, UNCHANGED vars, VisitNode
    PROVE  WalkTraced' /\ walk'.root = walk.root
<1>1. PICK A, D, l, old, e, q :
        /\ A = DOMAIN accounts /\ D = DOMAIN transactions /\ l = Limit
        /\ old = walk /\ e = Head(walk.queue) /\ q = Tail(walk.queue)
  OBVIOUS
<1>2. /\ step = "visit" /\ ask \in GraphRequests /\ code \in {None, 200, 403, 404}
      /\ UNCHANGED <<accounts, transactions>>
      /\ Traced(old, A, D, l) /\ old.queue # <<>>
  BY <1>1 DEF VisitNode, WalkTraced, vars, storeVars, accountVars, ledgerVars
<1>3. /\ old \in WalkType /\ old.queue \in Seq(QueueEntry) /\ old.nodes \in Seq(Names)
      /\ \A j, k \in DOMAIN old.queue : old.queue[j].id = old.queue[k].id => j = k
  BY <1>2 DEF Traced, WalkType
<1>4. /\ q \in Seq(QueueEntry) /\ e \in QueueEntry
      /\ \A k \in DOMAIN q : k + 1 \in DOMAIN old.queue /\ q[k] = old.queue[k + 1]
      /\ \A j, k \in DOMAIN q : q[j].id = q[k].id => j = k
  <2>1. q = Tail(old.queue) /\ e = Head(old.queue)
    BY <1>1
  <2>2. /\ Tail(old.queue) \in Seq(QueueEntry) /\ Head(old.queue) \in QueueEntry
        /\ \A k \in DOMAIN Tail(old.queue) :
                k + 1 \in DOMAIN old.queue /\ Tail(old.queue)[k] = old.queue[k + 1]
        /\ \A j, k \in DOMAIN Tail(old.queue) :
                Tail(old.queue)[j].id = Tail(old.queue)[k].id => j = k
    <3> DEFINE queue == old.queue
    <3>1. queue \in Seq(QueueEntry) /\ queue # <<>>
      BY <1>2, <1>3
    <3>2. \A j, k \in DOMAIN queue : queue[j].id = queue[k].id => j = k
      BY <1>3
    <3> HIDE DEF queue
    <3>3. QED
      BY ONLY <3>1, <3>2, TailDistinct DEF queue
  <2>3. QED
    BY ONLY <2>1, <2>2
<1>5. FindAccountById(e.id) \subseteq A /\ A \subseteq Names
  BY <1>1, <1>4, FindAccountByIdType DEF QueueEntry, TypeInv, StoreTypeOK, AccountsTypeOK, IsMap
<1>6. PICK nodes, w :
        /\ \/ nodes = old.nodes
           \/ \E a \in A : nodes = Append(old.nodes, a)
        /\ w = [[[old EXCEPT !.queue = q] EXCEPT !.at = e] EXCEPT !.nodes = nodes]
        /\ IF Expandable(w)
           THEN step' = "expand" /\ walk' = w /\ UNCHANGED <<ask, code>>
           ELSE ContinueWalk(w)
  <2> DEFINE popped == [walk EXCEPT !.queue = Tail(@), !.at = Head(walk.queue)]
  <2>1. PICK nodes \in {Append(walk.nodes, a) : a \in FindAccountById(e.id)}
                            \cup {n \in {walk.nodes} : FindAccountById(e.id) = {}} :
            LET w == [popped EXCEPT !.nodes = nodes]
            IN  IF Expandable(w)
                THEN step' = "expand" /\ walk' = w /\ UNCHANGED <<ask, code>>
                ELSE ContinueWalk(w)
    BY <1>1 DEF VisitNode
  <2>2. nodes = old.nodes \/ \E a \in A : nodes = Append(old.nodes, a)
    BY <1>1, <1>5, <2>1
  <2>3. popped = [[old EXCEPT !.queue = q] EXCEPT !.at = e]
    BY <1>1
  <2> HIDE DEF popped
  <2>4. QED
    BY <2>1, <2>2, <2>3
<1>7. nodes \in Seq(Names) /\ ToSet(nodes) \subseteq A
  <2>1. ToSet(old.nodes) \subseteq A
    BY <1>2 DEF Traced
  <2>2. CASE nodes = old.nodes
    BY <1>3, <2>1, <2>2
  <2>3. CASE \E a \in A : nodes = Append(old.nodes, a)
    <3>1. PICK a \in A : nodes = Append(old.nodes, a)
      BY <2>3
    <3>2. QED
      BY <1>3, <1>5, <2>1, <3>1, AppendElements
  <2>4. QED
    BY <1>6, <2>2, <2>3
<1>8. /\ w \in WalkType
      /\ w.queue = q /\ w.visited = old.visited /\ w.at = e /\ w.nodes = nodes
      /\ w.edges = old.edges /\ w.root = old.root
  BY <1>3, <1>4, <1>6, <1>7 DEF WalkType
<1>9. QueueIds(w) \subseteq w.visited
  <2>1. QueueIds(old) \subseteq old.visited
    BY <1>2 DEF Traced
  <2>2. QED
    BY <1>4, <1>8, <2>1 DEF QueueIds
<1>10. Traced(w, A, D, l)
  BY <1>2, <1>4, <1>7, <1>8, <1>9 DEF Traced
<1>11. CASE Expandable(w)
  <2>1. step' = "expand" /\ walk' = w /\ UNCHANGED <<ask, code, Limit>>
    BY <1>6, <1>11 DEF Limit
  <2>2. Traced(walk, DOMAIN accounts, DOMAIN transactions, Limit)'
    BY <1>1, <1>2, <1>10, <2>1
  <2>3. walk'.root = walk.root
    BY <1>1, <1>8, <2>1
  <2>4. QED
    BY <1>2, <1>4, <1>8, <2>1, <2>2, <2>3 DEF WalkTraced, BeforeWalk
<1>12. CASE ~Expandable(w)
  <2>1. ContinueWalk(w) /\ step # "idle"
    BY <1>2, <1>6, <1>12
  <2>2. Traced(w, DOMAIN accounts, DOMAIN transactions, Limit)
    BY <1>1, <1>10
  <2>3. walk'.root = walk.root
    BY <1>1, <1>8, <2>1 DEF ContinueWalk
  <2>4. QED
    BY <2>1, <2>2, <2>3, TraceContinued
<1>13. QED
  BY <1>11, <1>12

LEMMA ExpandTraced ==
    ASSUME TypeInv, IndexExact, WalkTraced, UNCHANGED vars, ExpandNode
    PROVE  WalkTraced' /\ walk'.root = walk.root
<1>1. PICK tx, A, D, l, w, taken, a :
        /\ tx = transactions /\ A = DOMAIN accounts /\ D = DOMAIN transactions /\ l = Limit
        /\ w = walk /\ taken = Fresh(walk) /\ a = walk.at.id
  OBVIOUS
<1>2. step = "expand" /\ Traced(w, A, D, l) /\ w.at \in QueueEntry /\ l \in Nat
  <2>1. step = "expand"
    BY DEF ExpandNode
  <2>2. QED
    BY <1>1, <2>1, LimitType DEF WalkTraced
<1>3. /\ w \in WalkType /\ a \in Names /\ w.edges \in Seq(Nat) /\ IsInjective(w.edges)
      /\ Len(w.edges) <= l /\ ToSet(w.edges) \subseteq D
      /\ w.queue \in Seq(QueueEntry)
  BY <1>1, <1>2 DEF Traced, WalkType, QueueEntry
<1>4. \A i \in D : Ends(tx, i) \subseteq Names
  <2>1. tx \in Seq(Transaction)
    BY <1>1 DEF TypeInv, StoreTypeOK, LedgerTypeOK
  <2>2. \A i \in D : tx[i] \in Transaction
    BY <1>1, <2>1
  <2>3. QED
    BY <2>2 DEF Ends, Transaction
<1>5. PICK new : new = {i \in D : a \in Ends(tx, i)} \ ToSet(w.edges)
  OBVIOUS
<1>6. /\ taken \in Seq(Nat) /\ IsInjective(taken) /\ ToSet(taken) \subseteq new
      /\ Len(w.edges) + Len(taken) <= l
  BY <1>1, <1>2, <1>3, <1>5, FreshIs
<1>7. PICK u, edges : edges = w.edges \o taken /\ u = [w EXCEPT !.edges = edges]
  OBVIOUS
<1>8. /\ edges \in Seq(Nat) /\ Len(edges) <= l /\ IsInjective(edges)
      /\ ToSet(edges) \subseteq D
  <2>1. ToSet(w.edges) \cap ToSet(taken) = {}
    BY <1>5, <1>6
  <2>2. /\ edges \in Seq(Nat) /\ Len(edges) = Len(w.edges) + Len(taken)
        /\ ToSet(edges) = ToSet(w.edges) \cup ToSet(taken) /\ IsInjective(edges)
    BY <1>3, <1>6, <1>7, <2>1, ConcatElements
  <2>3. QED
    BY <1>3, <1>5, <1>6, <2>2
<1>9. /\ u \in WalkType
      /\ u.queue = w.queue /\ u.visited = w.visited /\ u.at = w.at
      /\ u.nodes = w.nodes /\ u.edges = edges /\ u.root = w.root
  BY <1>3, <1>7, <1>8 DEF WalkType
<1>10. \A i \in ToSet(taken) : Neighbour(i, a) \in Names
  BY <1>1, <1>4, <1>5, <1>6 DEF Neighbour, Ends
<1>11. PICK v, N : v = Enqueued(u, taken) /\ N = {Neighbour(i, a) : i \in ToSet(taken)}
  OBVIOUS
<1>12. Extends(u, v, N)
  BY <1>1, <1>2, <1>6, <1>9, <1>10, <1>11, EnqueuedExtends
<1>13. PICK q, r, m : q = u.queue /\ r = v.queue /\ m = Len(u.queue)
  OBVIOUS
<1>14. /\ q \in Seq(QueueEntry) /\ m \in Nat /\ DOMAIN q = 1..m
       /\ r \in Seq(QueueEntry) /\ DOMAIN r = 1..Len(r) /\ Len(r) \in Nat /\ m <= Len(r)
       /\ v \in WalkType /\ v.at = w.at /\ v.nodes = w.nodes /\ v.edges = edges
       /\ v.visited = w.visited \cup N
       /\ \A k \in 1..m : r[k] = q[k]
       /\ \A k \in (m + 1)..Len(r) : r[k].id \in N \ w.visited
       /\ \A j, k \in (m + 1)..Len(r) : r[j].id = r[k].id => j = k
  <2>1. q \in Seq(QueueEntry)
    BY <1>3, <1>9, <1>13
  <2>2. v \in WalkType /\ r \in Seq(QueueEntry)
    BY <1>12, <1>13 DEF Extends, WalkType
  <2>3. QED
    BY <1>9, <1>12, <1>13, <2>1, <2>2 DEF Extends, SameWalk, Added
<1>15. /\ \A k \in 1..m : q[k].id \in w.visited
       /\ \A j, k \in 1..m : q[j].id = q[k].id => j = k
  <2>1. w.queue = q /\ DOMAIN q = 1..m
    BY <1>9, <1>13, <1>14
  <2>2. /\ {q[k].id : k \in DOMAIN q} \subseteq w.visited
        /\ \A j, k \in DOMAIN q : q[j].id = q[k].id => j = k
    BY <1>2, <2>1 DEF Traced, QueueIds
  <2>3. QED
    BY <2>1, <2>2
<1>16. \A k \in 1..Len(r) : k \in 1..m \/ k \in (m + 1)..Len(r)
  BY <1>14
<1>17. QueueIds(v) \subseteq v.visited
  <2>1. \A k \in DOMAIN r : r[k].id \in w.visited \cup N
    BY <1>14, <1>15, <1>16
  <2>2. QED
    BY <1>13, <1>14, <2>1 DEF QueueIds
<1>18. \A j, k \in DOMAIN r : r[j].id = r[k].id => j = k
  BY <1>14, <1>15, <1>16
<1>19. Traced(v, A, D, l)
  <2>1. ToSet(v.nodes) \subseteq A
    BY <1>2, <1>14 DEF Traced
  <2>2. QED
    BY <1>8, <1>13, <1>14, <1>17, <1>18, <2>1 DEF Traced
<1>20. ContinueWalk(v)
  BY <1>1, <1>7, <1>11 DEF ExpandNode
<1>21. Traced(v, DOMAIN accounts, DOMAIN transactions, Limit)
  BY <1>1, <1>19
<1>22. walk'.root = walk.root
  BY <1>1, <1>9, <1>12, <1>20 DEF Extends, SameWalk, ContinueWalk
<1>23. QED
  BY <1>2, <1>20, <1>21, <1>22, TraceContinued

LEMMA StepTrace ==
    ASSUME TypeInv, IndexExact, WalkTraced, [ReadersNext]_<<vars, graphVars, reportVars>>
    PROVE  WalkTraced'
<1>1. CASE UNCHANGED graphVars
  BY <1>1, ReadersStep, WorkersKeepTrace
<1>2. CASE GraphRead /\ UNCHANGED vars
  BY <1>2, WalkBegun, VisitTraced, ExpandTraced DEF GraphRead, GraphStep
<1>3. QED
  BY <1>1, <1>2 DEF ReadersNext

LEMMA WalkTracedHolds == ReadersSpec => []WalkTraced
<1>1. ReadersInit => WalkTraced
  BY DEF ReadersInit, GraphInit, WalkTraced, BeforeWalk
<1>2. TypeInv /\ IndexExact /\ WalkTraced /\ [ReadersNext]_<<vars, graphVars, reportVars>>
        => WalkTraced'
  BY StepTrace
<1>3. QED
  BY <1>1, <1>2, TypeInvHolds, HistoriesExact, ReadersOnlyRead, PTL DEF ReadersSpec

-----------------------------------------------------------------------------
(* What a page has copied.                                                 *)

Stages ==
    {"idle", "recipientOtherwise", "complaintsAbout", "velocity", "flags", "answered",
     "suspectById", "suspectByUpi", "filer", "recipient", "payment", "payments", "accounts",
     "users", "complaints", "complaint"}

(* A copied account is one, the payments found flagged are among those     *)
(* copied, and no more accounts are frozen, or listed, than there are.     *)
Copied(p) ==
    /\ p.account \in SnapshotType \cup {None}
    /\ p.flagged \subseteq ToSet(p.payments)
    /\ p.frozen <= p.accounts /\ p.listed <= p.accounts

PageTyped ==
    /\ stage \in Stages
    /\ query \in ReportRequests \cup {None}
    /\ result \in {None, 200, 400, 403, 404}
    /\ Copied(page)
    /\ stage # "answered" => page.listed = 0

AccountsFinite == IsFiniteSet(DOMAIN accounts)

LEMMA StepAccountsFinite ==
    ASSUME TypeInv, AccountsFinite, [Next]_vars
    PROVE  AccountsFinite'
<1>0. IsMap(accounts, Names, Account)
  BY DEF TypeInv, StoreTypeOK, AccountsTypeOK
<1>1. ASSUME NEW id, NEW account, Opens(id, account)
      PROVE  AccountsFinite'
  <2>1. DOMAIN accounts' \in {DOMAIN accounts, DOMAIN accounts \cup {id}}
    BY <1>1 DEF Opens, CreateAccount, Put, accountVars
  <2>2. QED
    BY <2>1, FS_AddElement DEF AccountsFinite
<1>2. ASSUME NEW s, NEW r, NEW amount, NEW score, Payment(s, r, amount, score)
      PROVE  AccountsFinite'
  BY <1>2 DEF Payment, ExecuteAtomicTransfer, Debit, Credit, AccountsFinite
<1>3. BooksKept => AccountsFinite'
  BY DEF BooksKept, AccountsFinite
<1>4. QED
  BY <1>1, <1>2, <1>3, BookSteps

LEMMA AccountsFiniteHolds == Spec => []AccountsFinite
<1>1. Init => AccountsFinite
  BY StoreAssumption DEF Init, StoreInit, AccountsFinite
<1>2. TypeInv /\ AccountsFinite /\ [Next]_vars => AccountsFinite'
  BY StepAccountsFinite
<1>3. QED
  BY <1>1, <1>2, TypeInvHolds, PTL DEF Spec

(* The three ways in which a step of a report ends.                        *)
LEMMA PageTurned ==
    ASSUME PageTyped, query \in ReportRequests, NEW p, Copied(p), NEW next \in Stages \ {"answered"}
    PROVE  /\ p.listed = 0 /\ Read(next, p) => PageTyped'
           /\ Show(p) => PageTyped'
           /\ \A status \in {400, 403, 404} : Refuse(status) => PageTyped'
<1>1. "answered" \in Stages
  BY DEF Stages
<1>2. ASSUME p.listed = 0, Read(next, p)
      PROVE  PageTyped'
  <2>1. stage' = next /\ page' = p /\ query' = query /\ result' = result
    BY <1>2 DEF Read
  <2>2. Copied(page)'
    BY <2>1 DEF Copied
  <2>3. QED
    BY <1>2, <2>1, <2>2 DEF PageTyped
<1>3. ASSUME Show(p)
      PROVE  PageTyped'
  <2>1. stage' = "answered" /\ page' = p /\ query' = query /\ result' = 200
    BY <1>3 DEF Show
  <2>2. Copied(page)'
    BY <2>1 DEF Copied
  <2>3. QED
    BY <1>1, <2>1, <2>2 DEF PageTyped
<1>4. ASSUME NEW status \in {400, 403, 404}, Refuse(status)
      PROVE  PageTyped'
  <2>1. stage' = "answered" /\ page' = page /\ query' = query /\ result' = status
    BY <1>4 DEF Refuse
  <2>2. Copied(page)'
    BY <2>1 DEF PageTyped, Copied
  <2>3. QED
    BY <1>1, <2>1, <2>2 DEF PageTyped
<1>5. QED
  BY <1>2, <1>3, <1>4

LEMMA RecipientTyped ==
    ASSUME TypeInv, PageInv, PageTyped,
           \/ FindRecipient \/ FindRecipientOtherwise \/ CountComplaintsAbout \/ CheckVelocity
    PROVE  PageTyped'
<1>1. /\ page = [f \in PageFields |-> page[f]]
      /\ query \in ReportRequests /\ query \in ReportRequest /\ query.kind = "verify"
      /\ Copied(page) /\ page.listed = 0
      /\ AccountsTypeOK
  BY ReportAssumption
  DEF PageInv, PageSound, Routed, PageTyped, FindRecipient, FindRecipientOtherwise,
      CountComplaintsAbout, CheckVelocity, TypeInv, StoreTypeOK
<1>2. {"recipientOtherwise", "complaintsAbout", "velocity"} \subseteq Stages \ {"answered"}
  BY DEF Stages
<1>3. ASSUME NEW a \in DOMAIN accounts, FoundRecipient(a)
      PROVE  PageTyped'
  <2>1. PICK copy, known : copy = Snapshot(a) /\ known = Len(transactions)
    OBVIOUS
  <2>2. PICK p : p = [page EXCEPT !.account = copy, !.known = known]
    OBVIOUS
  <2>3. copy \in SnapshotType
    BY <1>1, <2>1, SnapshotOK
  <2>4. /\ p.account = copy /\ p.flagged = page.flagged /\ p.payments = page.payments
        /\ p.frozen = page.frozen /\ p.accounts = page.accounts /\ p.listed = page.listed
    BY <1>1, <2>2 DEF PageFields
  <2>5. Copied(p) /\ p.listed = 0
    BY <1>1, <2>3, <2>4 DEF Copied
  <2>6. Read("complaintsAbout", p)
    BY <1>3, <2>1, <2>2 DEF FoundRecipient
  <2>7. QED
    BY <1>1, <1>2, <2>5, <2>6, PageTurned
<1>4. FoundFirst \cup FoundNext \subseteq DOMAIN accounts
  <2>1. query.name \in Names
    BY <1>1 DEF ReportRequest
  <2>2. QED
    BY <1>1, <2>1, FindAccountByIdType, FindAccountByUpiType DEF FoundFirst, FoundNext
<1>5. CASE FindRecipient
  <2>1. \/ Refuse(400) \/ Read("recipientOtherwise", page)
        \/ \E a \in FoundFirst : FoundRecipient(a)
    BY <1>5 DEF FindRecipient
  <2>2. QED
    BY <1>1, <1>2, <1>3, <1>4, <2>1, PageTurned
<1>6. CASE FindRecipientOtherwise
  <2>1. Refuse(404) \/ \E a \in FoundNext : FoundRecipient(a)
    BY <1>6 DEF FindRecipientOtherwise
  <2>2. QED
    BY <1>1, <1>2, <1>3, <1>4, <2>1, PageTurned
<1>7. CASE CountComplaintsAbout
  <2>1. PICK p :
            /\ \/ \E tally : p = [page EXCEPT !.tally = tally]
               \/ \E tally, reasons : p = [page EXCEPT !.tally = tally, !.reasons = reasons]
            /\ Read("velocity", p) \/ Show(p)
    BY <1>7 DEF CountComplaintsAbout
  <2>2. \/ \E tally : p = [page EXCEPT !.tally = tally]
        \/ \E tally, reasons : p = [page EXCEPT !.tally = tally, !.reasons = reasons]
    BY <2>1
  <2>3. /\ p.account = page.account /\ p.flagged = page.flagged /\ p.payments = page.payments
        /\ p.frozen = page.frozen /\ p.accounts = page.accounts /\ p.listed = page.listed
    BY <1>1, <2>2 DEF PageFields
  <2>4. Copied(p) /\ p.listed = 0
    BY <1>1, <2>3 DEF Copied
  <2>5. Read("velocity", p) \/ Show(p)
    BY <2>1
  <2>6. QED
    BY <1>1, <1>2, <2>4, <2>5, PageTurned
<1>8. CASE CheckVelocity
  <2>1. PICK reasons : Show([page EXCEPT !.reasons = reasons])
    BY <1>8 DEF CheckVelocity
  <2>2. PICK p : p = [page EXCEPT !.reasons = reasons]
    OBVIOUS
  <2>3. /\ p.account = page.account /\ p.flagged = page.flagged /\ p.payments = page.payments
        /\ p.frozen = page.frozen /\ p.accounts = page.accounts /\ p.listed = page.listed
    BY <1>1, <2>2 DEF PageFields
  <2>4. Copied(p)
    BY <1>1, <2>3 DEF Copied
  <2>5. QED
    BY <1>1, <1>2, <2>1, <2>2, <2>4, PageTurned
<1>9. QED
  BY <1>5, <1>6, <1>7, <1>8

LEMMA PaymentsTyped ==
    ASSUME TypeInv, PageInv, PageTyped, FindPayment \/ ListPayments \/ LookUpFlag
    PROVE  PageTyped'
<1>1. /\ page = [f \in PageFields |-> page[f]]
      /\ query \in ReportRequests /\ Copied(page) /\ page.listed = 0
      /\ page.payments \in Seq(DOMAIN transactions)
  BY DEF PageInv, PageSound, Routed, PageTyped, FindPayment, ListPayments, LookUpFlag
<1>2. "flags" \in Stages \ {"answered"}
  BY DEF Stages
<1>3. CASE FindPayment
  <2>1. PICK payments :
            Refuse(403) \/ Refuse(404) \/ Read("flags", [page EXCEPT !.payments = payments])
    BY <1>3 DEF FindPayment
  <2>2. PICK p : p = [page EXCEPT !.payments = payments]
    OBVIOUS
  <2>3. page.flagged = {}
    BY <1>3 DEF FindPayment, PageInv, FlagsRead, BeforePayments
  <2>4. /\ p.account = page.account /\ p.flagged = page.flagged
        /\ p.frozen = page.frozen /\ p.accounts = page.accounts /\ p.listed = page.listed
    BY <1>1, <2>2 DEF PageFields
  <2>5. Copied(p) /\ p.listed = 0
    BY <1>1, <2>3, <2>4 DEF Copied
  <2>6. Refuse(403) \/ Refuse(404) \/ Read("flags", p)
    BY <2>1, <2>2
  <2>7. QED
    BY <1>1, <1>2, <2>5, <2>6, PageTurned
<1>4. CASE ListPayments
  <2>1. PICK listed, held :
            LET seen == [page EXCEPT !.payments = listed, !.held = held]
            IN  Show(seen) \/ Read("flags", seen)
    BY <1>4 DEF ListPayments
  <2>2. PICK p : p = [page EXCEPT !.payments = listed, !.held = held]
    OBVIOUS
  <2>3. page.flagged = {}
    BY <1>4 DEF ListPayments, PageInv, FlagsRead, BeforePayments
  <2>4. /\ p.account = page.account /\ p.flagged = page.flagged
        /\ p.frozen = page.frozen /\ p.accounts = page.accounts /\ p.listed = page.listed
    BY <1>1, <2>2 DEF PageFields
  <2>5. Copied(p) /\ p.listed = 0
    BY <1>1, <2>3, <2>4 DEF Copied
  <2>6. Show(p) \/ Read("flags", p)
    BY <2>1, <2>2
  <2>7. QED
    BY <1>1, <1>2, <2>5, <2>6, PageTurned
<1>5. CASE LookUpFlag
  <2>1. PICK i, found, p :
            /\ i = page.payments[page.at] /\ found = FindFlag(page.payments[page.at])
            /\ p = [page EXCEPT !.flagged = @ \cup found, !.at = @ + 1]
    OBVIOUS
  <2>2. page.at \in 1..Len(page.payments)
    BY <1>5 DEF LookUpFlag, PageInv, FlagsRead
  <2>3. found \subseteq ToSet(page.payments)
    <3>1. page.at \in DOMAIN page.payments
      BY <1>1, <2>2
    <3>2. i \in ToSet(page.payments)
      BY <2>1, <3>1 DEF ToSet
    <3>3. QED
      BY <2>1, <3>2 DEF FindFlag
  <2>4. /\ p.account = page.account /\ p.flagged = page.flagged \cup found
        /\ p.payments = page.payments
        /\ p.frozen = page.frozen /\ p.accounts = page.accounts /\ p.listed = page.listed
    BY <1>1, <2>1 DEF PageFields
  <2>5. Copied(p) /\ p.listed = 0
    BY <1>1, <2>3, <2>4 DEF Copied
  <2>6. Show(p) \/ Read("flags", p)
    BY <1>5, <2>1 DEF LookUpFlag
  <2>7. QED
    BY <1>1, <1>2, <2>5, <2>6, PageTurned
<1>6. QED
  BY <1>3, <1>4, <1>5

LEMMA PageSizeBound ==
    ASSUME NEW q, q.offset \in Nat, q.limit \in Nat, NEW total \in Nat
    PROVE  PageSize(q, total) <= total
<1>1. PICK room, offset : room = ClampTo(1, 200, q.limit) /\ offset = q.offset
  OBVIOUS
<1>2. room \in Int
  BY <1>1 DEF ClampTo
<1>3. PageSize(q, total) = IF offset >= total THEN 0 ELSE ClampTo(0, total - offset, room)
  BY <1>1 DEF PageSize
<1>4. QED
  BY <1>1, <1>2, <1>3 DEF ClampTo

LEMMA TotalsTyped ==
    ASSUME TypeInv, AccountsFinite, PageInv, PageTyped, CountUsers \/ CountAccounts
    PROVE  PageTyped'
<1>1. /\ page = [f \in PageFields |-> page[f]]
      /\ query \in ReportRequests /\ query \in ReportRequest
      /\ Copied(page) /\ page.listed = 0
  BY ReportAssumption DEF PageInv, PageSound, Routed, PageTyped, CountUsers, CountAccounts
<1>2. {"accounts", "payments"} \subseteq Stages \ {"answered"}
  BY DEF Stages
<1>3. CASE CountUsers
  <2>1. PICK total, p : p = [page EXCEPT !.users = total] /\ Read("accounts", p)
    BY <1>3 DEF CountUsers
  <2>2. /\ p.account = page.account /\ p.flagged = page.flagged /\ p.payments = page.payments
        /\ p.frozen = page.frozen /\ p.accounts = page.accounts /\ p.listed = page.listed
    BY <1>1, <2>1 DEF PageFields
  <2>3. Copied(p) /\ p.listed = 0
    BY <1>1, <2>2 DEF Copied
  <2>4. QED
    BY <1>1, <1>2, <2>1, <2>3, PageTurned
<1>4. CASE CountAccounts
  <2>1. PICK total, frozen, seen :
            /\ total = Cardinality(DOMAIN accounts)
            /\ frozen = Cardinality({a \in DOMAIN accounts : accounts[a].status = "FROZEN"})
            /\ seen = [page EXCEPT !.accounts = total, !.frozen = frozen]
    OBVIOUS
  <2>2. total \in Nat /\ frozen <= total
    BY <2>1, FS_CardinalityType, FS_Subset DEF AccountsFinite
  <2>3. /\ seen = [f \in PageFields |-> seen[f]]
        /\ seen.account = page.account /\ seen.flagged = page.flagged
        /\ seen.payments = page.payments
        /\ seen.frozen = frozen /\ seen.accounts = total /\ seen.listed = page.listed
    BY <1>1, <2>1 DEF PageFields
  <2>4. Copied(seen) /\ seen.listed = 0
    BY <1>1, <2>2, <2>3 DEF Copied
  <2>5. CASE query.kind # "directory"
    <3>1. Read("payments", seen)
      BY <1>4, <2>1, <2>5 DEF CountAccounts
    <3>2. QED
      BY <1>1, <1>2, <2>4, <3>1, PageTurned
  <2>6. CASE query.kind = "directory"
    <3>1. PICK listed, p :
              /\ listed = PageSize(query, total)
              /\ p = [seen EXCEPT !.listed = listed] /\ Show(p)
      BY <1>4, <2>1, <2>6 DEF CountAccounts
    <3>2. query.offset \in Nat /\ query.limit \in Nat
      BY <1>1, <2>6 DEF ReportRequest
    <3>3. listed <= total
      BY <2>2, <3>1, <3>2, PageSizeBound
    <3>4. /\ p.account = seen.account /\ p.flagged = seen.flagged
          /\ p.payments = seen.payments
          /\ p.frozen = frozen /\ p.accounts = total /\ p.listed = listed
      BY <2>3, <3>1 DEF PageFields
    <3>5. Copied(p)
      BY <2>2, <2>4, <3>3, <3>4 DEF Copied
    <3>6. QED
      BY <1>1, <1>2, <3>1, <3>5, PageTurned
  <2>7. QED
    BY <2>5, <2>6
<1>5. QED
  BY <1>3, <1>4

LEMMA CasesTyped ==
    ASSUME PageInv, PageTyped,
           ListCases \/ FindCase \/ FindCaseSuspect \/ FindCaseSuspectByUpi \/ FindFiler
    PROVE  PageTyped'
<1>1. /\ page = [f \in PageFields |-> page[f]]
      /\ query \in ReportRequests /\ Copied(page) /\ page.listed = 0
  BY DEF PageInv, PageSound, Routed, PageTyped, ListCases, FindCase, FindCaseSuspect,
         FindCaseSuspectByUpi, FindFiler
<1>2. {"suspectById", "suspectByUpi", "filer"} \subseteq Stages \ {"answered"}
  BY DEF Stages
<1>3. ASSUME NEW p, NEW next \in {"suspectById", "suspectByUpi", "filer"},
             Read(next, p) \/ Show(p),
             p.account = page.account, p.flagged = page.flagged, p.payments = page.payments,
             p.frozen = page.frozen, p.accounts = page.accounts, p.listed = page.listed
      PROVE  PageTyped'
  <2>1. Copied(p) /\ p.listed = 0
    BY <1>1, <1>3 DEF Copied
  <2>2. QED
    BY <1>1, <1>2, <1>3, <2>1, PageTurned
<1>4. CASE ListCases
  <2>1. PICK cases, p : p = [page EXCEPT !.cases = cases] /\ (Read("suspectById", p) \/ Show(p))
    BY <1>4 DEF ListCases
  <2>2. QED
    BY <1>1, <1>3, <2>1 DEF PageFields
<1>5. CASE FindCase
  <2>1. CASE Refuse(404)
    BY <1>1, <1>2, <2>1, PageTurned
  <2>2. CASE \E cases : Read("suspectById", [page EXCEPT !.cases = cases])
    <3>1. PICK cases, p : p = [page EXCEPT !.cases = cases] /\ Read("suspectById", p)
      BY <2>2
    <3>2. QED
      BY <1>1, <1>3, <3>1 DEF PageFields
  <2>3. QED
    BY <1>5, <2>1, <2>2 DEF FindCase
<1>6. CASE FindCaseSuspect \/ FindCaseSuspectByUpi
  <2>1. CASE Read("suspectByUpi", page)
    BY <1>3, <2>1
  <2>2. CASE \E a : Read("filer", ShowSuspect(a))
    <3>1. PICK shown, p : p = [page EXCEPT !.shown = shown] /\ Read("filer", p)
      BY <2>2 DEF ShowSuspect
    <3>2. QED
      BY <1>1, <1>3, <3>1 DEF PageFields
  <2>3. QED
    BY <1>6, <2>1, <2>2 DEF FindCaseSuspect, FindCaseSuspectByUpi
<1>7. CASE FindFiler
  <2>1. PICK u, p :
            /\ p = [page EXCEPT !.shown[page.at].filer = u, !.at = @ + 1]
            /\ Read("suspectById", p) \/ Show(p)
    BY <1>7 DEF FindFiler
  <2>2. QED
    BY <1>1, <1>3, <2>1 DEF PageFields
<1>8. QED
  BY <1>4, <1>5, <1>6, <1>7

LEMMA StepTyped ==
    ASSUME TypeInv, AccountsFinite, PageInv, PageTyped,
           [ReadersNext]_<<vars, graphVars, reportVars>>
    PROVE  PageTyped'
<1>1. CASE UNCHANGED reportVars
  BY <1>1 DEF reportVars, PageTyped, Copied
<1>2. ASSUME NEW q \in ReportRequests, AskForReport(q)
      PROVE  PageTyped'
  <2>1. q \in ReportRequest
    BY ReportAssumption
  <2>2. /\ stage = "idle" /\ stage' \in Stages \ {"answered"}
        /\ query' = q /\ UNCHANGED <<page, result>>
    BY <1>2, <2>1 DEF AskForReport, FirstRead, ReportRequest, Stages
  <2>3. QED
    BY <2>2 DEF PageTyped, Copied
<1>3. CASE ReportStep
  BY <1>3, RecipientTyped, PaymentsTyped, TotalsTyped, CasesTyped DEF ReportStep
<1>4. QED
  BY <1>1, <1>2, <1>3 DEF ReadersNext, ReportRead

LEMMA PageTypedHolds == ReadersSpec => []PageTyped
<1>1. ReadersInit => PageTyped
  BY DEF ReadersInit, ReportInit, NewPage, PageTyped, Copied, Stages
<1>2. TypeInv /\ AccountsFinite /\ PageInv /\ PageTyped
        /\ [ReadersNext]_<<vars, graphVars, reportVars>> => PageTyped'
  BY StepTyped
<1>3. QED
  BY <1>1, <1>2, TypeInvHolds, AccountsFiniteHolds, PageInvHolds, ReadersOnlyRead, PTL
  DEF ReadersSpec

(* However requests overlap, a walk and a report keep their types: what    *)
(* they have copied exists, no account is queued twice, and nothing was    *)
(* looked up that was not copied.                                          *)
THEOREM ReadersTypeCorrect == ReadersSpec => []ReadersTypeOK
<1>1. WalkTraced => GraphTypeOK
  <2> SUFFICES ASSUME WalkTraced
               PROVE  GraphTypeOK
    OBVIOUS
  <2>1. /\ step \in {"idle", "ownById", "ownByUpi", "rootById", "rootByUpi", "visit", "expand",
                     "done"}
        /\ ask \in GraphRequests \cup {None} /\ code \in {None, 200, 403, 404}
    BY DEF WalkTraced, BeforeWalk
  <2>2. ASSUME walk # None
        PROVE  /\ walk.visited \subseteq Names
               /\ NodeSet \subseteq DOMAIN accounts
               /\ ToSet(walk.edges) \subseteq DOMAIN transactions
               /\ {e.id : e \in ToSet(walk.queue)} \subseteq walk.visited
               /\ IsInjective([k \in DOMAIN walk.queue |-> walk.queue[k].id])
    <3>1. Traced(walk, DOMAIN accounts, DOMAIN transactions, Limit)
      BY <2>2 DEF WalkTraced
    <3>2. walk.visited \subseteq Names
      BY <3>1 DEF Traced, WalkType
    <3>3. {e.id : e \in ToSet(walk.queue)} \subseteq walk.visited
      BY <3>1 DEF Traced, QueueIds, ToSet
    <3>4. IsInjective([k \in DOMAIN walk.queue |-> walk.queue[k].id])
      BY <3>1 DEF Traced, IsInjective
    <3>5. QED
      BY <3>1, <3>2, <3>3, <3>4 DEF Traced, NodeSet
  <2>3. QED
    BY <2>1, <2>2 DEF GraphTypeOK
<1>2. PageTyped /\ PageInv /\ CasesRead /\ GraphTypeOK => ReadersTypeOK
  <2> SUFFICES ASSUME PageTyped, PageInv, CasesRead, GraphTypeOK
               PROVE  ReadersTypeOK
    OBVIOUS
  <2>1. stage \in {"idle", "recipientOtherwise", "complaintsAbout", "velocity", "flags",
                   "answered", "suspectById", "suspectByUpi", "filer"}
                    \cup {FirstRead[k] : k \in DOMAIN FirstRead}
    <3>1. /\ FirstRead["verify"] = "recipient" /\ FirstRead["transaction"] = "payment"
          /\ FirstRead["history"] = "payments" /\ FirstRead["metrics"] = "accounts"
          /\ FirstRead["audit"] = "users" /\ FirstRead["cases"] = "complaints"
          /\ FirstRead["case"] = "complaint"
          /\ {"verify", "transaction", "history", "metrics", "audit", "cases", "case"}
                \subseteq DOMAIN FirstRead
      BY DEF FirstRead
    <3>2. {"recipient", "payment", "payments", "accounts", "users", "complaints", "complaint"}
            \subseteq {FirstRead[k] : k \in DOMAIN FirstRead}
      BY <3>1
    <3>3. QED
      BY <3>2 DEF PageTyped, Stages
  <2>2. ToSet(page.payments) \subseteq DOMAIN transactions
    BY DEF PageInv, PageSound, ToSet
  <2>3. page.cases \in Seq(Complaint) /\ Len(page.shown) <= Len(page.cases)
    <3>1. /\ page.cases \in Seq(Complaint) /\ page.shown \in Seq(CaseEntry)
          /\ Len(page.cases) \in Nat /\ Len(page.shown) \in Nat
      BY DEF CasesRead
    <3>2. CASE stage \notin SuspectStages \cup {"filer", "answered"}
      BY <3>1, <3>2 DEF CasesRead
    <3>3. CASE stage \in SuspectStages \cup {"filer", "answered"}
      BY <3>1, <3>3 DEF CasesRead, SuspectStages
    <3>4. QED
      BY <3>2, <3>3
  <2>4. QED
    BY <2>1, <2>2, <2>3 DEF ReadersTypeOK, PageTyped, Copied
<1>3. QED
  BY <1>1, <1>2, WalkTracedHolds, PageTypedHolds, PageInvHolds, CasesHold, PTL

-----------------------------------------------------------------------------
(* A consumer's own subgraph.                                              *)

(* Every consumer that asks has an account that is there from the start,   *)
(* and asks for a root that has no other spelling, is no account opened    *)
(* later, and does not merely resemble the consumer's handle.              *)
OwnRootsPlain ==
    \A r \in GraphRequests : r.role = "consumer" /\ r.caller # None =>
        /\ r.caller \in DOMAIN SeedAccounts
        /\ \A n \in Names : Fold[n] = Fold[r.root] => n = r.root
        /\ r.root \in OpenableIds => r.root \in DOMAIN SeedAccounts
        /\ <<r.root, SeedAccounts[r.caller].upi>> \notin Overlaps

HandlesOfSeeds ==
    \A a \in DOMAIN SeedAccounts :
        a \in DOMAIN accounts /\ accounts[a].upi = SeedAccounts[a].upi

LEMMA HandlesOfSeedsHold == Spec => []HandlesOfSeeds
<1>1. Init => HandlesOfSeeds
  BY DEF Init, StoreInit, HandlesOfSeeds
<1>2. TypeInv /\ SeedsInv /\ HandlesOfSeeds /\ [Next]_vars => HandlesOfSeeds'
  BY OpensNoSeed, HandleKept DEF HandlesOfSeeds, Reopened
<1>3. QED
  BY <1>1, <1>2, TypeInvHolds, SeedsHold, PTL DEF Spec

(* A handle that is indexed leads to the same account ever after.          *)
LEMMA IndexStays ==
    ASSUME TypeInv, [Next]_vars, NEW u \in DOMAIN upiIndex
    PROVE  u \in DOMAIN upiIndex' /\ upiIndex'[u] = upiIndex[u]
<1>1. ASSUME NEW id, NEW account, Opens(id, account)
      PROVE  u \in DOMAIN upiIndex' /\ upiIndex'[u] = upiIndex[u]
  BY <1>1 DEF Opens, CreateAccount, Put, accountVars
<1>2. ASSUME NEW s, NEW r, NEW amount, NEW score, Payment(s, r, amount, score)
      PROVE  upiIndex' = upiIndex
  BY <1>2 DEF Payment, ExecuteAtomicTransfer
<1>3. BooksKept => upiIndex' = upiIndex
  BY DEF BooksKept
<1>4. QED
  BY <1>1, <1>2, <1>3, BookSteps

(* The handle asked for is indexed, and leads to the consumer.             *)
RootLeads == ask.root \in DOMAIN upiIndex /\ upiIndex[ask.root] = ask.caller

OwnRoot ==
    step # "idle" /\ ask.role = "consumer" /\ (step = "done" => code = 200) =>
        /\ ask.caller # None
        /\ step = "ownByUpi" => ask.root \notin DOMAIN SeedAccounts
        /\ step = "rootById" =>
            ask.root = ask.caller \/ (ask.root \notin DOMAIN SeedAccounts /\ RootLeads)
        /\ step = "rootByUpi" => RootLeads
        /\ step \in {"visit", "expand", "done"} => walk.root = ask.caller

(* What the lookups of the root rely on.                                   *)
RootsInv == TypeInv /\ AccountsReachable /\ IdsOpenable /\ HandlesOfSeeds

LEMMA WorkersKeepRoot ==
    ASSUME TypeInv, OwnRoot, [Next]_vars, UNCHANGED graphVars
    PROVE  OwnRoot'
<1>1. UNCHANGED <<step, ask, walk, code>>
  BY DEF graphVars
<1>2. RootLeads => RootLeads'
  BY <1>1, IndexStays DEF RootLeads
<1>3. QED
  BY <1>1, <1>2 DEF OwnRoot

(* The route's lookups.                                                    *)
LEMMA OwnRootChecked ==
    ASSUME OwnRootsPlain, RootsInv, WalkTraced, OwnRoot, UNCHANGED vars,
           \/ \E r \in GraphRequests : AskForGraph(r)
           \/ CheckOwnById \/ CheckOwnByUpi
    PROVE  OwnRoot'
<1>1. CASE \E r \in GraphRequests : AskForGraph(r)
  BY <1>1 DEF AskForGraph, OwnRoot
<1>2. CASE CheckOwnById \/ CheckOwnByUpi
  <2>1. /\ ask' = ask /\ ask \in GraphRequests /\ ask.root \in Names
        /\ step' = "done" => code' = 403
        /\ UNCHANGED <<accounts, upiIndex>>
    BY <1>2, GraphAssumption
    DEF CheckOwnById, CheckOwnByUpi, GoTo, GraphReply, WalkTraced, GraphRequest, vars, storeVars,
        accountVars
  <2>2. SUFFICES ASSUME ask.role = "consumer", step' # "done"
                 PROVE  OwnRoot'
    BY <2>1 DEF OwnRoot
  <2>3. /\ ask.caller \in DOMAIN SeedAccounts /\ ask.caller \in Names /\ ask.caller # None
        /\ ask.caller \in DOMAIN accounts
        /\ accounts[ask.caller].upi = SeedAccounts[ask.caller].upi
        /\ accounts[ask.caller].upi \in Names /\ accounts[ask.caller].upi # Empty
        /\ \A n \in Names : Fold[n] = Fold[ask.root] => n = ask.root
        /\ <<ask.root, accounts[ask.caller].upi>> \notin Overlaps
    <3>1. ask.caller # None
      BY <1>2, <2>2 DEF OwnRoot, CheckOwnById, CheckOwnByUpi
    <3>2. ask.caller \in DOMAIN SeedAccounts
      BY <2>1, <2>2, <3>1 DEF OwnRootsPlain
    <3>3. SeedAccounts[ask.caller].upi \in Names /\ SeedAccounts[ask.caller].upi # Empty
      BY <3>2, StoreAssumption DEF Account
    <3>4. ask.caller \in Names
      BY <3>2, StoreAssumption
    <3>5. ask.caller \in DOMAIN accounts /\ accounts[ask.caller].upi = SeedAccounts[ask.caller].upi
      BY <3>2 DEF RootsInv, HandlesOfSeeds
    <3>6. QED
      BY <2>1, <2>2, <3>1, <3>2, <3>3, <3>4, <3>5 DEF OwnRootsPlain
  <2>4. CASE CheckOwnById
    <3>1. CASE FindAccountById(ask.root) = {} /\ GoTo("ownByUpi")
      <4>1. ASSUME ask.root \in DOMAIN SeedAccounts
            PROVE  FALSE
        <5>1. ask.root \in DOMAIN accounts /\ ask.root # Empty
          BY <4>1, StoreAssumption DEF RootsInv, HandlesOfSeeds
        <5>2. QED
          BY <3>1, <5>1 DEF FindAccountById
      <4>2. step' = "ownByUpi"
        BY <3>1 DEF GoTo
      <4>3. QED
        BY <2>1, <2>3, <4>1, <4>2 DEF OwnRoot
    <3>2. CASE ask.caller \in FindAccountById(ask.root) /\ GoTo("rootById")
      <4>1. ask.caller = ask.root
        BY <2>3, <3>2 DEF FindAccountById
      <4>2. step' = "rootById"
        BY <3>2 DEF GoTo
      <4>3. QED
        BY <2>1, <2>3, <4>1, <4>2 DEF OwnRoot
    <3>3. QED
      BY <2>2, <2>4, <3>1, <3>2 DEF CheckOwnById, GraphReply
  <2>5. CASE CheckOwnByUpi
    <3>1. /\ ask.caller \in FindAccountByUpi(ask.root) /\ step' = "rootById"
          /\ ask.root \notin DOMAIN SeedAccounts
      BY <2>2, <2>3, <2>5 DEF CheckOwnByUpi, GraphReply, GoTo, OwnRoot
    <3>2. accounts[ask.caller].upi \in DOMAIN upiIndex
          /\ upiIndex[accounts[ask.caller].upi] = ask.caller
      BY <2>3 DEF RootsInv, AccountsReachable
    <3>3. RootLeads \/ ask.root = ask.caller
      <4>1. CASE ask.caller \in UpiExact(ask.root)
        BY <4>1 DEF UpiExact, RootLeads
      <4>2. CASE ask.caller \in UpiFolded(ask.root)
        <5>1. PICK v \in DOMAIN upiIndex : Fold[v] = Fold[ask.root] /\ upiIndex[v] = ask.caller
          BY <4>2 DEF UpiFolded
        <5>2. v \in Names
          BY DEF RootsInv, TypeInv, StoreTypeOK, AccountsTypeOK, IsMap
        <5>3. v = ask.root
          BY <2>3, <5>1, <5>2
        <5>4. QED
          BY <5>1, <5>3 DEF RootLeads
      <4>3. CASE ask.caller \in UpiScanned(ask.root)
        <5>1. \/ Fold[accounts[ask.caller].upi] = Fold[ask.root]
              \/ Fold[ask.caller] = Fold[ask.root]
          BY <4>3 DEF UpiScanned
        <5>2. accounts[ask.caller].upi = ask.root \/ ask.caller = ask.root
          BY <2>3, <5>1
        <5>3. QED
          BY <3>2, <5>2 DEF RootLeads
      <4>4. ask.caller \notin UpiOverlapping(ask.root)
        BY <2>3 DEF UpiOverlapping
      <4>5. QED
        BY <3>1, <4>1, <4>2, <4>3, <4>4 DEF FindAccountByUpi
    <3>4. RootLeads' <=> RootLeads
      BY <2>1 DEF RootLeads
    <3>5. QED
      BY <2>1, <2>3, <3>1, <3>3, <3>4 DEF OwnRoot
  <2>6. QED
    BY <1>2, <2>4, <2>5
<1>3. QED
  BY <1>1, <1>2

(* The engine's lookups find the same account.                             *)
LEMMA OwnRootFound ==
    ASSUME OwnRootsPlain, RootsInv, WalkTraced, OwnRoot, UNCHANGED vars,
           FindRootById \/ FindRootByUpi
    PROVE  OwnRoot'
<1>1. /\ ask' = ask /\ ask \in GraphRequests /\ ask.root \in Names
      /\ code' = 200 => code = 200
      /\ UNCHANGED <<accounts, upiIndex>>
  BY GraphAssumption
  DEF FindRootById, FindRootByUpi, BeginWalk, GoTo, GraphReply, WalkTraced, GraphRequest, vars,
      storeVars, accountVars
<1>2. SUFFICES ASSUME ask.role = "consumer"
               PROVE  OwnRoot'
  BY <1>1 DEF OwnRoot
<1>3. /\ ask.caller # None
      /\ ask.caller \in DOMAIN SeedAccounts /\ ask.caller \in DOMAIN accounts
      /\ ask.caller # Empty
      /\ ask.root \in OpenableIds => ask.root \in DOMAIN SeedAccounts
      /\ \A n \in Names : Fold[n] = Fold[ask.root] => n = ask.root
  <2>1. ask.caller # None
    BY <1>2 DEF FindRootById, FindRootByUpi, OwnRoot
  <2>2. /\ ask.caller \in DOMAIN SeedAccounts
        /\ ask.root \in OpenableIds => ask.root \in DOMAIN SeedAccounts
        /\ \A n \in Names : Fold[n] = Fold[ask.root] => n = ask.root
    BY <1>1, <1>2, <2>1 DEF OwnRootsPlain
  <2>3. ask.caller \in DOMAIN accounts /\ ask.caller # Empty
    BY <2>2, StoreAssumption DEF RootsInv, HandlesOfSeeds
  <2>4. QED
    BY <2>1, <2>2, <2>3
<1>4. ASSUME BeginWalk(ask.caller)
      PROVE  OwnRoot'
  <2>1. step' = "visit" /\ walk' = NewWalk(ask.caller)
    BY <1>4 DEF BeginWalk
  <2>2. walk'.root = ask.caller
    BY <2>1 DEF NewWalk
  <2>3. QED
    BY <1>1, <1>3, <2>1, <2>2 DEF OwnRoot
<1>5. CASE FindRootById
  <2>1. ask.root = ask.caller \/ (ask.root \notin DOMAIN SeedAccounts /\ RootLeads)
    BY <1>2, <1>5 DEF FindRootById, OwnRoot
  <2>2. CASE FindAccountById(ask.root) = {}
    <3>1. ask.root # ask.caller
      BY <1>3, <2>2 DEF FindAccountById
    <3>2. RootLeads' /\ step' = "rootByUpi"
      BY <1>1, <1>5, <2>1, <2>2, <3>1 DEF RootLeads, FindRootById, GoTo
    <3>3. QED
      BY <1>1, <1>3, <3>2 DEF OwnRoot
  <2>3. CASE FindAccountById(ask.root) # {}
    <3>1. PICK a \in DOMAIN accounts : a = ask.root \/ Fold[a] = Fold[ask.root]
      BY <2>3 DEF FindAccountById
    <3>2. a = ask.root
      BY <1>3, <3>1 DEF RootsInv, TypeInv, StoreTypeOK, AccountsTypeOK, IsMap
    <3>3. ask.root \in DOMAIN SeedAccounts
      BY <1>3, <3>2 DEF RootsInv, IdsOpenable
    <3>4. QED
      BY <1>4, <1>5, <2>1, <2>3, <3>3 DEF FindRootById
  <2>4. QED
    BY <2>2, <2>3
<1>6. CASE FindRootByUpi
  <2>1. RootLeads
    BY <1>2, <1>6 DEF FindRootByUpi, OwnRoot
  <2>2. UpiExact(ask.root) = {ask.caller}
    BY <1>3, <2>1 DEF UpiExact, RootLeads
  <2>3. FindAccountByUpi(ask.root) \subseteq {ask.caller}
    BY <2>2 DEF FindAccountByUpi
  <2>4. CASE GraphReply(404)
    BY <1>1, <2>4 DEF GraphReply, OwnRoot
  <2>5. QED
    BY <1>4, <1>6, <2>3, <2>4 DEF FindRootByUpi
<1>7. QED
  BY <1>5, <1>6

LEMMA OwnRootKept ==
    ASSUME OwnRootsPlain, RootsInv, IndexExact, WalkTraced, OwnRoot,
           [ReadersNext]_<<vars, graphVars, reportVars>>
    PROVE  OwnRoot'
<1>1. CASE UNCHANGED graphVars
  BY <1>1, ReadersStep, WorkersKeepRoot DEF RootsInv
<1>2. CASE (VisitNode \/ ExpandNode) /\ UNCHANGED vars
  <2>1. walk'.root = walk.root
    BY <1>2, VisitTraced, ExpandTraced DEF RootsInv
  <2>2. /\ step \in {"visit", "expand"} /\ step' \in {"visit", "expand", "done"} /\ ask' = ask
    BY <1>2 DEF VisitNode, ExpandNode, ContinueWalk, GraphReply
  <2>3. QED
    BY <2>1, <2>2 DEF OwnRoot
<1>3. CASE GraphRead /\ UNCHANGED vars
  BY <1>2, <1>3, OwnRootChecked, OwnRootFound DEF GraphRead, GraphStep
<1>4. QED
  BY <1>1, <1>3 DEF ReadersNext

(* The first node of an answer is the root.                                *)
LEMMA RootShown ==
    ASSUME WalkInv, Answered
    PROVE  Head(walk.nodes) = walk.root
<1>1. Sorted(walk, FALSE, DOMAIN accounts) /\ walk.queue = <<>>
  BY DEF WalkInv, Walking, Answered, Walked
<1>2. walk.nodes # <<>> /\ walk.nodes[1] = walk.root /\ walk.nodes \in Seq(Names)
  BY <1>1 DEF Sorted, WalkType
<1>3. QED
  BY <1>2

(* A consumer is shown no payment and no subgraph but its own: route and   *)
(* engine, which look the root up separately, find the same account.       *)
THEOREM RecordsOwn ==
    ASSUME SuspectsGiven, RootsDistinct, OwnRootsPlain
    PROVE  ReadersSpec => []OwnRecordsOnly
<1>1. Spec => []RootsInv
  <2>1. StoreInv /\ AccountsReachable /\ HandlesOfSeeds => RootsInv
    BY DEF StoreInv, RootsInv
  <2>2. QED
    BY <2>1, StoreInvHolds, HandlesUnique, HandlesOfSeedsHold, PTL
<1>2. ReadersInit => OwnRoot
  BY DEF ReadersInit, GraphInit, OwnRoot
<1>3. RootsInv /\ IndexExact /\ WalkTraced /\ OwnRoot
        /\ [ReadersNext]_<<vars, graphVars, reportVars>> => OwnRoot'
  BY OwnRootKept
<1>4. ReadersSpec => []OwnRoot
  BY <1>1, <1>2, <1>3, HistoriesExact, WalkTracedHolds, ReadersOnlyRead, PTL DEF ReadersSpec
<1>5. WalkInv /\ OwnRoot => OwnSubgraphOnly
  <2> SUFFICES ASSUME WalkInv, OwnRoot, Answered, ask.role = "consumer"
               PROVE  Head(walk.nodes) = ask.caller
    BY DEF OwnSubgraphOnly
  <2>1. walk.root = ask.caller
    BY DEF Answered, OwnRoot
  <2>2. Head(walk.nodes) = walk.root
    BY RootShown
  <2>3. QED
    BY <2>1, <2>2
<1>6. QED
  BY <1>4, <1>5, WalkInvHolds, PaymentsShownOwn, PTL DEF OwnRecordsOnly
=============================================================================
