----------------------------- MODULE RiskRules -----------------------------
(***************************************************************************)
(* The arithmetic of ONYX's fraud rules, as operators.                     *)
(*                                                                         *)
(* Units.  The program keeps money and risk in doubles.  Here money is in  *)
(* mills (1000 to the rupee, 10 to the paisa), so that an amount below one *)
(* paisa can be told from none, and risk is in tenths of a point (885 is   *)
(* 88.5).  Every threshold below is the one in the code, in those units.   *)
(***************************************************************************)
EXTENDS Integers

AccountStatus == {"ACTIVE", "FLAGGED", "FROZEN"}

(* The statuses a payment can end in; the other values of the enumeration  *)
(* only come from the benchmark dataset.                                   *)
PaymentStatus == {"COMPLETED", "FLAGGED", "HELD"}

TransactionStatus == PaymentStatus \cup {"PENDING", "REJECTED"}

MaxRisk == 1000

Clamp(risk) == IF risk < 0 THEN 0 ELSE IF risk > MaxRisk THEN MaxRisk ELSE risk

(* llround(value * 100.0) of a non-negative amount.                        *)
ToCents(mills) == (mills + 5) \div 10

(* The increment a complaint adds to its suspect.                          *)
TaintStep == 250

TaintedRisk(risk, delta) == Clamp(risk + delta)

-----------------------------------------------------------------------------
(* The heuristics of one payment.                                          *)

InflowSurcharge(inflow) == IF inflow >= 1 THEN 150 ELSE 0

DrainSurcharge(risk, amount) ==
    IF risk >= 600 /\ amount >= 10000000 THEN 100 ELSE 0

OutflowSurcharge(balance, amount) ==
    IF balance > 0 /\ 5 * amount >= 4 * balance THEN 100 ELSE 0

(* What FraudDetectionEngine::evaluate_transaction returns for a receiver  *)
(* with this risk, these complaints and this many recorded transactions,   *)
(* paid this amount by a sender with this balance.                         *)
Score(risk, complaintCount, inflow, balance, amount) ==
    Clamp(  risk
          + 200 * complaintCount
          + InflowSurcharge(inflow)
          + DrainSurcharge(risk, amount)
          + OutflowSurcharge(balance, amount))

(* Mutant: only held payments are flagged.                                 *)
VerdictFlagsHeldOnly(score) ==
    [score   |-> score,
     flagged |-> score >= 750,
     status  |-> IF score >= 750 THEN "HELD"
                 ELSE IF score >= 500 THEN "FLAGGED"
                 ELSE "COMPLETED"]

Verdict(score) ==
    [score   |-> score,
     flagged |-> score >= 500,
     status  |-> IF score >= 750 THEN "HELD"
                 ELSE IF score >= 500 THEN "FLAGGED"
                 ELSE "COMPLETED"]

-----------------------------------------------------------------------------
(* The pre-payment check a customer sees.                                  *)

(* A stored risk strictly between 0 and 1 point is read as a probability.  *)
ShownRisk(risk) == Clamp(IF 0 < risk /\ risk < 10 THEN 100 * risk ELSE risk)

(* Mutant: a high risk counts only together with a complaint.              *)
VerifyLevelNeedsComplaint(status, risk, complaintCount) ==
    IF status \in {"FROZEN", "FLAGGED"} \/ ShownRisk(risk) >= 700 \/ complaintCount >= 2
    THEN "CRITICAL"
    ELSE IF ShownRisk(risk) >= 400 /\ complaintCount > 0 THEN "HIGH"
    ELSE IF ShownRisk(risk) >= 200 THEN "MEDIUM"
    ELSE "LOW"

(* Mutant: what the bank decided is believed, the risk is not looked at.   *)
VerifyLevelByStatus(status, risk, complaintCount) ==
    IF status \in {"FROZEN", "FLAGGED"} \/ complaintCount >= 2
    THEN "CRITICAL"
    ELSE IF complaintCount > 0 THEN "HIGH"
    ELSE "LOW"

VerifyLevel(status, risk, complaintCount) ==
    IF status \in {"FROZEN", "FLAGGED"} \/ ShownRisk(risk) >= 700 \/ complaintCount >= 2
    THEN "CRITICAL"
    ELSE IF ShownRisk(risk) >= 400 \/ complaintCount > 0 THEN "HIGH"
    ELSE IF ShownRisk(risk) >= 200 THEN "MEDIUM"
    ELSE "LOW"

SafeToPay(status, risk, complaintCount) ==
    VerifyLevel(status, risk, complaintCount) \in {"LOW", "MEDIUM"}

-----------------------------------------------------------------------------

(* Mutant: a third complaint is needed.                                    *)
StatusAfterThirdComplaint(status, risk, complaintCount) ==
    IF status # "FROZEN" /\ (complaintCount > 2 \/ risk + TaintStep >= 700)
    THEN "FLAGGED"
    ELSE status

(* Mutant: a complaint flags a frozen account too.                         *)
StatusThawedByComplaint(status, risk, complaintCount) ==
    IF complaintCount >= 2 \/ risk + TaintStep >= 700
    THEN "FLAGGED"
    ELSE status

(* The status a complaint writes back, from the suspect as it was read.    *)
StatusAfterComplaint(status, risk, complaintCount) ==
    IF status # "FROZEN" /\ (complaintCount >= 2 \/ risk + TaintStep >= 700)
    THEN "FLAGGED"
    ELSE status
=============================================================================
