------------------------------- MODULE Ledger -------------------------------
(***************************************************************************)
(* What the payment side of ONYX promises, with no threads, lookups or     *)
(* fraud rules: accounts with whole paise, a journal of payments, and a    *)
(* set of frozen accounts.  Money leaves an account only by a journalled   *)
(* payment that the account can cover, and neither party of a payment is   *)
(* frozen; an account is opened once.                                      *)
(***************************************************************************)
EXTENDS Integers, Sequences

CONSTANTS
    Parties,   \* the account ids
    Sums,      \* the sums a payment may move, in paise
    Deposits,  \* the paise an account may be opened with
    Opening    \* the accounts at the start: id -> paise

VARIABLES
    cash,      \* cash[a]: the paise account a can spend
    journal,   \* the payments in the order they were made
    frozen     \* the frozen accounts

ledgerVariables == <<cash, journal, frozen>>

Init ==
    /\ cash = Opening
    /\ journal = <<>>
    /\ frozen \in SUBSET DOMAIN Opening

Open(a, deposit) ==
    /\ a \notin DOMAIN cash
    /\ cash' = [b \in DOMAIN cash \cup {a} |-> IF b = a THEN deposit ELSE cash[b]]
    /\ UNCHANGED <<journal, frozen>>

(* Freezing and thawing touch no money.                                    *)
Moderate ==
    /\ frozen' \in SUBSET DOMAIN cash
    /\ UNCHANGED <<cash, journal>>

Payment(a, b, sum, outcome) ==
    /\ a # b
    /\ {a, b} \subseteq DOMAIN cash \ frozen
    /\ cash[a] >= sum
    /\ journal' = Append(journal, [from |-> a, to |-> b, sum |-> sum, outcome |-> outcome])
    /\ UNCHANGED frozen

(* The money arrives.                                                      *)
Pay(a, b, sum) ==
    /\ Payment(a, b, sum, "COMPLETED")
    /\ cash' = [cash EXCEPT ![a] = @ - sum, ![b] = @ + sum]

(* The money leaves the sender and waits.                                  *)
Hold(a, b, sum) ==
    /\ Payment(a, b, sum, "HELD")
    /\ cash' = [cash EXCEPT ![a] = @ - sum]

(* Recorded for review, not moved.                                         *)
Note(a, b, sum) ==
    /\ Payment(a, b, sum, "FLAGGED")
    /\ UNCHANGED cash

Next ==
    \/ \E a \in Parties, deposit \in Deposits : Open(a, deposit)
    \/ Moderate
    \/ \E a, b \in Parties, sum \in Sums :
        Pay(a, b, sum) \/ Hold(a, b, sum) \/ Note(a, b, sum)

Spec == Init /\ [][Next]_ledgerVariables
=============================================================================
