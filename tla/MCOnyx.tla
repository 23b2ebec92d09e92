------------------------------- MODULE MCOnyx -------------------------------
(***************************************************************************)
(* The names, accounts and requests of the runs of OnyxProperties.         *)
(***************************************************************************)
EXTENDS OnyxProperties, TLC

CONSTANTS t1, t2, t3

TwoThreads == {t1, t2}
ThreeThreads == {t1, t2, t3}
ThreadSymmetry == Permutations(ThreeThreads)
PairSymmetry == Permutations(TwoThreads)

-----------------------------------------------------------------------------
(* alice, bob and mule are registered.  "ACC-ALICE" is alice's id as a     *)
(* client may type it; "mul@ybl" is only the beginning of mule's handle;   *)
(* "new@upi" and "acc-new" belong to nobody.  "asha@oksbi" is the handle   *)
(* made from the name of a client who signs up.                            *)

MCIds == {"acc-alice", "acc-bob", "acc-mule"}
MCHandles ==
    {"alice@upi", "bob@upi", "mule@upi", "mul@ybl", "new@upi", "asha@oksbi", "asha.new@oksbi"}
MCExternalIds == {"EXT-ACC-1", "EXT-ACC-2", "EXT-ACC-3"}
MCEmployeeIds == {"EMP-1", "EMP-2"}
MCNames ==
    UNION {MCIds, MCHandles, MCExternalIds, MCEmployeeIds,
           {"", "ACC-ALICE", "acc-new", "asha", "ravi", "raj", "alice", "bob", "mule"},
           {"Asha", "Beneficiary", "pw", "pw2"}}

MCFold ==
    [n \in MCNames |->
        CASE n = "ACC-ALICE" -> "acc-alice"
          [] n = "Asha"      -> "asha"
          [] OTHER           -> n]

(* Every name contains the empty prefix of an account without a handle.    *)
MCOverlaps == {<<"mul@ybl", "mule@upi">>} \cup {<<n, "">> : n \in MCNames \ {""}}

(* 100 rupees and no risk; 20 rupees and 40.0; the mule with 88.5.         *)
MCAccounts ==
    [a \in MCIds |->
        CASE a = "acc-alice" -> [upi |-> "alice@upi", holder |-> "alice", balance |-> 100000, risk |-> 0, status |-> "ACTIVE"]
          [] a = "acc-bob"   -> [upi |-> "bob@upi", holder |-> "bob", balance |-> 20000, risk |-> 400, status |-> "ACTIVE"]
          [] a = "acc-mule"  -> [upi |-> "mule@upi", holder |-> "mule", balance |-> 0, risk |-> 885, status |-> "FLAGGED"]]

(* alice has a login of her own.                                           *)
MCUsers ==
    [u \in {"acc-alice"} |->
        [username |-> "alice", account |-> u, name |-> "alice", password |-> "pw"]]

NoUsers == <<>>

-----------------------------------------------------------------------------
Transfer(from, to, amount) ==
    [kind |-> "transfer", role |-> "consumer", sender |-> from, to |-> to, by |-> "upi",
     amount |-> amount]

Complain(caller, suspect, tx) ==
    [kind |-> "complaint", caller |-> caller, suspect |-> suspect, tx |-> tx, risk |-> 950]

Moderate(account, status) ==
    [kind |-> "moderation", account |-> account, status |-> status]

Triage(id, status) == [kind |-> "triage", complaint |-> id, status |-> status]

(* alice can afford either of her payments but not both.                   *)
PaymentRequests ==
    {Transfer("acc-alice", "bob@upi", 60000),
     Transfer("acc-alice", "mule@upi", 60000),
     Transfer("acc-bob", "alice@upi", 20000),
     Moderate("acc-alice", "FROZEN"),
     Moderate("acc-bob", "FROZEN")}

(* alice pays bob and complains of it; others complain of bob, of a        *)
(* payment that is not theirs, against the wrong suspect or against one    *)
(* nobody knows.                                                           *)
DisputeRequests ==
    {Transfer("acc-alice", "bob@upi", 60000),
     Complain("acc-alice", "bob@upi", NoTx),
     Complain("acc-alice", "acc-bob", 1),
     Complain("acc-mule", "bob@upi", 1),
     Complain("acc-alice", "mul@ybl", 1),
     Complain("acc-bob", "new@upi", ExternalTx),
     Complain("acc-alice", "acc-new", NoTx),
     Moderate("acc-bob", "FROZEN"),
     Triage("CMP-1", "REJECTED")}

(* Payments that compete for a balance and complaints about them.          *)
ContendingRequests == PaymentRequests \cup DisputeRequests

(* Requests a handler turns down, and lookups by other names.              *)
RefusedRequests ==
    {Transfer("acc-alice", "bob@upi", 0),
     Transfer(None, "bob@upi", 1000),
     [Transfer(None, "bob@upi", 1000) EXCEPT !.role = "employee"],
     Transfer("acc-alice", None, 1000),
     Transfer("acc-alice", "raj", 1000),
     Transfer("ravi", "bob@upi", 1000),
     Transfer("ACC-ALICE", "acc-alice", 1000),
     [Transfer("ACC-ALICE", "acc-bob", 90000) EXCEPT !.by = "id", !.role = "employee"],
     Complain(None, "bob@upi", NoTx),
     Complain("acc-alice", None, NoTx),
     Complain("acc-bob", "new@upi", BadAmount),
     Triage("CMP-1", None),
     Moderate("ravi", "FROZEN"),
     Moderate("mul@ybl", "ACTIVE"),
     Moderate("acc-bob", "UNSUPPORTED")}

SignUp(number, username, upi) ==
    [kind |-> "consumer", number |-> number, username |-> username, upi |-> upi,
     name |-> "Asha", password |-> "pw", derived |-> "asha@oksbi", derivedWithNumber |-> "asha.new@oksbi", balance |-> 0]

Enrol(username) ==
    [SignUp(None, username, None) EXCEPT !.kind = "employee", !.name = "", !.password = "pw2"]

(* By account number, with a name or without.                              *)
LogIn(number, name, password, role) ==
    [kind |-> "accountLogin", number |-> number, name |-> name, password |-> password,
     role |-> role]

(* By username, or by a name.                                              *)
LogInAs(name, password, role) ==
    [kind |-> "nameLogin", number |-> "", name |-> name, password |-> password, role |-> role]

Me(user) == [kind |-> "me", user |-> user, account |-> ""]

MyAccount(account) == [kind |-> "myAccount", user |-> "acc-new", account |-> account]

(* Sign-ups that race for a number, a username or a handle, that claim an  *)
(* existing account, or that meet the account a complaint provisioned.     *)
SignUpRequests ==
    {SignUp("acc-new", "asha", None),
     SignUp("acc-new", "ravi", "bob@upi"),
     SignUp("acc-bob", "asha", None),
     SignUp("acc-alice", "ravi", None),
     SignUp("ACC-ALICE", "ravi", None),
     SignUp(None, "ravi", None),
     Enrol("raj"), Enrol("asha"), Enrol(None),
     Complain("acc-alice", "acc-new", NoTx)}

(* Log-ins of those who signed up, by number, by username and by name, and *)
(* with the wrong name, role or password.                                  *)
LoginRequests ==
    {LogIn("acc-new", "", "pw", "any"),
     LogIn("acc-new", "Asha", "pw", "consumer"),
     LogIn("acc-bob", "bob", "pw", "any"),
     LogIn("acc-bob", "ravi", "pw", "any"),
     LogIn("acc-new", "alice", "pw", "any"),
     LogIn("raj", "", "pw2", "unsupported"),
     LogInAs("raj", "pw2", "employee"),
     LogInAs("acc-alice", "pw", "employee"),
     LogInAs("Asha", "pw", "any"),
     LogInAs("asha", "pw", "any"),
     LogInAs("", "pw", "any"),
     Me("acc-new"), MyAccount("acc-new")}

AllRequests ==
    ContendingRequests \cup RefusedRequests \cup SignUpRequests \cup LoginRequests

-----------------------------------------------------------------------------
(* The requests of the runs that end in a counterexample.                  *)

(* A complaint that names no suspect, and a payment to a mistyped handle.  *)
BlankRequests ==
    {Complain("acc-alice", "", NoTx), Transfer("acc-alice", "new@upi", 20000)}
=============================================================================
