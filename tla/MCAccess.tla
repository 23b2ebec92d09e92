------------------------------ MODULE MCAccess ------------------------------
(***************************************************************************)
(* The names, the dataset and the calls of the run Access.  The names are  *)
(* those of main.cpp, in_memory_store.cpp and databases/3.json.            *)
(***************************************************************************)
EXTENDS Access

CONSTANTS t1, t2, t3

AccessThreads == {t1, t2, t3}
AccessSymmetry == Permutations(AccessThreads)

AccountIds ==
    {"ACC-7A1B8C9D", "ACC-9F2E4A10", "ACC-3B8C1D9E", "ACC-10096", "ACC-99014",
     "ACC-44910283", "ACC-ZOMATO-01", "ACC-10040", "ACC-VIC-A01", "ACC-VIC-B01"}

AccessHandles ==
    {"siddharth@okaxis", "invest_guru@ybl", "mule_wallet@paytm", "rajesh.mule@oksbi",
     "invest_guru_global@ybl", "vivek.phish@oksbi", "zomato@paytm",
     "rajesh.mule.aggregator@oksbi", "zomato.dine.ser@oksbi",
     "asha@oksbi", "asha.new@oksbi"}

PersonNames ==
    {"Siddharth Kumar", "Invest Guru Operations", "Fast Cash Payout Node", "Rajesh Kumar",
     "Deepak Sharma (Invest Guru)", "Invest Guru Global Hub", "Vivek Singh",
     "Zomato Verified Merchant", "Zomato Dine Services", "Rajesh Sharma",
     "Priya Nair", "Senior SOC Officer", "Officer 901", "Asha", "Beneficiary"}

UserNames ==
    {"8819A", "BANK-001", "BANK-002", "OFFICER-901", "OFF-901", "SIDDHARTH-KUMAR", "EMP-1",
     "siddharth_k", "siddharth_kumar", "analyst_raj", "officer_priya", "acc-new"}

Passwords ==
    {"secure_password_123", "bank_employee_pass_456", "admin_investigator_789",
     "bank_secure_pass", "officer", "secure_pass_123", "password123", "pw"}

AccessNames ==
    AccountIds \cup AccessHandles \cup PersonNames \cup UserNames \cup Passwords
        \cup {"", "EXT-ACC-1"}

(* No two of these names differ in case only.                              *)
AccessFold == [n \in AccessNames |-> n]

AccessOverlaps ==
    {<<"ACC-ZOMATO-01", "zomato@paytm">>,
     <<"invest_guru@ybl", "invest_guru_global@ybl">>,
     <<"invest_guru_global@ybl", "invest_guru@ybl">>,
     <<"rajesh.mule@oksbi", "rajesh.mule.aggregator@oksbi">>,
     <<"rajesh.mule.aggregator@oksbi", "rajesh.mule@oksbi">>,
     <<"zomato@paytm", "zomato.dine.ser@oksbi">>,
     <<"zomato.dine.ser@oksbi", "zomato@paytm">>,
     <<"asha@oksbi", "asha.new@oksbi">>,
     <<"asha.new@oksbi", "asha@oksbi">>}

NoAccounts == <<>>

(* The mule of the demo and a merchant whose handle resembles the demo's.  *)
Row(id, upi, holder, balance, risk, status) ==
    [id |-> id, upi |-> upi, holder |-> holder, balance |-> balance, risk |-> risk,
     status |-> status]

AccessDataset ==
    <<Row("ACC-10096", "rajesh.mule.aggregator@oksbi", "Rajesh Kumar", 12000, 95, "FLAGGED"),
      Row("ACC-10040", "zomato.dine.ser@oksbi", "Zomato Dine Services", 301207, 16, "ACTIVE")>>

AccessPays ==
    <<[sender |-> "ACC-10040", receiver |-> "ACC-10096", amount |-> 150000,
       status |-> "COMPLETED"]>>

-----------------------------------------------------------------------------
CallOf(method, path, form) == [method |-> method, path |-> path, form |-> form]

ReportForm == [kind |-> "report"]

LogInForm(name, password) ==
    [kind |-> "nameLogin", number |-> "", name |-> name, password |-> password, role |-> "any"]

SignUpForm(kind, number, username, name) ==
    [kind |-> kind, number |-> number, username |-> username, upi |-> None, name |-> name,
     password |-> "pw", derived |-> "asha@oksbi", derivedWithNumber |-> "asha.new@oksbi",
     balance |-> 0]

(* The body names a sender, which only counts for an employee.             *)
PayForm ==
    [kind |-> "transfer", role |-> "consumer", sender |-> "ACC-9F2E4A10",
     to |-> "vivek.phish@oksbi", by |-> "upi", amount |-> 1000]

ComplaintForm ==
    [kind |-> "complaint", caller |-> None, suspect |-> "rajesh.mule@oksbi",
     tx |-> ExternalTx, risk |-> 950]

ProfileForm(kind) == [kind |-> kind, user |-> "", account |-> ""]

ModerationForm == [kind |-> "moderation", account |-> "ACC-7A1B8C9D", status |-> "FROZEN"]

TriageForm == [kind |-> "triage", complaint |-> "CMP-102", status |-> "RESOLVED"]

OpenForms ==
    {LogInForm("siddharth_k", "secure_password_123"),
     LogInForm("OFFICER-901", "bank_secure_pass"),
     SignUpForm("consumer", "acc-new", "siddharth_k", "Asha"),
     SignUpForm("employee", None, "acc-new", "Asha")}

OpenCalls ==
    {CallOf("POST", <<"auth", IF f.kind = "nameLogin" THEN "login" ELSE "register">>, f) :
        f \in OpenForms}

AccessCalls ==
    OpenCalls \cup
    {CallOf("GET", <<"auth", "me">>, ProfileForm("me")),
     CallOf("GET", <<"consumer", "my-account">>, ProfileForm("myAccount")),
     CallOf("POST", <<"transactions">>, PayForm),
     CallOf("POST", <<"complaints">>, ComplaintForm),
     CallOf("PUT", <<"complaints", "CMP-102", "status">>, TriageForm),
     CallOf("PATCH", <<"accounts", "ACC-7A1B8C9D", "status">>, ModerationForm),
     CallOf("GET", <<"complaints">>, ReportForm),
     CallOf("OPTIONS", <<"transactions">>, ReportForm),
     CallOf("DELETE", <<"transactions">>, ReportForm),
     CallOf("GET", <<"nowhere">>, ReportForm)}

(* Filled uses the user or the account, never both.                        *)
AccessRequests ==
    LET forms == {c.form : c \in AccessCalls} \ (OpenForms \cup {ReportForm})
    IN  OpenForms \cup {Filled(ProfileForm("me"), u, "") : u \in AccessNames}
                  \cup {Filled(f, "", a) : f \in forms, a \in AccessNames}

-----------------------------------------------------------------------------
(* The encodings of tokens and passwords, on short texts.                  *)
Codes == INSTANCE Encoding

Texts(n, bytes) == UNION {[1 .. m -> bytes] : m \in 0 .. n}

(* "foo" is "Zm9v", "f" is "Zg" and 255, 255 is "__8".                     *)
ASSUME EncodingVectors ==
    /\ Codes!UrlEncode(<<102, 111, 111>>) = <<25, 38, 61, 47>>
    /\ Codes!Base64Encode(<<102>>) = <<25, 32, Codes!Pad, Codes!Pad>>
    /\ Codes!UrlEncode(<<102>>) = <<25, 32>>
    /\ Codes!UrlEncode(<<255, 255>>) = <<Codes!Underscore, Codes!Underscore, 60>>

(* What is encoded is decoded, up to two groups; any text is decoded to    *)
(* bytes.                                                                  *)
ASSUME EncodingRoundTrip ==
    /\ \A s \in Texts(5, {0, 62, 171, 255}) :
            /\ Codes!UrlDecode(Codes!UrlEncode(s)) = s
            /\ Codes!FromHex(Codes!ToHex(s)) = s
    /\ \A c \in Texts(5, {0, 63, Codes!Minus, Codes!Pad, Codes!Dot}) :
            \A i \in DOMAIN Codes!UrlDecode(c) : Codes!UrlDecode(c)[i] \in Codes!Byte

(* A token opens to its payload, and to none with a part exchanged.        *)
ASSUME TokenOpened ==
    LET text  == Codes!UnsignedToken(<<7>>, <<250, 255>>)
        other == Codes!UnsignedToken(<<7>>, <<250, 254>>)
        mac   == [x \in {<<"key", text>>, <<"key", other>>} |->
                    IF x[2] = text THEN <<9, 200>> ELSE <<9, 201>>]
        token == Codes!CreateToken(mac, "key", <<7>>, <<250, 255>>)
    IN  /\ Codes!Opens(mac, "key", token, <<250, 255>>)
        /\ ~ Codes!Opens(mac, "key", token, <<250, 254>>)
        /\ ~ Codes!Opens(mac, "key",
                other \o <<Codes!Dot>> \o Codes!UrlEncode(<<9, 200>>), <<250, 254>>)
=============================================================================
