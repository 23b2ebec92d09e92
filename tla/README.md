# Verification of the ONYX backend

TLA+ models of the ONYX fraud-detection backend (the C++ program under `src/` and
`include/`), TLC configurations that check them on small instances, and TLAPS proofs of the
properties that matter most. Paths below are relative to the repository.

## 1. The system

| Part | State | Operations | Talks to |
|---|---|---|---|
| `InMemoryStore` (`src/db/in_memory_store.cpp`) | users, accounts, transactions, flags and complaints, each a hash map with its index; one `std::shared_mutex` | lookups by id (case-insensitive) and by handle (exact, folded, scanned, overlapping), `create_account`, `update_account_status`, `apply_taint_update`, `execute_atomic_transfer`, `create_complaint`, `count_complaints_for_suspect`, `update_complaint_status`, `create_user` | every controller and engine |
| `TransactionController`, `FraudDetectionEngine` | none | `POST /transactions`: resolve receiver and sender, score, transfer | store |
| `ComplaintController` | none | file a complaint (resolve or provision the suspect, check ownership, record, count, taint), triage | store |
| `AccountController`, node action in `main.cpp` | none | freeze, flag, reactivate; risk check; lists | store |
| `AuthController` | none | register consumers and employees; login; profile of the bearer | store, `JwtManager` |
| `GraphEngine`, subgraph route | none | breadth-first walk around an account; network metrics | store |
| the handlers that only read | none | risk check, payments and flags, complaints, directory, audit, statistics | store |
| `HttpServer`, `main.cpp` | `running_`, `active_workers_`, the server thread, detached workers | start, accept, serve, stop, destroy | router |
| `Router`, `RbacMiddleware`, `JwtManager` | route table, the key (a constant of the program) | match, authenticate, authorise, dispatch; sign and verify tokens | controllers |
| start-up (`main.cpp`, dataset loader) | - | default tables, dataset (`databases/3.json`), demo accounts, users and complaints | store |

Every request runs in a thread of its own. A store method is atomic (it holds the mutex from
its first access to its last), a *request* is not: a controller makes up to seven store calls,
keeps copies of accounts between them, and other requests run in the gaps. That is where most
of the difficulty lies: decisions taken on stale copies, check-then-create sequences, results
of store calls that are not looked at, identifiers that collide. The rest is in the life of
the server (threads that must be woken, waited for, joined), in the readers, which assemble an
answer from a store that changes under them, and at the edges of a life of the process: start-up
overlays three sources of accounts that may disagree, and a restart loses every table while the
tokens it granted stay valid. Nothing is persisted and nothing is retried.

What makes each part correct: *payments* - money is neither created nor lost, no account is
overdrawn or moved while frozen, every answer 201 stands for one transaction, index and flags
agree with the transactions; *complaints* - every accepted complaint counts, its quoted
payment is the caller's and went to the suspect, its suspect exists; *moderation* - a freeze
holds; *registration and login* - handles and usernames are keys and lead to what bears them, a
token names a user that is there, who signed up can log in; *server* - whoever stays connected is
served before a shutdown, a shutdown ends; *readers* - a subgraph is a sound, complete and bounded
neighbourhood, a consumer sees its own records only, an account called safe gets its payments;
*gateway* - a handler works on what the role of the bearer allows, money leaves an account only
for its own token or an employee's; *start-up* - whatever of the dataset could be read, the store
that is served is sound.

## 2. Modules

| Module | Models | Correspondence |
|---|---|---|
| `RiskRules` | the arithmetic of the fraud rules | money in mills (1/1000 rupee, so that `llround(x * 100)` can be told from the identity), risk in tenths of a point, thresholds as in the code |
| `InMemoryStore` | the store | one operator per lookup, one action per update. A lookup that scans an `unordered_map` answers the *set* of ids it may return: the order of the map is nobody's choice |
| `Workers` | the request threads | `pc[t]` is the next store call of thread `t`, `local[t]` the controller's locals, `answer[t]` the response, with the token it grants |
| `TransferHandler`, `ComplaintHandler`, `ModerationHandler`, `RegistrationHandler`, `SessionHandler` | the controllers that change state or grant tokens | one action per store call, with the code up to the next one; early returns are disjuncts |
| `OnyxApi` | all these handlers on one store | `Next`, `Spec`, `FairSpec` |
| `Ledger` | what payments promise, abstractly | no threads, no rules: accounts in paise, a journal, frozen accounts |
| `OnyxProperties` | the properties of `OnyxApi` | includes the refinement mapping to `Ledger` |
| `GraphEngine` | the subgraph route and `extract_subgraph` | the walk of one reading thread, one action per store call |
| `Reports` | the other handlers that only read | one action per store call; `ReadersSpec` composes them and `GraphEngine` with `OnyxApi` |
| `Gateway` | route table, router, roles, tokens | `Admit` is `handle_request` up to the handler, `Work` a step of the handler; a token is its claims and expiry, and is valid if it is in `issued` |
| `Boot` | start-up, serving, restart | `phase` is where `main()` is; one action per row, account or user; `SystemSpec` composes it with `Gateway` |
| `Access` | the properties of `SystemSpec` | |
| `HttpServer` | `HttpServer`, the end of `main()` | one action per step of `main`, of the server thread and of a worker; the kernel's queue of connections; a request is a number of pieces; a client may close its end in order or reset the connection, and the answer to one that has reset it may kill the process (`DieOfSigpipe`) |
| `Encoding` | hexadecimal and base64url, the parts of a token and of a stored hash | no state: operators on sequences of bytes and characters, the hash functions as parameters |
| `OnyxProofs`, `SafetyProofs`, `LedgerProofs`, `SerialProofs`, `ReadersProofs` | proofs about `OnyxApi` and its readers, each on top of the one before | see section 5 |
| `AccessProofs`, `EncodingProofs`, `ServerProofs` | proofs about the module of their name | see section 5 |
| `MCOnyx`, `MCReaders`, `MCAccess`, `MCHttpServer` | the instances TLC checks | names, accounts, dataset, requests and calls |

Two compositions look at the same handlers from two sides. `OnyxApi` (and, with readers beside it,
`ReadersSpec`) starts from any sound store and serves any request a controller can get, so that
races are explored without the weight of the gateway; `SystemSpec` puts router, tokens, start-up
and restarts around the same actions, so that the requests are exactly those the gateway lets
through and the store is exactly the one start-up leaves.

Abstractions. Strings are members of a small set `Names`; `Fold` is `tolower` and `Overlaps`
the prefix and substring match of handles; no name has white space around it, which the lookups
would trim. A random account id is a member of `ExternalIds` not in use, a complaint id any member of `ComplaintIds` (two random bytes do repeat), an
employee id any member of `EmployeeIds` (the clock modulo 100000 does repeat). A user id is
written without its "USR-", a path without its "api/v1". A transaction's id is its number: six
random bytes are taken to be new. A password stands for its salted hash: it is verified by
equality. A token that is not signed with the key counts as no token. That the encodings around
the hashes allow both is what `Encoding` is for. Texts, timestamps and JSON
syntax are left out; a malformed body is a request without the field. Each operator whose comment
starts with "Mutant" is a deliberate defect, used to see that a property can fail; no
specification uses it.

## 3. Runs

| Run | Question |
|---|---|
| `Payments` | Three requests at once: transfers from the same balances, complaints of the same account, of unknown suspects and of other people's payments, freezes, triage. Money reconciles, no overdraft, one transaction per 201, index and flags exact, frozen balances untouched, no increment of a risk lost, complaints quote only the caller's payments, handles are sound, an account shown as safe gets no payment held, and the abstract `Ledger` is implemented. |
| `Overlaps` | Every request of the instance, two at a time, under fairness: types, reachable accounts and users, every request answered. |
| `OneAtATime` | Every request, logins among them, never two in service. Here, and only here, the code also guarantees: two complaints flag, complaint suspects exist, a freeze holds, every token is that of a user who is there, who signed up can log in, and the status of a payment is what the rules give for the risk, the complaints, the history and the balance that the handler collects under different ids. None of this is claimed of requests that overlap (section 4). |
| `Readers` | A walk, a risk check, a list, a total or a case is prepared while payments, complaints and triage are served between its store calls. Edges join nodes, the subgraph is exact, own records only, flags shown as decided, the verdict before a payment holds, cases are shown with their suspects and within the limit. |
| `Access` | The process starts from a dataset that may break off at any row, serves calls with and without tokens while tokens expire, dies and starts again. The store that is served is sound, the demo users can log in (no call signs up under a number that makes the user id of one), roles are kept, money leaves an account only for its own token or an employee's, the bearer of a token is known. |
| `Serving` | Two clients that send in pieces, stall, leave or reset their connection; `accept` may fail; the signal comes at any moment. Whole requests for who stays, the drain sees every worker that has begun, after a signal the process ends, clients are served unless the shutdown or a SIGPIPE comes first. |
| `FreezeLost` | *violation*: a complaint in flight takes an account out of FROZEN. |
| `ComplaintOverwritten` | *violation*: two complaints under one id. |
| `BlankHandle` | *violation*: a payment reaches an account that has no handle. |
| `AccountReplaced` | *violation*: an account opened meanwhile is overwritten. |
| `EarlyDrain` | *violation*: shutdown does not wait for a worker that has not yet counted itself. |
| `UnjoinedThread` | *violation*: the server thread is not joined after a failed bind. |

Bounds. `Payments`, `OneAtATime`, `Readers` and `Access` have three threads, `Overlaps` two, each
serving one request: two suffice for every race of two handlers, the third lets a request meet
what both left, and one request per thread is enough because a handler keeps nothing after its
answer. `MaxInFlight` bounds the requests in service: all of them in `Payments` and `Overlaps`,
one elsewhere (`Readers` is about a reader against the store, `Access` about what gets in;
neither depends on two workers racing, which is the business of `Payments`). In `Readers` one
reader runs beside the workers; readers change nothing, so they cannot disturb each other. There
are three accounts with a low, a middle and a high risk; amounts on both sides of the balance; two
complaint ids, two employee ids. `Access` has two rows of the dataset (the mule, whose handle
start-up replaces, and a merchant whose handle resembles the demo's) and one of its payments, one
restart, a clock of two seconds with tokens that last until the end of the one they are granted
in, and rupees of 10 mills so that the demo balances fit TLC's integers. `Serving` uses 2 pieces
(header, body), a kernel queue of 2 and 2 sleeps instead of 15: what matters is that they are
finite. `CHECK_DEADLOCK FALSE` everywhere: threads end after their answer, and the process after
its signal.

Fairness. `FairSpec` has weak fairness for each thread: a thread with a request waits for
nothing but the mutex, which every method releases; no client has to send anything.
`FairHttpSpec` has weak fairness for `main`, the server thread and each worker, and strong
fairness for a successful `accept` (it may fail, not every time), as long as the process is alive;
clients owe nothing.
`ReadersSpec` and `SystemSpec` state none: only safety is asked of them.

## 4. Known divergences

Those with a run are listed above and in `PROJECT.json` with the line they contradict.
Reading the code for the models showed others, which no run repeats:

- Two overlapping complaints can leave an account with two active complaints ACTIVE
  (`complaint_controller.cpp:150` writes a stale status), a payment can be decided on stale
  counts and copies (`transaction_controller.cpp:191`), and two complaints that provision one
  handle leave one of them against an account that does not exist (`complaint_controller.cpp:88`). Two overlapping
  sign-ups for one number leave one user, whose username need not be the one a token was granted for
  (`auth_controller.cpp:202`). `OneAtATime` shows that each of these needs an overlap.
- The answer to a client that has reset its connection, after some of its request had arrived, is
  sent with flags 0 (`http_server.cpp:211`), and `main.cpp:34-35` handle SIGINT and SIGTERM only:
  the SIGPIPE ends the process, and every other request with it. `HttpServer` includes this end.
- `std::stoul` of a `Content-Length` that is no number throws out of the worker's thread
  (`http_server.cpp:183`) and ends the process. Headers are not modelled.
- A sign-up that asks for a handle in use has its `create_account` refused, unseen, and the user is
  created for an account that is not there (`auth_controller.cpp:189`), which
  `migrations/001_init_schema.sql:28` excludes. One request shows it.
- The lookups trim what they are asked for (`in_memory_store.cpp:236`, `:257`) and a sign-up stores
  what it was given, so that an account number with white space around it is never found by id.
- A complaint refused with 403 has already provisioned its suspect (`complaint_controller.cpp:76`;
  PRD.md lists the ownership check first). So has one whose amount is no number, which is answered
  500 (`:95`).
- A list of complaints with limit 0 has one complaint (`in_memory_store.cpp:571`).
- A HELD payment is never released or returned (`in_memory_store.cpp:493`).
- An amount below half a paisa is recorded and moves nothing (`in_memory_store.cpp:471`).
- The inflow surcharge needs one earlier transaction of either direction, not several senders
  (`fraud_engine.cpp:34`).
- Employee ids repeat and overwrite (`auth_controller.cpp:120`); a number in other case gets a
  second user (`:154`); the number 8819A makes the user id of a default user and overwrites that
  user (`:194`).
- A login by name takes any user of that name (`auth_controller.cpp:306`), and the demo has two
  called Siddharth Kumar, who share an account.
- A client that leaves early has the part of its request that arrived routed
  (`http_server.cpp:194`), and after a failed bind `main` goes on as if it served (`:61`).
- A root asked for by its id in other case yields a bare node (`graph_engine.cpp:16`).
- The loader does not read the balance of an account (`in_memory_store.cpp:637`), which the
  dataset has (`databases/3.json:25`): every loaded account starts with none.
- If reading the dataset fails part-way, `main.cpp:51` reports "running with in-memory default
  fixtures" while what was read so far stays.
- The demo merchant `zomato@paytm` is not created when the dataset is loaded: the lookup at
  `main.cpp:124` finds a dataset account whose handle resembles it. The user of the demo mule keeps
  the handle that `main.cpp:71` replaced as its username. Without the dataset two seeded
  complaints name complainants who do not exist (`main.cpp:203`, `:215`).
- The payments of the dataset have no flags, so that one that failed is explained as a "Standard
  Clean Transfer" (`transaction_controller.cpp:64`). `FlaggedAsDecided` is about the payments the
  program itself records.
- verify-risk is registered twice under one pattern; the second route is never reached
  (`account_controller.cpp:24`). It ignores the amount that `architecture_defense_brochure.md:186`
  passes to it. An "Abnormal Inflow" line does not make a recipient unsafe
  (`account_controller.cpp:95`), and a merchant is said to have "zero fraud disputes" whatever its
  complaints (`:104`).

## 5. Proofs

Proved with TLAPS for every number of threads, every set of names, seeds, requests, calls and
every dataset that meets the named assumptions (`StoreAssumption`: seeds are finitely many, typed,
not overdrawn, handles and usernames are keys; `WorkersAssumption`, `ComplaintAssumption`,
`RegistrationAssumption`, `ReportAssumption`: types of the constants, and that the id drawn for an
unknown suspect is no seed's; `GatewayAssumption`: a call asks for what the
handler of its path serves; `DatasetAssumption`, `BootAssumption`: the dataset and the literals of
the start-up are typed, not overdrawn and of risks on the scale, default usernames are keys;
`SeedAccountsAssumption`, `SeedUsersAssumption`: the literals of the constructor, those of `main()`
and the dataset name the same account or user only where they mean it, of which TLC makes sure for
the literals and for the rows of `databases/3.json` in the run).

However threads overlap:

| Theorem | States |
|---|---|
| `OnyxProofs!TypeCorrect` | `Spec => []TypeOK` |
| `SafetyProofs!NeverOverdrawn` | no balance below zero |
| `SafetyProofs!FrozenBalances` | no payment changes a frozen account's balance |
| `SafetyProofs!FlagsMatchPayments` | flags are those of the payments not let through |
| `SafetyProofs!HandlesUnique` | an account with a handle is indexed under it |
| `SafetyProofs!UsernamesUnique` | every user is found under its username |
| `SafetyProofs!SafeIsPaid` | no payment to an account called safe would be held, whatever the amount |
| `SafetyProofs!ComplaintsOwned` | a complaint quotes only its caller's payments to its suspect |
| `SafetyProofs!NoComplaintLost` | risk is what the accepted complaints make of it: no increment is lost |
| `LedgerProofs!PaymentsAnsweredOnce` | the transfers answered 201 are the recorded payments, one each |
| `LedgerProofs!HistoriesExact` | an account's history lists its payments, once each and in order |
| `LedgerProofs!FirstBalancesReconcile` | the balance of an account of the start is its opening balance and what was moved |
| `LedgerProofs!BalancesExact` (1) | so is that of every account |
| `LedgerProofs!HandlesLead` (1) | an indexed handle leads to the account that has it |
| `LedgerProofs!LedgerImplemented` (1) | the handlers implement `Ledger`: `Spec => AbstractLedger!Spec` |
| `ReadersProofs!ReadersOnlyRead` | `ReadersSpec => Spec`: readers change nothing |
| `ReadersProofs!FlagsShownRight` | a payment is shown as flagged exactly when it was not let through |
| `ReadersProofs!ReadersTypeCorrect` | `ReadersSpec => []ReadersTypeOK`, for the walk and every kind of report |
| `ReadersProofs!PaymentsShownOwn` | a consumer is shown no payment but its own |
| `ReadersProofs!RecordsOwn` (3, 7, 12) | nor any subgraph but its own |
| `ReadersProofs!SubgraphsJoined` (3, 7) | both ends of every edge of a subgraph are among its nodes |
| `ReadersProofs!SubgraphsExact` (3, 7) | a subgraph is complete up to its limit, near enough, and holds nothing twice |
| `AccessProofs!RolesEnforced` | a handler works on what the role of the bearer allows, in every life of the process |
| `AccessProofs!DemoUsersStay` (8) | default and demo users keep their username and password in every life of the process |
| `AccessProofs!AccessTypeCorrect` (11) | `SystemSpec => []AccessTypeOK`: types, and no risk leaves the scale of 0 to 100 points |
| `AccessProofs!SystemNeverOverdrawn` | no balance below zero, from start-up on and through every restart |
| `AccessProofs!SystemUsernamesUnique` | every user is found under its username, from start-up on |
| `ServerProofs!ServerTypeCorrect` | `HttpSpec => []HttpTypeOK` |
| `ServerProofs!WorkersCounted` | `active_workers_` is the number of workers inside the guard |
| `ServerProofs!PatientHeard` | only who closed its end before all was sent is answered for part of a request |
| `ServerProofs!DrainComplete` | a drain that ends early leaves no worker that has begun |
| `EncodingProofs!UrlRoundTrip` | what `base64url_encode` writes, `base64url_decode` reads |
| `EncodingProofs!TokenOpens` | a token opens to the payload it was signed with and to no other |
| `EncodingProofs!SignatureUnique` | accepted tokens that agree up to the second dot are the same |
| `EncodingProofs!PasswordVerified` | a password is accepted exactly if the derived keys agree |

As long as requests do not overlap (2):

| Theorem | States |
|---|---|
| `SerialProofs!DecisionsByRules` | a payment's status is what the rules give for risk, complaints, history and balance |
| `SerialProofs!SuspectsExist` | the suspect of a stored complaint is an account |
| `SerialProofs!HandlesLeadSerially` | an indexed handle leads to the account that has it, sign-ups included |
| `SerialProofs!LedgerImplementedSerially` (3) | the handlers implement `Ledger`, sign-ups included |
| `SerialProofs!FreezesHold` (3) | only moderation takes an account out of FROZEN |
| `SerialProofs!TwoComplaintsSuffice` (3, 4) | two active complaints leave no account ACTIVE that no employee reactivated |
| `SerialProofs!TokensStayGenuine` (5) | a token names a user who exists and has what the token says |
| `SerialProofs!SignedUpLogIn` (5) | who signed up can log in |
| `ReadersProofs!CasesShownRight` (3) | a complaint is shown with the suspect it was filed against |
| `ReadersProofs!VerdictsKept` (3, 6) | the check before a payment keeps its word |
| `AccessProofs!StoreStaysSound` (3, 8) | handles, usernames, complaints and seeded users lead to who bears them, wherever the reading of the dataset broke off |
| `AccessProofs!OwnMoney` (3, 9, 10) | money leaves an account only in a payment answered 201 to a token for it or to an employee's |
| `AccessProofs!SessionsLast` | who holds a token of this process, or of a user of the start, is found by `/auth/me` |

The numbers are the hypotheses of the theorems. Each is a statement about the constants alone, is
true of the instance on which TLC checks the same property, and is there because the code breaks
the property without it:

1. `NoSignUps`: no request signs a consumer up, and no complaint names the empty suspect or an id
   that the code draws for others. A sign-up that overlaps a complaint about the same number opens the account
   again, balance and all (section 4). `FirstBalancesReconcile` needs no such hypothesis, since
   `create_account` is never called for an account of the start.
2. `MaxInFlight = 1`: one request is served at a time, while up to as many threads as one likes
   wait or are done. With two, TLC finds each of the divergences of section 4.
3. `SuspectsGiven`: no complaint names the empty suspect, for which an account without an id is
   opened and then opened again by the next such complaint.
4. `NoneReinstated`: who rejects a complaint does not put it back; `update_complaint_status` counts
   nothing, so a complaint reinstated by an employee makes the second active one and flags nobody.
5. `NumbersApart`: no account number reads as the user id of somebody else. User ids are made of
   the account number (`auth_controller.cpp:194`), and a number such as `8819A` overwrites a user.
6. `RisksInPoints`: no risk lies strictly between 0 and 1 point. `verify_risk` takes such a risk
   for a fraction and multiplies it by 100 (`account_controller.cpp:156`), payments do not; the
   loader scales its fractions, but the `risk_score` of a complaint is the client's
   (`complaint_controller.cpp:61`).
7. `RootsDistinct`: no account can be opened whose id differs from the root asked for in case only.
   A root found by its id in other case keeps the string of the request (`graph_engine.cpp:16`),
   under which there are no payments, so that the answer would be a node without edges.
8. `SignUpsApart`: nobody signs up under an account number that is the user id of a user of the
   start. A consumer's user id is made of its account number (`auth_controller.cpp:194`), and
   `create_user` overwrites.
9. `NamesApart`: no two names differ in case only. The sender of a payment is found
   case-insensitively (`in_memory_store.cpp:246`), so that who signed up under another spelling of
   an account number pays from that account (section 4).
10. `AmountsCount`: no transfer is of less than half a paisa. Such a transfer moves nothing but
    rounds what both have to whole paise, and a balance can fall by rounding, the receiver's too.
11. `RisksGiven`: the risks that complaints and the dataset give are on the scale. A `risk_score`
    is taken from the client as it is (`complaint_controller.cpp:61`) and opens an account
    unclamped.
12. `OwnRootsPlain`: a consumer who asks for a subgraph has an account of the start, and asks for a
    root without another spelling, that is no account opened later and does not merely resemble its
    handle. Route and engine resolve the root each by itself; an account opened in between, or the
    lookup that falls back on resemblance, could lead them to different accounts.

**Types and tables.** `OnyxProofs` begins with one lemma per store operation (types, ranges).
`TypeOK` alone is not
inductive: a thread about to execute a transfer needs a payer and a receiver in its locals,
and a thread past the field checks needs the fields. `StepSound` says, for each `pc[t]`, which
locals are set and which fields are present; `TypeOK` and `StepSound` together are inductive,
one lemma per handler. `SafetyProofs` then reduces each property to the few actions that write
the tables it reads: `AccountWrites`, `LedgerWrites` and `UserWrites` say what any step can do
to them.

**Complaints.** `ComplaintOwnership` is strengthened: between the ownership check and the
record, the quoted payment is already the caller's to the suspect (`FilingSound`), transactions
are never changed, and a complaint cannot quote a payment that does not exist yet
(`RegistrySound`). For `NoTaintLost` an account provisioned by a
complaint is none of the start (`TaintInv`); the set of accepted complaints grows by one exactly in
the step that raises the risk, and clamping after each complaint is clamping once (`TaintAdds`).

**Ledger.** For `TransferAnsweredOnce` a thread about to pay holds the sender it
looked up under the name it was given (`PayerNamed`), only the step that pays answers 201,
and an answer stays as it is; `WorkersAssumption` adds that `None` is no account, so that the
receiver kept with the answer is the one that was resolved. `BalancesReconcile` sums the payments
of an account in the order of the ledger (`Total`, a recursive function); `TotalAppend` says what
one more payment adds. The refinement of `Ledger` goes step by step: a payment of the code
is a `Pay` of the ledger with amounts in paise (`LedgerPays`), `create_account` an `Open`
(`LedgerOpens`), everything else a freeze, a thaw or a stutter. Both, and `HandlesSound`, rest on
one fact, that no account is opened twice (`OpenedOnce`), which is proved once under `NoSignUps` and
again in `SerialProofs` from the order of the steps.

**One request at a time.** `Alone` says that two threads in flight are the same thread; it is
inductive. With it `AllFresh` is: what a thread has read (the payer's and the receiver's record,
the counts, that a number or a handle is free, that a complaint is there) is what the store says
now, because only the thread itself has moved since. Each theorem of `SerialProofs` is then about
one step that acts on what was read. `TwoComplaintsFlag` needs an invariant that holds within
requests too: an account with two active complaints is not ACTIVE, or the thread that filed the
second has yet to write its status (`FlagSound`). `SignedUpCanLogIn` needs one over the whole life of a sign-up
(`SignUpInv`): whoever signed up is the only user of that account, with the name and password
given, and a login with them is under way only with that user.

**Readers.** A reader's page is carried through every step of a report: while flags are looked up,
those found so far are exactly the payments up to `page.at` that were not let through (`FlagsRead`),
which stays true while others pay because `FlagsExplainStatus` holds and the ledger only grows
(`LedgerGrows`). An account's history holds recorded payments of its own (`HistoriesInv`).
`CasesShown` carries the complaints copied and those already completed along (`CasesRead`), with
suspects that are found under their own id. What a report has copied is typed
step by step of its kind (`PageTyped`), for which accounts have to stay finitely many
(`AccountsFinite`), since the totals of an answer count them. `VerdictHolds` is proved by `VerdictSound`: unless
somebody files a complaint, the risk of the account checked is the one that was read, and no payment
made to it since is held if that risk is safe, by the arithmetic of `SafeIsPaid`.

**The subgraph.** The distance between accounts is given by the balls around the root
(`BallOver`, a recursive function of the radius): they are nested, they grow with the ledger, and a
ball over the payments known at the start never changes. `Walked` is what holds of the walk between
any two of its steps, with the accounts and the ledger at that time: everything visited is a node
or queued once (`Sorted`); ends of edges are visited (`Joined`); depths in the queue rise
by at most one from front to back (`Layered`); nobody is further away than its depth says (`Near`);
and, as long as there is room for an edge, nobody is nearer by the payments known at the start, and
those of every expanded account within reach are edges (`Thorough`). It is kept by the visit of a
node (`VisitWalked`), its expansion (`ExpandWalked`) and by whatever the threads pay meanwhile
(`WalkedStays`). When the queue is empty the ball of radius `Hops` has been visited by induction on the radius
(`BallVisited`), which gives the two theorems. That the histories are exact (`HistoriesExact`) is
what the expansion relies on, that payments are between accounts (`PartiesHold`) what makes every
neighbour a node. `WalkTraced` is the part of this that holds without hypotheses and gives the
types. That a consumer sees its own subgraph (`OwnRoot`) rests on two facts: a handle that is
indexed leads to the same account ever after (`IndexStays`), and the handle of an account of the
start is indexed with it (`HandlesOfSeeds`), so that the lookup of the engine repeats the route's.

**Access.** `AccessProofs` reuses the inductive invariant of `OnyxProofs` for the steps of the handlers and adds
one lemma per action of the gateway and of the start-up. `RolesKept` needs `TokensSound` (what is in
`issued` was signed over claims of names) and the lemmas on the route table, which say of each
kind of request what every route that serves it needs, so that a route registered with the wrong
need would break the proof. What the tables promise between requests (`StoreInv`, `AllFresh`) holds
only when the process serves; during start-up `SeededInv` says how far each source has been written and
that the accounts there are those of `SeedKeys`, and `SerialInv` joins the two, so that the last
step of the start-up hands over what the first request relies on. `DemoUsersKnown` follows
from `ResidentsInv`, which says of each demo user that it is there as soon as its username is taken or its turn has passed.
`OwnMoneyOnly` needs that a thread about to pay holds the account of the sender that the gateway
filled in (`PayersInv`), that no account is opened twice, and the arithmetic of paise.
`SessionHolds` needs that whoever a token of this process names is a user (`BearersKnown`) and that
`/auth/me` looks up the user of the token it came with (`OwnProfile`); it is for one request at a time
because `register` hands out a token whatever `create_user` returned, and of two sign-ups under one
username that overlap one gets a token for nobody. tlapm's SMT translation cannot tell apart string literals with spaces
or punctuation, so that what the proof has to know of the start-up's literals is stated in
`BootAssumption`, which TLC evaluates in `Access`.

**Server.** The actions that end the process are steps like the others: `DieOfSigpipe` leaves everything but
`main` as it was. `ServerProofs` needs more than the types: the counter equals the number of connections inside the
guard (`Counted`), and for that no such connection may be moved by the server thread, so a queued
connection is queued once and not yet served (`Queued`) and the one the thread holds has no worker
yet (`Held`). `Unborn` says that there is no server thread before `start()`. It assumes only
`HttpAssumption`: finitely many clients, any backlog, any size of a request, any number of sleeps.

**Encodings.** `EncodingProofs` is about functions, not behaviours, and assumes of the hashes only that they return
bytes. Base64 is defined by position, without recursion, so that the round trip is arithmetic on
a group of three bytes (`GroupDigits`), the count of the digits (`Counts`, `DigitsSuffice`) and the
place where reading stops. The value that the code gives a missing character (`npos` cut to 255)
is in the definition and, as the proof shows, in no result. TLC evaluates the same definitions on
known vectors and short texts, as assumptions of `MCAccess`.

**Induction over data.** The induction theorems of the library cannot be instantiated here, but the
well-foundedness of the strict subset order on finite sets of numbers can be cited, and gives
`NatByOnes`: a set that holds 0 and, with every number, the next holds every number. Recursive
functions are handled with it (that they exist, and that their equations determine them): totals,
balls, and the loops `Picked` and `Enqueued` of the walk and the lists, which are written as
recursive functions for that reason.

Only model-checked: liveness (`EveryRequestAnswered`, `StopReturns`, `ClientsServed`), which is
beyond the prover. Every other property that a run checks without finding it violated is stated by
a theorem above.

## 6. Not modelled, and the plan

Not modelled: JSON and HTTP header syntax; SHA-256, HMAC, PBKDF2 and the random source (their
callers rely on collisions being out of reach, which is not a property of the code); what
`from_hex` makes of text that `to_hex` did not write; the logger; `include/utils/json.hpp`, a third-party library that
is five sixths of the lines of the repository's source; the texts of responses, the sums of
amounts in the metrics; which accounts have an archetype or a merchant's badge (the reasons of a
check have either or not); `gmtime`'s shared buffer; the store methods nothing calls; ground truth tables,
written once and only printed; the Windows branch of the server (its sockets and signals are those
of Linux).

Next: failure to create the wake-up socket or a thread in `HttpServer`.
