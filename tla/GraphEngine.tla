---------------------------- MODULE GraphEngine ----------------------------
(***************************************************************************)
(* GET /api/v1/graph/subgraph/:account_id: the route of main.cpp and       *)
(* GraphEngine::extract_subgraph.  A breadth-first walk over the payments  *)
(* of an account and its neighbours, one store call at a time, while other *)
(* threads go on paying.                                                   *)
(*                                                                         *)
(* Of a node the model keeps the account, of an edge the transaction; what *)
(* else the response shows of them is copied from the store.  The flag of  *)
(* a transaction is recorded with it and never changes, so looking the     *)
(* flags up belongs to the step that reads the transactions.               *)
(***************************************************************************)
EXTENDS OnyxApi, SequencesExt

CONSTANT GraphRequests   \* the requests for a subgraph

GraphRequest ==
    [role: {"consumer", "employee"}, caller: Names \cup {None}, root: Names,
     hops: Int, limit: Int]

ASSUME GraphAssumption == GraphRequests \subseteq GraphRequest

VARIABLES
    step,   \* where the walking thread is
    ask,    \* the request it serves
    walk,   \* the locals of extract_subgraph
    code    \* the status it answered

graphVars == <<step, ask, walk, code>>

ClampTo(low, high, n) == IF n < low THEN low ELSE IF n > high THEN high ELSE n

(* The elements of seq that are in S, in their order.  A function where    *)
(* SelectSeq would do: the proofs have to look inside.                     *)
Picked(seq, S) ==
    LET upTo[n \in 0..Len(seq)] ==
            IF n = 0 THEN <<>>
            ELSE IF seq[n] \in S THEN Append(upTo[n - 1], seq[n]) ELSE upTo[n - 1]
    IN  upTo[Len(seq)]

Hops == ClampTo(1, 5, ask.hops)

Limit == ClampTo(1, 500, ask.limit)

(* nodes and edges are nodes_json and edges_json, at is the queue entry    *)
(* just popped.  known, for the properties: the transactions there were    *)
(* when the walk began.                                                    *)
NewWalk(root) ==
    [root |-> root, queue |-> <<[id |-> root, depth |-> 0]>>, visited |-> {root},
     at |-> None, nodes |-> <<>>, edges |-> <<>>, known |-> Len(transactions)]

GraphInit ==
    /\ step = "idle"
    /\ ask = None
    /\ walk = None
    /\ code = None

GoTo(s) == step' = s /\ UNCHANGED <<ask, walk, code>>

GraphReply(status) ==
    /\ step' = "done"
    /\ code' = status
    /\ UNCHANGED ask

BeginWalk(root) ==
    /\ step' = "visit"
    /\ walk' = NewWalk(root)
    /\ UNCHANGED <<ask, code>>

(* A consumer without an account is turned away, an employee may look at   *)
(* any account.                                                            *)
AskForGraph(r) ==
    /\ step = "idle"
    /\ ask' = r
    /\ \/ r.role = "employee" /\ step' = "rootById" /\ UNCHANGED code
       \/ r.role = "consumer" /\ r.caller # None /\ step' = "ownById" /\ UNCHANGED code
       \/ r.role = "consumer" /\ r.caller = None /\ step' = "done" /\ code' = 403
    /\ UNCHANGED walk

(* The route's own lookup, for a consumer: find_account_by_id, then        *)
(* find_account_by_upi.                                                    *)
CheckOwnById ==
    LET found == FindAccountById(ask.root)
    IN  /\ step = "ownById"
        /\ \/ found = {} /\ GoTo("ownByUpi")
           \/ ask.caller \in found /\ GoTo("rootById")
           \/ found \ {ask.caller} # {} /\ GraphReply(403) /\ UNCHANGED walk

CheckOwnByUpi ==
    LET found == FindAccountByUpi(ask.root)
    IN  /\ step = "ownByUpi"
        /\ \/ ask.caller \in found /\ GoTo("rootById")
           \/ found # {ask.caller} /\ GraphReply(403) /\ UNCHANGED walk

(* extract_subgraph looks the root up again.  Found by its id, the root is *)
(* the string that was asked for; found by its handle, it is the account.  *)
FindRootById ==
    /\ step = "rootById"
    /\ IF FindAccountById(ask.root) = {} THEN GoTo("rootByUpi") ELSE BeginWalk(ask.root)

FindRootByUpi ==
    LET found == FindAccountByUpi(ask.root)
    IN  /\ step = "rootByUpi"
        /\ \/ \E a \in found : BeginWalk(a)
           \/ found = {} /\ GraphReply(404) /\ UNCHANGED walk

(* The queue is empty: answer; otherwise go on.                            *)
ContinueWalk(w) ==
    /\ walk' = w
    /\ IF w.queue = <<>> THEN GraphReply(200) ELSE step' = "visit" /\ UNCHANGED <<ask, code>>

Expandable(w) == w.at.depth < Hops /\ Len(w.edges) < Limit

(* Pop the queue and look the account up: it becomes a node.               *)
VisitNode ==
    LET found == FindAccountById(Head(walk.queue).id)
        popped == [walk EXCEPT !.queue = Tail(@), !.at = Head(walk.queue)]
    IN  /\ step = "visit"
        /\ \E nodes \in {Append(walk.nodes, a) : a \in found}
                            \cup {n \in {walk.nodes} : found = {}} :
            LET w == [popped EXCEPT !.nodes = nodes]
            IN  IF Expandable(w)
                THEN step' = "expand" /\ walk' = w /\ UNCHANGED <<ask, code>>
                ELSE ContinueWalk(w)

(* Mutant: the neighbour is always the receiver.                           *)
Payee(i, a) == transactions[i].receiver

Neighbour(i, a) ==
    IF transactions[i].sender = a THEN transactions[i].receiver ELSE transactions[i].sender

(* Mutant: an account is queued each time it is met.                       *)
EnqueueAgain(w, i) ==
    LET n == Neighbour(i, w.at.id)
    IN  [w EXCEPT !.queue = Append(@, [id |-> n, depth |-> w.at.depth + 1])]

Enqueue(w, i) ==
    LET n == Neighbour(i, w.at.id)
    IN  IF n \in w.visited THEN w
        ELSE [w EXCEPT !.visited = @ \cup {n},
                       !.queue = Append(@, [id |-> n, depth |-> w.at.depth + 1])]

Enqueued(w, taken) ==
    LET after[n \in 0..Len(taken)] == IF n = 0 THEN w ELSE Enqueue(after[n - 1], taken[n])
    IN  after[Len(taken)]

(* The transactions not collected yet, as many as the limit allows.        *)
Fresh(w) ==
    LET new == Picked(FindTransactionsByAccount(w.at.id), DOMAIN transactions \ ToSet(w.edges))
        room == Limit - Len(w.edges)
    IN  IF Len(new) <= room THEN new ELSE SubSeq(new, 1, room)

(* Mutant: the answer is given as soon as the limit is reached.            *)
ExpandUntilFull ==
    LET taken == Fresh(walk)
        w == Enqueued([walk EXCEPT !.edges = @ \o taken], taken)
    IN  /\ step = "expand"
        /\ IF Len(w.edges) = Limit
           THEN walk' = [w EXCEPT !.queue = <<>>] /\ GraphReply(200)
           ELSE ContinueWalk(w)

(* find_transactions_by_account of the account popped: the new ones become *)
(* edges, the accounts at their other end are queued.                      *)
ExpandNode ==
    LET taken == Fresh(walk)
    IN  /\ step = "expand"
        /\ ContinueWalk(Enqueued([walk EXCEPT !.edges = @ \o taken], taken))

GraphStep ==
    \/ CheckOwnById
    \/ CheckOwnByUpi
    \/ FindRootById
    \/ FindRootByUpi
    \/ VisitNode
    \/ ExpandNode

GraphRead == (\E r \in GraphRequests : AskForGraph(r)) \/ GraphStep

-----------------------------------------------------------------------------
(* What a subgraph is worth                                                *)

Answered == step = "done" /\ code = 200

NodeSet == ToSet(walk.nodes)

(* The accounts within n payments of a, among the first k transactions.    *)
Ball(a, n, k) ==
    LET ball[m \in 0..n] ==
            IF m = 0 THEN {a}
            ELSE ball[m - 1] \cup
                 UNION {{transactions[i].sender, transactions[i].receiver} :
                        i \in {j \in 1..k :
                            {transactions[j].sender, transactions[j].receiver}
                                \cap ball[m - 1] # {}}}
    IN  ball[n]

(* The walk keeps its types, and its queue never holds an account twice.   *)
GraphTypeOK ==
    /\ step \in {"idle", "ownById", "ownByUpi", "rootById", "rootByUpi", "visit", "expand",
                 "done"}
    /\ ask \in GraphRequests \cup {None}
    /\ code \in {None, 200, 403, 404}
    /\ walk # None =>
        /\ walk.visited \subseteq Names
        /\ NodeSet \subseteq DOMAIN accounts
        /\ ToSet(walk.edges) \subseteq DOMAIN transactions
        /\ {e.id : e \in ToSet(walk.queue)} \subseteq walk.visited
        /\ IsInjective([k \in DOMAIN walk.queue |-> walk.queue[k].id])

(* Both ends of every edge are nodes of the response, even when the limit  *)
(* cuts the walk short: the frontend can draw what it gets.                *)
EdgesJoinNodes ==
    Answered =>
        \A i \in ToSet(walk.edges) :
            {transactions[i].sender, transactions[i].receiver} \subseteq NodeSet

(* The subgraph is the one asked for.  Every payment that existed when the *)
(* walk began, and touches an account fewer than Hops payments away from   *)
(* the root, is in it unless the limit was reached; payments made          *)
(* meanwhile do not make the walk miss one.  Nothing appears twice,        *)
(* whatever cycles there are, nothing is further away than Hops payments   *)
(* and there are no more edges than the limit.  (graph_engine.hpp:16       *)
(* "Multi-hop BFS neighborhood extraction centered around an account       *)
(* node".)                                                                 *)
SubgraphExact ==
    Answered =>
        LET root  == Head(walk.nodes)
            inner == Ball(root, Hops - 1, walk.known)
        IN  /\ Len(walk.edges) < Limit =>
                \A i \in 1..walk.known :
                    {transactions[i].sender, transactions[i].receiver} \cap inner # {} =>
                        i \in ToSet(walk.edges)
            /\ IsInjective(walk.nodes) /\ IsInjective(walk.edges)
            /\ NodeSet \subseteq Ball(root, Hops, Len(transactions))
            /\ Len(walk.edges) <= Limit
=============================================================================
