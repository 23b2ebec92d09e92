----------------------------- MODULE MCReaders -----------------------------
(***************************************************************************)
(* Payments that form a path, a fork and a cycle between the accounts of   *)
(* MCOnyx, and the subgraphs and reports asked for while they are made.    *)
(***************************************************************************)
EXTENDS Reports, MCOnyx

ChainRequests ==
    {Transfer("acc-alice", "bob@upi", 10000),
     Transfer("acc-bob", "mule@upi", 10000),
     Transfer("acc-bob", "alice@upi", 10000),
     Transfer("acc-alice", "mule@upi", 10000),
     Moderate("acc-mule", "ACTIVE"),
     Complain("acc-alice", "new@upi", NoTx),
     Complain("acc-bob", "mule@upi", NoTx)}

Explore(role, caller, root, hops, limit) ==
    [role |-> role, caller |-> caller, root |-> root, hops |-> hops, limit |-> limit]

MCGraphRequests ==
    {Explore("employee", None, "acc-alice", 1, 100),
     Explore("employee", None, "mule@upi", 7, 1000),
     Explore("employee", None, "acc-bob", 0, 2),
     Explore("employee", None, "acc-alice", 2, 0),
     Explore("employee", None, "new@upi", 2, 100),
     Explore("consumer", "acc-alice", "alice@upi", 2, 100),
     Explore("consumer", "acc-bob", "bob@upi", 5, 2),
     Explore("consumer", "acc-alice", "bob@upi", 2, 100),
     Explore("consumer", "acc-alice", "acc-bob", 2, 100),
     Explore("consumer", "acc-alice", "raj", 2, 100),
     Explore("consumer", None, "acc-alice", 2, 100)}

Query(kind, role, caller) == [kind |-> kind, role |-> role, caller |-> caller]

QueryOf(kind, role, caller, tx) == [kind |-> kind, role |-> role, caller |-> caller, tx |-> tx]

Cases(filter, limit) == [kind |-> "cases", filter |-> filter, limit |-> limit]

MCReportRequests ==
    {[kind |-> "verify", name |-> n] : n \in {"", "alice@upi", "ACC-ALICE", "acc-mule", "raj", "new@upi"}}
    \cup {QueryOf("flagDetails", "consumer", "acc-alice", 1),
          QueryOf("flagDetails", "consumer", None, 1),
          QueryOf("transaction", "consumer", "acc-mule", 1),
          QueryOf("transaction", "employee", None, 2)}
    \cup {Query("history", "consumer", "acc-alice"),
          Query("history", "consumer", None),
          Query("history", "employee", None)}
    \cup {[kind |-> k] : k \in {"metrics", "audit", "stats"}}
    \cup {[kind |-> "directory", limit |-> 2, offset |-> 1],
          [kind |-> "directory", limit |-> 0, offset |-> 5]}
    \cup {Cases(None, 50), Cases("SUBMITTED", 0), [kind |-> "case", complaint |-> "CMP-1"]}
=============================================================================
