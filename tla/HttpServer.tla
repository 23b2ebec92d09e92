----------------------------- MODULE HttpServer -----------------------------
(***************************************************************************)
(* The life of the HTTP server: main starts it and stops it on a signal,   *)
(* the server thread accepts connections, and a detached worker per        *)
(* connection reads one request, routes it and answers.  What the router   *)
(* does with a request is the subject of OnyxApi; here a request is a      *)
(* number of pieces that arrive one after the other, and only its last     *)
(* piece completes it (the header says how much there is to come, and says *)
(* it in digits).  Sockets and signals are those of Linux.                 *)
(***************************************************************************)
EXTENDS Integers, Sequences, FiniteSets

CONSTANTS
    Clients,      \* each makes one connection
    Dummy,        \* the connection by which stop() wakes the server thread
    None,         \* no connection
    Pieces,       \* the pieces of a whole request
    Backlog,      \* bound: connections the kernel queues (SOMAXCONN)
    WaitCycles    \* the sleeps of 20 ms stop() makes at most (15 in the code)

ASSUME HttpAssumption ==
    /\ IsFiniteSet(Clients)
    /\ Dummy \notin Clients /\ None \notin Clients /\ Dummy # None
    /\ Pieces \in Nat \ {0} /\ Backlog \in Nat \ {0} /\ WaitCycles \in Nat

Connections == Clients \cup {Dummy}

VARIABLES
    shutdown,   \* g_shutdown_requested
    running,    \* running_
    main,       \* where main() is
    loop,       \* where the server thread is
    backlog,    \* the connections the kernel has queued on the listener
    taken,      \* client_fd of the server thread
    conn,       \* conn[c]: how far connection c has come
    sent, got,  \* the pieces c has sent, the pieces its worker has read
    hungUp,     \* the clients that have closed their end in order (FIN)
    reset,      \* the clients that have reset the connection (RST)
    reply,      \* reply[c]: the answer sent, to a "whole" request or a "cut" one
    active,     \* active_workers_
    cycles      \* wait_cycles

httpVars ==
    <<shutdown, running, main, loop, backlog, taken, conn, sent, got, hungUp, reset, reply,
      active, cycles>>

(* The four groups of variables an action may leave alone together.        *)
clientVars == <<sent, hungUp, reset>>
workerVars == <<got, reply, active>>
loopVars == <<running, loop, backlog, taken>>
mainVars == <<shutdown, main, cycles>>

(* The process runs: main has not returned and no signal has killed it.    *)
Alive == main \notin {"exited", "killed"}

(* The listener exists: clients can connect.                               *)
Listening == loop \in {"check", "accepting", "accepted", "failed", "closing"}

HttpInit ==
    /\ shutdown = FALSE
    /\ running = FALSE
    /\ main = "created"
    /\ loop = "unborn"
    /\ backlog = <<>>
    /\ taken = None
    /\ conn = [c \in Connections |-> "new"]
    /\ sent = [c \in Connections |-> 0]
    /\ got = [c \in Connections |-> 0]
    /\ hungUp = {}
    /\ reset = {}
    /\ reply = [c \in Connections |-> "none"]
    /\ active = 0
    /\ cycles = 0

-----------------------------------------------------------------------------
(* Clients.  A client may stall or leave at any point.                     *)

Connect(c) ==
    /\ Listening
    /\ conn[c] = "new"
    /\ Len(backlog) < Backlog
    /\ backlog' = Append(backlog, c)
    /\ conn' = [conn EXCEPT ![c] = "queued"]

ClientConnects(c) ==
    /\ Connect(c)
    /\ UNCHANGED <<clientVars, workerVars, mainVars, running, loop, taken>>

SendPiece(c) ==
    /\ conn[c] \notin {"new", "closed"}
    /\ c \notin hungUp \cup reset
    /\ sent[c] < Pieces
    /\ sent' = [sent EXCEPT ![c] = @ + 1]
    /\ UNCHANGED <<hungUp, reset, conn, workerVars, loopVars, mainVars>>

HangUp(c) ==
    /\ conn[c] \notin {"new", "closed"}
    /\ c \notin hungUp \cup reset
    /\ hungUp' = hungUp \cup {c}
    /\ UNCHANGED <<sent, reset, conn, workerVars, loopVars, mainVars>>

(* The connection is torn down, perhaps after it was closed in order.      *)
Reset(c) ==
    /\ conn[c] \notin {"new", "closed"}
    /\ c \notin reset
    /\ reset' = reset \cup {c}
    /\ UNCHANGED <<sent, hungUp, conn, workerVars, loopVars, mainVars>>

ClientStep(c) ==
    /\ Alive
    /\ ClientConnects(c) \/ SendPiece(c) \/ HangUp(c) \/ Reset(c)

-----------------------------------------------------------------------------
(* The server thread: run_event_loop.                                      *)

(* socket, bind and listen; start() does not wait for them.                *)
OpenListener ==
    /\ loop = "opening"
    /\ \/ loop' = "check" /\ UNCHANGED running
       \/ loop' = "ended" /\ running' = FALSE
    /\ UNCHANGED <<backlog, taken, conn>>

(* The condition of the loop.                                              *)
CheckRunning ==
    /\ loop = "check"
    /\ loop' = IF running THEN "accepting" ELSE "closing"
    /\ UNCHANGED <<running, backlog, taken, conn>>

AcceptConnection ==
    /\ loop = "accepting"
    /\ backlog # <<>>
    /\ taken' = Head(backlog)
    /\ backlog' = Tail(backlog)
    /\ conn' = [conn EXCEPT ![Head(backlog)] = "taken"]
    /\ loop' = "accepted"
    /\ UNCHANGED running

(* accept returns an error.                                                *)
AcceptFails ==
    /\ loop = "accepting"
    /\ loop' = "failed"
    /\ UNCHANGED <<running, backlog, taken, conn>>

(* Mutant: an error of accept ends the loop.                               *)
FailureEndsLoop ==
    /\ loop = "failed"
    /\ loop' = "closing"
    /\ UNCHANGED <<running, backlog, taken, conn>>

AfterFailure ==
    /\ loop = "failed"
    /\ loop' = IF running THEN "check" ELSE "closing"
    /\ UNCHANGED <<running, backlog, taken, conn>>

(* Mutant: the socket handed to the worker is kept.                        *)
DispatchKeepsSocket ==
    /\ loop = "accepted"
    /\ \/ /\ running
          /\ conn' = [conn EXCEPT ![taken] = "spawned"]
          /\ loop' = "check"
       \/ /\ ~running
          /\ conn' = [conn EXCEPT ![taken] = "closed"]
          /\ loop' = "closing"
    /\ UNCHANGED <<running, backlog, taken>>

(* A connection accepted after stop() has begun is closed, any other gets  *)
(* a thread.                                                               *)
Dispatch ==
    /\ loop = "accepted"
    /\ taken' = None
    /\ \/ /\ running
          /\ conn' = [conn EXCEPT ![taken] = "spawned"]
          /\ loop' = "check"
       \/ /\ ~running
          /\ conn' = [conn EXCEPT ![taken] = "closed"]
          /\ loop' = "closing"
    /\ UNCHANGED <<running, backlog>>

(* closesocket of the listener: the kernel resets what it still has.       *)
CloseListener ==
    /\ loop = "closing"
    /\ loop' = "ended"
    /\ conn' = [c \in Connections |-> IF conn[c] = "queued" THEN "closed" ELSE conn[c]]
    /\ backlog' = <<>>
    /\ UNCHANGED <<running, taken>>

(* What the server thread does by itself; nothing makes accept fail.       *)
LoopProgress ==
    /\ Alive
    /\ \/ OpenListener
       \/ CheckRunning
       \/ AcceptConnection
       \/ AfterFailure
       \/ Dispatch
       \/ CloseListener
    /\ UNCHANGED <<clientVars, workerVars, mainVars>>

LoopStep ==
    \/ LoopProgress
    \/ Alive /\ AcceptFails /\ UNCHANGED <<clientVars, workerVars, mainVars>>

-----------------------------------------------------------------------------
(* A worker: process_client_socket.  It runs until the process ends.       *)

(* Mutant: the counter is never raised.                                    *)
EnterUncounted(c) ==
    /\ conn[c] = "spawned"
    /\ conn' = [conn EXCEPT ![c] = "reading"]
    /\ UNCHANGED <<got, reply, active>>

(* The guard counts the worker, as its first statement.                    *)
Enter(c) ==
    /\ conn[c] = "spawned"
    /\ conn' = [conn EXCEPT ![c] = "reading"]
    /\ active' = active + 1
    /\ UNCHANGED <<got, reply>>

(* recv returns some of what has arrived; a reset does not take back what  *)
(* was queued before it.                                                   *)
Receive(c) ==
    /\ conn[c] = "reading"
    /\ got[c] < Pieces
    /\ \E n \in got[c] + 1 .. sent[c] : got' = [got EXCEPT ![c] = n]
    /\ UNCHANGED <<conn, reply, active>>

(* Mutant: the length the header announces is not waited for.              *)
FinishedAfterHeader(c) == got[c] >= 1 \/ c \in hungUp \cup reset

(* The reading loop ends: the request is whole, or recv reports that the   *)
(* client has closed its end and all it sent was read, or that it has      *)
(* reset the connection, and then what was still under way is lost.        *)
Finished(c) == got[c] = Pieces \/ (c \in hungUp /\ got[c] = sent[c]) \/ c \in reset

(* send to a connection that was reset raises SIGPIPE, of which nothing    *)
(* relieves the process, unless ECONNRESET has yet to be reported: then    *)
(* send reports it.  recv has reported it if the request is not whole, and *)
(* a reset after an orderly end is reported as EPIPE.                      *)
RaisesSigpipe(c) == c \in reset /\ (got[c] < Pieces \/ c \in hungUp)

(* Route whatever was read and send the response; nothing read, nothing    *)
(* sent.  Who has reset the connection hears nothing.                      *)
Answer(c) ==
    /\ conn[c] = "reading"
    /\ Finished(c)
    /\ got[c] = 0 \/ ~RaisesSigpipe(c)
    /\ reply' = [reply EXCEPT ![c] = IF got[c] = 0 \/ c \in reset THEN "none"
                                     ELSE IF got[c] = Pieces THEN "whole" ELSE "cut"]
    /\ conn' = [conn EXCEPT ![c] = "leaving"]
    /\ UNCHANGED <<got, active>>

(* The response to a client that has reset the connection ends the         *)
(* process, and every other client's request with it.                      *)
DieOfSigpipe(c) ==
    /\ conn[c] = "reading"
    /\ Finished(c)
    /\ got[c] > 0 /\ RaisesSigpipe(c)
    /\ main' = "killed"
    /\ UNCHANGED <<shutdown, cycles, conn, workerVars>>

(* The guard is destroyed.                                                 *)
Leave(c) ==
    /\ conn[c] = "leaving"
    /\ conn' = [conn EXCEPT ![c] = "closed"]
    /\ active' = active - 1
    /\ UNCHANGED <<got, reply>>

WorkerStep(c) ==
    /\ Alive
    /\ \/ (Enter(c) \/ Receive(c) \/ Answer(c) \/ Leave(c)) /\ UNCHANGED mainVars
       \/ DieOfSigpipe(c)
    /\ UNCHANGED <<clientVars, loopVars>>

-----------------------------------------------------------------------------
(* main(): start, wait for the signal, stop, destroy.                      *)

Start ==
    /\ main = "created"
    /\ main' = "serving"
    /\ running' = TRUE
    /\ loop' = "opening"
    /\ UNCHANGED <<shutdown, cycles, backlog, taken, conn, hungUp>>

Signal ==
    /\ Alive
    /\ shutdown' = TRUE
    /\ UNCHANGED <<main, cycles, loopVars, conn, hungUp>>

(* The first lines of stop(), which returns at once if the server thread   *)
(* has already given up.                                                   *)
BeginStop ==
    /\ main = "serving"
    /\ shutdown
    /\ main' = IF running THEN "unblocking" ELSE "stopped"
    /\ running' = FALSE
    /\ UNCHANGED <<shutdown, cycles, loop, backlog, taken, conn, hungUp>>

(* Mutant: nothing wakes the server thread.                                *)
ConnectNothing ==
    /\ main = "unblocking"
    /\ main' = "joining"
    /\ UNCHANGED <<shutdown, cycles, loopVars, conn, hungUp>>

(* Connect to the own port and close: accept returns.  A listener that is  *)
(* not open yet, or no longer, refuses.                                    *)
ConnectDummy ==
    /\ main = "unblocking"
    /\ main' = "joining"
    /\ \/ Connect(Dummy) /\ hungUp' = hungUp \cup {Dummy}
       \/ ~Listening /\ UNCHANGED <<backlog, conn, hungUp>>
    /\ UNCHANGED <<shutdown, cycles, running, loop, taken>>

Join ==
    /\ main = "joining"
    /\ loop = "ended"
    /\ loop' = "joined"
    /\ main' = "draining"
    /\ UNCHANGED <<shutdown, cycles, running, backlog, taken, conn, hungUp>>

(* Sleep while a worker is counted, WaitCycles times at most.              *)
Drain ==
    /\ main = "draining"
    /\ IF active > 0 /\ cycles < WaitCycles
       THEN cycles' = cycles + 1 /\ UNCHANGED main
       ELSE main' = "stopped" /\ UNCHANGED cycles
    /\ UNCHANGED <<shutdown, loopVars, conn, hungUp>>

(* main returns: the server and its std::thread are destroyed and the      *)
(* process ends, with the workers in it.                                   *)
Exit ==
    /\ main = "stopped"
    /\ main' = "exited"
    /\ UNCHANGED <<shutdown, cycles, loopVars, conn, hungUp>>

MainStep ==
    /\ Start \/ BeginStop \/ ConnectDummy \/ Join \/ Drain \/ Exit
    /\ UNCHANGED <<sent, reset, workerVars>>

HttpNext ==
    \/ MainStep
    \/ Signal /\ UNCHANGED <<sent, reset, workerVars>>
    \/ LoopStep
    \/ \E c \in Connections : WorkerStep(c)
    \/ \E c \in Clients : ClientStep(c)

HttpSpec == HttpInit /\ [][HttpNext]_httpVars

(* The operating system schedules main, the server thread and the workers; *)
(* accept may fail, but need not, and not every time.  Clients owe nothing.*)
FairHttpSpec ==
    /\ HttpSpec
    /\ WF_httpVars(MainStep)
    /\ WF_httpVars(LoopProgress)
    /\ SF_httpVars(Alive /\ AcceptConnection /\ UNCHANGED <<clientVars, workerVars, mainVars>>)
    /\ \A c \in Connections : WF_httpVars(WorkerStep(c))

-----------------------------------------------------------------------------

(* Every variable keeps its type, the server thread holds a connection     *)
(* exactly while it decides about it, and no worker reads more than was    *)
(* sent.                                                                   *)
HttpTypeOK ==
    /\ {shutdown, running} \subseteq BOOLEAN
    /\ main \in {"created", "serving", "unblocking", "joining", "draining", "stopped", "exited",
                "killed"}
    /\ loop \in {"unborn", "opening", "check", "accepting", "accepted", "failed", "closing",
                 "ended", "joined"}
    /\ backlog \in Seq(Connections) /\ Len(backlog) <= Backlog
    /\ IF loop = "accepted" THEN taken \in Connections ELSE taken = None
    /\ conn \in [Connections ->
            {"new", "queued", "taken", "spawned", "reading", "leaving", "closed"}]
    /\ sent \in [Connections -> 0..Pieces]
    /\ got \in [Connections -> 0..Pieces]
    /\ \A c \in Connections : got[c] <= sent[c]
    /\ hungUp \subseteq Connections /\ reset \subseteq Clients
    /\ reply \in [Connections -> {"none", "whole", "cut"}]
    /\ active \in Nat
    /\ cycles \in 0..WaitCycles

(* A client that stays connected, or that closes its end in order after it *)
(* has sent everything, is answered for its whole request, however the     *)
(* request is cut into segments and however slowly they come.              *)
PatientClientHeard ==
    \A c \in Connections : reply[c] = "cut" => c \in hungUp /\ sent[c] < Pieces

(* stop() gives up waiting before its time only when no worker that has    *)
(* begun is still at work.  (http_server.cpp:84.)                          *)
DrainSeesWorkers ==
    [][main = "draining" /\ main' = "stopped" /\ cycles < WaitCycles =>
            \A c \in Connections : conn[c] \notin {"reading", "leaving"}]_httpVars

(* After a signal the process ends, whatever its clients do: a client that *)
(* never sends its request delays the end and does not prevent it, and the *)
(* server thread is always woken.                                          *)
StopReturns == shutdown ~> ~Alive

(* A client that has sent its request and stays, or closes its end in      *)
(* order, is answered, unless the server is told to stop or a client that  *)
(* reset its connection kills it: no error of accept and no number of      *)
(* stalled clients keeps it from a worker.                                 *)
ClientsServed ==
    \A c \in Clients :
        (sent[c] = Pieces /\ c \notin reset)
            ~> (reply[c] = "whole" \/ c \in reset \/ shutdown \/ main = "killed")

-----------------------------------------------------------------------------
(* What the documents and the log say of the server.                       *)

(* A process that ended before the 300 ms were over left no connection it  *)
(* had accepted without a worker that finished.  (http_server.cpp:84 "Wait *)
(* up to 300ms for in-flight client workers to complete".)                 *)
InFlightDrained ==
    main = "exited" /\ cycles < WaitCycles =>
        \A c \in Connections : conn[c] \notin {"spawned", "reading"}

(* The server thread has been joined when its std::thread is destroyed;    *)
(* std::thread's destructor ends the process otherwise.  (main.cpp:452     *)
(* "Server stopped cleanly.")                                              *)
JoinedBeforeDestroyed == main = "exited" => loop = "joined"
=============================================================================
