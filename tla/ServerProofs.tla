---------------------------- MODULE ServerProofs ----------------------------
(***************************************************************************)
(* Proofs about HttpServer: its counter is exact, so that the end of the   *)
(* drain says what it seems to say.                                        *)
(***************************************************************************)
EXTENDS HttpServer, FiniteSetTheorems, SequenceTheorems, TLAPS

(* The connections whose worker is inside the scope of the guard.          *)
Busy == {c \in Connections : conn[c] \in {"reading", "leaving"}}

(* The counter is what it counts.                                          *)
Counted == active = Cardinality(Busy)

(* A queued connection is queued once and has no worker.                   *)
Queued ==
    /\ \A i \in 1 .. Len(backlog) : conn[backlog[i]] = "queued"
    /\ \A i, j \in 1 .. Len(backlog) : backlog[i] = backlog[j] => i = j

(* Nor has the one the server thread holds.                                *)
Held == loop = "accepted" => conn[taken] = "taken"

HttpInv == HttpTypeOK /\ Counted /\ Queued /\ Held

-----------------------------------------------------------------------------
LEMMA BusyFinite ==
    IsFiniteSet(Busy) /\ Cardinality(Busy) \in Nat
<1>1. IsFiniteSet(Connections)
  BY HttpAssumption, FS_AddElement, FS_Singleton, FS_Union DEF Connections
<1>2. Busy \subseteq Connections
  BY DEF Busy
<1> QED
  BY <1>1, <1>2, FS_Subset, FS_CardinalityType

(* A step that moves connections outside the guard keeps the count.        *)
LEMMA CountKept ==
    ASSUME Counted, active' = active,
           \A c \in Connections :
              conn'[c] \in {"reading", "leaving"} <=> conn[c] \in {"reading", "leaving"}
    PROVE  Counted'
<1>1. Busy' = Busy
  BY DEF Busy
<1> QED
  BY <1>1 DEF Counted

LEMMA InvInit ==
    HttpInit => HttpInv
<1> SUFFICES ASSUME HttpInit
             PROVE  HttpInv
  OBVIOUS
<1>1. HttpTypeOK
  <2>1. backlog \in Seq(Connections) /\ Len(backlog) <= Backlog
    BY HttpAssumption DEF HttpInit
  <2>2. {shutdown, running} \subseteq BOOLEAN
    BY DEF HttpInit
  <2>3. /\ sent \in [Connections -> 0 .. Pieces] /\ got \in [Connections -> 0 .. Pieces]
        /\ \A c \in Connections : got[c] <= sent[c]
        /\ cycles \in 0 .. WaitCycles /\ active \in Nat
    BY HttpAssumption DEF HttpInit
  <2> QED
    BY <2>1, <2>2, <2>3 DEF HttpInit, HttpTypeOK
<1>2. Busy = {}
  BY DEF HttpInit, Busy
<1>3. Counted
  BY <1>2, FS_EmptySet DEF HttpInit, Counted
<1>4. Queued /\ Held
  BY DEF HttpInit, Queued, Held
<1> QED
  BY <1>1, <1>3, <1>4 DEF HttpInv

-----------------------------------------------------------------------------
(* A new connection, of a client or of stop().                             *)
LEMMA ConnectKeeps ==
    ASSUME HttpInv, NEW c \in Connections, Connect(c),
           UNCHANGED <<loop, taken, active>>
    PROVE  /\ Counted' /\ Queued' /\ Held'
           /\ backlog' \in Seq(Connections) /\ Len(backlog') <= Backlog
           /\ conn' \in [Connections ->
                 {"new", "queued", "taken", "spawned", "reading", "leaving", "closed"}]
<1>0. /\ backlog \in Seq(Connections) /\ Len(backlog) \in Nat
      /\ conn \in [Connections ->
                 {"new", "queued", "taken", "spawned", "reading", "leaving", "closed"}]
      /\ conn[c] = "new" /\ Len(backlog) < Backlog
      /\ backlog' = Append(backlog, c) /\ conn' = [conn EXCEPT ![c] = "queued"]
  BY DEF HttpInv, HttpTypeOK, Connect
<1>1. conn' \in [Connections ->
                 {"new", "queued", "taken", "spawned", "reading", "leaving", "closed"}]
  BY <1>0
<1>2. /\ backlog' \in Seq(Connections) /\ Len(backlog') = Len(backlog) + 1
      /\ \A i \in 1 .. Len(backlog) : backlog'[i] = backlog[i]
      /\ backlog'[Len(backlog) + 1] = c
  BY <1>0, AppendProperties
<1>3. \A i \in 1 .. Len(backlog) : backlog[i] # c /\ conn[backlog[i]] = "queued" /\ backlog[i] \in Connections
  BY <1>0 DEF HttpInv, Queued
<1>4. Queued'
  <2>1. ASSUME NEW i \in 1 .. Len(backlog')
        PROVE  conn'[backlog'[i]] = "queued"
    <3>1. CASE i \in 1 .. Len(backlog)
      BY <1>0, <1>2, <1>3, <3>1
    <3>2. CASE i = Len(backlog) + 1
      BY <1>0, <1>2, <3>2
    <3> QED
      BY <1>0, <1>2, <3>1, <3>2
  <2>2. ASSUME NEW i \in 1 .. Len(backlog'), NEW j \in 1 .. Len(backlog'), backlog'[i] = backlog'[j]
        PROVE  i = j
    <3>1. i \in 1 .. Len(backlog) \/ i = Len(backlog) + 1
      BY <1>0, <1>2
    <3>2. j \in 1 .. Len(backlog) \/ j = Len(backlog) + 1
      BY <1>0, <1>2
    <3>3. CASE i \in 1 .. Len(backlog) /\ j \in 1 .. Len(backlog)
      BY <1>2, <2>2, <3>3 DEF HttpInv, Queued
    <3> QED
      BY <1>2, <1>3, <2>2, <3>1, <3>2, <3>3
  <2> QED
    BY <2>1, <2>2 DEF Queued
<1>5. Counted'
  <2>1. \A d \in Connections :
            conn'[d] \in {"reading", "leaving"} <=> conn[d] \in {"reading", "leaving"}
    BY <1>0
  <2> QED
    BY <2>1, CountKept DEF HttpInv
<1>6. Held'
  BY <1>0 DEF HttpInv, HttpTypeOK, Held
<1>7. Len(backlog') <= Backlog
  BY <1>0, <1>2, HttpAssumption
<1> QED
  BY <1>1, <1>2, <1>4, <1>5, <1>6, <1>7

LEMMA ClientKeeps ==
    ASSUME HttpInv, NEW c \in Clients, ClientStep(c)
    PROVE  HttpInv'
<1>0. c \in Connections
  BY DEF Connections
<1>1. CASE ClientConnects(c)
  <2>1. /\ Counted' /\ Queued' /\ Held'
        /\ backlog' \in Seq(Connections) /\ Len(backlog') <= Backlog
        /\ conn' \in [Connections ->
                 {"new", "queued", "taken", "spawned", "reading", "leaving", "closed"}]
    <3>1. Connect(c) /\ UNCHANGED <<loop, taken, active>>
      BY <1>1 DEF ClientConnects, Connect, workerVars, loopVars
    <3> QED
      BY <1>0, <3>1, ConnectKeeps
  <2>2. UNCHANGED <<shutdown, running, main, loop, taken, sent, got, hungUp, reset, reply, active, cycles>>
    BY <1>1 DEF ClientConnects, Connect, clientVars, workerVars, mainVars
  <2> QED
    BY <2>1, <2>2 DEF HttpInv, HttpTypeOK
<1>2. CASE SendPiece(c)
  <2>1. sent' = [sent EXCEPT ![c] = @ + 1] /\ sent[c] < Pieces
    BY <1>2 DEF SendPiece
  <2>2. UNCHANGED <<hungUp, reset, conn, got, reply, active, running, loop, backlog, taken,
                    shutdown, main, cycles>>
    BY <1>2 DEF SendPiece, workerVars, loopVars, mainVars
  <2>3. sent' \in [Connections -> 0 .. Pieces] /\ \A d \in Connections : got[d] <= sent'[d]
    BY <1>0, <2>1, HttpAssumption DEF HttpInv, HttpTypeOK
  <2> QED
    BY <2>2, <2>3 DEF HttpInv, HttpTypeOK, Counted, Busy, Queued, Held
<1>3. CASE HangUp(c)
  <2>1. hungUp' = hungUp \cup {c}
    BY <1>3 DEF HangUp
  <2>2. UNCHANGED <<sent, reset, conn, got, reply, active, running, loop, backlog, taken,
                    shutdown, main, cycles>>
    BY <1>3 DEF HangUp, workerVars, loopVars, mainVars
  <2> QED
    BY <1>0, <2>1, <2>2 DEF HttpInv, HttpTypeOK, Counted, Busy, Queued, Held
<1>4. CASE Reset(c)
  <2>1. reset' = reset \cup {c}
    BY <1>4 DEF Reset
  <2>2. UNCHANGED <<sent, hungUp, conn, got, reply, active, running, loop, backlog, taken,
                    shutdown, main, cycles>>
    BY <1>4 DEF Reset, workerVars, loopVars, mainVars
  <2> QED
    BY <2>1, <2>2 DEF HttpInv, HttpTypeOK, Counted, Busy, Queued, Held
<1> QED
  BY <1>1, <1>2, <1>3, <1>4 DEF ClientStep

-----------------------------------------------------------------------------
(* The server thread.                                                      *)

(* Only conn and the thread's own variables change.                        *)
LEMMA LoopTypes ==
    ASSUME HttpTypeOK,
           UNCHANGED <<shutdown, main, sent, got, hungUp, reset, reply, active, cycles>>,
           running' \in BOOLEAN,
           loop' \in {"check", "accepting", "accepted", "failed", "closing", "ended"},
           backlog' \in Seq(Connections), Len(backlog') <= Backlog,
           IF loop' = "accepted" THEN taken' \in Connections ELSE taken' = None,
           conn' \in [Connections ->
                {"new", "queued", "taken", "spawned", "reading", "leaving", "closed"}]
    PROVE  HttpTypeOK'
<1>1. {shutdown, running}' \subseteq BOOLEAN
  BY DEF HttpTypeOK
<1> QED
  BY <1>1 DEF HttpTypeOK

(* A step of it that neither accepts, nor hands over, nor closes.          *)
LEMMA LoopMoves ==
    ASSUME HttpInv,
           UNCHANGED <<shutdown, main, sent, got, hungUp, reset, reply, active, cycles>>,
           UNCHANGED <<backlog, taken, conn>>,
           running' \in BOOLEAN, loop # "accepted",
           loop' \in {"check", "accepting", "failed", "closing", "ended"}
    PROVE  HttpInv'
<1>1. HttpTypeOK'
  <2>1. /\ backlog' \in Seq(Connections) /\ Len(backlog') <= Backlog /\ taken' = None
        /\ conn' \in [Connections ->
                {"new", "queued", "taken", "spawned", "reading", "leaving", "closed"}]
    BY DEF HttpInv, HttpTypeOK
  <2> QED
    BY <2>1, LoopTypes DEF HttpInv
<1>2. Counted' /\ Queued' /\ Held'
  BY DEF HttpInv, Counted, Busy, Queued, Held
<1> QED
  BY <1>1, <1>2 DEF HttpInv

LEMMA AcceptKeeps ==
    ASSUME HttpInv, AcceptConnection,
           UNCHANGED <<shutdown, main, sent, got, hungUp, reset, reply, active, cycles>>
    PROVE  HttpInv'
<1> DEFINE h == Head(backlog)
<1>0. /\ backlog \in Seq(Connections) /\ Len(backlog) \in Nat /\ Len(backlog) <= Backlog
      /\ backlog # <<>> /\ backlog' = Tail(backlog)
      /\ taken' = h /\ loop' = "accepted" /\ running' = running
      /\ conn \in [Connections ->
                {"new", "queued", "taken", "spawned", "reading", "leaving", "closed"}]
      /\ conn' = [conn EXCEPT ![h] = "taken"]
  BY DEF HttpInv, HttpTypeOK, AcceptConnection
<1>1. /\ h \in Connections /\ h = backlog[1] /\ Len(backlog) >= 1
      /\ backlog' \in Seq(Connections) /\ Len(backlog') = Len(backlog) - 1
      /\ \A i \in 1 .. Len(backlog') : backlog'[i] = backlog[i + 1]
  BY <1>0, HeadTailProperties
<1>2. \A i \in 1 .. Len(backlog) : conn[backlog[i]] = "queued" /\ backlog[i] \in Connections
  BY <1>0 DEF HttpInv, Queued
<1> HIDE DEF h
<1>3. conn[h] = "queued"
  BY <1>0, <1>1, <1>2
<1>4. Queued'
  <2>1. ASSUME NEW i \in 1 .. Len(backlog')
        PROVE  i + 1 \in 1 .. Len(backlog) /\ backlog'[i] = backlog[i + 1] /\ backlog[i + 1] # h
    <3>1. i + 1 \in 1 .. Len(backlog) /\ 1 \in 1 .. Len(backlog) /\ i + 1 # 1
      BY <1>0, <1>1
    <3>2. backlog[i + 1] # backlog[1]
      BY <3>1 DEF HttpInv, Queued
    <3> QED
      BY <1>1, <3>1, <3>2
  <2>2. \A i \in 1 .. Len(backlog') : conn'[backlog'[i]] = "queued"
    BY <1>0, <1>2, <2>1
  <2>3. ASSUME NEW i \in 1 .. Len(backlog'), NEW j \in 1 .. Len(backlog'), backlog'[i] = backlog'[j]
        PROVE  i = j
    <3>1. backlog[i + 1] = backlog[j + 1] /\ i + 1 \in 1 .. Len(backlog) /\ j + 1 \in 1 .. Len(backlog)
      BY <2>1, <2>3
    <3>2. i + 1 = j + 1
      BY <3>1 DEF HttpInv, Queued
    <3> QED
      BY <1>0, <1>1, <3>2
  <2> QED
    BY <2>2, <2>3 DEF Queued
<1>5. Held'
  BY <1>0, <1>1 DEF Held
<1>6. Counted'
  <2>1. \A d \in Connections :
            conn'[d] \in {"reading", "leaving"} <=> conn[d] \in {"reading", "leaving"}
    BY <1>0, <1>3
  <2> QED
    BY <2>1, CountKept DEF HttpInv
<1>7. HttpTypeOK'
  <2>1. conn' \in [Connections ->
                {"new", "queued", "taken", "spawned", "reading", "leaving", "closed"}]
    BY <1>0, <1>1
  <2>2. Len(backlog') <= Backlog
    BY <1>0, <1>1, HttpAssumption
  <2>3. running' \in BOOLEAN
    BY <1>0 DEF HttpInv, HttpTypeOK
  <2> QED
    BY <1>0, <1>1, <2>1, <2>2, <2>3, LoopTypes DEF HttpInv
<1> QED
  BY <1>4, <1>5, <1>6, <1>7 DEF HttpInv

LEMMA DispatchKeeps ==
    ASSUME HttpInv, Dispatch,
           UNCHANGED <<shutdown, main, sent, got, hungUp, reset, reply, active, cycles>>
    PROVE  HttpInv'
<1>0. /\ backlog \in Seq(Connections) /\ Len(backlog) <= Backlog
      /\ loop = "accepted" /\ taken \in Connections /\ conn[taken] = "taken"
      /\ taken' = None /\ UNCHANGED <<running, backlog>>
      /\ running \in BOOLEAN
      /\ conn \in [Connections ->
                {"new", "queued", "taken", "spawned", "reading", "leaving", "closed"}]
  BY DEF HttpInv, HttpTypeOK, Held, Dispatch
<1>1. PICK to \in {"spawned", "closed"} : conn' = [conn EXCEPT ![taken] = to]
  BY DEF Dispatch
<1>2. loop' \in {"check", "closing"}
  BY DEF Dispatch
<1>3. HttpTypeOK'
  <2>1. conn' \in [Connections ->
                {"new", "queued", "taken", "spawned", "reading", "leaving", "closed"}]
    BY <1>0, <1>1
  <2> QED
    BY <1>0, <1>2, <2>1, LoopTypes DEF HttpInv
<1>4. Counted'
  <2>1. \A d \in Connections :
            conn'[d] \in {"reading", "leaving"} <=> conn[d] \in {"reading", "leaving"}
    BY <1>0, <1>1
  <2> QED
    BY <2>1, CountKept DEF HttpInv
<1>5. Queued'
  <2>1. \A i \in 1 .. Len(backlog) : conn[backlog[i]] = "queued" /\ backlog[i] \in Connections
    BY <1>0 DEF HttpInv, Queued
  <2>2. \A i \in 1 .. Len(backlog) : conn'[backlog[i]] = "queued"
    BY <1>0, <1>1, <2>1
  <2> QED
    BY <1>0, <2>2 DEF HttpInv, Queued
<1>6. Held'
  BY <1>2 DEF Held
<1> QED
  BY <1>3, <1>4, <1>5, <1>6 DEF HttpInv

LEMMA CloseKeeps ==
    ASSUME HttpInv, CloseListener,
           UNCHANGED <<shutdown, main, sent, got, hungUp, reset, reply, active, cycles>>
    PROVE  HttpInv'
<1>0. /\ loop = "closing" /\ loop' = "ended" /\ backlog' = <<>>
      /\ conn' = [c \in Connections |-> IF conn[c] = "queued" THEN "closed" ELSE conn[c]]
      /\ UNCHANGED <<running, taken>>
      /\ taken = None /\ running \in BOOLEAN
      /\ conn \in [Connections ->
                {"new", "queued", "taken", "spawned", "reading", "leaving", "closed"}]
  BY DEF HttpInv, HttpTypeOK, CloseListener
<1>1. HttpTypeOK'
  <2>1. conn' \in [Connections ->
                {"new", "queued", "taken", "spawned", "reading", "leaving", "closed"}]
    BY <1>0
  <2>2. backlog' \in Seq(Connections) /\ Len(backlog') <= Backlog
    BY <1>0, HttpAssumption
  <2> QED
    BY <1>0, <2>1, <2>2, LoopTypes DEF HttpInv
<1>2. Counted'
  <2>1. \A d \in Connections :
            conn'[d] \in {"reading", "leaving"} <=> conn[d] \in {"reading", "leaving"}
    BY <1>0
  <2> QED
    BY <2>1, CountKept DEF HttpInv
<1>3. Queued' /\ Held'
  BY <1>0 DEF Queued, Held
<1> QED
  BY <1>1, <1>2, <1>3 DEF HttpInv

LEMMA LoopKeeps ==
    ASSUME HttpInv, LoopStep
    PROVE  HttpInv'
<1>1. UNCHANGED <<shutdown, main, sent, got, hungUp, reset, reply, active, cycles>>
  BY DEF LoopStep, LoopProgress, clientVars, workerVars, mainVars
<1>2. running \in BOOLEAN
  BY DEF HttpInv, HttpTypeOK
<1>3. CASE OpenListener
  BY <1>1, <1>2, <1>3, LoopMoves DEF OpenListener
<1>4. CASE CheckRunning
  BY <1>1, <1>2, <1>4, LoopMoves DEF CheckRunning
<1>5. CASE AcceptConnection
  BY <1>1, <1>5, AcceptKeeps
<1>6. CASE AfterFailure
  BY <1>1, <1>2, <1>6, LoopMoves DEF AfterFailure
<1>7. CASE Dispatch
  BY <1>1, <1>7, DispatchKeeps
<1>8. CASE CloseListener
  BY <1>1, <1>8, CloseKeeps
<1>9. CASE AcceptFails
  BY <1>1, <1>2, <1>9, LoopMoves DEF AcceptFails
<1> QED
  BY <1>3, <1>4, <1>5, <1>6, <1>7, <1>8, <1>9 DEF LoopStep, LoopProgress

-----------------------------------------------------------------------------
(* The workers.                                                            *)

(* No worker's connection is queued or held.                               *)
LEMMA WorkerMoves ==
    ASSUME HttpInv, NEW c \in Connections, NEW to \in {"reading", "leaving", "closed"},
           conn[c] \in {"spawned", "reading", "leaving"},
           conn' = [conn EXCEPT ![c] = to],
           UNCHANGED <<loop, backlog, taken>>
    PROVE  /\ Queued' /\ Held'
           /\ conn' \in [Connections ->
                {"new", "queued", "taken", "spawned", "reading", "leaving", "closed"}]
<1>0. /\ backlog \in Seq(Connections)
      /\ conn \in [Connections ->
                {"new", "queued", "taken", "spawned", "reading", "leaving", "closed"}]
  BY DEF HttpInv, HttpTypeOK
<1>1. Queued'
  <2>1. \A i \in 1 .. Len(backlog) : conn[backlog[i]] = "queued" /\ backlog[i] \in Connections
    BY <1>0 DEF HttpInv, Queued
  <2>2. \A i \in 1 .. Len(backlog) : conn'[backlog[i]] = "queued"
    BY <1>0, <2>1
  <2> QED
    BY <1>0, <2>2 DEF HttpInv, Queued
<1>2. Held'
  <2> SUFFICES ASSUME loop = "accepted"
               PROVE  conn'[taken] = "taken"
    BY DEF Held
  <2>1. taken \in Connections /\ conn[taken] = "taken"
    BY DEF HttpInv, HttpTypeOK, Held
  <2> QED
    BY <1>0, <2>1
<1> QED
  BY <1>0, <1>1, <1>2

(* Everything but conn, got, reply and the counter stays.                  *)
LEMMA WorkerTypes ==
    ASSUME HttpTypeOK,
           UNCHANGED <<shutdown, main, running, loop, backlog, taken, sent, hungUp, reset, cycles>>,
           conn' \in [Connections ->
                {"new", "queued", "taken", "spawned", "reading", "leaving", "closed"}],
           got' \in [Connections -> 0 .. Pieces],
           \A d \in Connections : got'[d] <= sent[d],
           reply' \in [Connections -> {"none", "whole", "cut"}],
           active' \in Nat
    PROVE  HttpTypeOK'
BY DEF HttpTypeOK

LEMMA WorkerKeeps ==
    ASSUME HttpInv, NEW c \in Connections, WorkerStep(c)
    PROVE  HttpInv'
<1>0. /\ UNCHANGED <<shutdown, running, loop, backlog, taken, sent, hungUp, reset, cycles>>
      /\ HttpTypeOK
      /\ conn \in [Connections ->
                {"new", "queued", "taken", "spawned", "reading", "leaving", "closed"}]
      /\ sent \in [Connections -> 0 .. Pieces] /\ got \in [Connections -> 0 .. Pieces]
      /\ \A d \in Connections : got[d] <= sent[d]
      /\ reply \in [Connections -> {"none", "whole", "cut"}]
      /\ active \in Nat
  <2>1. UNCHANGED <<running, loop, backlog, taken, sent, hungUp, reset>>
    BY DEF WorkerStep, clientVars, loopVars
  <2>2. UNCHANGED <<shutdown, cycles>>
    BY DEF WorkerStep, DieOfSigpipe, mainVars
  <2> QED
    BY <2>1, <2>2 DEF HttpInv, HttpTypeOK
<1>1. IsFiniteSet(Busy) /\ Cardinality(Busy) \in Nat /\ active = Cardinality(Busy)
  BY BusyFinite DEF HttpInv, Counted
<1>2. CASE Enter(c) /\ UNCHANGED mainVars
  <2>. UNCHANGED main
    BY <1>2 DEF mainVars
  <2>0. /\ conn[c] = "spawned" /\ conn' = [conn EXCEPT ![c] = "reading"]
        /\ active' = active + 1 /\ UNCHANGED <<got, reply>>
    BY <1>2 DEF Enter
  <2>1. Queued' /\ Held'
           /\ conn' \in [Connections ->
                {"new", "queued", "taken", "spawned", "reading", "leaving", "closed"}]
    BY <1>0, <2>0, WorkerMoves
  <2>2. Busy' = Busy \cup {c} /\ c \notin Busy
    BY <1>0, <2>0 DEF Busy
  <2>3. Counted'
    BY <1>1, <2>0, <2>2, FS_AddElement DEF Counted
  <2>4. HttpTypeOK'
    BY <1>0, <2>0, <2>1, WorkerTypes
  <2> QED
    BY <2>1, <2>3, <2>4 DEF HttpInv
<1>3. CASE Receive(c) /\ UNCHANGED mainVars
  <2>. UNCHANGED main
    BY <1>3 DEF mainVars
  <2>0. UNCHANGED <<conn, reply, active>>
    BY <1>3 DEF Receive
  <2>1. PICK n \in got[c] + 1 .. sent[c] : got' = [got EXCEPT ![c] = n]
    BY <1>3 DEF Receive
  <2>2. n \in 0 .. Pieces /\ n <= sent[c]
    BY <1>0, <2>1, HttpAssumption
  <2>3. got' \in [Connections -> 0 .. Pieces] /\ \A d \in Connections : got'[d] <= sent[d]
    BY <1>0, <2>1, <2>2
  <2>4. HttpTypeOK'
    BY <1>0, <2>0, <2>3, WorkerTypes
  <2>5. Counted' /\ Queued' /\ Held'
    BY <1>0, <2>0 DEF HttpInv, Counted, Busy, Queued, Held
  <2> QED
    BY <2>4, <2>5 DEF HttpInv
<1>4. CASE Answer(c) /\ UNCHANGED mainVars
  <2>. UNCHANGED main
    BY <1>4 DEF mainVars
  <2>0. /\ conn[c] = "reading" /\ conn' = [conn EXCEPT ![c] = "leaving"]
        /\ UNCHANGED <<got, active>>
        /\ reply' \in [Connections -> {"none", "whole", "cut"}]
    BY <1>0, <1>4 DEF Answer
  <2>1. Queued' /\ Held'
           /\ conn' \in [Connections ->
                {"new", "queued", "taken", "spawned", "reading", "leaving", "closed"}]
    BY <1>0, <2>0, WorkerMoves
  <2>2. \A d \in Connections :
            conn'[d] \in {"reading", "leaving"} <=> conn[d] \in {"reading", "leaving"}
    BY <1>0, <2>0
  <2>3. Counted'
    BY <2>0, <2>2, CountKept DEF HttpInv
  <2>4. HttpTypeOK'
    BY <1>0, <2>0, <2>1, WorkerTypes
  <2> QED
    BY <2>1, <2>3, <2>4 DEF HttpInv
<1>5. CASE Leave(c) /\ UNCHANGED mainVars
  <2>. UNCHANGED main
    BY <1>5 DEF mainVars
  <2>0. /\ conn[c] = "leaving" /\ conn' = [conn EXCEPT ![c] = "closed"]
        /\ active' = active - 1 /\ UNCHANGED <<got, reply>>
    BY <1>5 DEF Leave
  <2>1. Queued' /\ Held'
           /\ conn' \in [Connections ->
                {"new", "queued", "taken", "spawned", "reading", "leaving", "closed"}]
    BY <1>0, <2>0, WorkerMoves
  <2>2. Busy' = Busy \ {c} /\ c \in Busy
    BY <1>0, <2>0 DEF Busy
  <2>3. Cardinality(Busy \ {c}) = Cardinality(Busy) - 1 /\ Cardinality(Busy \ {c}) \in Nat
    BY <1>1, <2>2, FS_RemoveElement, FS_CardinalityType
  <2>4. Counted' /\ active' \in Nat
    BY <1>1, <2>0, <2>2, <2>3 DEF Counted
  <2>5. HttpTypeOK'
    BY <1>0, <2>0, <2>1, <2>4, WorkerTypes
  <2> QED
    BY <2>1, <2>4, <2>5 DEF HttpInv
<1>6. CASE DieOfSigpipe(c)
  <2>1. main' = "killed" /\ UNCHANGED <<conn, got, reply, active>>
    BY <1>6 DEF DieOfSigpipe, workerVars
  <2>2. HttpTypeOK'
    BY <1>0, <2>1 DEF HttpTypeOK
  <2>3. Counted' /\ Queued' /\ Held'
    BY <1>0, <2>1 DEF HttpInv, Counted, Busy, Queued, Held
  <2> QED
    BY <2>2, <2>3 DEF HttpInv
<1> QED
  BY <1>2, <1>3, <1>4, <1>5, <1>6 DEF WorkerStep

-----------------------------------------------------------------------------
(* main().                                                                 *)

(* There is no server thread before start().                               *)
Unborn == main = "created" => loop = "unborn"

(* What main does to itself, to the flags and to the thread it joins.      *)
LEMMA MainMoves ==
    ASSUME HttpInv,
           UNCHANGED <<sent, reset, got, reply, active, backlog, taken, conn, hungUp>>,
           shutdown' \in BOOLEAN, running' \in BOOLEAN, cycles' \in 0 .. WaitCycles,
           main' \in {"created", "serving", "unblocking", "joining", "draining", "stopped", "exited",
                      "killed"},
           \/ loop' = loop
           \/ loop \in {"unborn", "ended"} /\ loop' \in {"opening", "joined"}
    PROVE  HttpInv'
<1>1. {shutdown, running}' \subseteq BOOLEAN
  OBVIOUS
<1>2. HttpTypeOK'
  BY <1>1 DEF HttpInv, HttpTypeOK
<1>3. Counted' /\ Queued' /\ Held'
  BY DEF HttpInv, Counted, Busy, Queued, Held
<1> QED
  BY <1>2, <1>3 DEF HttpInv

LEMMA MainKeeps ==
    ASSUME HttpInv, Unborn, MainStep \/ (Signal /\ UNCHANGED <<sent, reset, workerVars>>)
    PROVE  HttpInv'
<1>0. /\ UNCHANGED <<sent, reset, got, reply, active>>
      /\ shutdown \in BOOLEAN /\ running \in BOOLEAN /\ cycles \in 0 .. WaitCycles
      /\ main \in {"created", "serving", "unblocking", "joining", "draining", "stopped", "exited",
                  "killed"}
  BY DEF HttpInv, HttpTypeOK, MainStep, workerVars
<1>1. CASE Start
  <2>1. loop = "unborn" /\ loop' = "opening" /\ running' = TRUE /\ main' = "serving"
           /\ UNCHANGED <<shutdown, cycles, backlog, taken, conn, hungUp>>
    BY <1>1 DEF Start, Unborn
  <2> QED
    BY <1>0, <2>1, MainMoves
<1>2. CASE Signal
  <2>1. shutdown' = TRUE /\ UNCHANGED <<main, cycles, running, loop, backlog, taken, conn, hungUp>>
    BY <1>2 DEF Signal, loopVars
  <2> QED
    BY <1>0, <2>1, MainMoves
<1>3. CASE BeginStop
  <2>1. main' \in {"unblocking", "stopped"} /\ running' = FALSE
           /\ UNCHANGED <<shutdown, cycles, loop, backlog, taken, conn, hungUp>>
    BY <1>3 DEF BeginStop
  <2> QED
    BY <1>0, <2>1, MainMoves
<1>4. CASE ConnectDummy
  <2>0. main' = "joining" /\ UNCHANGED <<shutdown, cycles, running, loop, taken>>
    BY <1>4 DEF ConnectDummy
  <2>1. CASE Connect(Dummy) /\ hungUp' = hungUp \cup {Dummy}
    <3>1. Dummy \in Connections
      BY DEF Connections
    <3>2. /\ Counted' /\ Queued' /\ Held'
          /\ backlog' \in Seq(Connections) /\ Len(backlog') <= Backlog
          /\ conn' \in [Connections ->
                 {"new", "queued", "taken", "spawned", "reading", "leaving", "closed"}]
      BY <1>0, <2>0, <2>1, <3>1, ConnectKeeps
    <3>3. HttpTypeOK'
      BY <1>0, <2>0, <2>1, <3>1, <3>2 DEF HttpInv, HttpTypeOK
    <3> QED
      BY <3>2, <3>3 DEF HttpInv
  <2>2. CASE UNCHANGED <<backlog, conn, hungUp>>
    BY <1>0, <2>0, <2>2, MainMoves
  <2> QED
    BY <1>4, <2>1, <2>2 DEF ConnectDummy
<1>5. CASE Join
  <2>1. loop = "ended" /\ loop' = "joined" /\ main' = "draining"
           /\ UNCHANGED <<shutdown, cycles, running, backlog, taken, conn, hungUp>>
    BY <1>5 DEF Join
  <2> QED
    BY <1>0, <2>1, MainMoves
<1>6. CASE Drain
  <2>1. /\ main' \in {"draining", "stopped"} /\ cycles' \in 0 .. WaitCycles
        /\ UNCHANGED <<shutdown, running, loop, backlog, taken, conn, hungUp>>
    BY <1>0, <1>6, HttpAssumption DEF Drain, loopVars
  <2> QED
    BY <1>0, <2>1, MainMoves
<1>7. CASE Exit
  <2>1. main' = "exited" /\ UNCHANGED <<shutdown, cycles, running, loop, backlog, taken, conn, hungUp>>
    BY <1>7 DEF Exit, loopVars
  <2> QED
    BY <1>0, <2>1, MainMoves
<1> QED
  BY <1>1, <1>2, <1>3, <1>4, <1>5, <1>6, <1>7 DEF MainStep

LEMMA UnbornKept ==
    ASSUME Unborn, HttpNext
    PROVE  Unborn'
<1>1. CASE MainStep
  BY <1>1 DEF MainStep, Start, BeginStop, ConnectDummy, Join, Drain, Exit, Unborn, loopVars
<1>2. CASE Signal
  BY <1>2 DEF Signal, Unborn, loopVars
<1>3. CASE LoopStep
  BY <1>3 DEF LoopStep, LoopProgress, OpenListener, CheckRunning, AcceptConnection, AfterFailure,
              Dispatch, CloseListener, AcceptFails, Unborn, mainVars
<1>4. CASE \E c \in Connections : WorkerStep(c)
  BY <1>4 DEF WorkerStep, DieOfSigpipe, Unborn, loopVars, mainVars
<1>5. CASE \E c \in Clients : ClientStep(c)
  BY <1>5 DEF ClientStep, ClientConnects, SendPiece, HangUp, Reset, Unborn, loopVars, mainVars
<1> QED
  BY <1>1, <1>2, <1>3, <1>4, <1>5 DEF HttpNext

LEMMA HttpStep ==
    ASSUME HttpInv, Unborn, [HttpNext]_httpVars
    PROVE  HttpInv' /\ Unborn'
<1>1. CASE UNCHANGED httpVars
  BY <1>1 DEF httpVars, HttpInv, HttpTypeOK, Counted, Busy, Queued, Held, Unborn
<1>2. CASE HttpNext
  <2>1. Unborn'
    BY <1>2, UnbornKept
  <2>2. HttpInv'
    BY <1>2, MainKeeps, LoopKeeps, WorkerKeeps, ClientKeeps DEF HttpNext
  <2> QED
    BY <2>1, <2>2
<1> QED
  BY <1>1, <1>2

LEMMA HttpAlways ==
    HttpSpec => [](HttpInv /\ Unborn)
<1>1. HttpInit => HttpInv /\ Unborn
  BY InvInit DEF HttpInit, Unborn
<1>2. HttpInv /\ Unborn /\ [HttpNext]_httpVars => (HttpInv /\ Unborn)'
  BY HttpStep
<1> QED
  BY <1>1, <1>2, PTL DEF HttpSpec

-----------------------------------------------------------------------------
(* The types, the connection the server thread holds and the bounds of     *)
(* what is read, for any clients, backlog and size of a request.           *)
THEOREM ServerTypeCorrect ==
    HttpSpec => []HttpTypeOK
<1>1. HttpInv => HttpTypeOK
  BY DEF HttpInv
<1> QED
  BY <1>1, HttpAlways, PTL

(* active_workers_ is the number of workers that have begun and not yet    *)
(* left, whatever the threads do.                                          *)
THEOREM WorkersCounted ==
    HttpSpec => []Counted
<1>1. HttpInv => Counted
  BY DEF HttpInv
<1> QED
  BY <1>1, HttpAlways, PTL

(* Only a client that has closed its end before it had sent everything is  *)
(* answered for part of a request.                                         *)
THEOREM PatientHeard ==
    HttpSpec => []PatientClientHeard
<1>1. HttpInit => PatientClientHeard
  BY DEF HttpInit, PatientClientHeard
<1>2. ASSUME HttpInv, PatientClientHeard, [HttpNext]_httpVars
      PROVE  PatientClientHeard'
  <2> SUFFICES ASSUME NEW d \in Connections, reply'[d] = "cut"
               PROVE  d \in hungUp' /\ sent'[d] < Pieces
    BY DEF PatientClientHeard
  <2>1. d \in hungUp => d \in hungUp' /\ sent'[d] = sent[d]
    <3>1. CASE UNCHANGED httpVars
      BY <3>1 DEF httpVars
    <3>2. CASE MainStep
      BY <3>2 DEF MainStep, Start, BeginStop, ConnectDummy, Join, Drain, Exit
    <3>3. CASE Signal /\ UNCHANGED <<sent, reset, workerVars>>
      BY <3>3 DEF Signal
    <3>4. CASE LoopStep
      BY <3>4 DEF LoopStep, LoopProgress, clientVars
    <3>5. CASE \E c \in Connections : WorkerStep(c)
      BY <3>5 DEF WorkerStep, clientVars
    <3>6. CASE \E c \in Clients : ClientStep(c)
      <4>1. PICK c \in Clients : ClientStep(c)
        BY <3>6
      <4>2. CASE ClientConnects(c) \/ HangUp(c) \/ Reset(c)
        BY <4>2 DEF ClientConnects, HangUp, Reset, clientVars
      <4>3. CASE SendPiece(c)
        <5>1. c \notin hungUp /\ hungUp' = hungUp /\ sent' = [sent EXCEPT ![c] = @ + 1]
          BY <4>3 DEF SendPiece
        <5>2. sent \in [Connections -> 0 .. Pieces]
          BY <1>2 DEF HttpInv, HttpTypeOK
        <5> QED
          BY <5>1, <5>2
      <4> QED
        BY <4>1, <4>2, <4>3 DEF ClientStep
    <3> QED
      BY <1>2, <3>1, <3>2, <3>3, <3>4, <3>5, <3>6 DEF HttpNext
  <2>2. CASE reply' = reply
    BY <1>2, <2>1, <2>2 DEF PatientClientHeard
  <2>3. CASE \E c \in Connections : WorkerStep(c)
    <3>1. PICK c \in Connections : WorkerStep(c)
      BY <2>3
    <3>2. CASE Answer(c)
      <4>1. /\ reply' = [reply EXCEPT ![c] = IF got[c] = 0 \/ c \in reset THEN "none"
                                     ELSE IF got[c] = Pieces THEN "whole" ELSE "cut"]
            /\ Finished(c)
        BY <3>2 DEF Answer
      <4>2. /\ reply \in [Connections -> {"none", "whole", "cut"}]
            /\ got \in [Connections -> 0 .. Pieces] /\ sent \in [Connections -> 0 .. Pieces]
            /\ Pieces \in Nat
        BY <1>2, HttpAssumption DEF HttpInv, HttpTypeOK
      <4>3. CASE d = c
        <5>1. c \notin reset /\ got[c] # Pieces
          BY <4>1, <4>2, <4>3
        <5>2. c \in hungUp /\ got[c] = sent[c]
          BY <4>1, <5>1 DEF Finished
        <5>3. sent[c] < Pieces
          BY <4>2, <5>1, <5>2
        <5> QED
          BY <2>1, <4>3, <5>2, <5>3
      <4>4. CASE d # c
        BY <1>2, <2>1, <4>1, <4>2, <4>4 DEF PatientClientHeard
      <4> QED
        BY <4>3, <4>4
    <3>3. CASE Enter(c) \/ Receive(c) \/ Leave(c) \/ DieOfSigpipe(c)
      BY <2>2, <3>3 DEF Enter, Receive, Leave, DieOfSigpipe, workerVars
    <3> QED
      BY <3>1, <3>2, <3>3 DEF WorkerStep
  <2>4. reply' = reply \/ \E c \in Connections : WorkerStep(c)
    BY <1>2 DEF HttpNext, httpVars, MainStep, LoopStep, LoopProgress, ClientStep, ClientConnects,
                SendPiece, HangUp, Reset, workerVars
  <2> QED
    BY <2>2, <2>3, <2>4
<1> QED
  BY <1>1, <1>2, HttpAlways, PTL DEF HttpSpec

(* A drain that ends before its time leaves no worker behind that has      *)
(* begun: the count main reads is that of the workers.                     *)
THEOREM DrainComplete ==
    HttpSpec => DrainSeesWorkers
<1>1. ASSUME HttpInv, [HttpNext]_httpVars,
             main = "draining", main' = "stopped", cycles < WaitCycles
      PROVE  \A c \in Connections : conn[c] \notin {"reading", "leaving"}
  <2>1. Drain
    <3>1. main' # main
      BY <1>1
    <3>2. MainStep
      BY <1>1, <3>1 DEF HttpNext, httpVars, Signal, LoopStep, LoopProgress, WorkerStep,
            DieOfSigpipe, ClientStep, ClientConnects, SendPiece, HangUp, Reset, mainVars
    <3> QED
      BY <1>1, <3>2 DEF MainStep, Start, BeginStop, ConnectDummy, Join, Exit
  <2>2. ~ (active > 0)
    BY <1>1, <2>1 DEF Drain
  <2>3. active \in Nat
    BY <1>1 DEF HttpInv, HttpTypeOK
  <2>4. active = 0
    BY <2>2, <2>3
  <2>5. Cardinality(Busy) = 0 /\ IsFiniteSet(Busy)
    BY <1>1, <2>4, BusyFinite DEF HttpInv, Counted
  <2>6. Busy = {}
    BY <2>5, FS_EmptySet
  <2> QED
    BY <2>6 DEF Busy
<1>2. HttpInv /\ [HttpNext]_httpVars =>
        [main = "draining" /\ main' = "stopped" /\ cycles < WaitCycles =>
            \A c \in Connections : conn[c] \notin {"reading", "leaving"}]_httpVars
  BY <1>1
<1> QED
  BY <1>2, HttpAlways, PTL DEF HttpSpec, DrainSeesWorkers
=============================================================================
