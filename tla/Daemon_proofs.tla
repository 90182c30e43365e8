---------------------------- MODULE Daemon_proofs ----------------------------
(***************************************************************************)
(* Proofs about Daemon, for any number of daemons and of clients, every    *)
(* capacity of the packet channel, and any number of packets, errors and   *)
(* kills.                                                                  *)
(***************************************************************************)
EXTENDS Daemon, TLAPS

(***************************************************************************)
(* The inductive invariant.                                                *)
(***************************************************************************)
Accepts(d) == server[d] \in {"check", "accept"}

\* A daemon accepts connections from the moment it has bound the socket path
\* until its server thread is joined.
Serving ==
  \A d \in Daemons : Accepts(d) => main[d] \in Working \cup {"joinCapture", "joinServer"}

\* Two daemons that run at once have met.
Overlap == \A d, e \in Running : d # e => d \in met /\ e \in met

\* The path leads nowhere, to a daemon that has yet to remove it, or to one that
\* was killed.
Owned ==
  \/ socket = None
  \/ socket \in killed
  \/ main[socket] \in Working \cup {"joinCapture", "joinServer", "cleanup"}

DInv == TypeOK /\ Serving /\ Overlap /\ Reachable /\ Owned

-----------------------------------------------------------------------------
Client == [state : {"idle", "waiting", "answered", "eof"},
           daemon : Daemons \cup {None}, req : Requests \cup {None}]

\* What the clients know keeps its type, also at the end of a stream.
LEMMA HungUp ==
  ASSUME client \in [Clients -> Client], NEW d, NEW S, Hangup(d, S)
  PROVE  client' \in [Clients -> Client]
<1>1. \A c \in Clients : [client[c] EXCEPT !.state = "eof"] \in Client
  BY DEF Client
<1> QED  BY <1>1 DEF Hangup

LEMMA ServerStepTyped ==
  ASSUME TypeOK, NEW d \in Daemons, NEW from, NEW to \in {"check", "accept", "ended"},
         ServerStep(d, from, to)
  PROVE  /\ server' \in [Daemons -> {"off", "check", "accept", "ended"}]
         /\ client' \in [Clients -> Client]
         /\ UNCHANGED <<socket, main, stop, capture, raw, store, live, packets, killed, met>>
<1>1. client' \in [Clients -> Client]
  <2>1. client \in [Clients -> Client]
    BY DEF TypeOK, Client
  <2>2. CASE to = "ended"
    BY <2>1, <2>2, HungUp DEF ServerStep
  <2>3. CASE to # "ended"
    BY <2>1, <2>3 DEF ServerStep
  <2> QED  BY <2>2, <2>3
<1> QED  BY <1>1 DEF ServerStep, TypeOK

\* Every variable keeps its type, whichever thread of whichever process takes
\* a step.
LEMMA TypesKept ==
  ASSUME TypeOK, [Next]_vars
  PROVE  TypeOK'
<1> USE DaemonAssumption DEF TypeOK
<1>1. ASSUME NEW d \in Daemons, Main(d)
      PROVE  TypeOK'
  <2> USE DEF Goto, idle, threads
  <2>1. CASE OpenFails(d)
    BY <2>1 DEF OpenFails, Ending
  <2>2. CASE StartCapture(d)
    BY <2>2 DEF StartCapture, Running
  <2>3. CASE RemoveStale(d)
    BY <2>3 DEF RemoveStale
  <2>4. CASE Bind(d)
    BY <2>4 DEF Bind, Working
  <2>5. CASE BindFails(d)
    BY <2>5 DEF BindFails, Ending
  <2>6. CASE Check(d)
    BY <2>6 DEF Check, Working, Ending
  <2>7. CASE Recv(d)
    BY <2>7 DEF Recv, Working, Ending
  <2>8. CASE Evaluate(d)
    BY <2>8 DEF Evaluate, Working
  <2>9. CASE UpdateLive(d)
    BY <2>9 DEF UpdateLive, Working
  <2>10. CASE CloseLive(d)
    BY <2>10 DEF CloseLive, Working
  <2>11. CASE ReleaseLive(d)
    BY <2>11 DEF ReleaseLive, Working
  <2>12. CASE InsertRow(d)
    BY <2>12 DEF InsertRow, Working
  <2>13. CASE JoinCapture(d)
    BY <2>13 DEF JoinCapture, Ending
  <2>14. CASE JoinServer(d)
    BY <2>14 DEF JoinServer, Ending
  <2>15. CASE Cleanup(d)
    BY <2>15 DEF Cleanup, Ending
  <2>16. CASE Exit(d)
    BY <2>16 DEF Exit, Hangup, Ending
  <2> QED
    BY <1>1, <2>1, <2>2, <2>3, <2>4, <2>5, <2>6, <2>7, <2>8, <2>9, <2>10, <2>11,
       <2>12, <2>13, <2>14, <2>15, <2>16 DEF Main
<1>2. ASSUME NEW d \in Daemons, Capture(d)
      PROVE  TypeOK'
  <2> USE DEF CaptureStep, idle
  <2>1. CASE CheckStop(d)
    BY <2>1 DEF CheckStop
  <2>2. CASE NextPacket(d)
    BY <2>2 DEF NextPacket
  <2>3. CASE Timeout(d)
    BY <2>3 DEF Timeout
  <2>4. CASE CaptureFails(d)
    BY <2>4 DEF CaptureFails
  <2>5. CASE Send(d)
    BY <2>5 DEF Send
  <2> QED  BY <1>2, <2>1, <2>2, <2>3, <2>4, <2>5 DEF Capture
<1>3. ASSUME NEW d \in Daemons, Server(d)
      PROVE  TypeOK'
  <2> DEFINE same == /\ server' \in [Daemons -> {"off", "check", "accept", "ended"}]
                     /\ client' \in [Clients -> Client]
                     /\ UNCHANGED <<socket, main, stop, capture, raw, store, live, packets,
                                    killed, met>>
  <2>1. CASE Poll(d)
    <3>1. same /\ UNCHANGED <<handler, fails>>
      BY <2>1, ServerStepTyped DEF Poll
    <3> QED  BY <3>1 DEF Client
  <2>2. CASE Accept(d)
    <3>1. same /\ UNCHANGED fails
      BY <2>2, ServerStepTyped DEF Accept
    <3>2. handler' \in [Clients -> {"none", "read", "query", "table", "reply"}]
      BY <2>2 DEF Accept, Unserved
    <3> QED  BY <3>1, <3>2 DEF Client
  <2>3. CASE WouldBlock(d)
    <3>1. same /\ UNCHANGED <<handler, fails>>
      BY <2>3, ServerStepTyped DEF WouldBlock
    <3> QED  BY <3>1 DEF Client
  <2>4. CASE AcceptFails(d)
    <3>1. same /\ UNCHANGED handler
      BY <2>4, ServerStepTyped DEF AcceptFails
    <3>2. fails' \in 0 .. MaxFails
      BY <2>4 DEF AcceptFails
    <3> QED  BY <3>1, <3>2 DEF Client
  <2> QED  BY <1>3, <2>1, <2>2, <2>3, <2>4 DEF Server
<1>4. ASSUME NEW c \in Clients, Handler(c)
      PROVE  TypeOK'
  <2> USE DEF HandlerStep, idle
  <2>1. CASE ReadRequest(c)
    BY <2>1 DEF ReadRequest
  <2>2. CASE LockStore(c)
    BY <2>2 DEF LockStore
  <2>3. CASE ReadLive(c)
    BY <2>3 DEF ReadLive
  <2>4. CASE Reply(c)
    <3>1. [client[c] EXCEPT !.state = "answered"] \in Client
      BY DEF Client
    <3>2. client' \in [Clients -> Client]
      BY <2>4, <3>1 DEF Reply, Client
    <3>3. handler' \in [Clients -> {"none", "read", "query", "table", "reply"}]
      BY <2>4 DEF Reply
    <3> QED  BY <2>4, <3>2, <3>3 DEF Reply, Client
  <2> QED  BY <1>4, <2>1, <2>2, <2>3, <2>4 DEF Handler
<1>5. ASSUME NEW c \in Clients, Connect(c)
      PROVE  TypeOK'
  BY <1>5 DEF Connect, idle
<1>6. ASSUME NEW d \in Daemons, Signal(d)
      PROVE  TypeOK'
  BY <1>6 DEF Signal, threads, idle
<1>7. ASSUME NEW d \in Daemons, Kill(d)
      PROVE  TypeOK'
  BY SMTT(20), <1>7 DEF Kill, Hangup, Ending
<1>8. CASE UNCHANGED vars
  BY <1>8 DEF vars
<1> QED
  BY <1>1, <1>2, <1>3, <1>4, <1>5, <1>6, <1>7, <1>8 DEF Next, Over

-----------------------------------------------------------------------------
\* A step that starts no thread of a daemon and leaves the path alone keeps the
\* rest of the invariant.
LEMMA MainStands ==
  ASSUME DInv, \A d \in Daemons : Accepts(d)' => Accepts(d),
         UNCHANGED <<socket, main, killed, met>>
  PROVE  Serving' /\ Overlap' /\ Reachable' /\ Owned'
BY DEF DInv, Serving, Overlap, Running, Reachable, Owned, Accepts

\* The daemons that accept, that run, that own the path and that have met, after
\* each step of a main thread.
LEMMA MainKeeps ==
  ASSUME DInv, NEW d \in Daemons, Main(d)
  PROVE  Serving' /\ Overlap' /\ Reachable' /\ Owned'
<1> USE DEF Goto, idle, threads, Accepts, Working
<1>0. /\ main \in [Daemons -> {"new", "unlink", "bind"} \cup Working \cup Ending]
      /\ server \in [Daemons -> {"off", "check", "accept", "ended"}]
      /\ socket \in Daemons \cup {None} /\ None \notin Daemons
  BY DaemonAssumption DEF DInv, TypeOK
<1>1. CASE OpenFails(d)
  BY <1>0, <1>1 DEF OpenFails, DInv, Serving, Overlap, Running, Reachable, Owned, Ending
<1>2. CASE StartCapture(d)
  BY <1>0, <1>2 DEF StartCapture, DInv, Serving, Overlap, Running, Reachable, Owned, Ending
<1>3. CASE RemoveStale(d)
  BY <1>0, <1>3 DEF RemoveStale, DInv, Serving, Overlap, Running, Reachable, Owned, Ending
<1>4. CASE Bind(d)
  BY <1>0, <1>4 DEF Bind, DInv, Serving, Overlap, Running, Reachable, Owned, Ending
<1>5. CASE BindFails(d)
  BY <1>0, <1>5 DEF BindFails, DInv, Serving, Overlap, Running, Reachable, Owned, Ending
<1>6. CASE Check(d)
  BY <1>0, <1>6 DEF Check, DInv, Serving, Overlap, Running, Reachable, Owned, Ending
<1>7. CASE Recv(d)
  BY <1>0, <1>7 DEF Recv, DInv, Serving, Overlap, Running, Reachable, Owned, Ending
<1>8. CASE Evaluate(d)
  BY <1>0, <1>8 DEF Evaluate, DInv, Serving, Overlap, Running, Reachable, Owned, Ending
<1>9. CASE UpdateLive(d)
  BY <1>0, <1>9 DEF UpdateLive, DInv, Serving, Overlap, Running, Reachable, Owned, Ending
<1>10. CASE CloseLive(d)
  BY <1>0, <1>10 DEF CloseLive, DInv, Serving, Overlap, Running, Reachable, Owned, Ending
<1>11. CASE ReleaseLive(d)
  BY <1>0, <1>11 DEF ReleaseLive, DInv, Serving, Overlap, Running, Reachable, Owned, Ending
<1>12. CASE InsertRow(d)
  BY <1>0, <1>12 DEF InsertRow, DInv, Serving, Overlap, Running, Reachable, Owned, Ending
<1>13. CASE JoinCapture(d)
  BY <1>0, <1>13 DEF JoinCapture, DInv, Serving, Overlap, Running, Reachable, Owned, Ending
<1>14. CASE JoinServer(d)
  BY <1>0, <1>14 DEF JoinServer, DInv, Serving, Overlap, Running, Reachable, Owned, Ending
<1>15. CASE Cleanup(d)
  BY <1>0, <1>15 DEF Cleanup, DInv, Serving, Overlap, Running, Reachable, Owned, Ending
<1>16. CASE Exit(d)
  BY <1>0, <1>16 DEF Exit, DInv, Serving, Overlap, Running, Reachable, Owned, Ending
<1> QED
  BY <1>1, <1>2, <1>3, <1>4, <1>5, <1>6, <1>7, <1>8, <1>9, <1>10, <1>11, <1>12, <1>13, <1>14, <1>15, <1>16 DEF Main

\* Every step of every process keeps the invariant.
LEMMA DaemonSteps ==
  ASSUME DInv, [Next]_vars
  PROVE  DInv'
<1>0. TypeOK /\ TypeOK'
  BY TypesKept DEF DInv
<1> SUFFICES Serving' /\ Overlap' /\ Reachable' /\ Owned'
  BY <1>0 DEF DInv
<1>1. ASSUME NEW d \in Daemons, Main(d)
      PROVE  Serving' /\ Overlap' /\ Reachable' /\ Owned'
  BY <1>1, MainKeeps
<1>2. ASSUME NEW d \in Daemons, Capture(d)
      PROVE  Serving' /\ Overlap' /\ Reachable' /\ Owned'
  <2>1. UNCHANGED <<socket, main, server, killed, met>>
    BY <1>2 DEF Capture, CheckStop, NextPacket, Timeout, CaptureFails, Send, CaptureStep, idle
  <2> QED  BY <2>1, MainStands DEF Accepts
<1>3. ASSUME NEW d \in Daemons, Server(d)
      PROVE  Serving' /\ Overlap' /\ Reachable' /\ Owned'
  <2>1. UNCHANGED <<socket, main, killed, met>>
    BY <1>3 DEF Server, Poll, Accept, WouldBlock, AcceptFails, ServerStep
  <2>2. server \in [Daemons -> {"off", "check", "accept", "ended"}]
    BY <1>0 DEF TypeOK
  <2>3. \A e \in Daemons : Accepts(e)' => Accepts(e)
    BY <1>3, <2>2 DEF Server, Poll, Accept, WouldBlock, AcceptFails, ServerStep, Accepts
  <2> QED  BY <2>1, <2>3, MainStands
<1>4. ASSUME NEW c \in Clients, Handler(c) \/ Connect(c)
      PROVE  Serving' /\ Overlap' /\ Reachable' /\ Owned'
  <2>1. UNCHANGED <<socket, main, server, killed, met>>
    BY <1>4 DEF Handler, ReadRequest, LockStore, ReadLive, Reply, HandlerStep, Connect, idle
  <2> QED  BY <2>1, MainStands DEF Accepts
<1>5. ASSUME NEW d \in Daemons, Signal(d)
      PROVE  Serving' /\ Overlap' /\ Reachable' /\ Owned'
  <2>1. UNCHANGED <<socket, main, server, killed, met>>
    BY <1>5 DEF Signal, threads, idle
  <2> QED  BY <2>1, MainStands DEF Accepts
<1>6. ASSUME NEW d \in Daemons, Kill(d)
      PROVE  Serving' /\ Overlap' /\ Reachable' /\ Owned'
  BY <1>0, <1>6 DEF Kill, DInv, TypeOK, Serving, Overlap, Running, Reachable, Owned,
                    Accepts, Working
<1>7. CASE UNCHANGED vars
  BY <1>7, MainStands DEF vars, Accepts
<1> QED
  BY <1>1, <1>2, <1>3, <1>4, <1>5, <1>6, <1>7 DEF Next, Over

\* It holds before any daemon is started.
LEMMA DaemonStarts == Init => DInv
<1> SUFFICES ASSUME Init PROVE DInv
  OBVIOUS
<1>1. TypeOK
  BY DaemonAssumption DEF Init, TypeOK
<1>2. Serving /\ Overlap /\ Reachable /\ Owned
  BY DEF Init, Serving, Overlap, Reachable, Owned, Accepts, Running
<1> QED  BY <1>1, <1>2 DEF DInv

\* While a daemon that never ran beside another one accepts connections, the
\* socket path leads to it; and once all have ended it leads nowhere, or to one
\* that was killed (run_monitor, monitor/mod.rs:66-100).
THEOREM SocketLeadsRight == Spec => []SocketRight
<1>1. DInv => SocketRight
  <2> SUFFICES ASSUME DInv PROVE LeavesNoSocket
    BY DEF SocketRight, DInv
  <2>1. ASSUME \A d \in Daemons : main[d] = "exited", socket # None
        PROVE  socket \in killed
    BY <2>1 DEF DInv, Owned, TypeOK, Working
  <2> QED  BY <2>1 DEF LeavesNoSocket
<1>2. DInv /\ [Next]_vars => DInv'
  BY DaemonSteps
<1> QED  BY <1>1, <1>2, DaemonStarts, PTL DEF Spec
=============================================================================
