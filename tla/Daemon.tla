------------------------------- MODULE Daemon -------------------------------
(***************************************************************************)
(* The life of the monitor daemon (monitor/mod.rs, capture/mod.rs,         *)
(* ipc/server.rs): the capture thread, the worker on the main thread, the  *)
(* IPC server and its handler threads, from run_monitor to the end of the  *)
(* process, with the clients that connect to the socket.  Several daemons  *)
(* may be started with the same state directory, hence the same socket.    *)
(*                                                                         *)
(* What the worker computes is FlowWorker's subject; here a packet is a    *)
(* walk through its locks.  A lock that is released before its holder may  *)
(* wait for anything else is taken and released in one step.               *)
(***************************************************************************)
EXTENDS Integers, FiniteSets

CONSTANTS
  Daemons,    \* the processes that run run_monitor
  Clients,    \* the processes that make one request each
  Requests,   \* what they ask: "stop", or "live" (LiveConnections)
  Signalled,  \* the daemons that may be sent a SIGINT or a SIGTERM
  RawCap,     \* CHANNEL_CAPACITY
  None,       \* an absent value
  MaxPackets, \* bound: packets captured
  MaxFails,   \* bound: errors of libpcap and of accept
  MaxKills    \* bound: daemons that are killed

ASSUME DaemonAssumption ==
  /\ None \notin Daemons \cup Clients \cup {"worker"}
  /\ "worker" \notin Clients
  /\ Requests \subseteq {"stop", "live"}
  /\ Signalled \subseteq Daemons
  /\ RawCap \in Nat \ {0}
  /\ MaxPackets \in Nat
  /\ MaxFails \in Nat
  /\ MaxKills \in Nat

VARIABLES
  socket,   \* the daemon whose listener the socket path leads to, or None
  main,     \* of each daemon, the next step of its main thread
  stop,     \* its stop flag
  capture,  \* its capture thread
  raw,      \* packets in its channel of raw packets
  server,   \* its accept loop
  store,    \* holder of its store's lock: "worker", a client's handler, None
  live,     \* holder of the lock of its live table
  handler,  \* of each client, the thread that serves it
  client,   \* what each client knows: [state, daemon, req]
  packets,  \* packets captured so far
  fails,    \* errors so far
  killed,   \* the daemons that were killed
  met       \* history: the daemons that ran while another one did

vars == <<socket, main, stop, capture, raw, server, store, live, handler,
          client, packets, fails, killed, met>>

-----------------------------------------------------------------------------
Working == {"check", "recv", "evaluate", "update", "close", "closing",
            "insert"}
Ending  == {"joinCapture", "joinServer", "cleanup", "exit", "exited"}

Running == {d \in Daemons : main[d] \notin {"new", "exited"}}

Waits(c, d) == client[c].state = "waiting" /\ client[c].daemon = d

Init ==
  /\ socket = None
  /\ main = [d \in Daemons |-> "new"]
  /\ stop = [d \in Daemons |-> FALSE]
  /\ capture = [d \in Daemons |-> "off"]
  /\ raw = [d \in Daemons |-> 0]
  /\ server = [d \in Daemons |-> "off"]
  /\ store = [d \in Daemons |-> None]
  /\ live = [d \in Daemons |-> None]
  /\ handler = [c \in Clients |-> "none"]
  /\ client = [c \in Clients |-> [state |-> "idle", daemon |-> None, req |-> None]]
  /\ packets = 0
  /\ fails = 0
  /\ killed = {}
  /\ met = {}

\* The main thread of d goes on to a step, leaving all but the variables it
\* names alone.
Goto(d, from, to) == main[d] = from /\ main' = [main EXCEPT ![d] = to]

idle == <<packets, fails, killed, met>>
threads == <<capture, raw, server, handler, client>>

\* The clients of d that are not served any more read the end of the stream.
Hangup(d, unserved) ==
  client' = [c \in Clients |-> IF Waits(c, d) /\ c \in unserved
                               THEN [client[c] EXCEPT !.state = "eof"]
                               ELSE client[c]]

-----------------------------------------------------------------------------
\* run_monitor.  A device that cannot be opened ends it at once.
OpenFails(d) ==
  /\ fails < MaxFails
  /\ Goto(d, "new", "exited")
  /\ fails' = fails + 1
  /\ UNCHANGED <<socket, stop, threads, store, live, packets, killed, met>>

StartCapture(d) ==
  /\ Goto(d, "new", "unlink")
  /\ capture' = [capture EXCEPT ![d] = "check"]
  /\ met' = IF Running = {} THEN met ELSE met \cup Running \cup {d}
  /\ UNCHANGED <<socket, stop, raw, server, store, live, handler, client,
                 packets, fails, killed>>

RemoveStale(d) ==
  /\ Goto(d, "unlink", "bind")
  /\ socket' = None
  /\ UNCHANGED <<stop, threads, store, live, idle>>

Bind(d) ==
  /\ socket = None
  /\ Goto(d, "bind", "check")
  /\ socket' = d
  /\ server' = [server EXCEPT ![d] = "check"]
  /\ UNCHANGED <<stop, capture, raw, store, live, handler, client, idle>>

\* Another daemon has bound the path in between: run_monitor returns an error,
\* and the process ends with its capture thread.
BindFails(d) ==
  /\ socket # None
  /\ Goto(d, "bind", "exited")
  /\ capture' = [capture EXCEPT ![d] = "ended"]
  /\ UNCHANGED <<socket, stop, raw, server, store, live, handler, client, idle>>

\* run_worker, which returns with stop set or the capture channel disconnected.
Check(d) ==
  /\ Goto(d, "check", IF stop[d] THEN "joinCapture" ELSE "recv")
  /\ UNCHANGED <<socket, stop, threads, store, live, idle>>

Recv(d) ==
  /\ \/ /\ raw[d] > 0
        /\ Goto(d, "recv", "evaluate")
        /\ raw' = [raw EXCEPT ![d] = @ - 1]
     \/ /\ raw[d] = 0 /\ capture[d] # "ended"   \* RecvTimeoutError::Timeout
        /\ Goto(d, "recv", "check")
        /\ UNCHANGED raw
     \/ /\ raw[d] = 0 /\ capture[d] = "ended"   \* ::Disconnected
        /\ Goto(d, "recv", "joinCapture")
        /\ UNCHANGED raw
  /\ UNCHANGED <<socket, stop, capture, server, store, live, handler, client, idle>>

\* The evaluation of a packet, under the store's lock.
Evaluate(d) ==
  /\ store[d] = None
  /\ Goto(d, "evaluate", "update")
  /\ UNCHANGED <<socket, stop, threads, store, live, idle>>

\* The live table, under its own.  The packet may have closed its flow.
UpdateLive(d) ==
  /\ live[d] = None
  /\ \E next \in {"check", "close"} : Goto(d, "update", next)
  /\ UNCHANGED <<socket, stop, threads, store, live, idle>>

\* persist_closed: the entry leaves the table; then, with that lock released,
\* its row enters the store.
CloseLive(d) ==
  /\ live[d] = None
  /\ Goto(d, "close", "closing")
  /\ live' = [live EXCEPT ![d] = "worker"]
  /\ UNCHANGED <<socket, stop, threads, store, idle>>

ReleaseLive(d) ==
  /\ Goto(d, "closing", "insert")
  /\ live' = [live EXCEPT ![d] = None]
  /\ UNCHANGED <<socket, stop, threads, store, idle>>

InsertRow(d) ==
  /\ store[d] = None
  /\ Goto(d, "insert", "check")
  /\ UNCHANGED <<socket, stop, threads, store, live, idle>>

\* The end of run_monitor: both threads are joined, the socket is removed, and
\* the process ends with the handlers it still has.
JoinCapture(d) ==
  /\ capture[d] = "ended"
  /\ Goto(d, "joinCapture", "joinServer")
  /\ UNCHANGED <<socket, stop, threads, store, live, idle>>

JoinServer_Skipped(d) ==
  /\ Goto(d, "joinServer", "cleanup")
  /\ UNCHANGED <<socket, stop, threads, store, live, idle>>
JoinServer(d) ==
  /\ server[d] = "ended"
  /\ Goto(d, "joinServer", "cleanup")
  /\ UNCHANGED <<socket, stop, threads, store, live, idle>>

Cleanup(d) ==
  /\ Goto(d, "cleanup", "exit")
  /\ socket' = None
  /\ UNCHANGED <<stop, threads, store, live, idle>>

Exit(d) ==
  /\ Goto(d, "exit", "exited")
  /\ Hangup(d, Clients)
  /\ handler' = [c \in Clients |-> IF Waits(c, d) THEN "none" ELSE handler[c]]
  /\ UNCHANGED <<socket, stop, capture, raw, server, store, live, idle>>

Main(d) ==
  \/ OpenFails(d) \/ StartCapture(d) \/ RemoveStale(d) \/ Bind(d) \/ BindFails(d)
  \/ Check(d) \/ Recv(d) \/ Evaluate(d) \/ UpdateLive(d) \/ CloseLive(d)
  \/ ReleaseLive(d) \/ InsertRow(d)
  \/ JoinCapture(d) \/ JoinServer(d) \/ Cleanup(d) \/ Exit(d)

-----------------------------------------------------------------------------
\* capture_loop: the flag, a packet or a timeout or an error of libpcap, and a
\* send that blocks on a full channel and fails once the worker is gone.
CaptureStep(d, from, to) ==
  /\ capture[d] = from /\ capture' = [capture EXCEPT ![d] = to]
  /\ UNCHANGED <<socket, main, stop, server, store, live, handler, client>>

CheckStop(d) ==
  /\ CaptureStep(d, "check", IF stop[d] THEN "ended" ELSE "next")
  /\ UNCHANGED <<raw, idle>>

NextPacket(d) ==
  /\ packets < MaxPackets
  /\ CaptureStep(d, "next", "send")
  /\ packets' = packets + 1
  /\ UNCHANGED <<raw, fails, killed, met>>

Timeout(d) == CaptureStep(d, "next", "check") /\ UNCHANGED <<raw, idle>>

CaptureFails(d) ==
  /\ fails < MaxFails
  /\ CaptureStep(d, "next", "ended")
  /\ fails' = fails + 1
  /\ UNCHANGED <<raw, packets, killed, met>>

Send_Blocking(d) ==
  /\ raw[d] < RawCap
  /\ CaptureStep(d, "send", "check")
  /\ raw' = [raw EXCEPT ![d] = @ + 1]
  /\ UNCHANGED idle
Send(d) ==
  /\ IF main[d] \in Ending
     THEN CaptureStep(d, "send", "ended") /\ UNCHANGED raw
     ELSE /\ raw[d] < RawCap
          /\ CaptureStep(d, "send", "check")
          /\ raw' = [raw EXCEPT ![d] = @ + 1]
  /\ UNCHANGED idle

Capture(d) ==
  main[d] # "exited" /\
    (CheckStop(d) \/ NextPacket(d) \/ Timeout(d) \/ CaptureFails(d) \/ Send(d))

-----------------------------------------------------------------------------
\* run_server: the flag; then a connection, none yet, or an error.  With the
\* loop the listener goes, and the connections it has not accepted.
Unserved(d) == {c \in Clients : Waits(c, d) /\ handler[c] = "none"}

ServerStep(d, from, to) ==
  /\ server[d] = from /\ server' = [server EXCEPT ![d] = to]
  /\ IF to = "ended" THEN Hangup(d, Unserved(d)) ELSE UNCHANGED client
  /\ UNCHANGED <<socket, main, stop, capture, raw, store, live, packets, killed, met>>

Poll(d) ==
  /\ ServerStep(d, "check", IF stop[d] THEN "ended" ELSE "accept")
  /\ UNCHANGED <<handler, fails>>

Accept(d) ==
  /\ ServerStep(d, "accept", "check")
  /\ \E c \in Unserved(d) : handler' = [handler EXCEPT ![c] = "read"]
  /\ UNCHANGED fails

WouldBlock(d) ==
  /\ Unserved(d) = {}
  /\ ServerStep(d, "accept", "check")
  /\ UNCHANGED <<handler, fails>>

AcceptFails(d) ==
  /\ fails < MaxFails
  /\ ServerStep(d, "accept", "ended")
  /\ fails' = fails + 1
  /\ UNCHANGED handler

Server(d) ==
  main[d] # "exited" /\ (Poll(d) \/ Accept(d) \/ WouldBlock(d) \/ AcceptFails(d))

-----------------------------------------------------------------------------
\* handle_conn, for the daemon d of client c.
HandlerStep(c, from, to) ==
  /\ handler[c] = from /\ handler' = [handler EXCEPT ![c] = to]
  /\ UNCHANGED <<socket, main, capture, raw, server, live, idle>>

ReadRequest(c) ==
  LET d == client[c].daemon
  IN /\ HandlerStep(c, "read", IF client[c].req = "stop" THEN "reply" ELSE "query")
     /\ stop' = [stop EXCEPT ![d] = @ \/ client[c].req = "stop"]
     /\ UNCHANGED <<store, client>>

\* handle_query holds the store's lock to its end, and takes the other inside.
LockStore(c) ==
  LET d == client[c].daemon
  IN /\ HandlerStep(c, "query", "table")
     /\ store[d] = None
     /\ store' = [store EXCEPT ![d] = c]
     /\ UNCHANGED <<stop, client>>

ReadLive_Leaks(c) ==
  /\ HandlerStep(c, "table", "reply")
  /\ live[client[c].daemon] = None
  /\ UNCHANGED <<stop, client, store>>
ReadLive(c) ==
  LET d == client[c].daemon
  IN /\ HandlerStep(c, "table", "reply")
     /\ live[d] = None
     /\ store' = [store EXCEPT ![d] = None]
     /\ UNCHANGED <<stop, client>>

Reply(c) ==
  /\ HandlerStep(c, "reply", "none")
  /\ client' = [client EXCEPT ![c].state = "answered"]
  /\ UNCHANGED <<stop, store>>

Handler(c) == ReadRequest(c) \/ LockStore(c) \/ ReadLive(c) \/ Reply(c)

\* A client connects to whatever the path leads to and sends its request.
Connect(c) ==
  /\ client[c].state = "idle"
  /\ socket # None /\ server[socket] # "ended"
  /\ \E req \in Requests :
        client' = [client EXCEPT ![c] = [state |-> "waiting", daemon |-> socket, req |-> req]]
  /\ UNCHANGED <<socket, main, stop, capture, raw, server, store, live, handler, idle>>

\* SIGINT or SIGTERM, noticed by the watcher thread (main.rs), which runs from
\* before run_monitor to the end of the process.
Signal(d) ==
  /\ d \in Signalled
  /\ main[d] # "exited"
  /\ stop' = [stop EXCEPT ![d] = TRUE]
  /\ UNCHANGED <<socket, main, threads, store, live, idle>>

\* The process dies in the middle of anything: its sockets close, but the path
\* stays.
Kill(d) ==
  /\ d \in Running
  /\ Cardinality(killed) < MaxKills
  /\ killed' = killed \cup {d}
  /\ main' = [main EXCEPT ![d] = "exited"]
  /\ capture' = [capture EXCEPT ![d] = "ended"]
  /\ server' = [server EXCEPT ![d] = "ended"]
  /\ Hangup(d, Clients)
  /\ handler' = [c \in Clients |-> IF Waits(c, d) THEN "none" ELSE handler[c]]
  /\ UNCHANGED <<socket, stop, raw, store, live, packets, fails, met>>

Over == (\A d \in Daemons : main[d] = "exited") /\ UNCHANGED vars

Next ==
  \/ \E d \in Daemons : Main(d) \/ Capture(d) \/ Server(d) \/ Signal(d) \/ Kill(d)
  \/ \E c \in Clients : Connect(c) \/ Handler(c)
  \/ Over

Spec == Init /\ [][Next]_vars

\* Every thread is scheduled, and libpcap's read timeout elapses.
FairSpec ==
  /\ Spec
  /\ \A d \in Daemons : WF_vars(Main(d)) /\ WF_vars(Capture(d)) /\ WF_vars(Server(d))
  /\ \A c \in Clients : WF_vars(Handler(c))

-----------------------------------------------------------------------------
\* Every variable has its type.
TypeOK ==
  /\ socket \in Daemons \cup {None}
  /\ main \in [Daemons -> {"new", "unlink", "bind"} \cup Working \cup Ending]
  /\ stop \in [Daemons -> BOOLEAN]
  /\ capture \in [Daemons -> {"off", "check", "next", "send", "ended"}]
  /\ raw \in [Daemons -> 0..RawCap]
  /\ server \in [Daemons -> {"off", "check", "accept", "ended"}]
  /\ store \in [Daemons -> Clients \cup {None}]
  /\ live \in [Daemons -> {"worker", None}]
  /\ handler \in [Clients -> {"none", "read", "query", "table", "reply"}]
  /\ client \in [Clients -> [state : {"idle", "waiting", "answered", "eof"},
                             daemon : Daemons \cup {None}, req : Requests \cup {None}]]
  /\ packets \in 0..MaxPackets /\ fails \in 0..MaxFails
  /\ killed \subseteq Daemons /\ met \subseteq Daemons

\* "Polls `stop` so the daemon can shut down cleanly" (server.rs:68): a daemon
\* told to stop ends, with a full channel, queries under way or a dead thread.
ShutsDown == \A d \in Daemons : stop[d] ~> main[d] = "exited"

\* A request gets an answer, or the end of the stream: no client waits for a
\* daemon for ever, whatever locks the worker and the other handlers take.
Answered == \A c \in Clients :
              client[c].state = "waiting" ~> client[c].state \in {"answered", "eof"}

\* While a daemon accepts connections the socket path leads to it: it serves
\* "the inspector and `--json` consumers" (monitor/mod.rs:1-2).  A daemon that
\* never ran beside another one is promised that, whatever its predecessors
\* left behind as they ended or were killed (monitor/mod.rs:66-67).  Nothing is
\* promised to daemons that overlap: ServesOnItsSocket is what they are denied.
Reachable ==
  \A d \in Daemons \ met : server[d] \in {"check", "accept"} => socket = d

\* No socket is left behind by daemons that ended (monitor/mod.rs:100), however
\* their starts and ends interleave: the path leads nowhere or, after one was
\* killed, to that one.
LeavesNoSocket ==
  (\A d \in Daemons : main[d] = "exited") => socket \in killed \cup {None}

\* The socket path leads to a daemon while it serves and to none afterwards.
SocketRight == TypeOK /\ Reachable /\ LeavesNoSocket

\* "The always-on egress monitor daemon ... with a Unix-socket IPC server for the
\* inspector and `--json` consumers" (monitor/mod.rs:1-2): every daemon that
\* accepts connections can be reached, beside others as well, one of which may be
\* run for each interface (dist/pktscope-monitor.service:1-6).  run_monitor
\* removes the path without asking whose it is, as it starts and as it ends.
ServesOnItsSocket ==
  \A d \in Daemons : server[d] \in {"check", "accept"} => socket = d

\* The worker "runs until `stop` is set or the capture channel disconnects"
\* (correlate.rs:47-48), and with it run_monitor: a daemon whose capture has
\* ended ends.
DeadCaptureEnds == \A d \in Daemons : capture[d] = "ended" ~> main[d] = "exited"
=============================================================================
