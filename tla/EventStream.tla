---------------------------- MODULE EventStream ----------------------------
(***************************************************************************)
(* An inspector attached to the daemon (inspect/mod.rs, inspector/state.rs)*)
(* and the way an event of the worker goes to reach it: a bounded queue of *)
(* the bus (ipc/server.rs), the handler thread and the socket, the reader  *)
(* thread and its channel, and the reducer of the UI thread.               *)
(*                                                                         *)
(* The inspector reads the table of live connections on one connection and *)
(* subscribes on another, later; it may read the table again at any time.  *)
(* Between the bus and the reducer nothing is lost or reordered, so handler*)
(* socket, reader and channel are one queue.                               *)
(***************************************************************************)
EXTENDS FlowWorker

CONSTANTS
  QueueCap,     \* capacity of a subscriber's queue (1024 in Bus::subscribe)
  PipeCap,      \* bound: events between the handler and the reducer
  MaxRefreshes  \* bound: presses of the refresh key

ASSUME StreamAssumption ==
  /\ QueueCap \in Nat \ {0}
  /\ PipeCap \in Nat \ {0}
  /\ MaxRefreshes \in Nat

VARIABLES
  phase,      \* of the UI thread: "attach", "subscribe", "loop" or "refresh"
  conns,      \* InspectorApp.conns: ids to connections
  reply,      \* the LiveConnections response it has not installed yet
  sub,        \* the subscriber's queue on the bus
  pipe,       \* what the handler has taken from it and conns has not seen
  refreshes,  \* presses of the refresh key so far
  missed,     \* history: the ids whose latest event the view is not put right for
  over        \* history: the ids whose Closed event conns has seen

viewVars == <<phase, conns, reply, sub, pipe, refreshes, missed, over>>
vars == <<workerVars, viewVars>>

\* LiveState::snapshot, keyed by id as set_snapshot does.
ById == [id \in {live[k].id : k \in DOMAIN live} |->
           live[CHOOSE k \in DOMAIN live : live[k].id = id]]

Init ==
  /\ WorkerInit
  /\ phase = "attach"
  /\ conns = << >>
  /\ reply = None
  /\ sub = << >>
  /\ pipe = << >>
  /\ refreshes = 0
  /\ missed = {}
  /\ over = {}

Subscribed == phase \in {"loop", "refresh"}

\* Bus::broadcast: try_send drops the event when the queue is full.
Sent_Overwrite(q, e) == IF Len(q) < QueueCap THEN Append(q, e) ELSE Append(Tail(q), e)
Sent(q, e) == IF Len(q) < QueueCap THEN Append(q, e) ELSE q

\* What an event is about.
Subject(e) ==
  CASE e.type = "flow"      -> {e.dto.id}
    [] e.type = "closed"    -> {e.id}
    [] e.type = "heartbeat" -> {}

\* A step of the worker, with the broadcast it makes.
Produce ==
  /\ Worker
  /\ IF event' = None
     THEN UNCHANGED <<sub, missed>>
     ELSE IF Subscribed
     THEN /\ sub' = Sent(sub, event')
          /\ missed' = IF Len(sub) < QueueCap THEN missed \ Subject(event')
                       ELSE missed \cup Subject(event')
     ELSE /\ missed' = missed \cup Subject(event')
          /\ UNCHANGED sub
  /\ UNCHANGED <<phase, conns, reply, pipe, refreshes, over>>

\* run_inspector: the first snapshot, on the query connection ...
Attach ==
  /\ phase = "attach"
  /\ conns' = ById
  /\ phase' = "subscribe"
  /\ missed' = {}
  /\ UNCHANGED <<workerVars, reply, sub, pipe, refreshes, over>>

\* ... and then the subscription, on its own.
Subscribe ==
  /\ phase = "subscribe"
  /\ sub' = << >>
  /\ phase' = "loop"
  /\ UNCHANGED <<workerVars, conns, reply, pipe, refreshes, missed, over>>

\* The handler writes an event to the socket and the reader thread passes it
\* on: both may run while the UI thread waits for a reply.
Forward ==
  /\ Subscribed /\ sub # << >> /\ Len(pipe) < PipeCap
  /\ pipe' = Append(pipe, Head(sub))
  /\ sub' = Tail(sub)
  /\ UNCHANGED <<workerVars, phase, conns, reply, refreshes, missed, over>>

\* InspectorApp::apply.
Applied(e) ==
  CASE e.type = "flow"      -> With(conns, e.dto.id, e.dto)
    [] e.type = "closed"    -> Minus(conns, e.id)
    [] e.type = "heartbeat" -> conns

Drain ==
  /\ phase = "loop" /\ pipe # << >>
  /\ conns' = Applied(Head(pipe))
  /\ pipe' = Tail(pipe)
  /\ over' = IF Head(pipe).type = "closed" THEN over \cup {Head(pipe).id} ELSE over
  /\ UNCHANGED <<workerVars, phase, reply, sub, refreshes, missed>>

\* The refresh key: the handler of the query connection answers ...  The answer
\* makes good for a lost event only if none about the same connection is queued:
\* that one is older, would be applied to the answer, and stay.
OnItsWay(id) ==
  \/ \E i \in DOMAIN sub : id \in Subject(sub[i])
  \/ \E i \in DOMAIN pipe : id \in Subject(pipe[i])
Query ==
  /\ phase = "loop" /\ refreshes < MaxRefreshes
  /\ reply' = ById
  /\ phase' = "refresh"
  /\ refreshes' = refreshes + 1
  /\ missed' = {id \in missed : OnItsWay(id)}
  /\ UNCHANGED <<workerVars, conns, sub, pipe, over>>

\* ... and the UI thread, which waited for it, installs the answer.
Installed_Merged ==
  [id \in DOMAIN reply \cup DOMAIN conns |-> IF id \in DOMAIN reply THEN reply[id] ELSE conns[id]]
Installed == reply

Install ==
  /\ phase = "refresh"
  /\ conns' = Installed
  /\ reply' = None
  /\ phase' = "loop"
  /\ UNCHANGED <<workerVars, sub, pipe, refreshes, missed, over>>

Next == Produce \/ Attach \/ Subscribe \/ Forward \/ Drain \/ Query \/ Install

Spec == Init /\ [][Next]_vars

\* Every thread keeps running, and the user ends a refresh he started; the
\* worker's packets come as they please, but a step begun is finished.
FairSpec ==
  /\ Spec
  /\ WF_vars(Produce /\ wpc # "recv")
  /\ WF_vars(Attach) /\ WF_vars(Subscribe) /\ WF_vars(Forward)
  /\ WF_vars(Drain) /\ WF_vars(Install)

-----------------------------------------------------------------------------
Events ==
  {Heartbeat} \cup [type : {"flow"}, dto : Dto] \cup [type : {"closed"}, id : Ids]

ASSUME NoEventAssumption == None \notin Events

\* A table of connections by id.
IsTable(t) == \A id \in DOMAIN t : id \in Ids /\ t[id] \in Dto /\ t[id].id = id

\* Every variable has its type, and the queues stay within their capacity.
ViewTypeOK ==
  /\ phase \in {"attach", "subscribe", "loop", "refresh"}
  /\ IsTable(conns)
  /\ phase = "refresh" => IsTable(reply)
  /\ sub \in Seq(Events) /\ Len(sub) <= QueueCap
  /\ pipe \in Seq(Events) /\ Len(pipe) <= PipeCap
  /\ refreshes \in 0..MaxRefreshes
  /\ missed \subseteq Ids
  /\ over \subseteq Ids

\* Nothing is under way: the worker waits for a packet, and every event that
\* was queued has been applied.
AtRest == Quiet /\ phase = "loop" /\ sub = << >> /\ pipe = << >>

\* At rest an inspector shows each connection as the live table does, with the
\* counters of its last packet, or not at all when it is closed: "Subscribe
\* before acking so no events are missed after the ack" (server.rs:118).  Only
\* connections whose latest event was lost are left out, because the queue was
\* full or the subscription had not begun, and no later event or snapshot has
\* put them right.  However snapshots and older events are interleaved, the
\* others are as they should be.
InSync ==
  AtRest =>
    \A id \in (DOMAIN conns \cup DOMAIN ById) \ missed :
      id \in DOMAIN conns \cap DOMAIN ById /\ conns[id] = ById[id]

\* The view is in sync although the queue never holds more than its capacity
\* (Bus::broadcast drops, ipc/server.rs:52-55).
ViewInSync == ViewTypeOK /\ InSync

\* A connection seen closed never comes back, neither by a late Flow event nor
\* by a snapshot (state.rs:54-56, correlate.rs:225-231).
ClosedStaysClosed == DOMAIN conns \cap over = {}

\* The end of a connection that made it into the subscriber's queue reaches
\* the view, whatever comes after it (server.rs:121-125, inspect/mod.rs:154-159).
ClosedArrives ==
  \A id \in 1..MaxPackets : (\E i \in DOMAIN sub : sub[i] = Closed(id)) ~> id \in over
=============================================================================
