----------------------------- MODULE FlowWorker -----------------------------
(***************************************************************************)
(* The daemon's worker (monitor/correlate.rs): it tracks each packet,      *)
(* evaluates it, brings the table of live connections up to date and       *)
(* announces the change, and turns the final snapshot of a closed flow     *)
(* into a row of the connection history.                                   *)
(*                                                                         *)
(* The worker is one thread; the table, the store and the bus it writes    *)
(* are read by the IPC server between any two of its steps, so a step here *)
(* ends wherever another thread can look.  The alerts of an evaluation are *)
(* AlertEngine's subject; here it either succeeds or fails.                *)
(***************************************************************************)
EXTENDS FlowTracker, Functions

CONSTANTS
  Procs,       \* row ids of attributed processes
  None,        \* an absent value
  MaxPackets,  \* bound: packets captured
  MaxErrors    \* bound: store calls that fail

ASSUME WorkerAssumption ==
  /\ None \notin Procs
  /\ MaxPackets \in Nat
  /\ MaxErrors \in Nat

VARIABLES
  metas,     \* FlowMeta of each key the worker knows
  nextId,    \* the next connection id
  live,      \* LiveState.conns
  history,   \* table connections, each row with the id of its connection
  wpc,       \* the worker's next step
  upd,       \* the FlowUpdate, or the closed flow, it is working on
  event,     \* what the last step broadcast, or None
  errors,    \* store calls that failed so far
  captured,  \* history: the packets of each connection id so far
  lost       \* history: the ids whose flow was pushed out of the cache

workerVars == <<trackerVars, metas, nextId, live, history, wpc, upd, event,
                errors, captured, lost>>

-----------------------------------------------------------------------------
\* The packet was sent by the local end, unless only its destination is local.
PktOutbound(k, dir) ==
  LET other == CHOOSE d \in Dirs : d # dir
  IN ~(other \in LocalEnds[k] /\ dir \notin LocalEnds[k])

Flow(dto)  == [type |-> "flow", dto |-> dto]
Closed(id) == [type |-> "closed", id |-> id]
Heartbeat  == [type |-> "heartbeat"]

\* f extended or overridden at k; f without k.
With(f, k, v) == [x \in DOMAIN f \cup {k} |-> IF x = k THEN v ELSE f[x]]
Minus(f, k)   == [x \in DOMAIN f \ {k} |-> f[x]]

Count(id) == IF id \in DOMAIN captured THEN captured[id] ELSE 0
Total == FoldFunction(+, 0, captured)

WorkerInit ==
  /\ TrackerInit
  /\ metas = << >>
  /\ nextId = 1
  /\ live = << >>
  /\ history = {}
  /\ wpc = "recv"
  /\ upd = None
  /\ event = None
  /\ errors = 0
  /\ captured = << >>
  /\ lost = {}

\* The FlowMeta of the packet's key, made if it is not there.
MetaOf_FirstSeen(k, dir) ==
  IF k \in DOMAIN flows THEN metas[k]
  ELSE [id |-> nextId, outbound |-> PktOutbound(k, dir), proc |-> None]
MetaOf(k, dir) ==
  IF k \in DOMAIN metas THEN metas[k]
  ELSE [id |-> nextId, outbound |-> PktOutbound(k, dir), proc |-> None]

\* A packet of a flow is received: FlowTracker::update, and the FlowMeta that
\* handle_update finds or makes.  lookup_socket_proc finds the socket's owner,
\* or does not.
ReceivePacket(k, dir, kind) ==
  /\ wpc = "recv"
  /\ Total < MaxPackets
  /\ LET meta == MetaOf(k, dir)
     IN /\ Track(k, dir, kind)
        /\ metas' = With(metas, k, meta)
        /\ nextId' = IF meta.id = nextId THEN nextId + 1 ELSE nextId
        /\ captured' = With(captured, meta.id, Count(meta.id) + 1)
        /\ lost' = lost \cup {metas[x].id : x \in DOMAIN flows \ (DOMAIN flows' \cup {k})}
  /\ \E p \in Procs \cup {None} : upd' = [key |-> k, dir |-> dir, proc |-> p]
  /\ wpc' = "evaluate"
  /\ event' = None
  /\ UNCHANGED <<live, history, errors>>

Receive ==
  \E k \in Keys, dir \in Dirs, kind \in Kinds : ReceivePacket(k, dir, kind)

\* evaluate_full returned Ok: the flow has the row ids it resolved.
Evaluate ==
  /\ wpc = "evaluate"
  /\ metas' = [metas EXCEPT ![upd.key].proc = upd.proc]
  /\ wpc' = "live"
  /\ event' = None
  /\ UNCHANGED <<trackerVars, nextId, live, history, upd, errors, captured, lost>>

\* It returned an error, which handle_update drops.
EvaluateFails ==
  /\ wpc = "evaluate"
  /\ errors < MaxErrors
  /\ errors' = errors + 1
  /\ wpc' = "live"
  /\ event' = None
  /\ UNCHANGED <<trackerVars, metas, nextId, live, history, upd, captured, lost>>

\* The live connection of the update's key, made if it is not there.
DtoOf(k) ==
  IF k \in DOMAIN live THEN live[k]
  ELSE [id |-> metas[k].id, up |-> 0, down |-> 0, proc |-> None,
        outbound |-> metas[k].outbound]

UpdateLive ==
  LET k   == upd.key
      out == PktOutbound(k, upd.dir)
      dto == [DtoOf(k) EXCEPT !.up   = IF out THEN @ + 1 ELSE @,
                              !.down = IF out THEN @ ELSE @ + 1,
                              !.proc = IF upd.proc # None THEN upd.proc ELSE @]
  IN /\ wpc = "live"
     /\ live' = With(live, k, dto)
     /\ wpc' = "flow"
     /\ event' = None
     /\ UNCHANGED <<trackerVars, metas, nextId, history, upd, errors, captured, lost>>

\* The clone of the entry made under the lock is broadcast after it; no other
\* thread writes the table.
BroadcastFlow ==
  /\ wpc = "flow"
  /\ event' = Flow(live[upd.key])
  /\ wpc' = "drain"
  /\ upd' = None
  /\ UNCHANGED <<trackerVars, metas, nextId, live, history, errors, captured, lost>>

\* No snapshot is left in the completion channel: on to the next packet.
Drained ==
  /\ wpc = "drain"
  /\ done = << >>
  /\ wpc' = "recv"
  /\ event' = None
  /\ UNCHANGED <<trackerVars, metas, nextId, live, history, upd, errors, captured, lost>>

\* The live table without a closed flow.
Removed_Later(k) == live
Removed(k) == Minus(live, k)

\* persist_closed, up to the broadcast: the flow leaves both tables.  The
\* packet that closed it made sure that it has a FlowMeta.
CloseLive ==
  /\ wpc = "drain"
  /\ done # << >>
  /\ LET snap == Head(done)
     IN /\ upd' = [snap |-> snap, meta |-> metas[snap.key]]
        /\ metas' = Minus(metas, snap.key)
        /\ live' = Removed(snap.key)
  /\ done' = Tail(done)
  /\ wpc' = "closed"
  /\ event' = None
  /\ UNCHANGED <<flows, order, nextId, history, errors, captured, lost>>

BroadcastClosed ==
  /\ wpc = "closed"
  /\ event' = Closed(upd.meta.id)
  /\ wpc' = "insert"
  /\ UNCHANGED <<trackerVars, metas, nextId, live, history, upd, errors, captured, lost>>

RowOf(u) == [id |-> u.meta.id, up |-> u.snap.up, down |-> u.snap.down,
             proc |-> u.meta.proc]

\* The history with the row of a closed flow.
Kept_Attributed(u) == IF u.meta.proc = None THEN history ELSE history \cup {RowOf(u)}
Kept(u) == history \cup {RowOf(u)}

\* insert_connection; an error is ignored and the row is lost.
InsertRow ==
  /\ wpc = "insert"
  /\ \/ history' = Kept(upd) /\ UNCHANGED errors
     \/ errors < MaxErrors /\ errors' = errors + 1 /\ UNCHANGED history
  /\ wpc' = "drain"
  /\ upd' = None
  /\ event' = None
  /\ UNCHANGED <<trackerVars, metas, nextId, live, captured, lost>>

\* No packet for 200 ms.
Idle ==
  /\ wpc = "recv"
  /\ event' = Heartbeat
  /\ UNCHANGED <<trackerVars, metas, nextId, live, history, wpc, upd, errors, captured, lost>>

Worker ==
  \/ Receive \/ Evaluate \/ EvaluateFails \/ UpdateLive \/ BroadcastFlow
  \/ Drained \/ CloseLive \/ BroadcastClosed \/ InsertRow \/ Idle

WorkerSpec == WorkerInit /\ [][Worker]_workerVars

-----------------------------------------------------------------------------
Ids == Nat \ {0}
Dto == [id : Ids, up : Nat, down : Nat, proc : Procs \cup {None}, outbound : BOOLEAN]

\* Every variable has its type; in particular the flow cache is never over
\* its capacity and its order lists its keys once each.
TypeOK ==
  /\ DOMAIN flows \subseteq Keys
  /\ DOMAIN flows = {order[i] : i \in DOMAIN order}
  /\ Len(order) = Cardinality(DOMAIN flows) /\ Len(order) <= MaxFlows
  /\ \A k \in DOMAIN flows : flows[k].bytes \in [Dirs -> Nat] /\ flows[k].fin \subseteq Dirs
  /\ DOMAIN metas \subseteq Keys
  /\ \A k \in DOMAIN metas : metas[k] \in [id : Ids, outbound : BOOLEAN, proc : Procs \cup {None}]
  /\ nextId \in Ids
  /\ DOMAIN live \subseteq Keys
  /\ \A k \in DOMAIN live : live[k] \in Dto
  /\ history \subseteq [id : Ids, up : Nat, down : Nat, proc : Procs \cup {None}]
  /\ wpc \in {"recv", "evaluate", "live", "flow", "drain", "closed", "insert"}
  /\ errors \in 0..MaxErrors
  /\ DOMAIN captured \subseteq Ids

Quiet == wpc = "recv"
Bytes(k) == flows[k].bytes["low"] + flows[k].bytes["high"]

\* Between two packets the tracker, the worker's bookkeeping and the table of
\* live connections agree on which flows there are, on their ids and on their
\* bytes, and count every packet of each (a flow pushed out of the cache stays
\* in the other two).
TablesAgree ==
  Quiet => /\ DOMAIN flows \subseteq DOMAIN metas
           /\ DOMAIN live = DOMAIN metas
           /\ \A k \in DOMAIN live :
                 /\ live[k].id = metas[k].id
                 /\ live[k].up + live[k].down = captured[live[k].id]
                 /\ live[k].id \notin lost =>
                       k \in DOMAIN flows /\ Bytes(k) = captured[live[k].id]

\* The direction of the bytes is the same in the live table and in the
\* snapshot that goes to the history, for a flow with one local end: the
\* worker decides it packet by packet (correlate.rs:103-112), the tracker once
\* per flow (tracker.rs:159-187).
SameOrientation ==
  \A k \in DOMAIN live :
     Quiet /\ Cardinality(LocalEnds[k]) = 1 /\ live[k].id \notin lost
       => /\ live[k].up = Snapshot(k, flows[k]).up
          /\ live[k].down = Snapshot(k, flows[k]).down

\* The live table shows the flows as the tracker counts them, packet by packet
\* and direction by direction (handle_update, correlate.rs:87-211).
LiveIsExact == TablesAgree /\ SameOrientation

\* The row of a connection accounts for every packet of it, so that "the daemon
\* never loses a closed connection's totals" (tracker.rs:18-20), unless its flow
\* was pushed out of the cache; even then it counts no packet twice.
RowsAccountForFlows ==
  \A r \in history : /\ r.up + r.down <= captured[r.id]
                     /\ r.id \notin lost => r.up + r.down = captured[r.id]

\* A connection is in the table of live ones or in the history, never in both,
\* and has one row of history at most (persist_closed runs once for each).
OneRowEach ==
  /\ \A r, s \in history : r.id = s.id => r = s
  /\ \A r \in history : \A k \in DOMAIN live : live[k].id # r.id

\* An id names one connection: no two known ones share it, none has an id not
\* yet given out, and the live table uses the worker's (correlate.rs:114-126).
IdsAreFresh ==
  /\ \A k, l \in DOMAIN metas : metas[k].id = metas[l].id => k = l
  /\ \A k \in DOMAIN metas : metas[k].id < nextId
  /\ \A k \in DOMAIN live : k \in DOMAIN metas /\ live[k].id = metas[k].id

\* One connection, one id, one place: what an id stands for never becomes
\* ambiguous, in the live table or in the history (and every value has its type).
OneIdEach == TypeOK /\ IdsAreFresh /\ OneRowEach

\* A connection that was captured is live or in the history, unless a store
\* call failed: none is lost on its way from one to the other.
ClosedIsKept ==
  Quiet /\ errors = 0 =>
     \A id \in DOMAIN captured :
        \/ \E k \in DOMAIN live : live[k].id = id
        \/ \E r \in history : r.id = id

\* What a subscriber hears is what the IPC server would show at that moment: a
\* broadcast Flow is an entry of the table, and the connection of a Closed is
\* gone from it (correlate.rs:210, 229-231).
StreamMatchesTable ==
  [][ /\ event' # None /\ event'.type = "flow" =>
           \E k \in DOMAIN live : live[k] = event'.dto
      /\ event' # None /\ event'.type = "closed" =>
           \A k \in DOMAIN live : live[k].id # event'.id ]_workerVars
=============================================================================
