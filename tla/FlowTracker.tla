---------------------------- MODULE FlowTracker ----------------------------
(***************************************************************************)
(* The flow table (flow/tracker.rs): an LRU cache of the flows being       *)
(* accounted, one update per TCP or UDP packet.  A flow is closed by a RST *)
(* or by a FIN of both ends; its final snapshot then goes to the           *)
(* completion sink.  A flow pushed out by the capacity leaves no trace.    *)
(*                                                                         *)
(* Every packet is one unit of wire bytes, so the byte counters and the    *)
(* packet counters coincide.  Retransmissions and round-trip times do not  *)
(* decide the lifetime of a flow and are left out.                         *)
(***************************************************************************)
EXTENDS Integers, Sequences, FiniteSets

CONSTANTS
  Keys,       \* normalized 5-tuples (FlowKey)
  LocalEnds,  \* of each key, which of its ends, "low" or "high", are local
  MaxFlows    \* MAX_FLOWS

ASSUME TrackerAssumption ==
  /\ LocalEnds \in [Keys -> SUBSET {"low", "high"}]
  /\ MaxFlows \in Nat \ {0}

VARIABLES
  flows,   \* the cached flows: a function from keys to FlowState
  order,   \* their keys, least recently used first
  done     \* the completion sink, an unbounded channel of snapshots

trackerVars == <<flows, order, done>>

\* The direction of a packet: from which end it was sent.
Dirs == {"low", "high"}

\* What the header of a packet says.  Only a TCP packet closes a flow.
Kinds == {"data", "fin", "rst"}

NewFlow == [bytes |-> [d \in Dirs |-> 0], fin |-> {}, rst |-> FALSE]

\* Low counts as the local end unless only high is local (make_snapshot).
LocalEnd_Low(k) == "low"
LocalEnd(k) == IF LocalEnds[k] = {"high"} THEN "high" ELSE "low"
RemoteEnd(k) == CHOOSE d \in Dirs : d # LocalEnd(k)

Snapshot(k, f) ==
  [key |-> k, up |-> f.bytes[LocalEnd(k)], down |-> f.bytes[RemoteEnd(k)]]

\* The state of a flow after a packet.
Counted_RstFirst(f, dir, kind) ==
  IF kind = "rst" THEN [f EXCEPT !.rst = TRUE]
  ELSE [bytes |-> [f.bytes EXCEPT ![dir] = @ + 1], rst |-> f.rst,
        fin   |-> IF kind = "fin" THEN f.fin \cup {dir} ELSE f.fin]
Counted(f, dir, kind) ==
  [bytes |-> [f.bytes EXCEPT ![dir] = @ + 1],
   fin   |-> IF kind = "fin" THEN f.fin \cup {dir} ELSE f.fin,
   rst   |-> f.rst \/ kind = "rst"]

ShouldClose(f) == f.rst \/ f.fin = Dirs

\* The order without k, which is in it once at most.
Without(seq, k) ==
  IF \E i \in DOMAIN seq : seq[i] = k
  THEN LET i == CHOOSE i \in DOMAIN seq : seq[i] = k
       IN SubSeq(seq, 1, i - 1) \o SubSeq(seq, i + 1, Len(seq))
  ELSE seq

TrackerInit ==
  /\ flows = << >>
  /\ order = << >>
  /\ done = << >>

\* The keys of the cache after k is looked up or inserted: a new key pushes
\* the least recently used one out of a full cache.
Touched(k) ==
  IF k \notin DOMAIN flows /\ Len(order) = MaxFlows
  THEN Append(Tail(order), k)
  ELSE Append(Without(order, k), k)

\* FlowTracker::update.
Track(k, dir, kind) ==
  LET old == IF k \in DOMAIN flows THEN flows[k] ELSE NewFlow
      new == Counted(old, dir, kind)
      touched == Touched(k)
      kept == IF ShouldClose(new) THEN Without(touched, k) ELSE touched
  IN /\ order' = kept
     /\ flows' = [x \in {kept[i] : i \in DOMAIN kept} |->
                    IF x = k THEN new ELSE flows[x]]
     /\ done' = IF ShouldClose(new) THEN Append(done, Snapshot(k, new)) ELSE done
=============================================================================
