------------------------- MODULE EventStream_proofs -------------------------
(***************************************************************************)
(* Proofs about the worker of the daemon (FlowTracker and FlowWorker), for *)
(* every set of keys, local ends and processes, every capacity of the flow *)
(* cache and any number of packets and of errors of the store; and about   *)
(* EventStream, which carries the events of that worker to a view, for     *)
(* every capacity of the queues and any number of refreshes.               *)
(***************************************************************************)
EXTENDS EventStream, SequenceTheorems, FiniteSetTheorems, TLAPS

(***************************************************************************)
(* The inductive invariant.  The properties speak of the moments between   *)
(* two packets; here is what holds within the handling of one.             *)
(***************************************************************************)
Snapshots == [key : Keys, up : Nat, down : Nat]
Metas     == [id : Ids, outbound : BOOLEAN, proc : Procs \cup {None}]
Updates   == [key : Keys, dir : Dirs, proc : Procs \cup {None}]

OnUpdate  == wpc \in {"evaluate", "live", "flow"}
OnClosed  == wpc \in {"closed", "insert"}
\* The packet at hand is one of k that the live table does not show yet.
Ahead(k)  == wpc \in {"evaluate", "live"} /\ upd.key = k
\* The last packet closed k, and its snapshot waits in the completion channel.
Closing(k) == done # << >> /\ Head(done).key = k
SnapBytes(s) == s.up + s.down

\* The flow cache: the order lists its keys, each once, within the capacity.
CacheInv ==
  /\ order \in Seq(Keys) /\ Len(order) <= MaxFlows
  /\ \A i, j \in 1 .. Len(order) : order[i] = order[j] => i = j
  /\ DOMAIN flows = {order[i] : i \in 1 .. Len(order)}
  /\ \A k \in DOMAIN flows : flows[k].bytes \in [Dirs -> Nat] /\ flows[k].fin \subseteq Dirs

\* The other variables, and what the worker has in hand.
StateInv ==
  /\ DOMAIN metas \subseteq Keys /\ \A k \in DOMAIN metas : metas[k] \in Metas
  /\ nextId \in Ids
  /\ DOMAIN live \subseteq Keys /\ \A k \in DOMAIN live : live[k] \in Dto
  /\ history \subseteq [id : Ids, up : Nat, down : Nat, proc : Procs \cup {None}]
  /\ wpc \in {"recv", "evaluate", "live", "flow", "drain", "closed", "insert"}
  /\ errors \in 0..MaxErrors
  /\ OnUpdate => upd \in Updates
  /\ OnClosed => upd \in [snap : Snapshots, meta : Metas]
  /\ wpc = "recv" \/ OnClosed => done = << >>
  /\ done \in Seq(Snapshots) /\ Len(done) <= 1

\* Which keys the three tables have in common.
TablesInv ==
  /\ DOMAIN flows \subseteq DOMAIN metas
  /\ DOMAIN live \subseteq DOMAIN metas
  /\ OnUpdate => upd.key \in DOMAIN metas
  /\ done # << >> => Head(done).key \in DOMAIN metas \ DOMAIN flows
  /\ done # << >> /\ OnUpdate => Head(done).key = upd.key
  /\ \A k \in DOMAIN metas \ DOMAIN live : Ahead(k)

\* An id is in one of three places: the worker's table, its hands, the history.
IdsInv ==
  /\ DOMAIN captured = 1 .. (nextId - 1)
  /\ \A id \in DOMAIN captured : captured[id] \in Nat
  /\ IdsAreFresh
  /\ \A r \in history : r.id < nextId /\ \A k \in DOMAIN metas : metas[k].id # r.id
  /\ \A r, s \in history : r.id = s.id => r = s
  /\ OnClosed => /\ upd.meta.id < nextId
                 /\ \A k \in DOMAIN metas : metas[k].id # upd.meta.id
                 /\ \A r \in history : r.id # upd.meta.id

\* What each place knows of the packets captured.
CountsInv ==
  /\ \A k \in DOMAIN flows : Bytes(k) <= captured[metas[k].id]
  /\ done # << >> => SnapBytes(Head(done)) <= captured[metas[Head(done).key].id]
  /\ \A k \in DOMAIN metas : metas[k].id \notin lost =>
       \/ k \in DOMAIN flows /\ Bytes(k) = captured[metas[k].id]
       \/ Closing(k) /\ SnapBytes(Head(done)) = captured[metas[k].id]
  /\ \A k \in DOMAIN metas \ DOMAIN live : captured[metas[k].id] = 1
  /\ \A k \in DOMAIN live :
       live[k].up + live[k].down + (IF Ahead(k) THEN 1 ELSE 0) = captured[metas[k].id]
  /\ OnClosed => /\ SnapBytes(upd.snap) <= captured[upd.meta.id]
                 /\ upd.meta.id \notin lost => SnapBytes(upd.snap) = captured[upd.meta.id]
  /\ RowsAccountForFlows

\* Which way they went, for a flow with one local end.
WaysInv ==
  \A k \in DOMAIN flows : Cardinality(LocalEnds[k]) = 1 /\ metas[k].id \notin lost =>
    LET dto == DtoOf(k)
        now(d) == IF Ahead(k) /\ upd.dir = d THEN 1 ELSE 0
    IN /\ dto.up + now(LocalEnd(k)) = flows[k].bytes[LocalEnd(k)]
       /\ dto.down + now(RemoteEnd(k)) = flows[k].bytes[RemoteEnd(k)]

KeptInv ==
  errors = 0 => \A id \in DOMAIN captured :
     \/ \E k \in DOMAIN metas : metas[k].id = id
     \/ \E r \in history : r.id = id
     \/ OnClosed /\ upd.meta.id = id

WInv == CacheInv /\ StateInv /\ TablesInv /\ IdsInv /\ CountsInv /\ WaysInv /\ KeptInv

-----------------------------------------------------------------------------
(***************************************************************************)
(* The flow cache.                                                         *)
(***************************************************************************)
Once(s) == \A i, j \in 1 .. Len(s) : s[i] = s[j] => i = j
In(s)   == {s[i] : i \in 1 .. Len(s)}

\* Without removes a key that is in the order once, and nothing else
\* (LruCache::pop).
LEMMA WithoutOne ==
  ASSUME NEW s \in Seq(Keys), Once(s), NEW k
  PROVE  /\ Without(s, k) \in Seq(Keys)
         /\ Once(Without(s, k))
         /\ In(Without(s, k)) = In(s) \ {k}
         /\ Len(Without(s, k)) = IF k \in In(s) THEN Len(s) - 1 ELSE Len(s)
<1>1. CASE k \in In(s)
  <2>0. \E i \in DOMAIN s : s[i] = k
    BY <1>1 DEF In
  <2> DEFINE n == CHOOSE i \in DOMAIN s : s[i] = k
             a == SubSeq(s, 1, n - 1)
             b == SubSeq(s, n + 1, Len(s))
             w == a \o b
  <2>1. n \in 1 .. Len(s) /\ s[n] = k
    BY <2>0
  <2>2. Without(s, k) = w
    BY <2>0 DEF Without
  <2> HIDE DEF n
  <2>3. a \in Seq(Keys) /\ Len(a) = n - 1 /\ \A i \in 1 .. n - 1 : a[i] = s[i]
    BY <2>1
  <2>4. b \in Seq(Keys) /\ Len(b) = Len(s) - n /\ \A i \in 1 .. Len(s) - n : b[i] = s[n + i]
    BY <2>1
  <2> HIDE DEF a, b
  <2>5. /\ w \in Seq(Keys) /\ Len(w) = Len(s) - 1
        /\ \A i \in 1 .. Len(s) - 1 : w[i] = IF i < n THEN s[i] ELSE s[i + 1]
    <3>1. w \in Seq(Keys) /\ Len(w) = Len(a) + Len(b)
      BY <2>3, <2>4, ConcatProperties
    <3>2. \A i \in 1 .. Len(a) + Len(b) : w[i] = IF i <= Len(a) THEN a[i] ELSE b[i - Len(a)]
      BY <2>3, <2>4, ConcatProperties
    <3>3. ASSUME NEW i \in 1 .. Len(s) - 1
          PROVE  w[i] = IF i < n THEN s[i] ELSE s[i + 1]
      <4> HIDE DEF w
      <4>1. CASE i < n
        <5>1. i \in 1 .. Len(a) + Len(b) /\ i <= Len(a) /\ i \in 1 .. n - 1
          BY <2>1, <2>3, <2>4, <4>1
        <5>2. w[i] = a[i]
          BY <3>2, <5>1
        <5> QED  BY <2>3, <4>1, <5>1, <5>2
      <4>2. CASE i >= n
        <5>0. i \in 1 .. Len(a) + Len(b) /\ ~(i <= Len(a)) /\ Len(a) = n - 1
          BY <2>1, <2>3, <2>4, <4>2
        <5>1. w[i] = b[i - (n - 1)]
          BY <3>2, <5>0
        <5> DEFINE j == i - (n - 1)
        <5>2. j \in 1 .. Len(s) - n /\ n + j = i + 1
          BY <2>1, <4>2
        <5> HIDE DEF j
        <5>3. b[j] = s[i + 1]
          BY <2>4, <5>2
        <5> QED  BY <2>1, <4>2, <5>1, <5>3 DEF j
      <4> QED  BY <2>1, <4>1, <4>2
    <3>4. Len(w) = Len(s) - 1
      BY <2>1, <2>3, <2>4, <3>1
    <3> HIDE DEF w
    <3> QED  BY <3>1, <3>3, <3>4
  <2> HIDE DEF w
  <2>6. Once(w)
    <3>1. SUFFICES ASSUME NEW i \in 1 .. Len(w), NEW j \in 1 .. Len(w), w[i] = w[j]
                   PROVE  i = j
      BY DEF Once
    <3> DEFINE p == IF i < n THEN i ELSE i + 1
               q == IF j < n THEN j ELSE j + 1
    <3>2. p \in 1 .. Len(s) /\ q \in 1 .. Len(s) /\ w[i] = s[p] /\ w[j] = s[q]
      BY <2>1, <2>5
    <3>3. p = q
      <4> HIDE DEF p, q
      <4> QED  BY <3>1, <3>2 DEF Once
    <3> QED  BY <2>1, <3>3
  <2>7. In(w) = In(s) \ {k}
    <3>1. ASSUME NEW i \in 1 .. Len(w) PROVE w[i] \in In(s) \ {k}
      BY <2>1, <2>5 DEF In, Once
    <3>2. ASSUME NEW i \in 1 .. Len(s), s[i] # k PROVE s[i] \in In(w)
      <4>1. CASE i < n  BY <2>1, <2>5, <4>1 DEF In
      <4>2. CASE i > n
        <5>1. i - 1 \in 1 .. Len(w) /\ w[i - 1] = s[i]
          BY <2>1, <2>5, <4>2
        <5> QED  BY <5>1 DEF In
      <4> QED  BY <2>1, <3>2, <4>1, <4>2
    <3> QED  BY <3>1, <3>2 DEF In
  <2> QED  BY <1>1, <2>2, <2>5, <2>6, <2>7
<1>2. CASE k \notin In(s)
  <2>0. \A i \in 1 .. Len(s) : s[i] # k
    BY <1>2 DEF In
  <2>1. Without(s, k) = s
    BY <2>0 DEF Without
  <2> QED  BY <1>2, <2>1
<1> QED  BY <1>1, <1>2

\* A key that is not in an order can be put at its end.
LEMMA AppendOne ==
  ASSUME NEW s \in Seq(Keys), Once(s), NEW k \in Keys, k \notin In(s)
  PROVE  /\ Append(s, k) \in Seq(Keys)
         /\ Once(Append(s, k))
         /\ In(Append(s, k)) = In(s) \cup {k}
         /\ Len(Append(s, k)) = Len(s) + 1
<1> DEFINE t == Append(s, k)
<1>1. /\ t \in Seq(Keys) /\ Len(t) = Len(s) + 1
      /\ \A i \in 1 .. Len(s) + 1 : t[i] = IF i = Len(s) + 1 THEN k ELSE s[i]
  OBVIOUS
<1> HIDE DEF t
<1>2. Once(t)
  BY <1>1 DEF Once, In
<1>3. In(t) = In(s) \cup {k}
  <2>1. k \in In(t)
    <3>1. Len(s) + 1 \in 1 .. Len(t) /\ t[Len(s) + 1] = k  BY <1>1
    <3> QED  BY <3>1 DEF In
  <2>2. ASSUME NEW i \in 1 .. Len(s) PROVE s[i] \in In(t)
    BY <1>1 DEF In
  <2>3. ASSUME NEW i \in 1 .. Len(t) PROVE t[i] \in In(s) \cup {k}
    BY <1>1 DEF In
  <2> QED  BY <2>1, <2>2, <2>3 DEF In
<1> QED  BY <1>1, <1>2, <1>3 DEF t

\* The tail of an order.
LEMMA TailOne ==
  ASSUME NEW s \in Seq(Keys), Once(s), s # << >>
  PROVE  /\ Tail(s) \in Seq(Keys)
         /\ Once(Tail(s))
         /\ In(Tail(s)) \subseteq In(s)
         /\ Len(Tail(s)) = Len(s) - 1
<1> DEFINE t == Tail(s)
<1>1. /\ t \in Seq(Keys) /\ Len(t) = Len(s) - 1
      /\ \A i \in 1 .. Len(s) - 1 : t[i] = s[i + 1]
  OBVIOUS
<1> HIDE DEF t
<1>2. Once(t)
  BY <1>1 DEF Once
<1>3. In(t) \subseteq In(s)
  <2>1. ASSUME NEW i \in 1 .. Len(t) PROVE t[i] \in In(s)
    <3>1. i + 1 \in 1 .. Len(s) /\ t[i] = s[i + 1]  BY <1>1
    <3> QED  BY <3>1 DEF In
  <2> QED  BY <2>1 DEF In
<1> QED  BY <1>1, <1>2, <1>3 DEF t

\* After a lookup or an insertion the key is in the cache, which stays within
\* its capacity; no other key comes in.
LEMMA TouchedOne ==
  ASSUME CacheInv, NEW k \in Keys
  PROVE  LET t == Touched(k)
         IN /\ t \in Seq(Keys) /\ Once(t) /\ Len(t) <= MaxFlows
            /\ k \in In(t) /\ In(t) \subseteq DOMAIN flows \cup {k}
<1> USE TrackerAssumption
<1>1. order \in Seq(Keys) /\ Once(order) /\ DOMAIN flows = In(order) /\ Len(order) <= MaxFlows
  BY DEF CacheInv, Once, In
<1>2. CASE k \notin DOMAIN flows /\ Len(order) = MaxFlows
  <2>1. order # << >>
    BY <1>1, <1>2
  <2>2. /\ Tail(order) \in Seq(Keys) /\ Once(Tail(order))
        /\ In(Tail(order)) \subseteq In(order) /\ Len(Tail(order)) = Len(order) - 1
    BY <1>1, <2>1, TailOne
  <2>3. k \notin In(Tail(order))
    BY <1>1, <1>2, <2>2
  <2>4. Touched(k) = Append(Tail(order), k)
    BY <1>2 DEF Touched
  <2> HIDE DEF Touched
  <2>5. /\ Touched(k) \in Seq(Keys) /\ Once(Touched(k))
        /\ In(Touched(k)) = In(Tail(order)) \cup {k}
        /\ Len(Touched(k)) = Len(Tail(order)) + 1
    BY <2>2, <2>3, <2>4, AppendOne
  <2> QED  BY <1>1, <1>2, <2>2, <2>5
<1>3. CASE ~(k \notin DOMAIN flows /\ Len(order) = MaxFlows)
  <2> DEFINE w == Without(order, k)
  <2>1. /\ w \in Seq(Keys) /\ Once(w) /\ In(w) = In(order) \ {k}
        /\ Len(w) = IF k \in In(order) THEN Len(order) - 1 ELSE Len(order)
    BY <1>1, WithoutOne
  <2>2. Touched(k) = Append(w, k)
    BY <1>3 DEF Touched
  <2> HIDE DEF w
  <2>3. k \notin In(w)
    BY <2>1
  <2>4. /\ Touched(k) \in Seq(Keys) /\ Once(Touched(k))
        /\ In(Touched(k)) = In(w) \cup {k} /\ Len(Touched(k)) = Len(w) + 1
    BY <2>1, <2>2, <2>3, AppendOne
  <2>5. Len(w) + 1 <= MaxFlows
    BY <1>1, <1>3, <2>1, TrackerAssumption
  <2> QED  BY <1>1, <2>1, <2>4, <2>5
<1> QED  BY <1>2, <1>3

-----------------------------------------------------------------------------
(***************************************************************************)
(* One packet, in the tracker.                                             *)
(***************************************************************************)
OldState(k) == IF k \in DOMAIN flows THEN flows[k] ELSE NewFlow
NewState(k, dir, kind) == Counted(OldState(k), dir, kind)
FlowBytes(f) == f.bytes["low"] + f.bytes["high"]
IsFlow(f) == f.bytes \in [Dirs -> Nat] /\ f.fin \subseteq Dirs

\* A packet adds one to the bytes of its direction (FlowState::observe).
LEMMA CountedOne ==
  ASSUME NEW f, IsFlow(f), NEW dir \in Dirs, NEW kind \in Kinds
  PROVE  LET g == Counted(f, dir, kind)
         IN /\ IsFlow(g)
            /\ \A d \in Dirs : g.bytes[d] = f.bytes[d] + (IF d = dir THEN 1 ELSE 0)
            /\ FlowBytes(g) = FlowBytes(f) + 1
            /\ FlowBytes(g) \in Nat
<1> DEFINE g == Counted(f, dir, kind)
<1>1. /\ g.bytes = [f.bytes EXCEPT ![dir] = @ + 1]
      /\ g.fin = IF kind = "fin" THEN f.fin \cup {dir} ELSE f.fin
  BY DEF Counted
<1> HIDE DEF g
<1>2. IsFlow(g)
  BY <1>1 DEF IsFlow
<1>3. \A d \in Dirs : g.bytes[d] = f.bytes[d] + (IF d = dir THEN 1 ELSE 0)
  BY <1>1 DEF IsFlow
<1>4. FlowBytes(g) = FlowBytes(f) + 1 /\ FlowBytes(g) \in Nat
  <2>1. "low" \in Dirs /\ "high" \in Dirs /\ dir \in {"low", "high"}
    BY DEF Dirs
  <2>2. f.bytes["low"] \in Nat /\ f.bytes["high"] \in Nat
    BY <2>1 DEF IsFlow
  <2>3. /\ g.bytes["low"]  = f.bytes["low"] + (IF "low" = dir THEN 1 ELSE 0)
        /\ g.bytes["high"] = f.bytes["high"] + (IF "high" = dir THEN 1 ELSE 0)
    BY <1>3, <2>1
  <2> QED  BY <2>1, <2>2, <2>3 DEF FlowBytes
<1> QED  BY <1>2, <1>3, <1>4 DEF g

\* The two ends of a flow.
LEMMA Ends ==
  ASSUME NEW k
  PROVE  \/ LocalEnd(k) = "low" /\ RemoteEnd(k) = "high"
         \/ LocalEnd(k) = "high" /\ RemoteEnd(k) = "low"
<1>1. LocalEnd(k) \in Dirs /\ \E d \in Dirs : d # LocalEnd(k)
  BY DEF LocalEnd, Dirs
<1>2. RemoteEnd(k) \in Dirs /\ RemoteEnd(k) # LocalEnd(k)
  BY <1>1 DEF RemoteEnd
<1> QED  BY <1>1, <1>2 DEF Dirs

\* A snapshot counts what the flow does (make_snapshot).
LEMMA SnapshotOf ==
  ASSUME NEW k \in Keys, NEW f, IsFlow(f)
  PROVE  Snapshot(k, f) \in Snapshots /\ SnapBytes(Snapshot(k, f)) = FlowBytes(f)
<1>1. f.bytes["low"] \in Nat /\ f.bytes["high"] \in Nat
  BY DEF IsFlow, Dirs
<1>2. CASE LocalEnd(k) = "low" /\ RemoteEnd(k) = "high"
  BY <1>1, <1>2 DEF Snapshot, Snapshots, SnapBytes, FlowBytes
<1>3. CASE LocalEnd(k) = "high" /\ RemoteEnd(k) = "low"
  BY <1>1, <1>3 DEF Snapshot, Snapshots, SnapBytes, FlowBytes
<1> QED  BY <1>2, <1>3, Ends

\* What FlowTracker::update does to the cache and to the completion channel.
LEMMA Tracked ==
  ASSUME CacheInv, NEW k \in Keys, NEW dir \in Dirs, NEW kind \in Kinds,
         Track(k, dir, kind)
  PROVE  LET f == NewState(k, dir, kind)
         IN /\ CacheInv'
            /\ DOMAIN flows' \subseteq DOMAIN flows \cup {k}
            /\ \A x \in DOMAIN flows' : flows'[x] = IF x = k THEN f ELSE flows[x]
            /\ ShouldClose(f) => /\ k \notin DOMAIN flows'
                                 /\ done' = Append(done, Snapshot(k, f))
            /\ ~ShouldClose(f) => k \in DOMAIN flows' /\ done' = done
<1> DEFINE f == NewState(k, dir, kind)
           t == Touched(k)
           kept == IF ShouldClose(f) THEN Without(t, k) ELSE t
<1>1. /\ order' = kept
      /\ flows' = [x \in {kept[i] : i \in DOMAIN kept} |-> IF x = k THEN f ELSE flows[x]]
      /\ done' = IF ShouldClose(f) THEN Append(done, Snapshot(k, f)) ELSE done
  BY DEF Track, NewState, OldState
<1>2. IsFlow(OldState(k))
  BY DEF OldState, NewFlow, IsFlow, CacheInv
<1>3. IsFlow(f)
  BY <1>2, CountedOne DEF NewState
<1> HIDE DEF f
<1>4. /\ t \in Seq(Keys) /\ Once(t) /\ Len(t) <= MaxFlows
      /\ k \in In(t) /\ In(t) \subseteq DOMAIN flows \cup {k}
  BY TouchedOne
<1> HIDE DEF t
<1>5. /\ kept \in Seq(Keys) /\ Once(kept) /\ Len(kept) <= MaxFlows
      /\ In(kept) = IF ShouldClose(f) THEN In(t) \ {k} ELSE In(t)
  <2>1. CASE ShouldClose(f)
    <3>1. /\ Without(t, k) \in Seq(Keys) /\ Once(Without(t, k))
          /\ In(Without(t, k)) = In(t) \ {k} /\ Len(Without(t, k)) = Len(t) - 1
      BY <1>4, WithoutOne
    <3>2. kept = Without(t, k)
      BY <2>1
    <3> HIDE DEF kept
    <3>3. Len(kept) <= MaxFlows
      BY <1>4, <3>1, <3>2, TrackerAssumption
    <3> QED  BY <2>1, <3>1, <3>2, <3>3
  <2>2. CASE ~ShouldClose(f)
    BY <1>4, <2>2
  <2> QED  BY <2>1, <2>2
<1> HIDE DEF kept
<1>6. DOMAIN flows' = In(kept)
  BY <1>1, <1>5 DEF In
<1>7. \A x \in DOMAIN flows' : flows'[x] = IF x = k THEN f ELSE flows[x]
  BY <1>1
<1>8. CacheInv'
  <2>1. \A x \in DOMAIN flows' : IsFlow(flows'[x])
    BY <1>3, <1>4, <1>5, <1>6, <1>7 DEF CacheInv, IsFlow
  <2>2. order' \in Seq(Keys) /\ Len(order') <= MaxFlows
    BY <1>1, <1>5
  <2>3. \A i, j \in 1 .. Len(order') : order'[i] = order'[j] => i = j
    BY <1>1, <1>5 DEF Once
  <2>4. DOMAIN flows' = {order'[i] : i \in 1 .. Len(order')}
    BY <1>1, <1>6 DEF In
  <2> QED  BY <2>1, <2>2, <2>3, <2>4 DEF CacheInv, IsFlow
<1> QED  BY <1>1, <1>4, <1>5, <1>6, <1>7, <1>8 DEF f

-----------------------------------------------------------------------------
(***************************************************************************)
(* One packet, in the worker.                                              *)
(***************************************************************************)
\* The invariant is kept when a packet is received: the packet is counted for
\* its id and in the cache, and the live table is one behind for its key.
LEMMA ReceiveKeeps ==
  ASSUME WInv, NEW k \in Keys, NEW dir \in Dirs, NEW kind \in Kinds,
         ReceivePacket(k, dir, kind)
  PROVE  WInv'
<1> DEFINE meta == MetaOf(k, dir)
           f    == NewState(k, dir, kind)
<1>1. /\ Track(k, dir, kind)
      /\ metas' = With(metas, k, meta)
      /\ nextId' = IF meta.id = nextId THEN nextId + 1 ELSE nextId
      /\ captured' = With(captured, meta.id, Count(meta.id) + 1)
      /\ lost' = lost \cup {metas[x].id : x \in DOMAIN flows \ (DOMAIN flows' \cup {k})}
      /\ live' = live /\ history' = history /\ errors' = errors
  BY DEF ReceivePacket
<1>2. /\ wpc = "recv" /\ wpc' = "evaluate"
      /\ upd' \in Updates /\ upd'.key = k /\ upd'.dir = dir
  BY DEF ReceivePacket, Updates
<1>3. /\ done = << >>
      /\ ~OnUpdate /\ ~OnClosed /\ (\A x : ~Ahead(x))
      /\ OnUpdate' /\ ~OnClosed' /\ (\A x : Ahead(x)' <=> x = k)
  BY <1>2 DEF OnUpdate, OnClosed, Ahead, WInv, StateInv
<1>4. DOMAIN live = DOMAIN metas /\ DOMAIN flows \subseteq DOMAIN metas
  BY <1>3 DEF WInv, TablesInv
<1>5. /\ meta \in Metas
      /\ k \in DOMAIN metas => meta = metas[k] /\ nextId' = nextId
      /\ k \notin DOMAIN metas => meta.id = nextId /\ nextId' = nextId + 1
      /\ nextId \in Nat \ {0}
  <2>1. CASE k \in DOMAIN metas
    <3>1. meta = metas[k]  BY <2>1 DEF MetaOf
    <3>2. metas[k] \in Metas /\ metas[k].id < nextId /\ nextId \in Nat \ {0}
      BY <2>1 DEF WInv, StateInv, IdsInv, IdsAreFresh, Ids
    <3> QED  BY <1>1, <2>1, <3>1, <3>2 DEF Metas, Ids
  <2>2. CASE k \notin DOMAIN metas
    <3>1. nextId \in Ids  BY DEF WInv, StateInv
    <3>2. PktOutbound(k, dir) \in BOOLEAN  BY DEF PktOutbound
    <3>3. meta = [id |-> nextId, outbound |-> PktOutbound(k, dir), proc |-> None]
      BY <2>2 DEF MetaOf
    <3> HIDE DEF meta
    <3>4. meta.id = nextId /\ meta \in Metas  BY <3>1, <3>2, <3>3 DEF Metas
    <3> QED  BY <1>1, <2>2, <3>1, <3>4 DEF Ids
  <2> QED  BY <2>1, <2>2
<1> HIDE DEF meta
<1>6. /\ DOMAIN metas' = DOMAIN metas \cup {k}
      /\ metas'[k] = meta
      /\ \A x \in DOMAIN metas : metas'[x] = IF x = k THEN meta ELSE metas[x]
      /\ \A x \in DOMAIN metas : metas'[x] = metas[x]
      /\ \A x \in DOMAIN metas : metas[x].id \in Nat \ {0} /\ metas[x].id < nextId
  BY <1>1, <1>5 DEF With, WInv, StateInv, IdsInv, IdsAreFresh, Metas, Ids
<1>7. /\ DOMAIN captured = 1 .. (nextId - 1)
      /\ DOMAIN captured' = 1 .. (nextId' - 1)
      /\ \A id \in DOMAIN captured : captured[id] \in Nat
      /\ \A id \in DOMAIN captured : id # meta.id => captured'[id] = captured[id]
      /\ k \in DOMAIN metas => captured'[meta.id] = captured[meta.id] + 1
      /\ k \notin DOMAIN metas => captured'[meta.id] = 1
  <2>1. /\ DOMAIN captured = 1 .. (nextId - 1)
        /\ \A id \in DOMAIN captured : captured[id] \in Nat
    BY DEF WInv, IdsInv
  <2>2. k \in DOMAIN metas => meta.id \in 1 .. (nextId - 1)
    BY <1>5, <1>6
  <2>3. /\ DOMAIN captured' = DOMAIN captured \cup {meta.id}
        /\ captured'[meta.id] = Count(meta.id) + 1
        /\ \A id \in DOMAIN captured : id # meta.id => captured'[id] = captured[id]
    BY <1>1 DEF With
  <2>4. DOMAIN captured' = 1 .. (nextId' - 1)
    BY <1>5, <2>1, <2>2, <2>3
  <2> QED  BY <1>5, <2>1, <2>2, <2>3, <2>4 DEF Count
<1>8. /\ IsFlow(OldState(k)) /\ IsFlow(f)
      /\ \A d \in Dirs : f.bytes[d] = OldState(k).bytes[d] + (IF d = dir THEN 1 ELSE 0)
      /\ FlowBytes(f) = FlowBytes(OldState(k)) + 1
      /\ FlowBytes(OldState(k)) \in Nat
  <2>1. IsFlow(OldState(k))
    BY DEF OldState, NewFlow, IsFlow, WInv, CacheInv
  <2>2. FlowBytes(OldState(k)) \in Nat
    BY <2>1 DEF IsFlow, FlowBytes, Dirs
  <2> QED  BY <2>1, <2>2, CountedOne DEF NewState
<1>9. /\ CacheInv'
      /\ DOMAIN flows' \subseteq DOMAIN flows \cup {k}
      /\ \A x \in DOMAIN flows' : flows'[x] = IF x = k THEN f ELSE flows[x]
      /\ ShouldClose(f) => k \notin DOMAIN flows' /\ done' = Append(done, Snapshot(k, f))
      /\ ~ShouldClose(f) => k \in DOMAIN flows' /\ done' = done
  BY <1>1, Tracked DEF WInv
<1> HIDE DEF f
<1>10. /\ Snapshot(k, f) \in Snapshots /\ SnapBytes(Snapshot(k, f)) = FlowBytes(f)
       /\ Snapshot(k, f).key = k
  BY <1>8, SnapshotOf DEF Snapshot
<1>11. /\ done' # << >> => ShouldClose(f) /\ Head(done') = Snapshot(k, f)
       /\ done' = << >> => k \in DOMAIN flows'
       /\ done' \in Seq(Snapshots) /\ Len(done') <= 1
  <2> DEFINE s == Snapshot(k, f)
  <2>1. s \in Snapshots
    BY <1>10
  <2>2. ShouldClose(f) => done' = Append(<< >>, s)
    BY <1>3, <1>9
  <2> HIDE DEF s
  <2>3. /\ Append(<< >>, s) \in Seq(Snapshots) /\ Len(Append(<< >>, s)) = 1
        /\ Append(<< >>, s) # << >> /\ Head(Append(<< >>, s)) = s
    BY <2>1, EmptySeq, AppendProperties
  <2>4. << >> \in Seq(Snapshots) /\ Len(<< >>) = 0
    BY EmptySeq
  <2>5. ~ShouldClose(f) => k \in DOMAIN flows' /\ done' = << >>
    BY <1>3, <1>9
  <2>6. CASE ShouldClose(f)
    <3>1. done' \in Seq(Snapshots) /\ Len(done') = 1 /\ done' # << >> /\ Head(done') = s
      BY <2>2, <2>3, <2>6
    <3> QED  BY <2>6, <3>1 DEF s
  <2>7. CASE ~ShouldClose(f)
    BY <2>4, <2>5, <2>7
  <2> QED  BY <2>6, <2>7
<1>12. StateInv'
  <2>1. DOMAIN metas' \subseteq Keys /\ \A x \in DOMAIN metas' : metas'[x] \in Metas
    BY <1>5, <1>6 DEF WInv, StateInv
  <2>2. nextId' \in Ids
    BY <1>5 DEF Ids
  <2> QED  BY <1>1, <1>2, <1>3, <1>11, <2>1, <2>2 DEF WInv, StateInv
<1>13. TablesInv'
  BY <1>1, <1>2, <1>3, <1>4, <1>6, <1>9, <1>10, <1>11 DEF TablesInv
<1>14. /\ \A r \in history : r.id \in 1 .. (nextId - 1) /\ r.id # meta.id
       /\ \A x \in DOMAIN metas : x # k => metas[x].id # meta.id
  <2>1. \A r \in history : /\ r.id \in Ids /\ r.id < nextId
                           /\ \A x \in DOMAIN metas : metas[x].id # r.id
    BY DEF WInv, StateInv, IdsInv
  <2>2. \A x \in DOMAIN metas : x # k => metas[x].id # meta.id
    BY <1>5, <1>6 DEF WInv, IdsInv, IdsAreFresh
  <2> QED  BY <1>5, <2>1, <2>2 DEF Ids
<1>15. IdsInv'
  <2>1. \A id \in DOMAIN captured' : captured'[id] \in Nat
    <3>1. captured'[meta.id] \in Nat
      BY <1>5, <1>6, <1>7
    <3>2. \A id \in DOMAIN captured' : id \in DOMAIN captured \/ id = meta.id
      BY <1>5, <1>7
    <3> QED  BY <1>7, <3>1, <3>2
  <2>2. \A x, y \in DOMAIN metas' : metas'[x].id = metas'[y].id => x = y
    BY <1>6, <1>14 DEF WInv, IdsInv, IdsAreFresh
  <2>3. \A x \in DOMAIN metas' : metas'[x].id < nextId'
    BY <1>5, <1>6
  <2>4. \A x \in DOMAIN live' : x \in DOMAIN metas' /\ live'[x].id = metas'[x].id
    BY <1>1, <1>4, <1>6 DEF WInv, IdsInv, IdsAreFresh
  <2>5. \A r \in history' : r.id < nextId' /\ \A x \in DOMAIN metas' : metas'[x].id # r.id
    BY <1>1, <1>5, <1>6, <1>14 DEF WInv, IdsInv
  <2>6. \A r, s \in history' : r.id = s.id => r = s
    BY <1>1 DEF WInv, IdsInv
  <2> QED  BY <1>3, <1>7, <2>1, <2>2, <2>3, <2>4, <2>5, <2>6 DEF IdsInv, IdsAreFresh
<1>16. \A x \in DOMAIN metas : metas[x].id \in DOMAIN captured
  BY <1>5, <1>6, <1>7
<1>17. \A x \in DOMAIN metas : x # k => captured'[metas[x].id] = captured[metas[x].id]
  BY <1>7, <1>14, <1>16, Zenon
<1>18. \A x \in DOMAIN flows : x # k /\ x \notin DOMAIN flows' => metas[x].id \in lost'
  BY <1>1
<1>19. lost \subseteq lost'
  BY <1>1
\* What the cache held of k before the packet, and holds after it.
<1>20. /\ FlowBytes(f) <= captured'[meta.id]
       /\ meta.id \notin lost' => FlowBytes(f) = captured'[meta.id]
  <2>1. CASE k \in DOMAIN flows
    <3>1. FlowBytes(OldState(k)) = Bytes(k)
      BY <2>1 DEF OldState, FlowBytes, Bytes
    <3>2. k \in DOMAIN metas /\ meta = metas[k]
      BY <1>4, <1>5, <2>1
    <3>3. /\ Bytes(k) <= captured[meta.id]
          /\ meta.id \notin lost => Bytes(k) = captured[meta.id]
      BY <1>3, <2>1, <3>2 DEF WInv, CountsInv, Closing
    <3> QED  BY <1>7, <1>8, <1>16, <1>19, <3>1, <3>2, <3>3
  <2>2. CASE k \notin DOMAIN flows
    <3>1. FlowBytes(OldState(k)) = 0
      BY <2>2 DEF OldState, NewFlow, FlowBytes, Dirs
    <3>2. CASE k \in DOMAIN metas
      <4>1. meta.id \in lost
        BY <1>3, <1>5, <2>2, <3>2 DEF WInv, CountsInv, Closing
      <4>2. captured'[meta.id] = captured[meta.id] + 1 /\ captured[meta.id] \in Nat
        BY <1>5, <1>7, <1>16, <3>2
      <4> QED  BY <1>8, <1>19, <3>1, <4>1, <4>2
    <3>3. CASE k \notin DOMAIN metas
      BY <1>7, <1>8, <3>1, <3>3
    <3> QED  BY <3>2, <3>3
  <2> QED  BY <2>1, <2>2
<1>21. \A x \in DOMAIN flows' : Bytes(x)' = IF x = k THEN FlowBytes(f) ELSE Bytes(x)
  BY <1>9 DEF Bytes, FlowBytes
<1>22. CountsInv'
  <2>1. \A x \in DOMAIN flows' : Bytes(x)' <= captured'[metas'[x].id]
    BY <1>4, <1>6, <1>9, <1>17, <1>20, <1>21 DEF WInv, CountsInv
  <2>2. done' # << >> => SnapBytes(Head(done')) <= captured'[metas'[Head(done').key].id]
    BY <1>6, <1>10, <1>11, <1>20
  <2>3. ASSUME NEW x \in DOMAIN metas', metas'[x].id \notin lost'
        PROVE  \/ x \in DOMAIN flows' /\ Bytes(x)' = captured'[metas'[x].id]
               \/ /\ done' # << >> /\ Head(done').key = x
                  /\ SnapBytes(Head(done')) = captured'[metas'[x].id]
    <3>1. CASE x = k
      BY <1>6, <1>10, <1>11, <1>20, <1>21, <2>3, <3>1
    <3>2. CASE x # k
      <4>1. x \in DOMAIN metas /\ metas'[x] = metas[x] /\ metas[x].id \notin lost
        BY <1>6, <1>19, <2>3, <3>2
      <4>2. x \in DOMAIN flows /\ Bytes(x) = captured[metas[x].id]
        BY <1>3, <4>1 DEF WInv, CountsInv, Closing
      <4>3. x \in DOMAIN flows'
        BY <1>18, <2>3, <3>2, <4>1, <4>2
      <4> QED  BY <1>17, <1>21, <3>2, <4>1, <4>2, <4>3
    <3> QED  BY <3>1, <3>2
  <2>4. \A x \in DOMAIN metas' \ DOMAIN live' : captured'[metas'[x].id] = 1
    BY <1>1, <1>4, <1>6, <1>7
  <2>5. ASSUME NEW x \in DOMAIN live'
        PROVE  live'[x].up + live'[x].down + (IF Ahead(x)' THEN 1 ELSE 0) = captured'[metas'[x].id]
    <3>1. x \in DOMAIN metas /\ live'[x] = live[x] /\ metas'[x] = metas[x]
      BY <1>1, <1>4, <1>6
    <3>2. live[x].up + live[x].down + 0 = captured[metas[x].id]
      BY <1>1, <1>3 DEF WInv, CountsInv
    <3>3. live[x].up \in Nat /\ live[x].down \in Nat
      BY <1>1 DEF WInv, StateInv, Dto
    <3>4. CASE x = k
      BY <1>3, <1>5, <1>6, <1>7, <3>1, <3>2, <3>3, <3>4
    <3>5. CASE x # k
      BY <1>3, <1>17, <3>1, <3>2, <3>3, <3>5
    <3> QED  BY <3>4, <3>5
  <2>6. RowsAccountForFlows'
    BY <1>1, <1>7, <1>14, <1>19 DEF WInv, CountsInv, RowsAccountForFlows
  <2> QED  BY <1>3, <2>1, <2>2, <2>3, <2>4, <2>5, <2>6 DEF CountsInv, Closing
<1>23. WaysInv'
  <2>1. SUFFICES ASSUME NEW x \in DOMAIN flows', Cardinality(LocalEnds[x]) = 1,
                        metas'[x].id \notin lost'
                 PROVE  /\ DtoOf(x)'.up + (IF x = k /\ dir = LocalEnd(x) THEN 1 ELSE 0)
                              = flows'[x].bytes[LocalEnd(x)]
                        /\ DtoOf(x)'.down + (IF x = k /\ dir = RemoteEnd(x) THEN 1 ELSE 0)
                              = flows'[x].bytes[RemoteEnd(x)]
    BY <1>2, <1>3 DEF WaysInv
  <2>2. LocalEnd(x) \in Dirs /\ RemoteEnd(x) \in Dirs
    BY Ends DEF Dirs
  <2>3. CASE x \in DOMAIN flows
    <3>1. x \in DOMAIN metas /\ metas'[x] = metas[x] /\ x \in DOMAIN live
      BY <1>4, <1>6, <2>3
    <3>2. /\ live[x].up + 0 = flows[x].bytes[LocalEnd(x)]
          /\ live[x].down + 0 = flows[x].bytes[RemoteEnd(x)]
      BY <1>3, <1>19, <2>1, <2>3, <3>1 DEF WInv, WaysInv, DtoOf
    <3>3. DtoOf(x)' = live[x]
      BY <1>1, <3>1 DEF DtoOf
    <3>4. live[x].up \in Nat /\ live[x].down \in Nat
      BY <3>1 DEF WInv, StateInv, Dto
    <3>5. CASE x # k
      BY <1>9, <3>2, <3>3, <3>4, <3>5
    <3>6. CASE x = k
      <4>1. OldState(x) = flows[x]
        BY <2>3, <3>6 DEF OldState
      <4>2. \A d \in Dirs : flows'[x].bytes[d] = flows[x].bytes[d] + (IF d = dir THEN 1 ELSE 0)
        BY <1>8, <1>9, <3>6, <4>1
      <4> QED  BY <2>2, <3>2, <3>3, <3>4, <3>6, <4>2
    <3> QED  BY <3>5, <3>6
  <2>4. CASE x \notin DOMAIN flows
    <3>1. x = k /\ flows'[x] = f
      BY <1>9, <2>4
    <3>2. \A d \in Dirs : flows'[x].bytes[d] = IF d = dir THEN 1 ELSE 0
      BY <1>8, <2>4, <3>1 DEF OldState, NewFlow
    <3>3. k \notin DOMAIN metas
      BY <1>3, <1>6, <1>19, <2>1, <2>4, <3>1 DEF WInv, CountsInv, Closing
    <3>4. DtoOf(x)'.up = 0 /\ DtoOf(x)'.down = 0
      BY <1>1, <1>4, <3>1, <3>3 DEF DtoOf
    <3> QED  BY <2>2, <3>1, <3>2, <3>4
  <2> QED  BY <2>3, <2>4
<1>24. KeptInv'
  <2>1. SUFFICES ASSUME errors' = 0, NEW id \in DOMAIN captured'
                 PROVE  \/ \E x \in DOMAIN metas' : metas'[x].id = id
                        \/ \E r \in history' : r.id = id
    BY DEF KeptInv
  <2>2. id = meta.id \/ id \in DOMAIN captured
    BY <1>5, <1>7
  <2> QED  BY <1>1, <1>3, <1>6, <2>1, <2>2 DEF WInv, KeptInv
<1> QED  BY <1>9, <1>12, <1>13, <1>15, <1>22, <1>23, <1>24 DEF WInv

\* What a step that leaves the tables of the worker alone must show: that it
\* does not change which packet or which closed flow is at hand.
LEMMA SameTables ==
  ASSUME WInv,
         UNCHANGED <<flows, order, done, metas, nextId, live, history, captured, lost>>,
         errors' \in 0 .. MaxErrors, errors' >= errors,
         wpc' \in {"recv", "evaluate", "live", "flow", "drain", "closed", "insert"},
         \A k : Ahead(k)' = Ahead(k),
         OnUpdate' => OnUpdate /\ upd' = upd,
         OnClosed' <=> OnClosed, OnClosed' => upd' = upd,
         wpc' = "recv" => done = << >>
  PROVE  WInv'
<1>1. CacheInv'
  BY DEF WInv, CacheInv
<1>2. StateInv'
  BY DEF WInv, StateInv
<1>3. TablesInv'
  BY DEF WInv, TablesInv
<1>4. IdsInv'
  BY DEF WInv, IdsInv, IdsAreFresh
<1>5. CountsInv'
  <2>1. \A k : Bytes(k)' = Bytes(k) /\ Closing(k)' = Closing(k)
    BY DEF Bytes, Closing
  <2> QED  BY <2>1 DEF WInv, CountsInv, RowsAccountForFlows
<1>6. WaysInv'
  <2>1. SUFFICES ASSUME NEW k \in DOMAIN flows, Cardinality(LocalEnds[k]) = 1,
                        metas[k].id \notin lost
                 PROVE  /\ DtoOf(k).up + (IF Ahead(k)' /\ upd'.dir = LocalEnd(k) THEN 1 ELSE 0)
                              = flows[k].bytes[LocalEnd(k)]
                        /\ DtoOf(k).down + (IF Ahead(k)' /\ upd'.dir = RemoteEnd(k) THEN 1 ELSE 0)
                              = flows[k].bytes[RemoteEnd(k)]
    BY DEF WaysInv, DtoOf
  <2>2. Ahead(k)' = Ahead(k) /\ (Ahead(k) => upd' = upd)
    BY DEF Ahead, OnUpdate
  <2> QED  BY <2>1, <2>2 DEF WInv, WaysInv
<1>7. KeptInv'
  BY DEF WInv, KeptInv, StateInv
<1> QED  BY <1>1, <1>2, <1>3, <1>4, <1>5, <1>6, <1>7 DEF WInv

\* The invariant is kept by an evaluation, which only names the flow's owner.
LEMMA EvaluateKeeps ==
  ASSUME WInv, Evaluate
  PROVE  WInv'
<1>1. /\ wpc = "evaluate" /\ wpc' = "live" /\ upd' = upd
      /\ metas' = [metas EXCEPT ![upd.key].proc = upd.proc]
      /\ UNCHANGED <<flows, order, done, nextId, live, history, errors, captured, lost>>
  BY DEF Evaluate, trackerVars
<1>2. /\ OnUpdate /\ OnUpdate' /\ ~OnClosed /\ ~OnClosed'
      /\ \A k : Ahead(k)' = Ahead(k)
  BY <1>1 DEF OnUpdate, OnClosed, Ahead
<1>3. upd \in Updates /\ upd.key \in DOMAIN metas
  BY <1>2 DEF WInv, StateInv, TablesInv
<1>4. /\ DOMAIN metas' = DOMAIN metas
      /\ \A k \in DOMAIN metas : metas[k] \in Metas /\ metas'[k].id = metas[k].id
      /\ \A k \in DOMAIN metas : metas'[k] \in Metas
  <2>1. \A k \in DOMAIN metas : metas[k] \in Metas
    BY DEF WInv, StateInv
  <2>2. \A k \in DOMAIN metas :
           metas'[k] = IF k = upd.key THEN [metas[k] EXCEPT !.proc = upd.proc] ELSE metas[k]
    BY <1>1
  <2> QED  BY <1>1, <1>3, <2>1, <2>2 DEF Metas, Updates
<1>5. CacheInv'
  BY <1>1 DEF WInv, CacheInv
<1>6. StateInv'
  BY <1>1, <1>2, <1>4 DEF WInv, StateInv
<1>7. TablesInv'
  BY <1>1, <1>2, <1>4 DEF WInv, TablesInv
<1>8. IdsInv'
  BY <1>1, <1>2, <1>4 DEF WInv, IdsInv, IdsAreFresh
<1>9. CountsInv'
  <2>1. \A k : Bytes(k)' = Bytes(k) /\ Closing(k)' = Closing(k)
    BY <1>1 DEF Bytes, Closing
  <2>2. done # << >> => Head(done).key \in DOMAIN metas
    BY DEF WInv, TablesInv
  <2>3. DOMAIN flows \subseteq DOMAIN metas /\ DOMAIN live \subseteq DOMAIN metas
    BY DEF WInv, TablesInv
  <2> QED  BY <1>1, <1>2, <1>4, <2>1, <2>2, <2>3 DEF WInv, CountsInv, RowsAccountForFlows
<1>10. WaysInv'
  <2>1. SUFFICES ASSUME NEW k \in DOMAIN flows, Cardinality(LocalEnds[k]) = 1,
                        metas'[k].id \notin lost
                 PROVE  /\ DtoOf(k)'.up + (IF Ahead(k) /\ upd.dir = LocalEnd(k) THEN 1 ELSE 0)
                              = flows[k].bytes[LocalEnd(k)]
                        /\ DtoOf(k)'.down + (IF Ahead(k) /\ upd.dir = RemoteEnd(k) THEN 1 ELSE 0)
                              = flows[k].bytes[RemoteEnd(k)]
    BY <1>1, <1>2 DEF WaysInv
  <2>2. metas[k].id \notin lost
    BY <1>4, <2>1 DEF WInv, TablesInv
  <2>3. DtoOf(k)'.up = DtoOf(k).up /\ DtoOf(k)'.down = DtoOf(k).down
    BY <1>1 DEF DtoOf
  <2> QED  BY <2>1, <2>2, <2>3 DEF WInv, WaysInv
<1>11. KeptInv'
  BY <1>1, <1>2, <1>4 DEF WInv, KeptInv
<1> QED  BY <1>5, <1>6, <1>7, <1>8, <1>9, <1>10, <1>11 DEF WInv

\* The worker and the tracker agree on the way of a packet when the flow has one
\* local end, though each decides it for itself.
LEMMA SameWay ==
  ASSUME NEW k \in Keys, Cardinality(LocalEnds[k]) = 1, NEW dir \in Dirs
  PROVE  PktOutbound(k, dir) <=> dir = LocalEnd(k)
<1>1. LocalEnds[k] \in SUBSET {"low", "high"}
  BY TrackerAssumption
<1>2. LocalEnds[k] = {"low"} \/ LocalEnds[k] = {"high"}
  <2>1. IsFiniteSet(LocalEnds[k])
    <3>1. IsFiniteSet({"low"}) /\ IsFiniteSet({"low"} \cup {"high"})
      BY FS_Singleton, FS_AddElement
    <3>2. LocalEnds[k] \subseteq {"low"} \cup {"high"}
      BY <1>1
    <3> QED  BY <3>1, <3>2, FS_Subset
  <2>2. PICK d : LocalEnds[k] = {d}
    BY <2>1, FS_Singleton
  <2> QED  BY <1>1, <2>2
<1> DEFINE other == CHOOSE d \in Dirs : d # dir
<1>3. other \in Dirs /\ other # dir
  <2>1. \E d \in Dirs : d # dir  BY DEF Dirs
  <2> QED  BY <2>1
<1>4. PktOutbound(k, dir) <=> ~(other \in LocalEnds[k] /\ dir \notin LocalEnds[k])
  BY DEF PktOutbound
<1> HIDE DEF other
<1>5. LocalEnds[k] = {LocalEnd(k)} /\ LocalEnd(k) \in Dirs
  BY <1>2 DEF LocalEnd, Dirs
<1> QED  BY <1>3, <1>4, <1>5 DEF Dirs

\* The invariant is kept when the live table catches up with the packet.
LEMMA UpdateLiveKeeps ==
  ASSUME WInv, UpdateLive
  PROVE  WInv'
<1> DEFINE k   == upd.key
           out == PktOutbound(k, upd.dir)
           old == DtoOf(k)
           dto == [old EXCEPT !.up   = IF out THEN @ + 1 ELSE @,
                              !.down = IF out THEN @ ELSE @ + 1,
                              !.proc = IF upd.proc # None THEN upd.proc ELSE @]
<1>1. /\ wpc = "live" /\ wpc' = "flow" /\ upd' = upd
      /\ live' = With(live, k, dto)
      /\ UNCHANGED <<flows, order, done, metas, nextId, history, errors, captured, lost>>
  BY DEF UpdateLive, trackerVars
<1>2. /\ OnUpdate /\ OnUpdate' /\ ~OnClosed /\ ~OnClosed'
      /\ \A x : (Ahead(x) <=> x = k) /\ ~Ahead(x)'
  BY <1>1 DEF OnUpdate, OnClosed, Ahead
<1>3. upd \in Updates /\ k \in DOMAIN metas /\ k \in Keys /\ upd.dir \in Dirs
  BY <1>2 DEF WInv, StateInv, TablesInv, Updates
<1>4. /\ DtoOf(k) \in Dto /\ DtoOf(k).id = metas[k].id
      /\ DtoOf(k).up + DtoOf(k).down + 1 = captured[metas[k].id]
  <2>1. metas[k] \in Metas
    BY <1>3 DEF WInv, StateInv
  <2>2. CASE k \in DOMAIN live
    <3>1. DtoOf(k) = live[k]
      BY <2>2 DEF DtoOf
    <3> QED  BY <1>2, <2>2, <3>1 DEF WInv, StateInv, IdsInv, IdsAreFresh, CountsInv
  <2>3. CASE k \notin DOMAIN live
    <3>1. DtoOf(k) = [id |-> metas[k].id, up |-> 0, down |-> 0, proc |-> None,
                      outbound |-> metas[k].outbound]
      BY <2>3 DEF DtoOf
    <3>2. captured[metas[k].id] = 1
      BY <1>3, <2>3 DEF WInv, CountsInv
    <3> QED  BY <2>1, <3>1, <3>2 DEF Dto, Metas
  <2> QED  BY <2>2, <2>3
<1>5. /\ dto \in Dto /\ dto.id = metas[k].id
      /\ dto.up = old.up + (IF out THEN 1 ELSE 0)
      /\ dto.down = old.down + (IF out THEN 0 ELSE 1)
  <2>1. old \in Dto /\ old.id = metas[k].id /\ upd.proc \in Procs \cup {None}
    BY <1>3, <1>4 DEF Updates
  <2> DEFINE up == IF out THEN old.up + 1 ELSE old.up
             down == IF out THEN old.down ELSE old.down + 1
             proc == IF upd.proc # None THEN upd.proc ELSE old.proc
  <2>2. dto = [old EXCEPT !.up = up, !.down = down, !.proc = proc]
    OBVIOUS
  <2> HIDE DEF dto, old, out
  <2>3. up \in Nat /\ down \in Nat /\ proc \in Procs \cup {None}
    BY <2>1 DEF Dto
  <2> HIDE DEF up, down, proc
  <2>4. /\ dto.id = old.id /\ dto.up = up /\ dto.down = down /\ dto \in Dto
    BY <2>1, <2>2, <2>3 DEF Dto
  <2>5. /\ up = old.up + (IF out THEN 1 ELSE 0)
        /\ down = old.down + (IF out THEN 0 ELSE 1)
    BY <2>1 DEF Dto, up, down
  <2> QED  BY <2>1, <2>4, <2>5
<1>6. /\ DOMAIN live' = DOMAIN live \cup {k}
      /\ live'[k] = dto
      /\ \A x \in DOMAIN live' : live'[x] = IF x = k THEN dto ELSE live[x]
  BY <1>1 DEF With
<1> HIDE DEF dto
<1>7. CacheInv'
  BY <1>1 DEF WInv, CacheInv
<1>8. StateInv'
  BY <1>1, <1>2, <1>3, <1>5, <1>6 DEF WInv, StateInv
<1>9. TablesInv'
  BY <1>1, <1>2, <1>3, <1>6 DEF WInv, TablesInv
<1>10. IdsInv'
  BY <1>1, <1>2, <1>3, <1>5, <1>6 DEF WInv, IdsInv, IdsAreFresh
<1>11. CountsInv'
  <2>1. \A x : Bytes(x)' = Bytes(x) /\ Closing(x)' = Closing(x)
    BY <1>1 DEF Bytes, Closing
  <2>2. DtoOf(k).up \in Nat /\ DtoOf(k).down \in Nat
    BY <1>4 DEF Dto
  <2>3. dto.up + dto.down + 0 = captured[metas[k].id]
    BY <1>4, <1>5, <2>2
  <2>4. ASSUME NEW x \in DOMAIN live'
        PROVE  live'[x].up + live'[x].down + 0 = captured[metas[x].id]
    BY <1>2, <1>6, <2>3 DEF WInv, CountsInv
  <2>5. \A x \in DOMAIN metas \ DOMAIN live' : captured[metas[x].id] = 1
    BY <1>6 DEF WInv, CountsInv
  <2> QED  BY <1>1, <1>2, <2>1, <2>4, <2>5 DEF WInv, CountsInv, RowsAccountForFlows
<1>12. WaysInv'
  <2>1. SUFFICES ASSUME NEW x \in DOMAIN flows, Cardinality(LocalEnds[x]) = 1,
                        metas[x].id \notin lost
                 PROVE  /\ DtoOf(x)'.up + 0 = flows[x].bytes[LocalEnd(x)]
                        /\ DtoOf(x)'.down + 0 = flows[x].bytes[RemoteEnd(x)]
    BY <1>1, <1>2 DEF WaysInv
  <2>2. /\ DtoOf(x).up + (IF x = k /\ upd.dir = LocalEnd(x) THEN 1 ELSE 0)
              = flows[x].bytes[LocalEnd(x)]
        /\ DtoOf(x).down + (IF x = k /\ upd.dir = RemoteEnd(x) THEN 1 ELSE 0)
              = flows[x].bytes[RemoteEnd(x)]
    BY <1>2, <2>1 DEF WInv, WaysInv
  <2>3. CASE x = k
    <3>1. DtoOf(x)' = dto
      BY <1>6, <2>3 DEF DtoOf
    <3>2. out <=> upd.dir = LocalEnd(x)
      BY <1>3, <2>1, <2>3, SameWay
    <3>3. upd.dir = LocalEnd(x) <=> ~(upd.dir = RemoteEnd(x))
      BY <1>3, Ends DEF Dirs
    <3>4. DtoOf(k).up \in Nat /\ DtoOf(k).down \in Nat
      BY <1>4 DEF Dto
    <3> HIDE DEF out
    <3> QED  BY <1>5, <2>2, <2>3, <3>1, <3>2, <3>3, <3>4
  <2>4. CASE x # k
    <3>1. DtoOf(x)'.up = DtoOf(x).up /\ DtoOf(x)'.down = DtoOf(x).down
      BY <1>6, <2>4 DEF DtoOf
    <3> QED  BY <2>2, <2>4, <3>1
  <2> QED  BY <2>3, <2>4
<1>13. KeptInv'
  BY <1>1, <1>2 DEF WInv, KeptInv
<1> QED  BY <1>7, <1>8, <1>9, <1>10, <1>11, <1>12, <1>13 DEF WInv

\* The invariant is kept when a closed flow leaves the tables: its id is now in
\* the hands of the worker only.
LEMMA CloseLiveKeeps ==
  ASSUME WInv, CloseLive
  PROVE  WInv'
<1> DEFINE snap == Head(done)
           k    == snap.key
           meta == metas[k]
<1>1. /\ wpc = "drain" /\ done # << >> /\ wpc' = "closed"
      /\ upd' = [snap |-> snap, meta |-> meta]
      /\ metas' = Minus(metas, k) /\ live' = Minus(live, k) /\ done' = Tail(done)
      /\ UNCHANGED <<flows, order, nextId, history, errors, captured, lost>>
  BY DEF CloseLive, Removed
<1>2. /\ ~OnUpdate /\ ~OnUpdate' /\ ~OnClosed /\ OnClosed'
      /\ \A x : ~Ahead(x) /\ ~Ahead(x)'
  BY <1>1 DEF OnUpdate, OnClosed, Ahead
<1>3. snap \in Snapshots /\ done' = << >> /\ done' \in Seq(Snapshots) /\ Len(done') <= 1
  <2>1. done \in Seq(Snapshots) /\ Len(done) <= 1 /\ done # << >>
    BY <1>1 DEF WInv, StateInv
  <2> QED  BY <1>1, <2>1
<1> HIDE DEF snap
<1>4. /\ k \in DOMAIN metas /\ k \notin DOMAIN flows
      /\ DOMAIN live = DOMAIN metas /\ DOMAIN flows \subseteq DOMAIN metas
  BY <1>1, <1>2 DEF WInv, TablesInv, snap
<1>5. meta \in Metas /\ meta.id < nextId
  BY <1>4 DEF WInv, StateInv, IdsInv, IdsAreFresh
<1>6. /\ DOMAIN metas' = DOMAIN metas \ {k} /\ DOMAIN live' = DOMAIN live \ {k}
      /\ \A x \in DOMAIN metas' : metas'[x] = metas[x] /\ metas[x].id # meta.id
      /\ \A x \in DOMAIN live' : live'[x] = live[x]
  BY <1>1, <1>4 DEF Minus, WInv, IdsInv, IdsAreFresh
<1> HIDE DEF meta
<1>7. upd'.snap = snap /\ upd'.meta = meta /\ upd' \in [snap : Snapshots, meta : Metas]
  BY <1>1, <1>3, <1>5
<1>8. CacheInv'
  BY <1>1 DEF WInv, CacheInv
<1>9. StateInv'
  BY <1>1, <1>2, <1>3, <1>6, <1>7 DEF WInv, StateInv
<1>10. TablesInv'
  BY <1>1, <1>2, <1>3, <1>4, <1>6 DEF WInv, TablesInv
<1>11. IdsInv'
  <2>1. \A r \in history : r.id # meta.id
    BY <1>4 DEF WInv, IdsInv, meta
  <2> QED  BY <1>1, <1>2, <1>5, <1>6, <1>7, <2>1 DEF WInv, IdsInv, IdsAreFresh
<1>12. CountsInv'
  <2>1. \A x : Bytes(x)' = Bytes(x)
    BY <1>1 DEF Bytes
  <2>2. /\ SnapBytes(snap) <= captured[meta.id]
        /\ meta.id \notin lost => SnapBytes(snap) = captured[meta.id]
    BY <1>1, <1>4 DEF WInv, CountsInv, Closing, snap, meta
  <2>3. \A x \in DOMAIN flows : Bytes(x) <= captured[metas'[x].id]
    BY <1>4, <1>6 DEF WInv, CountsInv
  <2>4. \A x \in DOMAIN metas' : metas'[x].id \notin lost =>
           x \in DOMAIN flows /\ Bytes(x) = captured[metas'[x].id]
    BY <1>6 DEF WInv, CountsInv, Closing, snap
  <2>5. \A x \in DOMAIN live' : live'[x].up + live'[x].down + 0 = captured[metas'[x].id]
    BY <1>2, <1>4, <1>6 DEF WInv, CountsInv
  <2> QED  BY <1>1, <1>2, <1>3, <1>4, <1>6, <1>7, <2>1, <2>2, <2>3, <2>4, <2>5
           DEF WInv, CountsInv, RowsAccountForFlows
<1>13. WaysInv'
  <2>1. SUFFICES ASSUME NEW x \in DOMAIN flows, Cardinality(LocalEnds[x]) = 1,
                        metas'[x].id \notin lost
                 PROVE  /\ DtoOf(x)'.up + 0 = flows[x].bytes[LocalEnd(x)]
                        /\ DtoOf(x)'.down + 0 = flows[x].bytes[RemoteEnd(x)]
    BY <1>1, <1>2 DEF WaysInv
  <2>2. x \in DOMAIN metas' /\ x \in DOMAIN live' /\ x \in DOMAIN live
    BY <1>4, <1>6
  <2>3. DtoOf(x)' = live[x] /\ DtoOf(x) = live[x]
    BY <1>6, <2>2 DEF DtoOf
  <2> QED  BY <1>2, <1>6, <2>1, <2>2, <2>3 DEF WInv, WaysInv
<1>14. KeptInv'
  <2>1. SUFFICES ASSUME errors = 0, NEW id \in DOMAIN captured
                 PROVE  \/ \E x \in DOMAIN metas' : metas'[x].id = id
                        \/ \E r \in history : r.id = id
                        \/ meta.id = id
    BY <1>1, <1>2, <1>7 DEF KeptInv
  <2> QED  BY <1>2, <1>6, <2>1 DEF WInv, KeptInv, meta
<1> QED  BY <1>8, <1>9, <1>10, <1>11, <1>12, <1>13, <1>14 DEF WInv

\* The invariant is kept when the row of a closed flow is written, and when the
\* store fails to write it.
LEMMA InsertRowKeeps ==
  ASSUME WInv, InsertRow
  PROVE  WInv'
<1>1. /\ wpc = "insert" /\ wpc' = "drain"
      /\ UNCHANGED <<flows, order, done, metas, nextId, live, captured, lost>>
      /\ \/ history' = history \cup {RowOf(upd)} /\ errors' = errors
         \/ errors < MaxErrors /\ errors' = errors + 1 /\ history' = history
  BY DEF InsertRow, Kept, trackerVars
<1>2. /\ ~OnUpdate /\ ~OnUpdate' /\ OnClosed /\ ~OnClosed'
      /\ \A x : ~Ahead(x) /\ ~Ahead(x)'
  BY <1>1 DEF OnUpdate, OnClosed, Ahead
<1> DEFINE row == RowOf(upd)
<1>3. /\ upd \in [snap : Snapshots, meta : Metas]
      /\ row.id = upd.meta.id
      /\ row \in [id : Ids, up : Nat, down : Nat, proc : Procs \cup {None}]
      /\ row.up + row.down = SnapBytes(upd.snap)
  BY <1>2 DEF WInv, StateInv, RowOf, Snapshots, Metas, SnapBytes
<1> HIDE DEF row
<1>4. history \subseteq history' /\ \A r \in history' : r \in history \/ r = row
  BY <1>1 DEF row
<1>5. errors \in Nat /\ errors' \in 0 .. MaxErrors /\ (errors' = 0 => errors = 0 /\ row \in history')
  BY <1>1, WorkerAssumption DEF WInv, StateInv, row
<1>6. CacheInv'
  BY <1>1 DEF WInv, CacheInv
<1>7. StateInv'
  BY <1>1, <1>2, <1>3, <1>4, <1>5 DEF WInv, StateInv
<1>8. TablesInv'
  BY <1>1, <1>2 DEF WInv, TablesInv
<1>9. IdsInv'
  BY <1>1, <1>2, <1>3, <1>4 DEF WInv, IdsInv, IdsAreFresh
<1>10. CountsInv'
  <2>1. \A x : Bytes(x)' = Bytes(x) /\ Closing(x)' = Closing(x)
    BY <1>1 DEF Bytes, Closing
  <2>2. RowsAccountForFlows'
    BY <1>1, <1>2, <1>3, <1>4 DEF WInv, CountsInv, RowsAccountForFlows
  <2> QED  BY <1>1, <1>2, <2>1, <2>2 DEF WInv, CountsInv
<1>11. WaysInv'
  BY <1>1, <1>2 DEF WInv, WaysInv, DtoOf
<1>12. KeptInv'
  BY <1>1, <1>2, <1>3, <1>4, <1>5 DEF WInv, KeptInv
<1> QED  BY <1>6, <1>7, <1>8, <1>9, <1>10, <1>11, <1>12 DEF WInv

-----------------------------------------------------------------------------
(***************************************************************************)
(* The invariant, and what follows from it.                                *)
(***************************************************************************)
\* The invariant holds of a worker that has seen no packet.
LEMMA WorkerStarts == WorkerInit => WInv
<1> SUFFICES ASSUME WorkerInit PROVE WInv
  OBVIOUS
<1>1. /\ flows = << >> /\ order = << >> /\ done = << >> /\ metas = << >> /\ nextId = 1
      /\ live = << >> /\ history = {} /\ wpc = "recv" /\ errors = 0 /\ captured = << >>
  BY DEF WorkerInit, TrackerInit
<1>2. ~OnUpdate /\ ~OnClosed /\ \A x : ~Ahead(x)
  BY <1>1 DEF OnUpdate, OnClosed, Ahead
<1>3. /\ DOMAIN flows = {} /\ DOMAIN metas = {} /\ DOMAIN live = {} /\ DOMAIN captured = {}
      /\ order \in Seq(Keys) /\ Len(order) = 0 /\ done \in Seq(Snapshots) /\ Len(done) = 0
  BY <1>1
<1>4. CacheInv
  BY <1>3, TrackerAssumption DEF CacheInv
<1>5. StateInv
  BY <1>1, <1>2, <1>3, WorkerAssumption DEF StateInv, Ids
<1>6. TablesInv
  BY <1>1, <1>2, <1>3 DEF TablesInv
<1>7. IdsInv
  BY <1>1, <1>2, <1>3 DEF IdsInv, IdsAreFresh
<1>8. CountsInv
  BY <1>1, <1>2, <1>3 DEF CountsInv, RowsAccountForFlows
<1>9. WaysInv
  BY <1>3 DEF WaysInv
<1>10. KeptInv
  BY <1>3 DEF KeptInv
<1> QED  BY <1>4, <1>5, <1>6, <1>7, <1>8, <1>9, <1>10 DEF WInv

\* Every step of the worker keeps it.
LEMMA WorkerSteps ==
  ASSUME WInv, [Worker]_workerVars
  PROVE  WInv'
<1>0. /\ errors \in 0 .. MaxErrors
      /\ wpc \in {"recv", "evaluate", "live", "flow", "drain", "closed", "insert"}
      /\ wpc = "recv" => done = << >>
  BY DEF WInv, StateInv
<1> DEFINE still == UNCHANGED <<flows, order, done, metas, nextId, live, history, captured, lost>>
<1>1. CASE Receive
  BY <1>1, ReceiveKeeps DEF Receive
<1>2. CASE Evaluate
  BY <1>2, EvaluateKeeps
<1>3. CASE EvaluateFails
  <2>1. still /\ upd' = upd /\ wpc = "evaluate" /\ wpc' = "live"
    BY <1>3 DEF EvaluateFails, trackerVars
  <2>2. errors' \in 0 .. MaxErrors /\ errors' >= errors
    BY <1>0, <1>3, WorkerAssumption DEF EvaluateFails
  <2> QED  BY <2>1, <2>2, SameTables DEF Ahead, OnUpdate, OnClosed
<1>4. CASE UpdateLive
  BY <1>4, UpdateLiveKeeps
<1>5. CASE BroadcastFlow
  <2>1. still /\ errors' = errors /\ wpc = "flow" /\ wpc' = "drain"
    BY <1>5 DEF BroadcastFlow, trackerVars
  <2> QED  BY <1>0, <2>1, SameTables DEF Ahead, OnUpdate, OnClosed
<1>6. CASE Drained
  <2>1. still /\ errors' = errors /\ wpc = "drain" /\ wpc' = "recv" /\ done = << >>
    BY <1>6 DEF Drained, trackerVars
  <2> QED  BY <1>0, <2>1, SameTables DEF Ahead, OnUpdate, OnClosed
<1>7. CASE CloseLive
  BY <1>7, CloseLiveKeeps
<1>8. CASE BroadcastClosed
  <2>1. still /\ errors' = errors /\ upd' = upd /\ wpc = "closed" /\ wpc' = "insert"
    BY <1>8 DEF BroadcastClosed, trackerVars
  <2> QED  BY <1>0, <2>1, SameTables DEF Ahead, OnUpdate, OnClosed
<1>9. CASE InsertRow
  BY <1>9, InsertRowKeeps
<1>10. CASE Idle \/ UNCHANGED workerVars
  <2>1. still /\ errors' = errors /\ upd' = upd /\ wpc' = wpc
    BY <1>10 DEF Idle, trackerVars, workerVars
  <2> QED  BY <1>0, <2>1, SameTables DEF Ahead, OnUpdate, OnClosed
<1> QED
  BY <1>1, <1>2, <1>3, <1>4, <1>5, <1>6, <1>7, <1>8, <1>9, <1>10 DEF Worker

\* What the worker, the tracker and the live table know of each other, at every
\* step of the handling of a packet (handle_update and persist_closed).
THEOREM WorkerInvariant == WorkerSpec => []WInv
<1>1. WInv /\ [Worker]_workerVars => WInv'
  BY WorkerSteps
<1> QED  BY <1>1, WorkerStarts, PTL DEF WorkerSpec

\* Between two packets the live table shows the flows as the tracker counts
\* them, packet by packet and direction by direction, unless a flow was pushed
\* out of the cache (handle_update, correlate.rs:87-211).
THEOREM LiveTableExact == WorkerSpec => []LiveIsExact
<1>1. WInv => LiveIsExact
  <2> SUFFICES ASSUME WInv, Quiet PROVE LiveIsExact
    BY DEF LiveIsExact, TablesAgree, SameOrientation
  <2>1. done = << >> /\ \A x : ~Ahead(x)
    BY DEF Quiet, Ahead, WInv, StateInv
  <2>2. DOMAIN flows \subseteq DOMAIN metas /\ DOMAIN live = DOMAIN metas
    BY <2>1 DEF WInv, TablesInv
  <2>3. ASSUME NEW k \in DOMAIN live
        PROVE  /\ live[k].id = metas[k].id /\ live[k].up \in Nat /\ live[k].down \in Nat
               /\ live[k].up + live[k].down = captured[metas[k].id]
               /\ metas[k].id \notin lost =>
                     k \in DOMAIN flows /\ Bytes(k) = captured[metas[k].id]
    <3>1. live[k] \in Dto /\ live[k].id = metas[k].id
      BY DEF WInv, StateInv, IdsInv, IdsAreFresh
    <3>2. live[k].up + live[k].down + 0 = captured[metas[k].id]
      BY <2>1 DEF WInv, CountsInv
    <3>3. metas[k].id \notin lost => k \in DOMAIN flows /\ Bytes(k) = captured[metas[k].id]
      BY <2>1, <2>2 DEF WInv, CountsInv, Closing
    <3> QED  BY <3>1, <3>2, <3>3 DEF Dto
  <2>4. TablesAgree
    BY <2>2, <2>3 DEF TablesAgree
  <2>5. SameOrientation
    <3>1. SUFFICES ASSUME NEW k \in DOMAIN live, Cardinality(LocalEnds[k]) = 1,
                          live[k].id \notin lost
                   PROVE  /\ live[k].up = flows[k].bytes[LocalEnd(k)]
                          /\ live[k].down = flows[k].bytes[RemoteEnd(k)]
      BY DEF SameOrientation, Snapshot
    <3>2. k \in DOMAIN flows /\ metas[k].id \notin lost /\ DtoOf(k) = live[k]
      BY <2>3, <3>1 DEF DtoOf
    <3>3. /\ live[k].up + 0 = flows[k].bytes[LocalEnd(k)]
          /\ live[k].down + 0 = flows[k].bytes[RemoteEnd(k)]
      BY <2>1, <3>1, <3>2 DEF WInv, WaysInv
    <3> QED  BY <2>3, <3>3
  <2> QED  BY <2>4, <2>5 DEF LiveIsExact
<1> QED  BY <1>1, WorkerInvariant, PTL

\* The row of a connection accounts for every packet of it, unless its flow was
\* pushed out of the cache, and never for more (persist_closed).
THEOREM TotalsReachHistory == WorkerSpec => []RowsAccountForFlows
<1>1. WInv => RowsAccountForFlows
  BY DEF WInv, CountsInv
<1> QED  BY <1>1, WorkerInvariant, PTL

\* An id stands for one connection, live or in the history and never both, and
\* the cache never outgrows its capacity (correlate.rs:114-126, tracker.rs:117).
THEOREM OneIdOnePlace == WorkerSpec => []OneIdEach
<1>1. WInv => OneIdEach
  <2> SUFFICES ASSUME WInv PROVE OneIdEach
    OBVIOUS
  <2>1. Len(order) = Cardinality(DOMAIN flows)
    <3> DEFINE n == Len(order)
               b == [i \in 1 .. n |-> order[i]]
    <3>1. n \in Nat /\ b \in Bijection(1 .. n, DOMAIN flows)
      BY DEF WInv, CacheInv, Bijection, Injection, Surjection, IsInjective
    <3> QED  BY <3>1, FS_CountingElements DEF ExistsBijection
  <2>2. DOMAIN flows \subseteq Keys /\ DOMAIN order = 1 .. Len(order)
    BY DEF WInv, CacheInv
  <2>3. TypeOK
    <3>1. DOMAIN captured \subseteq Ids
      BY DEF WInv, IdsInv, Ids
    <3>2. /\ DOMAIN flows = {order[i] : i \in DOMAIN order} /\ Len(order) <= MaxFlows
          /\ \A k \in DOMAIN flows : flows[k].bytes \in [Dirs -> Nat] /\ flows[k].fin \subseteq Dirs
      BY <2>2 DEF WInv, CacheInv
    <3>3. /\ DOMAIN metas \subseteq Keys /\ \A k \in DOMAIN metas : metas[k] \in Metas
          /\ nextId \in Ids
          /\ DOMAIN live \subseteq Keys /\ \A k \in DOMAIN live : live[k] \in Dto
          /\ history \subseteq [id : Ids, up : Nat, down : Nat, proc : Procs \cup {None}]
          /\ wpc \in {"recv", "evaluate", "live", "flow", "drain", "closed", "insert"}
          /\ errors \in 0 .. MaxErrors
      BY DEF WInv, StateInv
    <3> QED  BY <2>1, <2>2, <3>1, <3>2, <3>3 DEF TypeOK, Metas
  <2>4. IdsAreFresh /\ OneRowEach
    BY DEF WInv, IdsInv, TablesInv, IdsAreFresh, OneRowEach
  <2> QED  BY <2>3, <2>4 DEF OneIdEach
<1> QED  BY <1>1, WorkerInvariant, PTL

\* Between two packets a connection that was captured is live or in the history,
\* unless a call of the store failed (persist_closed, correlate.rs:214-251).
THEOREM NoneLostOnTheWay == WorkerSpec => []ClosedIsKept
<1>1. WInv => ClosedIsKept
  <2> SUFFICES ASSUME WInv, Quiet, errors = 0, NEW id \in DOMAIN captured
               PROVE  \/ \E k \in DOMAIN live : live[k].id = id
                      \/ \E r \in history : r.id = id
    BY DEF ClosedIsKept
  <2>1. ~OnClosed /\ \A x : ~Ahead(x)
    BY DEF Quiet, Ahead, OnClosed
  <2>2. DOMAIN live = DOMAIN metas /\ \A k \in DOMAIN live : live[k].id = metas[k].id
    BY <2>1 DEF WInv, TablesInv, IdsInv, IdsAreFresh
  <2> QED  BY <2>1, <2>2 DEF WInv, KeptInv
<1> QED  BY <1>1, WorkerInvariant, PTL

\* What a subscriber hears is what the IPC server would show at that moment: a
\* Flow is an entry of the live table, and the connection of a Closed is gone
\* from it (correlate.rs:210, 229-231).
THEOREM StreamIsTrue == WorkerSpec => StreamMatchesTable
<1> DEFINE A == /\ event' # None /\ event'.type = "flow" =>
                     \E k \in DOMAIN live : live[k] = event'.dto
                /\ event' # None /\ event'.type = "closed" =>
                     \A k \in DOMAIN live : live[k].id # event'.id
<1>1. ASSUME WInv, Worker PROVE A
  <2>1. CASE BroadcastFlow
    <3>1. /\ event' = Flow(live[upd.key]) /\ OnUpdate /\ ~Ahead(upd.key)
      BY <2>1 DEF BroadcastFlow, OnUpdate, Ahead
    <3>2. upd.key \in DOMAIN live
      BY <1>1, <3>1 DEF WInv, TablesInv
    <3> QED  BY <3>1, <3>2 DEF Flow
  <2>2. CASE BroadcastClosed
    <3>1. event' = Closed(upd.meta.id) /\ OnClosed
      BY <2>2 DEF BroadcastClosed, OnClosed
    <3>2. \A k \in DOMAIN live : live[k].id # upd.meta.id
      BY <1>1, <3>1 DEF WInv, IdsInv, IdsAreFresh
    <3> QED  BY <3>1, <3>2 DEF Closed
  <2>3. CASE event' = None \/ event' = Heartbeat
    BY <2>3 DEF Heartbeat
  <2> QED
    BY <1>1, <2>1, <2>2, <2>3
    DEF Worker, Receive, ReceivePacket, Evaluate, EvaluateFails, UpdateLive, Drained,
        CloseLive, InsertRow, Idle
<1>2. WInv /\ [Worker]_workerVars => [A]_workerVars
  BY <1>1
<1> HIDE DEF A
<1>3. WorkerSpec => [][A]_workerVars
  BY <1>2, WorkerInvariant, PTL DEF WorkerSpec
<1> QED  BY <1>3 DEF StreamMatchesTable, A

-----------------------------------------------------------------------------
(***************************************************************************)
(* The events on their way to the view, oldest first: those of the pipe,   *)
(* then those of the queue of the bus.                                     *)
(***************************************************************************)
Queued(i)  == i \in 1 .. Len(pipe) + Len(sub)
Ev(i)   == IF i <= Len(pipe) THEN pipe[i] ELSE sub[i - Len(pipe)]

IdOf(e) == IF e.type = "flow" THEN e.dto.id ELSE e.id
About(e, id) == e.type # "heartbeat" /\ IdOf(e) = id

\* What the view will be based on: the answer it has yet to install, if any.
Base == IF phase = "refresh" THEN reply ELSE conns

\* The worker has changed the connection in the table and not announced it yet.
Pending(id) == \/ wpc = "flow" /\ id = metas[upd.key].id
               \/ wpc = "closed" /\ id = upd.meta.id

\* A table, or an event, shows the connection as the live table does.
TableAgrees(t, id) ==
  /\ id \in DOMAIN t <=> id \in DOMAIN ById
  /\ id \in DOMAIN t => t[id] = ById[id]
EventAgrees(e, id) ==
  IF e.type = "closed" THEN id \notin DOMAIN ById
  ELSE id \in DOMAIN ById /\ e.dto = ById[id]

\* The last event about a connection, or the view where there is none, shows the
\* connection as it is, or as it was before the worker's last change, unless its
\* latest event was lost.
FollowUp ==
  phase # "attach" =>
    \A id \in Ids \ missed : ~Pending(id) =>
      /\ (\A i \in Nat : Queued(i) => ~About(Ev(i), id)) => TableAgrees(Base, id)
      /\ \A i \in Nat :
           /\ Queued(i) /\ About(Ev(i), id)
           /\ \A j \in Nat : Queued(j) /\ j > i => ~About(Ev(j), id)
           => EventAgrees(Ev(i), id)

\* A connection whose end was announced is not in the tables any more, and no
\* Flow of it follows its Closed.
Ended(id) == id \in over \/ \E i \in Nat : Queued(i) /\ Ev(i).type = "closed" /\ Ev(i).id = id
GoneForGood ==
  /\ \A id \in Ids : Ended(id) =>
        id < nextId /\ \A k \in DOMAIN metas : metas[k].id # id
  /\ \A i, j \in Nat : Queued(i) /\ Queued(j) /\ i < j /\ Ev(i).type = "closed" =>
        ~(Ev(j).type = "flow" /\ Ev(j).dto.id = Ev(i).id)
  /\ \A i \in Nat : Queued(i) => ~(Ev(i).type = "flow" /\ Ev(i).dto.id \in over)
  /\ DOMAIN conns \cap over = {}
  /\ phase = "refresh" => DOMAIN reply \cap over = {}

\* Before the subscription there are no events on their way.
NoEarlyEvents == ~Subscribed => sub = << >> /\ pipe = << >>

IsFun(t) == t = [x \in DOMAIN t |-> t[x]]

VInv == /\ ViewTypeOK /\ FollowUp /\ GoneForGood /\ NoEarlyEvents
        /\ IsFun(conns) /\ (phase = "refresh" => IsFun(reply))

-----------------------------------------------------------------------------
(***************************************************************************)
(* The live table by id, and what a step of the worker does to it.         *)
(***************************************************************************)
IsSnapshot ==
  /\ IsTable(ById) /\ IsFun(ById)
  /\ \A k \in DOMAIN live : live[k].id \in DOMAIN ById /\ ById[live[k].id] = live[k]
  /\ \A id \in DOMAIN ById : \E k \in DOMAIN live :
        /\ live[k].id = id /\ ById[id] = live[k]
        /\ k \in DOMAIN metas /\ metas[k].id = id

\* The snapshot has each connection of the live table once (LiveState::snapshot).
LEMMA SnapshotTable == WInv => IsSnapshot
<1> SUFFICES ASSUME WInv PROVE IsSnapshot
  OBVIOUS
<1>1. \A k \in DOMAIN live : /\ live[k] \in Dto /\ live[k].id \in Ids
                             /\ k \in DOMAIN metas /\ metas[k].id = live[k].id
  BY DEF WInv, StateInv, IdsInv, IdsAreFresh, Dto
<1>2. \A k, l \in DOMAIN live : live[k].id = live[l].id => k = l
  BY <1>1 DEF WInv, IdsInv, IdsAreFresh
<1>3. DOMAIN ById = {live[k].id : k \in DOMAIN live}
  BY DEF ById
<1>4. \A k \in DOMAIN live : ById[live[k].id] = live[k]
  <2> SUFFICES ASSUME NEW k \in DOMAIN live PROVE ById[live[k].id] = live[k]
    OBVIOUS
  <2>1. (CHOOSE l \in DOMAIN live : live[l].id = live[k].id) = k
    BY <1>2
  <2> QED  BY <2>1 DEF ById
<1>5. IsFun(ById)
  BY DEF ById, IsFun
<1>6. \A id \in DOMAIN ById : \E k \in DOMAIN live : live[k].id = id
  BY <1>3
<1> HIDE DEF ById
<1> QED  BY <1>1, <1>3, <1>4, <1>5, <1>6 DEF IsTable, IsSnapshot

\* The snapshot depends on the live table alone.
LEMMA SameSnapshot ==
  ASSUME live' = live
  PROVE  ById' = ById
BY DEF ById

\* A step of the worker that announces nothing changes the snapshot only where a
\* change is pending afterwards.
Silently ==
  \A id \in Ids : ~Pending(id)' =>
    /\ ~Pending(id)
    /\ id \in DOMAIN ById' <=> id \in DOMAIN ById
    /\ id \in DOMAIN ById => ById'[id] = ById[id]

\* One that announces a connection announces the pending one, as it is now.
Announces(e) ==
  /\ e \in Events /\ e.type \in {"flow", "closed"}
  /\ live' = live /\ metas' = metas /\ nextId' = nextId
  /\ \A id \in Ids : ~Pending(id)' /\ (Pending(id) => id = IdOf(e))
  /\ EventAgrees(e, IdOf(e))
  /\ e.type = "flow" => \E k \in DOMAIN metas : metas[k].id = e.dto.id
  /\ e.type = "closed" =>
        /\ e.id \in Ids /\ e.id < nextId
        /\ \A k \in DOMAIN metas : metas[k].id # e.id

\* So does the broadcast of a Flow ...
LEMMA FlowAnnounced ==
  ASSUME WInv, BroadcastFlow
  PROVE  Announces(event')
<1> DEFINE d == live[upd.key]
<1>1. /\ wpc = "flow" /\ wpc' = "drain" /\ event' = Flow(d)
      /\ UNCHANGED <<live, metas, nextId>>
  BY DEF BroadcastFlow
<1>2. upd.key \in DOMAIN metas /\ upd.key \in DOMAIN live
  BY <1>1 DEF WInv, TablesInv, OnUpdate, Ahead
<1>3. d \in Dto /\ d.id = metas[upd.key].id
  BY <1>2 DEF WInv, StateInv, IdsInv, IdsAreFresh
<1>4. d.id \in DOMAIN ById /\ ById[d.id] = d
  BY <1>2, SnapshotTable DEF IsSnapshot
<1> HIDE DEF d
<1> DEFINE e == Flow(d)
<1>5. e.type = "flow" /\ e.dto = d /\ e \in [type : {"flow"}, dto : Dto]
  BY <1>3 DEF Flow
<1> HIDE DEF e
<1>6. e \in Events /\ IdOf(e) = d.id /\ EventAgrees(e, d.id)
  BY <1>4, <1>5 DEF Events, IdOf, EventAgrees
<1>7. \A id \in Ids : ~Pending(id)' /\ (Pending(id) => id = d.id)
  BY <1>1, <1>3 DEF Pending
<1> QED  BY <1>1, <1>2, <1>3, <1>5, <1>6, <1>7 DEF Announces, e

\* ... and that of a Closed ...
LEMMA ClosedAnnounced ==
  ASSUME WInv, BroadcastClosed
  PROVE  Announces(event')
<1> DEFINE i == upd.meta.id
<1>1. /\ wpc = "closed" /\ wpc' = "insert" /\ event' = Closed(i) /\ OnClosed
      /\ UNCHANGED <<live, metas, nextId>>
  BY DEF BroadcastClosed, trackerVars, OnClosed
<1>2. i \in Ids /\ i < nextId /\ \A k \in DOMAIN metas : metas[k].id # i
  BY <1>1 DEF WInv, StateInv, IdsInv, Metas
<1>3. i \notin DOMAIN ById
  BY <1>2, SnapshotTable DEF IsSnapshot
<1>4. \A id \in Ids : ~Pending(id)' /\ (Pending(id) => id = i)
  BY <1>1 DEF Pending
<1> HIDE DEF i
<1> DEFINE e == Closed(i)
<1>5. e.type = "closed" /\ e.id = i /\ e \in [type : {"closed"}, id : Ids]
  BY <1>2 DEF Closed
<1> HIDE DEF e
<1>6. e \in Events /\ IdOf(e) = i /\ EventAgrees(e, i)
  BY <1>3, <1>5 DEF Events, IdOf, EventAgrees
<1> QED  BY <1>1, <1>2, <1>4, <1>5, <1>6 DEF Announces, e

\* ... and every other step announces nothing, or a heartbeat.
LEMMA NothingAnnounced ==
  ASSUME WInv, Worker, ~BroadcastFlow, ~BroadcastClosed
  PROVE  Silently /\ event' \in {None, Heartbeat}
<1>1. CASE UNCHANGED live /\ wpc \notin {"flow", "closed"} /\ wpc' \notin {"flow", "closed"}
           /\ event' \in {None, Heartbeat}
  BY <1>1, SameSnapshot DEF Silently, Pending
<1>2. CASE UpdateLive
  <2>1. /\ wpc = "live" /\ wpc' = "flow" /\ upd' = upd /\ metas' = metas
        /\ DOMAIN live' = DOMAIN live \cup {upd.key}
        /\ \A k \in DOMAIN live : k # upd.key => live'[k] = live[k]
        /\ event' = None
    BY <1>2 DEF UpdateLive, With
  <2>2. WInv'
    BY <1>2, UpdateLiveKeeps
  <2>3. \A k \in DOMAIN live : live[k].id = metas[k].id
    BY DEF WInv, IdsInv, IdsAreFresh
  <2>4. \A k \in DOMAIN live' : live'[k].id = metas[k].id
    BY <2>1, <2>2 DEF WInv, IdsInv, IdsAreFresh
  <2>5. /\ \A k \in DOMAIN live : live[k].id \in DOMAIN ById /\ ById[live[k].id] = live[k]
        /\ \A id \in DOMAIN ById : \E k \in DOMAIN live : live[k].id = id
    BY SnapshotTable DEF IsSnapshot
  <2>6. /\ \A k \in DOMAIN live' : live'[k].id \in DOMAIN ById' /\ ById'[live'[k].id] = live'[k]
        /\ \A id \in DOMAIN ById' : \E k \in DOMAIN live' : live'[k].id = id
    <3>1. IsSnapshot'
      BY <2>2, SnapshotTable, PTL
    <3> QED  BY <3>1 DEF IsSnapshot
  <2>7. ASSUME NEW id \in Ids, id # metas[upd.key].id
        PROVE  /\ id \in DOMAIN ById' <=> id \in DOMAIN ById
               /\ id \in DOMAIN ById => ById'[id] = ById[id]
    BY <2>1, <2>3, <2>4, <2>5, <2>6, <2>7
  <2> QED  BY <2>1, <2>7 DEF Silently, Pending
<1>3. CASE CloseLive
  <2> DEFINE k0 == Head(done).key
  <2>1. /\ wpc = "drain" /\ wpc' = "closed" /\ upd'.meta = metas[k0] /\ done # << >>
        /\ DOMAIN live' = DOMAIN live \ {k0}
        /\ \A k \in DOMAIN live' : live'[k] = live[k]
        /\ event' = None
    BY <1>3 DEF CloseLive, Removed, Minus
  <2>2. WInv'
    BY <1>3, CloseLiveKeeps
  <2>3. \A k \in DOMAIN live : live[k].id = metas[k].id
    BY DEF WInv, IdsInv, IdsAreFresh
  <2>4. /\ \A k \in DOMAIN live : live[k].id \in DOMAIN ById /\ ById[live[k].id] = live[k]
        /\ \A id \in DOMAIN ById : \E k \in DOMAIN live : live[k].id = id
    BY SnapshotTable DEF IsSnapshot
  <2>5. /\ \A k \in DOMAIN live' : live'[k].id \in DOMAIN ById' /\ ById'[live'[k].id] = live'[k]
        /\ \A id \in DOMAIN ById' : \E k \in DOMAIN live' : live'[k].id = id
    <3>1. IsSnapshot'
      BY <2>2, SnapshotTable, PTL
    <3> QED  BY <3>1 DEF IsSnapshot
  <2> HIDE DEF k0
  <2>6. ASSUME NEW id \in Ids, id # metas[k0].id
        PROVE  /\ id \in DOMAIN ById' <=> id \in DOMAIN ById
               /\ id \in DOMAIN ById => ById'[id] = ById[id]
    BY <2>1, <2>3, <2>4, <2>5, <2>6
  <2> QED  BY <2>1, <2>6 DEF Silently, Pending
<1> QED
  BY <1>1, <1>2, <1>3
  DEF Worker, Receive, ReceivePacket, Evaluate, EvaluateFails, Drained, InsertRow, Idle

\* Ids are given out once, in order (correlate.rs:114-126).
LEMMA NewIds ==
  ASSUME WInv, Worker
  PROVE  /\ nextId \in Ids /\ nextId' \in Ids /\ nextId' >= nextId
         /\ \A k \in DOMAIN metas' : \/ k \in DOMAIN metas /\ metas'[k].id = metas[k].id
                                    \/ metas'[k].id = nextId
<1>1. nextId \in Ids /\ DOMAIN metas \subseteq Keys
  BY DEF WInv, StateInv
<1>2. CASE Receive
  <2>1. PICK k \in Keys, dir \in Dirs, kind \in Kinds : ReceivePacket(k, dir, kind)
    BY <1>2 DEF Receive
  <2> DEFINE meta == MetaOf(k, dir)
  <2>2. /\ metas' = With(metas, k, meta)
        /\ nextId' = IF meta.id = nextId THEN nextId + 1 ELSE nextId
    BY <2>1 DEF ReceivePacket
  <2>3. (k \in DOMAIN metas /\ meta = metas[k]) \/ meta.id = nextId
    BY DEF MetaOf
  <2> HIDE DEF meta
  <2> QED  BY <1>1, <2>2, <2>3 DEF With, Ids
<1>3. CASE Evaluate
  BY <1>1, <1>3 DEF Evaluate, Ids
<1>4. CASE CloseLive
  BY <1>1, <1>4 DEF CloseLive, Minus, Ids
<1>5. CASE UNCHANGED <<metas, nextId>>
  BY <1>1, <1>5 DEF Ids
<1> QED
  BY <1>2, <1>3, <1>4, <1>5
  DEF Worker, EvaluateFails, UpdateLive, BroadcastFlow, Drained, BroadcastClosed,
      InsertRow, Idle

-----------------------------------------------------------------------------
(***************************************************************************)
(* What happens to the events on their way.                                *)
(***************************************************************************)
QueuesOK == sub \in Seq(Events) /\ pipe \in Seq(Events)

\* An event that is broadcast is the last of them (Bus::broadcast).
LEMMA OneMore ==
  ASSUME QueuesOK, NEW e \in Events, sub' = Append(sub, e), pipe' = pipe,
         NEW m, m = Len(pipe) + Len(sub) + 1
  PROVE  /\ m \in Nat /\ Queued(m)' /\ Ev(m)' = e
         /\ \A i \in Nat : Queued(i)' <=> Queued(i) \/ i = m
         /\ \A i \in Nat : Queued(i) => i < m /\ Ev(i)' = Ev(i)
<1>1. Len(pipe) \in Nat /\ Len(sub) \in Nat
  BY DEF QueuesOK
<1>2. /\ sub' \in Seq(Events) /\ Len(sub') = Len(sub) + 1 /\ sub'[Len(sub) + 1] = e
      /\ \A i \in 1 .. Len(sub) : sub'[i] = sub[i]
  BY DEF QueuesOK
<1>3. ASSUME NEW i \in Nat, Queued(i)
      PROVE  i < m /\ Ev(i)' = Ev(i)
  BY <1>1, <1>2, <1>3 DEF Queued, Ev
<1>4. Ev(m)' = e
  BY <1>1, <1>2 DEF Ev
<1>5. m \in Nat /\ \A i \in Nat : Queued(i)' <=> Queued(i) \/ i = m
  BY <1>1, <1>2 DEF Queued
<1> QED  BY <1>1, <1>2, <1>3, <1>4, <1>5 DEF Queued

\* The handler and the reader only move them on (subscribe, reader thread).
LEMMA AllForwarded ==
  ASSUME QueuesOK, sub # << >>, pipe' = Append(pipe, Head(sub)), sub' = Tail(sub)
  PROVE  \A i \in Nat : /\ Queued(i)' <=> Queued(i)
                        /\ Queued(i) => Ev(i)' = Ev(i)
<1> DEFINE h == Head(sub)
<1>1. /\ Len(pipe) \in Nat /\ Len(sub) \in Nat \ {0} /\ h \in Events /\ h = sub[1]
      /\ sub' \in Seq(Events) /\ Len(sub') = Len(sub) - 1
      /\ \A i \in 1 .. Len(sub) - 1 : sub'[i] = sub[i + 1]
  BY DEF QueuesOK
<1> HIDE DEF h
<1>2. /\ pipe' \in Seq(Events) /\ Len(pipe') = Len(pipe) + 1 /\ pipe'[Len(pipe) + 1] = h
      /\ \A i \in 1 .. Len(pipe) : pipe'[i] = pipe[i]
  BY <1>1 DEF QueuesOK, h
<1>3. ASSUME NEW i \in Nat, Queued(i)
      PROVE  Ev(i)' = Ev(i)
  <2>1. CASE i <= Len(pipe)
    BY <1>1, <1>2, <1>3, <2>1 DEF Queued, Ev
  <2>2. CASE i = Len(pipe) + 1
    BY <1>1, <1>2, <1>3, <2>2 DEF Queued, Ev
  <2>3. CASE i > Len(pipe) + 1
    <3> DEFINE j == i - Len(pipe) - 1
    <3>1. j \in 1 .. Len(sub) - 1 /\ i - Len(pipe') = j /\ i - Len(pipe) = j + 1
      BY <1>1, <1>2, <1>3, <2>3 DEF Queued
    <3>2. ~(i <= Len(pipe')) /\ ~(i <= Len(pipe))
      BY <1>1, <1>2, <2>3
    <3>3. Ev(i)' = sub'[j] /\ Ev(i) = sub[j + 1]
      BY <3>1, <3>2 DEF Ev
    <3> HIDE DEF j
    <3> QED  BY <1>1, <3>1, <3>3
  <2> QED  BY <1>1, <2>1, <2>2, <2>3
<1>4. \A i \in Nat : Queued(i)' <=> Queued(i)
  BY <1>1, <1>2 DEF Queued
<1> QED  BY <1>3, <1>4

\* The view takes the first of them (InspectorApp::apply).
LEMMA OneLess ==
  ASSUME QueuesOK, pipe # << >>, pipe' = Tail(pipe), sub' = sub
  PROVE  /\ Queued(1) /\ Ev(1) = Head(pipe) /\ Ev(1) \in Events
         /\ \A i \in Nat : Queued(i)' <=> i # 0 /\ Queued(i + 1)
         /\ \A i \in Nat : Queued(i)' => Ev(i)' = Ev(i + 1)
<1>1. /\ Len(pipe) \in Nat \ {0} /\ Len(sub) \in Nat /\ Head(pipe) = pipe[1]
      /\ pipe[1] \in Events
      /\ pipe' \in Seq(Events) /\ Len(pipe') = Len(pipe) - 1
      /\ \A i \in 1 .. Len(pipe) - 1 : pipe'[i] = pipe[i + 1]
  BY DEF QueuesOK
<1>2. ASSUME NEW i \in Nat, Queued(i)'
      PROVE  Ev(i)' = Ev(i + 1)
  <2>1. CASE i <= Len(pipe) - 1
    BY <1>1, <1>2, <2>1 DEF Queued, Ev
  <2>2. CASE i > Len(pipe) - 1
    <3>1. ~(i <= Len(pipe')) /\ ~(i + 1 <= Len(pipe)) /\ i - Len(pipe') = i + 1 - Len(pipe)
      BY <1>1, <2>2
    <3> QED  BY <3>1 DEF Ev
  <2> QED  BY <1>1, <2>1, <2>2
<1>3. \A i \in Nat : Queued(i)' <=> i # 0 /\ Queued(i + 1)
  BY <1>1 DEF Queued
<1> QED  BY <1>1, <1>2, <1>3 DEF Queued, Ev

-----------------------------------------------------------------------------
(***************************************************************************)
(* The view follows the table.                                             *)
(***************************************************************************)
\* A step that announces nothing, and adds no more than a heartbeat.
LEMMA FollowsSilence ==
  ASSUME FollowUp, Silently, phase' # "attach" => phase # "attach",
         missed' = missed, Base' = Base,
         \A i \in Nat : Queued(i)' => (Queued(i) /\ Ev(i)' = Ev(i)) \/ Ev(i)' = Heartbeat,
         \A i \in Nat : Queued(i) => Queued(i)' /\ Ev(i)' = Ev(i)
  PROVE  FollowUp'
<1> SUFFICES ASSUME phase' # "attach", NEW id \in Ids \ missed, ~Pending(id)'
             PROVE  /\ (\A i \in Nat : Queued(i)' => ~About(Ev(i)', id)) => TableAgrees(Base, id)'
                    /\ \A i \in Nat :
                         /\ Queued(i)' /\ About(Ev(i)', id)
                         /\ \A j \in Nat : Queued(j)' /\ j > i => ~About(Ev(j)', id)
                         => EventAgrees(Ev(i), id)'
  BY DEF FollowUp
<1>1. /\ ~Pending(id)
      /\ id \in DOMAIN ById' <=> id \in DOMAIN ById
      /\ id \in DOMAIN ById => ById'[id] = ById[id]
  BY DEF Silently
<1>2. ~About(Heartbeat, id)
  BY DEF About, Heartbeat
<1>3. ASSUME \A i \in Nat : Queued(i)' => ~About(Ev(i)', id)
      PROVE  TableAgrees(Base, id)'
  <2>1. \A i \in Nat : Queued(i) => ~About(Ev(i), id)
    BY <1>3
  <2>2. TableAgrees(Base, id)
    BY <1>1, <2>1 DEF FollowUp
  <2> QED  BY <1>1, <2>2 DEF TableAgrees
<1>4. ASSUME NEW i \in Nat, Queued(i)', About(Ev(i)', id),
             \A j \in Nat : Queued(j)' /\ j > i => ~About(Ev(j)', id)
      PROVE  EventAgrees(Ev(i), id)'
  <2>1. Queued(i) /\ Ev(i)' = Ev(i) /\ About(Ev(i), id)
    BY <1>2, <1>4
  <2>2. \A j \in Nat : Queued(j) /\ j > i => ~About(Ev(j), id)
    BY <1>4
  <2>3. EventAgrees(Ev(i), id)
    BY <1>1, <2>1, <2>2 DEF FollowUp
  <2> QED  BY <1>1, <2>1, <2>3 DEF EventAgrees
<1> QED  BY <1>3, <1>4

\* A step that announces a connection, and adds the announcement.
LEMMA FollowsAnnouncement ==
  ASSUME QueuesOK, FollowUp, NEW e \in Events, Announces(e),
         sub' = Append(sub, e), pipe' = pipe,
         phase' = phase, missed' = missed \ {IdOf(e)}, Base' = Base
  PROVE  FollowUp'
<1>0. PICK m : m = Len(pipe) + Len(sub) + 1
  OBVIOUS
<1>1. /\ m \in Nat /\ Queued(m)' /\ Ev(m)' = e
      /\ \A i \in Nat : Queued(i)' <=> Queued(i) \/ i = m
      /\ \A i \in Nat : Queued(i) => i < m /\ Ev(i)' = Ev(i)
  BY <1>0, OneMore
<1> SUFFICES ASSUME phase # "attach", NEW id \in Ids, id \notin missed \/ id = IdOf(e)
             PROVE  /\ (\A i \in Nat : Queued(i)' => ~About(Ev(i)', id)) => TableAgrees(Base, id)'
                    /\ \A i \in Nat :
                         /\ Queued(i)' /\ About(Ev(i)', id)
                         /\ \A j \in Nat : Queued(j)' /\ j > i => ~About(Ev(j)', id)
                         => EventAgrees(Ev(i), id)'
  BY DEF FollowUp
<1>3. ById' = ById
  BY SameSnapshot DEF Announces
<1>4. CASE id = IdOf(e)
  <2>1. About(e, id) /\ EventAgrees(e, id)
    BY <1>4 DEF Announces, About
  <2>2. ASSUME NEW i \in Nat, Queued(i)',
               \A j \in Nat : Queued(j)' /\ j > i => ~About(Ev(j)', id)
        PROVE  Ev(i)' = e
    BY <1>1, <2>1, <2>2
  <2>3. EventAgrees(e, id)'
    BY <1>3, <2>1 DEF EventAgrees
  <2> QED  BY <1>1, <2>1, <2>2, <2>3
<1>5. CASE id # IdOf(e)
  <2>1. ~About(e, id) /\ ~Pending(id) /\ id \in Ids \ missed
    BY <1>5 DEF Announces, About
  <2>2. ASSUME \A i \in Nat : Queued(i)' => ~About(Ev(i)', id)
        PROVE  TableAgrees(Base, id)'
    <3>1. \A i \in Nat : Queued(i) => ~About(Ev(i), id)
      BY <1>1, <2>2
    <3>2. TableAgrees(Base, id)
      BY <2>1, <3>1 DEF FollowUp
    <3> QED  BY <1>3, <3>2 DEF TableAgrees
  <2>3. ASSUME NEW i \in Nat, Queued(i)', About(Ev(i)', id),
               \A j \in Nat : Queued(j)' /\ j > i => ~About(Ev(j)', id)
        PROVE  EventAgrees(Ev(i), id)'
    <3>1. Queued(i) /\ Ev(i)' = Ev(i) /\ About(Ev(i), id)
      BY <1>1, <2>1, <2>3
    <3>2. \A j \in Nat : Queued(j) /\ j > i => ~About(Ev(j), id)
      BY <1>1, <2>3
    <3>3. EventAgrees(Ev(i), id)
      BY <2>1, <3>1, <3>2 DEF FollowUp
    <3> QED  BY <1>3, <3>1, <3>3 DEF EventAgrees
  <2> QED  BY <2>2, <2>3
<1> QED  BY <1>4, <1>5

\* A step that announces a connection, and loses the announcement.
LEMMA FollowsLoss ==
  ASSUME FollowUp, NEW e, Announces(e),
         phase' = phase, missed' = missed \cup {IdOf(e)}, Base' = Base,
         \A i \in Nat : (Queued(i)' <=> Queued(i)) /\ Ev(i)' = Ev(i)
  PROVE  FollowUp'
<1>1. ById' = ById
  BY SameSnapshot DEF Announces
<1>2. \A id \in Ids \ missed' : id \notin missed /\ ~Pending(id)
  BY DEF Announces
<1>3. \A id, i : /\ TableAgrees(Base, id)' <=> TableAgrees(Base, id)
                 /\ i \in Nat => (EventAgrees(Ev(i), id)' <=> EventAgrees(Ev(i), id))
  BY <1>1 DEF TableAgrees, EventAgrees
<1> QED  BY <1>2, <1>3 DEF FollowUp

\* What an event is about, as the loss of it is recorded.
LEMMA SubjectIs ==
  ASSUME NEW e \in Events
  PROVE  /\ \A id : id \in Subject(e) <=> About(e, id)
         /\ e.type \in {"flow", "closed"} => Subject(e) = {IdOf(e)} /\ IdOf(e) \in Ids
         /\ e.type = "heartbeat" => Subject(e) = {}
<1>1. /\ e.type \in {"flow", "closed", "heartbeat"}
      /\ e.type = "flow" => e.dto.id \in Ids
      /\ e.type = "closed" => e.id \in Ids
  BY DEF Events, Heartbeat, Dto
<1>2. CASE e.type = "flow"
  BY <1>1, <1>2 DEF Subject, IdOf, About
<1>3. CASE e.type = "closed"
  BY <1>1, <1>3 DEF Subject, IdOf, About
<1>4. CASE e.type = "heartbeat"
  BY <1>4 DEF Subject, IdOf, About
<1> QED  BY <1>1, <1>2, <1>3, <1>4

\* The view applies the oldest event: where it was the last of its connection,
\* the view shows that connection as the event does.
LEMMA FollowsDrain ==
  ASSUME ViewTypeOK, FollowUp, Drain
  PROVE  FollowUp'
<1> DEFINE e == Ev(1)
<1>1. /\ phase = "loop" /\ phase' = "loop" /\ missed' = missed /\ conns' = Applied(Head(pipe))
      /\ pipe # << >> /\ pipe' = Tail(pipe) /\ sub' = sub
      /\ live' = live /\ wpc' = wpc /\ metas' = metas /\ upd' = upd
  BY DEF Drain, workerVars
<1>2. /\ Queued(1) /\ e = Head(pipe) /\ e \in Events
      /\ \A i \in Nat : Queued(i)' <=> i # 0 /\ Queued(i + 1)
      /\ \A i \in Nat : Queued(i)' => Ev(i)' = Ev(i + 1)
  BY <1>1, OneLess DEF ViewTypeOK, QueuesOK
<1>3. ById' = ById /\ (\A id : Pending(id)' <=> Pending(id))
  BY <1>1, SameSnapshot DEF Pending
<1>4. Base = conns /\ Base' = conns'
  BY <1>1 DEF Base
<1> HIDE DEF e
<1> SUFFICES ASSUME NEW id \in Ids \ missed, ~Pending(id)
             PROVE  /\ (\A i \in Nat : Queued(i)' => ~About(Ev(i)', id)) => TableAgrees(conns, id)'
                    /\ \A i \in Nat :
                         /\ Queued(i)' /\ About(Ev(i)', id)
                         /\ \A j \in Nat : Queued(j)' /\ j > i => ~About(Ev(j)', id)
                         => EventAgrees(Ev(i), id)'
  BY <1>1, <1>3, <1>4 DEF FollowUp
<1>5. ASSUME NEW i \in Nat, Queued(i)', About(Ev(i)', id),
             \A j \in Nat : Queued(j)' /\ j > i => ~About(Ev(j)', id)
      PROVE  EventAgrees(Ev(i), id)'
  <2> DEFINE m == i + 1
  <2>1. m \in Nat /\ Queued(m) /\ Ev(i)' = Ev(m) /\ About(Ev(m), id)
    BY <1>2, <1>5
  <2>2. ASSUME NEW j \in Nat, Queued(j), j > m
        PROVE  ~About(Ev(j), id)
    <3> DEFINE l == j - 1
    <3>1. l \in Nat /\ l > i /\ l # 0 /\ j = l + 1
      BY <2>2
    <3> HIDE DEF l, m
    <3>2. Queued(l)' /\ Ev(l)' = Ev(j)
      BY <1>2, <2>2, <3>1
    <3> QED  BY <1>5, <3>1, <3>2
  <2> HIDE DEF m
  <2>3. EventAgrees(Ev(m), id)
    BY <1>1, <2>1, <2>2 DEF FollowUp
  <2> QED  BY <1>3, <2>1, <2>3 DEF EventAgrees
<1>6. ASSUME \A i \in Nat : Queued(i)' => ~About(Ev(i)', id)
      PROVE  TableAgrees(conns, id)'
  <2>1. ASSUME NEW j \in Nat, Queued(j), j > 1
        PROVE  ~About(Ev(j), id)
    <3> DEFINE l == j - 1
    <3>1. l \in Nat /\ l # 0 /\ j = l + 1
      BY <2>1
    <3> HIDE DEF l
    <3>2. Queued(l)' /\ Ev(l)' = Ev(j)
      BY <1>2, <2>1, <3>1
    <3> QED  BY <1>6, <3>1, <3>2
  <2>2. conns' = Applied(e)
    BY <1>1, <1>2
  <2>3. e.type \in {"flow", "closed", "heartbeat"} /\ (e.type = "heartbeat" => e = Heartbeat)
    BY <1>2 DEF Events, Heartbeat
  <2>4. CASE About(e, id)
    <3>1. EventAgrees(e, id)
      BY <1>1, <1>2, <2>1, <2>4 DEF FollowUp, e
    <3>2. CASE e.type = "flow"
      <4>1. e.dto.id = id /\ conns' = With(conns, id, e.dto)
        BY <2>2, <2>4, <3>2 DEF About, IdOf, Applied
      <4> QED  BY <1>3, <3>1, <3>2, <4>1 DEF EventAgrees, TableAgrees, With
    <3>3. CASE e.type = "closed"
      <4>1. conns' = Minus(conns, id)
        BY <2>2, <2>4, <3>3 DEF About, IdOf, Applied
      <4> QED  BY <1>3, <3>1, <3>3, <4>1 DEF EventAgrees, TableAgrees, Minus
    <3> QED  BY <2>3, <2>4, <3>2, <3>3 DEF About
  <2>5. CASE ~About(e, id)
    <3>1. \A i \in Nat : Queued(i) => ~About(Ev(i), id)
      BY <2>1, <2>5 DEF e, Queued
    <3>2. TableAgrees(conns, id)
      BY <1>1, <1>4, <3>1 DEF FollowUp
    <3>3. /\ id \in DOMAIN conns' <=> id \in DOMAIN conns
          /\ id \in DOMAIN conns => conns'[id] = conns[id]
      BY <2>2, <2>3, <2>5 DEF About, IdOf, Applied, With, Minus
    <3> QED  BY <1>3, <3>2, <3>3 DEF TableAgrees
  <2> QED  BY <2>4, <2>5
<1> QED  BY <1>5, <1>6

-----------------------------------------------------------------------------
(***************************************************************************)
(* What is closed stays closed.                                            *)
(***************************************************************************)
\* No id that was given out comes back to the worker's tables.
IdsMoveOn ==
  /\ nextId' >= nextId
  /\ \A k \in DOMAIN metas' : \/ k \in DOMAIN metas /\ metas'[k].id = metas[k].id
                             \/ metas'[k].id = nextId

\* A step after which there are no other events on their way, but a heartbeat.
LEMMA GoneInSilence ==
  ASSUME GoneForGood, nextId \in Nat, nextId' \in Nat, IdsMoveOn, over' = over,
         DOMAIN conns' \cap over = {}, phase' = "refresh" => DOMAIN reply' \cap over = {},
         \A i \in Nat : Queued(i)' => (Queued(i) /\ Ev(i)' = Ev(i)) \/ Ev(i)' = Heartbeat
  PROVE  GoneForGood'
<1>0. Heartbeat.type = "heartbeat"
  BY DEF Heartbeat
<1>1. \A id \in Ids : Ended(id)' => Ended(id)
  BY <1>0 DEF Ended
<1>2. ASSUME NEW id \in Ids, Ended(id)'
      PROVE  id < nextId' /\ \A k \in DOMAIN metas' : metas'[k].id # id
  <2>1. id < nextId /\ \A k \in DOMAIN metas : metas[k].id # id
    BY <1>1, <1>2 DEF GoneForGood
  <2> QED  BY <2>1 DEF IdsMoveOn, Ids
<1>3. ASSUME NEW i \in Nat, NEW j \in Nat, Queued(i)', Queued(j)', i < j,
             Ev(i)'.type = "closed", Ev(j)'.type = "flow"
      PROVE  Ev(j)'.dto.id # Ev(i)'.id
  <2>1. Queued(i) /\ Ev(i)' = Ev(i) /\ Queued(j) /\ Ev(j)' = Ev(j)
    BY <1>0, <1>3
  <2> QED  BY <1>3, <2>1 DEF GoneForGood
<1>4. ASSUME NEW i \in Nat, Queued(i)', Ev(i)'.type = "flow"
      PROVE  Ev(i)'.dto.id \notin over'
  <2>1. Queued(i) /\ Ev(i)' = Ev(i)
    BY <1>0, <1>4
  <2> QED  BY <1>4, <2>1 DEF GoneForGood
<1> QED  BY <1>2, <1>3, <1>4 DEF GoneForGood

\* A step that announces a connection.
LEMMA GoneAnnounced ==
  ASSUME QueuesOK, over \subseteq Ids, GoneForGood, NEW e \in Events, Announces(e),
         nextId' = nextId, UNCHANGED <<over, phase, conns, reply>>,
         sub' = Append(sub, e), pipe' = pipe
  PROVE  GoneForGood'
<1>0. PICK m : m = Len(pipe) + Len(sub) + 1
  OBVIOUS
<1>1. /\ m \in Nat /\ Queued(m)' /\ Ev(m)' = e
      /\ \A i \in Nat : Queued(i)' <=> Queued(i) \/ i = m
      /\ \A i \in Nat : Queued(i) => i < m /\ Ev(i)' = Ev(i)
  BY <1>0, OneMore
<1>2. metas' = metas
  BY DEF Announces
<1>3. ASSUME NEW id \in Ids, Ended(id)'
      PROVE  id < nextId' /\ \A k \in DOMAIN metas' : metas'[k].id # id
  <2>1. CASE Ended(id)
    BY <1>2, <2>1 DEF GoneForGood
  <2>2. CASE ~Ended(id)
    <3>1. e.type = "closed" /\ e.id = id
      BY <1>1, <1>3, <2>2 DEF Ended
    <3> QED  BY <1>2, <3>1 DEF Announces
  <2> QED  BY <2>1, <2>2
<1>4. e.type = "flow" => e.dto.id \in Ids
  BY DEF Events, Dto, Heartbeat
<1>5. e.type = "flow" => \A id \in Ids : Ended(id) => e.dto.id # id
  BY DEF Announces, GoneForGood
<1>6. \A i \in Nat : Queued(i) => Ev(i) \in Events
  BY DEF QueuesOK, Queued, Ev
<1>7. ASSUME NEW i \in Nat, NEW j \in Nat, Queued(i)', Queued(j)', i < j,
             Ev(i)'.type = "closed", Ev(j)'.type = "flow"
      PROVE  Ev(j)'.dto.id # Ev(i)'.id
  <2>1. Queued(i) /\ Ev(i)' = Ev(i)
    BY <1>1, <1>7
  <2>2. CASE Queued(j)
    BY <1>1, <1>7, <2>1, <2>2 DEF GoneForGood
  <2>3. CASE j = m
    <3>1. Ev(i).id \in Ids
      BY <1>6, <1>7, <2>1 DEF Events, Heartbeat
    <3>2. Ended(Ev(i).id)
      BY <1>7, <2>1 DEF Ended
    <3> QED  BY <1>1, <1>5, <1>7, <2>1, <2>3, <3>1, <3>2
  <2> QED  BY <1>1, <1>7, <2>2, <2>3
<1>8. ASSUME NEW i \in Nat, Queued(i)', Ev(i)'.type = "flow"
      PROVE  Ev(i)'.dto.id \notin over'
  <2>1. CASE Queued(i)
    BY <1>1, <1>8, <2>1 DEF GoneForGood
  <2>2. CASE i = m
    BY <1>1, <1>4, <1>5, <1>8, <2>2 DEF Ended
  <2> QED  BY <1>1, <1>8, <2>1, <2>2
<1> QED  BY <1>3, <1>7, <1>8 DEF GoneForGood

\* The view applies the oldest event.
LEMMA GoneDrained ==
  ASSUME ViewTypeOK, GoneForGood, Drain
  PROVE  GoneForGood'
<1> DEFINE e == Ev(1)
<1>1. /\ phase' = "loop" /\ conns' = Applied(Head(pipe))
      /\ over' = IF Head(pipe).type = "closed" THEN over \cup {Head(pipe).id} ELSE over
      /\ pipe # << >> /\ pipe' = Tail(pipe) /\ sub' = sub
      /\ nextId' = nextId /\ metas' = metas
  BY DEF Drain, workerVars
<1>2. /\ Queued(1) /\ e = Head(pipe) /\ e \in Events
      /\ \A i \in Nat : Queued(i)' <=> i # 0 /\ Queued(i + 1)
      /\ \A i \in Nat : Queued(i)' => Ev(i)' = Ev(i + 1)
  BY <1>1, OneLess DEF ViewTypeOK, QueuesOK
<1>3. /\ conns' = Applied(e)
      /\ over' = IF e.type = "closed" THEN over \cup {e.id} ELSE over
  BY <1>1, <1>2
<1>4. /\ e.type \in {"flow", "closed", "heartbeat"}
      /\ e.type = "closed" => e.id \in Ids
  BY <1>2 DEF Events, Heartbeat
\* What the other events say is said of events that were there before.
<1>5. ASSUME NEW i \in Nat, Queued(i)'
      PROVE  i + 1 \in Nat /\ Queued(i + 1) /\ Ev(i)' = Ev(i + 1) /\ 1 < i + 1
  BY <1>2, <1>5
<1>6. ASSUME NEW id \in Ids, Ended(id)'
      PROVE  Ended(id)
  <2>1. CASE id \in over'
    BY <1>2, <1>3, <2>1 DEF Ended, e
  <2>2. CASE \E i \in Nat : Queued(i)' /\ Ev(i)'.type = "closed" /\ Ev(i)'.id = id
    <3>1. PICK i \in Nat : Queued(i)' /\ Ev(i)'.type = "closed" /\ Ev(i)'.id = id
      BY <2>2
    <3> DEFINE j == i + 1
    <3>2. j \in Nat /\ Queued(j) /\ Ev(i)' = Ev(j)
      BY <1>5, <3>1
    <3> HIDE DEF j
    <3> QED  BY <3>1, <3>2 DEF Ended
  <2> QED  BY <1>6, <2>1, <2>2 DEF Ended
<1>7. \A id \in Ids : Ended(id)' => id < nextId' /\ \A k \in DOMAIN metas' : metas'[k].id # id
  BY <1>1, <1>6 DEF GoneForGood
<1>8. ASSUME NEW i \in Nat, NEW j \in Nat, Queued(i)', Queued(j)', i < j,
             Ev(i)'.type = "closed", Ev(j)'.type = "flow"
      PROVE  Ev(j)'.dto.id # Ev(i)'.id
  <2> DEFINE p == i + 1
             q == j + 1
  <2>1. /\ p \in Nat /\ q \in Nat /\ p < q
        /\ Queued(p) /\ Ev(i)' = Ev(p) /\ Queued(q) /\ Ev(j)' = Ev(q)
    BY <1>5, <1>8
  <2> HIDE DEF p, q
  <2> QED  BY <1>8, <2>1 DEF GoneForGood
<1>9. ASSUME NEW i \in Nat, Queued(i)', Ev(i)'.type = "flow"
      PROVE  Ev(i)'.dto.id \notin over'
  <2> DEFINE p == i + 1
  <2>1. p \in Nat /\ Queued(p) /\ Ev(i)' = Ev(p) /\ 1 < p
    BY <1>5, <1>9
  <2> HIDE DEF p
  <2>2. Ev(p).dto.id \notin over
    BY <1>9, <2>1 DEF GoneForGood
  <2>3. e.type = "closed" => Ev(p).dto.id # e.id
    BY <1>2, <1>9, <2>1 DEF GoneForGood
  <2> QED  BY <1>3, <2>1, <2>2, <2>3
<1>10. DOMAIN conns' \cap over' = {}
  <2>1. e.type = "flow" => e.dto.id \notin over
    BY <1>2 DEF GoneForGood
  <2>2. DOMAIN conns \cap over = {}
    BY DEF GoneForGood
  <2> HIDE DEF e
  <2> QED  BY <1>3, <1>4, <2>1, <2>2 DEF Applied, With, Minus
<1> QED  BY <1>1, <1>7, <1>8, <1>9, <1>10 DEF GoneForGood

-----------------------------------------------------------------------------
(***************************************************************************)
(* The invariant, step by step.                                            *)
(***************************************************************************)
\* The invariant holds before the inspector attaches.
LEMMA ViewStarts == Init => WInv /\ VInv
<1> SUFFICES ASSUME Init PROVE WInv /\ VInv
  OBVIOUS
<1>1. WInv
  BY WorkerStarts DEF Init
<1>2. /\ phase = "attach" /\ conns = << >> /\ sub = << >> /\ pipe = << >>
      /\ refreshes = 0 /\ missed = {} /\ over = {}
  BY DEF Init
<1>3. sub \in Seq(Events) /\ pipe \in Seq(Events) /\ Len(sub) = 0 /\ Len(pipe) = 0
  BY <1>2, EmptySeq
<1>4. ViewTypeOK
  <2>1. IsTable(conns)
    BY <1>2 DEF IsTable
  <2>2. Len(sub) <= QueueCap /\ Len(pipe) <= PipeCap /\ refreshes \in 0 .. MaxRefreshes
    BY <1>2, <1>3, StreamAssumption
  <2> QED  BY <1>2, <1>3, <2>1, <2>2 DEF ViewTypeOK
<1>5. \A i \in Nat : ~Queued(i)
  BY <1>3 DEF Queued
<1>6. FollowUp /\ GoneForGood /\ NoEarlyEvents
  BY <1>2, <1>5 DEF FollowUp, GoneForGood, NoEarlyEvents, Ended
<1>7. IsFun(conns)
  BY <1>2 DEF IsFun
<1> QED  BY <1>1, <1>2, <1>4, <1>6, <1>7 DEF VInv

\* A step of the worker, with the broadcast it makes.
LEMMA ProduceKeeps ==
  ASSUME WInv, VInv, Produce
  PROVE  VInv'
<1>1. /\ Worker
      /\ UNCHANGED <<phase, conns, reply, pipe, refreshes, over>>
      /\ event' = None => UNCHANGED <<sub, missed>>
      /\ event' # None =>
           /\ sub' = IF Subscribed THEN Sent(sub, event') ELSE sub
           /\ missed' = IF Subscribed /\ Len(sub) < QueueCap
                        THEN missed \ Subject(event') ELSE missed \cup Subject(event')
  BY DEF Produce
<1>2. /\ QueuesOK /\ Len(sub) <= QueueCap /\ missed \subseteq Ids /\ over \subseteq Ids
      /\ nextId \in Nat /\ nextId' \in Nat /\ IdsMoveOn
      /\ FollowUp /\ GoneForGood /\ Heartbeat \in Events /\ Heartbeat.type = "heartbeat"
      /\ DOMAIN conns \cap over = {} /\ (phase = "refresh" => DOMAIN reply \cap over = {})
  BY <1>1, NewIds DEF VInv, ViewTypeOK, QueuesOK, Ids, IdsMoveOn, Events, Heartbeat, GoneForGood
<1>3. Base' = Base /\ (Subscribed' <=> Subscribed)
  BY <1>1 DEF Base, Subscribed
\* One more event is in the queue, or none.
<1>4. ASSUME NEW e \in Events, sub' = Append(sub, e) \/ sub' = sub, Len(sub') <= QueueCap,
             FollowUp', GoneForGood', missed' \subseteq Ids, sub' = sub \/ Subscribed
      PROVE  VInv'
  <2>1. sub' \in Seq(Events)
    BY <1>2, <1>4 DEF QueuesOK
  <2> QED  BY <1>1, <1>2, <1>3, <1>4, <2>1 DEF VInv, ViewTypeOK, NoEarlyEvents
<1>5. CASE Announces(event')
  <2>1. PICK e : e = event'
    OBVIOUS
  <2>2. e \in Events /\ Announces(e) /\ e.type # "heartbeat" /\ event' # None
    BY <1>5, <2>1, NoEventAssumption DEF Announces
  <2>3. /\ sub' = IF Subscribed THEN Sent(sub, e) ELSE sub
        /\ missed' = IF Subscribed /\ Len(sub) < QueueCap
                     THEN missed \ {IdOf(e)} ELSE missed \cup {IdOf(e)}
        /\ IdOf(e) \in Ids
    <3>1. Subject(e) = {IdOf(e)} /\ IdOf(e) \in Ids
      BY <2>2, SubjectIs DEF Announces
    <3> QED  BY <1>1, <2>1, <2>2, <3>1
  <2>4. nextId' = nextId
    BY <2>2 DEF Announces
  <2>5. CASE Subscribed /\ Len(sub) < QueueCap
    <3>1. sub' = Append(sub, e)
      BY <2>3, <2>5 DEF Sent
    <3>2. Len(sub) \in Nat /\ Len(sub') = Len(sub) + 1 /\ QueueCap \in Nat
      BY <1>2, <2>2, <3>1, StreamAssumption DEF QueuesOK
    <3>3. Len(sub') <= QueueCap /\ missed' = missed \ {IdOf(e)} /\ missed' \subseteq Ids
      BY <1>2, <2>3, <2>5, <3>2
    <3>4. FollowUp'
      BY <1>1, <1>2, <1>3, <2>2, <3>1, <3>3, FollowsAnnouncement
    <3>5. GoneForGood'
      BY <1>1, <1>2, <2>2, <2>4, <3>1, GoneAnnounced
    <3> QED  BY <1>4, <2>2, <2>5, <3>1, <3>3, <3>4, <3>5
  <2>6. CASE ~(Subscribed /\ Len(sub) < QueueCap)
    <3>1. sub' = sub /\ missed' = missed \cup {IdOf(e)} /\ missed' \subseteq Ids
      <4>1. Len(sub) \in Nat /\ QueueCap \in Nat
        BY <1>2, StreamAssumption DEF QueuesOK
      <4>2. sub' = sub
        BY <2>3, <2>6, <4>1 DEF Sent
      <4> QED  BY <1>2, <2>3, <2>6, <4>2
    <3>2. \A i \in Nat : (Queued(i)' <=> Queued(i)) /\ Ev(i)' = Ev(i)
      BY <1>1, <3>1 DEF Queued, Ev
    <3>3. GoneForGood'
      BY <1>1, <1>2, <3>2, GoneInSilence
    <3>4. FollowUp'
      BY <1>1, <1>2, <1>3, <2>2, <3>1, <3>2, FollowsLoss
    <3> QED  BY <1>2, <1>4, <2>2, <3>1, <3>3, <3>4
  <2> QED  BY <2>5, <2>6
<1>6. CASE Silently /\ event' \in {None, Heartbeat}
  <2>1. missed' = missed
    <3>1. CASE event' = None
      BY <1>1, <3>1
    <3>2. CASE event' # None
      <4>1. event' = Heartbeat /\ Subject(Heartbeat) = {}
        BY <1>2, <1>6, <3>2, SubjectIs
      <4> QED  BY <1>1, <3>2, <4>1
    <3> QED  BY <3>1, <3>2
  <2>2. sub' = sub \/ (Subscribed /\ sub' = Append(sub, Heartbeat) /\ Len(sub) < QueueCap)
    BY <1>1, <1>6 DEF Sent
  <2>3. Len(sub') <= QueueCap
    <3>1. Len(sub) \in Nat /\ QueueCap \in Nat
      BY <1>2, StreamAssumption DEF QueuesOK
    <3>2. CASE sub' = Append(sub, Heartbeat) /\ Len(sub) < QueueCap
      <4> DEFINE h == Heartbeat
      <4>1. h \in Events
        BY <1>2
      <4> HIDE DEF h
      <4>2. Len(Append(sub, h)) = Len(sub) + 1
        BY <1>2, <4>1 DEF QueuesOK
      <4> QED  BY <3>1, <3>2, <4>2 DEF h
    <3> QED  BY <1>2, <2>2, <3>2
  <2>4. /\ \A i \in Nat : Queued(i)' => (Queued(i) /\ Ev(i)' = Ev(i)) \/ Ev(i)' = Heartbeat
        /\ \A i \in Nat : Queued(i) => Queued(i)' /\ Ev(i)' = Ev(i)
    <3>1. CASE sub' = sub
      BY <1>1, <3>1 DEF Queued, Ev
    <3>2. CASE sub' = Append(sub, Heartbeat)
      <4>1. PICK m : m = Len(pipe) + Len(sub) + 1
        OBVIOUS
      <4>2. /\ m \in Nat /\ Queued(m)' /\ Ev(m)' = Heartbeat
            /\ \A i \in Nat : Queued(i)' <=> Queued(i) \/ i = m
            /\ \A i \in Nat : Queued(i) => i < m /\ Ev(i)' = Ev(i)
        BY <1>1, <1>2, <3>2, <4>1, OneMore
      <4> QED  BY <4>2
    <3> QED  BY <2>2, <3>1, <3>2
  <2>5. FollowUp'
    BY <1>1, <1>2, <1>3, <1>6, <2>1, <2>4, FollowsSilence
  <2>6. GoneForGood'
    BY <1>1, <1>2, <2>4, GoneInSilence
  <2> QED  BY <1>2, <1>4, <2>1, <2>2, <2>3, <2>5, <2>6
<1> QED
  BY <1>1, <1>5, <1>6, FlowAnnounced, ClosedAnnounced, NothingAnnounced

\* The steps of the inspector leave the worker alone.
LEMMA WorkerStands ==
  ASSUME WInv, GoneForGood, UNCHANGED workerVars
  PROVE  /\ Silently /\ IdsMoveOn /\ ById' = ById /\ (\A id : Pending(id)' <=> Pending(id))
         /\ nextId \in Nat /\ nextId' \in Nat
         /\ DOMAIN ById \cap over = {}
<1>1. /\ live' = live /\ metas' = metas /\ nextId' = nextId /\ wpc' = wpc /\ upd' = upd
      /\ nextId \in Nat
  BY DEF workerVars, WInv, StateInv, Ids
<1>2. ById' = ById
  BY <1>1, SameSnapshot
<1>3. \A id : Pending(id)' <=> Pending(id)
  BY <1>1 DEF Pending
<1>4. DOMAIN ById \cap over = {}
  <2>1. \A id \in DOMAIN ById : id \in Ids /\ \E k \in DOMAIN metas : metas[k].id = id
    BY SnapshotTable DEF IsSnapshot, IsTable
  <2> QED  BY <2>1 DEF GoneForGood, Ended
<1> QED  BY <1>1, <1>2, <1>3, <1>4 DEF Silently, IdsMoveOn

\* An event that is queued is in one of the queues.
LEMMA QueuedOnItsWay ==
  ASSUME QueuesOK, NEW id, NEW i \in Nat, Queued(i), About(Ev(i), id)
  PROVE  OnItsWay(id)
<1>1. /\ Len(pipe) \in Nat /\ Len(sub) \in Nat /\ i \in 1 .. Len(pipe) + Len(sub)
      /\ DOMAIN pipe = 1 .. Len(pipe) /\ DOMAIN sub = 1 .. Len(sub)
  BY DEF QueuesOK, Queued
<1>2. CASE i <= Len(pipe)
  <2>1. i \in DOMAIN pipe /\ Ev(i) = pipe[i] /\ pipe[i] \in Events
    BY <1>1, <1>2 DEF QueuesOK, Ev
  <2> QED  BY <2>1, SubjectIs DEF OnItsWay
<1>3. CASE ~(i <= Len(pipe))
  <2> DEFINE j == i - Len(pipe)
  <2>1. j \in DOMAIN sub /\ Ev(i) = sub[j] /\ sub[j] \in Events
    BY <1>1, <1>3 DEF QueuesOK, Ev
  <2> HIDE DEF j
  <2> QED  BY <2>1, SubjectIs DEF OnItsWay
<1> QED  BY <1>2, <1>3

\* The attachment, and an answer to the refresh key, show the table as it is.
LEMMA SnapshotTaken ==
  ASSUME WInv, VInv, Attach \/ Query
  PROVE  VInv'
<1>1. /\ UNCHANGED <<workerVars, sub, pipe, over>> /\ Base' = ById
      /\ phase' \in {"subscribe", "refresh"} /\ (phase' = "subscribe" => phase = "attach")
      /\ phase' = "refresh" => phase = "loop"
      /\ phase' = "refresh" => missed' = {id \in missed : OnItsWay(id)}
      /\ phase' = "subscribe" => missed' = {}
  BY DEF Attach, Query, Base
<1>2. /\ Silently /\ IdsMoveOn /\ ById' = ById /\ (\A id : Pending(id)' <=> Pending(id))
      /\ nextId \in Nat /\ nextId' \in Nat /\ DOMAIN ById \cap over = {}
      /\ IsTable(ById) /\ IsFun(ById)
  BY <1>1, WorkerStands, SnapshotTable DEF VInv, IsSnapshot
<1>3. \A i \in Nat : /\ Queued(i)' <=> Queued(i)
                     /\ Ev(i)' = Ev(i)
  BY <1>1 DEF Queued, Ev
<1>4. /\ conns' = IF phase' = "subscribe" THEN ById ELSE conns
      /\ phase' = "refresh" => reply' = ById
  BY DEF Attach, Query
<1>5. missed' \subseteq Ids /\ refreshes' \in 0 .. MaxRefreshes
  <2>1. CASE Attach
    BY <2>1 DEF Attach, VInv, ViewTypeOK
  <2>2. CASE Query
    <3>1. refreshes' \in 0 .. MaxRefreshes
      BY <2>2, StreamAssumption DEF Query, VInv, ViewTypeOK
    <3>2. missed' \subseteq Ids
      BY <2>2 DEF Query, VInv, ViewTypeOK
    <3> QED  BY <3>1, <3>2
  <2> QED  BY <2>1, <2>2
<1>6. ViewTypeOK'
  BY <1>1, <1>2, <1>4, <1>5 DEF VInv, ViewTypeOK
<1>7. GoneForGood'
  <2>1. DOMAIN conns' \cap over = {} /\ (phase' = "refresh" => DOMAIN reply' \cap over = {})
    BY <1>2, <1>4 DEF VInv, GoneForGood
  <2> QED  BY <1>1, <1>2, <1>3, <2>1, GoneInSilence DEF VInv
<1>8. FollowUp'
  <2>1. SUFFICES ASSUME NEW id \in Ids \ missed', ~Pending(id)
                 PROVE  /\ TableAgrees(Base, id)'
                        /\ \A i \in Nat :
                             /\ Queued(i) /\ About(Ev(i), id)
                             /\ \A j \in Nat : Queued(j) /\ j > i => ~About(Ev(j), id)
                             => EventAgrees(Ev(i), id)'
    BY <1>1, <1>2, <1>3 DEF FollowUp
  <2>2. TableAgrees(Base, id)'
    BY <1>1, <1>2 DEF TableAgrees
  <2>3. CASE \A i \in Nat : Queued(i) => ~About(Ev(i), id)
    BY <2>2, <2>3
  <2>4. CASE ~ \A i \in Nat : Queued(i) => ~About(Ev(i), id)
    <3>1. sub # << >> \/ pipe # << >>
      BY <2>4 DEF Queued
    <3>2. phase' = "refresh" /\ phase = "loop"
      BY <1>1, <3>1 DEF VInv, NoEarlyEvents, Subscribed
    <3>3. OnItsWay(id)
      <4>1. QueuesOK
        BY DEF VInv, ViewTypeOK, QueuesOK
      <4> QED  BY <2>4, <4>1, QueuedOnItsWay
    <3>4. id \notin missed
      BY <1>1, <2>1, <3>2, <3>3
    <3>5. \A i \in Nat : EventAgrees(Ev(i), id)' <=> EventAgrees(Ev(i), id)
      BY <1>2, <1>3 DEF EventAgrees
    <3> QED  BY <2>1, <2>2, <3>2, <3>4, <3>5 DEF VInv, FollowUp
  <2> QED  BY <2>3, <2>4
<1>9. NoEarlyEvents' /\ IsFun(conns)' /\ (phase' = "refresh" => IsFun(reply)')
  BY <1>1, <1>2, <1>4 DEF VInv, NoEarlyEvents, Subscribed
<1> QED  BY <1>6, <1>7, <1>8, <1>9 DEF VInv

\* The subscription, and the installation of an answer.
LEMMA ViewPrepared ==
  ASSUME WInv, VInv, Subscribe \/ Install
  PROVE  VInv'
<1>1. /\ UNCHANGED <<workerVars, pipe, over, refreshes, missed>>
      /\ phase \in {"subscribe", "refresh"} /\ phase' = "loop"
      /\ conns' = IF phase = "refresh" THEN reply ELSE conns
      /\ sub' = IF phase = "refresh" THEN sub ELSE << >>
  BY DEF Subscribe, Install, Installed
<1>2. sub' = sub
  BY <1>1 DEF VInv, NoEarlyEvents, Subscribed
<1>3. Base' = Base
  BY <1>1 DEF Base
<1>4. Silently /\ IdsMoveOn /\ nextId \in Nat /\ nextId' \in Nat
  BY <1>1, WorkerStands DEF VInv
<1>5. \A i \in Nat : /\ Queued(i)' <=> Queued(i)
                     /\ Ev(i)' = Ev(i)
  BY <1>1, <1>2 DEF Queued, Ev
<1>6. ViewTypeOK'
  BY <1>1, <1>2 DEF VInv, ViewTypeOK
<1>7. FollowUp'
  BY <1>1, <1>3, <1>4, <1>5, FollowsSilence DEF VInv
<1>8. GoneForGood'
  <2>1. DOMAIN conns' \cap over = {}
    BY <1>1 DEF VInv, GoneForGood
  <2> QED  BY <1>1, <1>4, <1>5, <2>1, GoneInSilence DEF VInv
<1>9. NoEarlyEvents' /\ IsFun(conns)' /\ (phase' = "refresh" => IsFun(reply)')
  BY <1>1 DEF VInv, NoEarlyEvents, Subscribed
<1> QED  BY <1>6, <1>7, <1>8, <1>9 DEF VInv

\* An event moves on.
LEMMA ForwardKeeps ==
  ASSUME WInv, VInv, Forward
  PROVE  VInv'
<1>1. /\ UNCHANGED <<workerVars, phase, conns, reply, refreshes, missed, over>>
      /\ Subscribed /\ sub # << >> /\ Len(pipe) < PipeCap
      /\ pipe' = Append(pipe, Head(sub)) /\ sub' = Tail(sub)
  BY DEF Forward
<1>2. QueuesOK
  BY DEF VInv, ViewTypeOK, QueuesOK
<1>3. Base' = Base /\ (Subscribed' <=> Subscribed)
  BY <1>1 DEF Base, Subscribed
<1>4. Silently /\ IdsMoveOn /\ nextId \in Nat /\ nextId' \in Nat
  BY <1>1, WorkerStands DEF VInv
<1>5. \A i \in Nat : /\ Queued(i)' <=> Queued(i)
                     /\ Queued(i) => Ev(i)' = Ev(i)
  BY <1>1, <1>2, AllForwarded
<1>6. /\ sub' \in Seq(Events) /\ Len(sub') <= QueueCap
      /\ pipe' \in Seq(Events) /\ Len(pipe') <= PipeCap
  <2> DEFINE h == Head(sub)
  <2>1. h \in Events /\ sub' \in Seq(Events) /\ Len(sub') = Len(sub) - 1
    BY <1>1, <1>2 DEF QueuesOK
  <2>2. pipe' = Append(pipe, h)
    BY <1>1
  <2> HIDE DEF h
  <2>3. pipe' \in Seq(Events) /\ Len(pipe') = Len(pipe) + 1
    BY <1>2, <2>1, <2>2 DEF QueuesOK
  <2>4. Len(sub) \in Nat /\ Len(pipe) \in Nat /\ Len(sub) <= QueueCap
    BY <1>2 DEF QueuesOK, VInv, ViewTypeOK
  <2> QED  BY <1>1, <2>1, <2>3, <2>4, StreamAssumption
<1>7. ViewTypeOK'
  BY <1>1, <1>6 DEF VInv, ViewTypeOK
<1>8. FollowUp'
  BY <1>1, <1>3, <1>4, <1>5, FollowsSilence DEF VInv
<1>9. GoneForGood'
  <2>1. DOMAIN conns' \cap over = {} /\ (phase' = "refresh" => DOMAIN reply' \cap over = {})
    BY <1>1 DEF VInv, GoneForGood
  <2> QED  BY <1>1, <1>4, <1>5, <2>1, GoneInSilence DEF VInv
<1>10. NoEarlyEvents' /\ IsFun(conns)' /\ (phase' = "refresh" => IsFun(reply)')
  BY <1>1, <1>3 DEF VInv, NoEarlyEvents
<1> QED  BY <1>7, <1>8, <1>9, <1>10 DEF VInv

\* An event is applied.
LEMMA DrainKeeps ==
  ASSUME WInv, VInv, Drain
  PROVE  VInv'
<1> DEFINE e == Head(pipe)
<1>1. /\ phase = "loop" /\ phase' = "loop" /\ pipe # << >> /\ pipe' = Tail(pipe)
      /\ conns' = Applied(e)
      /\ over' = IF e.type = "closed" THEN over \cup {e.id} ELSE over
      /\ UNCHANGED <<sub, refreshes, missed>>
  BY DEF Drain
<1>2. ViewTypeOK /\ FollowUp /\ GoneForGood /\ IsFun(conns)
  BY DEF VInv
<1>3. /\ e \in Events /\ pipe' \in Seq(Events) /\ Len(pipe') <= PipeCap
  <2>1. pipe \in Seq(Events) /\ Len(pipe) <= PipeCap
    BY <1>2 DEF ViewTypeOK
  <2> QED  BY <1>1, <2>1, StreamAssumption
<1> HIDE DEF e
<1>4. /\ e.type \in {"flow", "closed", "heartbeat"}
      /\ e.type = "flow" => e.dto \in Dto /\ e.dto.id \in Ids
      /\ e.type = "closed" => e.id \in Ids
  BY <1>3 DEF Events, Heartbeat, Dto
<1>5. IsTable(conns') /\ over' \subseteq Ids
  BY <1>1, <1>2, <1>4 DEF ViewTypeOK, IsTable, Applied, With, Minus
<1>6. IsFun(conns')
  <2>1. CASE e.type = "flow"
    BY <1>1, <2>1 DEF Applied, With, IsFun
  <2>2. CASE e.type = "closed"
    BY <1>1, <2>2 DEF Applied, Minus, IsFun
  <2>3. CASE e.type = "heartbeat"
    BY <1>1, <1>2, <2>3 DEF Applied
  <2> QED  BY <1>4, <2>1, <2>2, <2>3
<1>7. ViewTypeOK'
  BY <1>1, <1>2, <1>3, <1>5 DEF ViewTypeOK
<1>8. FollowUp' /\ GoneForGood'
  BY <1>2, FollowsDrain, GoneDrained
<1>9. NoEarlyEvents'
  BY <1>1 DEF NoEarlyEvents, Subscribed
<1> QED  BY <1>1, <1>6, <1>7, <1>8, <1>9 DEF VInv

-----------------------------------------------------------------------------
\* What the view, the events on their way to it and the worker know of each
\* other, at every step of each.
THEOREM ViewInvariant == Spec => [](WInv /\ VInv)
<1>1. ASSUME WInv, VInv, [Next]_vars
      PROVE  WInv' /\ VInv'
  <2>1. CASE Produce
    <3>1. Worker
      BY <2>1 DEF Produce
    <3> QED  BY <1>1, <2>1, <3>1, ProduceKeeps, WorkerSteps
  <2>2. CASE UNCHANGED workerVars
    <3>1. WInv'
      BY <1>1, <2>2, WorkerSteps
    <3>2. CASE UNCHANGED vars
      <4>1. UNCHANGED <<phase, conns, reply, sub, pipe, refreshes, missed, over>>
        BY <3>2 DEF vars, viewVars
      <4>2. Silently /\ IdsMoveOn /\ nextId \in Nat /\ nextId' \in Nat
        BY <1>1, <2>2, WorkerStands DEF VInv
      <4>3. Base' = Base /\ \A i \in Nat : (Queued(i)' <=> Queued(i)) /\ Ev(i)' = Ev(i)
        BY <4>1 DEF Base, Queued, Ev
      <4>4. FollowUp'
        BY <1>1, <4>1, <4>2, <4>3, FollowsSilence DEF VInv
      <4>5. GoneForGood'
        <5>1. DOMAIN conns' \cap over = {} /\ (phase' = "refresh" => DOMAIN reply' \cap over = {})
          BY <1>1, <4>1 DEF VInv, GoneForGood
        <5> QED  BY <1>1, <4>1, <4>2, <4>3, <5>1, GoneInSilence DEF VInv
      <4>6. ViewTypeOK'
        BY <1>1, <4>1 DEF VInv, ViewTypeOK
      <4>7. NoEarlyEvents' /\ IsFun(conns)' /\ (phase' = "refresh" => IsFun(reply)')
        BY <1>1, <4>1 DEF VInv, NoEarlyEvents, Subscribed
      <4> QED  BY <3>1, <4>4, <4>5, <4>6, <4>7 DEF VInv
    <3> QED
      BY <1>1, <2>2, <3>1, <3>2, SnapshotTaken, ViewPrepared, ForwardKeeps, DrainKeeps, ProduceKeeps
      DEF Next
  <2> QED
    BY <1>1, <2>1, <2>2
    DEF Next, Attach, Subscribe, Forward, Drain, Query, Install, vars
<1>2. (WInv /\ VInv) /\ [Next]_vars => (WInv /\ VInv)'
  BY <1>1
<1> QED  BY <1>2, ViewStarts, PTL DEF Spec

\* When all is at rest, a view shows every connection as the live table does, or
\* not at all when that has it no more, however a snapshot and events older than
\* it are interleaved.  Left out are the connections whose latest event was lost,
\* on a full queue or before the subscription, and to which neither a later event
\* nor a snapshot has come that no older event of theirs followed.  The queue
\* stays within its capacity (inspect/mod.rs, ipc/server.rs:52-55).
THEOREM ViewCatchesUp == Spec => []ViewInSync
<1>1. WInv /\ VInv => ViewInSync
  <2> SUFFICES ASSUME WInv, VInv, AtRest,
                      NEW id \in (DOMAIN conns \cup DOMAIN ById) \ missed
               PROVE  id \in DOMAIN conns \cap DOMAIN ById /\ conns[id] = ById[id]
    BY DEF ViewInSync, InSync, VInv
  <2>1. /\ Base = conns /\ phase # "attach"
        /\ ~Pending(id) /\ (\A i \in Nat : ~Queued(i))
    BY DEF AtRest, Quiet, Base, Pending, Queued
  <2>2. id \in Ids \ missed
    BY SnapshotTable DEF IsSnapshot, VInv, ViewTypeOK, IsTable
  <2>3. TableAgrees(conns, id)
    BY <2>1, <2>2 DEF VInv, FollowUp
  <2> HIDE DEF ById
  <2> QED  BY <2>3 DEF TableAgrees
<1> QED  BY <1>1, ViewInvariant, PTL

\* A connection seen closed never comes back, neither by a late Flow event nor
\* by a snapshot (state.rs:54-56, correlate.rs:225-231).
THEOREM ClosedForGood == Spec => []ClosedStaysClosed
<1>1. VInv => ClosedStaysClosed
  BY DEF VInv, GoneForGood, ClosedStaysClosed
<1> QED  BY <1>1, ViewInvariant, PTL
=============================================================================
