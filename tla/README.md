# pktscope in TLA+

pktscope captures packets and shows them, and it runs as a daemon that watches
which program talks to whom and raises alerts. This directory holds
specifications of its parts written from the Rust source, TLC runs that check
them on small instances, and TLAPS proofs of what holds for every instance.
Paths below are relative to `src/crates/pktscope-core/src/` unless they start
with `pktscope/` (short for `src/crates/pktscope/src/`) or with `src/`.

* `PROJECT.json` lists the components, the runs, the source lines behind each
  definition, the hazards, the findings and the theorems.
* `tlc -config <run>.cfg <module>` repeats a run, `tlapm <module>_proofs.tla` the
  proofs about a module.

## 1. The system

```
 pktscope monitor run                               pktscope inspect
 ------------------------------------------------   -----------------------
 capture thread --raw packets--> worker (main)      UI thread
   capture_loop     bounded       run_worker          query connection
                                   |  FlowTracker     InspectorApp.conns
                                   |  AlertEngine       ^ channel
                                   v                    |
              store (mutex) . live table (mutex) . bus  reader thread
                       ^             ^             |    ^
                       |             |             v    | Unix socket
                 accept loop --> handler threads -------+
                 run_server      handle_conn
```

`pktscope capture`, `read` and `diff` are a second program around the same
decoders: capture thread, decode thread and terminal (or JSON) over bounded
channels.

```
 capture_loop --raw--> decode_thread --decoded--> run_tui, json_output_loop
   or a file            decode_packet               ring, filter, selection
                        FlowTracker                 anomalies, streams
                        try_process_lookup
```

### Components

| component | state it keeps | operations | what makes it correct |
|---|---|---|---|
| alert engine (`alert/`) | learning window, novelty tables, identities, volume averages, alerts: all in the store | `evaluate_full` once per packet of a flow | silent while learning; a novelty alerts once; the cooldown survives restarts; an alert never lacks its evidence; the window ends |
| store (`store/`) | SQLite tables; every call commits on its own | upserts, `insert_alert`, `insert_connection`, queries | references hold after every statement |
| binary identity (`identity.rs`) | cache of hashes | `identify`, `changed_since` | an update by the same signer is not a change; an unreadable file is not evidence |
| flow tracker (`flow/tracker.rs`) | LRU cache of flows, completion channel | `update` | byte totals are kept until the flow closes; up and down as the user sees them |
| worker (`monitor/correlate.rs`) | `FlowMeta` per key, connection ids, live table | `handle_update`, `persist_closed` | tracker, bookkeeping, live table and history agree; one row per connection |
| bus, live table (`ipc/server.rs`) | subscriber queues, live connections | `subscribe`, `broadcast`, `snapshot` | subscribers hear what the table shows |
| inspector (`pktscope/inspect`, `inspector/state.rs`) | connections by id | attach, apply, refresh | the view equals the table once events are drained |
| daemon (`monitor/mod.rs`, `capture/`, `ipc/server.rs`) | threads, channel, stop flag, socket path | start, stop, accept, serve, join | told to stop it ends; requests are answered; the socket leads to the daemon |
| reassembly (`flow/reassembly.rs`) | contiguous bytes, later segments, cap | `insert_segment`, `try_drain`, `mark_fin` | what is delivered is the stream, in order; nothing waits that could go |
| capture view (`pktscope/tui`, `storage/ring.rs`) | ring of packets, selection, filter indices, filter input | drain, keys, search | indices mean the packets they meant before an eviction; the selection is on a row; no key brings the view down |
| capture pipeline (`pktscope/main.rs`, `diff/`) | two channels, stop flag, counters | capture, decode, print, compare | all threads end; what is shown is the capture, in order and whole; the comparison is one of multisets |
| decoders (`decode/`, `analysis/`) | none | header chain, message parsers, fingerprints, anomaly | what was captured is decoded wherever the capture is cut; what is read is what was written |
| display filter (`filter/`) | none | parse, evaluate | the usual precedence; a packet without the field does not match |
| process lookup (`process/`) | cache of sockets, one second | `lookup_socket_proc` | who is named owns a socket on the end; an old socket is found |
| name resolver, DNS pairing | bounded maps | `observe_*` | an answer is paired with its query |
| writers, GeoIP, notifier, command line, drawing | none, or text | print | outside these models |

### How they interact

* The worker is one thread. It takes a packet from a bounded channel, updates
  the flow tracker, calls the alert engine under the store's mutex, updates the
  live table under its own mutex, and broadcasts on the bus. Between any two of
  these, handler threads can look.
* A closed flow comes back to the worker through an unbounded channel that it
  drains after every packet.
* A subscriber has a bounded queue (1024). `broadcast` drops an event for a full
  queue; it never waits.
* A handler of a query holds the store's mutex and takes the live table's inside
  it. The worker takes both, one at a time.
* Every thread of the daemon polls one stop flag. It is set by a request or by
  the watcher of SIGINT and SIGTERM, and by nothing else.

### What is hard

* **Crashes and errors between statements.** `evaluate_full` is a dozen
  autocommits. Each may be the last one before the process dies or `?` returns.
* **Order of events and snapshots.** The inspector combines snapshots from one
  connection with events from another; a bounded queue may drop some.
* **Packets that arrive when nothing expects them**: after the second FIN, after
  an eviction, before the process is known, out of order.
* **Ending.** Threads block on a full channel, in libpcap, on a mutex or in
  `join`, and must all notice the same flag.
* **Indices into lists that change**: the view keeps positions, and the ring
  evicts under them.
* **Caches of what the system says**: sockets that closed since, files that were
  replaced while they were hashed.
* **Input cut anywhere**: snap lengths, lengths that are longer than what holds
  them, names that point at themselves.
* **Two daemons and one socket path**, one of them possibly dead.
* **Widths and limits**: sequence numbers that wrap, caches and buffers at their
  capacity.

The list with source lines is under `hazards` in `PROJECT.json`.

## 2. The modules

| module | models | relation to the others |
|---|---|---|
| `Identity` | `changed_since` | used by `AlertEngine` |
| `AlertEngine` | alert engine and its tables | implements `NoveltyContract` |
| `NoveltyContract` | abstract: the life of one novelty | |
| `AlertEngine_proofs`, `EventStream_proofs`, `Daemon_proofs`, `Pipeline_proofs`, `CaptureView_proofs`, `Attribution_proofs`, `Parsers_proofs` | theorems about the module of that name | each extends it; `EventStream_proofs` is also about `FlowWorker`, which `EventStream` extends |
| `Decoding_proofs` | theorems about `Decode`, `Reassembly` and `Segments` | extends `Decode` and `Segments` |
| `FlowTracker` | the flow cache | part of `FlowWorker` |
| `FlowWorker` | worker, live table, history | composes the tracker with the worker |
| `EventStream` | bus, handler, inspector | composes `FlowWorker` with one inspector |
| `Daemon` | life cycle and locks of the daemon | the worker is a walk through its locks |
| `Reassembly` | one direction of a TCP stream | |
| `Segments` | the same segments as the tracker marks them | extends `Reassembly` |
| `Pipeline` | threads and channels of `capture`, `read`, `diff` | implements `OrderedOutput` |
| `OrderedOutput` | abstract: what a reader of a capture may expect | |
| `CaptureView` | the terminal view and its keys | |
| `Attribution` | cache of sockets, its two callers, cache of identities | |
| `Decode` | the chain of header decoders, summary, anomaly | |
| `Filter` | parser and evaluation of display filters | |
| `Display` | a packet is decoded and a filter typed | composes `Decode` and `Filter` |
| `Parsers` | DNS, TLS, QUIC, HTTP, HTTP/2 and the fingerprints | |
| `MCAlertEngine`, `MCFlowWorker`, `MCCaptureView`, `MCPipeline`, `MCAttribution`, `MCDisplay`, `MCParsers` | instances for TLC | |
| `MCAlerts` | two families of behaviours of `AlertEngine` in one run | |
| `MCEventStream` | two families of behaviours of `EventStream` in one run: the worker alone, and with an inspector | |
| `MCDaemon` | two families of behaviours of `Daemon` in one run: one daemon, and two | |
| `MCDecoding` | `Display`, `Parsers` and `Segments` side by side in one run | |
| `MCFlowClose` | `FlowWorker` driven by TCP conversations that follow the protocol | |

Definitions named `X_Something` next to a definition `X` are plausible wrong
versions of it. No specification uses them; substituting one for `X` makes the
property it is listed with fail (`mutants` in `PROJECT.json`), which shows that
the property depends on the code.

### AlertEngine

A step is one SQL statement. `pc` names the next one, `ev` the `FlowEvent`,
`due` the dedup key of an alert that is about to be inserted, `out` the `Vec`
the evaluation returns. `Start`, `SetStarted` and `SetEnds` are the three
`meta_set` calls of `ensure_started`, `Promote` the fourth; `Note` is
`upsert_process`, `note_label`, `note_country` or `note_asn`, one per signal;
`RecordIdentity` and `SetCurrent` are the two statements of `record_identity`;
`Emit` is `insert_alert`. `Fail` is an error of any statement, `Crash` a death
of the process: both abandon the evaluation and keep the store. Timestamps are
those of the packets; the model lets them stand still or advance and never go
back. A country or an ASN of `None` shows nothing, a label always shows
something (`stable_label` falls back to the address). Whether a closed volume
interval is a spike is arbitrary, so what is checked holds for every average.

`NoveltyContract` says what a user may rely on: a novelty is absorbed by the
baseline, or it is detected and then reported or lost to a fault. Absorbed and
reported are final. `AlertEngine` implements it under the mapping `statusOf`.

### FlowTracker and FlowWorker

`Track` is `FlowTracker::update`: look up or insert (evicting the least recently
used flow of a full cache), count, close on RST or on a FIN of both ends, and
send the final snapshot. `order` is the LRU order. A packet is one unit of bytes.
The worker's steps end wherever a handler thread can look: evaluation
(`Evaluate`, or `EvaluateFails` whose error `handle_update` drops), live table
(`UpdateLive`), broadcast (`BroadcastFlow`), and for a closed flow `CloseLive`,
`BroadcastClosed` and `InsertRow` (whose error is ignored). `captured` and `lost`
are history variables: the packets of each connection id, and the ids whose flow
the cache evicted.

### EventStream

One inspector: `Attach` is the first snapshot, `Subscribe` the subscription on a
second connection, `Forward` the handler together with socket and reader thread
(`pipe` is what they hold), `Drain` the reducer, `Query` and `Install` the two
ends of a refresh. `Produce` is a step of the worker with the broadcast it
makes. `missed` is a history variable: the connections whose latest event was
dropped for a full queue, or broadcast before the subscription. A later event of
such a connection that gets through makes it good, and so does a snapshot, unless an
older event of that connection is still queued (`OnItsWay`): it is applied to the
answer afterwards, and stays.

### Daemon

`main`, `capture`, `server` and `handler` are program counters. A mutex appears
as its holder only where the holder can wait while it holds it (a handler inside
`handle_query`, the worker inside `persist_closed`); a lock that is released
before its holder waits for anything else is taken and released in one step.
`Send` is a send on a full channel that blocks, and fails once the receiver is
gone with the worker. `Hangup` is what a client sees when its connection ends.
`Kill` ends a process anywhere and leaves its socket path; it is the operating
system's. `met` is a history variable: the daemons that ran beside another, from
the moment they did.

### Reassembly

The byte at position *i* of the stream is *i*, so a byte delivered in a wrong
place shows. The four outcomes of `insert_segment` are four actions: `Ignore`,
`Refuse`, `Deliver` and `Hold`. `Advance` and `SeqLt` are `wrapping_add` and
`seq_lt` modulo `Modulus`, as wide as an instance makes it; a stream is shorter
than half of it, as the 1 MiB cap makes it in practice. `Segments` lets the flow
tracker see each segment too: `maxSeq` and `IsRetransmission` are its marks, whose
sums, unlike `Advance`, do not wrap.

### Pipeline

`cap` and `dec` are the threads, each with the packet in its hands; `raw` and
`decoded` are the channels. A channel whose receiver is gone fails a send, also
one that waits; one whose sender is gone ends when it is empty. `SetStop`,
`DropReceiver` and `Join` are the three statements behind the loop of `main`, and
their order is what `Ends` depends on. `CaptureFails` and `OutputFails` may come
at any time. `OrderedOutput` says what a reader may expect: packets in order and
none left out, never more than were asked for, and an end when all are shown or
somebody has an excuse.

### CaptureView

The loop of `run_tui` alternates between at most one key and a drain of the
channel. Every key of `handle_key_event` that changes state is an action; what it
means depends on `mode`. `filtered` holds positions in the ring, `selected` a
position in what is visible, as the code does; packets carry their numbers, so
that a position that came to mean another packet shows. The text of the filter
bar is a sequence of characters with their widths in bytes, and `cursor` is what
the code takes for a byte position. A panic is a value of `turn`.

### Attribution

`sockets` is what the system has open, `cache` the table of `/proc/net` as it was
read, with its time and (history) the protocol it was read for. Any packet may be
looked up at any time, because a packet waits in channels before. The worker asks
for the local end of a flow; the decode thread asks for the source address with
either port. `Hash` comes after `IdentifyMiss`, and the file may be replaced in
between. `torn` is a history variable, the keys filled while that happened.

### Decode, Filter, Display

A frame is a description of its headers with their real lengths; the capture is
its first `captured` bytes, for every number of them. `DecodeEthernet`, `DecodeIpv4` and their kin
take one header each and name the next, or stop. `Tiled`, `SnapLength`,
`ColumnsShow` and `FilterSelects` compare the layers with what is on the wire,
which `WireHeaders` says without the decoders. A filter is a text of words, typed phrase by phrase;
`Means` gives its meaning by its last operator outside parentheses, against the
recursive descent of the code. No frame is a fragment of an IP packet: the code
decodes a later fragment as if a transport header began it (`decode/ipv4.rs:32-44`),
which `WireHeaders` says nothing about.

### Parsers

Functions over sequences of bytes, near the code in their order of tests and
apart from it in what they check. Where the code loops or calls itself they are
recursive functions over a number that grows: the entries of a list so far
(`Run`), the pointers that may still be followed (`Names`), the records and
questions of a section, the representations of a header block. `NamesResolve`
compares the reader of names, which keeps labels, a position and a count of pointers
as it goes, with what a name stands for (`Meant`), said one label or pointer at a
time; `ReadsBack` writes down again what was read; `TablesAgree` keeps the dynamic
table of HPACK as a peer does, which makes room first, counts the bytes it sent and
goes on with a header block in a CONTINUATION. The input grows by one piece
at a time, so that a step is also a comparison of a capture with a longer one. A
byte is read through `At`, which has no value behind the end: a read out of bounds
would be an error of the run. Cipher names and hashes are left out.

A literal of HPACK is what it says, with the number of its well-formed bytes, of its
ill-formed parts and of the bytes in them, and whether it is Huffman coded: `Stored`
is the text that `decode_str` makes of it, three bytes for each ill-formed part, or a
placeholder as long as the number in it, and `Sent` what the peer has. A frame is a
piece of the input too. `Read` says whether its block is decoded, `Known` whether an
index has an entry: a literal with an unknown one ends the block. `TablesAgree` is
stated for a peer that keeps to the entries it has (`KeepsToIndexes`), and under the
three conditions without which the code's table drifts from the peer's: every header
block comes in a HEADERS frame without padding or priority, among the first 128 frames
(`AllRead`), no literal is Huffman coded (`NoHuffman`), and all are UTF-8 (`AllUtf8`).
JA4 has the signature algorithms as they are, and `FingerprintsHold` speaks of the
other lists: ciphers, extensions, groups and versions.

## 3. The runs

| run | asks | instance |
|---|---|---|
| `alerts` | `TypeOK`, `LearningSilence`, `NoveltyAlertsOnce`, `AnnouncedAlerts`, `CooldownSpacing`, `StoreConsistent` (`AlertEvidence` and `References`), `ImplementsContract`, `WindowEnds` | one executable; a family with two destinations of one organisation and one crash, and a family with two identities, volume spikes and one failing statement |
| `alert_stuck_window` | `OpenedWindowEnds`: violated | one crash |
| `live_view` | of `FlowWorker`: `LiveIsExact` (`TablesAgree`, `SameOrientation`), `OneIdEach` (`TypeOK`, `IdsAreFresh`, `OneRowEach`), `RowsAccountForFlows`, `ClosedIsKept`, `StreamMatchesTable`; of `EventStream`: `ViewInSync` (`ViewTypeOK`, `InSync`), `ClosedStaysClosed`, `ClosedArrives` | a family with the worker alone: three flows, a cache of two, four packets, one error; and a family with an inspector: one flow reused, two packets, a queue of two, one refresh |
| `worker_ghost` | `LiveIsActive`: violated | one flow |
| `daemon_life` | `ShutsDown`, `Answered`, `SocketRight` (`TypeOK`, `Reachable`, `LeavesNoSocket`) | a family with one daemon: two clients, three packets, a channel of one, one failure; and a family with two daemons and one kill, without traffic |
| `daemon_overlap` | `ServesOnItsSocket`: violated | two daemons |
| `daemon_capture` | `DeadCaptureEnds`: violated | one daemon, one failure |
| `pipeline` | `PipelineOK` (`TypeOK`, `Conserved`), `DiffIsExact`, `ShowsInOrder` (the refinement), `Ends` | inputs of up to five packets, channels of one, all commands |
| `capture_view` | `ListOK` (`TypeOK`, `ListIsExact`), `SelectionOnARow`, `SearchFinds`, `OnlyWideCharsCrash`, `NeverBackwards` | a ring of two, three packets, two filters, two typed characters |
| `attribution` | `TypeOK`, `LooksUpRight` (`NamesAnOwner`, `FoundInTime`), `IdentityFits` | two processes, two sockets of four kinds, three versions of the file, one replacement |
| `decoding` | of `Display`: `LayersFit` (`Tiled`, `SnapLength`), `SummaryShows` (`ColumnsShow`, `CredentialsShow`), `FilterHolds` (`SummaryPasses`, `FilterSelects`, `ParsesByPrecedence`); of `Parsers`: `ReadRight` (`NamesResolve`, `ReadsBack`, `TablesAgree`), `FingerprintsHold`, `ReadsOn` (`SectionsGrow`, `CompleteIsStable`); of `Segments`: `StreamExact` (`TypeOK`, `InOrder`, `Accounted`), `NothingWaits`, `MarksOldData` | 26 frames cut at every length, filters of up to seven phrases; short inputs of 14 formats; names of up to eight bytes with up to three pointers, of which two may be followed (128 in the code), so that the limit is met; four bytes of a stream across the wrap, a cap of three |
| `hpack_drift` | `IndexesDecode`: violated | up to four pieces: frames, literals, table sizes, indices |

A property in front of parentheses is the conjunction of the parts in them, which
are defined and explained one by one in the modules.

`alerts`, `live_view`, `daemon_life` and `decoding` put families of behaviours side by
side: an initial state chooses one, and what the other needs stays as it is.

### What the passing runs show

*Alert engine.* Whatever statement is the last before a crash, no alert predates
the end of the window, no novelty alerts twice, every alert names a process, a
destination and a novelty that were committed before it, and, without faults,
what is stored is what is announced. The price of a fault is visible in the
contract: a novelty recorded before its alert was inserted is lost (`Lose`).
`CooldownSpacing` is checked on the signals that recur: a binary that flaps
between two hashes and volume spikes.

*Worker.* Between two packets the tracker, the bookkeeping and the live table
have the same flows, ids and byte counts, with the exception of flows evicted
from the cache. The history never counts a byte twice and, for flows that were
not evicted, misses none. What the bus says is true of the table when it is
said.

*Event stream.* At rest an inspector shows each connection as the live table does,
or not at all when it is closed, although snapshots and events overtake each other;
left out are the connections whose latest event was lost and not made good, one by
one, not the view as a whole. A connection seen closed does not come back.

*Daemon.* The order in which locks are taken has no cycle, the capture thread
cannot hold up the shutdown from a full channel, and every request is answered or
cut off. A daemon is reachable whatever a killed predecessor left, as long as no
other runs beside it; daemons that end, side by side or not, leave no socket.

*Reassembly.* Whatever arrives, delivered bytes are the stream without gap or
repetition; the cap counts exactly what is held; and of a stream cut into
segments once, nothing that could be delivered waits. Before sequence numbers
wrap, the tracker marks exactly the segments that end no later than one that came
before, among them all that the followed stream drops.

*Pipeline.* No packet is lost, doubled or overtaken between the two ends while
anybody listens; what a reader sees implements `OrderedOutput`; and whatever
command is given, once it has a reason to end it does, because the receiver is
dropped before the threads are joined.

*Capture view.* Whatever is evicted, typed, paused or searched for, the list is
what a fresh evaluation of the filter over the last packets would give. The two
things that can go wrong are named in the properties: evictions from a filtered
list may leave the selection behind its end (`SelectionOnARow`), and a character
of several bytes in the filter input may panic (`OnlyWideCharsCrash`).

*Attribution.* Who is named holds a socket on an end that was asked for, however
stale the cache, because an inode is looked for among the open ones. A socket
older than the refresh interval is found, with the proviso that the cache was read
for its protocol. An identity is of contents with the time and size the file had,
except for keys filled while the file was replaced.

*Decoding.* Headers are decoded where they are on the wire and exactly as far as
they were captured. A packet passes the filter that its protocol column names.
Names end or are refused, however their pointers are entangled; lengths that lie
are cut; what was complete is not read differently when more follows. The dynamic
table is the peer's under the conditions named with `Parsers`; `hpack_drift` shows that
they are needed.

### What the violations show

* `alert_stuck_window`: the first of the three writes of `ensure_started` is the
  one it tests. A crash after it leaves a window without an end, and the engine
  never leaves learning.
* `worker_ghost`: the acknowledgement of the second FIN opens a flow that nothing
  closes; the live table keeps it.
* `daemon_capture`: when the capture fails, nobody sets the stop flag, and the
  daemon waits for its accept loop for ever.
* `daemon_overlap`: a second daemon removes the socket path as it starts, and the
  first goes on accepting where nobody can reach it. It removes it again as it ends,
  also when the path is another's by then (`monitor/mod.rs:66,100`). Units of
  `src/dist/pktscope-monitor.service` for two interfaces meet that way, since the
  default path is one for all (`monitor/paths.rs:15-29`).
* `hpack_drift`: a header block in a CONTINUATION, or in a HEADERS frame with padding
  or priority, is not decoded (`decode/http2.rs:41`), and what it adds is in the
  peer's table only, where `decode/http2.rs:4-6` names Huffman literals alone as what
  does not decode.

### Bounds and why they are enough

* `MaxTime = 3` with a window of 1 and a cooldown of 2 has a time before, at and
  after the end of the window, two evaluations inside a cooldown and two a
  cooldown apart.
* One executable is enough for the novelty properties, whose keys carry the
  executable: no statement of one executable reads a row of another. Two
  destinations share a label and differ in country and ASN, so that one event can
  repeat one novelty and introduce others.
* One crash or one failing statement at every point. A second one meets a state
  the first could have left.
* Four packets over three flows and a cache of two evict a flow, close one by RST
  or by two FINs, and meet an evicted key again. The three keys have their local
  end low, high and at both ends.
* A subscriber's queue of two and a pipe of one overflow with the events of one
  packet and its close, while a refresh is under way.
* A channel of one blocks the capture thread with the third packet. Two clients
  are the fewest whose handlers compete with each other and with the worker. Who owns
  the socket path depends on starts, ends and deaths only, so two daemons need neither
  packets nor clients; each may be stopped by a signal at any time.
* Four bytes are the fewest with a gap, two buffered segments behind it and
  overlaps of each kind; `Modulus = 10` with the first byte at 7 wraps in
  their middle.
* Inputs of five packets through channels of one fill both channels and both
  threads' hands with one packet left to read. Counts of none, 0 and 2 stop before,
  at and inside an input.
* A ring of two and three packets evict once while a filter that passes some and a
  selection at either end are in place. Two characters make a cursor that is at the
  start, inside, and at the end.
* One tick of interval and two of time: a cache that is fresh, at its limit and
  stale; two sockets on one end, one after the other or at once, of one protocol or
  two. Three versions of a file, two of which have the same time and size.
* Each frame is cut at each length, and each parser sees all inputs, up to its
  length, over the bytes that its tests tell apart.

### Fairness

* `AlertEngine`: the worker evaluates a packet it has (`WF(Worker)`: one thread
  that waits for nothing but SQLite), packets keep arriving (`WF(Arrive)`) and,
  again and again, later ones (`SF` of an arrival that advances the clock). The
  window is measured in packet time, so without traffic it rightly does not end.
* `EventStream`: each thread is scheduled (`WF` of its steps). The worker has to
  finish a step it began; packets need not come, nor the refresh key.
* `Pipeline`: each thread is scheduled (`WF(Capture)`, `WF(Decode)`, `WF(Main)`:
  none waits but on its channel, with a timeout) and time passes (`WF(Expire)`).
  Traffic need not come, nor a key.
* `Daemon`: each thread is scheduled. `Timeout` is part of the capture thread's
  fairness: `capture/live.rs` opens the device with a read timeout of 100 ms. That
  libpcap honours it is an assumption about the library.

## 4. The proofs

TLAPS proves, for every value of the constants that their assumptions admit, every
safety property of the runs but one (`FilterHolds`). TLC had checked each inductive
invariant on the run's instance before.

| theorem | in | states |
|---|---|---|
| `TypeCorrect` | `AlertEngine_proofs` | `Spec => []TypeOK` |
| `SilentWhileLearning` | | `Spec => []LearningSilence` |
| `CooldownHolds` | | `Spec => []CooldownSpacing` |
| `NoveltiesOnce` | | `Spec => []NoveltyAlertsOnce` |
| `ConsistentStore` | | `Spec => []StoreConsistent` |
| `AnnouncedOnce` | | `Spec => []AnnouncedAlerts` |
| `ContractImplemented` | | `Spec => ImplementsContract`: the refinement of `NoveltyContract` |
| `WorkerInvariant` | `EventStream_proofs` | `WorkerSpec => []WInv` |
| `LiveTableExact` | | `WorkerSpec => []LiveIsExact` |
| `TotalsReachHistory` | | `WorkerSpec => []RowsAccountForFlows` |
| `OneIdOnePlace` | | `WorkerSpec => []OneIdEach` |
| `NoneLostOnTheWay` | | `WorkerSpec => []ClosedIsKept` |
| `StreamIsTrue` | | `WorkerSpec => StreamMatchesTable`, an action property |
| `ViewInvariant` | | `Spec => [](WInv /\ VInv)` |
| `ViewCatchesUp` | | `Spec => []ViewInSync` |
| `ClosedForGood` | | `Spec => []ClosedStaysClosed` |
| `SocketLeadsRight` | `Daemon_proofs` | `Spec => []SocketRight` |
| `NothingLost` | `Pipeline_proofs` | `Spec => []PipelineOK` |
| `OutputInOrder` | | `Spec => ShowsInOrder`: the refinement of `OrderedOutput` |
| `ComparisonExact` | | `Spec => []DiffIsExact` |
| `ViewInvariant` | `CaptureView_proofs` | `Spec => []CInv` |
| `ListShown` | | `Spec => []ListOK` |
| `SelectionKept` | | `Spec => []SelectionOnARow` |
| `SearchComplete` | | `Spec => []SearchFinds` |
| `NarrowTextIsSafe` | | `Spec => []OnlyWideCharsCrash` |
| `OnlyForward` | | `Spec => NeverBackwards`, an action property |
| `AttributionInvariant` | `Attribution_proofs` | `Spec => []AInv` |
| `AttributionTyped` | | `Spec => []TypeOK` |
| `AskedAndFound` | | `Spec => LooksUpRight`, an action property |
| `IdentityIsOfTheFile` | | `Spec => IdentityFits`, an action property |
| `ChainInvariant` | `Decoding_proofs` | `Spec => []ChainInv` |
| `LayersAreTheHeaders` | | `Spec => []LayersFit` |
| `SummaryTellsThePacket` | | `Spec => []SummaryShows` |
| `SegmentsInvariant` | | `SegmentsSpec => []SInv` |
| `StreamIsExact` | | `SegmentsSpec => []StreamExact` |
| `NoByteWaits` | | `SegmentsSpec => []NothingWaits` |
| `OldDataIsMarked` | | `SegmentsSpec => []MarksOldData` |
| `MoreTakesNothingBack` | `Parsers_proofs` | `ParsersSpec => ReadsOn`, an action property |
| `WhatWasWrittenIsRead` | | `ParsersSpec => []ReadRight` |
| `TheTableIsThePeers` | | `ParsersSpec => []TablesAgree`, a conjunct of `ReadRight` |
| `TheFingerprintsHold` | | `ParsersSpec => []FingerprintsHold` |

### What the proofs assume

Nothing but the named `ASSUME`s of the modules, which TLC evaluates on every run:
a bound is a natural number, a capacity is at least one, an absent value is not
among the present ones, and:

* `LocalEnds` (`TrackerAssumption`) gives each key a set of ends, possibly none or
  both.
* `InputsAssumption`, `CountsAssumption`: the inputs of `Pipeline` are sequences and
  a count is a natural number or absent.
* `ViewAssumption`: a character has at least one byte, and what `Parse` returns for
  a text within the bound is a filter or `None`.
* `ReassemblyAssumption`: the stream is shorter than half the circle of sequence
  numbers (2 GiB). Nothing is claimed of longer ones.
* `FramesAssumption`: what a frame says of itself is among what its fields can say
  (a version, a protocol, lengths that are natural numbers), a raw frame has the
  network header its version says, and a message is not empty and as long as its
  decoder wants it to be. Nothing is assumed of the lengths themselves: a header
  may claim any size.
* `ParsersAssumption`: what arrives at a position is of the alphabet of its format
  (bytes, lines, header representations, 16-bit values).
* `NoneAssumption`, `NoEventAssumption` and their like: `None` is not an event, a
  process, an identity or a packet.

### The inductive invariants

None of the properties is inductive; each follows from the invariant of its module.

**AlertEngine.** `IInv == TypeOK /\ WindowInv /\ CooldownInv /\ NoveltyInv`.

* `LearningSilence` speaks of rows; the step that adds one (`Emit`) needs to know
  that an alert in the making implies an active baseline and a window that was
  over when it was made. That is `WindowInv`, which also follows the window from
  its first write to its promotion.
* `CooldownSpacing` needs that no row is later than the clock, so that the row the
  cooldown is measured from is the last one.
* `NoveltyAlertsOnce` needs that an alert about a novelty, in the making or
  inserted, has its novelty in the table already: it will not be fresh again. A
  crash between the two leaves the table ahead of the alerts, never behind.

The proof goes action by action; `Quiet` and `Recurring` are lemmas for the actions
that touch none of this and for the alerts that may recur. `Fail` and `Crash` keep
the store and drop the rest, so that all parts survive them. `StoreConsistent` and
`AnnouncedAlerts` add what the statement at hand has already written. The refinement
goes by the steps of the engine: each is a step of the life of one novelty, or none.

**FlowWorker.** The properties speak of the moments between two packets; `WInv`
says what holds within the handling of one. `CacheInv`: the order of the cache lists
its keys once each. `TablesInv`: which keys the tracker, the worker and the live
table have in common while `upd` is in hand or a snapshot waits. `IdsInv`: an id is
in the worker's table, in its hands or in the history. `CountsInv` and `WaysInv`: how
far each place has counted the packets captured (a history variable), the one at
hand being ahead by one. `KeptInv`: where a captured connection is. A flow that was
pushed out of the cache is exempt by its id (`lost`), and only that one.

**EventStream.** `VInv` extends `WInv`. The heart is `FollowUp`: of every
connection, the *last* event on its way to the view, or the view where there is
none, shows the connection as the live table does, or as it did before the worker's
last unannounced change. It makes a snapshot that overtakes events harmless, since
events older than the snapshot are followed by newer ones or agree with it.
It is stated for each connection that is not in `missed`: an event that is lost takes
its connection out of the claim, one that gets through brings it back
(`FollowsLoss`, `FollowsAnnouncement`), and so does a snapshot with none about it on
its way (`QueuedOnItsWay`).
`GoneForGood` orders the events: no Flow of a connection follows its Closed.

**Daemon.** `SocketLeadsRight` promises the path to a daemon that never ran beside
another one, whatever its predecessors left; of daemons that overlap it says only that
they leave no socket once all have ended, because they do lose it while they run
(`daemon_overlap`). `DInv` adds to `Reachable` who may own the path: a daemon that has yet to
remove it, or one that was killed (`Owned`); that only a daemon between binding and
joining accepts (`Serving`); and that two that run at once have met (`Overlap`).

**Pipeline.** `PInv` knows of each end of a channel why the other one let go
(`EndsOnlyWhen`), which threads a command has (`Roles`), where its inputs come from
(`Sources`) and how far the output is (`Progress`). With them `Conserved` is
inductive, by associativity of the concatenation of the packets shown, in the
channels and in the threads' hands. `BothRead` adds, for a comparison, that the second
file is opened when the first has been read. The comparison itself is the recursive
function of `Without`, which exists (`ComparedExists`) and has after each packet what
`Done` says of it: per content, what is left of the other list or left over of this
one. That both sides find the same number of pairs is the least obvious part. What is
common is the packets of this list that come early enough among their like to find a
partner (`Early`), and it is also the packets of the other that are one (`Partners`);
at the end each is the other with the lists exchanged, so that nothing has to be summed
over contents.

**CaptureView.** `CInv` has the ring as the last packets received (`RingInv`), the
filter's indices as those a rebuild would give (`FilterInv`), the selection
(`RowInv`) and the cursor (`CursorInv`). An eviction shifts every index by one and
drops the first, which is what a rebuild over the shifted ring gives. That the
cursor counts characters and the input is cut at bytes is the reason for lemmas
about the width of texts.

**Attribution.** `AInv` says what the cache of sockets knows, and when it was read
(`CacheInv`); that inodes are never used twice (`SocketsInv`), without which a stale
entry could name another's socket; what the cache of identities may hold of a file
that was replaced (`IdsInv`); and the cache's state at the lookup in progress
(`StepInv`).

**Segments.** `SInv` gives what arrived a place. In `PlaceInv`, three positions of the
stream, the anchor, the end of what was drained and the end of what is contiguous,
determine `base`, `drained`, `pending` and `nextSeq`. In `HeldInv`, each segment that
waits is a run of the stream under its own sequence number, and the bytes that wait
are counted as a set, so that taking one run out takes its length out of the count.
For a stream that is cut once, `Neat` adds that what waits is whole segments, ahead
of what is contiguous, and that what is contiguous is whole segments too: a segment
with anything new is then all new (`AllNew`). Order modulo the circle is order of
positions by `SeqOrder`, the only place where the width matters. `MarkInv` is the
tracker's side. The loop that pulls adjacent segments in is a recursive function;
`PulledIs` proves that it has the values its definition gives it, and `PulledSound`
that it ends with nothing adjacent, by induction on the segments left.

**Decode.** `ChainInv` says how far the chain has come: the first *n* headers on the
wire have been taken (`Stage`: each is a layer, in its place, and was seen whole and
well formed), and the decoder waits for the next, which was announced (`Awaited`), is
at the message behind a transport header, or is done (`Over`), because the next
header was not seen or there is none. `Tiled` and `SnapLength` follow from it with
what `WireHeaders` and `WireEnd` say of a frame without the decoders. The summary is
a function of the layers; the proof goes by the innermost of them.

**Parsers.** The invariant is that the input is of its alphabet (`Readable`). What the
theorems need is said by lemmas about the functions, for inputs of any length.

* That more input takes nothing back: a list of entries that is read from a longer
  input begins with what was read from the shorter one (`Run`, entry by entry); a name
  that was accepted stays the same (`Names`, by the number of pointers that may be
  followed); and so records, questions and sections, each of which begins where the
  one before ends (`TakeRecord`, `TakeQuestion`, `Dns`). Of records only the part in
  front of names in their data is stable, which is what `Key` keeps.
* That the table is the peer's: under the conditions of `TablesAgree` each literal is
  stored as it was sent (`StoredAsSent`), each block is decoded and each index known, so
  that the two tables go through the same frames and representations together
  (`TablesAlike`). An entry in front moves the sizes of all others by its
  own (`SizesBehind`), so that evicting after an insertion leaves the new entry and
  what fitted into the room it left, or nothing (`FitsBehind`).
* That what was written is read: the entries of a run are adjacent slices of the
  input (`EntriesOf`), so that written one behind the other they are the input again
  (`Cut`, `FlattenIs`, `RunIsWhole`), for each format with its lengths in front
  (`AlpnBack`, `SniBack`, `ExtensionsBack`, `FramesBack`, `QuicBack` and their like).
  An integer of several bytes is worth the same added up from the front, as the code
  does, and from the back (`AddedIsWorth`).
* That names resolve: the reader and `Meant` agree at every position, by the number
  of pointers that may still be followed and within it by the distance to the end of
  the message (`NamesAgree`, with a label in `LabelAgrees` and a pointer in
  `PointerAgrees`). What the reader has collected so far does not decide how it goes
  on (`LabelsShift`, `NameOnward`), and the empty label that a pointer to the root
  leaves is dropped (`Unrooted`).
* That the fingerprints hold: dropping values commutes with joining lists
  (`WithoutJoined`), so two neighbours that are swapped stay neighbours or one of them
  goes; and a swap leaves, for each value, as many values up to it (`SwappedCounts`, by
  a bijection of positions), which is all a sorted list depends on.

Induction over the natural numbers goes by least elements (`SetInduction` and
`LeastElement`, in several modules): a set that has 0 and with each number the next
is all of them. Each recursive function that a proof is about is shown to exist and to
have the values its definition gives it (the lemmas `...Exists` and `...Is`).

### Only model-checked

* Liveness: `WindowEnds`, `ClosedArrives`, `Ends`, `ShutsDown`, `Answered`. Fairness
  and `ENABLED` are beyond the prover. (The properties of the five violations are
  false.)
* `FilterHolds`: the parser of filters is a `RECURSIVE` operator, with which the
  prover cannot work; `Filter` and `Display` are out of its reach for the same reason.

## 5. Met while modelling

Observations that no run of its own shows. About the daemon:

* A process first seen by an inbound flow (a server that accepts a connection) is
  recorded in silence, and its first outbound connection is not new any more
  (`alert/detectors.rs:136`), where `src/README.md:36` promises "a binary's
  first-ever outbound connection".
* The inspector reads the table of live connections before it subscribes
  (`pktscope/inspect/mod.rs:95`): what is broadcast in between never reaches it,
  although no queue was full.
* Flows that are open when the daemon stops leave no row
  (`monitor/correlate.rs:82`).
* The sum of a sequence number and a length is taken in 64 bits
  (`flow/tracker.rs:93`): after the numbers pass 2^32 every segment counts as a
  retransmission.

* A flow evicted from the full cache loses its totals without a row, where
  `flow/tracker.rs:18-20` says the daemon never loses a closed connection's
  totals (`RowsAccountForFlows` exempts them by name).
* The process of a connection is overwritten by the last look-up, also when that
  found nothing (`monitor/correlate.rs:159`), so a row may lose its process.
* Alerts that were inserted are not announced when a later statement of the same
  evaluation fails (`monitor/correlate.rs:153-157`).
* A changed identity first seen on an inbound flow, or after an unreadable
  reading, becomes the baseline without an alert (`alert/detectors.rs:158-187`).
* The reply to a stop request is written after the flag that ends the process
  (`ipc/server.rs:129-130`); the client may read the end of the stream instead.
* A refresh that is answered while events from before a dropped one are queued
  shows a connection that is gone (`pktscope/inspect/mod.rs:223`).
* A buffered segment that another one overlaps from below is never delivered, and
  the stream stalls behind it (`flow/reassembly.rs:88`), although
  `flow/reassembly.rs:21-22` speaks of overlapping segments; `NothingWaits` is
  stated for the streams without.

About attribution:

* After every interval the lookup that comes first decides whether the cache is
  good for TCP or for UDP (`process/linux.rs:32-46`); a host that sends datagrams
  all the time starves its TCP connections.
* `try_process_lookup` takes the source address for the local one
  (`pktscope/main.rs:366`), so an inbound packet is not attributed, and an outbound
  one may be to a local listener on the same port as the remote one.
* Sockets bound to the wildcard address, and IPv4 connections of IPv6 sockets, are
  under another address in `/proc/net` and are not found.
* The binary of a process that runs on after an update has a path that ends in
  "(deleted)", which is a new path and cannot be read.
* An identity read while its file was replaced stays under the key of the old file
  until it is evicted (`identity.rs:53-60`).

About the one-shot commands and the view:

* `--count 0` prints one packet (`pktscope/main.rs:400-405`); the terminal view
  ignores `--count` and `--duration`, and JSON output ignores `-w`.
* An error of the capture is dropped and the exit status is 0: a damaged file reads
  as a short one, also when two are compared. Packets in the channels are lost on
  quitting.
* The drain takes packets until the channel is empty (`pktscope/tui/mod.rs:472`): a
  source that is fast enough keeps keys waiting.
* Evictions from a filtered list leave the selection where it was, possibly behind
  its end, where the list shows nothing (`pktscope/tui/mod.rs:497-507`).
* A character of several bytes in the filter input panics at the next key or frame
  (`pktscope/tui/mod.rs:436`, `pktscope/tui/filter_bar.rs:11`).

About decoding:

* IPv6 addresses cannot be written in a filter: the words are read as strings
  (`filter/parser.rs`). `tcp.port != x` is true when either port differs.
* Padding of short Ethernet frames counts as payload, since the lengths in the IP
  headers are not used.
* A Huffman coded literal enters the dynamic table of HPACK as a placeholder of
  another length, so later indices may mean other headers.
* A literal that is not UTF-8 is stored and counted as a longer text
  (`decode/http2.rs:154,199`), and may evict an entry that the peer keeps, where
  `decode/http2.rs:4-6` has "indexed and non-Huffman literals decode fully". (In the
  model, `IndexesDecode` fails under `AllRead` too.)
* The signature algorithms enter JA4 as they are (`decode/ja.rs:100-107`), so that a
  GREASE value among them changes it, where `decode/ja.rs:2` has "GREASE values (RFC
  8701) are excluded".
* An index that the table does not have is skipped, but a literal with such a name
  ends its block (`decode/http2.rs:97,135`): what stands behind it is lost.
* Fragments of an IP packet behind the first are decoded as transport headers
  (`decode/ipv4.rs:32-44`).
* The name in a record's data may run past the record (`decode/dns.rs:126-145`).

## 6. Not modelled

* The writers, the command line, the configuration and the drawing of the terminal
  turn values into text and keep no state that others read.
* The DNS transaction tracker is used by its own tests only. The name resolver is a
  bounded map whose answers are displayed and decide nothing.
* GeoIP, desktop notifications and the platform APIs are outside; the models take
  any answer of theirs.
* SQLite is taken at its word: a statement commits or has no effect. Migrations
  run before any thread starts.
* Timestamps of packets that go backwards.
* Round-trip times of the tracker, and the arithmetic of the volume average: they
  decide a number that is shown, and whether an interval is a spike, which
  `AlertEngine` leaves open.
* The text forms inside messages: cipher names, the text behind a Huffman code,
  digests. `content_hash` (`diff/mod.rs:19-23`) is the identity: contents that
  collide are not told apart by the code, and are by `Pipeline`.
* IP fragments.

## 7. The plan

Modelled and checked: the daemon (`AlertEngine`, `FlowTracker`, `FlowWorker`,
`EventStream`, `Daemon`), the one-shot commands (`Pipeline`, `CaptureView`,
`Reassembly`, `Segments`), attribution (`Attribution`) and decoding (`Decode`,
`Filter`, `Display`, `Parsers`). Proved: every safety property but `FilterHolds`.
What is left to prove is that one, with the parser of filters as a recursive function
over the number of tokens.

To model later: a worker restarted on its history, attributed processes in the rows,
the alert feed of the inspector.
