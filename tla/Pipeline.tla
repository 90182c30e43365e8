------------------------------ MODULE Pipeline ------------------------------
(***************************************************************************)
(* The commands that take packets from a device or a file to a screen, a   *)
(* JSON stream or a comparison: main.rs, capture/{mod,live,file}.rs, the   *)
(* loop of tui/mod.rs as far as the channel is concerned, diff/mod.rs.     *)
(*                                                                         *)
(* Up to three threads, joined by bounded channels: capture reads packets  *)
(* into raw, decode takes them from raw into decoded, and main takes them  *)
(* from decoded (or, to compare files, from raw).  A channel ends when     *)
(* either side is dropped: what is queued can still be received, and a     *)
(* send fails, also one that waits for room.                               *)
(***************************************************************************)
EXTENDS Naturals, Sequences, SequencesExt, FiniteSets, FiniteSetsExt

CONSTANTS
  Inputs,  \* bound: the traffic or files tried, as sequences of contents
  Counts,  \* the values of --count tried, and None
  Channel, \* the capacity of a channel (10_000)
  None     \* an absent value

ASSUME ChannelAssumption == Channel \in Nat \ {0}
ASSUME InputsAssumption == \A f \in Inputs : f \in Seq(ToSet(f))
ASSUME CountsAssumption == Counts \subseteq Nat \cup {None} /\ None \notin Nat

VARIABLES
  cmd,     \* the command: its mode, view, count and whether it is timed
  files,   \* what there is to capture or read, one or two of it
  file,    \* which of them is open
  next,    \* how many packets were read from it
  cap,     \* the capture thread
  raw,     \* channel from capture to decode, or to main
  dec,     \* the decode thread
  decoded, \* channel from decode to main
  main,    \* the main thread
  got,     \* per file, what main has received and shown
  stop,    \* the stop flag
  expired, \* the duration has passed
  broken   \* the input or the output has failed

vars == <<cmd, files, file, next, cap, raw, dec, decoded, main, got, stop, expired, broken>>

Commands ==
  [mode : {"capture"}, view : {"json"}, count : Counts, timed : BOOLEAN]
    \cup [mode : {"capture", "read"}, view : {"tui"}, count : {None}, timed : {FALSE}]
    \cup [mode : {"read", "diff"}, view : {"json"}, count : {None}, timed : {FALSE}]

\* A thread: where it is, and the packet in its hands.
At(pc)       == [pc |-> pc, held |-> None]
With(pc, p)  == [pc |-> pc, held |-> p]

Init ==
  /\ cmd \in Commands
  /\ files \in IF cmd.mode = "diff" THEN Inputs \X Inputs ELSE {<<f>> : f \in Inputs}
  /\ file = 1 /\ next = 0
  /\ cap = At("check") /\ raw = << >>
  /\ dec = At(IF cmd.mode = "diff" THEN "none" ELSE "check") /\ decoded = << >>
  /\ main = IF cmd.mode = "diff" THEN "recv" ELSE "check"
  /\ got = [f \in DOMAIN files |-> << >>]
  /\ stop = FALSE /\ expired = FALSE /\ broken = FALSE

\* Who holds the ends of the channels.
CaptureEnded  == cap.pc = "ended"
DecodeEnded   == dec.pc = "ended"
Outputs       == main \in {"check", "recv", "stop", "stopped"}
RawReceived   == IF cmd.mode = "diff" THEN main = "recv" ELSE ~DecodeEnded
Running       == main # "exited"

-----------------------------------------------------------------------------
\* capture_loop.
CheckStop ==
  /\ cap.pc = "check"
  /\ cap' = At(IF stop THEN "ended" ELSE "next")
  /\ UNCHANGED <<cmd, files, file, next, raw, dec, decoded, main, got, stop, expired, broken>>

NextPacket ==
  /\ cap.pc = "next"
  /\ next < Len(files[file])
  /\ cap' = With("send", [number |-> next, data |-> files[file][next + 1]])
  /\ next' = next + 1
  /\ UNCHANGED <<cmd, files, file, raw, dec, decoded, main, got, stop, expired, broken>>

\* A device without traffic, or the end of a file.
NoPacket ==
  /\ cap.pc = "next"
  /\ \/ cmd.mode = "capture" /\ cap' = At("check")
     \/ cmd.mode # "capture" /\ next = Len(files[file]) /\ cap' = At("ended")
  /\ UNCHANGED <<cmd, files, file, next, raw, dec, decoded, main, got, stop, expired, broken>>

\* The error of a device or of a damaged file, which nobody is told of.
CaptureFails ==
  /\ cap.pc = "next"
  /\ ~broken
  /\ cap' = At("ended")
  /\ broken' = TRUE
  /\ UNCHANGED <<cmd, files, file, next, raw, dec, decoded, main, got, stop, expired>>

SendRaw_Drops ==
  /\ cap.pc = "send"
  /\ cap' = At("check")
  /\ raw' = IF Len(raw) < Channel THEN Append(raw, cap.held) ELSE raw
  /\ UNCHANGED <<cmd, files, file, next, dec, decoded, main, got, stop, expired, broken>>
SendRaw ==
  /\ cap.pc = "send"
  /\ \/ ~RawReceived /\ cap' = At("ended") /\ UNCHANGED raw
     \/ RawReceived /\ Len(raw) < Channel
          /\ cap' = At("check") /\ raw' = Append(raw, cap.held)
  /\ UNCHANGED <<cmd, files, file, next, dec, decoded, main, got, stop, expired, broken>>

Capture == Running /\ (CheckStop \/ NextPacket \/ NoPacket \/ SendRaw)

-----------------------------------------------------------------------------
\* decode_thread.
DecodeCheck ==
  /\ dec.pc = "check"
  /\ dec' = At(IF stop THEN "ended" ELSE "recv")
  /\ UNCHANGED <<cmd, files, file, next, cap, raw, decoded, main, got, stop, expired, broken>>

DecodeRecv_Gone ==
  /\ dec.pc = "recv"
  /\ \/ CaptureEnded /\ dec' = At("ended") /\ UNCHANGED raw
     \/ raw # << >> /\ ~CaptureEnded /\ dec' = With("send", Head(raw)) /\ raw' = Tail(raw)
     \/ raw = << >> /\ ~CaptureEnded /\ dec' = At("check") /\ UNCHANGED raw
  /\ UNCHANGED <<cmd, files, file, next, cap, decoded, main, got, stop, expired, broken>>
DecodeRecv ==
  /\ dec.pc = "recv"
  /\ \/ raw # << >> /\ dec' = With("send", Head(raw)) /\ raw' = Tail(raw)
     \/ raw = << >> /\ dec' = At(IF CaptureEnded THEN "ended" ELSE "check") /\ UNCHANGED raw
  /\ UNCHANGED <<cmd, files, file, next, cap, decoded, main, got, stop, expired, broken>>

DecodeSend ==
  /\ dec.pc = "send"
  /\ \/ ~Outputs /\ dec' = At("ended") /\ UNCHANGED decoded
     \/ Outputs /\ Len(decoded) < Channel
          /\ dec' = At("check") /\ decoded' = Append(decoded, dec.held)
  /\ UNCHANGED <<cmd, files, file, next, cap, raw, main, got, stop, expired, broken>>

Decode == Running /\ (DecodeCheck \/ DecodeRecv \/ DecodeSend)

-----------------------------------------------------------------------------
\* json_output_loop: the duration is looked at between two packets, the count
\* behind each.
Took(p)       == got' = [got EXCEPT ![file] = Append(@, p)]
CountReached  == cmd.count # None /\ Len(got'[1]) >= cmd.count

OutputCheck ==
  /\ cmd.view = "json" /\ main = "check"
  /\ main' = IF cmd.timed /\ expired THEN "stop" ELSE "recv"
  /\ UNCHANGED <<cmd, files, file, next, cap, raw, dec, decoded, got, stop, expired, broken>>

OutputRecv ==
  /\ cmd.mode # "diff" /\ cmd.view = "json" /\ main = "recv"
  /\ \/ /\ decoded # << >>
        /\ Took(Head(decoded)) /\ decoded' = Tail(decoded)
        /\ main' = IF CountReached THEN "stop" ELSE "check"
     \/ /\ decoded = << >>
        /\ main' = IF DecodeEnded THEN "stop" ELSE "check"
        /\ UNCHANGED <<got, decoded>>
  /\ UNCHANGED <<cmd, files, file, next, cap, raw, dec, stop, expired, broken>>

\* An error of the output leaves main at once, and the process with it.
OutputFails ==
  /\ cmd.mode # "diff" /\ main \in {"check", "recv"}
  /\ decoded # << >> \/ cmd.view = "tui"
  /\ ~broken
  /\ broken' = TRUE
  /\ main' = "exited"
  /\ UNCHANGED <<cmd, files, file, next, cap, raw, dec, decoded, got, stop, expired>>

\* The terminal: a frame takes what is queued, unless it is paused, until
\* someone quits; neither the count nor the end of the packets ends it.
TuiDrain ==
  /\ cmd.view = "tui" /\ main = "check"
  /\ decoded # << >>
  /\ Took(Head(decoded)) /\ decoded' = Tail(decoded)
  /\ UNCHANGED <<cmd, files, file, next, cap, raw, dec, main, stop, expired, broken>>

TuiQuit ==
  /\ cmd.view = "tui" /\ main = "check"
  /\ main' = "quit"
  /\ UNCHANGED <<cmd, files, file, next, cap, raw, dec, decoded, got, stop, expired, broken>>

\* The stop flag, before the receiver of a JSON stream is dropped and behind
\* the one of the terminal; then the threads are joined.
SetStop ==
  /\ main \in {"stop", "quit"}
  /\ stop' = TRUE
  /\ main' = IF main = "stop" THEN "stopped" ELSE "join"
  /\ UNCHANGED <<cmd, files, file, next, cap, raw, dec, decoded, got, expired, broken>>

DropReceiver_AtExit ==
  /\ main = "stopped"
  /\ CaptureEnded /\ DecodeEnded
  /\ main' = "exited"
  /\ UNCHANGED <<cmd, files, file, next, cap, raw, dec, decoded, got, stop, expired, broken>>
DropReceiver ==
  /\ main = "stopped"
  /\ main' = "join"
  /\ decoded' = << >>
  /\ UNCHANGED <<cmd, files, file, next, cap, raw, dec, got, stop, expired, broken>>

Join ==
  /\ cmd.mode # "diff" /\ main = "join"
  /\ CaptureEnded /\ DecodeEnded
  /\ main' = "exited"
  /\ UNCHANGED <<cmd, files, file, next, cap, raw, dec, decoded, got, stop, expired, broken>>

\* read_pcap, for each of two files.
ReadRecv ==
  /\ cmd.mode = "diff" /\ main = "recv"
  /\ \/ /\ raw # << >>
        /\ Took(Head(raw)) /\ raw' = Tail(raw) /\ UNCHANGED main
     \/ /\ raw = << >> /\ CaptureEnded
        /\ main' = "join" /\ UNCHANGED <<got, raw>>
  /\ UNCHANGED <<cmd, files, file, next, cap, dec, decoded, stop, expired, broken>>

ReadNext ==
  /\ cmd.mode = "diff" /\ main = "join"
  /\ IF file = 1
     THEN file' = 2 /\ next' = 0 /\ cap' = At("check") /\ main' = "recv"
     ELSE main' = "exited" /\ UNCHANGED <<file, next, cap>>
  /\ UNCHANGED <<cmd, files, raw, dec, decoded, got, stop, expired, broken>>

Main ==
  OutputCheck \/ OutputRecv \/ SetStop \/ DropReceiver \/ Join \/ ReadRecv \/ ReadNext

Expire ==
  /\ cmd.timed /\ ~expired
  /\ expired' = TRUE
  /\ UNCHANGED <<cmd, files, file, next, cap, raw, dec, decoded, main, got, stop, broken>>

Next ==
  \/ Capture \/ (Running /\ CaptureFails)
  \/ Decode
  \/ Main \/ OutputFails \/ TuiDrain \/ TuiQuit
  \/ Expire

Spec == Init /\ [][Next]_vars

\* Threads are scheduled and time passes; nobody has to press a key, and a
\* device has no traffic to promise.
FairSpec == Spec /\ WF_vars(Capture) /\ WF_vars(Decode) /\ WF_vars(Main) /\ WF_vars(Expire)

-----------------------------------------------------------------------------
\* diff_by_content: what of one list finds no partner in the other.
Matched_Repeatedly(left, p) == left
Matched(left, p) == [left EXCEPT ![p.data] = @ - 1]
Contents == UNION {ToSet(f) : f \in Inputs}
CountsOf(ps) == [c \in Contents |-> Cardinality({i \in DOMAIN ps : ps[i].data = c})]
Unmatched(bs) == [left |-> CountsOf(bs), only |-> << >>, common |-> 0]
Compare(as, acc, i) ==
  IF acc.left[as[i].data] > 0
  THEN [acc EXCEPT !.left = Matched(@, as[i]), !.common = @ + 1]
  ELSE [acc EXCEPT !.only = Append(@, i)]
Without(as, bs) ==
  LET after[i \in 0 .. Len(as)] ==
        IF i = 0 THEN Unmatched(bs) ELSE Compare(as, after[i - 1], i)
  IN  after[Len(as)]
DiffByContent(as, bs) ==
  [onlyA |-> Without(as, bs).only, onlyB |-> Without(bs, as).only,
   common |-> Without(as, bs).common]

-----------------------------------------------------------------------------
Packets == [number : Nat, data : Contents]

\* The states of the threads, and the bound of the channels, which holds back
\* capture when the reader is slow (bounded, main.rs:50-51).
TypeOK ==
  /\ cmd \in Commands
  /\ file \in DOMAIN files /\ next \in 0..Len(files[file])
  /\ cap.pc \in {"check", "next", "send", "ended"}
  /\ dec.pc \in {"none", "check", "recv", "send", "ended"}
  /\ main \in {"check", "recv", "stop", "stopped", "quit", "join", "exited"}
  /\ \A t \in {cap, dec} : IF t.pc = "send" THEN t.held \in Packets ELSE t.held = None
  /\ raw \in Seq(Packets) /\ Len(raw) <= Channel
  /\ decoded \in Seq(Packets) /\ Len(decoded) <= Channel
  /\ \A f \in DOMAIN files : got[f] \in Seq(Packets)
  /\ stop \in BOOLEAN /\ expired \in BOOLEAN /\ broken \in BOOLEAN

\* The packets of a file as they are numbered.
Numbered(f) == [i \in DOMAIN f |-> [number |-> i - 1, data |-> f[i]]]
Held(t) == IF t.pc = "send" THEN <<t.held>> ELSE << >>

\* No packet is lost, doubled or overtaken on its way: from the one shown first
\* to the one read last, through both channels and both threads' hands, they are
\* those of the input in their order, until someone lets go of a channel
\* (capture_loop, capture/mod.rs:45-84; decode_thread, main.rs:318-343).
Conserved ==
  ~stop /\ (cmd.mode = "diff" \/ Outputs) =>
    got[file] \o decoded \o Held(dec) \o raw \o Held(cap)
      = SubSeq(Numbered(files[file]), 1, next)

\* Nothing is lost although no channel holds more than its capacity
\* (bounded, main.rs:51-52, 92-93, 126).
PipelineOK == TypeOK /\ Conserved

\* What a reader sees is what OrderedOutput promises: every packet in order, up
\* to the count, and all of them unless the command ends early for a reason the
\* reader gave or for a failure (json_output_loop, main.rs:381-414).
Shown == cmd.mode # "diff"
Over  == Shown /\ main \in {"stopped", "quit", "join", "exited"}
Excused ==
  \/ broken \/ (cmd.timed /\ expired) \/ (cmd.view = "tui" /\ main # "check")
  \/ cmd.count # None /\ Len(got[1]) >= cmd.count
Contract == INSTANCE OrderedOutput WITH
  input   <- Numbered(files[1]),
  limit   <- IF cmd.count = None THEN Len(files[1]) ELSE Max({cmd.count, 1}),
  output  <- IF Shown THEN got[1] ELSE << >>,
  over    <- Over,
  excused <- Excused
ShowsInOrder == Contract!Spec

\* A file that is read or compared comes to its end, a timed capture ends when
\* its time is over, and whatever has begun to end does: no thread waits for
\* one that waits for it (main.rs:58-83, 106-113).
Ends ==
  (cmd.timed \/ (cmd.mode # "capture" /\ cmd.view = "json")
     \/ main \in {"stop", "stopped", "quit", "join"})
    ~> main = "exited"

\* The comparison is one of multisets: a content that both files have several
\* times is common as often as it is in the file that has less of it, and both
\* were read to their ends unless one is damaged, which nobody is told (diff_by_content, diff/mod.rs:26-66).
DiffIsExact ==
  cmd.mode = "diff" /\ main = "exited" =>
    LET d     == DiffByContent(got[1], got[2])
        n(ps, c) == CountsOf(ps)[c]
        Of(ps, is) == [i \in DOMAIN is |-> ps[is[i]]]
    IN /\ \A c \in Contents :
            /\ n(got[1], c) - Min({n(got[1], c), n(got[2], c)}) = n(Of(got[1], d.onlyA), c)
            /\ n(got[2], c) - Min({n(got[1], c), n(got[2], c)}) = n(Of(got[2], d.onlyB), c)
       /\ broken \/ \A f \in {1, 2} : got[f] = Numbered(files[f])
       /\ d.common + Len(d.onlyA) = Len(got[1])
       /\ d.common + Len(d.onlyB) = Len(got[2])
=============================================================================
