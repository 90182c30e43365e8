--------------------------- MODULE Pipeline_proofs ---------------------------
(***************************************************************************)
(* Proofs about Pipeline, for every set of inputs and counts and every     *)
(* capacity of the channels.                                               *)
(***************************************************************************)
EXTENDS Pipeline, SequenceTheorems, FiniteSetTheorems, WellFoundedInduction, TLAPS

\* The element handed from one sequence to the next stays where it was in the
\* two of them together.
LEMMA HandedOn ==
  ASSUME NEW S, NEW s \in Seq(S), NEW t \in Seq(S), t # << >>
  PROVE  /\ Append(s, Head(t)) \o Tail(t) = s \o t
         /\ <<Head(t)>> \o Tail(t) = t
<1>1. Head(t) \in S /\ Tail(t) \in Seq(S) /\ <<Head(t)>> \in Seq(S)
  BY HeadTailProperties
<1>2. <<Head(t)>> \o Tail(t) = t
  BY <1>1
<1>3. Append(s, Head(t)) = s \o <<Head(t)>>
  BY <1>1, AppendIsConcat
<1> QED BY <1>1, <1>2, <1>3, ConcatAssociative

LEMMA TakenOver ==
  ASSUME NEW S, NEW s \in Seq(S), NEW t \in Seq(S), NEW e \in S
  PROVE  s \o Append(t, e) = (s \o t) \o <<e>>
<1>1. <<e>> \in Seq(S) /\ Append(t, e) = t \o <<e>>
  BY AppendIsConcat
<1> QED BY <1>1, ConcatAssociative
-----------------------------------------------------------------------------
(***************************************************************************)
(* The inductive invariant: which positions of the threads go together.    *)
(* Conserved alone is not inductive: that a sender meets a dropped channel *)
(* only when its packets are no longer wanted is what the ends know of one *)
(* another.                                                                *)
(***************************************************************************)
Sources ==
  /\ files \in IF cmd.mode = "diff" THEN Inputs \X Inputs ELSE {<<f>> : f \in Inputs}
  /\ DOMAIN got = DOMAIN files

\* read_pcap's one channel, and the two of every other command.
Roles ==
  /\ cmd.mode = "diff" =>
       /\ ~stop /\ dec = At("none") /\ decoded = << >> /\ main \in {"recv", "join", "exited"}
       /\ main # "recv" => CaptureEnded /\ raw = << >>
       /\ file = 1 => got[2] = << >>
  /\ cmd.mode # "diff" => file = 1 /\ dec.pc # "none"
  /\ cmd.view = "tui" => main \in {"check", "quit", "join", "exited"}
  /\ cmd.view = "json" => main # "quit"
  /\ main \in {"check", "recv", "stop", "quit"} => ~stop

\* Why a thread has ended.
EndsOnlyWhen ==
  /\ DecodeEnded => stop \/ ~Outputs \/ (CaptureEnded /\ raw = << >>)
  /\ CaptureEnded => \/ stop \/ broken \/ (cmd.mode # "diff" /\ ~Outputs)
                     \/ next = Len(files[file])

Limit == IF cmd.count = None THEN Len(files[1]) ELSE Max({cmd.count, 1})

\* How far the output is, and why it stops.
Progress ==
  Shown =>
    /\ main \in {"check", "recv"} /\ cmd.count # None => Len(got[1]) < Limit
    /\ main = "stop" => Excused \/ Len(got[1]) = Len(files[1])

PInv == TypeOK /\ Sources /\ Roles /\ EndsOnlyWhen /\ Conserved /\ Progress
-----------------------------------------------------------------------------
\* --count 0 shows one packet all the same.
LEMMA MaxOfTwo ==
  ASSUME NEW n \in Nat
  PROVE  /\ Max({n, 1}) \in Nat
         /\ Max({n, 1}) >= n /\ Max({n, 1}) > 0
         /\ \A k \in Nat : k + 1 >= n \/ k + 1 < Max({n, 1})
         /\ \A k \in Nat : k >= n /\ k > 0 => k >= Max({n, 1})
<1>1. \E x \in {n, 1} : \A y \in {n, 1} : x >= y
  BY n >= 1 \/ 1 >= n
<1>2. Max({n, 1}) \in {n, 1} /\ \A y \in {n, 1} : Max({n, 1}) >= y
  BY <1>1 DEF Max
<1> QED BY <1>2

\* What an input is, and its packets.
LEMMA InputType ==
  ASSUME NEW f \in Inputs
  PROVE  /\ f \in Seq(Contents)
         /\ DOMAIN f = 1 .. Len(f) /\ Len(f) \in Nat
         /\ Numbered(f) \in Seq(Packets)
         /\ Len(Numbered(f)) = Len(f)
         /\ \A i \in 1 .. Len(f) : Numbered(f)[i] = [number |-> i - 1, data |-> f[i]]
<1>1. ToSet(f) \subseteq Contents
  BY DEF Contents
<1>2. f \in Seq(Contents)
  BY <1>1, InputsAssumption, SeqMonotonic
<1>3. DOMAIN f = 1 .. Len(f) /\ Len(f) \in Nat
  BY <1>2
<1>4. \A i \in 1 .. Len(f) : [number |-> i - 1, data |-> f[i]] \in Packets
  BY <1>2, <1>3 DEF Packets
<1>5. Numbered(f) \in [1 .. Len(f) -> Packets]
  BY <1>3, <1>4 DEF Numbered
<1>6. Numbered(f) \in Seq(Packets)
  BY <1>3, <1>5, SeqDef
<1>7. Len(Numbered(f)) = Len(f)
  BY <1>3, <1>5, <1>6, LenProperties
<1> QED BY <1>2, <1>3, <1>6, <1>7 DEF Numbered

LEMMA FileType ==
  ASSUME Sources, cmd \in Commands
  PROVE  /\ files[1] \in Inputs /\ 1 \in DOMAIN files
         /\ \A f \in DOMAIN files : files[f] \in Inputs
         /\ cmd.mode = "diff" => DOMAIN files = {1, 2}
         /\ cmd.mode # "diff" => DOMAIN files = {1}
<1>1. CASE cmd.mode = "diff"
  <2>1. files \in Inputs \X Inputs
    BY <1>1 DEF Sources
  <2> QED BY <1>1, <2>1
<1>2. CASE cmd.mode # "diff"
  <2>1. PICK f \in Inputs : files = <<f>>
    BY <1>2 DEF Sources
  <2>2. DOMAIN files = {1} /\ files[1] = f
    BY <2>1
  <2> QED BY <1>2, <2>2
<1> QED BY <1>1, <1>2

\* The next packet of the open file.
LEMMA NextType ==
  ASSUME Sources, TypeOK, next < Len(files[file])
  PROVE  /\ next + 1 \in 0 .. Len(files[file])
         /\ [number |-> next, data |-> files[file][next + 1]] \in Packets
         /\ SubSeq(Numbered(files[file]), 1, next + 1)
              = SubSeq(Numbered(files[file]), 1, next)
                  \o <<[number |-> next, data |-> files[file][next + 1]]>>
<1>1. files[file] \in Inputs /\ next \in Nat
  BY FileType DEF TypeOK
<1> DEFINE s == Numbered(files[file])
<1>2. s \in Seq(Packets) /\ next + 1 \in 1 .. Len(s) /\ Len(s) = Len(files[file])
  BY <1>1, InputType
<1>3. s[next + 1] = [number |-> next, data |-> files[file][next + 1]] /\ s[next + 1] \in Packets
  BY <1>1, <1>2, InputType
<1>4. SubSeq(s, 1, next + 1) = SubSeq(s, 1, next) \o <<s[next + 1]>>
  <2> DEFINE n == next + 1
  <2>1. n \in 1 .. Len(s) /\ 1 \in 1 .. Len(s) /\ n - 1 = next /\ next + 1 = n
    BY <1>1, <1>2
  <2> HIDE DEF s, n
  <2>2. SubSeq(s, 1, n) = SubSeq(s, 1, n - 1) \o <<s[n]>>
    BY <1>2, <2>1, SubSeqRecursiveSecond
  <2> QED BY <2>1, <2>2
<1> QED BY <1>1, <1>2, <1>3, <1>4

LEMMA PInit == Init => PInv
<1> SUFFICES ASSUME Init PROVE PInv
  OBVIOUS
<1>1. Sources
  BY DEF Init, Sources
<1>2. cmd \in Commands
  BY DEF Init
<1>3. 1 \in DOMAIN files /\ \A f \in DOMAIN files : files[f] \in Inputs
  BY <1>1, <1>2, FileType
<1>4. Len(files[1]) \in Nat /\ Numbered(files[1]) \in Seq(Packets)
  BY <1>3, InputType
<1>5. TypeOK
  <2>1. /\ cap.pc = "check" /\ cap.held = None
        /\ dec.pc \in {"none", "check"} /\ dec.held = None
    BY DEF Init, At
  <2>2. \A f \in DOMAIN files : got[f] \in Seq(Packets)
    BY DEF Init
  <2>3. raw \in Seq(Packets) /\ Len(raw) = 0 /\ decoded \in Seq(Packets) /\ Len(decoded) = 0
    BY EmptySeq DEF Init
  <2>4. file \in DOMAIN files /\ next \in 0 .. Len(files[file])
    BY <1>3, <1>4 DEF Init
  <2>5. stop \in BOOLEAN /\ expired \in BOOLEAN /\ broken \in BOOLEAN
    BY DEF Init
  <2>6. main \in {"check", "recv"}
    BY DEF Init
  <2> QED BY <1>2, <2>1, <2>2, <2>3, <2>4, <2>5, <2>6, ChannelAssumption DEF TypeOK
<1>6. Roles /\ EndsOnlyWhen
  BY <1>1, <1>2, FileType DEF Init, Roles, EndsOnlyWhen, At, CaptureEnded, DecodeEnded, Commands
<1>7. Conserved
  <2>1. SubSeq(Numbered(files[1]), 1, 0) = << >>
    BY SubSeqEmpty
  <2> QED BY <1>3, <2>1 DEF Init, Conserved, Held, At
<1>8. Progress
  <2>1. cmd.count # None => Max({cmd.count, 1}) > 0
    <3>1. ASSUME cmd.count # None PROVE cmd.count \in Nat
      BY <1>2, <3>1, CountsAssumption DEF Commands
    <3> QED BY <3>1, MaxOfTwo
  <2> QED BY <1>3, <2>1 DEF Init, Progress, Limit
<1> QED BY <1>1, <1>5, <1>6, <1>7, <1>8 DEF PInv
-----------------------------------------------------------------------------
LEMMA SourcesNext == TypeOK /\ Sources /\ [Next]_vars => Sources' /\ cmd' = cmd /\ files' = files
<1> SUFFICES ASSUME TypeOK, Sources, [Next]_vars
             PROVE  Sources' /\ cmd' = cmd /\ files' = files
  OBVIOUS
<1>1. cmd' = cmd /\ files' = files /\ DOMAIN got' = DOMAIN got
  BY DEF Next, Capture, CheckStop, NextPacket, NoPacket, CaptureFails, SendRaw, Decode,
     DecodeCheck, DecodeRecv, DecodeSend, Main, OutputCheck, OutputRecv, SetStop,
     DropReceiver, Join, ReadRecv, ReadNext, OutputFails, TuiDrain, TuiQuit, Expire,
     Took, vars
<1> QED BY <1>1 DEF Sources

\* The threads and the channels keep their types, and a channel its bound.
LEMMA TypeNext == PInv /\ [Next]_vars => TypeOK'
<1> SUFFICES ASSUME PInv, [Next]_vars PROVE TypeOK'
  OBVIOUS
<1>0. TypeOK /\ Sources
  BY DEF PInv
<1>a. cmd' = cmd /\ files' = files /\ \A f \in DOMAIN files : files[f] \in Inputs /\ Len(files[f]) \in Nat
  BY <1>0, SourcesNext, FileType, InputType DEF TypeOK
<1> USE DEF TypeOK, At, With
<1>1. CASE CheckStop \/ NoPacket \/ CaptureFails
  <2>1. cap'.pc \in {"check", "next", "ended"} /\ cap'.held = None
    BY <1>1 DEF CheckStop, NoPacket, CaptureFails
  <2>2. UNCHANGED <<cmd, files, file, next, raw, dec, decoded, main, got, stop, expired>>
    BY <1>1 DEF CheckStop, NoPacket, CaptureFails
  <2>3. broken' \in BOOLEAN
    BY <1>0, <1>1 DEF CheckStop, NoPacket, CaptureFails
  <2> QED BY <1>0, <2>1, <2>2, <2>3
<1>2. CASE NextPacket
  BY <1>0, <1>2, NextType DEF NextPacket
<1>3. CASE SendRaw
  <2>1. CASE cap' = At("ended") /\ UNCHANGED raw
    BY <1>0, <1>3, <2>1 DEF SendRaw
  <2>2. CASE Len(raw) < Channel /\ cap' = At("check") /\ raw' = Append(raw, cap.held)
    <3>1. raw' \in Seq(Packets) /\ Len(raw') = Len(raw) + 1
      BY <1>0, <1>3, <2>2, AppendProperties DEF SendRaw
    <3>2. Len(raw') <= Channel
      BY <1>0, <2>2, <3>1, ChannelAssumption
    <3> QED BY <1>0, <1>3, <2>2, <3>1, <3>2 DEF SendRaw
  <2> QED BY <1>3, <2>1, <2>2 DEF SendRaw
<1>4. CASE DecodeCheck
  BY <1>0, <1>4 DEF DecodeCheck
<1>5. CASE DecodeRecv
  <2>1. CASE raw # << >> /\ dec' = With("send", Head(raw)) /\ raw' = Tail(raw)
    <3>1. Head(raw) \in Packets /\ raw' \in Seq(Packets) /\ Len(raw') = Len(raw) - 1
      BY <1>0, <2>1, HeadTailProperties
    <3>2. Len(raw') <= Channel
      BY <1>0, <3>1, ChannelAssumption
    <3>3. dec'.pc = "send" /\ dec'.held = Head(raw)
      BY <2>1
    <3> QED BY <1>0, <1>5, <3>1, <3>2, <3>3 DEF DecodeRecv
  <2>2. CASE raw = << >> /\ dec' = At(IF CaptureEnded THEN "ended" ELSE "check") /\ UNCHANGED raw
    BY <1>0, <1>5, <2>2 DEF DecodeRecv
  <2> QED BY <1>5, <2>1, <2>2 DEF DecodeRecv
<1>6. CASE DecodeSend
  <2>1. CASE dec' = At("ended") /\ UNCHANGED decoded
    BY <1>0, <1>6, <2>1 DEF DecodeSend
  <2>2. CASE Len(decoded) < Channel /\ dec' = At("check") /\ decoded' = Append(decoded, dec.held)
    <3>1. decoded' \in Seq(Packets) /\ Len(decoded') = Len(decoded) + 1
      BY <1>0, <1>6, <2>2, AppendProperties DEF DecodeSend
    <3>2. Len(decoded') <= Channel
      BY <1>0, <2>2, <3>1, ChannelAssumption
    <3> QED BY <1>0, <1>6, <2>2, <3>1, <3>2 DEF DecodeSend
  <2> QED BY <1>6, <2>1, <2>2 DEF DecodeSend
<1>7. CASE OutputCheck \/ OutputFails \/ TuiQuit \/ SetStop \/ DropReceiver \/ Join \/ Expire
  <2>1. UNCHANGED <<cmd, files, file, next, cap, raw, dec, got>>
    BY <1>7 DEF OutputCheck, OutputFails, TuiQuit, SetStop, DropReceiver, Join, Expire
  <2>2. main' \in {"check", "recv", "stop", "stopped", "quit", "join", "exited"}
    <3>1. main \in {"check", "recv", "stop", "stopped", "quit", "join", "exited"}
      BY <1>0
    <3>2. main' = main \/ main' \in {"stop", "recv", "exited", "quit", "stopped", "join"}
      BY <1>7 DEF OutputCheck, OutputFails, TuiQuit, SetStop, DropReceiver, Join, Expire
    <3> QED BY <3>1, <3>2
  <2>3. stop' \in BOOLEAN /\ expired' \in BOOLEAN /\ broken' \in BOOLEAN
    <3>1. stop \in BOOLEAN /\ expired \in BOOLEAN /\ broken \in BOOLEAN
      BY <1>0
    <3>2. stop' \in BOOLEAN
      BY <1>7, <3>1 DEF OutputCheck, OutputFails, TuiQuit, SetStop, DropReceiver, Join, Expire
    <3>3. expired' \in BOOLEAN
      <4>1. CASE Expire
        BY <4>1 DEF Expire
      <4>2. CASE UNCHANGED expired
        BY <3>1, <4>2
      <4> QED BY <1>7, <4>1, <4>2 DEF OutputCheck, OutputFails, TuiQuit, SetStop, DropReceiver, Join
    <3>4. broken' \in BOOLEAN
      <4>1. CASE OutputFails
        BY <4>1 DEF OutputFails
      <4>2. CASE UNCHANGED broken
        BY <3>1, <4>2
      <4> QED BY <1>7, <4>1, <4>2 DEF OutputCheck, TuiQuit, SetStop, DropReceiver, Join, Expire
    <3> QED BY <3>2, <3>3, <3>4
  <2>4. decoded' \in Seq(Packets) /\ Len(decoded') <= Channel
    <3>1. CASE decoded' = << >>
      BY <3>1, ChannelAssumption, EmptySeq
    <3>2. CASE UNCHANGED decoded
      BY <1>0, <3>2
    <3> QED BY <1>7, <3>1, <3>2
        DEF OutputCheck, OutputFails, TuiQuit, SetStop, DropReceiver, Join, Expire
  <2> QED BY <1>0, <2>1, <2>2, <2>3, <2>4
<1>8. CASE OutputRecv \/ TuiDrain
  <2>1. CASE decoded # << >> /\ Took(Head(decoded)) /\ decoded' = Tail(decoded)
    <3>1. Head(decoded) \in Packets /\ decoded' \in Seq(Packets) /\ Len(decoded') = Len(decoded) - 1
      BY <1>0, <2>1, HeadTailProperties
    <3>2. Len(decoded') <= Channel
      BY <1>0, <3>1, ChannelAssumption
    <3>3. \A f \in DOMAIN files : got'[f] \in Seq(Packets)
      BY <1>0, <2>1, <3>1, AppendProperties DEF Took, Sources
    <3>4. main' \in {"check", "stop"}
      BY <1>8, <2>1 DEF OutputRecv, TuiDrain
    <3> QED BY <1>0, <1>a, <1>8, <3>1, <3>2, <3>3, <3>4 DEF OutputRecv, TuiDrain
  <2>2. CASE UNCHANGED <<got, decoded>> /\ OutputRecv
    BY <1>0, <1>a, <2>2 DEF OutputRecv
  <2> QED BY <1>8, <2>1, <2>2 DEF OutputRecv, TuiDrain
<1>9. CASE ReadRecv
  <2>1. CASE raw # << >> /\ Took(Head(raw)) /\ raw' = Tail(raw) /\ UNCHANGED main
    <3>1. Head(raw) \in Packets /\ raw' \in Seq(Packets) /\ Len(raw') = Len(raw) - 1
      BY <1>0, <2>1, HeadTailProperties
    <3>2. Len(raw') <= Channel
      BY <1>0, <3>1, ChannelAssumption
    <3>3. \A f \in DOMAIN files : got'[f] \in Seq(Packets)
      BY <1>0, <2>1, <3>1, AppendProperties DEF Took, Sources
    <3> QED BY <1>0, <1>a, <1>9, <2>1, <3>1, <3>2, <3>3 DEF ReadRecv
  <2>2. CASE main' = "join" /\ UNCHANGED <<got, raw>>
    BY <1>0, <1>a, <1>9, <2>2 DEF ReadRecv
  <2> QED BY <1>9, <2>1, <2>2 DEF ReadRecv
<1>10. CASE ReadNext
  <2>1. cmd.mode = "diff" => DOMAIN files = {1, 2}
    BY <1>0, FileType
  <2> QED BY <1>0, <1>a, <1>10, <2>1 DEF ReadNext
<1>11. CASE UNCHANGED vars
  BY <1>0, <1>11 DEF vars
<1> QED
  BY <1>1, <1>2, <1>3, <1>4, <1>5, <1>6, <1>7, <1>8, <1>9, <1>10, <1>11
  DEF Next, Capture, Decode, Main
-----------------------------------------------------------------------------
\* Each command keeps to its threads and channels.
LEMMA RolesNext == PInv /\ [Next]_vars => Roles'
<1> SUFFICES ASSUME PInv, [Next]_vars PROVE Roles'
  OBVIOUS
<1>0. cmd \in Commands /\ Roles /\ DOMAIN got = DOMAIN files
  BY DEF PInv, TypeOK, Sources
<1>a. cmd.mode = "diff" => cmd.view = "json"
  BY <1>0 DEF Commands
<1> USE DEF Roles, At, With, CaptureEnded
<1>1. CASE CheckStop \/ NextPacket \/ NoPacket \/ CaptureFails
  BY <1>0, <1>1 DEF CheckStop, NextPacket, NoPacket, CaptureFails
<1>2. CASE SendRaw
  BY <1>0, <1>2 DEF SendRaw, RawReceived
<1>3. CASE DecodeCheck \/ DecodeRecv \/ DecodeSend
  BY <1>0, <1>3 DEF DecodeCheck, DecodeRecv, DecodeSend
<1>4. CASE OutputCheck \/ OutputFails \/ TuiQuit \/ DropReceiver \/ Join
  BY <1>0, <1>a, <1>4 DEF OutputCheck, OutputFails, TuiQuit, DropReceiver, Join
<1>5. CASE OutputRecv \/ TuiDrain
  BY <1>0, <1>a, <1>5 DEF OutputRecv, TuiDrain
<1>6. CASE SetStop
  BY <1>0, <1>a, <1>6 DEF SetStop
<1>7. CASE ReadRecv
  <2>1. 2 \in DOMAIN got
    BY <1>0, <1>7, FileType DEF ReadRecv, PInv
  <2> QED BY <1>0, <1>a, <1>7, <2>1 DEF ReadRecv, Took
<1>8. CASE ReadNext
  BY <1>0, <1>a, <1>8 DEF ReadNext
<1>9. CASE Expire \/ UNCHANGED vars
  BY <1>0, <1>9 DEF Expire, vars
<1> QED
  BY <1>1, <1>2, <1>3, <1>4, <1>5, <1>6, <1>7, <1>8, <1>9 DEF Next, Capture, Decode, Main

\* Why a thread ends: nobody gives up while the other side still needs it.
LEMMA EndsNext == PInv /\ [Next]_vars => EndsOnlyWhen'
<1> SUFFICES ASSUME PInv, [Next]_vars PROVE EndsOnlyWhen'
  OBVIOUS
<1>0. cmd \in Commands /\ Roles /\ EndsOnlyWhen
  BY DEF PInv, TypeOK
<1>a. cmd.mode = "diff" => cmd.view = "json"
  BY <1>0 DEF Commands
<1> USE DEF EndsOnlyWhen, At, With, CaptureEnded, DecodeEnded, Outputs
<1>1. CASE CheckStop \/ NextPacket \/ NoPacket
  BY <1>0, <1>1 DEF CheckStop, NextPacket, NoPacket
<1>2. CASE CaptureFails
  BY <1>0, <1>2 DEF CaptureFails
<1>3. CASE SendRaw
  BY <1>0, <1>3 DEF SendRaw, RawReceived, Roles
<1>4. CASE DecodeCheck \/ DecodeRecv
  BY <1>0, <1>4 DEF DecodeCheck, DecodeRecv
<1>5. CASE DecodeSend
  BY <1>0, <1>5 DEF DecodeSend
<1>6. CASE OutputCheck \/ TuiQuit \/ DropReceiver \/ Join
  BY <1>0, <1>a, <1>6 DEF OutputCheck, TuiQuit, DropReceiver, Join, Roles
<1>7. CASE OutputFails
  <2>1. ~Outputs' /\ cmd'.mode # "diff"
    BY <1>7 DEF OutputFails
  <2> QED BY <2>1
<1>8. CASE OutputRecv \/ TuiDrain
  BY <1>0, <1>8 DEF OutputRecv, TuiDrain
<1>9. CASE SetStop
  BY <1>0, <1>9 DEF SetStop
<1>10. CASE ReadRecv
  BY <1>0, <1>10 DEF ReadRecv, Roles
<1>11. CASE ReadNext
  BY <1>0, <1>11 DEF ReadNext, Roles
<1>12. CASE Expire \/ UNCHANGED vars
  BY <1>0, <1>12 DEF Expire, vars
<1> QED
  BY <1>1, <1>2, <1>3, <1>4, <1>5, <1>6, <1>7, <1>8, <1>9, <1>10, <1>11, <1>12
  DEF Next, Capture, Decode, Main
-----------------------------------------------------------------------------
\* The facts about sequences, for packets.
LEMMA PacketsGrouped == \A x, y, z \in Seq(Packets) : (x \o y) \o z = x \o (y \o z)
BY ConcatAssociative

LEMMA PacketSent ==
  \A x, y \in Seq(Packets) : \A p \in Packets : x \o Append(y, p) = (x \o y) \o <<p>>
BY TakenOver

LEMMA PacketTaken ==
  \A x, y \in Seq(Packets) : y # << >> => Append(x, Head(y)) \o Tail(y) = x \o y
BY HandedOn

\* No packet is lost, doubled or overtaken: each step either appends the next
\* packet of the input to what is held, or moves one across a boundary.
LEMMA HeldType ==
  ASSUME TypeOK
  PROVE  Held(cap) \in Seq(Packets) /\ Held(dec) \in Seq(Packets)
BY DEF TypeOK, Held

\* What was received before the step was wanted already.
LEMMA Wanted ==
  ASSUME PInv, [Next]_vars, ~stop', cmd'.mode = "diff" \/ Outputs'
  PROVE  /\ ~stop /\ (cmd.mode = "diff" \/ Outputs)
         /\ got[file] \o decoded \o Held(dec) \o raw \o Held(cap)
              = SubSeq(Numbered(files[file]), 1, next)
<1>1. cmd' = cmd
  BY SourcesNext DEF PInv
<1>2. ~stop
  <2>1. stop' = stop \/ stop'
    BY DEF Next, Capture, CheckStop, NextPacket, NoPacket, CaptureFails, SendRaw, Decode,
       DecodeCheck, DecodeRecv, DecodeSend, Main, OutputCheck, OutputRecv, SetStop,
       DropReceiver, Join, ReadRecv, ReadNext, OutputFails, TuiDrain, TuiQuit, Expire, vars
  <2> QED BY <2>1
<1>3. Outputs' /\ cmd.mode # "diff" => Outputs
  BY DEF Next, Capture, CheckStop, NextPacket, NoPacket, CaptureFails, SendRaw, Decode,
     DecodeCheck, DecodeRecv, DecodeSend, Main, OutputCheck, OutputRecv, SetStop,
     DropReceiver, Join, ReadRecv, ReadNext, OutputFails, TuiDrain, TuiQuit, Expire, vars,
     Outputs
<1> QED BY <1>1, <1>2, <1>3 DEF PInv, Conserved

LEMMA ConservedNext == PInv /\ [Next]_vars => Conserved'
<1> SUFFICES ASSUME PInv, [Next]_vars, ~stop', cmd'.mode = "diff" \/ Outputs'
             PROVE  (got[file] \o decoded \o Held(dec) \o raw \o Held(cap)
                       = SubSeq(Numbered(files[file]), 1, next))'
  BY DEF Conserved
<1> DEFINE g == got[file]
           h == Held(dec)
           c == Held(cap)
<1>0. /\ ~stop /\ (cmd.mode = "diff" \/ Outputs)
      /\ g \o decoded \o h \o raw \o c = SubSeq(Numbered(files[file]), 1, next)
  BY Wanted
<1>a. TypeOK /\ Sources /\ Roles /\ EndsOnlyWhen
  BY DEF PInv
<1>b. /\ g \in Seq(Packets) /\ decoded \in Seq(Packets) /\ h \in Seq(Packets)
      /\ raw \in Seq(Packets) /\ c \in Seq(Packets)
  BY <1>a, HeldType DEF TypeOK
<1>c. files' = files
  BY <1>a, SourcesNext
<1>d. g \o decoded \in Seq(Packets) /\ g \o decoded \o h \in Seq(Packets)
      /\ g \o decoded \o h \o raw \in Seq(Packets)
  BY <1>b, ConcatProperties
\* The steps that move no packet.
<1>1. CASE UNCHANGED <<file, next, raw, decoded, got>> /\ h' = h /\ c' = c
  BY <1>0, <1>1, <1>c
<1>2. CASE NextPacket
  <2> DEFINE packet == [number |-> next, data |-> files[file][next + 1]]
  <2>1. c = << >> /\ c' = <<packet>> /\ h' = h
    BY <1>2 DEF NextPacket, With, Held
  <2>2. SubSeq(Numbered(files[file]), 1, next + 1)
          = SubSeq(Numbered(files[file]), 1, next) \o <<packet>>
    BY <1>2, <1>a, NextType DEF NextPacket
  <2>3. g \o decoded \o h \o raw = SubSeq(Numbered(files[file]), 1, next)
    BY <1>0, <1>d, <2>1, ConcatEmptySeq
  <2> QED BY <1>2, <2>1, <2>2, <2>3 DEF NextPacket
<1>3. CASE SendRaw
  <2>1. RawReceived
    BY <1>0, <1>3, <1>a DEF SendRaw, RawReceived, Roles, EndsOnlyWhen, DecodeEnded, CaptureEnded
  <2>2. raw' = Append(raw, cap.held) /\ c' = << >> /\ c = <<cap.held>> /\ cap.held \in Packets
        /\ h' = h
    BY <1>3, <1>a, <2>1 DEF SendRaw, Held, At, TypeOK
  <2>3. (g \o decoded \o h) \o Append(raw, cap.held) = (g \o decoded \o h \o raw) \o <<cap.held>>
    BY <1>b, <1>d, <2>2, PacketSent, ZenonT(40)
  <2>4. raw' \in Seq(Packets)
    BY <1>b, <2>2, AppendProperties
  <2>5. g \o decoded \o h \o raw' \in Seq(Packets)
    BY <1>d, <2>4, ConcatProperties
  <2>6. (g \o decoded \o h \o raw') \o << >> = g \o decoded \o h \o raw'
    BY <2>5, ConcatEmptySeq
  <2> QED BY <1>0, <1>3, <2>2, <2>3, <2>6 DEF SendRaw
<1>4. CASE DecodeRecv
  <2>1. CASE raw # << >> /\ dec' = With("send", Head(raw)) /\ raw' = Tail(raw)
    <3>1. h = << >> /\ h' = <<Head(raw)>> /\ c' = c
      BY <1>4, <2>1 DEF DecodeRecv, Held, With
    <3>2. Head(raw) \in Packets /\ Tail(raw) \in Seq(Packets) /\ <<Head(raw)>> \in Seq(Packets)
      BY <1>b, <2>1, HeadTailProperties
    <3>3. <<Head(raw)>> \o Tail(raw) = raw
      BY <1>b, <2>1, HandedOn
    <3>4. g \o decoded \o << >> = g \o decoded
      BY <1>d, ConcatEmptySeq
    <3>5. ((g \o decoded) \o <<Head(raw)>>) \o Tail(raw) = (g \o decoded) \o raw
      <4>1. ((g \o decoded) \o <<Head(raw)>>) \o Tail(raw)
              = (g \o decoded) \o (<<Head(raw)>> \o Tail(raw))
        BY SMTT(40), <1>d, <3>2, PacketsGrouped
      <4> QED BY <3>3, <4>1
    <3> QED BY <1>0, <1>4, <2>1, <3>1, <3>4, <3>5 DEF DecodeRecv
  <2>2. CASE raw = << >> /\ dec' = At(IF CaptureEnded THEN "ended" ELSE "check") /\ UNCHANGED raw
    BY <1>1, <1>4, <2>2 DEF DecodeRecv, Held, At
  <2> QED BY <1>4, <2>1, <2>2 DEF DecodeRecv
<1>5. CASE DecodeSend
  <2>1. cmd.mode # "diff"
    BY <1>5, <1>a DEF DecodeSend, Roles, At
  <2>2. Outputs /\ dec' = At("check") /\ decoded' = Append(decoded, dec.held) /\ dec.held \in Packets
    BY <1>0, <1>5, <1>a, <2>1 DEF DecodeSend, TypeOK
  <2>3. h = <<dec.held>> /\ h' = << >> /\ c' = c
    BY <1>5, <2>2 DEF DecodeSend, Held, At
  <2>4. g \o Append(decoded, dec.held) = (g \o decoded) \o <<dec.held>>
    <3>1. dec.held \in Packets
      BY <2>2
    <3> QED BY <1>b, <3>1, PacketSent
  <2>5. g \o decoded' \in Seq(Packets)
    BY <1>b, <2>2, AppendProperties, ConcatProperties
  <2>6. (g \o decoded') \o << >> = g \o decoded'
    BY <2>5, ConcatEmptySeq
  <2> QED BY <1>0, <1>5, <2>2, <2>3, <2>4, <2>6 DEF DecodeSend
<1>6. CASE OutputRecv \/ TuiDrain
  <2>1. CASE decoded # << >> /\ Took(Head(decoded)) /\ decoded' = Tail(decoded)
    <3>1. g' = Append(g, Head(decoded)) /\ h' = h /\ c' = c
      BY <1>6, <1>a, <2>1 DEF OutputRecv, TuiDrain, Took, Sources, TypeOK
    <3>2. g' \o decoded' = g \o decoded
      BY <1>b, <2>1, <3>1, PacketTaken
    <3> QED BY <1>0, <1>6, <1>c, <3>1, <3>2 DEF OutputRecv, TuiDrain
  <2>2. CASE UNCHANGED <<got, decoded>> /\ OutputRecv
    BY <1>1, <2>2 DEF OutputRecv
  <2> QED BY <1>6, <2>1, <2>2 DEF OutputRecv, TuiDrain
<1>7. CASE ReadRecv
  <2>1. CASE raw # << >> /\ Took(Head(raw)) /\ raw' = Tail(raw) /\ UNCHANGED main
    <3>1. g' = Append(g, Head(raw)) /\ h' = h /\ c' = c /\ decoded = << >> /\ h = << >>
      BY <1>7, <1>a, <2>1 DEF ReadRecv, Took, Sources, TypeOK, Roles, Held, At
    <3>2. g' \o raw' = g \o raw
      BY SMTT(20), <1>b, <2>1, <3>1, HandedOn
    <3>3. g' \in Seq(Packets)
      BY <1>b, <2>1, <3>1, HeadTailProperties, AppendProperties
    <3>4. g \o << >> \o << >> = g /\ g' \o << >> \o << >> = g'
      BY <1>b, <3>3, ConcatEmptySeq
    <3> QED BY <1>0, <1>7, <1>c, <3>1, <3>2, <3>4 DEF ReadRecv
  <2>2. CASE main' = "join" /\ UNCHANGED <<got, raw>>
    BY <1>1, <1>7, <2>2 DEF ReadRecv
  <2> QED BY <1>7, <2>1, <2>2 DEF ReadRecv
<1>8. CASE ReadNext
  <2>1. CASE file = 1
    <3>1. /\ got'[file'] = << >> /\ decoded' = << >> /\ h' = << >> /\ raw' = << >> /\ c' = << >>
          /\ next' = 0
      BY <1>8, <1>a, <2>1 DEF ReadNext, Roles, Held, At
    <3>2. SubSeq(Numbered(files[file])', 1, 0) = << >>
      BY SubSeqEmpty
    <3>3. << >> \o << >> \o << >> \o << >> \o << >> = << >>
      BY EmptySeq, ConcatEmptySeq
    <3> QED BY <1>c, <3>1, <3>2, <3>3
  <2>2. CASE file # 1
    BY <1>1, <1>8, <2>2 DEF ReadNext
  <2> QED BY <2>1, <2>2
<1>9. CASE CheckStop \/ NoPacket \/ CaptureFails \/ DecodeCheck
  <2>1. h' = h /\ c' = c
    BY <1>9 DEF CheckStop, NoPacket, CaptureFails, DecodeCheck, Held, At
  <2> QED BY <1>1, <1>9, <2>1 DEF CheckStop, NoPacket, CaptureFails, DecodeCheck
<1>10. CASE DropReceiver \/ Join
  <2>1. cmd.mode # "diff" /\ ~Outputs'
    BY <1>10, <1>a DEF DropReceiver, Join, Roles, Outputs
  <2> QED BY <1>10, <2>1 DEF DropReceiver, Join
<1>11. CASE OutputCheck \/ SetStop \/ OutputFails \/ TuiQuit \/ Expire \/ UNCHANGED vars
  BY <1>1, <1>11 DEF OutputCheck, SetStop, OutputFails, TuiQuit, Expire, vars
<1> QED
  BY <1>2, <1>3, <1>4, <1>5, <1>6, <1>7, <1>8, <1>9, <1>10, <1>11
  DEF Next, Capture, Decode, Main
-----------------------------------------------------------------------------
\* When the decoder has ended and its channel is empty, everything there was
\* has been shown, unless the capture broke off.
LEMMA AllShown ==
  ASSUME PInv, Shown, ~stop, Outputs, DecodeEnded, decoded = << >>
  PROVE  broken \/ Len(got[1]) = Len(files[1])
<1>1. /\ file = 1 /\ files[1] \in Inputs /\ got[1] \in Seq(Packets) /\ next \in Nat
  BY FileType DEF PInv, TypeOK, Roles, Shown, Sources
<1>2. raw = << >> /\ CaptureEnded /\ (broken \/ next = Len(files[1]))
  BY <1>1 DEF PInv, EndsOnlyWhen
<1>3. Held(dec) = << >> /\ Held(cap) = << >>
  BY <1>2 DEF Held, DecodeEnded, CaptureEnded
<1>4. got[1] \o << >> \o << >> \o << >> \o << >> = SubSeq(Numbered(files[1]), 1, next)
  BY <1>1, <1>2, <1>3 DEF PInv, Conserved
<1>5. got[1] = SubSeq(Numbered(files[1]), 1, next)
  BY <1>1, <1>4, ConcatEmptySeq
<1>6. ASSUME next = Len(files[1]) PROVE Len(got[1]) = Len(files[1])
  BY <1>1, <1>5, <1>6, InputType, SubSeqFull
<1> QED BY <1>2, <1>6

\* A concatenation begins with its first part.
LEMMA Prefix ==
  ASSUME NEW S, NEW x \in Seq(S), NEW y \in Seq(S), NEW i \in 1 .. Len(x)
  PROVE  x \o y \in Seq(S) /\ i \in 1 .. Len(x \o y) /\ (x \o y)[i] = x[i]
BY ConcatProperties

\* The packet taken next is the one behind those shown.
LEMMA InTurn ==
  ASSUME PInv, Shown, ~stop, Outputs, decoded # << >>
  PROVE  /\ Len(got[1]) \in Nat /\ Len(got[1]) < Len(files[1])
         /\ Head(decoded) = Numbered(files[1])[Len(got[1]) + 1]
<1> DEFINE g == got[1]
           h == Held(dec)
           c == Held(cap)
           i == Len(g) + 1
           input == Numbered(files[1])
<1>1. /\ file = 1 /\ files[1] \in Inputs /\ next \in 0 .. Len(files[1])
      /\ g \in Seq(Packets) /\ decoded \in Seq(Packets) /\ h \in Seq(Packets)
      /\ raw \in Seq(Packets) /\ c \in Seq(Packets)
  BY FileType, HeldType DEF PInv, TypeOK, Roles, Shown, Sources
<1>2. g \o decoded \o h \o raw \o c = SubSeq(input, 1, next)
  BY <1>1 DEF PInv, Conserved
<1>3. Len(decoded) \in Nat \ {0} /\ decoded[1] = Head(decoded) /\ Len(g) \in Nat
  BY <1>1, EmptySeq
<1> HIDE DEF g, h, c
<1>4. g \o decoded \in Seq(Packets) /\ i \in 1 .. Len(g \o decoded)
      /\ (g \o decoded)[i] = Head(decoded)
  BY <1>1, <1>3, ConcatProperties
<1> HIDE DEF i
<1>5. g \o decoded \o h \in Seq(Packets) /\ i \in 1 .. Len(g \o decoded \o h)
      /\ (g \o decoded \o h)[i] = Head(decoded)
  BY <1>1, <1>4, Prefix
<1>6. g \o decoded \o h \o raw \in Seq(Packets) /\ i \in 1 .. Len(g \o decoded \o h \o raw)
      /\ (g \o decoded \o h \o raw)[i] = Head(decoded)
  BY <1>1, <1>5, Prefix
<1>7. i \in 1 .. Len(g \o decoded \o h \o raw \o c)
      /\ (g \o decoded \o h \o raw \o c)[i] = Head(decoded)
  BY <1>1, <1>6, Prefix
<1>8. /\ input \in Seq(Packets) /\ Len(input) = Len(files[1]) /\ Len(files[1]) \in Nat
  BY <1>1, InputType
<1>9. \A j \in 1 .. next : input[j] \in Packets
  BY <1>1, <1>8
<1>10. Len(SubSeq(input, 1, next)) = next /\ \A j \in 1 .. next : SubSeq(input, 1, next)[j] = input[j]
  BY <1>1, <1>9, SubSeqProperties
<1>11. i \in 1 .. next /\ input[i] = Head(decoded)
  BY <1>2, <1>7, <1>10
<1> QED BY <1>1, <1>3, <1>8, <1>11 DEF i, g
LEMMA LimitType ==
  ASSUME cmd \in Commands, cmd.count # None
  PROVE  /\ cmd.count \in Nat /\ Limit = Max({cmd.count, 1})
         /\ Limit \in Nat /\ Limit >= cmd.count
<1>1. cmd.count \in Nat
  BY CountsAssumption DEF Commands
<1> QED BY <1>1, MaxOfTwo DEF Limit

\* An excuse is not taken back.
LEMMA ExcusedStays ==
  ASSUME PInv, [Next]_vars, Excused, got'[1] = got[1] \/ cmd.count = None
  PROVE  Excused'
<1>1. cmd' = cmd
  BY SourcesNext DEF PInv
<1>2. broken => broken'
  BY DEF Next, Capture, CheckStop, NextPacket, NoPacket, CaptureFails, SendRaw, Decode,
     DecodeCheck, DecodeRecv, DecodeSend, Main, OutputCheck, OutputRecv, SetStop,
     DropReceiver, Join, ReadRecv, ReadNext, OutputFails, TuiDrain, TuiQuit, Expire, vars
<1>3. expired => expired'
  BY DEF Next, Capture, CheckStop, NextPacket, NoPacket, CaptureFails, SendRaw, Decode,
     DecodeCheck, DecodeRecv, DecodeSend, Main, OutputCheck, OutputRecv, SetStop,
     DropReceiver, Join, ReadRecv, ReadNext, OutputFails, TuiDrain, TuiQuit, Expire, vars
<1>4. cmd.view = "tui" /\ main # "check" => main' # "check"
  <2>1. cmd.view = "tui" => main \in {"check", "quit", "join", "exited"} /\ cmd.mode # "diff"
    BY DEF PInv, Roles, TypeOK, Commands
  <2> QED BY <2>1 DEF Next, Capture, CheckStop, NextPacket, NoPacket, CaptureFails, SendRaw,
     Decode, DecodeCheck, DecodeRecv, DecodeSend, Main, OutputCheck, OutputRecv, SetStop,
     DropReceiver, Join, ReadRecv, ReadNext, OutputFails, TuiDrain, TuiQuit, Expire, vars
<1> QED BY <1>1, <1>2, <1>3, <1>4 DEF Excused

LEMMA ProgressNext == PInv /\ [Next]_vars => Progress'
<1> SUFFICES ASSUME PInv, [Next]_vars, Shown' PROVE Progress'
  BY DEF Progress
<1>0. /\ cmd' = cmd /\ files' = files /\ cmd \in Commands /\ Shown /\ Progress /\ file = 1
      /\ Limit' = Limit /\ got[1] \in Seq(Packets) /\ Len(got[1]) \in Nat
      /\ 1 \in DOMAIN got
  <2>1. TypeOK /\ Sources /\ Roles /\ Progress
    BY DEF PInv
  <2>2. cmd' = cmd /\ files' = files
    BY <2>1, SourcesNext
  <2>3. cmd \in Commands /\ 1 \in DOMAIN files
    BY <2>1, FileType DEF TypeOK
  <2>4. Limit' = Limit /\ Shown
    BY <2>2 DEF Limit, Shown
  <2>5. got[1] \in Seq(Packets) /\ 1 \in DOMAIN got
    BY <2>1, <2>3 DEF TypeOK, Sources
  <2> QED BY <2>1, <2>2, <2>3, <2>4, <2>5 DEF Roles, Shown
<1>1. CASE UNCHANGED <<main, got>>
  BY <1>0, <1>1, ExcusedStays DEF Progress
<1>2. CASE OutputCheck
  <2>1. CASE cmd.timed /\ expired
    BY <1>0, <1>2, <2>1 DEF OutputCheck, Progress, Excused
  <2>2. CASE ~(cmd.timed /\ expired)
    BY <1>0, <1>2, <2>2 DEF OutputCheck, Progress
  <2> QED BY <2>1, <2>2
<1>3. CASE OutputRecv
  <2>1. CASE Took(Head(decoded)) /\ main' = (IF CountReached THEN "stop" ELSE "check")
    <3>1. CASE CountReached
      BY <1>0, <2>1, <3>1 DEF Progress, Excused, CountReached
    <3>2. CASE ~CountReached /\ cmd.count # None
      <4>1. got'[1] = Append(got[1], Head(decoded))
        BY <1>0, <2>1 DEF Took
      <4>2. Len(got'[1]) \in Nat
        BY <1>0, <4>1
      <4>3. ~(Len(got'[1]) >= cmd.count)
        BY <3>2 DEF CountReached
      <4>4. Len(got'[1]) < Limit
        <5>1. cmd.count \in Nat /\ Limit \in Nat /\ Limit >= cmd.count
          BY <1>0, <3>2, LimitType
        <5> QED BY <4>2, <4>3, <5>1
      <4> QED BY <1>0, <2>1, <3>2, <4>4 DEF Progress
    <3>3. CASE ~CountReached /\ cmd.count = None
      BY <1>0, <2>1, <3>3 DEF Progress
    <3> QED BY <3>1, <3>2, <3>3
  <2>2. CASE decoded = << >> /\ main' = (IF DecodeEnded THEN "stop" ELSE "check") /\ UNCHANGED got
    <3>1. CASE DecodeEnded
      <4>1. broken \/ Len(got[1]) = Len(files[1])
        BY <1>0, <1>3, <2>2, <3>1, AllShown DEF OutputRecv, PInv, Roles, Outputs
      <4> QED BY <1>0, <1>3, <2>2, <3>1, <4>1 DEF OutputRecv, Progress, Excused
    <3>2. CASE ~DecodeEnded
      BY <1>0, <1>3, <2>2, <3>2 DEF OutputRecv, Progress
    <3> QED BY <3>1, <3>2
  <2> QED BY <1>3, <2>1, <2>2 DEF OutputRecv
<1>4. CASE TuiDrain
  <2>1. cmd.count = None /\ main' = "check"
    BY <1>0, <1>4 DEF TuiDrain, Commands
  <2> QED BY <1>0, <2>1 DEF Progress
<1>5. CASE OutputFails \/ TuiQuit \/ SetStop \/ DropReceiver \/ Join \/ ReadRecv \/ ReadNext
  <2>1. main' \notin {"check", "recv", "stop"}
    BY <1>0, <1>5 DEF OutputFails, TuiQuit, SetStop, DropReceiver, Join, ReadRecv, ReadNext, Shown
  <2> QED BY <2>1 DEF Progress
<1> QED
  BY <1>1, <1>2, <1>3, <1>4, <1>5 DEF Next, Capture, CheckStop, NextPacket, NoPacket,
     CaptureFails, SendRaw, Decode, DecodeCheck, DecodeRecv, DecodeSend, Main, Expire, vars

LEMMA PipelineInductive == Spec => []PInv
<1>1. PInv /\ [Next]_vars => PInv'
  BY TypeNext, SourcesNext, RolesNext, EndsNext, ConservedNext, ProgressNext DEF PInv
<1> QED BY <1>1, PInit, PTL DEF Spec

\* For every input and every capacity, the channels keep their bound and no
\* packet is lost, doubled or overtaken between the input and the output
\* (capture_loop, decode_thread, json_output_loop, read_pcap).
THEOREM NothingLost == Spec => []PipelineOK
<1>1. PInv => PipelineOK
  BY DEF PInv, PipelineOK
<1> QED BY <1>1, PipelineInductive, PTL
-----------------------------------------------------------------------------
(***************************************************************************)
(* The refinement of OrderedOutput.                                        *)
(***************************************************************************)
Output == IF Shown THEN got[1] ELSE << >>
Seen   == <<Numbered(files[1]), Limit, Output, Over, Excused>>

LEMMA OutputInit == Init => Contract!Init
<1> SUFFICES ASSUME Init PROVE Contract!Init
  OBVIOUS
<1>1. cmd \in Commands /\ Sources
  BY DEF Init, Sources
<1>2. 1 \in DOMAIN files
  BY <1>1, FileType
<1> QED BY <1>2 DEF Init, Contract!Init, Over, Shown

\* A step that shows nothing and does not end: at most it is an excuse.
LEMMA OutputSame ==
  ASSUME PInv, [Next]_vars, Output' = Output, Over' = Over,
         got'[1] = got[1] \/ cmd.count = None
  PROVE  Contract!Next \/ UNCHANGED Seen
<1>1. Numbered(files[1])' = Numbered(files[1]) /\ Limit' = Limit
  BY SourcesNext DEF PInv, Limit
<1>2. Excused => Excused'
  BY ExcusedStays
<1>3. CASE ~Excused /\ Excused'
  BY <1>1, <1>3 DEF Contract!Next, Contract!Excuse, Limit, Output
<1>4. CASE ~(~Excused /\ Excused')
  <2>1. Excused' = Excused
    BY <1>2, <1>4 DEF Excused
  <2> QED BY <1>1, <2>1 DEF Seen
<1> QED BY <1>3, <1>4

\* Taking a packet from the decoder.
LEMMA OutputShow ==
  ASSUME PInv, [Next]_vars, OutputRecv \/ TuiDrain, decoded # << >>,
         Took(Head(decoded)), Over' = Over
  PROVE  Contract!Next
<1>1. /\ Shown /\ main \in {"check", "recv"} /\ ~stop /\ Outputs
      /\ cmd.view = "tui" => cmd.count = None
  BY DEF OutputRecv, TuiDrain, PInv, Roles, TypeOK, Commands, Shown, Outputs
<1>2. /\ Len(got[1]) < Len(files[1])
      /\ Head(decoded) = Numbered(files[1])[Len(got[1]) + 1]
  BY <1>1, InTurn
<1>3. Len(got[1]) < Limit
  BY <1>1, <1>2 DEF PInv, Progress, Limit
<1>4. file = 1 /\ 1 \in DOMAIN got /\ cmd' = cmd /\ files' = files
  BY <1>1, FileType, SourcesNext DEF PInv, TypeOK, Sources, Roles, Shown
<1>5. got'[1] = Append(got[1], Head(decoded))
  BY <1>4 DEF Took
<1>6. Numbered(files[1])' = Numbered(files[1]) /\ Limit' = Limit
  BY <1>4 DEF Limit
<1>7. Output = got[1] /\ Output' = Append(got[1], Numbered(files[1])[Len(got[1]) + 1])
  BY <1>1, <1>2, <1>4, <1>5 DEF Output, Shown
<1>8. ~Over
  BY <1>1 DEF Over
<1>9. Len(Numbered(files[1])) = Len(files[1])
  BY FileType, InputType DEF PInv, TypeOK
<1> QED BY <1>2, <1>3, <1>6, <1>7, <1>8, <1>9 DEF Contract!Next, Contract!Show, Limit, Output

\* The end.
LEMMA OutputFinish ==
  ASSUME PInv, [Next]_vars, got' = got, Shown, ~Over, Over',
         Excused' \/ Len(got[1]) = Len(files[1])
  PROVE  Contract!Next
<1>1. /\ Numbered(files[1])' = Numbered(files[1]) /\ Limit' = Limit
      /\ Output' = Output /\ Output = got[1]
  BY SourcesNext DEF PInv, Limit, Output, Shown
<1>2. Len(Numbered(files[1])) = Len(files[1])
  BY FileType, InputType DEF PInv, TypeOK
<1>3. Over' = TRUE
  BY DEF Over
<1> QED BY <1>1, <1>2, <1>3 DEF Contract!Next, Contract!Finish, Limit, Output

LEMMA OutputNext == PInv /\ [Next]_vars => [Contract!Next]_Seen
<1> SUFFICES ASSUME PInv, [Next]_vars PROVE Contract!Next \/ UNCHANGED Seen
  OBVIOUS
<1>0. /\ cmd' = cmd /\ cmd \in Commands /\ Roles /\ Progress
      /\ Shown' = Shown
  BY SourcesNext DEF PInv, TypeOK, Shown
<1>1. CASE UNCHANGED <<main, got>>
  BY <1>0, <1>1, OutputSame DEF Output, Over, Shown
<1>2. CASE OutputCheck
  <2>1. got' = got /\ Over' = Over
    BY <1>0, <1>2 DEF OutputCheck, Over
  <2> QED BY <1>0, <2>1, OutputSame DEF Output
<1>3. CASE OutputRecv
  <2>1. Over' = Over
    BY <1>0, <1>3 DEF OutputRecv, Over
  <2>2. CASE got' = got
    BY <1>0, <2>1, <2>2, OutputSame DEF Output
  <2>3. CASE decoded # << >> /\ Took(Head(decoded))
    BY <1>3, <2>1, <2>3, OutputShow
  <2> QED BY <1>3, <2>2, <2>3 DEF OutputRecv
<1>4. CASE TuiDrain
  <2>1. Over' = Over
    BY <1>0, <1>4 DEF TuiDrain, Over
  <2> QED BY <1>4, <2>1, OutputShow DEF TuiDrain
<1>5. CASE TuiQuit \/ OutputFails
  <2>1. Excused' /\ Over' /\ ~Over /\ Shown /\ got' = got
    BY <1>0, <1>5 DEF TuiQuit, OutputFails, Excused, Over, Shown, Commands
  <2> QED BY <2>1, OutputFinish
<1>6. CASE SetStop
  <2>1. CASE main = "quit"
    <3>1. got' = got /\ Over' = Over
      BY <1>0, <1>6, <2>1 DEF SetStop, Over
    <3> QED BY <1>0, <3>1, OutputSame DEF Output
  <2>2. CASE main = "stop"
    <3>1. got' = got /\ ~Over /\ Over' /\ Shown
      BY <1>0, <1>6, <2>2 DEF SetStop, Over, Roles, Shown
    <3>2. Excused \/ Len(got[1]) = Len(files[1])
      BY <1>0, <2>2, <3>1 DEF Progress
    <3>3. Excused' \/ Len(got[1]) = Len(files[1])
      BY <3>1, <3>2, ExcusedStays
    <3> QED BY <3>1, <3>3, OutputFinish
  <2> QED BY <1>6, <2>1, <2>2 DEF SetStop
<1>7. CASE DropReceiver \/ Join
  <2>1. got' = got /\ Over' = Over
    BY <1>0, <1>7 DEF DropReceiver, Join, Over
  <2> QED BY <1>0, <2>1, OutputSame DEF Output
<1>8. CASE ReadRecv \/ ReadNext
  <2>1. cmd.mode = "diff" /\ cmd.count = None
    BY <1>0, <1>8 DEF ReadRecv, ReadNext, Commands
  <2>2. Output' = Output /\ Over' = Over
    BY <1>0, <2>1 DEF Output, Over, Shown
  <2> QED BY <2>1, <2>2, OutputSame
<1> QED
  BY <1>1, <1>2, <1>3, <1>4, <1>5, <1>6, <1>7, <1>8 DEF Next, Capture, CheckStop, NextPacket,
     NoPacket, CaptureFails, SendRaw, Decode, DecodeCheck, DecodeRecv, DecodeSend, Main,
     Expire, vars

\* What a reader sees is what OrderedOutput promises, for every input, count
\* and capacity: each packet in its turn and none left out, up to the count,
\* and an end that is excused or complete (json_output_loop, run_tui's drain).
THEOREM OutputInOrder == Spec => ShowsInOrder
<1>1. PInv /\ [Next]_vars
        => [Contract!Next]_<<Numbered(files[1]),
                             IF cmd.count = None THEN Len(files[1]) ELSE Max({cmd.count, 1}),
                             IF Shown THEN got[1] ELSE << >>, Over, Excused>>
  BY OutputNext DEF Seen, Output, Limit
<1> QED BY <1>1, PipelineInductive, OutputInit, PTL DEF Spec, ShowsInOrder, Contract!Spec
-----------------------------------------------------------------------------
\* Induction over the naturals, for a set of them.
LEMMA SetInduction ==
  ASSUME NEW T, 0 \in T, \A n \in Nat : n \in T => n + 1 \in T
  PROVE  Nat \subseteq T
<1> DEFINE R == OpToRel(<, Nat)
           U == Nat \ T
<1> SUFFICES ASSUME U # {} PROVE FALSE
  OBVIOUS
<1>1. PICK n \in U : \A m \in U : <<m, n>> \notin R
  <2>1. IsWellFoundedOn(R, Nat) /\ U \subseteq Nat
    BY NatLessThanWellFounded
  <2> HIDE DEF R, U
  <2> QED  BY <2>1, WFMin
<1>2. n # 0 /\ n \in Nat
  BY <1>1
<1>3. n - 1 \in Nat /\ n - 1 \notin T => FALSE
  <2> SUFFICES ASSUME n - 1 \in Nat, n - 1 \notin T PROVE FALSE
    OBVIOUS
  <2>1. <<n - 1, n>> \in R
    BY <1>2 DEF OpToRel
  <2> QED  BY <1>1, <2>1
<1>4. n - 1 \in Nat /\ (n - 1) + 1 = n
  BY <1>2
<1> QED  BY <1>1, <1>3, <1>4

(***************************************************************************)
(* The comparison: what each packet of the one list makes of the counts.   *)
(***************************************************************************)
Compared(as, bs, k, f) ==
  f = [i \in 0 .. k |-> IF i = 0 THEN Unmatched(bs) ELSE Compare(as, f[i - 1], i)]

LEMMA ComparedExists ==
  ASSUME NEW as, NEW bs
  PROVE  \A k \in Nat : \E f : Compared(as, bs, k, f)
<1> DEFINE T == {k \in Nat : \E f : Compared(as, bs, k, f)}
<1>1. 0 \in T
  <2> DEFINE f == [i \in 0 .. 0 |-> Unmatched(bs)]
  <2>1. f = [i \in 0 .. 0 |-> IF i = 0 THEN Unmatched(bs) ELSE Compare(as, f[i - 1], i)]
    OBVIOUS
  <2>2. Compared(as, bs, 0, f)
    BY <2>1 DEF Compared
  <2> QED  BY <2>2
<1>2. ASSUME NEW k \in Nat, k \in T PROVE k + 1 \in T
  <2>1. PICK f : Compared(as, bs, k, f)
    BY <1>2
  <2> DEFINE g == [i \in 0 .. k + 1 |-> IF i = k + 1 THEN Compare(as, f[k], k + 1) ELSE f[i]]
             h == [i \in 0 .. k + 1 |->
                     IF i = 0 THEN Unmatched(bs) ELSE Compare(as, g[i - 1], i)]
  <2>2. \A i \in 0 .. k : f[i] = IF i = 0 THEN Unmatched(bs) ELSE Compare(as, f[i - 1], i)
    BY <2>1 DEF Compared
  <2>3. \A i \in 0 .. k : i \in 0 .. k + 1 /\ i # k + 1
    OBVIOUS
  <2>4. /\ \A i \in 0 .. k : g[i] = f[i]
        /\ g[k + 1] = Compare(as, f[k], k + 1)
    <3>1. k + 1 \in 0 .. k + 1
      OBVIOUS
    <3>2. g[k + 1] = Compare(as, f[k], k + 1)
      BY <3>1, Zenon
    <3>3. ASSUME NEW i \in 0 .. k PROVE g[i] = f[i]
      BY <2>3, Zenon
    <3> QED  BY <3>2, <3>3
  <2>5. \A i \in 0 .. k + 1 :
          h[i] = IF i = 0 THEN Unmatched(bs) ELSE Compare(as, g[i - 1], i)
    BY DEF h
  <2> HIDE DEF g, h
  <2>6. ASSUME NEW i \in 0 .. k + 1 PROVE g[i] = h[i]
    <3>1. CASE i = 0
      <4>1. 0 \in 0 .. k
        OBVIOUS
      <4> QED  BY <2>2, <2>4, <2>5, <3>1, <4>1
    <3>2. CASE i \in 1 .. k
      <4>1. i # 0 /\ i \in 0 .. k /\ i - 1 \in 0 .. k
        BY <3>2
      <4> QED  BY <2>2, <2>4, <2>5, <4>1
    <3>3. CASE i = k + 1
      <4>1. i # 0 /\ i - 1 = k /\ k \in 0 .. k
        BY <3>3
      <4> QED  BY <2>4, <2>5, <3>3, <4>1
    <3> QED  BY <3>1, <3>2, <3>3
  <2>7. g = h
    BY <2>6 DEF g, h
  <2>8. g = [i \in 0 .. k + 1 |-> IF i = 0 THEN Unmatched(bs) ELSE Compare(as, g[i - 1], i)]
    BY <2>7 DEF h
  <2> HIDE DEF h
  <2>9. Compared(as, bs, k + 1, g)
    BY <2>8 DEF Compared
  <2>10. k + 1 \in Nat
    OBVIOUS
  <2> QED  BY <2>9, <2>10, Zenon
<1> HIDE DEF T
<1>3. Nat \subseteq T
  BY <1>1, <1>2, SetInduction
<1> QED  BY <1>3 DEF T

LEMMA WithoutIs ==
  ASSUME NEW as \in Seq(Packets), NEW bs
  PROVE  \E f : /\ f[0] = Unmatched(bs)
                /\ \A k \in 1 .. Len(as) : f[k] = Compare(as, f[k - 1], k)
                /\ Without(as, bs) = f[Len(as)]
<1> DEFINE n == Len(as)
           f == CHOOSE f : Compared(as, bs, n, f)
<1>1. n \in Nat
  BY LenProperties
<1> HIDE DEF n
<1>2. Compared(as, bs, n, f)
  <2>1. \E g : Compared(as, bs, n, g)
    BY <1>1, ComparedExists
  <2> QED  BY <2>1
<1>3. Without(as, bs) = f[n]
  BY DEF Without, Compared, n
<1> HIDE DEF f
<1>4. f[0] = Unmatched(bs) /\ \A k \in 1 .. n : f[k] = Compare(as, f[k - 1], k)
  BY <1>1, <1>2 DEF Compared
<1> QED  BY <1>3, <1>4 DEF n

-----------------------------------------------------------------------------
(***************************************************************************)
(* Counting the packets of one content among the first ones of a list.     *)
(***************************************************************************)
Among(ps, k, c) == Cardinality({i \in 1 .. k : ps[i].data = c})

LEMMA OneMore ==
  ASSUME NEW S, NEW k \in Nat
  PROVE  /\ IsFiniteSet((1 .. k) \cap S)
         /\ Cardinality((1 .. k) \cap S) \in Nat
         /\ Cardinality((1 .. k + 1) \cap S)
              = Cardinality((1 .. k) \cap S) + (IF k + 1 \in S THEN 1 ELSE 0)
<1> DEFINE U == (1 .. k) \cap S
           V == (1 .. k + 1) \cap S
<1>1. IsFiniteSet(1 .. k)
  BY FS_Interval
<1>2. IsFiniteSet(U) /\ Cardinality(U) \in Nat
  BY <1>1, FS_Subset, FS_CardinalityType
<1>3. CASE k + 1 \in S
  <2>1. V = U \cup {k + 1} /\ k + 1 \notin U
    BY <1>3
  <2> HIDE DEF U, V
  <2>2. Cardinality(V) = Cardinality(U) + 1
    BY <1>2, <2>1, FS_AddElement
  <2> QED  BY <1>2, <1>3, <2>2 DEF U, V
<1>4. CASE k + 1 \notin S
  <2>1. V = U
    BY <1>4
  <2> QED  BY <1>2, <1>4, <2>1
<1> QED  BY <1>3, <1>4

LEMMA AmongStep ==
  ASSUME NEW ps, NEW c, NEW k \in Nat
  PROVE  /\ Among(ps, k, c) \in Nat
         /\ Among(ps, 0, c) = 0
         /\ Among(ps, k + 1, c) = Among(ps, k, c) + (IF ps[k + 1].data = c THEN 1 ELSE 0)
<1> DEFINE S == {i \in Nat : ps[i].data = c}
<1>1. \A n \in Nat : {i \in 1 .. n : ps[i].data = c} = (1 .. n) \cap S
  OBVIOUS
<1>2. k + 1 \in Nat /\ (k + 1 \in S <=> ps[k + 1].data = c)
  OBVIOUS
<1>3. {i \in 1 .. 0 : ps[i].data = c} = {}
  OBVIOUS
<1> HIDE DEF S
<1>4. Among(ps, k, c) = Cardinality((1 .. k) \cap S)
      /\ Among(ps, k + 1, c) = Cardinality((1 .. k + 1) \cap S)
  BY <1>1, <1>2 DEF Among
<1>5. Among(ps, 0, c) = 0
  <2>1. Among(ps, 0, c) = Cardinality({})
    BY <1>3, Zenon DEF Among
  <2> QED  BY <2>1, FS_EmptySet, Zenon
<1> QED  BY <1>2, <1>4, <1>5, OneMore, ZenonT(40)

\* The packets of one content are counted in turn: each count is reached by
\* one packet of it, and by one only.
LEMMA InCount ==
  ASSUME NEW ps, NEW c
  PROVE  \A k \in Nat :
           /\ \A i \in 1 .. k : Among(ps, i, c) <= Among(ps, k, c)
           /\ \A i \in 1 .. k :
                i < k /\ ps[k].data = c => Among(ps, i, c) < Among(ps, k, c)
           /\ \A r \in 1 .. Among(ps, k, c) :
                \E i \in 1 .. k : ps[i].data = c /\ Among(ps, i, c) = r
<1> DEFINE A(k) == Among(ps, k, c)
           T == {k \in Nat :
                  /\ \A i \in 1 .. k : A(i) <= A(k)
                  /\ \A i \in 1 .. k : i < k /\ ps[k].data = c => A(i) < A(k)
                  /\ \A r \in 1 .. A(k) : \E i \in 1 .. k : ps[i].data = c /\ A(i) = r}
<1>1. \A k \in Nat : /\ A(k) \in Nat /\ A(0) = 0
                     /\ A(k + 1) = A(k) + (IF ps[k + 1].data = c THEN 1 ELSE 0)
  BY AmongStep
<1> HIDE DEF A
<1>2. 0 \in T
  BY <1>1
<1>3. ASSUME NEW k \in Nat, k \in T PROVE k + 1 \in T
  <2>1. k + 1 \in Nat /\ A(k + 1) \in Nat /\ A(k) \in Nat
    BY <1>1
  <2>2. ASSUME NEW i \in 1 .. k + 1
        PROVE  A(i) <= A(k + 1) /\ (i < k + 1 /\ ps[k + 1].data = c => A(i) < A(k + 1))
    <3>1. CASE i = k + 1
      BY <2>1, <3>1
    <3>2. CASE i \in 1 .. k
      <4>1. A(i) <= A(k) /\ A(i) \in Nat
        <5>1. \A j \in 1 .. k : A(j) <= A(k)
          BY <1>3
        <5>2. i \in Nat
          OBVIOUS
        <5> QED  BY <1>1, <3>2, <5>1, <5>2
      <4> QED  BY <1>1, <2>1, <4>1
    <3> QED  BY <3>1, <3>2
  <2>3. ASSUME NEW r \in 1 .. A(k + 1)
        PROVE  \E i \in 1 .. k + 1 : ps[i].data = c /\ A(i) = r
    <3>1. CASE r \in 1 .. A(k)
      <4>1. PICK i \in 1 .. k : ps[i].data = c /\ A(i) = r
        BY <1>3, <3>1
      <4> QED  BY <4>1
    <3>2. CASE r \notin 1 .. A(k)
      <4>1. r = A(k + 1) /\ ps[k + 1].data = c
        <5>1. A(k + 1) = A(k) + (IF ps[k + 1].data = c THEN 1 ELSE 0)
          BY <1>1
        <5>2. CASE ps[k + 1].data = c
          BY <2>1, <3>2, <5>1, <5>2
        <5>3. CASE ps[k + 1].data # c
          BY <2>1, <3>2, <5>1, <5>3
        <5> QED  BY <5>2, <5>3
      <4> QED  BY <4>1
    <3> QED  BY <3>1, <3>2
  <2> QED  BY <2>1, <2>2, <2>3
<1> HIDE DEF T
<1>4. Nat \subseteq T
  BY <1>2, <1>3, SetInduction
<1> QED  BY <1>4 DEF T, A

Leftovers(ps, is, c) == Cardinality({j \in DOMAIN is : ps[is[j]].data = c})

LEMMA NoLeftovers == \A ps, c : Leftovers(ps, << >>, c) = 0
<1> TAKE ps, c
<1>1. {j \in DOMAIN << >> : ps[<< >>[j]].data = c} = {}
  OBVIOUS
<1>2. Leftovers(ps, << >>, c) = Cardinality({})
  BY <1>1, Zenon DEF Leftovers
<1> QED  BY <1>2, FS_EmptySet, Zenon

LEMMA LeftoversStep ==
  \A ps \in Seq(Packets) : \A is \in Seq(Nat) : \A x \in Nat : \A c :
    /\ Leftovers(ps, is, c) \in Nat
    /\ ps[x].data = c => Leftovers(ps, Append(is, x), c) = Leftovers(ps, is, c) + 1
    /\ ps[x].data # c => Leftovers(ps, Append(is, x), c) = Leftovers(ps, is, c)
<1> TAKE ps \in Seq(Packets)
<1> TAKE is \in Seq(Nat)
<1> TAKE x \in Nat
<1> TAKE c
<1> DEFINE more == Append(is, x)
<1> DEFINE n == Len(is)
           S == {j \in Nat : ps[more[j]].data = c}
<1>1. /\ n \in Nat /\ DOMAIN is = 1 .. n /\ DOMAIN more = 1 .. n + 1
      /\ \A j \in 1 .. n : more[j] = is[j]
      /\ more[n + 1] = x
  BY AppendProperties, LenProperties
<1> HIDE DEF n, more
<1>2. n + 1 \in Nat /\ (n + 1 \in S <=> ps[x].data = c)
  BY <1>1
<1>3. {j \in DOMAIN is : ps[is[j]].data = c} = (1 .. n) \cap S
  BY <1>1
<1>4. {j \in DOMAIN more : ps[more[j]].data = c} = (1 .. n + 1) \cap S
  BY <1>1
<1> HIDE DEF S
<1>7. /\ Leftovers(ps, is, c) = Cardinality((1 .. n) \cap S)
      /\ Leftovers(ps, more, c) = Cardinality((1 .. n + 1) \cap S)
  <2>1. Leftovers(ps, is, c) = Cardinality((1 .. n) \cap S)
    BY <1>3, Zenon DEF Leftovers
  <2>2. Leftovers(ps, more, c) = Cardinality((1 .. n + 1) \cap S)
    BY <1>4, Zenon DEF Leftovers
  <2> QED  BY <2>1, <2>2
<1>8. /\ Cardinality((1 .. n) \cap S) \in Nat
      /\ Cardinality((1 .. n + 1) \cap S)
           = Cardinality((1 .. n) \cap S) + (IF n + 1 \in S THEN 1 ELSE 0)
  BY <1>1, OneMore
<1> DEFINE u == Cardinality((1 .. n) \cap S)
           v == Cardinality((1 .. n + 1) \cap S)
<1>a. /\ u \in Nat
      /\ n + 1 \in S => v = u + 1
      /\ n + 1 \notin S => v = u
  BY <1>8
<1> HIDE DEF u, v
<1>9. /\ Leftovers(ps, is, c) \in Nat
      /\ ps[x].data = c => Leftovers(ps, more, c) = Leftovers(ps, is, c) + 1
      /\ ps[x].data # c => Leftovers(ps, more, c) = Leftovers(ps, is, c)
  BY <1>2, <1>7, <1>a, Zenon DEF u, v
<1> QED  BY <1>9 DEF more

\* The packets of the one list that find a partner, and those of the other
\* that are one.
Early(as, bs, k) ==
  {i \in 1 .. k : Among(as, i, as[i].data) <= Among(bs, Len(bs), as[i].data)}
Partners(as, bs, k) ==
  {j \in 1 .. Len(bs) : Among(bs, j, bs[j].data) <= Among(as, k, bs[j].data)}
Finds(as, bs, k) == Among(as, k, as[k].data) <= Among(bs, Len(bs), as[k].data)

LEMMA EarlyStep ==
  ASSUME NEW as, NEW bs, NEW k \in Nat
  PROVE  /\ Cardinality(Early(as, bs, 0)) = 0
         /\ Cardinality(Early(as, bs, k + 1))
              = Cardinality(Early(as, bs, k)) + (IF Finds(as, bs, k + 1) THEN 1 ELSE 0)
<1> DEFINE F(i) == Among(as, i, as[i].data) <= Among(bs, Len(bs), as[i].data)
           S == {i \in Nat : F(i)}
<1>1. k + 1 \in Nat /\ (k + 1 \in S <=> F(k + 1))
  <2>1. k + 1 \in Nat
    OBVIOUS
  <2> QED  BY <2>1, Zenon
<1>2. /\ Early(as, bs, k) = (1 .. k) \cap S
      /\ Early(as, bs, k + 1) = (1 .. k + 1) \cap S
  <2>1. ASSUME NEW n \in Nat PROVE Early(as, bs, n) = (1 .. n) \cap S
    <3>1. 1 .. n \subseteq Nat
      OBVIOUS
    <3> QED  BY <3>1, Zenon DEF Early
  <2> QED  BY <1>1, <2>1
<1>3. Early(as, bs, 0) = {}
  BY DEF Early
<1>4. Cardinality(Early(as, bs, 0)) = 0
  BY <1>3, FS_EmptySet
<1>5. k + 1 \in S <=> Finds(as, bs, k + 1)
  BY <1>1 DEF Finds
<1> HIDE DEF S
<1>6. Cardinality(Early(as, bs, k + 1))
        = Cardinality(Early(as, bs, k)) + (IF k + 1 \in S THEN 1 ELSE 0)
  BY <1>2, OneMore
<1> QED  BY <1>4, <1>5, <1>6, Zenon

LEMMA PartnersStep ==
  ASSUME NEW as, NEW bs, Len(bs) \in Nat, NEW k \in Nat
  PROVE  /\ Cardinality(Partners(as, bs, 0)) = 0
         /\ Cardinality(Partners(as, bs, k)) \in Nat
         /\ Cardinality(Partners(as, bs, k + 1))
              = Cardinality(Partners(as, bs, k)) + (IF Finds(as, bs, k + 1) THEN 1 ELSE 0)
<1> DEFINE c == as[k + 1].data
           m == Len(bs)
           x == Among(as, k, c)
           r == Among(as, k + 1, c)
           y == Among(bs, m, c)
           P == Partners(as, bs, k)
           Q == Partners(as, bs, k + 1)
<1> HIDE DEF c, m, x, r, y, P, Q
<1>1. m \in Nat /\ x \in Nat /\ y \in Nat /\ r = x + 1
  BY AmongStep DEF c, m, x, r, y
<1>2. \A d : d # c => Among(as, k + 1, d) = Among(as, k, d)
  <2>1. SUFFICES ASSUME NEW d, d # c PROVE Among(as, k + 1, d) = Among(as, k, d)
    OBVIOUS
  <2> DEFINE u == Among(as, k, d)
             v == Among(as, k + 1, d)
  <2>2. u \in Nat /\ v = u + 0
    BY <2>1, AmongStep DEF c
  <2> HIDE DEF u, v
  <2>3. v = u
    BY <2>2
  <2> QED  BY <2>3 DEF u, v
<1>3. P \subseteq 1 .. m /\ Q \subseteq 1 .. m
  BY DEF Partners, P, Q, m
<1>4. \A j \in 1 .. m :
        /\ bs[j].data # c => (j \in P <=> j \in Q)
        /\ bs[j].data = c => /\ j \in P <=> Among(bs, j, c) <= x
                             /\ j \in Q <=> Among(bs, j, c) <= r
  <2>1. SUFFICES ASSUME NEW j \in 1 .. m
                 PROVE  /\ bs[j].data # c => (j \in P <=> j \in Q)
                        /\ bs[j].data = c => /\ j \in P <=> Among(bs, j, c) <= x
                                             /\ j \in Q <=> Among(bs, j, c) <= r
    OBVIOUS
  <2>2. /\ j \in P <=> Among(bs, j, bs[j].data) <= Among(as, k, bs[j].data)
        /\ j \in Q <=> Among(bs, j, bs[j].data) <= Among(as, k + 1, bs[j].data)
    BY Zenon DEF Partners, P, Q, m
  <2> QED  BY <1>2, <2>2, Zenon DEF x, r
<1>5. Finds(as, bs, k + 1) <=> r <= y
  BY DEF Finds, c, r, y, m
<1>6. \A j \in 1 .. m : Among(bs, j, c) \in Nat /\ Among(bs, j, c) <= y
  <2>1. SUFFICES ASSUME NEW j \in 1 .. m
                 PROVE  Among(bs, j, c) \in Nat /\ Among(bs, j, c) <= y
    OBVIOUS
  <2>2. j \in Nat
    BY <1>1
  <2> QED  BY <1>1, <2>2, AmongStep, InCount DEF y
<1>7. \A i, j \in 1 .. m : i < j /\ bs[j].data = c => Among(bs, i, c) < Among(bs, j, c)
  <2>1. SUFFICES ASSUME NEW i \in 1 .. m, NEW j \in 1 .. m, i < j, bs[j].data = c
                 PROVE  Among(bs, i, c) < Among(bs, j, c)
    OBVIOUS
  <2>2. j \in Nat /\ i \in 1 .. j
    BY <1>1, <2>1
  <2> QED  BY <2>1, <2>2, InCount
<1>8. ASSUME r <= y PROVE \E j \in 1 .. m : bs[j].data = c /\ Among(bs, j, c) = r
  <2>1. r \in 1 .. y
    BY <1>1, <1>8
  <2>2. \A q \in 1 .. y : \E i \in 1 .. m : bs[i].data = c /\ Among(bs, i, c) = q
    BY <1>1, InCount DEF y
  <2> QED  BY <2>1, <2>2
<1>9. Cardinality(Partners(as, bs, 0)) = 0
  <2>1. ASSUME NEW j \in 1 .. m PROVE ~(Among(bs, j, bs[j].data) <= Among(as, 0, bs[j].data))
    <3>1. PICK p \in Nat : j = p + 1
      <4>1. j - 1 \in Nat /\ j = (j - 1) + 1
        BY <1>1
      <4> QED  BY <4>1
    <3> DEFINE d == bs[p + 1].data
               u == Among(bs, p, d)
               v == Among(bs, p + 1, d)
               w == Among(as, 0, d)
    <3>2. u \in Nat /\ v = u + 1
      BY <3>1, AmongStep, ZenonT(60)
    <3>3. w = 0
      BY AmongStep
    <3> HIDE DEF u, v, w
    <3>4. ~(v <= w)
      BY <3>2, <3>3
    <3> QED  BY <3>1, <3>4, Zenon DEF v, w
  <2>2. Partners(as, bs, 0) = {}
    BY <2>1, Zenon DEF Partners, m
  <2> QED  BY <2>2, FS_EmptySet
<1>10. IsFiniteSet(P) /\ Cardinality(P) \in Nat
  <2>1. IsFiniteSet(1 .. m)
    BY <1>1, FS_Interval
  <2> QED  BY <1>3, <2>1, FS_Subset, FS_CardinalityType
<1>11. CASE r <= y
  <2>1. PICK j \in 1 .. m : bs[j].data = c /\ Among(bs, j, c) = r
    BY <1>8, <1>11
  <2>2. ASSUME NEW i \in 1 .. m, bs[i].data = c, Among(bs, i, c) = r PROVE i = j
    <3>1. ~(i < j) /\ ~(j < i)
      BY <1>1, <1>7, <2>1, <2>2
    <3>2. i \in Int /\ j \in Int
      BY <1>1
    <3> QED  BY <3>1, <3>2
  <2>3. j \notin P /\ j \in Q
    BY <1>1, <1>4, <2>1
  <2>4. ASSUME NEW i \in 1 .. m, i # j PROVE i \in Q <=> i \in P
    <3>1. CASE bs[i].data # c
      BY <1>4, <3>1
    <3>2. CASE bs[i].data = c
      <4>1. Among(bs, i, c) \in Nat /\ Among(bs, i, c) # r
        BY <1>6, <2>2, <2>4, <3>2
      <4>2. Among(bs, i, c) <= r <=> Among(bs, i, c) <= x
        BY <1>1, <4>1
      <4> QED  BY <1>4, <3>2, <4>2
    <3> QED  BY <3>1, <3>2
  <2>5. Q = P \cup {j}
    BY <1>3, <2>1, <2>3, <2>4
  <2>6. Cardinality(Q) = Cardinality(P) + 1
    BY <1>10, <2>3, <2>5, FS_AddElement
  <2> QED  BY <1>5, <1>9, <1>10, <1>11, <2>6, Zenon DEF P, Q
<1>12. CASE ~(r <= y)
  <2>1. ASSUME NEW i \in 1 .. m PROVE i \in Q <=> i \in P
    <3>1. CASE bs[i].data # c
      BY <1>4, <3>1
    <3>2. CASE bs[i].data = c
      <4>1. Among(bs, i, c) \in Nat /\ Among(bs, i, c) <= y
        BY <1>6
      <4>2. Among(bs, i, c) <= r /\ Among(bs, i, c) <= x
        BY <1>1, <1>12, <4>1
      <4> QED  BY <1>4, <3>2, <4>2
    <3> QED  BY <3>1, <3>2
  <2>2. Q = P
    BY <1>3, <2>1
  <2>3. Cardinality(Q) = Cardinality(P) + 0
    BY <1>10, <2>2
  <2> QED  BY <1>5, <1>9, <1>10, <1>12, <2>3, Zenon DEF P, Q
<1> QED  BY <1>11, <1>12
-----------------------------------------------------------------------------
\* What the comparison has done after k packets of a list: a content that the
\* other list has as often is used up, of one that it has less often the rest is
\* left over, and what is common is common to both.
Done(as, bs, k, acc) ==
  /\ acc \in [left : [Contents -> Nat], only : Seq(Nat), common : Nat]
  /\ acc.common + Len(acc.only) = k
  /\ acc.common = Cardinality(Early(as, bs, k))
  /\ acc.common = Cardinality(Partners(as, bs, k))
  /\ \A c \in Contents :
       IF Among(as, k, c) <= Among(bs, Len(bs), c)
       THEN /\ acc.left[c] = Among(bs, Len(bs), c) - Among(as, k, c)
            /\ Leftovers(as, acc.only, c) = 0
       ELSE /\ acc.left[c] = 0
            /\ Leftovers(as, acc.only, c) = Among(as, k, c) - Among(bs, Len(bs), c)

LEMMA CountsAre ==
  ASSUME NEW ps \in Seq(Packets)
  PROVE  /\ CountsOf(ps) \in [Contents -> Nat]
         /\ \A c \in Contents : CountsOf(ps)[c] = Among(ps, Len(ps), c)
<1>1. DOMAIN ps = 1 .. Len(ps) /\ Len(ps) \in Nat
  BY LenProperties
<1>2. ASSUME NEW c PROVE Cardinality({i \in DOMAIN ps : ps[i].data = c}) = Among(ps, Len(ps), c)
  BY <1>1, Zenon DEF Among
<1>3. \A c : Among(ps, Len(ps), c) \in Nat
  BY <1>1, AmongStep
<1> QED  BY <1>2, <1>3 DEF CountsOf

LEMMA DoneInit ==
  ASSUME NEW as \in Seq(Packets), NEW bs \in Seq(Packets)
  PROVE  Done(as, bs, 0, Unmatched(bs))
<1> DEFINE u == Unmatched(bs)
<1>1. u.left = CountsOf(bs) /\ u.only = << >> /\ u.common = 0
      /\ u \in [left : [Contents -> Nat], only : Seq(Nat), common : Nat]
  BY CountsAre, EmptySeq DEF Unmatched
<1>2. Len(bs) \in Nat
  BY LenProperties
<1>3. Cardinality(Early(as, bs, 0)) = 0 /\ Cardinality(Partners(as, bs, 0)) = 0
  BY <1>2, EarlyStep, PartnersStep
<1> HIDE DEF u
<1>4. ASSUME NEW c \in Contents
      PROVE  IF Among(as, 0, c) <= Among(bs, Len(bs), c)
             THEN /\ u.left[c] = Among(bs, Len(bs), c) - Among(as, 0, c)
                  /\ Leftovers(as, u.only, c) = 0
             ELSE /\ u.left[c] = 0
                  /\ Leftovers(as, u.only, c) = Among(as, 0, c) - Among(bs, Len(bs), c)
  <2> DEFINE x == Among(as, 0, c)
             y == Among(bs, Len(bs), c)
             l == u.left[c]
  <2>1. x = 0 /\ y \in Nat
    BY <1>2, AmongStep
  <2>2. l = y
    BY <1>1, CountsAre
  <2>3. Leftovers(as, u.only, c) = 0
    BY <1>1, NoLeftovers, Zenon
  <2> HIDE DEF x, y, l
  <2>4. x <= y /\ l = y - x
    BY <2>1, <2>2
  <2> QED  BY <2>3, <2>4, Zenon DEF x, y, l
<1>5. u.common + Len(u.only) = 0
  BY <1>1, EmptySeq
<1>6. Done(as, bs, 0, u)
  BY <1>1, <1>3, <1>4, <1>5, Zenon DEF Done
<1> QED  BY <1>6 DEF u

\* The counts of one content, before and after a packet of it or of another.
LEMMA OneCount ==
  ASSUME NEW x \in Nat, NEW y \in Nat, NEW l, NEW o,
         IF x <= y THEN l = y - x /\ o = 0 ELSE l = 0 /\ o = x - y
  PROVE  /\ l \in Nat /\ o \in Nat
         /\ l > 0 <=> x + 1 <= y
         /\ l > 0 => IF x + 1 <= y THEN l - 1 = y - (x + 1) /\ o = 0
                                   ELSE l - 1 = 0 /\ o = (x + 1) - y
         /\ ~(l > 0) => IF x + 1 <= y THEN l = y - (x + 1) /\ o + 1 = 0
                                      ELSE l = 0 /\ o + 1 = (x + 1) - y
OBVIOUS

LEMMA DoneStep ==
  ASSUME NEW as \in Seq(Packets), NEW bs \in Seq(Packets), NEW k \in Nat, k < Len(as),
         NEW acc, Done(as, bs, k, acc)
  PROVE  Done(as, bs, k + 1, Compare(as, acc, k + 1))
<1> DEFINE c == as[k + 1].data
           m == Len(bs)
           x(d) == Among(as, k, d)
           z(d) == Among(as, k + 1, d)
           y(d) == Among(bs, m, d)
           o(d) == Leftovers(as, acc.only, d)
           more == Compare(as, acc, k + 1)
           found == acc.left[c] > 0
           P(d, n, l, r) == IF n <= y(d) THEN l = y(d) - n /\ r = 0 ELSE l = 0 /\ r = n - y(d)
<1>1. k + 1 \in Nat /\ m \in Nat /\ c \in Contents
  <2> DEFINE n == Len(as)
  <2>1. n \in Nat /\ as \in [1 .. n -> Packets] /\ m \in Nat
    BY LenProperties
  <2>2. k < n
    OBVIOUS
  <2> HIDE DEF n
  <2>3. k + 1 \in 1 .. n
    BY <2>1, <2>2
  <2>4. as[k + 1] \in Packets
    BY <2>1, <2>3
  <2>5. c \in Contents
    BY <2>4 DEF Packets
  <2>6. k + 1 \in Nat
    OBVIOUS
  <2> QED  BY <2>1, <2>5, <2>6, Zenon
<1>2. \A d \in Contents : x(d) \in Nat /\ y(d) \in Nat
  BY <1>1, AmongStep
<1>3. \A d \in Contents : P(d, x(d), acc.left[d], o(d))
  BY Zenon DEF Done
<1>4. /\ acc \in [left : [Contents -> Nat], only : Seq(Nat), common : Nat]
      /\ acc.common + Len(acc.only) = k
      /\ acc.common = Cardinality(Early(as, bs, k))
      /\ acc.common = Cardinality(Partners(as, bs, k))
  BY DEF Done
<1>5. z(c) = x(c) + 1
  BY AmongStep
<1>6. \A d \in Contents : d # c => z(d) = x(d)
  <2>1. SUFFICES ASSUME NEW d \in Contents, d # c PROVE z(d) = x(d)
    OBVIOUS
  <2> DEFINE u == x(d)
             v == z(d)
  <2>2. u \in Nat /\ v = u + 0
    BY <2>1, AmongStep
  <2> HIDE DEF u, v
  <2>3. v = u
    BY <2>2
  <2> QED  BY <2>3 DEF u, v
<1>7. Finds(as, bs, k + 1) <=> z(c) <= y(c)
  BY DEF Finds
<1>8. more = IF found
             THEN [acc EXCEPT !.left = [acc.left EXCEPT ![c] = acc.left[c] - 1], !.common = acc.common + 1]
             ELSE [acc EXCEPT !.only = Append(acc.only, k + 1)]
  BY <1>4 DEF Compare, Matched
<1>9. /\ Cardinality(Early(as, bs, k + 1))
           = Cardinality(Early(as, bs, k)) + (IF Finds(as, bs, k + 1) THEN 1 ELSE 0)
      /\ Cardinality(Partners(as, bs, k + 1))
           = Cardinality(Partners(as, bs, k)) + (IF Finds(as, bs, k + 1) THEN 1 ELSE 0)
  BY <1>1, EarlyStep, PartnersStep
<1>10. \A d \in Contents :
         /\ c = d => Leftovers(as, Append(acc.only, k + 1), d) = o(d) + 1
         /\ c # d => Leftovers(as, Append(acc.only, k + 1), d) = o(d)
  <2> DEFINE q == acc.only
             i == k + 1
             p == Append(q, i)
  <2>1. q \in Seq(Nat) /\ i \in Nat
    BY <1>1, <1>4
  <2>a. p = Append(q, i)
    OBVIOUS
  <2> HIDE DEF q, i, p
  <2>2. \A d : /\ as[i].data = d => Leftovers(as, p, d) = Leftovers(as, q, d) + 1
               /\ as[i].data # d => Leftovers(as, p, d) = Leftovers(as, q, d)
    BY <2>1, LeftoversStep, ZenonT(40) DEF p
  <2> QED  BY <2>2, Zenon DEF q, i, p
<1>11. /\ Len(acc.only) \in Nat
       /\ Append(acc.only, k + 1) \in Seq(Nat)
       /\ Len(Append(acc.only, k + 1)) = Len(acc.only) + 1
  BY <1>1, <1>4, LenProperties, AppendProperties
<1> HIDE DEF c, m, x, y, z, o, more
<1>12. ASSUME NEW d \in Contents
       PROVE  /\ o(d) \in Nat
              /\ d = c => (found <=> x(d) + 1 <= y(d))
              /\ d = c /\ found => P(d, x(d) + 1, acc.left[d] - 1, o(d))
              /\ d = c /\ ~found => P(d, x(d) + 1, acc.left[d], o(d) + 1)
  <2> DEFINE l == acc.left[d]
             u == x(d)
             v == y(d)
             w == o(d)
  <2>1. u \in Nat /\ v \in Nat
    BY <1>2
  <2>2. IF u <= v THEN l = v - u /\ w = 0 ELSE l = 0 /\ w = u - v
    BY <1>3, Zenon
  <2> HIDE DEF l, u, v, w
  <2>3. /\ w \in Nat
        /\ l > 0 <=> u + 1 <= v
        /\ l > 0 => IF u + 1 <= v THEN l - 1 = v - (u + 1) /\ w = 0
                                  ELSE l - 1 = 0 /\ w = (u + 1) - v
        /\ ~(l > 0) => IF u + 1 <= v THEN l = v - (u + 1) /\ w + 1 = 0
                                     ELSE l = 0 /\ w + 1 = (u + 1) - v
    BY <2>1, <2>2, OneCount
  <2> QED  BY <2>3, Zenon DEF l, u, v, w
<1>13. found <=> Finds(as, bs, k + 1)
  BY <1>1, <1>5, <1>7, <1>12, Zenon
<1>14. CASE found
  <2> HIDE DEF found
  <2>1. more = [acc EXCEPT !.left = [acc.left EXCEPT ![c] = acc.left[c] - 1], !.common = acc.common + 1]
    BY <1>8, <1>14
  <2>2. /\ more.left = [acc.left EXCEPT ![c] = acc.left[c] - 1]
        /\ more.only = acc.only /\ more.common = acc.common + 1
    BY <1>4, <2>1
  <2>3. acc.left[c] - 1 \in Nat
    BY <1>1, <1>4, <1>14 DEF found
  <2>4. more.left \in [Contents -> Nat]
    BY <1>1, <1>4, <2>2, <2>3
  <2>5. more \in [left : [Contents -> Nat], only : Seq(Nat), common : Nat]
    <3> DEFINE L == [acc.left EXCEPT ![c] = acc.left[c] - 1]
               N == acc.common + 1
    <3>1. L \in [Contents -> Nat]
      BY <2>2, <2>4
    <3>2. acc.common \in Nat
      BY <1>4
    <3>3. N \in Nat
      BY <3>2
    <3>4. more = [acc EXCEPT !.left = L, !.common = N]
      BY <2>1
    <3> HIDE DEF L, N, more
    <3> QED  BY <1>4, <3>1, <3>3, <3>4
  <2>6. more.common + Len(more.only) = k + 1
    <3> DEFINE n == acc.common
               l == Len(acc.only)
    <3>1. n \in Nat /\ l \in Nat /\ n + l = k
      BY <1>4, <1>11
    <3> HIDE DEF n, l
    <3>2. (n + 1) + l = k + 1
      BY <3>1
    <3> QED  BY <2>2, <3>2, Zenon DEF n, l
  <2>7. more.common = Cardinality(Early(as, bs, k + 1))
        /\ more.common = Cardinality(Partners(as, bs, k + 1))
    BY <1>4, <1>9, <1>13, <1>14, <2>2
  <2>8. ASSUME NEW d \in Contents PROVE P(d, z(d), more.left[d], Leftovers(as, more.only, d))
    <3>1. CASE d = c
      <4>1. more.left[d] = acc.left[d] - 1 /\ Leftovers(as, more.only, d) = o(d) /\ z(d) = x(d) + 1
        BY <1>1, <1>4, <1>5, <2>2, <3>1 DEF o
      <4> QED  BY <1>12, <1>14, <3>1, <4>1, Zenon
    <3>2. CASE d # c
      <4>1. more.left[d] = acc.left[d] /\ Leftovers(as, more.only, d) = o(d) /\ z(d) = x(d)
        BY <1>1, <1>4, <1>6, <2>2, <3>2 DEF o
      <4> QED  BY <1>3, <4>1, Zenon
    <3> QED  BY <3>1, <3>2
  <2>9. Done(as, bs, k + 1, more)
    BY <2>5, <2>6, <2>7, <2>8, Zenon DEF Done, y, z, m
  <2> QED  BY <2>9 DEF more
<1>15. CASE ~found
  <2> HIDE DEF found
  <2>1. more = [acc EXCEPT !.only = Append(acc.only, k + 1)]
    BY <1>8, <1>15
  <2>2. /\ more.left = acc.left /\ more.only = Append(acc.only, k + 1)
        /\ more.common = acc.common
    BY <1>4, <2>1
  <2>3. more \in [left : [Contents -> Nat], only : Seq(Nat), common : Nat]
    BY <1>4, <1>11, <2>1
  <2>4. more.common + Len(more.only) = k + 1
    <3> DEFINE n == acc.common
               l == Len(acc.only)
    <3>1. n \in Nat /\ l \in Nat /\ n + l = k
      BY <1>4, <1>11
    <3> HIDE DEF n, l
    <3>2. n + (l + 1) = k + 1
      BY <3>1
    <3> QED  BY <1>11, <2>2, <3>2, Zenon DEF n, l
  <2>5. more.common = Cardinality(Early(as, bs, k + 1))
        /\ more.common = Cardinality(Partners(as, bs, k + 1))
    <3> DEFINE e == Cardinality(Early(as, bs, k + 1))
               p == Cardinality(Partners(as, bs, k + 1))
    <3>1. e = acc.common + 0 /\ p = acc.common + 0 /\ acc.common \in Nat
      BY <1>4, <1>9, <1>13, <1>15
    <3> HIDE DEF e, p
    <3>2. e = acc.common /\ p = acc.common
      BY <3>1
    <3> QED  BY <2>2, <3>2 DEF e, p
  <2>6. ASSUME NEW d \in Contents PROVE P(d, z(d), more.left[d], Leftovers(as, more.only, d))
    <3>1. CASE d = c
      <4>1. more.left[d] = acc.left[d] /\ Leftovers(as, more.only, d) = o(d) + 1 /\ z(d) = x(d) + 1
        BY <1>5, <1>10, <2>2, <3>1
      <4> QED  BY <1>12, <1>15, <3>1, <4>1, Zenon
    <3>2. CASE d # c
      <4>1. more.left[d] = acc.left[d] /\ Leftovers(as, more.only, d) = o(d) /\ z(d) = x(d)
        BY <1>6, <1>10, <2>2, <3>2
      <4> QED  BY <1>3, <4>1, Zenon
    <3> QED  BY <3>1, <3>2
  <2>7. Done(as, bs, k + 1, more)
    BY <2>3, <2>4, <2>5, <2>6, Zenon DEF Done, y, z, m
  <2> QED  BY <2>7 DEF more
<1> QED  BY <1>14, <1>15

LEMMA WithoutDone ==
  ASSUME NEW as \in Seq(Packets), NEW bs \in Seq(Packets)
  PROVE  Done(as, bs, Len(as), Without(as, bs))
<1>1. PICK f : /\ f[0] = Unmatched(bs)
               /\ \A k \in 1 .. Len(as) : f[k] = Compare(as, f[k - 1], k)
               /\ Without(as, bs) = f[Len(as)]
  BY WithoutIs
<1> DEFINE n == Len(as)
           T == {k \in Nat : k <= n => Done(as, bs, k, f[k])}
<1>2. n \in Nat
  BY LenProperties
<1>3. 0 \in T
  BY <1>1, DoneInit
<1> HIDE DEF n
<1>4. ASSUME NEW k \in Nat, k \in T PROVE k + 1 \in T
  <2>0. k + 1 \in Nat
    OBVIOUS
  <2>1. SUFFICES ASSUME k + 1 <= n PROVE Done(as, bs, k + 1, f[k + 1])
    BY <2>0, Zenon
  <2>2. k < n /\ k <= n /\ k + 1 \in 1 .. n /\ (k + 1) - 1 = k
    BY <1>2, <2>1
  <2>3. Done(as, bs, k, f[k])
    BY <1>4, <2>2
  <2>4. f[k + 1] = Compare(as, f[k], k + 1)
    BY <1>1, <2>2 DEF n
  <2>5. Done(as, bs, k + 1, Compare(as, f[k], k + 1))
    BY <2>2, <2>3, DoneStep DEF n
  <2> QED  BY <2>4, <2>5
<1> HIDE DEF T
<1>5. n \in T
  BY <1>2, <1>3, <1>4, SetInduction
<1>6. Done(as, bs, n, f[n])
  <2>1. n <= n
    BY <1>2
  <2> QED  BY <1>5, <2>1, Zenon DEF T
<1> QED  BY <1>1, <1>6 DEF n

LEMMA MinOfTwo ==
  ASSUME NEW x \in Nat, NEW y \in Nat
  PROVE  Min({x, y}) = IF x <= y THEN x ELSE y
<1>1. \E z \in {x, y} : \A w \in {x, y} : z <= w
  BY x <= y \/ y <= x
<1>2. Min({x, y}) \in {x, y} /\ \A w \in {x, y} : Min({x, y}) <= w
  BY <1>1 DEF Min
<1> QED  BY <1>2

\* The counts of the comparison are those of two multisets.
LEMMA MultisetsCompared ==
  ASSUME NEW as \in Seq(Packets), NEW bs \in Seq(Packets)
  PROVE  /\ Without(as, bs).common + Len(Without(as, bs).only) = Len(as)
         /\ Without(as, bs).common = Without(bs, as).common
         /\ \A c \in Contents :
              Leftovers(as, Without(as, bs).only, c)
                = CountsOf(as)[c] - Min({CountsOf(as)[c], CountsOf(bs)[c]})
<1> DEFINE A == Without(as, bs)
           B == Without(bs, as)
           n == Len(as)
           m == Len(bs)
<1>1. Done(as, bs, n, A) /\ Done(bs, as, m, B)
  BY WithoutDone
<1>2. /\ A.common + Len(A.only) = n
      /\ A.common = Cardinality(Early(as, bs, n))
      /\ B.common = Cardinality(Partners(bs, as, m))
  BY <1>1, Zenon DEF Done
<1>3. Early(as, bs, n) = Partners(bs, as, m)
  BY Zenon DEF Early, Partners
<1>4. ASSUME NEW c \in Contents
      PROVE  Leftovers(as, A.only, c) = CountsOf(as)[c] - Min({CountsOf(as)[c], CountsOf(bs)[c]})
  <2> DEFINE x == Among(as, n, c)
             y == Among(bs, m, c)
             o == Leftovers(as, A.only, c)
  <2>1. x = CountsOf(as)[c] /\ y = CountsOf(bs)[c]
    BY CountsAre
  <2>a. x \in Nat /\ y \in Nat
    BY <2>1, CountsAre
  <2>2. IF x <= y THEN o = 0 ELSE o = x - y
    BY <1>1, Zenon DEF Done
  <2> HIDE DEF x, y, o
  <2>3. o = x - Min({x, y})
    <3> DEFINE z == Min({x, y})
    <3>1. z = IF x <= y THEN x ELSE y
      BY <2>a, MinOfTwo
    <3> HIDE DEF z
    <3>2. o = x - z
      BY <2>a, <2>2, <3>1
    <3> QED  BY <3>2 DEF z
  <2> QED  BY <2>1, <2>3, Zenon DEF o
<1> QED  BY <1>2, <1>3, <1>4, Zenon
-----------------------------------------------------------------------------
(***************************************************************************)
(* Both files are read to their ends: the second is opened when the first  *)
(* has been, and the command ends behind the second.                       *)
(***************************************************************************)
BothRead ==
  cmd.mode = "diff" =>
    /\ file = 2 => broken \/ got[1] = Numbered(files[1])
    /\ main = "exited" => file = 2

LEMMA ReadWhole ==
  ASSUME PInv, cmd.mode = "diff", main # "recv"
  PROVE  broken \/ got[file] = Numbered(files[file])
<1> DEFINE input == Numbered(files[file])
<1>1. /\ files[file] \in Inputs /\ got[file] \in Seq(Packets)
      /\ next \in 0 .. Len(files[file])
  BY FileType DEF PInv, TypeOK
<1>2. /\ ~stop /\ decoded = << >> /\ raw = << >> /\ CaptureEnded
      /\ Held(dec) = << >> /\ Held(cap) = << >>
  BY DEF PInv, Roles, Held, At, CaptureEnded
<1>3. got[file] \o << >> \o << >> \o << >> \o << >> = SubSeq(input, 1, next)
  BY <1>2 DEF PInv, Conserved
<1>4. got[file] = SubSeq(input, 1, next)
  BY <1>1, <1>3, ConcatEmptySeq
<1>5. broken \/ next = Len(files[file])
  BY <1>2 DEF PInv, EndsOnlyWhen
<1>6. input \in Seq(Packets) /\ Len(input) = Len(files[file])
  BY <1>1, InputType
<1>7. SubSeq(input, 1, Len(input)) = input
  BY <1>6, SubSeqFull
<1> QED  BY <1>4, <1>5, <1>6, <1>7, Zenon

LEMMA BothReadNext == PInv /\ BothRead /\ [Next]_vars => BothRead'
<1> SUFFICES ASSUME PInv, BothRead, [Next]_vars, cmd.mode = "diff" PROVE BothRead'
  BY SourcesNext DEF PInv, BothRead
<1>0. /\ cmd' = cmd /\ files' = files /\ DOMAIN got = {1, 2} /\ file \in {1, 2}
      /\ Numbered(files[1])' = Numbered(files[1])
      /\ cmd.view = "json" /\ dec.pc = "none"
  <2>1. TypeOK /\ Sources /\ Roles
    BY DEF PInv
  <2>2. cmd' = cmd /\ files' = files
    BY <2>1, SourcesNext
  <2>3. DOMAIN files = {1, 2} /\ DOMAIN got = DOMAIN files /\ file \in DOMAIN files
    BY <2>1, FileType DEF TypeOK, Sources
  <2>4. cmd.view = "json"
    BY <2>1 DEF TypeOK, Commands
  <2>5. dec.pc = "none"
    BY <2>1 DEF Roles, At
  <2> QED  BY <2>2, <2>3, <2>4, <2>5
<1> USE DEF BothRead
<1>1. CASE UNCHANGED <<file, main, got>> /\ (broken => broken')
  BY <1>0, <1>1
<1>2. CASE ReadRecv
  <2>1. got'[1] = got[1] \/ file = 1
    BY <1>0, <1>2 DEF ReadRecv, Took
  <2>2. file' = file /\ main' # "exited" /\ broken' = broken
    BY <1>2 DEF ReadRecv
  <2> QED  BY <1>0, <2>1, <2>2
<1>3. CASE ReadNext
  <2>1. file = 1 => broken \/ got[1] = Numbered(files[1])
    BY <1>3, ReadWhole DEF ReadNext
  <2>2. /\ got' = got /\ broken' = broken
        /\ \/ file = 1 /\ file' = 2 /\ main' = "recv"
           \/ file # 1 /\ file' = file /\ main' = "exited"
    BY <1>3 DEF ReadNext
  <2> QED  BY <1>0, <2>1, <2>2
<1>4. CASE SetStop \/ DropReceiver
  <2>1. main \in {"recv", "join", "exited"}
    BY DEF PInv, Roles
  <2> QED  BY <1>4, <2>1 DEF SetStop, DropReceiver
<1>5. CASE OutputCheck \/ TuiQuit
  <2>1. main \in {"recv", "join", "exited"}
    BY DEF PInv, Roles
  <2> QED  BY <1>5, <2>1 DEF OutputCheck, TuiQuit
<1>6. CASE Capture \/ CaptureFails \/ Expire \/ UNCHANGED vars
  <2>1. UNCHANGED <<file, main, got>> /\ (broken => broken')
    BY <1>6 DEF Capture, CheckStop, NextPacket, NoPacket, SendRaw, CaptureFails, Expire, vars
  <2> QED  BY <1>1, <2>1
<1>7. CASE Decode \/ OutputRecv \/ TuiDrain \/ Join \/ OutputFails
  BY <1>0, <1>7 DEF Decode, DecodeCheck, DecodeRecv, DecodeSend, OutputRecv, TuiDrain, Join,
     OutputFails
<1> QED
  BY <1>2, <1>3, <1>4, <1>5, <1>6, <1>7 DEF Next, Main

\* For every two files and every capacity, the comparison is the one of
\* multisets: what is only in one file is what it has more of each content,
\* what is common is so for both, and both were read to their ends unless one
\* is damaged (diff_by_content, read_pcap).
THEOREM ComparisonExact == Spec => []DiffIsExact
<1>1. Init => BothRead
  BY DEF Init, BothRead
<1>2. PInv /\ BothRead => DiffIsExact
  <2> SUFFICES ASSUME PInv, BothRead, cmd.mode = "diff", main = "exited"
               PROVE  DiffIsExact
    BY DEF DiffIsExact
  <2> DEFINE as == got[1]
             bs == got[2]
             A == Without(as, bs)
             B == Without(bs, as)
             n(ps, c) == CountsOf(ps)[c]
             Of(ps, is) == [i \in DOMAIN is |-> ps[is[i]]]
  <2>1. as \in Seq(Packets) /\ bs \in Seq(Packets)
    BY FileType DEF PInv, TypeOK
  <2>2. broken \/ \A f \in {1, 2} : got[f] = Numbered(files[f])
    BY ReadWhole DEF BothRead
  <2>3. ASSUME NEW ps, NEW is, NEW c \in Contents PROVE n(Of(ps, is), c) = Leftovers(ps, is, c)
    <3>1. {i \in DOMAIN Of(ps, is) : Of(ps, is)[i].data = c} = {i \in DOMAIN is : ps[is[i]].data = c}
      OBVIOUS
    <3>2. n(Of(ps, is), c) = Cardinality({i \in DOMAIN Of(ps, is) : Of(ps, is)[i].data = c})
      BY DEF CountsOf
    <3> QED  BY <3>1, <3>2, Zenon DEF Leftovers
  <2> HIDE DEF as, bs, A, B
  <2>4. /\ A.common + Len(A.only) = Len(as) /\ B.common + Len(B.only) = Len(bs)
        /\ A.common = B.common
        /\ \A c \in Contents : Leftovers(as, A.only, c) = n(as, c) - Min({n(as, c), n(bs, c)})
        /\ \A c \in Contents : Leftovers(bs, B.only, c) = n(bs, c) - Min({n(bs, c), n(as, c)})
    BY <2>1, MultisetsCompared DEF A, B
  <2>5. \A c \in Contents : {n(bs, c), n(as, c)} = {n(as, c), n(bs, c)}
    OBVIOUS
  <2>6. /\ \A c \in Contents :
             /\ n(as, c) - Min({n(as, c), n(bs, c)}) = n(Of(as, A.only), c)
             /\ n(bs, c) - Min({n(as, c), n(bs, c)}) = n(Of(bs, B.only), c)
        /\ A.common + Len(A.only) = Len(as) /\ A.common + Len(B.only) = Len(bs)
    <3>1. ASSUME NEW c \in Contents
          PROVE  /\ n(as, c) - Min({n(as, c), n(bs, c)}) = n(Of(as, A.only), c)
                 /\ n(bs, c) - Min({n(as, c), n(bs, c)}) = n(Of(bs, B.only), c)
      <4>1. Leftovers(as, A.only, c) = n(as, c) - Min({n(as, c), n(bs, c)})
            /\ Leftovers(bs, B.only, c) = n(bs, c) - Min({n(bs, c), n(as, c)})
        BY <2>4
      <4>2. n(Of(as, A.only), c) = Leftovers(as, A.only, c)
            /\ n(Of(bs, B.only), c) = Leftovers(bs, B.only, c)
        BY <2>3, Zenon
      <4>3. {n(bs, c), n(as, c)} = {n(as, c), n(bs, c)}
        BY <2>5
      <4> QED  BY <4>1, <4>2, <4>3, Zenon
    <3> QED  BY <2>4, <3>1, Zenon
  <2> QED  BY <2>2, <2>6, Zenon DEF DiffIsExact, DiffByContent, as, bs, A, B
<1> QED  BY <1>1, <1>2, BothReadNext, PipelineInductive, PTL DEF Spec
=============================================================================
