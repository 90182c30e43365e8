--------------------------- MODULE Decoding_proofs ---------------------------
(***************************************************************************)
(* Proofs about Decode, for every set of frames and every length of the    *)
(* capture, and about Reassembly and Segments, for any width of the        *)
(* sequence numbers, any length of the stream that is less than half of    *)
(* their circle, any first sequence number and any cap.                    *)
(***************************************************************************)
EXTENDS Decode, Segments, FiniteSetTheorems, SequenceTheorems, WellFoundedInduction,
        TLAPS

(***************************************************************************)
(* The frame on the wire: which headers follow each other, and where they  *)
(* lie.                                                                    *)
(***************************************************************************)
Frame == frame \in Frames

LEMMA HeaderKindsAre ==
  HeaderKinds = {"ethernet", "arp", "ipv4", "ipv6", "tcp", "udp", "icmp", "icmpv6"}
BY DEF HeaderKinds, Minimum

LEMMA MinimumIs ==
  /\ Minimum["ethernet"] = 14 /\ Minimum["arp"] = 28 /\ Minimum["ipv4"] = 20
  /\ Minimum["ipv6"] = 40 /\ Minimum["tcp"] = 20 /\ Minimum["udp"] = 8
  /\ Minimum["icmp"] = 8 /\ Minimum["icmpv6"] = 8
BY DEF Minimum

LEMMA Joined ==
  ASSUME NEW a, NEW b, NEW c
  PROVE  /\ << >> \o << >> = << >> /\ <<a>> \o << >> = <<a>> /\ << >> \o <<a>> = <<a>>
         /\ <<a>> \o <<b>> = <<a, b>> /\ <<a, b>> \o << >> = <<a, b>>
         /\ <<a, b>> \o <<c>> = <<a, b, c>>
<1>1. << >> \o << >> = << >>
  OBVIOUS
<1>2. <<a>> \o << >> = <<a>> 
  OBVIOUS
<1>3. << >> \o <<a>> = <<a>>
  OBVIOUS
<1>4. <<a>> \o <<b>> = <<a, b>>
  <2> DEFINE s == <<a>> \o <<b>>
             t == <<a, b>>
  <2>1. s \in Seq({a, b}) /\ t \in Seq({a, b}) /\ Len(s) = 2 /\ Len(t) = 2
    OBVIOUS
  <2>2. s[1] = a /\ s[2] = b /\ t[1] = a /\ t[2] = b
    OBVIOUS
  <2> HIDE DEF s, t
  <2>3. \A i \in 1 .. 2 : s[i] = t[i]
    BY <2>2
  <2>4. s = t
    BY <2>1, <2>3, SeqEqual
  <2> QED  BY <2>4 DEF s, t
<1>5. <<a, b>> \o << >> = <<a, b>>
  OBVIOUS
<1>6. <<a, b>> \o <<c>> = <<a, b, c>>
  <2> DEFINE s == <<a, b>> \o <<c>>
             t == <<a, b, c>>
  <2>1. s \in Seq({a, b, c}) /\ t \in Seq({a, b, c}) /\ Len(s) = 3 /\ Len(t) = 3
    OBVIOUS
  <2>2. s[1] = a /\ s[2] = b /\ s[3] = c /\ t[1] = a /\ t[2] = b /\ t[3] = c
    OBVIOUS
  <2> HIDE DEF s, t
  <2>3. \A i \in 1 .. 3 : s[i] = t[i]
    BY <2>2
  <2>4. s = t
    BY <2>1, <2>3, SeqEqual
  <2> QED  BY <2>4 DEF s, t
<1> QED  BY <1>1, <1>2, <1>3, <1>4, <1>5, <1>6

HasNet       == frame.net # "other"
HasTransport == frame.net \in {"ipv4", "ipv6"} /\ frame.protocol # "other"

LEMMA HeadersAre ==
  /\ frame.link = "ethernet" =>
       /\ ~HasNet => WireHeaders = <<"ethernet">>
       /\ HasNet /\ ~HasTransport => WireHeaders = <<"ethernet", frame.net>>
       /\ HasTransport => WireHeaders = <<"ethernet", frame.net, frame.protocol>>
  /\ frame.link # "ethernet" =>
       /\ ~HasNet => WireHeaders = << >>
       /\ HasNet /\ ~HasTransport => WireHeaders = <<frame.net>>
       /\ HasTransport => WireHeaders = <<frame.net, frame.protocol>>
<1> DEFINE l == IF frame.link = "ethernet" THEN <<"ethernet">> ELSE << >>
           n == IF frame.net = "other" THEN << >> ELSE <<frame.net>>
           t == IF frame.net \in {"ipv4", "ipv6"} /\ frame.protocol # "other"
                THEN <<frame.protocol>> ELSE << >>
<1>1. WireHeaders = (l \o n) \o t
  BY DEF WireHeaders
<1>2. /\ frame.link = "ethernet" => l = <<"ethernet">>
      /\ frame.link # "ethernet" => l = << >>
      /\ HasNet => n = <<frame.net>>
      /\ ~HasNet => n = << >>
      /\ HasTransport => t = <<frame.protocol>>
      /\ ~HasTransport => t = << >>
      /\ HasTransport => HasNet
  BY DEF HasNet, HasTransport
<1> HIDE DEF l, n, t, HasNet, HasTransport
<1>3. ASSUME NEW a, NEW b, NEW c
      PROVE  /\ << >> \o << >> = << >> /\ <<a>> \o << >> = <<a>> /\ << >> \o <<a>> = <<a>>
             /\ <<a>> \o <<b>> = <<a, b>> /\ <<a, b>> \o << >> = <<a, b>>
             /\ <<a, b>> \o <<c>> = <<a, b, c>>
  BY Joined
<1>4. CASE l = << >>
  BY <1>1, <1>2, <1>3, <1>4, ZenonT(40)
<1>5. CASE l = <<"ethernet">>
  <2>1. CASE n = << >>
    <3>1. ~HasNet
      BY <1>2, <2>1
    <3> QED  BY <1>1, <1>2, <1>3, <1>5, <2>1, <3>1, ZenonT(40)
  <2>2. CASE n = <<frame.net>>
    BY <1>1, <1>2, <1>3, <1>5, <2>2, ZenonT(40)
  <2> QED  BY <1>2, <2>1, <2>2, Zenon
<1> QED  BY <1>2, <1>4, <1>5, Zenon

\* WireEnd is a sum: the recursion has a solution for every number of headers.
End(i, e) ==
  e = [n \in 0 .. i |-> IF n = 0 THEN 0 ELSE e[n - 1] + OnWire(WireHeaders[n])]

LEMMA EndExists ==
  ASSUME NEW i \in 0 .. 3
  PROVE  \E e : End(i, e)
<1> DEFINE a == 0 + OnWire(WireHeaders[1])
           b == a + OnWire(WireHeaders[2])
           c == b + OnWire(WireHeaders[3])
           e == [n \in 0 .. i |-> IF n = 0 THEN 0 ELSE IF n = 1 THEN a ELSE IF n = 2 THEN b ELSE c]
           f == [n \in 0 .. i |-> IF n = 0 THEN 0 ELSE e[n - 1] + OnWire(WireHeaders[n])]
<1>1. ASSUME NEW n \in 0 .. i PROVE e[n] = f[n]
  <2>1. CASE n = 0
    BY <2>1
  <2>2. CASE n = 1
    <3>1. e[0] = 0 /\ e[1] = a
      BY <2>2
    <3>2. f[1] = e[0] + OnWire(WireHeaders[1])
      BY <2>2
    <3> QED  BY <2>2, <3>1, <3>2
  <2>3. CASE n = 2
    <3>1. e[1] = a /\ e[2] = b
      BY <2>3
    <3>2. f[2] = e[1] + OnWire(WireHeaders[2])
      BY <2>3
    <3> QED  BY <2>3, <3>1, <3>2
  <2>4. CASE n = 3
    <3>1. e[2] = b /\ e[3] = c
      BY <2>4
    <3>2. f[3] = e[2] + OnWire(WireHeaders[3])
      BY <2>4
    <3> QED  BY <2>4, <3>1, <3>2
  <2> QED  BY <2>1, <2>2, <2>3, <2>4
<1>2. e = f
  BY <1>1
<1> HIDE DEF e
<1> QED  BY <1>2 DEF End

LEMMA EndIs ==
  ASSUME NEW i \in 0 .. 3
  PROVE  \E e : /\ WireEnd(i) = e[i]
                /\ e[0] = 0
                /\ \A n \in 1 .. i : e[n] = e[n - 1] + OnWire(WireHeaders[n])
<1> DEFINE e == CHOOSE e : End(i, e)
<1>1. End(i, e)
  <2>1. \E f : End(i, f)
    BY EndExists
  <2> QED  BY <2>1, Zenon
<1>2. WireEnd(i) = e[i]
  BY DEF WireEnd, End
<1> HIDE DEF e
<1>3. e[0] = 0 /\ \A n \in 1 .. i : e[n] = e[n - 1] + OnWire(WireHeaders[n])
  BY <1>1 DEF End
<1> QED  BY <1>2, <1>3

LEMMA WireEnds ==
  /\ WireEnd(0) = 0
  /\ \A n \in 0 .. 2 : WireEnd(n + 1) = WireEnd(n) + OnWire(WireHeaders[n + 1])
<1> DEFINE o(n) == OnWire(WireHeaders[n])
<1>1. ASSUME NEW i \in 0 .. 3
      PROVE  \E e : /\ WireEnd(i) = e[i]
                    /\ e[0] = 0
                    /\ \A n \in 1 .. i : e[n] = e[n - 1] + o(n)
  BY EndIs
<1> HIDE DEF o
<1>2. WireEnd(0) = 0
  BY <1>1
<1>3. WireEnd(1) = 0 + o(1)
  <2> PICK e : WireEnd(1) = e[1] /\ e[0] = 0 /\ \A n \in 1 .. 1 : e[n] = e[n - 1] + o(n)
    BY <1>1
  <2> QED  OBVIOUS
<1>4. WireEnd(2) = (0 + o(1)) + o(2)
  <2> PICK e : WireEnd(2) = e[2] /\ e[0] = 0 /\ \A n \in 1 .. 2 : e[n] = e[n - 1] + o(n)
    BY <1>1
  <2> QED  OBVIOUS
<1>5. WireEnd(3) = ((0 + o(1)) + o(2)) + o(3)
  <2> PICK e : WireEnd(3) = e[3] /\ e[0] = 0 /\ \A n \in 1 .. 3 : e[n] = e[n - 1] + o(n)
    BY <1>1
  <2> QED  OBVIOUS
<1>6. \A n \in 0 .. 2 : WireEnd(n + 1) = WireEnd(n) + o(n + 1)
  BY <1>2, <1>3, <1>4, <1>5
<1> QED  BY <1>2, <1>6 DEF o

N == Len(WireHeaders)
Upper == {"tcp", "udp", "icmp", "icmpv6"}

\* What the frame makes of the headers, whatever it is: which one follows which.
Follows(i) ==
  /\ WireHeaders[i] \in HeaderKinds
  /\ WireHeaders[i] = "ethernet" =>
       /\ frame.link = "ethernet" /\ (i < N <=> HasNet)
       /\ i < N => WireHeaders[i + 1] = frame.net
  /\ WireHeaders[i] \in {"ipv4", "ipv6"} =>
       /\ WireHeaders[i] = frame.net /\ (i < N <=> frame.protocol # "other")
       /\ i < N => WireHeaders[i + 1] = frame.protocol
  /\ WireHeaders[i] = "arp" => i = N /\ frame.net = "arp"
  /\ WireHeaders[i] \in Upper =>
       i = N /\ WireHeaders[i] = frame.protocol /\ frame.net \in {"ipv4", "ipv6"}

LEMMA HeadersFollow ==
  ASSUME Frame
  PROVE  /\ N \in 0 .. 3
         /\ frame.link = "ethernet" => N > 0 /\ WireHeaders[1] = "ethernet"
         /\ frame.link # "ethernet" => (N > 0 <=> HasNet) /\ (N > 0 => WireHeaders[1] = frame.net)
         /\ \A i \in 1 .. N : Follows(i)
<1> DEFINE net == frame.net
           protocol == frame.protocol
           kinds == HeaderKinds
<1>1. /\ net \in {"ipv4", "ipv6", "arp", "other"}
      /\ protocol \in {"tcp", "udp", "icmp", "icmpv6", "other"}
  BY FramesAssumption DEF Frame
<1>2. /\ HasNet <=> net # "other"
      /\ HasTransport <=> net \in {"ipv4", "ipv6"} /\ protocol # "other"
  BY DEF HasNet, HasTransport
<1>3. /\ {"ethernet", "arp", "ipv4", "ipv6"} \subseteq kinds
      /\ {"tcp", "udp", "icmp", "icmpv6"} \subseteq kinds
  BY HeaderKindsAre
<1> HIDE DEF kinds
<1> SUFFICES /\ N \in 0 .. 3
             /\ frame.link = "ethernet" => N > 0 /\ WireHeaders[1] = "ethernet"
             /\ frame.link # "ethernet" =>
                  (N > 0 <=> HasNet) /\ (N > 0 => WireHeaders[1] = net)
             /\ \A i \in 1 .. N :
                  /\ WireHeaders[i] \in kinds
                  /\ WireHeaders[i] = "ethernet" =>
                       /\ frame.link = "ethernet" /\ (i < N <=> HasNet)
                       /\ i < N => WireHeaders[i + 1] = net
                  /\ WireHeaders[i] \in {"ipv4", "ipv6"} =>
                       /\ WireHeaders[i] = net /\ (i < N <=> protocol # "other")
                       /\ i < N => WireHeaders[i + 1] = protocol
                  /\ WireHeaders[i] = "arp" => i = N /\ net = "arp"
                  /\ WireHeaders[i] \in {"tcp", "udp", "icmp", "icmpv6"} =>
                       i = N /\ WireHeaders[i] = protocol /\ net \in {"ipv4", "ipv6"}
  BY DEF Follows, Upper, kinds
<1>4. CASE frame.link = "ethernet" /\ HasTransport
  <2>1. WireHeaders = <<"ethernet", net, protocol>> /\ N = 3
    BY <1>4, HeadersAre DEF N
  <2> HIDE DEF net, protocol
  <2> QED  BY <1>1, <1>2, <1>3, <1>4, <2>1
<1>5. CASE frame.link = "ethernet" /\ HasNet /\ ~HasTransport
  <2>1. WireHeaders = <<"ethernet", net>> /\ N = 2
    BY <1>5, HeadersAre DEF N
  <2> HIDE DEF net, protocol
  <2> QED  BY <1>1, <1>2, <1>3, <1>5, <2>1
<1>6. CASE frame.link = "ethernet" /\ ~HasNet
  <2>1. WireHeaders = <<"ethernet">> /\ N = 1
    BY <1>6, HeadersAre DEF N
  <2> HIDE DEF net, protocol
  <2> QED  BY <1>1, <1>2, <1>3, <1>6, <2>1
<1>7. CASE frame.link # "ethernet" /\ HasTransport
  <2>1. WireHeaders = <<net, protocol>> /\ N = 2
    BY <1>7, HeadersAre DEF N
  <2> HIDE DEF net, protocol
  <2> QED  BY <1>1, <1>2, <1>3, <1>7, <2>1
<1>8. CASE frame.link # "ethernet" /\ HasNet /\ ~HasTransport
  <2>1. WireHeaders = <<net>> /\ N = 1
    BY <1>8, HeadersAre DEF N
  <2> HIDE DEF net, protocol
  <2> QED  BY <1>1, <1>2, <1>3, <1>8, <2>1
<1>9. CASE frame.link # "ethernet" /\ ~HasNet
  <2>1. WireHeaders = << >> /\ N = 0
    BY <1>9, HeadersAre DEF N
  <2> HIDE DEF net, protocol
  <2> QED  BY <1>1, <1>2, <1>3, <1>9, <2>1
<1> QED  BY <1>2, <1>4, <1>5, <1>6, <1>7, <1>8, <1>9

LEMMA OnWireNat ==
  ASSUME Frame, NEW kind \in HeaderKinds
  PROVE  OnWire(kind) \in Nat /\ (kind \notin {"ipv4", "tcp"} => OnWire(kind) = Minimum[kind])
<1>1. frame.ihl \in Nat /\ frame.dataOffset \in Nat
  BY FramesAssumption DEF Frame
<1>2. Minimum[kind] \in Nat
  BY HeaderKindsAre, MinimumIs
<1> QED  BY <1>1, <1>2 DEF OnWire

\* The headers lie behind each other.
LEMMA WireGrows ==
  ASSUME Frame
  PROVE  /\ N \in Nat
         /\ WireEnd(0) = 0
         /\ \A i \in 0 .. N : WireEnd(i) \in Nat
         /\ \A i \in 1 .. N : /\ WireHeaders[i] \in HeaderKinds
                              /\ OnWire(WireHeaders[i]) \in Nat
                              /\ WireEnd(i) = WireEnd(i - 1) + OnWire(WireHeaders[i])
<1> DEFINE o(i) == OnWire(WireHeaders[i])
           w(i) == WireEnd(i)
<1>1. N \in 0 .. 3 /\ \A i \in 1 .. N : WireHeaders[i] \in HeaderKinds
  BY HeadersFollow DEF Follows
<1>2. \A i \in 1 .. N : o(i) \in Nat
  BY <1>1, OnWireNat
<1>3. w(0) = 0 /\ \A n \in 0 .. 2 : w(n + 1) = w(n) + o(n + 1)
  BY WireEnds
<1> HIDE DEF o, w
<1>4. \A i \in 1 .. N : w(i) = w(i - 1) + o(i)
  BY <1>1, <1>3
<1>5. \A i \in 0 .. N : w(i) \in Nat
  <2>1. CASE N = 0
    BY <1>3, <2>1
  <2>2. CASE N = 1
    BY <1>2, <1>3, <1>4, <2>2
  <2>3. CASE N = 2
    BY <1>2, <1>3, <1>4, <2>3
  <2>4. CASE N = 3
    BY <1>2, <1>3, <1>4, <2>4
  <2> QED  BY <1>1, <2>1, <2>2, <2>3, <2>4
<1> QED  BY <1>1, <1>2, <1>3, <1>4, <1>5 DEF o, w

-----------------------------------------------------------------------------
(***************************************************************************)
(* The inductive invariant: the first n headers were taken, and the next   *)
(* one is what the decoder names, if it is announced; or the payload is to *)
(* be looked at; or decoding is over, because header n + 1 is not to be    *)
(* seen.                                                                   *)
(***************************************************************************)
Stage(n) ==
  /\ \A i \in 1 .. n : layers[i] = Layer(WireHeaders[i], WireEnd(i - 1), WireEnd(i))
  /\ n > 0 => Seen(n)
  /\ offset = WireEnd(n)

Awaited(n) ==
  /\ n < N /\ what = WireHeaders[n + 1]
  /\ frame.link # "other" /\ Announced(n + 1)
  /\ Len(layers) = n

Reached(n) == n = N /\ n > 0 /\ WireHeaders[n] \in Transports /\ captured > offset
Heard == frame.message \in Tried /\ captured - offset >= Needs(frame.message)

\* The payload, and in front of it the message if one is recognised.
Rest(n) ==
  /\ Heard => /\ Len(layers) = n + 2
              /\ layers[n + 1] = Layer(frame.message, offset, captured)
              /\ layers[n + 2] = Layer("payload", offset, captured)
  /\ ~Heard => Len(layers) = n + 1 /\ layers[n + 1] = Layer("payload", offset, captured)

Over(n) ==
  /\ what = None
  /\ n < N => ~Seen(n + 1)
  /\ Reached(n) => Rest(n)
  /\ ~Reached(n) => Len(layers) = n

Taken(n) ==
  /\ Stage(n)
  /\ Awaited(n) \/ (what = "application" /\ Reached(n) /\ Len(layers) = n) \/ Over(n)

IsSequence(s) == \E S : s \in Seq(S)

ChainInv ==
  /\ Frame /\ captured \in Nat /\ captured <= WireLength
  /\ IsSequence(layers)
  /\ \E n \in 0 .. N : Taken(n)

-----------------------------------------------------------------------------
LEMMA LayerIs ==
  ASSUME NEW kind, NEW from, NEW to
  PROVE  /\ Layer(kind, from, to).kind = kind
         /\ Layer(kind, from, to).from = from
         /\ Layer(kind, from, to).to = to
BY DEF Layer

\* What is on the wire does not change while it is decoded.
LEMMA HeadersSame ==
  ASSUME UNCHANGED frame
  PROVE  WireHeaders' = WireHeaders /\ N' = N /\ (Frame' <=> Frame)
<1>1. WireHeaders' = WireHeaders
  BY DEF WireHeaders
<1> QED  BY <1>1 DEF N, Frame

LEMMA EndSame ==
  ASSUME UNCHANGED frame, NEW i
  PROVE  WireEnd(i)' = WireEnd(i)
<1>1. WireHeaders' = WireHeaders
  BY HeadersSame
<1> QED  BY <1>1 DEF WireEnd, OnWire

LEMMA LayerSame ==
  ASSUME UNCHANGED frame, NEW kind, NEW from, NEW to
  PROVE  Layer(kind, from, to)' = Layer(kind, from, to)
BY DEF Layer, Values

\* A header is seen when it is announced, whole and well formed, and so were those
\* before it.
LEMMA SeenNext ==
  ASSUME Frame, NEW n \in 0 .. N - 1, frame.link # "other", n > 0 => Seen(n), Announced(n + 1)
  PROVE  Seen(n + 1) <=> WireEnd(n + 1) <= captured /\ WellFormed(WireHeaders[n + 1])
<1>1. n \in Nat /\ N \in Nat
  BY WireGrows
<1>2. \A j \in 1 .. n + 1 : j = n + 1 \/ j \in 1 .. n
  BY <1>1
<1>3. \A j \in 1 .. n : WireEnd(j) <= captured /\ WellFormed(WireHeaders[j]) /\ Announced(j)
  <2>1. CASE n = 0
    BY <2>1
  <2>2. CASE n > 0
    BY <2>2, Zenon DEF Seen
  <2> QED  BY <1>1, <2>1, <2>2
<1>4. n + 1 \in 1 .. n + 1
  BY <1>1
<1>5. Seen(n + 1) => WireEnd(n + 1) <= captured /\ WellFormed(WireHeaders[n + 1])
  BY <1>4, Zenon DEF Seen
<1>6. ASSUME WireEnd(n + 1) <= captured, WellFormed(WireHeaders[n + 1])
      PROVE  Seen(n + 1)
  <2>1. ASSUME NEW j \in 1 .. n + 1
        PROVE  WireEnd(j) <= captured /\ WellFormed(WireHeaders[j]) /\ Announced(j)
    <3>1. CASE j = n + 1
      BY <1>6, <3>1, Zenon
    <3>2. CASE j \in 1 .. n
      BY <1>3, <3>2, Zenon
    <3> QED  BY <1>2, <3>1, <3>2, Zenon
  <2> QED  BY <2>1, Zenon DEF Seen
<1> QED  BY <1>5, <1>6

\* A decoder accepts its header exactly when it is whole and well formed, and goes
\* on where it ends.
LEMMA AcceptsWhole ==
  ASSUME Frame, captured \in Nat, NEW n \in 0 .. N - 1, offset = WireEnd(n)
  PROVE  /\ Accepts(WireHeaders[n + 1]) <=>
              WireEnd(n + 1) <= captured /\ WellFormed(WireHeaders[n + 1])
         /\ offset + Length(WireHeaders[n + 1]) = WireEnd(n + 1)
<1> DEFINE k == WireHeaders[n + 1]
           e == WireEnd(n + 1)
<1>1. N \in Nat /\ n \in Nat /\ n \in 0 .. N /\ n + 1 \in 1 .. N /\ (n + 1) - 1 = n
  BY WireGrows
<1>2. k \in HeaderKinds /\ offset \in Nat /\ OnWire(k) \in Nat /\ e = offset + OnWire(k)
  BY <1>1, WireGrows
<1> HIDE DEF k, e
<1>3. Length(k) = OnWire(k)
  BY DEF Length, OnWire
<1>4. frame.ihl \in Nat /\ frame.dataOffset \in Nat
  BY FramesAssumption DEF Frame
<1>5. Accepts(k) <=> e <= captured /\ WellFormed(k)
  <2>1. CASE k = "ipv4"
    <3>1. OnWire(k) = 4 * frame.ihl /\ Minimum[k] = 20
      BY <2>1, MinimumIs DEF OnWire
    <3>2. WellFormed(k) <=> frame.version = 4 /\ frame.ihl >= 5
      BY <2>1 DEF WellFormed
    <3> QED  BY <1>2, <1>3, <1>4, <2>1, <3>1, <3>2 DEF Accepts, Remaining
  <2>2. CASE k = "tcp"
    <3>1. OnWire(k) = 4 * frame.dataOffset /\ Minimum[k] = 20
      BY <2>2, MinimumIs DEF OnWire
    <3>2. WellFormed(k) <=> frame.dataOffset >= 5
      BY <2>2 DEF WellFormed
    <3> QED  BY <1>2, <1>3, <1>4, <2>2, <3>1, <3>2 DEF Accepts, Remaining
  <2>3. CASE k \notin {"ipv4", "tcp"}
    <3>1. OnWire(k) = Minimum[k]
      BY <1>2, <2>3, OnWireNat
    <3>2. WellFormed(k) <=> (k = "ipv6" => frame.version = 6)
      BY <2>3 DEF WellFormed
    <3> QED  BY <1>2, <1>3, <2>3, <3>1, <3>2 DEF Accepts, Remaining
  <2> QED  BY <2>1, <2>2, <2>3
<1> QED  BY <1>2, <1>3, <1>5 DEF k, e

\* What is right to name behind m headers.
Continues(m, next) ==
  \/ m < N /\ next = WireHeaders[m + 1] /\ Announced(m + 1)
  \/ /\ m = N /\ WireHeaders[m] \in Transports /\ captured > WireEnd(m)
     /\ next = "application"
  \/ /\ next = None
     /\ m < N => ~Announced(m + 1)
     /\ ~(m = N /\ WireHeaders[m] \in Transports /\ captured > WireEnd(m))

LEMMA NotNone ==
  /\ None \notin HeaderKinds /\ None # "application" /\ "application" \notin HeaderKinds
  /\ "payload" \notin HeaderKinds /\ \A m \in Messages : m \notin HeaderKinds
BY FramesAssumption, HeaderKindsAre DEF Messages

LEMMA SeenSame ==
  ASSUME UNCHANGED <<frame, captured>>, NEW i
  PROVE  /\ Announced(i)' <=> Announced(i)
         /\ Seen(i)' <=> Seen(i)
<1>1. WireHeaders' = WireHeaders
  BY HeadersSame
<1>2. ASSUME NEW j PROVE Announced(j)' <=> Announced(j)
  BY <1>1 DEF Announced
<1>3. ASSUME NEW kind PROVE WellFormed(kind)' <=> WellFormed(kind)
  BY DEF WellFormed
<1>4. ASSUME NEW j PROVE WireEnd(j)' = WireEnd(j)
  BY EndSame
<1> QED  BY <1>1, <1>2, <1>3, <1>4 DEF Seen

\* What was taken stays: the layers of the first n headers are the same in a list
\* that has more of them.
LEMMA StageKept ==
  ASSUME UNCHANGED <<frame, captured, offset>>, NEW n \in Nat, Stage(n),
         \A i \in 1 .. n : layers'[i] = layers[i]
  PROVE  Stage(n)'
<1>1. WireHeaders' = WireHeaders
  BY HeadersSame
<1>2. WireEnd(n)' = WireEnd(n) /\ (Seen(n)' <=> Seen(n))
  BY EndSame, SeenSame
<1>3. ASSUME NEW i \in 1 .. n
      PROVE  layers'[i] = Layer(WireHeaders[i], WireEnd(i - 1), WireEnd(i))'
  <2>1. layers'[i] = Layer(WireHeaders[i], WireEnd(i - 1), WireEnd(i))
    BY DEF Stage
  <2>2. WireEnd(i)' = WireEnd(i) /\ WireEnd(i - 1)' = WireEnd(i - 1)
    BY EndSame
  <2> QED  BY <1>1, <2>1, <2>2 DEF Layer, Values
<1> QED  BY <1>2, <1>3 DEF Stage

LEMMA LengthSame ==
  ASSUME UNCHANGED <<frame, captured>>
  PROVE  WireLength' = WireLength
<1>1. N' = N
  BY HeadersSame
<1>2. WireEnd(N)' = WireEnd(N)
  <2>1. ASSUME NEW i PROVE WireEnd(i)' = WireEnd(i)
    BY EndSame
  <2> QED  BY <1>1, <2>1 DEF WireEnd, OnWire, N, WireHeaders
<1> QED  BY <1>2 DEF WireLength, N

\* A decoder refuses: decoding is over.
LEMMA Refusing ==
  ASSUME ChainInv, NEW kind \in HeaderKinds, NEW next, Header(kind, next), ~Accepts(kind)
  PROVE  ChainInv'
<1>1. UNCHANGED <<frame, captured, offset, layers>> /\ what' = None /\ what = kind
  BY DEF Header
<1>2. PICK n \in 0 .. N : Taken(n)
  BY DEF ChainInv
<1>3. Awaited(n) /\ Stage(n) /\ Frame
  BY <1>1, <1>2, NotNone, Zenon DEF ChainInv, Taken, Over
<1>4. N \in Nat
  BY <1>3, WireGrows
<1>5. ~Seen(n + 1)
  <2>1. n \in 0 .. N - 1
    BY <1>4, <1>3 DEF Awaited
  <2>2. kind = WireHeaders[n + 1] /\ offset = WireEnd(n) /\ captured \in Nat
    BY <1>1, <1>3 DEF Awaited, Stage, ChainInv
  <2>3. ~(WireEnd(n + 1) <= captured /\ WellFormed(WireHeaders[n + 1]))
    BY <1>3, <2>1, <2>2, AcceptsWhole
  <2> QED  BY <1>3, <2>1, <2>3, SeenNext DEF Awaited, Stage
<1>6. Stage(n)'
  BY <1>1, <1>3, StageKept
<1>7. Over(n)'
  <2>1. N' = N /\ WireHeaders' = WireHeaders /\ (Seen(n + 1)' <=> Seen(n + 1))
    BY <1>1, HeadersSame, SeenSame
  <2>2. n < N /\ Len(layers) = n
    BY <1>3 DEF Awaited
  <2>3. ~Reached(n)'
    BY <1>4, <2>1, <2>2 DEF Reached
  <2> QED  BY <1>1, <1>5, <2>1, <2>2, <2>3 DEF Over
<1>8. N' = N /\ (Frame' <=> Frame) /\ WireLength' = WireLength
  BY <1>1, HeadersSame, LengthSame
<1> QED  BY <1>1, <1>6, <1>7, <1>8 DEF ChainInv, Taken, IsSequence

\* A decoder takes its header, and names the next one rightly.
LEMMA Accepting ==
  ASSUME ChainInv, NEW kind \in HeaderKinds, NEW next, Header(kind, next), Accepts(kind),
         \A n \in 0 .. N - 1 :
           WireHeaders[n + 1] = kind /\ offset = WireEnd(n) => Continues(n + 1, next)
  PROVE  ChainInv'
<1>1. /\ UNCHANGED <<frame, captured>> /\ what' = next /\ what = kind
      /\ layers' = Append(layers, Layer(kind, offset, offset + Length(kind)))
      /\ offset' = offset + Length(kind)
  BY DEF Header
<1>2. PICK n \in 0 .. N : Taken(n)
  BY DEF ChainInv
<1>3. Awaited(n) /\ Stage(n) /\ Frame /\ captured \in Nat
  BY <1>1, <1>2, NotNone, Zenon DEF ChainInv, Taken, Over
<1>4. N \in Nat /\ n \in 0 .. N - 1 /\ n \in Nat /\ n + 1 \in 0 .. N
  <2>1. N \in Nat
    BY <1>3, WireGrows
  <2> QED  BY <1>3, <2>1 DEF Awaited
<1>5. kind = WireHeaders[n + 1] /\ offset = WireEnd(n) /\ Len(layers) = n
      /\ Announced(n + 1) /\ frame.link # "other"
  BY <1>1, <1>3 DEF Awaited, Stage
<1>6. offset' = WireEnd(n + 1) /\ Seen(n + 1)
  <2>1. WireEnd(n + 1) <= captured /\ WellFormed(WireHeaders[n + 1])
        /\ offset + Length(kind) = WireEnd(n + 1)
    BY <1>3, <1>4, <1>5, AcceptsWhole
  <2>2. Seen(n + 1)
    BY <1>3, <1>4, <1>5, <2>1, SeenNext DEF Stage
  <2> QED  BY <1>1, <2>1, <2>2
<1>7. /\ IsSequence(layers') /\ Len(layers') = n + 1
      /\ \A i \in 1 .. n : layers'[i] = layers[i]
      /\ layers'[n + 1] = Layer(kind, offset, offset')
  <2> DEFINE l == Layer(kind, offset, offset + Length(kind))
  <2>1. PICK S : layers \in Seq(S)
    BY DEF ChainInv, IsSequence
  <2>2. layers' = Append(layers, l) /\ offset' = offset + Length(kind)
    BY <1>1
  <2>3. layers'[n + 1] = Layer(kind, offset, offset') <=> layers'[n + 1] = l
    BY <2>2
  <2> HIDE DEF l
  <2>4. layers \in Seq(S \cup {l}) /\ l \in S \cup {l}
    BY <2>1
  <2>5. layers' \in Seq(S \cup {l})
    BY <2>2, <2>4
  <2> QED  BY <1>4, <1>5, <2>2, <2>3, <2>4, <2>5 DEF IsSequence
<1>8. N' = N /\ WireHeaders' = WireHeaders /\ (Frame' <=> Frame) /\ WireLength' = WireLength
  BY <1>1, HeadersSame, LengthSame
<1>9. ASSUME NEW i PROVE WireEnd(i)' = WireEnd(i) /\ (Seen(i)' <=> Seen(i))
                         /\ (Announced(i)' <=> Announced(i))
  BY <1>1, EndSame, SeenSame
<1>10. Stage(n + 1)'
  <2>1. ASSUME NEW i \in 1 .. n + 1
        PROVE  layers'[i] = Layer(WireHeaders[i], WireEnd(i - 1), WireEnd(i))'
    <3>1. layers'[i] = Layer(WireHeaders[i], WireEnd(i - 1), WireEnd(i))
      <4>1. CASE i = n + 1
        <5>1. i - 1 = n
          BY <1>4, <4>1
        <5> QED  BY <1>5, <1>6, <1>7, <4>1, <5>1
      <4>2. CASE i \in 1 .. n
        BY <1>3, <1>7, <4>2 DEF Stage
      <4> QED  BY <1>4, <4>1, <4>2
    <3>2. WireEnd(i)' = WireEnd(i) /\ WireEnd(i - 1)' = WireEnd(i - 1)
      BY <1>9
    <3> QED  BY <1>1, <1>8, <3>1, <3>2 DEF Layer, Values
  <2> QED  BY <1>6, <1>9, <2>1 DEF Stage
<1>11. Continues(n + 1, next)
  BY <1>4, <1>5
<1>12. Taken(n + 1)'
  <2>1. CASE n + 1 < N /\ next = WireHeaders[n + 2] /\ Announced(n + 2)
    <3>1. (n + 1) + 1 = n + 2
      BY <1>4
    <3> QED  BY <1>1, <1>5, <1>7, <1>8, <1>9, <1>10, <2>1, <3>1 DEF Taken, Awaited
  <2>2. CASE /\ n + 1 = N /\ WireHeaders[n + 1] \in Transports /\ captured > WireEnd(n + 1)
             /\ next = "application"
    <3>1. Reached(n + 1)'
      BY <1>1, <1>4, <1>6, <1>8, <2>2 DEF Reached
    <3> QED  BY <1>1, <1>7, <1>10, <2>2, <3>1 DEF Taken
  <2>3. CASE /\ next = None
             /\ n + 1 < N => ~Announced(n + 2)
             /\ ~(n + 1 = N /\ WireHeaders[n + 1] \in Transports /\ captured > WireEnd(n + 1))
    <3>1. ~Reached(n + 1)'
      BY <1>1, <1>4, <1>6, <1>8, <2>3 DEF Reached
    <3>2. n + 1 < N => ~Seen(n + 2)'
      <4>1. n + 2 \in 1 .. n + 2
        BY <1>4
      <4>2. Seen(n + 2) => Announced(n + 2)
        BY <4>1, Zenon DEF Seen
      <4> QED  BY <1>9, <2>3, <4>2
    <3>3. (n + 1) + 1 = n + 2
      BY <1>4
    <3> QED  BY <1>1, <1>7, <1>8, <1>10, <2>3, <3>1, <3>2, <3>3 DEF Taken, Over
  <2>4. (n + 1) + 1 = n + 2
    BY <1>4
  <2> QED  BY <1>11, <2>1, <2>2, <2>3, <2>4 DEF Continues
<1>13. captured' \in Nat /\ captured' <= WireLength'
  BY <1>1, <1>8 DEF ChainInv
<1> QED  BY <1>3, <1>4, <1>7, <1>8, <1>12, <1>13 DEF ChainInv

-----------------------------------------------------------------------------
\* Which header each decoder names next is the one that is announced.
LEMMA EthernetNames ==
  ASSUME Frame, NEW m \in 1 .. N, WireHeaders[m] = "ethernet"
  PROVE  Continues(m, Among(frame.ethertype, {"ipv4", "ipv6", "arp"}))
<1>1. /\ frame.link = "ethernet" /\ (m < N <=> HasNet)
      /\ m < N => WireHeaders[m + 1] = frame.net
  BY HeadersFollow DEF Follows
<1>2. /\ frame.net \in {"ipv4", "ipv6", "arp", "other"}
      /\ frame.ethertype \in {frame.net, "other"}
  BY FramesAssumption DEF Frame
<1>3. m < N => (Announced(m + 1) <=> frame.ethertype = frame.net)
  BY <1>1, <1>2 DEF Announced, HasNet
<1>4. Among(frame.ethertype, {"ipv4", "ipv6", "arp"})
        = IF frame.ethertype \in {"ipv4", "ipv6", "arp"} THEN frame.ethertype ELSE None
  BY DEF Among
<1>5. WireHeaders[m] \notin Transports
  BY DEF Transports
<1> QED  BY <1>1, <1>2, <1>3, <1>4, <1>5 DEF Continues, HasNet

LEMMA IpNames ==
  ASSUME Frame, NEW m \in 1 .. N, WireHeaders[m] \in {"ipv4", "ipv6"}
  PROVE  /\ WireHeaders[m] = "ipv4" => Continues(m, Among(frame.protocol, {"icmp", "tcp", "udp"}))
         /\ WireHeaders[m] = "ipv6" => Continues(m, Among(frame.protocol, {"icmpv6", "tcp", "udp"}))
<1>1. /\ WireHeaders[m] = frame.net /\ (m < N <=> frame.protocol # "other")
      /\ m < N => WireHeaders[m + 1] = frame.protocol
  BY HeadersFollow DEF Follows
<1>2. frame.protocol \in {"tcp", "udp", "icmp", "icmpv6", "other"}
  BY FramesAssumption DEF Frame
<1>3. m < N => /\ frame.protocol = "icmp" => (Announced(m + 1) <=> frame.net = "ipv4")
               /\ frame.protocol = "icmpv6" => (Announced(m + 1) <=> frame.net = "ipv6")
               /\ frame.protocol \in {"tcp", "udp"} => Announced(m + 1)
  BY <1>1, <1>2 DEF Announced
<1>4. WireHeaders[m] \notin Transports
  BY DEF Transports
<1> QED  BY <1>1, <1>2, <1>3, <1>4 DEF Continues, Among

LEMMA LastNames ==
  ASSUME Frame, NEW m \in 1 .. N, WireHeaders[m] \in {"arp", "icmp", "icmpv6"}
  PROVE  Continues(m, None)
<1>1. m = N
  BY HeadersFollow DEF Follows, Upper
<1> QED  BY <1>1 DEF Continues, Transports

LEMMA TransportNames ==
  ASSUME Frame, captured \in Nat, NEW m \in 1 .. N, WireHeaders[m] \in Transports,
         offset = WireEnd(m - 1)
  PROVE  Continues(m, Payload(WireHeaders[m]))
<1>1. m = N /\ N \in Nat
  BY HeadersFollow DEF Follows, Upper, Transports
<1>2. m - 1 \in 0 .. N /\ WireEnd(m - 1) \in Nat /\ WireHeaders[m] \in HeaderKinds
  BY <1>1, WireGrows
<1>3. Length(WireHeaders[m]) = OnWire(WireHeaders[m])
  BY DEF Length, OnWire
<1>4. WireEnd(m) = offset + Length(WireHeaders[m]) /\ Length(WireHeaders[m]) \in Nat
  BY <1>3, WireGrows
<1>5. captured > WireEnd(m) <=> captured - offset > Length(WireHeaders[m])
  BY <1>2, <1>4
<1> QED  BY <1>1, <1>5 DEF Continues, Payload, Remaining

\* Whichever decoder it is, the invariant holds behind it.
LEMMA HeadersKeep ==
  ASSUME ChainInv,
         \/ DecodeEthernet \/ DecodeArp \/ DecodeIpv4 \/ DecodeIpv6
         \/ DecodeTcp \/ DecodeUdp \/ DecodeIcmp \/ DecodeIcmpv6
  PROVE  ChainInv'
<1>1. Frame /\ captured \in Nat
  BY DEF ChainInv
<1>2. \A n \in 0 .. N - 1 : n + 1 \in 1 .. N /\ (n + 1) - 1 = n
  BY <1>1, WireGrows
<1>3. {"ethernet", "arp", "ipv4", "ipv6", "tcp", "udp", "icmp", "icmpv6"} \subseteq HeaderKinds
  BY HeaderKindsAre
<1>4. ASSUME NEW kind \in HeaderKinds, NEW next, Header(kind, next),
             \A n \in 0 .. N - 1 :
               WireHeaders[n + 1] = kind /\ offset = WireEnd(n) => Continues(n + 1, next)
      PROVE  ChainInv'
  BY <1>4, Accepting, Refusing, Zenon
<1>5. CASE DecodeEthernet
  BY <1>1, <1>2, <1>3, <1>4, <1>5, EthernetNames DEF DecodeEthernet
<1>6. CASE DecodeArp
  BY <1>1, <1>2, <1>3, <1>4, <1>6, LastNames DEF DecodeArp
<1>7. CASE DecodeIpv4
  BY <1>1, <1>2, <1>3, <1>4, <1>7, IpNames DEF DecodeIpv4
<1>8. CASE DecodeIpv6
  BY <1>1, <1>2, <1>3, <1>4, <1>8, IpNames DEF DecodeIpv6
<1>9. CASE DecodeTcp
  BY <1>1, <1>2, <1>3, <1>4, <1>9, TransportNames DEF DecodeTcp, Transports
<1>10. CASE DecodeUdp
  BY <1>1, <1>2, <1>3, <1>4, <1>10, TransportNames DEF DecodeUdp, Transports
<1>11. CASE DecodeIcmp
  BY <1>1, <1>2, <1>3, <1>4, <1>11, LastNames DEF DecodeIcmp
<1>12. CASE DecodeIcmpv6
  BY <1>1, <1>2, <1>3, <1>4, <1>12, LastNames DEF DecodeIcmpv6
<1> QED  BY <1>5, <1>6, <1>7, <1>8, <1>9, <1>10, <1>11, <1>12

\* The application decoders add the message, if there is one, and the payload.
LEMMA ApplicationKeeps ==
  ASSUME ChainInv, DecodeApplication
  PROVE  ChainInv'
<1>1. /\ UNCHANGED <<frame, captured, offset>> /\ what' = None /\ what = "application"
      /\ Heard => layers' = layers \o <<Layer(frame.message, offset, captured)>>
                                  \o <<Layer("payload", offset, captured)>>
      /\ ~Heard => layers' = layers \o << >> \o <<Layer("payload", offset, captured)>>
  BY DEF DecodeApplication, Heard, Remaining
<1>2. PICK n \in 0 .. N : Taken(n)
  BY DEF ChainInv
<1>3. Stage(n) /\ Frame
  BY <1>2 DEF ChainInv, Taken
<1>4. N \in Nat /\ n \in Nat /\ \A i \in 1 .. N : WireHeaders[i] \in HeaderKinds
  BY <1>3, WireGrows
<1>5. Reached(n) /\ Len(layers) = n
  <2>1. ~Over(n)
    BY <1>1, NotNone DEF Over
  <2>2. ~Awaited(n)
    <3>1. SUFFICES ASSUME Awaited(n) PROVE FALSE
      OBVIOUS
    <3>2. n + 1 \in 1 .. N /\ WireHeaders[n + 1] = "application"
      BY <1>1, <1>4, <3>1 DEF Awaited
    <3> QED  BY <1>4, <3>2, NotNone
  <2> QED  BY <1>2, <2>1, <2>2 DEF Taken
<1>6. n = N
  BY <1>5 DEF Reached
<1> DEFINE m == Layer(frame.message, offset, captured)
           p == Layer("payload", offset, captured)
<1>7. /\ IsSequence(layers')
      /\ \A i \in 1 .. n : layers'[i] = layers[i]
      /\ Heard => Len(layers') = n + 2 /\ layers'[n + 1] = m /\ layers'[n + 2] = p
      /\ ~Heard => Len(layers') = n + 1 /\ layers'[n + 1] = p
  <2>1. /\ Heard => layers' = layers \o <<m>> \o <<p>>
        /\ ~Heard => layers' = layers \o << >> \o <<p>>
    BY <1>1
  <2> HIDE DEF m, p
  <2>2. PICK S : layers \in Seq(S)
    BY DEF ChainInv, IsSequence
  <2>3. layers \in Seq(S \cup {m, p}) /\ m \in S \cup {m, p} /\ p \in S \cup {m, p}
    BY <2>2
  <2> DEFINE T == S \cup {m, p}
  <2>4. layers \in Seq(T) /\ m \in T /\ p \in T
    BY <2>3
  <2> HIDE DEF T
  <2>5. CASE Heard
    <3> DEFINE a == layers \o <<m>>
    <3>1. layers' = a \o <<p>>
      BY <2>1, <2>5
    <3>2. /\ a \in Seq(T) /\ Len(a) = n + 1
          /\ \A i \in 1 .. n : a[i] = layers[i]
          /\ a[n + 1] = m
      BY <1>4, <1>5, <2>4
    <3> HIDE DEF a
    <3>3. /\ layers' \in Seq(T) /\ Len(layers') = n + 2
          /\ \A i \in 1 .. n + 1 : layers'[i] = a[i]
          /\ layers'[n + 2] = p
      BY <1>4, <2>4, <3>1, <3>2
    <3> QED  BY <1>4, <2>5, <3>2, <3>3 DEF IsSequence
  <2>6. CASE ~Heard
    <3>1. layers \o << >> = layers
      BY <2>4
    <3>2. layers' = layers \o <<p>>
      BY <2>1, <2>6, <3>1
    <3>3. /\ layers' \in Seq(T) /\ Len(layers') = n + 1
          /\ \A i \in 1 .. n : layers'[i] = layers[i]
          /\ layers'[n + 1] = p
      BY <1>4, <1>5, <2>4, <3>2
    <3> QED  BY <2>6, <3>3 DEF IsSequence
  <2> QED  BY <2>5, <2>6
<1>8. N' = N /\ WireHeaders' = WireHeaders /\ (Frame' <=> Frame) /\ WireLength' = WireLength
      /\ (Heard' <=> Heard)
  <2>1. Heard' <=> Heard
    BY <1>1 DEF Heard, Tried
  <2> QED  BY <1>1, <2>1, HeadersSame, LengthSame
<1>9. Stage(n)'
  BY <1>1, <1>3, <1>4, <1>7, StageKept
<1>10. Reached(n)'
  BY <1>1, <1>5, <1>8 DEF Reached
<1>11. Rest(n)'
  <2>1. m' = m /\ p' = p
    BY <1>1 DEF Layer, Values
  <2> QED  BY <1>7, <1>8, <2>1 DEF Rest
<1>12. Over(n)'
  BY <1>1, <1>4, <1>6, <1>8, <1>10, <1>11 DEF Over
<1> QED  BY <1>1, <1>3, <1>7, <1>8, <1>9, <1>12 DEF ChainInv, Taken

LEMMA ChainBegins ==
  ASSUME Init
  PROVE  ChainInv
<1>1. Frame /\ offset = 0 /\ layers = << >> /\ what = Initial
  BY DEF Init, Frame
<1>2. N \in Nat /\ WireEnd(0) = 0 /\ WireEnd(N) \in Nat /\ 0 \in 0 .. N
  BY <1>1, WireGrows
<1>3. frame.size \in Nat /\ frame.padding \in Nat
  BY <1>1, FramesAssumption DEF Frame
<1>4. captured \in Nat /\ captured <= WireLength
  BY <1>2, <1>3 DEF Init, WireLength, N
<1>5. Stage(0)
  BY <1>1, <1>2 DEF Stage
<1>6. IsSequence(layers) /\ Len(layers) = 0
  BY <1>1 DEF IsSequence
<1>7. Awaited(0) \/ Over(0)
  <2>1. ~Reached(0)
    BY DEF Reached
  <2>2. Seen(1) => frame.link # "other" /\ WireEnd(1) <= captured /\ WellFormed(WireHeaders[1])
    BY DEF Seen
  <2>3. CASE frame.link = "ethernet"
    <3>1. N > 0 /\ WireHeaders[1] = "ethernet" /\ what = "ethernet"
      BY <1>1, <2>3, HeadersFollow DEF Initial
    <3>2. WireHeaders[0 + 1] = "ethernet" /\ Announced(0 + 1)
      <4>1. frame.net # "ethernet"
        BY <1>1, FramesAssumption DEF Frame
      <4> QED  BY <3>1, <4>1 DEF Announced
    <3> QED  BY <1>6, <2>3, <3>1, <3>2 DEF Awaited
  <2>4. CASE frame.link = "other"
    BY <1>1, <1>6, <2>1, <2>2, <2>4 DEF Initial, Over
  <2>5. CASE frame.link = "raw"
    <3>1. /\ N > 0 <=> HasNet
          /\ N > 0 => WireHeaders[1] = frame.net
      BY <1>1, <2>5, HeadersFollow
    <3>2. /\ frame.net \in {"ipv4", "ipv6", "other"}
          /\ frame.version = 4 => frame.net = "ipv4"
          /\ frame.version = 6 => frame.net = "ipv6"
      BY <1>1, <2>5, FramesAssumption DEF Frame
    <3>3. CASE what # None
      <4>1. frame.version \in {4, 6} /\ what = frame.net
        BY <1>1, <2>5, <3>2, <3>3 DEF Initial
      <4>2. N > 0 /\ WireHeaders[1] = frame.net
        BY <3>1, <3>2, <4>1 DEF HasNet
      <4>3. WireHeaders[0 + 1] = frame.net /\ Announced(0 + 1)
        BY <2>5, <3>2, <4>1, <4>2 DEF Announced
      <4> QED  BY <1>6, <2>5, <4>1, <4>2, <4>3 DEF Awaited
    <3>4. CASE what = None
      <4>1. captured = 0 \/ (frame.version # 4 /\ frame.version # 6)
        <5>1. "ipv4" # None /\ "ipv6" # None
          BY FramesAssumption
        <5> QED  BY <1>1, <1>4, <2>5, <3>4, <5>1 DEF Initial
      <4>2. ASSUME 0 < N PROVE ~Seen(1)
        <5>1. WireHeaders[1] \in {"ipv4", "ipv6"}
          BY <3>1, <3>2, <4>2 DEF HasNet
        <5>2. WellFormed(WireHeaders[1]) => frame.version \in {4, 6}
          BY <5>1 DEF WellFormed
        <5>3. WellFormed(WireHeaders[1]) => WireEnd(1) > 0
          <6>1. 1 \in 1 .. N /\ 1 - 1 = 0
            BY <1>2, <4>2
          <6>2. WireEnd(1) = 0 + OnWire(WireHeaders[1])
            BY <1>1, <1>2, <6>1, WireGrows
          <6>3. frame.ihl \in Nat
            BY <1>1, FramesAssumption DEF Frame
          <6>4. CASE WireHeaders[1] = "ipv4"
            BY <6>2, <6>3, <6>4 DEF OnWire, WellFormed
          <6>5. CASE WireHeaders[1] = "ipv6"
            BY <6>2, <6>5, MinimumIs DEF OnWire
          <6> QED  BY <5>1, <6>4, <6>5
        <5>4. WireEnd(1) \in Nat
          BY <1>1, <1>2, <4>2, WireGrows
        <5> QED  BY <1>4, <2>2, <4>1, <5>2, <5>3, <5>4
      <4> QED  BY <1>6, <2>1, <3>4, <4>2 DEF Over
    <3> QED  BY <3>3, <3>4
  <2> QED  BY <1>1, <2>3, <2>4, <2>5, FramesAssumption DEF Frame
<1> QED  BY <1>1, <1>2, <1>4, <1>5, <1>6, <1>7 DEF ChainInv, Taken

LEMMA ChainStutters ==
  ASSUME ChainInv, UNCHANGED vars
  PROVE  ChainInv'
<1>1. UNCHANGED <<frame, captured, what, offset, layers>>
  BY DEF vars
<1>2. N' = N /\ WireHeaders' = WireHeaders /\ (Frame' <=> Frame) /\ WireLength' = WireLength
  BY <1>1, HeadersSame, LengthSame
<1>3. PICK n \in 0 .. N : Taken(n)
  BY DEF ChainInv
<1>4. n \in Nat
  BY WireGrows DEF ChainInv
<1>5. Stage(n)'
  BY <1>1, <1>3, <1>4, StageKept DEF Taken
<1>6. /\ Announced(n + 1)' <=> Announced(n + 1)
      /\ Seen(n + 1)' <=> Seen(n + 1)
  BY <1>1, SeenSame
<1>7. Reached(n)' <=> Reached(n)
  BY <1>1, <1>2 DEF Reached
<1>8. Awaited(n)' <=> Awaited(n)
  BY <1>1, <1>2, <1>6 DEF Awaited
<1>9. Rest(n)' <=> Rest(n)
  <2>1. Heard' <=> Heard
    BY <1>1 DEF Heard, Tried
  <2>2. /\ Layer(frame.message, offset, captured)' = Layer(frame.message, offset, captured)
        /\ Layer("payload", offset, captured)' = Layer("payload", offset, captured)
    BY <1>1 DEF Layer, Values
  <2> QED  BY <1>1, <2>1, <2>2 DEF Rest
<1>10. Over(n)' <=> Over(n)
  BY <1>1, <1>2, <1>6, <1>7, <1>9 DEF Over
<1>11. Taken(n)'
  BY <1>1, <1>3, <1>5, <1>7, <1>8, <1>10 DEF Taken
<1> QED  BY <1>1, <1>2, <1>11 DEF ChainInv, IsSequence

THEOREM ChainInvariant == Spec => []ChainInv
<1>1. Init => ChainInv
  BY ChainBegins
<1>2. ChainInv /\ [Next]_vars => ChainInv'
  <2> SUFFICES ASSUME ChainInv, [Next]_vars PROVE ChainInv'
    OBVIOUS
  <2>1. CASE \/ DecodeEthernet \/ DecodeArp \/ DecodeIpv4 \/ DecodeIpv6
             \/ DecodeTcp \/ DecodeUdp \/ DecodeIcmp \/ DecodeIcmpv6
    BY <2>1, HeadersKeep
  <2>2. CASE DecodeApplication
    BY <2>2, ApplicationKeeps
  <2>3. CASE UNCHANGED vars
    BY <2>3, ChainStutters
  <2> QED  BY <2>1, <2>2, <2>3 DEF Next
<1> QED  BY <1>1, <1>2, PTL DEF Spec

-----------------------------------------------------------------------------
\* When decoding is over, the headers that are seen are those that were taken.
LEMMA Finished ==
  ASSUME ChainInv, what = None
  PROVE  \E n \in 0 .. N : Stage(n) /\ Over(n) /\ {i \in DOMAIN WireHeaders : Seen(i)} = 1 .. n
<1>1. PICK n \in 0 .. N : Taken(n)
  BY DEF ChainInv
<1>2. Frame /\ N \in Nat /\ n \in Nat /\ \A i \in 1 .. N : WireHeaders[i] \in HeaderKinds
  <2>1. Frame
    BY DEF ChainInv
  <2> QED  BY <1>1, <2>1, WireGrows
<1>3. Stage(n) /\ Over(n)
  <2>1. ~Awaited(n)
    <3>1. SUFFICES ASSUME Awaited(n) PROVE FALSE
      OBVIOUS
    <3>2. n + 1 \in 1 .. N /\ WireHeaders[n + 1] = None
      BY <1>2, <3>1 DEF Awaited
    <3> QED  BY <1>2, <3>2, NotNone
  <2> QED  BY <1>1, <2>1, NotNone DEF Taken
<1>4. DOMAIN WireHeaders = 1 .. N
  BY <1>2, HeadersAre DEF N
<1>5. ASSUME NEW i \in 1 .. N PROVE Seen(i) <=> i \in 1 .. n
  <2>1. CASE i \in 1 .. n
    <3>1. n > 0 /\ Seen(n) /\ \A j \in 1 .. i : j \in 1 .. n
      BY <1>2, <1>3, <2>1 DEF Stage
    <3> QED  BY <2>1, <3>1, Zenon DEF Seen
  <2>2. CASE i \notin 1 .. n
    <3>1. n < N /\ \A j \in 1 .. n + 1 : j \in 1 .. i
      BY <1>2, <2>2
    <3>2. Seen(i) => Seen(n + 1)
      BY <3>1, Zenon DEF Seen
    <3> QED  BY <1>3, <2>2, <3>1, <3>2 DEF Over
  <2> QED  BY <2>1, <2>2
<1>6. \A i \in 1 .. n : i \in 1 .. N
  BY <1>2
<1> QED  BY <1>1, <1>3, <1>4, <1>5, <1>6

\* The layers that decoding leaves, one by one.
LEMMA Left ==
  ASSUME ChainInv, NEW n \in 0 .. N, Stage(n), Over(n)
  PROVE  /\ n \in Nat /\ Len(layers) \in Nat /\ DOMAIN layers = 1 .. Len(layers)
         /\ \A i \in 1 .. n : /\ layers[i].kind = WireHeaders[i]
                              /\ layers[i].kind \in HeaderKinds
                              /\ layers[i].from = WireEnd(i - 1)
                              /\ layers[i].to = WireEnd(i)
         /\ ~Reached(n) => Len(layers) = n
         /\ Reached(n) /\ ~Heard => /\ Len(layers) = n + 1
                                    /\ layers[n + 1].kind = "payload"
         /\ Reached(n) /\ Heard => /\ Len(layers) = n + 2
                                   /\ layers[n + 1].kind = frame.message
                                   /\ layers[n + 2].kind = "payload"
         /\ \A i \in n + 1 .. Len(layers) :
              /\ layers[i].kind \notin HeaderKinds
              /\ layers[i].from = offset
              /\ layers[i].to = captured
<1>1. Frame
  BY DEF ChainInv
<1>2. N \in Nat /\ n \in Nat
  BY <1>1, WireGrows
<1>3. Len(layers) \in Nat /\ DOMAIN layers = 1 .. Len(layers)
  BY DEF ChainInv, IsSequence
<1>4. ASSUME NEW i \in 1 .. n
      PROVE  /\ layers[i].kind = WireHeaders[i] /\ layers[i].kind \in HeaderKinds
             /\ layers[i].from = WireEnd(i - 1) /\ layers[i].to = WireEnd(i)
  <2>1. layers[i] = Layer(WireHeaders[i], WireEnd(i - 1), WireEnd(i))
    BY DEF Stage
  <2>2. i \in 1 .. N
    BY <1>2
  <2> QED  BY <1>1, <2>1, <2>2, LayerIs, WireGrows
<1>5. "payload" \notin HeaderKinds /\ frame.message \notin HeaderKinds
  BY <1>1, NotNone, FramesAssumption DEF Frame
<1>6. CASE ~Reached(n)
  <2>1. Len(layers) = n
    BY <1>6 DEF Over
  <2> QED  BY <1>2, <1>3, <1>4, <1>6, <2>1
<1>7. CASE Reached(n) /\ ~Heard
  <2>1. Len(layers) = n + 1 /\ layers[n + 1] = Layer("payload", offset, captured)
    BY <1>7 DEF Over, Rest
  <2>2. /\ layers[n + 1].kind = "payload"
        /\ layers[n + 1].from = offset /\ layers[n + 1].to = captured
    BY <2>1, LayerIs
  <2>3. \A i \in n + 1 .. Len(layers) : i = n + 1
    BY <1>2, <2>1
  <2> QED  BY <1>2, <1>3, <1>4, <1>5, <1>7, <2>1, <2>2, <2>3
<1>8. CASE Reached(n) /\ Heard
  <2>1. /\ Len(layers) = n + 2
        /\ layers[n + 1] = Layer(frame.message, offset, captured)
        /\ layers[n + 2] = Layer("payload", offset, captured)
    BY <1>8 DEF Over, Rest
  <2>2. /\ layers[n + 1].kind = frame.message
        /\ layers[n + 1].from = offset /\ layers[n + 1].to = captured
        /\ layers[n + 2].kind = "payload"
        /\ layers[n + 2].from = offset /\ layers[n + 2].to = captured
    BY <2>1, LayerIs
  <2>3. \A i \in n + 1 .. Len(layers) : i = n + 1 \/ i = n + 2
    BY <1>2, <2>1
  <2> QED  BY <1>2, <1>3, <1>4, <1>5, <1>8, <2>1, <2>2, <2>3
<1> QED  BY <1>6, <1>7, <1>8

LEMMA ChainTiled ==
  ASSUME ChainInv
  PROVE  Tiled
<1>1. PICK n \in 0 .. N : Taken(n)
  BY DEF ChainInv
<1>2. Frame /\ N \in Nat /\ n \in Nat /\ offset = WireEnd(n) /\ Stage(n)
  <2>1. Frame
    BY DEF ChainInv
  <2> QED  BY <1>1, <2>1, WireGrows DEF Taken, Stage
<1>3. Len(layers) \in Nat
  BY DEF ChainInv, IsSequence
<1>4. ASSUME NEW i \in 1 .. n
      PROVE  /\ layers[i].kind \in HeaderKinds
             /\ layers[i].from = WireEnd(i - 1)
             /\ layers[i].to = WireEnd(i)
             /\ layers[i].to <= captured
  <2>1. layers[i] = Layer(WireHeaders[i], WireEnd(i - 1), WireEnd(i))
    BY <1>2 DEF Stage
  <2>2. i \in 1 .. N /\ n > 0 /\ Seen(n)
    BY <1>2 DEF Stage
  <2>3. WireEnd(i) <= captured
    BY <2>2 DEF Seen
  <2>4. layers[i].kind = WireHeaders[i] /\ layers[i].from = WireEnd(i - 1) /\ layers[i].to = WireEnd(i)
    BY <2>1, LayerIs
  <2>5. WireHeaders[i] \in HeaderKinds
    BY <1>2, <2>2, WireGrows
  <2> QED  BY <2>3, <2>4, <2>5
<1>5. /\ n <= Len(layers) /\ Len(layers) <= n + 2
      /\ \A i \in n + 1 .. Len(layers) :
           /\ layers[i].kind \notin HeaderKinds
           /\ layers[i].from = offset
           /\ layers[i].to = captured
  <2>1. CASE Over(n)
    <3> HIDE DEF Reached
    <3>1. Len(layers) \in {n, n + 1, n + 2}
      BY <1>2, <2>1, Left, Zenon
    <3> QED  BY <1>2, <2>1, <3>1, Left
  <2>2. CASE ~Over(n)
    <3>1. Len(layers) = n
      BY <1>1, <2>2 DEF Taken, Awaited
    <3> QED  BY <1>2, <3>1
  <2> QED  BY <2>1, <2>2
<1>6. n \in 0 .. Len(layers)
  BY <1>2, <1>3, <1>5
<1> QED  BY <1>2, <1>4, <1>5, <1>6 DEF Tiled

LEMMA ChainSnaps ==
  ASSUME ChainInv
  PROVE  SnapLength
<1> SUFFICES ASSUME what = None
             PROVE  Kinds(layers) \cap HeaderKinds =
                      {WireHeaders[i] : i \in {j \in DOMAIN WireHeaders : Seen(j)}}
  BY DEF SnapLength
<1>1. PICK n \in 0 .. N :
        Stage(n) /\ Over(n) /\ {i \in DOMAIN WireHeaders : Seen(i)} = 1 .. n
  BY Finished
<1> DEFINE S == {i \in DOMAIN WireHeaders : Seen(i)}
           m == Len(layers)
<1>2. /\ n \in Nat /\ m \in Nat /\ DOMAIN layers = 1 .. m
      /\ \A i \in 1 .. n : layers[i].kind = WireHeaders[i] /\ layers[i].kind \in HeaderKinds
      /\ \A i \in n + 1 .. m : layers[i].kind \notin HeaderKinds
      /\ m \in {n, n + 1, n + 2}
  <2>1. m \in {n, n + 1, n + 2}
    BY <1>1, Left, Zenon
  <2> QED  BY <1>1, <2>1, Left
<1>3. S = 1 .. n
  BY <1>1
<1> HIDE DEF S, m
<1>4. \A i \in 1 .. m : i \in 1 .. n \/ i \in n + 1 .. m
  BY <1>2
<1>5. \A i \in 1 .. n : i \in 1 .. m
  BY <1>2
<1>6. {layers[i].kind : i \in 1 .. m} \cap HeaderKinds = {WireHeaders[i] : i \in 1 .. n}
  BY <1>2, <1>4, <1>5
<1> QED  BY <1>2, <1>3, <1>6 DEF Kinds, S

\* However short the snap length, the layers are the headers that were captured,
\* neither more nor fewer, each in its place, and behind them at most one message
\* and the payload (decode_layers, decode/mod.rs:450-526).
THEOREM LayersAreTheHeaders == Spec => []LayersFit
<1>1. ChainInv => LayersFit
  BY ChainTiled, ChainSnaps DEF LayersFit
<1> QED  BY <1>1, ChainInvariant, PTL

-----------------------------------------------------------------------------
\* The summary of a packet.
LEMMA MaxIs ==
  ASSUME NEW S, NEW m \in S, m \in Int, S \subseteq Int, \A i \in S : m >= i
  PROVE  Max(S) = m
<1>1. \E x \in S : \A y \in S : x >= y
  OBVIOUS
<1>2. Max(S) \in S /\ \A y \in S : Max(S) >= y
  BY <1>1, Zenon DEF Max
<1> DEFINE x == Max(S)
<1>3. x \in Int /\ x >= m /\ m >= x
  BY <1>2
<1> HIDE DEF x
<1>4. x = m
  BY <1>3
<1> QED  BY <1>4 DEF x

LEMMA EthernetFirst ==
  ASSUME Frame, NEW i \in 1 .. N, WireHeaders[i] = "ethernet"
  PROVE  i = 1
<1>1. N \in 0 .. 3
  BY HeadersFollow
<1> SUFFICES ASSUME i # 1 PROVE FALSE
  OBVIOUS
<1>2. i - 1 \in 1 .. N /\ i - 1 < N /\ (i - 1) + 1 = i
  BY <1>1
<1>3. Follows(i - 1)
  BY <1>2, HeadersFollow
<1>4. WireHeaders[i - 1] \in {"ethernet", "ipv4", "ipv6"}
  BY <1>2, <1>3, HeaderKindsAre DEF Follows, Upper
<1>5. frame.net # "ethernet" /\ frame.protocol # "ethernet"
  BY FramesAssumption DEF Frame
<1> QED  BY <1>2, <1>3, <1>4, <1>5 DEF Follows

LEMMA TriedAre ==
  /\ Tried \subseteq {"dns", "quic", "client_hello", "handshake", "http2", "http"}
  /\ "53" \notin {frame.sport, frame.dport} /\ frame.protocol = "tcp" =>
       Tried = {"client_hello", "handshake", "http2", "http"}
BY DEF Tried

\* What is recognised is what the application decoders found.
LEMMA RecognisedIs ==
  ASSUME ChainInv, NEW n \in 0 .. N, Stage(n), {i \in DOMAIN WireHeaders : Seen(i)} = 1 .. n
  PROVE  /\ Innermost = IF n = 0 THEN None ELSE WireHeaders[n]
         /\ Recognised <=> Reached(n) /\ Heard
<1>1. Frame /\ captured \in Nat
  BY DEF ChainInv
<1>2. N \in Nat /\ n \in Nat /\ WireEnd(n) \in Nat /\ WireEnd(N) \in Nat
      /\ \A i \in 1 .. N : WireHeaders[i] \in HeaderKinds /\ Follows(i)
  BY <1>1, WireGrows, HeadersFollow
<1>3. Innermost = IF n = 0 THEN None ELSE WireHeaders[n]
  <2>1. CASE n = 0
    <3>1. 1 .. n = {}
      BY <2>1
    <3> QED  BY <2>1, <3>1 DEF Innermost
  <2>2. CASE n > 0
    <3>1. n \in 1 .. n /\ 1 .. n # {} /\ 1 .. n \subseteq Int /\ \A i \in 1 .. n : n >= i
      BY <1>2, <2>2
    <3>2. n \in Int
      BY <1>2
    <3>3. Max(1 .. n) = n
      BY <3>1, <3>2, MaxIs, Zenon
    <3>4. Innermost = WireHeaders[Max(1 .. n)]
      BY <3>1, Zenon DEF Innermost
    <3> QED  BY <2>2, <3>3, <3>4
  <2> QED  BY <1>2, <2>1, <2>2
<1>4. None \notin Transports /\ "application" # "tcp"
  BY FramesAssumption DEF Transports
<1>5. Needs(frame.message) \in Nat
  BY <1>1, FramesAssumption DEF Frame
<1>6. offset = WireEnd(n)
  BY DEF Stage
<1>7. ASSUME n > 0, WireHeaders[n] \in Transports PROVE n = N
  <2>1. n \in 1 .. N
    BY <1>2, <1>7
  <2> QED  BY <1>2, <1>7, <2>1 DEF Follows, Upper, Transports
<1>8. N = Len(WireHeaders)
  BY DEF N
<1>9. CASE n = N
  <2>1. Recognised <=> /\ Innermost \in Transports /\ frame.message \in Tried
                       /\ captured - offset > 0
                       /\ captured - offset >= Needs(frame.message)
    BY <1>6, <1>8, <1>9 DEF Recognised
  <2>2. captured - offset > 0 <=> captured > offset
    BY <1>1, <1>2, <1>6
  <2>3. Innermost \in Transports <=> n > 0 /\ WireHeaders[n] \in Transports
    BY <1>2, <1>3, <1>4
  <2> QED  BY <1>3, <1>9, <2>1, <2>2, <2>3 DEF Reached, Heard
<1>10. CASE n # N
  <2>1. ~(Innermost \in Transports)
    BY <1>2, <1>3, <1>4, <1>7, <1>10
  <2> QED  BY <1>3, <1>10, <2>1 DEF Recognised, Reached
<1> QED  BY <1>3, <1>9, <1>10

\* The protocol is that of the last layer with a name.
LEMMA ProtocolIs ==
  ASSUME ChainInv, NEW n \in 0 .. N, Stage(n), Over(n),
         {i \in DOMAIN WireHeaders : Seen(i)} = 1 .. n
  PROVE  Protocol = IF Recognised THEN frame.message
                    ELSE IF Innermost = "ethernet" THEN None ELSE Innermost
<1> DEFINE m == Len(layers)
           k(i) == layers[i].kind
<1>1. Frame
  BY DEF ChainInv
<1>2. N \in Nat /\ n \in Nat /\ 1 .. n \subseteq 1 .. N
  BY <1>1, WireGrows
<1>3. /\ m \in Nat /\ DOMAIN layers = 1 .. m
      /\ \A i \in 1 .. n : k(i) = WireHeaders[i] /\ k(i) \in HeaderKinds
      /\ ~Reached(n) => m = n
      /\ Reached(n) /\ ~Heard => m = n + 1 /\ k(n + 1) = "payload"
      /\ Reached(n) /\ Heard =>
           m = n + 2 /\ k(n + 1) = frame.message /\ k(n + 2) = "payload"
  BY Left, Zenon
<1>4. /\ Innermost = IF n = 0 THEN None ELSE WireHeaders[n]
      /\ Recognised <=> Reached(n) /\ Heard
  BY RecognisedIs
<1>5. Named = {i \in 1 .. m : k(i) \notin {"ethernet", "payload"}}
  BY <1>3 DEF Named
<1>6. Protocol = IF Named = {} THEN None ELSE k(Max(Named))
  BY DEF Protocol
<1>7. "payload" \notin HeaderKinds /\ None # "ethernet"
  BY NotNone, FramesAssumption
<1>8. \A i \in 1 .. n : WireHeaders[i] = "ethernet" => i = 1
  BY <1>1, <1>2, EthernetFirst
<1> HIDE DEF m, k
<1>9. CASE Reached(n) /\ Heard
  <2>1. frame.message \notin {"ethernet", "payload"}
    BY <1>9, TriedAre DEF Heard
  <2>2. n + 1 \in Named /\ Named \subseteq Int /\ \A i \in Named : n + 1 >= i
    BY <1>2, <1>3, <1>5, <1>9, <2>1
  <2>3. Max(Named) = n + 1
    BY <1>2, <2>2, MaxIs
  <2> QED  BY <1>3, <1>4, <1>6, <1>9, <2>2, <2>3
<1>10. CASE ~(Reached(n) /\ Heard)
  <2>1. Named = {i \in 1 .. n : WireHeaders[i] # "ethernet"}
    BY <1>2, <1>3, <1>5, <1>7, <1>10
  <2>2. CASE n = 0
    <3>1. Named = {}
      BY <2>1, <2>2
    <3> QED  BY <1>4, <1>6, <1>7, <1>10, <2>2, <3>1
  <2>3. CASE n > 0 /\ WireHeaders[n] = "ethernet"
    <3>1. n = 1
      BY <1>2, <1>8, <2>3
    <3>2. Named = {}
      BY <2>1, <2>3, <3>1
    <3> QED  BY <1>4, <1>6, <1>10, <2>3, <3>2
  <2>4. CASE n > 0 /\ WireHeaders[n] # "ethernet"
    <3>1. n \in Named /\ Named \subseteq Int /\ \A i \in Named : n >= i
      BY <1>2, <2>1, <2>4
    <3>2. Max(Named) = n
      BY <1>2, <3>1, MaxIs
    <3>3. n \in 1 .. n
      BY <1>2, <2>4
    <3> QED  BY <1>3, <1>4, <1>6, <1>10, <2>4, <3>1, <3>2, <3>3
  <2> QED  BY <1>2, <2>2, <2>3, <2>4
<1> QED  BY <1>9, <1>10

LEMMA ChainShows ==
  ASSUME ChainInv
  PROVE  ColumnsShow
<1> SUFFICES ASSUME what = None
             PROVE  /\ Protocol = IF Recognised THEN frame.message
                                  ELSE IF Innermost = "ethernet" THEN None ELSE Innermost
                    /\ Ends = IF Sees("ipv4") \/ Sees("ipv6") \/ Sees("arp")
                              THEN <<frame.src, frame.dst>>
                              ELSE IF Sees("ethernet") THEN <<"mac", "mac">> ELSE <<None, None>>
  BY DEF ColumnsShow
<1>1. PICK n \in 0 .. N :
        Stage(n) /\ Over(n) /\ {i \in DOMAIN WireHeaders : Seen(i)} = 1 .. n
  BY Finished
<1>2. Protocol = IF Recognised THEN frame.message
                 ELSE IF Innermost = "ethernet" THEN None ELSE Innermost
  BY <1>1, ProtocolIs
<1>3. ASSUME NEW kind \in HeaderKinds PROVE kind \in Kinds(layers) <=> Sees(kind)
  <2>1. Kinds(layers) \cap HeaderKinds =
          {WireHeaders[i] : i \in {j \in DOMAIN WireHeaders : Seen(j)}}
    BY ChainSnaps DEF SnapLength
  <2> QED  BY <2>1 DEF Sees
<1>4. {"ethernet", "ipv4", "ipv6", "arp"} \subseteq HeaderKinds
  BY HeaderKindsAre
<1>5. /\ Kinds(layers) \cap {"ipv4", "ipv6", "arp"} # {}
           <=> Sees("ipv4") \/ Sees("ipv6") \/ Sees("arp")
      /\ Has("ethernet") <=> Sees("ethernet")
  BY <1>3, <1>4 DEF Has
<1> QED  BY <1>2, <1>5, Zenon DEF Ends

LEMMA ChainWarns ==
  ASSUME ChainInv
  PROVE  CredentialsShow
<1> SUFFICES ASSUME what = None, captured = WireLength, Sees("tcp"),
                    "53" \notin {frame.sport, frame.dport}
             PROVE  /\ frame.message = "http" /\ frame.basicAuth => Anomaly = "credential"
                    /\ frame.message = "ftp" /\ "21" \in {frame.sport, frame.dport} =>
                         Anomaly = "credential"
  BY Zenon DEF CredentialsShow
<1>1. PICK n \in 0 .. N :
        Stage(n) /\ Over(n) /\ {i \in DOMAIN WireHeaders : Seen(i)} = 1 .. n
  BY Finished
<1>2. Frame /\ captured \in Nat /\ N \in Nat /\ n \in Nat /\ WireEnd(N) \in Nat
  <2>1. Frame /\ captured \in Nat
    BY DEF ChainInv
  <2> QED  BY <1>1, <2>1, WireGrows
<1>3. PICK i \in 1 .. n : WireHeaders[i] = "tcp"
  BY <1>1 DEF Sees
<1>4. n = N /\ i = N /\ frame.protocol = "tcp"
  <2>1. i \in 1 .. N
    BY <1>2
  <2>2. Follows(i)
    BY <1>2, <2>1, HeadersFollow
  <2>3. i = N /\ WireHeaders[i] = frame.protocol
    BY <1>3, <2>2 DEF Follows, Upper
  <2> QED  BY <1>2, <1>3, <2>3
<1>5. Tried = {"client_hello", "handshake", "http2", "http"}
  BY <1>4, TriedAre
<1>6. offset = WireEnd(N) /\ captured = WireEnd(N) + frame.size + frame.padding
  BY <1>1, <1>4 DEF Stage, WireLength, N
<1>7. /\ frame.size \in Nat /\ frame.padding \in Nat
      /\ frame.message # "none" => frame.size > 0 /\ Needs(frame.message) <= frame.size
      /\ frame.message = "ftp" => frame.pass
      /\ Needs(frame.message) \in Nat
  BY <1>2, FramesAssumption DEF Frame
<1>8. ASSUME frame.message # "none"
      PROVE  Reached(n) /\ captured - offset >= Needs(frame.message)
  <2>1. captured - offset >= Needs(frame.message) /\ captured > offset
    BY <1>2, <1>6, <1>7, <1>8
  <2> QED  BY <1>2, <1>3, <1>4, <2>1 DEF Reached, Transports
<1> DEFINE m == Len(layers)
           k(j) == layers[j].kind
<1>9. /\ m \in Nat /\ Kinds(layers) = {k(j) : j \in 1 .. m}
      /\ \A j \in 1 .. n : k(j) = WireHeaders[j] /\ k(j) \in HeaderKinds
      /\ Reached(n) /\ ~Heard => m = n + 1 /\ k(n + 1) = "payload"
      /\ Reached(n) /\ Heard =>
           m = n + 2 /\ k(n + 1) = frame.message /\ k(n + 2) = "payload"
  <2>1. DOMAIN layers = 1 .. m
    BY <1>1, Left
  <2>2. Kinds(layers) = {k(j) : j \in 1 .. m}
    BY <2>1 DEF Kinds
  <2> QED  BY <1>1, <2>2, Left, Zenon
<1>10. HeaderKinds \cap {"client_hello", "handshake", "quic", "http", "payload"} = {}
  BY HeaderKindsAre
<1> HIDE DEF m, k
<1>11. frame.message = "http" /\ frame.basicAuth => Anomaly = "credential"
  <2> SUFFICES ASSUME frame.message = "http", frame.basicAuth PROVE Anomaly = "credential"
    OBVIOUS
  <2>1. Reached(n) /\ Heard
    BY <1>5, <1>8 DEF Heard
  <2>2. m = n + 2 /\ k(n + 1) = "http" /\ k(n + 2) = "payload"
    BY <1>9, <2>1
  <2>3. \A j \in 1 .. m : j \in 1 .. n \/ j = n + 1 \/ j = n + 2
    BY <1>2, <2>2
  <2>4. \A j \in 1 .. m : k(j) \notin {"client_hello", "handshake", "quic"}
    BY <1>9, <1>10, <2>2, <2>3
  <2>5. "http" \in Kinds(layers) /\ Kinds(layers) \cap {"client_hello", "handshake", "quic"} = {}
    <3>1. n + 1 \in 1 .. m
      BY <1>2, <2>2
    <3> QED  BY <1>9, <2>2, <2>4, <3>1
  <2> QED  BY <2>5 DEF Anomaly, Has
<1>12. frame.message = "ftp" /\ "21" \in {frame.sport, frame.dport} => Anomaly = "credential"
  <2> SUFFICES ASSUME frame.message = "ftp", "21" \in {frame.sport, frame.dport}
               PROVE  Anomaly = "credential"
    OBVIOUS
  <2>1. Reached(n) /\ ~Heard
    BY <1>5, <1>8 DEF Heard
  <2>2. m = n + 1 /\ k(n + 1) = "payload"
    BY <1>9, <2>1
  <2>3. \A j \in 1 .. m : j \in 1 .. n \/ j = n + 1
    BY <1>2, <2>2
  <2>4. \A j \in 1 .. m : k(j) \notin {"client_hello", "handshake", "quic", "http"}
    BY <1>9, <1>10, <2>2, <2>3
  <2>5. /\ "payload" \in Kinds(layers) /\ "tcp" \in Kinds(layers) /\ "http" \notin Kinds(layers)
        /\ Kinds(layers) \cap {"client_hello", "handshake", "quic"} = {}
    <3>1. n + 1 \in 1 .. m /\ i \in 1 .. m /\ k(i) = "tcp"
      BY <1>2, <1>3, <1>9, <2>2
    <3> QED  BY <1>9, <2>2, <2>4, <3>1
  <2>6. "21" \in Ports
    BY <2>5 DEF Ports, Transports
  <2>7. frame.pass
    BY <1>7
  <2> QED  BY <2>5, <2>6, <2>7 DEF Anomaly, Has
<1> QED  BY <1>11, <1>12

\* The line of a packet says what the packet is: the protocol and the addresses
\* are those of the frame as far as it was captured, and credentials in clear
\* text are not hidden by a lesser anomaly (compute_summary,
\* decode/mod.rs:528-681; analyze, analysis/anomaly.rs:31-88).
THEOREM SummaryTellsThePacket == Spec => []SummaryShows
<1>1. ChainInv => SummaryShows
  BY ChainShows, ChainWarns DEF SummaryShows
<1> QED  BY <1>1, ChainInvariant, PTL

-----------------------------------------------------------------------------
(***************************************************************************)
(* A position is that of a byte of the stream, or the one behind the last. *)
(***************************************************************************)
Places == 1..StreamLen + 1
SeqAt(p) == Advance(Isn, p - 1)

\* The bytes of the stream from one position up to another.
Run(x, y) == [i \in 1..y - x |-> x + i - 1]

(***************************************************************************)
(* The invariant.  What waits behind a gap is runs of bytes under their    *)
(* sequence numbers, each ending where some segment did.                   *)
(***************************************************************************)
HeldRuns(ss, arr) ==
  /\ DOMAIN ss \subseteq Seqs /\ ss = [q \in DOMAIN ss |-> ss[q]]
  /\ \A q \in DOMAIN ss : \E x, y \in Places :
       x < y /\ q = SeqAt(x) /\ ss[q] = Run(x, y) /\ \E t \in arr : t.last + 1 = y

(***************************************************************************)
(* In a stream that is cut once, every segment that arrived was delivered  *)
(* or waits in full ahead of what is delivered, which is made of segments. *)
(***************************************************************************)
Ahead(n, ss, arr) ==
  \A q \in DOMAIN ss : \E t \in arr : q = SeqNum(t) /\ ss[q] = DataOf(t) /\ n <= t.first
Behind(a, n, ss, arr) ==
  \A t \in arr : SeqNum(t) \in DOMAIN ss \/ (a <= t.first /\ t.last < n)
Covered(a, n, arr) ==
  \A p \in Places : a <= p /\ p < n => \E t \in arr : t.first <= p /\ p <= t.last /\ t.last < n
Neat(a, n, ss, arr) == Ahead(n, ss, arr) /\ Behind(a, n, ss, arr) /\ Covered(a, n, arr)
Apart(arr) == \A s, t \in arr : s = t \/ Positions(s) \cap Positions(t) = {}

(***************************************************************************)
(* The stream is anchored at a, drained up to m and contiguous up to n.    *)
(***************************************************************************)
Placed(a, m, n) ==
  /\ a <= m /\ m <= n
  /\ base = SeqAt(a) /\ drained = Run(a, m) /\ pending = Run(m, n) /\ nextSeq = SeqAt(n)
  /\ nextSeq \notin DOMAIN segments
  /\ \E t \in arrived : n <= t.last + 1
  /\ CleanCut /\ ~capped => Neat(a, n, segments, arrived)

FlagsInv == arrived \subseteq Segments /\ fin \in BOOLEAN /\ capped \in BOOLEAN
HeldInv ==
  /\ HeldRuns(segments, arrived)
  /\ total = Len(pending) + Cardinality(Buffered(segments)) /\ total <= Cap
PlaceInv ==
  IF base = NoSeq
  THEN /\ arrived = {} /\ pending = << >> /\ drained = << >> /\ segments = << >>
       /\ nextSeq = 0 /\ ~capped
  ELSE \E a, m, n \in Places : Placed(a, m, n)
MarkInv ==
  IF arrived = {} THEN maxSeq = NoSeq
  ELSE /\ maxSeq \in Nat
       /\ \A s \in arrived : SeqEnd(s) <= maxSeq
       /\ \E s \in arrived : SeqEnd(s) = maxSeq

SInv == FlagsInv /\ HeldInv /\ PlaceInv /\ MarkInv

-----------------------------------------------------------------------------
LEMMA Sizes ==
  /\ Modulus \in Nat /\ Modulus >= 1 /\ Isn \in Nat /\ Isn < Modulus
  /\ StreamLen \in Nat /\ 2 * StreamLen < Modulus /\ Cap \in Nat
BY ReassemblyAssumption

-----------------------------------------------------------------------------
(***************************************************************************)
(* Sequence numbers.                                                       *)
(***************************************************************************)
\* A number less than two turns away is brought into range by one turn.
LEMMA OneTurn ==
  ASSUME NEW x \in Int, 0 - Modulus <= x, x < 2 * Modulus
  PROVE  x % Modulus = IF x < 0 THEN x + Modulus
                       ELSE IF x < Modulus THEN x ELSE x - Modulus
<1> DEFINE m == Modulus
           d == x \div m
           r == x % m
<1>0. m \in Nat /\ m >= 1 /\ 0 - m <= x /\ x < 2 * m
  BY Sizes
<1> HIDE DEF m
<1>1. d \in Int /\ r \in 0..m - 1 /\ x = m * d + r
  BY <1>0
<1> HIDE DEF d, r
<1>2. CASE d >= 2
  <2>1. m * d >= m * 2
    BY <1>0, <1>1, <1>2
  <2> QED  BY <1>0, <1>1, <2>1
<1>3. CASE d <= 0 - 2
  <2>1. m * d <= m * (0 - 2)
    BY <1>0, <1>1, <1>3
  <2> QED  BY <1>0, <1>1, <2>1
<1>4. CASE d \in {0 - 1, 0, 1}
  <2>1. r = IF x < 0 THEN x + m ELSE IF x < m THEN x ELSE x - m
    BY <1>0, <1>1, <1>4
  <2> QED  BY <2>1 DEF r, m
<1> QED  BY <1>1, <1>2, <1>3, <1>4

LEMMA SeqAtIs ==
  ASSUME NEW p \in Places
  PROVE  /\ SeqAt(p) = IF Isn + p - 1 < Modulus THEN Isn + p - 1 ELSE Isn + p - 1 - Modulus
         /\ SeqAt(p) \in Nat /\ SeqAt(p) < Modulus /\ SeqAt(p) \in Seqs
<1> USE Sizes
<1> DEFINE e == Isn + (p - 1)
<1>1. e \in Int /\ 0 <= e /\ e < 2 * Modulus /\ e = Isn + p - 1
  BY DEF Places
<1>2. SeqAt(p) = e % Modulus
  BY DEF SeqAt, Advance
<1> HIDE DEF e
<1>3. e % Modulus = IF e < Modulus THEN e ELSE e - Modulus
  BY <1>1, OneTurn
<1>4. SeqAt(p) \in Nat /\ SeqAt(p) < Modulus
  BY <1>1, <1>2, <1>3
<1>5. SeqAt(p) = IF e < Modulus THEN e ELSE e - Modulus
  BY <1>2, <1>3
<1>6. SeqAt(p) \in Seqs
  BY <1>4 DEF Seqs
<1>7. Isn + p - 1 - Modulus = e - Modulus
  BY DEF Places, e
<1> QED  BY <1>1, <1>4, <1>5, <1>6, <1>7

\* Less than half a circle apart, sequence numbers are ordered as their positions are.
LEMMA SeqOrder ==
  ASSUME NEW p \in Places, NEW q \in Places
  PROVE  /\ SeqLt(SeqAt(p), SeqAt(q)) <=> p < q
         /\ p <= q => (SeqAt(q) - SeqAt(p)) % Modulus = q - p
         /\ SeqAt(p) = SeqAt(q) => p = q
<1> USE Sizes
<1> DEFINE a == SeqAt(p)
           b == SeqAt(q)
<1>1. /\ a = IF Isn + p - 1 < Modulus THEN Isn + p - 1 ELSE Isn + p - 1 - Modulus
      /\ b = IF Isn + q - 1 < Modulus THEN Isn + q - 1 ELSE Isn + q - 1 - Modulus
      /\ a \in Nat /\ b \in Nat /\ a < Modulus /\ b < Modulus
  BY SeqAtIs
<1>2. p \in Nat /\ q \in Nat /\ p >= 1 /\ q >= 1 /\ p <= StreamLen + 1 /\ q <= StreamLen + 1
  BY DEF Places
<1> HIDE DEF a, b
<1>3. (a - b) % Modulus = IF a - b < 0 THEN a - b + Modulus ELSE a - b
  BY <1>1, OneTurn
<1>4. (b - a) % Modulus = IF b - a < 0 THEN b - a + Modulus ELSE b - a
  BY <1>1, OneTurn
<1>5. (a - b) % Modulus = IF p < q THEN p - q + Modulus ELSE p - q
  BY <1>1, <1>2, <1>3
<1>6. (b - a) % Modulus = IF q < p THEN q - p + Modulus ELSE q - p
  BY <1>1, <1>2, <1>4
<1>7. 2 * ((a - b) % Modulus) >= Modulus <=> p < q
  BY <1>2, <1>5
<1>8. SeqLt(a, b) <=> p < q
  BY <1>7 DEF SeqLt
<1>9. a = b => p = q
  BY <1>1, <1>2
<1> QED  BY <1>2, <1>6, <1>8, <1>9 DEF a, b

LEMMA SeqAdvance ==
  ASSUME NEW p \in Places, NEW n \in Nat, p + n \in Places
  PROVE  Advance(SeqAt(p), n) = SeqAt(p + n)
<1> USE Sizes
<1> DEFINE a == SeqAt(p)
           b == SeqAt(p + n)
<1>1. /\ a = IF Isn + p - 1 < Modulus THEN Isn + p - 1 ELSE Isn + p - 1 - Modulus
      /\ a \in Nat /\ a < Modulus
  BY SeqAtIs
<1>2. b = IF Isn + (p + n) - 1 < Modulus THEN Isn + (p + n) - 1 ELSE Isn + (p + n) - 1 - Modulus
  BY SeqAtIs
<1>3. p \in Nat /\ p >= 1 /\ p + n <= StreamLen + 1
  BY DEF Places
<1> HIDE DEF a, b
<1>4. (a + n) % Modulus = IF a + n < Modulus THEN a + n ELSE a + n - Modulus
  BY <1>1, <1>3, OneTurn
<1>5. (a + n) % Modulus = b
  BY <1>1, <1>2, <1>3, <1>4
<1> QED  BY <1>5 DEF a, b, Advance

-----------------------------------------------------------------------------
(***************************************************************************)
(* Runs of bytes.                                                          *)
(***************************************************************************)
LEMMA RunIs ==
  ASSUME NEW x \in Places, NEW y \in Places, x <= y
  PROVE  /\ Run(x, y) \in Seq(Bytes) /\ Len(Run(x, y)) = y - x
         /\ DOMAIN Run(x, y) = 1..y - x
         /\ \A i \in 1..y - x : Run(x, y)[i] = x + i - 1
<1> USE Sizes
<1>1. y - x \in Nat /\ x \in Nat /\ y \in Nat /\ x >= 1 /\ y <= StreamLen + 1
  BY DEF Places
<1>2. \A i \in 1..y - x : x + i - 1 \in Bytes
  BY <1>1 DEF Bytes
<1>3. Run(x, y) \in [1..y - x -> Bytes]
  BY <1>2 DEF Run
<1>4. Run(x, y) \in Seq(Bytes) /\ Len(Run(x, y)) = y - x
  BY <1>1, <1>3, IsASeq
<1> QED  BY <1>4 DEF Run

LEMMA RunConcat ==
  ASSUME NEW x \in Places, NEW y \in Places, NEW z \in Places, x <= y, y <= z
  PROVE  Run(x, y) \o Run(y, z) = Run(x, z)
<1> DEFINE u == Run(x, y)
           v == Run(y, z)
           w == Run(x, z)
           k == y - x
           l == z - y
           c == u \o v
<1>0. /\ x \in Nat /\ k \in Nat /\ l \in Nat /\ y = x + k /\ z - x = k + l /\ x <= z
  BY Sizes DEF Places
<1>1. u \in Seq(Bytes) /\ Len(u) = k /\ \A i \in 1..k : u[i] = x + i - 1
  BY RunIs
<1>2. v \in Seq(Bytes) /\ Len(v) = l /\ \A i \in 1..l : v[i] = y + i - 1
  BY RunIs
<1>3. w \in Seq(Bytes) /\ Len(w) = k + l /\ \A i \in 1..k + l : w[i] = x + i - 1
  BY <1>0, RunIs
<1> HIDE DEF u, v, w, k, l
<1>4. /\ c \in Seq(Bytes) /\ Len(c) = k + l
      /\ \A i \in 1..k + l : c[i] = IF i <= k THEN u[i] ELSE v[i - k]
  BY <1>0, <1>1, <1>2, ConcatProperties
<1> HIDE DEF c
<1>5. \A i \in 1..k + l : c[i] = w[i]
  <2> SUFFICES ASSUME NEW i \in 1..k + l PROVE c[i] = w[i]
    OBVIOUS
  <2>1. CASE i <= k
    BY <1>0, <1>1, <1>3, <1>4, <2>1
  <2>2. CASE i > k
    <3>1. i - k \in 1..l /\ ~(i <= k) /\ y + (i - k) - 1 = x + i - 1
      BY <1>0, <2>2
    <3>2. v[i - k] = y + (i - k) - 1
      BY <1>2, <3>1
    <3> QED  BY <1>3, <1>4, <3>1, <3>2
  <2> QED  BY <1>0, <2>1, <2>2
<1>6. c = w
  BY <1>3, <1>4, <1>5, SeqEqual
<1> QED  BY <1>6 DEF c, u, v, w

LEMMA RunEmpty == ASSUME NEW x \in Places PROVE Run(x, x) = << >>
<1>1. Run(x, x) \in Seq(Bytes) /\ Len(Run(x, x)) = x - x
  BY Sizes, RunIs DEF Places
<1>2. x - x = 0
  BY Sizes DEF Places
<1> QED  BY <1>1, <1>2, EmptySeq

\* The data of a segment, and what is left of it from a position on.
LEMMA DataIs ==
  ASSUME NEW s \in Segments
  PROVE  /\ s.first \in Places /\ s.last + 1 \in Places /\ s.first < s.last + 1
         /\ SeqNum(s) = SeqAt(s.first) /\ DataOf(s) = Run(s.first, s.last + 1)
         /\ Len(DataOf(s)) = (s.last + 1) - s.first
<1> USE Sizes
<1>1. s.first \in Bytes /\ s.last \in Bytes /\ s.first <= s.last
  BY DEF Segments
<1>2. s.first \in Places /\ s.last + 1 \in Places /\ s.first < s.last + 1
  BY <1>1 DEF Places, Bytes
<1>3. s.last - s.first + 1 = (s.last + 1) - s.first
  BY <1>1 DEF Bytes
<1>4. DataOf(s) = Run(s.first, s.last + 1)
  <2>1. 1..(s.last - s.first + 1) = 1..(s.last + 1) - s.first
    BY <1>3
  <2> QED  BY <2>1 DEF DataOf, Run
<1>5. s.first <= s.last + 1
  BY <1>1 DEF Bytes
<1>6. Len(DataOf(s)) = (s.last + 1) - s.first
  BY <1>2, <1>4, <1>5, RunIs
<1>7. SeqNum(s) = SeqAt(s.first)
  BY DEF SeqNum, SeqAt
<1> QED  BY <1>2, <1>4, <1>6, <1>7

LEMMA RunTail ==
  ASSUME NEW x \in Places, NEW y \in Places, NEW z \in Places, x <= y, y <= z
  PROVE  SubSeq(Run(x, z), 1 + (y - x), z - x) = Run(y, z)
<1> DEFINE u == Run(x, z)
           v == Run(y, z)
           t == SubSeq(u, 1 + (y - x), z - x)
<1>0. x \in Nat /\ y \in Nat /\ z \in Nat /\ x <= z
  BY Sizes DEF Places
<1>1. u \in Seq(Bytes) /\ Len(u) = z - x /\ \A i \in 1..z - x : u[i] = x + i - 1
  BY <1>0, RunIs
<1>2. v \in Seq(Bytes) /\ Len(v) = z - y /\ \A i \in 1..z - y : v[i] = y + i - 1
  BY RunIs
<1>3. \A i \in 1..z - x : u[i] \in Bytes
  BY <1>0, <1>1
<1> HIDE DEF u, v
<1>4. /\ t \in Seq(Bytes)
      /\ Len(t) = IF 1 + (y - x) <= z - x THEN (z - x) - (1 + (y - x)) + 1 ELSE 0
      /\ \A i \in 1..(z - x) - (1 + (y - x)) + 1 : t[i] = u[1 + (y - x) + i - 1]
  <2>1. 1 + (y - x) \in Int /\ z - x \in Int
    BY <1>0
  <2>2. \A i \in 1 + (y - x)..z - x : u[i] \in Bytes
    BY <1>0, <1>3
  <2> QED  BY <2>1, <2>2, SubSeqProperties
<1> HIDE DEF t
<1>5. Len(t) = z - y
  BY <1>0, <1>4
<1>6. \A i \in 1..z - y : t[i] = v[i]
  <2> SUFFICES ASSUME NEW i \in 1..z - y PROVE t[i] = v[i]
    OBVIOUS
  <2>1. i \in 1..(z - x) - (1 + (y - x)) + 1
    BY <1>0
  <2>2. t[i] = u[1 + (y - x) + i - 1]
    BY <1>4, <2>1
  <2>3. 1 + (y - x) + i - 1 \in 1..z - x /\ x + (1 + (y - x) + i - 1) - 1 = y + i - 1
    BY <1>0
  <2> QED  BY <1>1, <1>2, <2>2, <2>3
<1>7. t = v
  BY <1>2, <1>4, <1>5, <1>6, SeqEqual
<1> QED  BY <1>7 DEF t, u, v

-----------------------------------------------------------------------------
(***************************************************************************)
(* Induction over the natural numbers, for sets.                           *)
(***************************************************************************)
LEMMA SetInduction ==
  ASSUME NEW T, 0 \in T, \A n \in Nat : n \in T => n + 1 \in T
  PROVE  Nat \subseteq T
<1> DEFINE R == OpToRel(<, Nat)
           U == Nat \ T
<1> SUFFICES ASSUME U # {} PROVE FALSE
  OBVIOUS
<1>1. PICK n \in U : \A m \in U : <<m, n>> \notin R
  <2>1. IsWellFoundedOn(R, Nat) /\ U \subseteq Nat
    BY NatLessThanWellFounded
  <2> HIDE DEF R, U
  <2> QED  BY <2>1, WFMin
<1>2. n # 0 /\ n \in Nat
  BY <1>1
<1>3. n - 1 \in Nat /\ n - 1 \notin T => FALSE
  <2> SUFFICES ASSUME n - 1 \in Nat, n - 1 \notin T PROVE FALSE
    OBVIOUS
  <2>1. <<n - 1, n>> \in R
    BY <1>2 DEF OpToRel
  <2> QED  BY <1>1, <2>1
<1>4. n - 1 \in Nat /\ (n - 1) + 1 = n
  BY <1>2
<1> QED  BY <1>1, <1>3, <1>4

-----------------------------------------------------------------------------
(***************************************************************************)
(* The loop that pulls segments in is a recursive function: there is one,  *)
(* and each of its values is one move behind the one before.               *)
(***************************************************************************)
Partial(b, k, f) == f = [i \in 0..k |-> IF i = 0 THEN b ELSE Move(f[i - 1])]

LEMMA PartialExists == ASSUME NEW b PROVE \A k \in Nat : \E f : Partial(b, k, f)
<1> DEFINE T == {k \in Nat : \E f : Partial(b, k, f)}
<1>1. 0 \in T
  <2> DEFINE f == [i \in 0..0 |-> b]
  <2>1. f = [i \in 0..0 |-> IF i = 0 THEN b ELSE Move(f[i - 1])]
    OBVIOUS
  <2>2. Partial(b, 0, f)
    BY <2>1 DEF Partial
  <2> QED  BY <2>2
<1>2. ASSUME NEW k \in Nat, k \in T PROVE k + 1 \in T
  <2>1. PICK f : Partial(b, k, f)
    BY <1>2
  <2> DEFINE g == [i \in 0..k + 1 |-> IF i = k + 1 THEN Move(f[k]) ELSE f[i]]
             h == [i \in 0..k + 1 |-> IF i = 0 THEN b ELSE Move(g[i - 1])]
  <2>2. ASSUME NEW i \in 0..k + 1 PROVE g[i] = h[i]
    <3>0. \A j \in 0..k : f[j] = IF j = 0 THEN b ELSE Move(f[j - 1])
      BY <2>1 DEF Partial
    <3>1. CASE i = k + 1
      <4>1. i # 0 /\ i - 1 = k /\ k \in 0..k + 1 /\ k # k + 1
        BY <3>1
      <4>2. g[k] = f[k]
        BY <4>1
      <4>3. g[i] = Move(f[k])
        BY <3>1
      <4>4. h[i] = Move(g[i - 1])
        BY <4>1
      <4> HIDE DEF g, h
      <4> QED  BY <4>1, <4>2, <4>3, <4>4
    <3>2. CASE i # k + 1 /\ i = 0
      <4>1. g[i] = f[i] /\ h[i] = b /\ i \in 0..k
        BY <3>2
      <4> HIDE DEF g, h
      <4> QED  BY <3>0, <3>2, <4>1
    <3>3. CASE i # k + 1 /\ i # 0
      <4>1. i \in 0..k /\ i - 1 \in 0..k + 1 /\ i - 1 # k + 1
        BY <3>3
      <4>2. g[i] = f[i] /\ g[i - 1] = f[i - 1] /\ h[i] = Move(g[i - 1])
        BY <3>3, <4>1
      <4> HIDE DEF g, h
      <4>3. f[i] = Move(f[i - 1])
        BY <3>0, <3>3, <4>1
      <4> QED  BY <4>2, <4>3
    <3> QED  BY <3>1, <3>2, <3>3
  <2>3. g = h
    BY <2>2
  <2>4. Partial(b, k + 1, g)
    BY <2>3 DEF Partial
  <2> QED  BY <2>4
<1> HIDE DEF T
<1>3. Nat \subseteq T
  BY <1>1, <1>2, SetInduction
<1> QED  BY <1>3 DEF T

LEMMA PartialUnique ==
  ASSUME NEW b, NEW k \in Nat, NEW l \in Nat, k <= l,
         NEW f, Partial(b, k, f), NEW g, Partial(b, l, g)
  PROVE  \A i \in 0..k : f[i] = g[i]
<1> DEFINE T == {i \in Nat : i <= k => f[i] = g[i]}
<1>0. /\ \A i \in 0..k : f[i] = IF i = 0 THEN b ELSE Move(f[i - 1])
      /\ \A i \in 0..l : g[i] = IF i = 0 THEN b ELSE Move(g[i - 1])
  BY DEF Partial
<1>1. 0 \in T
  BY <1>0
<1>2. ASSUME NEW i \in Nat, i \in T PROVE i + 1 \in T
  <2> SUFFICES ASSUME i + 1 <= k PROVE f[i + 1] = g[i + 1]
    OBVIOUS
  <2>1. i + 1 \in 0..k /\ i + 1 \in 0..l /\ i + 1 # 0 /\ (i + 1) - 1 = i /\ i <= k
    OBVIOUS
  <2>2. f[i + 1] = Move(f[i]) /\ g[i + 1] = Move(g[i])
    BY <1>0, <2>1
  <2>3. f[i] = g[i]
    BY <1>2, <2>1
  <2> QED  BY <2>2, <2>3
<1> HIDE DEF T
<1>3. Nat \subseteq T
  BY <1>1, <1>2, SetInduction
<1> QED  BY <1>3 DEF T

LEMMA PulledIs ==
  ASSUME NEW b
  PROVE  \E f : /\ f[0] = b
                /\ \A n \in Nat : f[n + 1] = Move(f[n])
                /\ Pulled(b) = f[Cardinality(DOMAIN b.segments)]
<1> DEFINE P(n) == CHOOSE f : Partial(b, n, f)
           g == [n \in Nat |-> P(n)[n]]
           h == [n \in Nat |-> IF n = 0 THEN b ELSE Move(g[n - 1])]
           f == CHOOSE f : f = [n \in Nat |-> IF n = 0 THEN b ELSE Move(f[n - 1])]
<1>1. \A n \in Nat : Partial(b, n, P(n))
  BY PartialExists
<1>2. ASSUME NEW n \in Nat PROVE g[n] = h[n]
  <2>1. P(n)[n] = IF n = 0 THEN b ELSE Move(P(n)[n - 1])
    <3>1. \A q : Partial(b, n, q) => q[n] = IF n = 0 THEN b ELSE Move(q[n - 1])
      BY DEF Partial
    <3> HIDE DEF P
    <3> QED  BY <1>1, <3>1
  <2>2. CASE n = 0
    BY <2>1, <2>2
  <2>3. CASE n # 0
    <3>1. n - 1 \in Nat /\ n - 1 <= n /\ n - 1 \in 0..n - 1
      BY <2>3
    <3>2. P(n - 1)[n - 1] = P(n)[n - 1]
      <4>1. Partial(b, n - 1, P(n - 1)) /\ Partial(b, n, P(n))
        BY <1>1, <3>1
      <4> HIDE DEF P
      <4> QED  BY <3>1, <4>1, PartialUnique
    <3>3. g[n] = P(n)[n] /\ g[n - 1] = P(n - 1)[n - 1] /\ h[n] = Move(g[n - 1])
      BY <2>3, <3>1
    <3> HIDE DEF P, g, h
    <3> QED  BY <2>1, <2>3, <3>2, <3>3
  <2> QED  BY <2>2, <2>3
<1>3. g = h
  BY <1>2
<1>4. \E q : q = [n \in Nat |-> IF n = 0 THEN b ELSE Move(q[n - 1])]
  BY <1>3
<1> HIDE DEF P, g, h
<1>5. f = [n \in Nat |-> IF n = 0 THEN b ELSE Move(f[n - 1])]
  BY <1>4
<1>6. Pulled(b) = f[Cardinality(DOMAIN b.segments)]
  BY DEF Pulled
<1> HIDE DEF f
<1>7. f[0] = b
  BY <1>5
<1>8. ASSUME NEW n \in Nat PROVE f[n + 1] = Move(f[n])
  <2>1. n + 1 \in Nat /\ n + 1 # 0 /\ (n + 1) - 1 = n
    OBVIOUS
  <2> QED  BY <1>5, <2>1
<1> QED  BY <1>6, <1>7, <1>8

-----------------------------------------------------------------------------
(***************************************************************************)
(* Pulling in one segment, and all that have become adjacent.              *)
(***************************************************************************)
Sound(b, a, m, arr, clean, sum) ==
  /\ \E n \in Places :
       /\ m <= n /\ b.pending = Run(m, n) /\ b.next = SeqAt(n)
       /\ \E t \in arr : n <= t.last + 1
       /\ clean => Neat(a, n, b.segments, arr)
  /\ HeldRuns(b.segments, arr)
  /\ sum = Len(b.pending) + Cardinality(Buffered(b.segments))

LEMMA BufferedFinite ==
  ASSUME NEW ss, NEW arr, HeldRuns(ss, arr)
  PROVE  IsFiniteSet(Buffered(ss)) /\ Cardinality(Buffered(ss)) \in Nat /\ IsFiniteSet(DOMAIN ss)
<1> USE Sizes
<1>1. IsFiniteSet(Seqs) /\ IsFiniteSet(1..StreamLen)
  <2>1. 0 \in Int /\ 1 \in Int /\ StreamLen \in Int /\ Modulus - 1 \in Int
    OBVIOUS
  <2> QED  BY <2>1, FS_Interval DEF Seqs
<1>2. IsFiniteSet(Seqs \X (1..StreamLen))
  BY <1>1, FS_Product
<1>3. Buffered(ss) \subseteq Seqs \X (1..StreamLen)
  <2>1. ASSUME NEW q \in DOMAIN ss PROVE q \in Seqs /\ DOMAIN ss[q] \subseteq 1..StreamLen
    <3>1. PICK x, y \in Places : x < y /\ ss[q] = Run(x, y)
      BY DEF HeldRuns
    <3>2. DOMAIN ss[q] = 1..y - x
      BY <3>1 DEF Run
    <3>3. y - x <= StreamLen /\ y - x \in Int
      BY DEF Places
    <3> QED  BY <3>2, <3>3 DEF HeldRuns
  <2> QED  BY <2>1 DEF Buffered
<1>4. DOMAIN ss \subseteq Seqs
  BY DEF HeldRuns
<1>5. IsFiniteSet(Buffered(ss))
  BY <1>2, <1>3, FS_Subset
<1>6. IsFiniteSet(DOMAIN ss)
  BY <1>1, <1>4, FS_Subset
<1> QED  BY <1>5, <1>6, FS_CardinalityType

\* Taking one run out of the buffer takes its bytes out of the count.
LEMMA BufferedLess ==
  ASSUME NEW ss, NEW arr, HeldRuns(ss, arr), NEW q \in DOMAIN ss,
         NEW l \in Nat, DOMAIN ss[q] = 1..l
  PROVE  LET rest == Restrict(ss, DOMAIN ss \ {q})
         IN  /\ HeldRuns(rest, arr) /\ DOMAIN rest = DOMAIN ss \ {q}
             /\ \A r \in DOMAIN rest : rest[r] = ss[r]
             /\ Cardinality(Buffered(ss)) = Cardinality(Buffered(rest)) + l
<1> DEFINE rest == Restrict(ss, DOMAIN ss \ {q})
           B == Buffered(rest)
           D == {q} \X (1..l)
<1>1. DOMAIN rest = DOMAIN ss \ {q} /\ \A r \in DOMAIN rest : rest[r] = ss[r]
  BY DEF Restrict
<1>2. rest = [r \in DOMAIN rest |-> rest[r]]
  BY DEF Restrict
<1> HIDE DEF rest
<1>3. HeldRuns(rest, arr)
  BY <1>1, <1>2 DEF HeldRuns
<1>4. Buffered(ss) = B \cup D
  <2>1. \A r : r \in DOMAIN ss <=> r \in DOMAIN rest \/ r = q
    BY <1>1
  <2>2. ASSUME NEW z PROVE z \in Buffered(ss) <=> z \in B \/ z \in D
    <3>1. z \in Buffered(ss) <=> \E r \in DOMAIN ss : z \in {r} \X DOMAIN ss[r]
      BY DEF Buffered
    <3>2. z \in B <=> \E r \in DOMAIN rest : z \in {r} \X DOMAIN rest[r]
      BY DEF Buffered
    <3> HIDE DEF B
    <3> QED  BY <1>1, <2>1, <3>1, <3>2
  <2> QED  BY <2>2
<1>5. B \cap D = {}
  <2>1. ASSUME NEW z \in B PROVE z \notin D
    <3>1. PICK r \in DOMAIN rest : z \in {r} \X DOMAIN rest[r]
      BY DEF Buffered
    <3> QED  BY <1>1, <3>1
  <2> QED  BY <2>1
<1>6. IsFiniteSet(B) /\ Cardinality(B) \in Nat
  BY <1>3, BufferedFinite
<1>7. IsFiniteSet(D) /\ Cardinality(D) = l
  <2>1. IsFiniteSet({q}) /\ Cardinality({q}) = 1
    BY FS_Singleton
  <2>2. IsFiniteSet(1..l) /\ Cardinality(1..l) = l
    <3>1. l \in Int /\ 1 \in Int /\ (1 > l => l = 0) /\ l - 1 + 1 = l
      OBVIOUS
    <3> QED  BY <3>1, FS_Interval
  <2>3. IsFiniteSet(D) /\ Cardinality(D) = Cardinality({q}) * Cardinality(1..l)
    BY <2>1, <2>2, FS_Product
  <2> QED  BY <2>1, <2>2, <2>3
<1> HIDE DEF B, D
<1>8. Cardinality(B \cup D) = Cardinality(B) + Cardinality(D) - Cardinality(B \cap D)
  BY <1>6, <1>7, FS_Union
<1>9. Cardinality(B \cap D) = 0
  BY <1>5, FS_EmptySet
<1>10. Cardinality(B \cup D) = Cardinality(B) + l
  BY <1>6, <1>7, <1>8, <1>9
<1>11. Cardinality(Buffered(ss)) = Cardinality(Buffered(rest)) + l
  BY <1>4, <1>10 DEF B
<1> QED  BY <1>1, <1>3, <1>11 DEF rest

LEMMA SameData ==
  ASSUME NEW s \in Segments, NEW t \in Segments, SeqNum(s) = SeqNum(t)
  PROVE  s.first = t.first
BY DataIs, SeqOrder

\* The ends of the segments that arrived, as numbers and apart.
LEMMA ApartEnds ==
  ASSUME NEW arr \in SUBSET Segments
  PROVE  /\ \A t \in arr : /\ t.first \in Nat /\ t.last \in Nat /\ t.first <= t.last
                           /\ t.first \in Places /\ t.last + 1 \in Places
                           /\ SeqNum(t) = SeqAt(t.first)
         /\ Apart(arr) => \A s, t \in arr : s # t => t.last < s.first \/ s.last < t.first
<1>1. ASSUME NEW t \in arr
      PROVE  /\ t.first \in Nat /\ t.last \in Nat /\ t.first <= t.last
             /\ t.first \in Places /\ t.last + 1 \in Places
             /\ SeqNum(t) = SeqAt(t.first)
  <2>1. t.first \in Nat /\ t.last \in Nat /\ t.first <= t.last
    BY Sizes DEF Segments, Bytes
  <2> QED  BY <2>1, DataIs
<1>2. ASSUME Apart(arr), NEW s \in arr, NEW t \in arr, s # t,
             ~(t.last < s.first), ~(s.last < t.first)
      PROVE  FALSE
  <2>1. Positions(s) \cap Positions(t) = {}
    BY <1>2 DEF Apart
  <2>2. CASE s.first <= t.first
    <3>1. t.first \in Positions(s) /\ t.first \in Positions(t)
      BY <1>1, <1>2, <2>2 DEF Positions
    <3> QED  BY <2>1, <3>1
  <2>3. CASE t.first <= s.first
    <3>1. s.first \in Positions(s) /\ s.first \in Positions(t)
      BY <1>1, <1>2, <2>3 DEF Positions
    <3> QED  BY <2>1, <3>1
  <2> QED  BY <1>1, <2>2, <2>3
<1> QED  BY <1>1, <1>2

LEMMA NeatMove ==
  ASSUME NEW arr \in SUBSET Segments, Apart(arr), NEW a \in Places, NEW n \in Places, a <= n,
         NEW y \in Places, n < y, NEW ss, Neat(a, n, ss, arr),
         SeqAt(n) \in DOMAIN ss, ss[SeqAt(n)] = Run(n, y),
         NEW rest, DOMAIN rest = DOMAIN ss \ {SeqAt(n)},
         \A r \in DOMAIN rest : rest[r] = ss[r]
  PROVE  Neat(a, y, rest, arr)
<1> DEFINE q == SeqAt(n)
<1>0. n \in Nat /\ y \in Nat /\ a \in Nat
  BY Sizes DEF Places
<1>1. \A t \in arr : /\ t.first \in Nat /\ t.last \in Nat /\ t.first <= t.last
                     /\ t.first \in Places /\ t.last + 1 \in Places /\ t \in Segments
                     /\ SeqNum(t) = SeqAt(t.first) /\ DataOf(t) = Run(t.first, t.last + 1)
  BY ApartEnds, DataIs
<1>2. \A s, t \in arr : s # t => t.last < s.first \/ s.last < t.first
  BY ApartEnds
<1>3. PICK u \in arr : q = SeqNum(u) /\ ss[q] = DataOf(u) /\ n <= u.first
  BY DEF Neat, Ahead
<1>4. u.first = n /\ u.last + 1 = y
  <2>1. u.first = n
    BY <1>1, <1>3, SeqOrder
  <2>2. Run(n, y) = Run(n, u.last + 1) /\ n <= u.last + 1
    BY <1>0, <1>1, <1>3, <2>1
  <2>3. y - n = (u.last + 1) - n
    <3>0. n <= y
      BY <1>0
    <3>1. Len(Run(n, y)) = y - n
      BY <3>0, RunIs
    <3>2. Len(Run(n, u.last + 1)) = (u.last + 1) - n
      BY <1>1, <2>2, RunIs
    <3> QED  BY <2>2, <3>1, <3>2
  <2> QED  BY <1>0, <1>1, <2>1, <2>3
<1>5. Ahead(y, rest, arr)
  <2> SUFFICES ASSUME NEW r \in DOMAIN rest
               PROVE  \E t \in arr : r = SeqNum(t) /\ rest[r] = DataOf(t) /\ y <= t.first
    BY DEF Ahead
  <2>1. r \in DOMAIN ss /\ r # q /\ rest[r] = ss[r]
    OBVIOUS
  <2>2. PICK t \in arr : r = SeqNum(t) /\ ss[r] = DataOf(t) /\ n <= t.first
    BY <2>1 DEF Neat, Ahead
  <2>3. t # u
    BY <1>3, <2>1, <2>2
  <2>4. u.last < t.first
    BY <1>0, <1>1, <1>2, <1>4, <2>2, <2>3
  <2> QED  BY <1>0, <1>1, <1>4, <2>1, <2>2, <2>4
<1>6. Behind(a, y, rest, arr)
  <2> SUFFICES ASSUME NEW t \in arr, SeqNum(t) \notin DOMAIN rest
               PROVE  a <= t.first /\ t.last < y
    BY DEF Behind
  <2>1. CASE SeqNum(t) = q
    <3>1. t.first = n
      BY <1>1, <2>1, SeqOrder
    <3>2. t = u
      BY <1>0, <1>1, <1>2, <1>4, <3>1
    <3> QED  BY <1>0, <1>1, <1>4, <3>1, <3>2
  <2>2. CASE SeqNum(t) # q
    <3>1. a <= t.first /\ t.last < n
      BY <2>2 DEF Neat, Behind
    <3> QED  BY <1>0, <1>1, <3>1
  <2> QED  BY <2>1, <2>2
<1>7. Covered(a, y, arr)
  <2> SUFFICES ASSUME NEW p \in Places, a <= p, p < y
               PROVE  \E t \in arr : t.first <= p /\ p <= t.last /\ t.last < y
    BY DEF Covered
  <2>0. p \in Nat
    BY Sizes DEF Places
  <2>1. CASE p < n
    <3>1. PICK t \in arr : t.first <= p /\ p <= t.last /\ t.last < n
      BY <2>1 DEF Neat, Covered
    <3>2. t.last < y
      BY <1>0, <1>1, <3>1
    <3> QED  BY <3>1, <3>2
  <2>2. CASE ~(p < n)
    <3>1. u.first <= p /\ p <= u.last /\ u.last < y
      BY <1>0, <1>1, <1>4, <2>0, <2>2
    <3> QED  BY <3>1
  <2> QED  BY <2>1, <2>2
<1> QED  BY <1>5, <1>6, <1>7 DEF Neat

LEMMA MoveSound ==
  ASSUME NEW arr \in SUBSET Segments, NEW a \in Places, NEW m \in Places, a <= m,
         NEW clean \in BOOLEAN, clean => Apart(arr), NEW sum,
         NEW b, Sound(b, a, m, arr, clean, sum)
  PROVE  Sound(Move(b), a, m, arr, clean, sum)
<1> DEFINE ss == b.segments
           q == b.next
<1>1. PICK n \in Places : /\ m <= n /\ b.pending = Run(m, n) /\ q = SeqAt(n)
                          /\ \E t \in arr : n <= t.last + 1
                          /\ clean => Neat(a, n, ss, arr)
  BY DEF Sound
<1>2. CASE q \notin DOMAIN ss
  BY <1>2 DEF Move
<1>3. CASE q \in DOMAIN ss
  <2>0. HeldRuns(ss, arr) /\ sum = Len(b.pending) + Cardinality(Buffered(ss))
    BY DEF Sound
  <2>1. PICK x \in Places, y \in Places :
          x < y /\ q = SeqAt(x) /\ ss[q] = Run(x, y) /\ \E t \in arr : t.last + 1 = y
    BY <1>3, <2>0 DEF HeldRuns
  <2>2. x = n
    BY <1>1, <2>1, SeqOrder
  <2> DEFINE rest == Restrict(ss, DOMAIN ss \ {q})
             c == Move(b)
             l == y - n
  <2>3. /\ l \in Nat /\ n + l = y /\ n < y /\ n <= y /\ m <= y /\ a <= n
        /\ m \in Nat /\ n \in Nat /\ y \in Nat
    BY <1>1, <2>1, <2>2, Sizes DEF Places
  <2>4. Len(ss[q]) = l /\ DOMAIN ss[q] = 1..l
    BY <2>1, <2>2, <2>3, RunIs
  <2>5. /\ c.pending = b.pending \o ss[q] /\ c.next = Advance(q, Len(ss[q]))
        /\ c.segments = rest
    BY <1>3 DEF Move
  <2> HIDE DEF c
  <2>6. /\ HeldRuns(rest, arr) /\ DOMAIN rest = DOMAIN ss \ {q}
        /\ \A r \in DOMAIN rest : rest[r] = ss[r]
        /\ Cardinality(Buffered(ss)) = Cardinality(Buffered(rest)) + l
    <3> HIDE DEF l
    <3> QED  BY <1>3, <2>0, <2>3, <2>4, BufferedLess
  <2> HIDE DEF rest
  <2>7. b.pending \o ss[q] = Run(m, y)
    <3>1. Run(m, n) \o Run(n, y) = Run(m, y)
      BY <1>1, <2>3, RunConcat
    <3> QED  BY <1>1, <2>1, <2>2, <3>1
  <2>8. Advance(q, l) = SeqAt(y)
    <3> HIDE DEF l
    <3> QED  BY <1>1, <2>3, SeqAdvance
  <2>9. clean => Neat(a, y, rest, arr)
    <3> SUFFICES ASSUME clean PROVE Neat(a, y, rest, arr)
      OBVIOUS
    <3>1. Apart(arr) /\ Neat(a, n, ss, arr)
      BY <1>1
    <3>2. SeqAt(n) \in DOMAIN ss /\ ss[SeqAt(n)] = Run(n, y) /\ DOMAIN rest = DOMAIN ss \ {SeqAt(n)}
      BY <1>1, <1>3, <2>1, <2>2, <2>6
    <3> HIDE DEF ss, q
    <3> QED  BY <2>3, <2>6, <3>1, <3>2, NeatMove
  <2>10. sum = Len(c.pending) + Cardinality(Buffered(c.segments))
    <3>1. Len(Run(m, n)) = n - m
      BY <1>1, RunIs
    <3>2. Len(Run(m, y)) = y - m
      BY <2>3, RunIs
    <3>3. Cardinality(Buffered(rest)) \in Nat
      BY <2>6, BufferedFinite
    <3>4. c.pending = Run(m, y) /\ c.segments = rest
      BY <2>5, <2>7
    <3>5. sum = (n - m) + (Cardinality(Buffered(rest)) + l)
      BY <1>1, <2>0, <2>6, <3>1
    <3>6. Len(c.pending) + Cardinality(Buffered(c.segments)) = (y - m) + Cardinality(Buffered(rest))
      BY <3>2, <3>4
    <3> HIDE DEF c, rest
    <3>7. (n - m) + (Cardinality(Buffered(rest)) + l) = (y - m) + Cardinality(Buffered(rest))
      BY <2>3, <3>3
    <3> QED  BY <3>5, <3>6, <3>7
  <2>11. \E t \in arr : y <= t.last + 1
    <3>1. PICK t \in arr : t.last + 1 = y
      BY <2>1
    <3> QED  BY <2>3, <3>1
  <2>12. c.pending = Run(m, y) /\ c.next = SeqAt(y) /\ c.segments = rest
    BY <2>4, <2>5, <2>7, <2>8
  <2>13. Sound(c, a, m, arr, clean, sum)
    BY <2>3, <2>6, <2>9, <2>10, <2>11, <2>12 DEF Sound
  <2> QED  BY <2>13 DEF c
<1> QED  BY <1>2, <1>3

\* Behind the loop nothing that waits is adjacent.
LEMMA PulledSound ==
  ASSUME NEW arr \in SUBSET Segments, NEW a \in Places, NEW m \in Places, a <= m,
         NEW clean \in BOOLEAN, clean => Apart(arr), NEW sum,
         NEW b, Sound(b, a, m, arr, clean, sum)
  PROVE  /\ Sound(Pulled(b), a, m, arr, clean, sum)
         /\ Pulled(b).next \notin DOMAIN Pulled(b).segments
<1>1. PICK f : /\ f[0] = b
               /\ \A n \in Nat : f[n + 1] = Move(f[n])
               /\ Pulled(b) = f[Cardinality(DOMAIN b.segments)]
  BY PulledIs
<1> DEFINE C == Cardinality(DOMAIN b.segments)
           D(n) == DOMAIN f[n].segments
           Good(n) == Sound(f[n], a, m, arr, clean, sum)
           Done(n) == f[n].next \notin D(n)
           T == {n \in Nat : Good(n) /\ (Cardinality(D(n)) + n <= C \/ Done(n))}
<1>2. ASSUME NEW n \in Nat, Good(n) PROVE IsFiniteSet(D(n)) /\ Cardinality(D(n)) \in Nat
  <2>1. HeldRuns(f[n].segments, arr)
    BY <1>2 DEF Sound
  <2>2. IsFiniteSet(D(n))
    BY <2>1, BufferedFinite
  <2> QED  BY <2>2, FS_CardinalityType
<1>3. 0 \in T
  <2>1. Good(0) /\ D(0) = DOMAIN b.segments
    BY <1>1
  <2>2. Cardinality(D(0)) \in Nat
    BY <1>2, <2>1
  <2> HIDE DEF D, Good, Done
  <2>3. Cardinality(D(0)) = C
    BY <2>1
  <2> HIDE DEF C
  <2> QED  BY <2>1, <2>2, <2>3
<1>4. ASSUME NEW n \in Nat, n \in T PROVE n + 1 \in T
  <2>1. f[n + 1] = Move(f[n])
    BY <1>1
  <2>2. Good(n) /\ (Cardinality(D(n)) + n <= C \/ Done(n))
    BY <1>4
  <2>3. Good(n + 1)
    BY <2>1, <2>2, MoveSound
  <2>4. IsFiniteSet(D(n)) /\ Cardinality(D(n)) \in Nat /\ Cardinality(D(n + 1)) \in Nat
    BY <1>2, <2>2, <2>3
  <2>5. CASE Done(n)
    <3>1. Move(f[n]) = f[n]
      BY <2>5 DEF Move
    <3>2. f[n + 1] = f[n]
      BY <2>1, <3>1
    <3>3. Done(n + 1)
      BY <2>5, <3>2
    <3> HIDE DEF D, Good, Done
    <3> QED  BY <2>3, <3>3
  <2>6. CASE ~Done(n)
    <3>1. f[n].next \in D(n)
      BY <2>6
    <3>2. D(n + 1) = D(n) \ {f[n].next}
      <4>1. Move(f[n]).segments = Restrict(f[n].segments, D(n) \ {f[n].next})
        BY <3>1 DEF Move
      <4>2. DOMAIN Restrict(f[n].segments, D(n) \ {f[n].next}) = D(n) \ {f[n].next}
        BY DEF Restrict
      <4> QED  BY <2>1, <4>1, <4>2
    <3> HIDE DEF D, Good, Done, C
    <3>3. Cardinality(D(n + 1)) = Cardinality(D(n)) - 1
      BY <2>4, <3>1, <3>2, FS_RemoveElement
    <3>4. Cardinality(D(n)) + n <= C
      BY <2>2, <2>6
    <3>5. C \in Nat
      <4>1. 0 \in Nat /\ Good(0) /\ D(0) = DOMAIN b.segments
        BY <1>1, <1>3 DEF Good, D
      <4> QED  BY <1>2, <4>1 DEF C
    <3>6. Cardinality(D(n + 1)) + (n + 1) <= C
      BY <2>4, <3>3, <3>4, <3>5
    <3> QED  BY <2>3, <3>6
  <2> QED  BY <2>5, <2>6
<1> HIDE DEF T
<1>5. Nat \subseteq T
  BY <1>3, <1>4, SetInduction
<1>6. C \in Nat
  <2>1. 0 \in Nat /\ Good(0) /\ D(0) = DOMAIN b.segments
    BY <1>1, <1>3 DEF T
  <2> QED  BY <1>2, <2>1
<1>7. Good(C) /\ (Cardinality(D(C)) + C <= C \/ Done(C))
  <2> HIDE DEF C
  <2> QED  BY <1>5, <1>6 DEF T
<1>8. Done(C)
  <2>1. IsFiniteSet(D(C)) /\ Cardinality(D(C)) \in Nat
    BY <1>2, <1>6, <1>7
  <2> HIDE DEF D, C
  <2>2. CASE Cardinality(D(C)) + C <= C
    <3>1. Cardinality(D(C)) = 0
      BY <1>6, <2>1, <2>2
    <3>2. D(C) = {}
      BY <2>1, <3>1, FS_EmptySet
    <3> QED  BY <3>2
  <2> QED  BY <1>7, <2>2
<1> QED  BY <1>1, <1>7, <1>8
-----------------------------------------------------------------------------
(***************************************************************************)
(* A segment arrives.                                                      *)
(***************************************************************************)
At(s, a, m, n) ==
  /\ a <= m /\ m <= n
  /\ IF base = NoSeq THEN s.first = n ELSE nextSeq = SeqAt(n)
  /\ Expected(s) = SeqAt(n)
  /\ drained = Run(a, m) /\ pending = Run(m, n)
  /\ SeqAt(n) \notin DOMAIN segments
  /\ \E t \in arrived \cup {s} : n <= t.last + 1
  /\ CleanCut /\ ~capped => Neat(a, n, segments, arrived)

LEMMA Arrival ==
  ASSUME FlagsInv, PlaceInv, NEW s \in Segments, Arrive(s)
  PROVE  \E a, m, n \in Places :
           /\ At(s, a, m, n) /\ base' = SeqAt(a)
           /\ CleanCut' => CleanCut /\ Apart(arrived') /\ a <= s.first
<1>1. base' = (IF base = NoSeq THEN SeqNum(s) ELSE base) /\ arrived' = arrived \cup {s}
  BY DEF Arrive
<1>2. s.first \in Places /\ SeqNum(s) = SeqAt(s.first) /\ s.first <= s.last + 1 /\ s.first <= s.first
  <2>1. s.first \in Places /\ s.last + 1 \in Places /\ s.first < s.last + 1 /\ SeqNum(s) = SeqAt(s.first)
    BY DataIs
  <2>2. s.first <= s.last + 1 /\ s.first <= s.first
    BY <2>1, Sizes DEF Places
  <2> QED  BY <2>1, <2>2
<1>3. ASSUME NEW a \in Places, base' = SeqAt(a), CleanCut'
      PROVE  Apart(arrived') /\ a <= s.first
  <2>1. Apart(arrived') /\ ~SeqLt(SeqNum(s), base')
    BY <1>1, <1>3 DEF CleanCut, Apart
  <2>2. ~(s.first < a)
    BY <1>2, <1>3, <2>1, SeqOrder
  <2> QED  BY <1>2, <2>1, <2>2, Sizes DEF Places
<1>4. CASE base = NoSeq
  <2> DEFINE a == s.first
  <2>1. arrived = {} /\ pending = << >> /\ drained = << >> /\ segments = << >>
    BY <1>4 DEF PlaceInv
  <2>2. Run(a, a) = << >> /\ DOMAIN segments = {}
    BY <1>2, <2>1, RunEmpty
  <2>3. CleanCut
    BY <2>1 DEF CleanCut
  <2>4. Neat(a, a, segments, arrived)
    <3>1. Ahead(a, segments, arrived) /\ Behind(a, a, segments, arrived)
      BY <2>1, <2>2 DEF Ahead, Behind
    <3>2. \A p \in Places : ~(a <= p /\ p < a)
      BY <1>2, Sizes DEF Places
    <3> QED  BY <3>1, <3>2 DEF Neat, Covered
  <2>5. Expected(s) = SeqAt(a) /\ base' = SeqAt(a)
    BY <1>1, <1>2, <1>4 DEF Expected
  <2>6. At(s, a, a, a)
    <3> HIDE DEF a
    <3>1. s.first = a
      BY DEF a
    <3> QED  BY <1>2, <1>4, <2>1, <2>2, <2>4, <2>5, <3>1 DEF At
  <2>7. CleanCut' => CleanCut /\ Apart(arrived') /\ a <= s.first
    BY <1>2, <1>3, <2>3, <2>5
  <2> QED  BY <1>2, <2>5, <2>6, <2>7
<1>5. CASE base # NoSeq
  <2>1. PICK a \in Places, m \in Places, n \in Places : Placed(a, m, n)
    BY <1>5 DEF PlaceInv
  <2>2. Expected(s) = nextSeq /\ base' = base
    BY <1>1, <1>5 DEF Expected
  <2>3. At(s, a, m, n) /\ base' = SeqAt(a)
    BY <1>5, <2>1, <2>2 DEF Placed, At
  <2>4. CleanCut' => CleanCut
    BY <1>1, <2>2 DEF CleanCut
  <2>5. CleanCut' => Apart(arrived') /\ a <= s.first
    BY <1>3, <2>3
  <2> QED  BY <2>3, <2>4, <2>5
<1> QED  BY <1>4, <1>5

\* What is old, and what is left of the rest.
LEMMA FreshIs ==
  ASSUME NEW s \in Segments, NEW n \in Places, Expected(s) = SeqAt(n)
  PROVE  /\ Old(s) <=> s.last + 1 <= n
         /\ s.first < n /\ ~Old(s) =>
              Fresh(s).seq = SeqAt(n) /\ Fresh(s).data = Run(n, s.last + 1)
         /\ n <= s.first =>
              Fresh(s).seq = SeqAt(s.first) /\ Fresh(s).data = DataOf(s)
<1> DEFINE x == s.first
           y == s.last + 1
<1>1. /\ x \in Places /\ y \in Places /\ x < y /\ SeqNum(s) = SeqAt(x)
      /\ DataOf(s) = Run(x, y) /\ Len(DataOf(s)) = y - x
  BY DataIs
<1> HIDE DEF x, y
<1>2. x \in Nat /\ y \in Nat /\ n \in Nat /\ y - x \in Nat /\ x + (y - x) = y
  BY <1>1, Sizes DEF Places
<1>3. Old(s) <=> y <= n
  <2> DEFINE l == y - x
  <2>1. l \in Nat /\ x + l = y
    BY <1>2
  <2> HIDE DEF l
  <2>2. Advance(SeqAt(x), l) = SeqAt(y)
    BY <1>1, <2>1, SeqAdvance
  <2>3. Old(s) <=> ~SeqLt(SeqAt(n), SeqAt(y))
    BY <1>1, <2>2 DEF Old, l
  <2>4. SeqLt(SeqAt(n), SeqAt(y)) <=> n < y
    BY <1>1, SeqOrder
  <2> QED  BY <1>2, <2>3, <2>4
<1>4. SeqLt(SeqNum(s), Expected(s)) <=> x < n
  BY <1>1, SeqOrder
<1>5. ASSUME x < n, ~Old(s) PROVE Fresh(s).seq = SeqAt(n) /\ Fresh(s).data = Run(n, y)
  <2>1. x <= n /\ n <= y
    BY <1>2, <1>3, <1>5
  <2>2. (Expected(s) - SeqNum(s)) % Modulus = n - x
    BY <1>1, <2>1, SeqOrder
  <2>3. SubSeq(Run(x, y), 1 + (n - x), y - x) = Run(n, y)
    BY <1>1, <2>1, RunTail
  <2>4. Fresh(s).data = SubSeq(Run(x, y), 1 + (n - x), y - x)
    BY <1>1, <1>4, <1>5, <2>2 DEF Fresh
  <2>5. Fresh(s).seq = SeqAt(n)
    BY <1>4, <1>5 DEF Fresh
  <2> QED  BY <2>3, <2>4, <2>5
<1>6. ASSUME n <= x PROVE Fresh(s).seq = SeqAt(x) /\ Fresh(s).data = DataOf(s)
  <2>1. ~SeqLt(SeqNum(s), Expected(s))
    BY <1>2, <1>4, <1>6
  <2> QED  BY <1>1, <2>1 DEF Fresh
<1> QED  BY <1>3, <1>5, <1>6 DEF x, y

\* More that arrived takes nothing from what was held.
LEMMA MoreArrived ==
  ASSUME NEW arr, NEW more, arr \subseteq more, NEW ss
  PROVE  /\ HeldRuns(ss, arr) => HeldRuns(ss, more)
         /\ \A n : Ahead(n, ss, arr) => Ahead(n, ss, more)
         /\ \A a, n : Covered(a, n, arr) => Covered(a, n, more)
<1>1. HeldRuns(ss, arr) => HeldRuns(ss, more)
  <2> SUFFICES ASSUME HeldRuns(ss, arr) PROVE HeldRuns(ss, more)
    OBVIOUS
  <2>1. ASSUME NEW q \in DOMAIN ss
        PROVE  \E x, y \in Places :
                 x < y /\ q = SeqAt(x) /\ ss[q] = Run(x, y) /\ \E t \in more : t.last + 1 = y
    <3>1. PICK x \in Places, y \in Places :
            x < y /\ q = SeqAt(x) /\ ss[q] = Run(x, y) /\ \E t \in arr : t.last + 1 = y
      BY DEF HeldRuns
    <3>2. \E t \in more : t.last + 1 = y
      BY <3>1
    <3> QED  BY <3>1, <3>2
  <2> QED  BY <2>1 DEF HeldRuns
<1>2. ASSUME NEW n, Ahead(n, ss, arr) PROVE Ahead(n, ss, more)
  BY <1>2 DEF Ahead
<1>3. ASSUME NEW a, NEW n, Covered(a, n, arr) PROVE Covered(a, n, more)
  BY <1>3 DEF Covered
<1> QED  BY <1>1, <1>2, <1>3
\* In a stream that is cut once, a segment with anything new is all new.
LEMMA AllNew ==
  ASSUME NEW arr \in SUBSET Segments, NEW s \in Segments, Apart(arr \cup {s}),
         NEW a \in Places, NEW n \in Places, Covered(a, n, arr),
         a <= s.first, ~(s.last + 1 <= n)
  PROVE  n <= s.first
<1> SUFFICES ASSUME ~(n <= s.first) PROVE FALSE
  OBVIOUS
<1>0. s.first \in Nat /\ s.last \in Nat /\ s.first \in Places /\ n \in Nat
  BY Sizes DEF Segments, Bytes, Places
<1>1. PICK t \in arr : t.first <= s.first /\ s.first <= t.last /\ t.last < n
  <2>1. s.first < n
    BY <1>0
  <2> QED  BY <1>0, <2>1 DEF Covered
<1>2. /\ \A u \in arr \cup {s} : u.first \in Nat /\ u.last \in Nat /\ u.first <= u.last
      /\ \A u, v \in arr \cup {s} : u # v => v.last < u.first \/ u.last < v.first
  <2>1. arr \cup {s} \in SUBSET Segments
    OBVIOUS
  <2> QED  BY <2>1, ApartEnds
<1>3. s = t
  BY <1>0, <1>1, <1>2
<1> QED  BY <1>0, <1>1, <1>3

LEMMA NeatDeliver ==
  ASSUME NEW arr \in SUBSET Segments, NEW s \in Segments, Apart(arr \cup {s}),
         NEW a \in Places, NEW n \in Places, NEW ss, Neat(a, n, ss, arr),
         SeqAt(n) \notin DOMAIN ss, s.first = n, a <= n
  PROVE  Neat(a, s.last + 1, ss, arr \cup {s})
<1> DEFINE all == arr \cup {s}
<1>0. n \in Nat /\ a \in Nat
  BY Sizes DEF Places
<1>1. /\ \A t \in all : /\ t.first \in Nat /\ t.last \in Nat /\ t.first <= t.last
                        /\ SeqNum(t) = SeqAt(t.first)
      /\ \A u, t \in all : u # t => t.last < u.first \/ u.last < t.first
  <2>1. all \in SUBSET Segments
    OBVIOUS
  <2> QED  BY <2>1, ApartEnds
<1>2. s \in all /\ arr \subseteq all
  OBVIOUS
<1>3. Ahead(s.last + 1, ss, all)
  <2> SUFFICES ASSUME NEW q \in DOMAIN ss
               PROVE  \E t \in all : q = SeqNum(t) /\ ss[q] = DataOf(t) /\ s.last + 1 <= t.first
    BY DEF Ahead
  <2>1. PICK t \in arr : q = SeqNum(t) /\ ss[q] = DataOf(t) /\ n <= t.first
    BY DEF Neat, Ahead
  <2>2. t # s
    BY <1>1, <1>2, <2>1
  <2>3. t.last < s.first \/ s.last < t.first
    BY <1>1, <1>2, <2>2
  <2>4. s.last + 1 <= t.first
    BY <1>0, <1>1, <1>2, <2>1, <2>3
  <2> QED  BY <1>2, <2>1, <2>4
<1>4. Behind(a, s.last + 1, ss, all)
  <2> SUFFICES ASSUME NEW t \in all, SeqNum(t) \notin DOMAIN ss
               PROVE  a <= t.first /\ t.last < s.last + 1
    BY DEF Behind
  <2>1. CASE t = s
    BY <1>0, <1>1, <2>1
  <2>2. CASE t # s
    <3>1. a <= t.first /\ t.last < n
      BY <2>2 DEF Neat, Behind
    <3> QED  BY <1>0, <1>1, <1>2, <3>1
  <2> QED  BY <2>1, <2>2
<1>5. Covered(a, s.last + 1, all)
  <2> SUFFICES ASSUME NEW p \in Places, a <= p, p < s.last + 1
               PROVE  \E t \in all : t.first <= p /\ p <= t.last /\ t.last < s.last + 1
    BY DEF Covered
  <2>0. p \in Nat
    BY Sizes DEF Places
  <2>1. CASE p < n
    <3>1. PICK t \in arr : t.first <= p /\ p <= t.last /\ t.last < n
      BY <2>1 DEF Neat, Covered
    <3>2. t.last < s.last + 1
      BY <1>0, <1>1, <1>2, <3>1
    <3> QED  BY <1>2, <3>1, <3>2
  <2>2. CASE ~(p < n)
    <3>1. s.first <= p /\ p <= s.last /\ s.last < s.last + 1
      BY <1>0, <1>1, <1>2, <2>0, <2>2
    <3> QED  BY <1>2, <3>1
  <2> QED  BY <2>1, <2>2
<1> QED  BY <1>3, <1>4, <1>5 DEF Neat
-----------------------------------------------------------------------------
(***************************************************************************)
(* What each action keeps of the buffer's part of the invariant.           *)
(***************************************************************************)
LEMMA SeqIsNotAbsent == ASSUME NEW p \in Places PROVE SeqAt(p) # NoSeq
BY SeqAtIs, ReassemblyAssumption

LEMMA IgnoreKeeps ==
  ASSUME FlagsInv, HeldInv, PlaceInv, NEW s \in Segments, Ignore(s)
  PROVE  HeldInv' /\ PlaceInv'
<1>0. /\ Old(s) /\ Arrive(s) /\ arrived' = arrived \cup {s} /\ drained' = drained
      /\ UNCHANGED <<pending, segments, nextSeq, total, capped>>
  BY DEF Ignore, Arrive
<1>1. PICK a \in Places, m \in Places, n \in Places :
        /\ At(s, a, m, n) /\ base' = SeqAt(a)
        /\ CleanCut' => CleanCut /\ Apart(arrived') /\ a <= s.first
  BY <1>0, Arrival
<1>2. s.last + 1 <= n /\ s.first < s.last + 1 /\ s.first \in Nat /\ s.last \in Nat /\ n \in Nat
  <2>1. s.last + 1 <= n
    BY <1>0, <1>1, FreshIs DEF At
  <2>2. s.first \in Nat /\ s.last \in Nat /\ n \in Nat /\ s.first <= s.last
    BY Sizes DEF Segments, Bytes, Places
  <2> QED  BY <2>1, <2>2
<1>3. base # NoSeq
  <2>1. s.first # n
    BY <1>2
  <2> QED  BY <1>1, <2>1 DEF At
<1>4. /\ HeldRuns(segments, arrived) => HeldRuns(segments, arrived')
      /\ Ahead(n, segments, arrived) => Ahead(n, segments, arrived')
      /\ Covered(a, n, arrived) => Covered(a, n, arrived')
  <2>1. arrived \subseteq arrived'
    BY <1>0
  <2> QED  BY <2>1, MoreArrived
<1>5. HeldInv'
  BY <1>0, <1>4 DEF HeldInv, Buffered, HeldRuns
<1>6. CleanCut' /\ ~capped' => Neat(a, n, segments', arrived')
  <2> SUFFICES ASSUME CleanCut', ~capped' PROVE Neat(a, n, segments, arrived')
    BY <1>0
  <2>1. Neat(a, n, segments, arrived) /\ a <= s.first
    BY <1>0, <1>1 DEF At
  <2>2. Behind(a, n, segments, arrived')
    <3> SUFFICES ASSUME NEW t \in arrived', SeqNum(t) \notin DOMAIN segments
                 PROVE  a <= t.first /\ t.last < n
      BY DEF Behind
    <3>1. CASE t = s
      BY <1>2, <2>1, <3>1
    <3>2. CASE t \in arrived
      BY <2>1, <3>2 DEF Neat, Behind
    <3> QED  BY <1>0, <3>1, <3>2
  <2> QED  BY <1>4, <2>1, <2>2 DEF Neat
<1>7. Placed(a, m, n)'
  <2>1. /\ a <= m /\ m <= n /\ drained = Run(a, m) /\ pending = Run(m, n) /\ nextSeq = SeqAt(n)
        /\ SeqAt(n) \notin DOMAIN segments /\ \E t \in arrived \cup {s} : n <= t.last + 1
    BY <1>1, <1>3 DEF At
  <2> QED  BY <1>0, <1>1, <1>6, <2>1 DEF Placed
<1>8. PlaceInv'
  <2>1. base' # NoSeq
    BY <1>1, SeqIsNotAbsent
  <2> QED  BY <1>7, <2>1 DEF PlaceInv
<1> QED  BY <1>5, <1>8

LEMMA RefuseKeeps ==
  ASSUME FlagsInv, HeldInv, PlaceInv, NEW s \in Segments, Refuse(s)
  PROVE  HeldInv' /\ PlaceInv'
<1>0. /\ Arrive(s) /\ arrived' = arrived \cup {s} /\ drained' = drained
      /\ nextSeq' = Expected(s) /\ capped'
      /\ UNCHANGED <<pending, segments, total>>
  BY DEF Refuse, Arrive
<1>1. PICK a \in Places, m \in Places, n \in Places : At(s, a, m, n) /\ base' = SeqAt(a)
  BY <1>0, Arrival
<1>2. HeldRuns(segments, arrived) => HeldRuns(segments, arrived')
  <2>1. arrived \subseteq arrived'
    BY <1>0
  <2> QED  BY <2>1, MoreArrived
<1>3. HeldInv'
  BY <1>0, <1>2 DEF HeldInv, Buffered, HeldRuns
<1>4. Placed(a, m, n)'
  <2>1. /\ a <= m /\ m <= n /\ drained = Run(a, m) /\ pending = Run(m, n)
        /\ Expected(s) = SeqAt(n)
        /\ SeqAt(n) \notin DOMAIN segments /\ \E t \in arrived \cup {s} : n <= t.last + 1
    BY <1>1 DEF At
  <2> QED  BY <1>0, <1>1, <2>1 DEF Placed
<1>5. PlaceInv'
  <2>1. base' # NoSeq
    BY <1>1, SeqIsNotAbsent
  <2> QED  BY <1>4, <2>1 DEF PlaceInv
<1> QED  BY <1>3, <1>5

LEMMA DeliverKeeps ==
  ASSUME FlagsInv, HeldInv, PlaceInv, NEW s \in Segments, Deliver(s)
  PROVE  HeldInv' /\ PlaceInv'
<1> DEFINE f == Fresh(s)
           b == [pending  |-> pending \o f.data,
                 next     |-> Advance(Expected(s), Len(f.data)),
                 segments |-> segments]
           p == Pulled(b)
           y == s.last + 1
           sum == total + Len(f.data)
           clean == CleanCut' /\ ~capped'
<1>0. /\ Arrive(s) /\ arrived' = arrived \cup {s} /\ drained' = drained
      /\ ~Old(s) /\ f.seq = Expected(s) /\ sum <= Cap
      /\ pending' = p.pending /\ nextSeq' = p.next /\ segments' = p.segments
      /\ total' = sum /\ capped' = capped
  BY DEF Deliver, Arrive, Fits
<1>1. PICK a \in Places, m \in Places, n \in Places :
        /\ At(s, a, m, n) /\ base' = SeqAt(a)
        /\ CleanCut' => CleanCut /\ Apart(arrived') /\ a <= s.first
  BY <1>0, Arrival
<1>2. /\ a \in Nat /\ m \in Nat /\ n \in Nat /\ y \in Nat /\ y \in Places
      /\ s.first \in Nat /\ s.first \in Places /\ s.last \in Nat
  <2>1. a \in Nat /\ m \in Nat /\ n \in Nat /\ s.first \in Nat /\ s.last \in Nat
    BY Sizes DEF Segments, Bytes, Places
  <2> QED  BY <2>1, DataIs
<1>3. n < y /\ s.first <= n /\ f.data = Run(n, y)
  <2>1. ~(y <= n)
    BY <1>0, <1>1, FreshIs DEF At
  <2>2. CASE s.first < n
    <3>1. f.data = Run(n, y)
      BY <1>0, <1>1, <2>2, FreshIs DEF At
    <3> QED  BY <1>2, <2>1, <2>2, <3>1
  <2>3. CASE n <= s.first
    <3>1. f.seq = SeqAt(s.first) /\ f.data = DataOf(s)
      BY <1>1, <2>3, FreshIs DEF At
    <3>2. SeqAt(s.first) = SeqAt(n)
      BY <1>0, <1>1, <3>1 DEF At
    <3>3. s.first = n
      BY <1>2, <3>2, SeqOrder
    <3>4. DataOf(s) = Run(s.first, y)
      BY DataIs
    <3> QED  BY <1>2, <2>1, <3>1, <3>3, <3>4
  <2> QED  BY <1>2, <2>2, <2>3
<1>4. m <= n /\ a <= m /\ m <= y /\ pending = Run(m, n) /\ drained = Run(a, m) /\ Expected(s) = SeqAt(n)
  BY <1>1, <1>2, <1>3 DEF At
<1> HIDE DEF f
<1>5. b.pending = Run(m, y) /\ b.next = SeqAt(y) /\ b.segments = segments
  <2> DEFINE l == y - n
  <2>1. l \in Nat /\ n + l = y /\ n <= y
    BY <1>2, <1>3
  <2>2. Len(f.data) = l
    BY <1>2, <1>3, <2>1, RunIs
  <2>3. Run(m, n) \o Run(n, y) = Run(m, y)
    BY <1>2, <1>4, <2>1, RunConcat
  <2> HIDE DEF l, y
  <2>4. Advance(SeqAt(n), l) = SeqAt(y)
    BY <1>2, <2>1, SeqAdvance
  <2> QED  BY <1>3, <1>4, <2>2, <2>3, <2>4
<1>6. sum = Len(Run(m, y)) + Cardinality(Buffered(segments))
  <2>1. Len(Run(m, n)) = n - m /\ Len(Run(m, y)) = y - m /\ Len(Run(n, y)) = y - n
    <3>1. n <= y
      BY <1>2, <1>3
    <3> QED  BY <1>2, <1>4, <3>1, RunIs
  <2>2. Cardinality(Buffered(segments)) \in Nat
    BY BufferedFinite DEF HeldInv
  <2>3. total = Len(pending) + Cardinality(Buffered(segments))
    BY DEF HeldInv
  <2>4. sum = ((n - m) + Cardinality(Buffered(segments))) + (y - n)
    BY <1>3, <1>4, <2>1, <2>3
  <2>5. ((n - m) + Cardinality(Buffered(segments))) + (y - n) = (y - m) + Cardinality(Buffered(segments))
    BY <1>2, <2>2
  <2> QED  BY <2>1, <2>4, <2>5
<1>7. clean => Neat(a, y, segments, arrived')
  <2> SUFFICES ASSUME clean PROVE Neat(a, y, segments, arrived \cup {s})
    BY <1>0
  <2>1. /\ Neat(a, n, segments, arrived) /\ a <= s.first /\ Apart(arrived \cup {s})
        /\ SeqAt(n) \notin DOMAIN segments /\ a <= n
    BY <1>0, <1>1, <1>2 DEF At
  <2>2. n <= s.first
    <3>1. arrived \in SUBSET Segments /\ Covered(a, n, arrived) /\ ~(s.last + 1 <= n)
      BY <1>2, <1>3, <2>1 DEF FlagsInv, Neat
    <3> QED  BY <2>1, <3>1, AllNew
  <2>3. s.first = n /\ arrived \in SUBSET Segments
    BY <1>2, <1>3, <2>2 DEF FlagsInv
  <2> QED  BY <2>1, <2>3, NeatDeliver
<1>8. HeldRuns(segments, arrived')
  <2>1. arrived \subseteq arrived'
    BY <1>0
  <2> QED  BY <2>1, MoreArrived DEF HeldInv
<1>9. \E t \in arrived' : y <= t.last + 1
  BY <1>0, <1>2
<1> HIDE DEF b, y, sum, clean
<1>10. Sound(b, a, m, arrived', clean, sum)
  BY <1>2, <1>4, <1>5, <1>6, <1>7, <1>8, <1>9 DEF Sound
<1>11. /\ Sound(p, a, m, arrived', clean, sum) /\ p.next \notin DOMAIN p.segments
  <2>1. arrived' \in SUBSET Segments /\ (clean => Apart(arrived')) /\ clean \in BOOLEAN
    BY <1>0, <1>1 DEF FlagsInv, clean
  <2> QED  BY <1>4, <1>10, <2>1, PulledSound
<1> HIDE DEF p
<1>12. HeldInv'
  <2>1. HeldRuns(p.segments, arrived') /\ sum = Len(p.pending) + Cardinality(Buffered(p.segments))
    BY <1>11 DEF Sound
  <2>2. HeldRuns(segments', arrived') /\ total' = Len(pending') + Cardinality(Buffered(segments'))
    BY <1>0, <2>1
  <2>3. total' <= Cap
    BY <1>0
  <2> QED  BY <2>2, <2>3 DEF HeldInv, HeldRuns, Buffered
<1>13. PICK k \in Places : /\ m <= k /\ p.pending = Run(m, k) /\ p.next = SeqAt(k)
                           /\ \E t \in arrived' : k <= t.last + 1
                           /\ clean => Neat(a, k, p.segments, arrived')
  BY <1>11 DEF Sound
<1>14. Placed(a, m, k)'
  <2>1. CleanCut' /\ ~capped' => Neat(a, k, segments', arrived')
    BY <1>0, <1>13 DEF clean
  <2> QED  BY <1>0, <1>1, <1>4, <1>11, <1>13, <2>1 DEF Placed
<1>15. PlaceInv'
  <2>1. base' # NoSeq
    BY <1>1, SeqIsNotAbsent
  <2> QED  BY <1>14, <2>1 DEF PlaceInv
<1> QED  BY <1>12, <1>15
LEMMA HoldKeeps ==
  ASSUME FlagsInv, HeldInv, PlaceInv, NEW s \in Segments, Hold(s)
  PROVE  HeldInv' /\ PlaceInv'
<1> DEFINE f == Fresh(s)
           x == s.first
           y == s.last + 1
           all == arrived \cup {s}
<1>0. /\ Arrive(s) /\ arrived' = all /\ drained' = drained
      /\ ~Old(s) /\ f.seq # Expected(s) /\ total + Len(f.data) <= Cap
      /\ pending' = pending /\ nextSeq' = nextSeq /\ capped' = capped
  BY DEF Hold, Arrive, Fits
<1>1. PICK a \in Places, m \in Places, n \in Places :
        /\ At(s, a, m, n) /\ base' = SeqAt(a)
        /\ CleanCut' => CleanCut /\ Apart(arrived') /\ a <= s.first
  BY <1>0, Arrival
<1>2. /\ n \in Nat /\ x \in Nat /\ y \in Nat /\ x \in Places /\ y \in Places /\ x < y /\ x <= y
      /\ SeqNum(s) = SeqAt(x) /\ DataOf(s) = Run(x, y)
  <2>1. n \in Nat /\ s.first \in Nat /\ s.last \in Nat /\ s.first <= s.last
    BY Sizes DEF Segments, Bytes, Places
  <2> QED  BY <2>1, DataIs
<1>3. Expected(s) = SeqAt(n) /\ n < x /\ f.seq = SeqAt(x) /\ f.data = Run(x, y)
  <2>1. Expected(s) = SeqAt(n)
    BY <1>1 DEF At
  <2>2. ~(x < n)
    BY <1>0, <2>1, FreshIs
  <2>3. f.seq = SeqAt(x) /\ f.data = Run(x, y)
    BY <1>2, <2>1, <2>2, FreshIs
  <2>4. x # n
    BY <1>0, <2>1, <2>3
  <2> QED  BY <1>2, <2>1, <2>2, <2>3, <2>4
<1>4. base # NoSeq
  <2>1. s.first # n
    BY <1>2, <1>3
  <2> QED  BY <1>1, <2>1 DEF At
<1>5. /\ a <= m /\ m <= n /\ drained = Run(a, m) /\ pending = Run(m, n) /\ nextSeq = SeqAt(n)
      /\ SeqAt(n) \notin DOMAIN segments /\ \E t \in all : n <= t.last + 1
      /\ CleanCut /\ ~capped => Neat(a, n, segments, arrived)
  BY <1>1, <1>4 DEF At
<1>6. /\ HeldRuns(segments, all)
      /\ Ahead(n, segments, arrived) => Ahead(n, segments, all)
      /\ Covered(a, n, arrived) => Covered(a, n, all)
  <2>1. arrived \subseteq all
    OBVIOUS
  <2> HIDE DEF all
  <2> QED  BY <2>1, MoreArrived DEF HeldInv
<1> HIDE DEF f
<1>7. base' # NoSeq
  BY <1>1, SeqIsNotAbsent
<1>8. CASE f.seq \in DOMAIN segments
  <2>1. segments' = segments /\ total' = total
    BY <1>8 DEF Hold, f
  <2>2. HeldInv'
    BY <1>0, <1>6, <2>1 DEF HeldInv, Buffered, HeldRuns
  <2>3. CleanCut' /\ ~capped' => Neat(a, n, segments', arrived')
    <3> SUFFICES ASSUME CleanCut', ~capped' PROVE Neat(a, n, segments, all)
      BY <1>0, <2>1
    <3>1. Neat(a, n, segments, arrived)
      BY <1>0, <1>1, <1>5
    <3>2. Behind(a, n, segments, all)
      BY <1>2, <1>3, <1>8, <3>1 DEF Neat, Behind
    <3> QED  BY <1>6, <3>1, <3>2 DEF Neat
  <2>4. Placed(a, m, n)'
    BY <1>0, <1>1, <1>5, <2>1, <2>3 DEF Placed
  <2> QED  BY <1>7, <2>2, <2>4 DEF PlaceInv
<1>9. CASE f.seq \notin DOMAIN segments
  <2> DEFINE q == SeqAt(x)
             l == y - x
             ss == [r \in DOMAIN segments \cup {q} |-> IF r = q THEN Run(x, y) ELSE segments[r]]
  <2>1. segments' = ss /\ total' = total + l
    <3>1. Len(Run(x, y)) = l
      BY <1>2, RunIs
    <3>2. /\ segments' = [r \in DOMAIN segments \cup {f.seq} |-> IF r = f.seq THEN f.data ELSE segments[r]]
          /\ total' = total + Len(f.data)
      BY <1>9 DEF Hold, f
    <3> QED  BY <1>3, <3>1, <3>2
  <2>2. /\ DOMAIN ss = DOMAIN segments \cup {q} /\ ss[q] = Run(x, y)
        /\ q \notin DOMAIN segments /\ \A r \in DOMAIN segments : ss[r] = segments[r]
        /\ ss = [r \in DOMAIN ss |-> ss[r]]
    BY <1>3, <1>9
  <2>3. segments = Restrict(ss, DOMAIN ss \ {q})
    <3>1. DOMAIN ss \ {q} = DOMAIN segments
      BY <2>2
    <3>2. segments = [r \in DOMAIN segments |-> segments[r]]
      BY DEF HeldInv, HeldRuns
    <3> HIDE DEF ss
    <3>3. Restrict(ss, DOMAIN segments) = [r \in DOMAIN segments |-> ss[r]]
      BY DEF Restrict
    <3>4. [r \in DOMAIN segments |-> ss[r]] = [r \in DOMAIN segments |-> segments[r]]
      BY <2>2
    <3> QED  BY <3>1, <3>2, <3>3, <3>4
  <2> HIDE DEF ss
  <2>4. HeldRuns(ss, all)
    <3>1. ASSUME NEW r \in DOMAIN ss
          PROVE  /\ r \in Seqs
                 /\ \E v, w \in Places :
                      v < w /\ r = SeqAt(v) /\ ss[r] = Run(v, w) /\ \E t \in all : t.last + 1 = w
      <4>1. CASE r = q
        <5>1. q \in Seqs
          BY <1>2, SeqAtIs
        <5>2. \E t \in all : t.last + 1 = y
          OBVIOUS
        <5> HIDE DEF all, q, x, y
        <5> QED  BY <1>2, <2>2, <4>1, <5>1, <5>2 DEF q
      <4>2. CASE r # q
        <5>1. r \in DOMAIN segments /\ ss[r] = segments[r]
          BY <2>2, <4>2
        <5> HIDE DEF all, q, x, y
        <5> QED  BY <1>6, <5>1 DEF HeldRuns
      <4> QED  BY <4>1, <4>2
    <3> HIDE DEF all, q
    <3> QED  BY <2>2, <3>1 DEF HeldRuns
  <2>5. HeldInv'
    <3>1. l \in Nat /\ DOMAIN ss[q] = 1..l /\ q \in DOMAIN ss
      BY <1>2, <2>2, RunIs
    <3> HIDE DEF l, all, q
    <3>2. Cardinality(Buffered(ss)) = Cardinality(Buffered(segments)) + l
      BY <2>3, <2>4, <3>1, BufferedLess
    <3>3. total = Len(pending) + Cardinality(Buffered(segments)) /\ total + l <= Cap
      <4>1. Len(f.data) = l
        BY <1>2, <1>3, RunIs DEF l
      <4> QED  BY <1>0, <4>1 DEF HeldInv
    <3>4. Cardinality(Buffered(segments)) \in Nat /\ Len(pending) \in Nat
      <4>1. m \in Nat /\ n - m \in Nat
        BY <1>2, <1>5, Sizes DEF Places
      <4>2. Len(pending) = n - m
        BY <1>5, RunIs
      <4> QED  BY <4>1, <4>2, BufferedFinite DEF HeldInv
    <3>5. total' = Len(pending') + Cardinality(Buffered(segments')) /\ total' <= Cap
      BY <1>0, <2>1, <3>1, <3>2, <3>3, <3>4
    <3>6. HeldRuns(segments', arrived')
      BY <1>0, <2>1, <2>4
    <3> QED  BY <3>5, <3>6 DEF HeldInv, HeldRuns, Buffered
  <2>6. SeqAt(n) \notin DOMAIN ss
    <3>1. SeqAt(n) # q
      BY <1>2, <1>3, SeqOrder
    <3> QED  BY <1>5, <2>2, <3>1
  <2>7. CleanCut' /\ ~capped' => Neat(a, n, ss, all)
    <3> SUFFICES ASSUME CleanCut', ~capped' PROVE Neat(a, n, ss, all)
      OBVIOUS
    <3>1. Neat(a, n, segments, arrived)
      BY <1>0, <1>1, <1>5
    <3>2. Ahead(n, ss, all)
      <4> SUFFICES ASSUME NEW r \in DOMAIN ss
                   PROVE  \E t \in all : r = SeqNum(t) /\ ss[r] = DataOf(t) /\ n <= t.first
        BY DEF Ahead
      <4>1. CASE r = q
        <5>1. n <= s.first /\ q = SeqNum(s) /\ ss[q] = DataOf(s) /\ s \in all
          BY <1>2, <1>3, <2>2
        <5> QED  BY <4>1, <5>1
      <4>2. CASE r # q
        <5>1. r \in DOMAIN segments /\ ss[r] = segments[r]
          BY <2>2, <4>2
        <5>2. Ahead(n, segments, all)
          BY <1>6, <3>1 DEF Neat
        <5> QED  BY <5>1, <5>2 DEF Ahead
      <4> QED  BY <4>1, <4>2
    <3>3. Behind(a, n, ss, all)
      BY <1>2, <2>2, <3>1 DEF Neat, Behind
    <3> QED  BY <1>6, <3>1, <3>2, <3>3 DEF Neat
  <2>8. Placed(a, m, n)'
    BY <1>0, <1>1, <1>5, <2>1, <2>6, <2>7 DEF Placed
  <2> QED  BY <1>7, <2>5, <2>8 DEF PlaceInv
<1> QED  BY <1>8, <1>9

LEMMA TryDrainKeeps ==
  ASSUME FlagsInv, HeldInv, PlaceInv, TryDrain
  PROVE  HeldInv' /\ PlaceInv'
<1>0. /\ pending # << >> /\ drained' = drained \o pending /\ total' = total - Len(pending)
      /\ pending' = << >>
      /\ UNCHANGED <<segments, base, nextSeq, fin, capped, arrived>>
  BY DEF TryDrain
<1>1. base # NoSeq
  BY <1>0 DEF PlaceInv
<1>2. PICK a \in Places, m \in Places, n \in Places : Placed(a, m, n)
  BY <1>1 DEF PlaceInv
<1>3. /\ a \in Nat /\ m \in Nat /\ n \in Nat /\ a <= m /\ m <= n /\ a <= n /\ n <= n
      /\ pending = Run(m, n) /\ drained = Run(a, m)
  BY <1>2, Sizes DEF Placed, Places
<1>4. drained' = Run(a, n) /\ pending' = Run(n, n)
  BY <1>0, <1>3, RunConcat, RunEmpty
<1>5. HeldInv'
  <2>1. Len(pending) = n - m /\ Len(pending') = 0
    BY <1>0, <1>3, RunIs
  <2>2. Cardinality(Buffered(segments)) \in Nat
    BY BufferedFinite DEF HeldInv
  <2>3. total = Len(pending) + Cardinality(Buffered(segments)) /\ total <= Cap
    BY DEF HeldInv
  <2>4. total' = Cardinality(Buffered(segments)) /\ total' <= Cap
    BY <1>0, <1>3, <2>1, <2>2, <2>3, Sizes
  <2>5. total' = Len(pending') + Cardinality(Buffered(segments'))
    BY <1>0, <2>1, <2>2, <2>4
  <2> QED  BY <1>0, <2>4, <2>5 DEF HeldInv, HeldRuns, Buffered
<1>6. CleanCut' = CleanCut
  BY <1>0 DEF CleanCut
<1>7. Placed(a, n, n)'
  <2>1. /\ base = SeqAt(a) /\ nextSeq = SeqAt(n) /\ nextSeq \notin DOMAIN segments
        /\ \E t \in arrived : n <= t.last + 1
        /\ CleanCut /\ ~capped => Neat(a, n, segments, arrived)
    BY <1>2 DEF Placed
  <2>2. CleanCut' /\ ~capped' => Neat(a, n, segments', arrived')
    BY <1>0, <1>6, <2>1
  <2> QED  BY <1>0, <1>3, <1>4, <2>1, <2>2 DEF Placed
<1> QED  BY <1>0, <1>1, <1>5, <1>7 DEF PlaceInv

\* A step that leaves the buffer as it is.
Kept == UNCHANGED <<pending, segments, base, nextSeq, total, capped, drained, arrived>>
LEMMA SameBuffer == ASSUME HeldInv, PlaceInv, Kept PROVE HeldInv' /\ PlaceInv'
<1>1. HeldInv'
  BY DEF Kept, HeldInv, HeldRuns, Buffered
<1>2. CleanCut' = CleanCut
  BY DEF Kept, CleanCut
<1>3. ASSUME NEW a \in Places, NEW m \in Places, NEW n \in Places, Placed(a, m, n)
      PROVE  Placed(a, m, n)'
  BY <1>2, <1>3 DEF Kept, Placed
<1>4. /\ base' = base /\ arrived' = arrived /\ pending' = pending /\ drained' = drained
      /\ segments' = segments /\ nextSeq' = nextSeq
  BY DEF Kept
<1>5. CASE base = NoSeq
  <2>1. ~capped'
    <3>1. ~capped
      BY <1>5 DEF PlaceInv
    <3> QED  BY <3>1, Zenon DEF Kept
  <2>2. /\ arrived = {} /\ pending = << >> /\ drained = << >> /\ segments = << >>
        /\ nextSeq = 0
    BY <1>5 DEF PlaceInv
  <2>3. /\ arrived' = {} /\ pending' = << >> /\ drained' = << >> /\ segments' = << >>
        /\ nextSeq' = 0 /\ base' = NoSeq
    BY <1>4, <1>5, <2>2
  <2> QED  BY <1>1, <2>1, <2>3 DEF PlaceInv
<1>6. CASE base # NoSeq
  <2>1. PICK a \in Places, m \in Places, n \in Places : Placed(a, m, n)
    BY <1>6 DEF PlaceInv
  <2>2. Placed(a, m, n)'
    BY <1>3, <2>1
  <2>3. base' # NoSeq
    BY <1>4, <1>6
  <2> QED  BY <1>1, <2>2, <2>3 DEF PlaceInv
<1> QED  BY <1>5, <1>6
-----------------------------------------------------------------------------
(***************************************************************************)
(* The tracker's part: maxSeq is the largest end of what arrived.          *)
(***************************************************************************)
LEMMA SeqEndIs == ASSUME NEW s \in Segments PROVE SeqEnd(s) \in Nat
<1>1. SeqNum(s) \in Nat
  BY DataIs, SeqAtIs
<1>2. Len(DataOf(s)) = (s.last + 1) - s.first /\ s.first < s.last + 1
  BY DataIs
<1>3. s.first \in Nat /\ s.last \in Nat
  BY Sizes DEF Segments, Bytes
<1> QED  BY <1>1, <1>2, <1>3 DEF SeqEnd

LEMMA MarkKeeps ==
  ASSUME FlagsInv, MarkInv, NEW s \in Segments, Mark(s), arrived' = arrived \cup {s}
  PROVE  MarkInv'
<1>0. /\ \A t \in arrived : SeqEnd(t) \in Nat
      /\ SeqEnd(s) \in Nat /\ NoSeq \notin Nat
      /\ \A t : SeqEnd(t)' = SeqEnd(t)
  BY SeqEndIs, ReassemblyAssumption DEF FlagsInv, SeqEnd
<1>1. maxSeq' = IF IsRetransmission(s) THEN maxSeq ELSE SeqEnd(s)
  BY DEF Mark
<1>2. CASE arrived = {}
  <2>1. maxSeq' = SeqEnd(s)
    BY <1>1, <1>2 DEF MarkInv, IsRetransmission
  <2> QED  BY <1>0, <1>2, <2>1 DEF MarkInv
<1>3. CASE arrived # {}
  <2>1. /\ maxSeq \in Nat /\ \A t \in arrived : SeqEnd(t) <= maxSeq
        /\ \E t \in arrived : SeqEnd(t) = maxSeq
    BY <1>3 DEF MarkInv
  <2>2. maxSeq' = IF SeqEnd(s) <= maxSeq THEN maxSeq ELSE SeqEnd(s)
    BY <1>0, <1>1, <2>1 DEF IsRetransmission
  <2>3. maxSeq' \in Nat /\ maxSeq <= maxSeq' /\ SeqEnd(s) <= maxSeq'
    BY <1>0, <2>1, <2>2
  <2>4. \A t \in arrived' : SeqEnd(t) <= maxSeq'
    BY <1>0, <2>1, <2>3
  <2>5. \E t \in arrived' : SeqEnd(t) = maxSeq'
    BY <2>1, <2>2
  <2> QED  BY <1>0, <2>3, <2>4, <2>5 DEF MarkInv
<1> QED  BY <1>2, <1>3

-----------------------------------------------------------------------------
LEMMA InitInv == SegmentsInit => SInv
<1> SUFFICES ASSUME SegmentsInit PROVE SInv
  OBVIOUS
<1>1. /\ pending = << >> /\ segments = << >> /\ base = NoSeq /\ nextSeq = 0 /\ total = 0
      /\ fin = FALSE /\ capped = FALSE /\ drained = << >> /\ arrived = {} /\ maxSeq = NoSeq
  BY DEF SegmentsInit, ReassemblyInit
<1>2. FlagsInv /\ PlaceInv /\ MarkInv
  BY <1>1 DEF FlagsInv, PlaceInv, MarkInv
<1>3. DOMAIN segments = {} /\ segments = [q \in DOMAIN segments |-> segments[q]]
  BY <1>1
<1>4. Buffered(segments) = {}
  BY <1>3 DEF Buffered
<1>5. Cardinality(Buffered(segments)) = 0 /\ Len(pending) = 0
  BY <1>1, <1>4, FS_EmptySet
<1>6. HeldInv
  BY <1>1, <1>3, <1>5, Sizes DEF HeldInv, HeldRuns
<1> QED  BY <1>2, <1>6 DEF SInv

LEMMA NextInv == SInv /\ [SegmentsNext]_tracked => SInv'
<1> SUFFICES ASSUME SInv, [SegmentsNext]_tracked PROVE SInv'
  OBVIOUS
<1>0. FlagsInv /\ HeldInv /\ PlaceInv /\ MarkInv
  BY DEF SInv
<1>1. ASSUME NEW s \in Segments, Ignore(s) \/ Refuse(s) \/ Deliver(s) \/ Hold(s), Mark(s)
      PROVE  SInv'
  <2>1. HeldInv' /\ PlaceInv'
    BY <1>0, <1>1, IgnoreKeeps, RefuseKeeps, DeliverKeeps, HoldKeeps
  <2>2. arrived' = arrived \cup {s} /\ fin' = fin /\ capped' \in BOOLEAN
    BY <1>0, <1>1 DEF Ignore, Refuse, Deliver, Hold, Arrive, FlagsInv
  <2>3. FlagsInv'
    BY <1>0, <2>2 DEF FlagsInv
  <2>4. MarkInv'
    BY <1>0, <1>1, <2>2, MarkKeeps
  <2> QED  BY <2>1, <2>3, <2>4 DEF SInv
<1>2. ASSUME arrived' = arrived, maxSeq' = maxSeq, fin' \in BOOLEAN, capped' = capped
      PROVE  FlagsInv' /\ MarkInv'
  BY <1>0, <1>2 DEF FlagsInv, MarkInv, SeqEnd
<1>3. CASE TryDrain /\ UNCHANGED maxSeq
  <2>1. HeldInv' /\ PlaceInv'
    BY <1>0, <1>3, TryDrainKeeps
  <2>2. FlagsInv' /\ MarkInv'
    BY <1>0, <1>2, <1>3 DEF TryDrain, FlagsInv
  <2> QED  BY <2>1, <2>2 DEF SInv
<1>4. CASE MarkFin /\ UNCHANGED maxSeq
  <2>1. HeldInv' /\ PlaceInv'
    BY <1>0, <1>4, SameBuffer DEF MarkFin, Kept
  <2>2. FlagsInv' /\ MarkInv'
    BY <1>2, <1>4 DEF MarkFin
  <2> QED  BY <2>1, <2>2 DEF SInv
<1>5. CASE UNCHANGED tracked
  <2>1. HeldInv' /\ PlaceInv'
    BY <1>0, <1>5, SameBuffer DEF tracked, reassembly, Kept
  <2>2. FlagsInv' /\ MarkInv'
    BY <1>0, <1>2, <1>5 DEF tracked, reassembly, FlagsInv
  <2> QED  BY <2>1, <2>2 DEF SInv
<1>6. (\E s \in Segments : (Ignore(s) \/ Refuse(s) \/ Deliver(s) \/ Hold(s)) /\ Mark(s))
      \/ (TryDrain /\ UNCHANGED maxSeq) \/ (MarkFin /\ UNCHANGED maxSeq) \/ UNCHANGED tracked
  BY DEF SegmentsNext
<1> QED  BY <1>1, <1>3, <1>4, <1>5, <1>6

\* The buffer and the tracker's mark stay in step with what arrived
\* (reassembly.rs:48-113, tracker.rs:91-103).
THEOREM SegmentsInvariant == SegmentsSpec => []SInv
<1> QED  BY InitInv, NextInv, PTL DEF SegmentsSpec
-----------------------------------------------------------------------------
(***************************************************************************)
(* What the invariant says of the stream.                                  *)
(***************************************************************************)
\* What is delivered is a run of the stream from its anchor on.
LEMMA DeliveredIs ==
  ASSUME NEW a \in Places, NEW m \in Places, NEW n \in Places, Placed(a, m, n)
  PROVE  /\ Delivered = Run(a, n) /\ Delivered \in Seq(Bytes) /\ DOMAIN Delivered = 1..n - a
         /\ {Delivered[i] : i \in DOMAIN Delivered} = a..n - 1
<1>0. a \in Nat /\ m \in Nat /\ n \in Nat /\ a <= m /\ m <= n /\ a <= n
  BY Sizes DEF Placed, Places
<1>1. Delivered = Run(a, n)
  BY <1>0, RunConcat DEF Placed, Delivered
<1>2. /\ Run(a, n) \in Seq(Bytes) /\ DOMAIN Run(a, n) = 1..n - a
      /\ \A i \in 1..n - a : Run(a, n)[i] = a + i - 1
  BY <1>0, RunIs
<1>3. {Run(a, n)[i] : i \in 1..n - a} = a..n - 1
  <2>1. ASSUME NEW i \in 1..n - a PROVE Run(a, n)[i] \in a..n - 1
    BY <1>0, <1>2
  <2>2. ASSUME NEW p \in a..n - 1 PROVE \E i \in 1..n - a : Run(a, n)[i] = p
    <3>1. p - a + 1 \in 1..n - a /\ a + (p - a + 1) - 1 = p
      BY <1>0
    <3> QED  BY <1>2, <3>1
  <2> QED  BY <2>1, <2>2
<1> QED  BY <1>1, <1>2, <1>3

LEMMA InvTypeOK == SInv => TypeOK
<1> SUFFICES ASSUME SInv PROVE TypeOK
  OBVIOUS
<1>1. /\ pending \in Seq(Bytes) /\ drained \in Seq(Bytes) /\ base \in Seqs \cup {NoSeq}
      /\ nextSeq \in Seqs /\ Len(pending) \in Nat
  <2>1. CASE base = NoSeq
    <3>1. pending = << >> /\ drained = << >> /\ nextSeq = 0
      BY <2>1 DEF SInv, PlaceInv
    <3>2. << >> \in Seq(Bytes) /\ 0 \in Seqs
      BY Sizes DEF Seqs
    <3> QED  BY <2>1, <3>1, <3>2
  <2>2. CASE base # NoSeq
    <3>1. PICK a \in Places, m \in Places, n \in Places : Placed(a, m, n)
      BY <2>2 DEF SInv, PlaceInv
    <3>2. /\ a <= m /\ m <= n /\ drained = Run(a, m) /\ pending = Run(m, n)
          /\ base = SeqAt(a) /\ nextSeq = SeqAt(n)
      BY <3>1 DEF Placed
    <3>3. pending \in Seq(Bytes) /\ drained \in Seq(Bytes)
      BY <3>2, RunIs
    <3> QED  BY <3>2, <3>3, SeqAtIs
  <2> QED  BY <2>1, <2>2
<1>2. ASSUME NEW q \in DOMAIN segments PROVE segments[q] \in Seq(Bytes) \ {<< >>}
  <2>1. PICK x \in Places, y \in Places : x < y /\ segments[q] = Run(x, y)
    BY DEF SInv, HeldInv, HeldRuns
  <2>2. x <= y /\ y - x > 0
    BY <2>1, Sizes DEF Places
  <2>3. Run(x, y) \in Seq(Bytes) /\ Len(Run(x, y)) = y - x
    BY <2>2, RunIs
  <2>4. Run(x, y) # << >>
    BY <2>2, <2>3
  <2> QED  BY <2>1, <2>3, <2>4
<1>3. total \in Nat /\ DOMAIN segments \subseteq Seqs
  <2>1. Cardinality(Buffered(segments)) \in Nat
    BY BufferedFinite DEF SInv, HeldInv
  <2> QED  BY <1>1, <2>1 DEF SInv, HeldInv, HeldRuns
<1> QED  BY <1>1, <1>2, <1>3 DEF SInv, FlagsInv, TypeOK

LEMMA InvInOrder == SInv => InOrder
<1> SUFFICES ASSUME SInv, NEW i \in DOMAIN Delivered
             PROVE  Advance(Isn, Delivered[i] - 1) = Advance(base, i - 1)
  BY DEF InOrder
<1>1. CASE base = NoSeq
  <2>1. Delivered = << >>
    BY <1>1 DEF SInv, PlaceInv, Delivered
  <2> QED  BY <2>1
<1>2. CASE base # NoSeq
  <2>1. PICK a \in Places, m \in Places, n \in Places : Placed(a, m, n)
    BY <1>2 DEF SInv, PlaceInv
  <2>2. i \in 1..n - a /\ Delivered = Run(a, n) /\ a <= n /\ base = SeqAt(a)
    <3>1. i \in 1..n - a /\ Delivered = Run(a, n)
      BY <2>1, DeliveredIs
    <3>2. a <= n
      BY <2>1, Sizes DEF Placed, Places
    <3> QED  BY <2>1, <3>1, <3>2 DEF Placed
  <2> DEFINE k == i - 1
  <2>3. k \in Nat /\ a + k \in Places /\ a + i - 1 = a + k
    BY <2>2, Sizes DEF Places
  <2>4. Delivered[i] = a + k
    BY <2>2, <2>3, RunIs
  <2> HIDE DEF k
  <2>5. Advance(SeqAt(a), k) = SeqAt(a + k)
    BY <2>3, SeqAdvance
  <2>6. Advance(Isn, Delivered[i] - 1) = SeqAt(a + k)
    BY <2>4 DEF SeqAt
  <2> QED  BY <2>2, <2>5, <2>6 DEF k
<1> QED  BY <1>1, <1>2

\* What is delivered is the stream from its anchor on, byte for byte, and the
\* bytes held are counted and never more than the cap, for every order of arrival
\* (ReassemblyBuffer::insert_segment and try_drain, reassembly.rs:48-113).
THEOREM StreamIsExact == SegmentsSpec => []StreamExact
<1>1. SInv => StreamExact
  <2>1. SInv => Accounted
    BY DEF SInv, HeldInv, Accounted
  <2> QED  BY <2>1, InvTypeOK, InvInOrder DEF StreamExact
<1> QED  BY <1>1, SegmentsInvariant, PTL

LEMMA InvNothingWaits == SInv => NothingWaits
<1> DEFINE got == UNION {Positions(s) : s \in arrived}
           had == {Delivered[i] : i \in DOMAIN Delivered}
<1> SUFFICES ASSUME SInv, CleanCut, ~capped
             PROVE  /\ \A p \in got : (p - 1 \in had => p \in had)
                    /\ IsComplete <=> fin /\ had = got
  BY DEF NothingWaits
<1>1. CASE base = NoSeq
  <2>1. arrived = {} /\ segments = << >> /\ Delivered = << >>
    BY <1>1 DEF SInv, PlaceInv, Delivered
  <2>2. got = {} /\ had = {}
    BY <2>1
  <2> HIDE DEF got, had
  <2> QED  BY <2>1, <2>2 DEF IsComplete
<1>2. CASE base # NoSeq
  <2>1. PICK a \in Places, m \in Places, n \in Places : Placed(a, m, n)
    BY <1>2 DEF SInv, PlaceInv
  <2>2. Neat(a, n, segments, arrived) /\ SeqAt(n) \notin DOMAIN segments
    BY <2>1 DEF Placed
  <2>3. had = a..n - 1
    BY <2>1, DeliveredIs
  <2>4. /\ \A t \in arrived : /\ t.first \in Nat /\ t.last \in Nat /\ t.first <= t.last
                              /\ t.first \in Places /\ t.last + 1 \in Places
                              /\ SeqNum(t) = SeqAt(t.first)
        /\ a \in Nat /\ n \in Nat /\ arrived \subseteq Segments
    <3>1. arrived \in SUBSET Segments
      BY DEF SInv, FlagsInv
    <3>2. a \in Nat /\ n \in Nat
      BY Sizes DEF Places
    <3> QED  BY <3>1, <3>2, ApartEnds
  <2>5. \A p : p \in got <=> \E t \in arrived : p \in t.first..t.last
    BY DEF Positions
  <2> HIDE DEF got, had
  <2>6. ASSUME NEW p \in got, p - 1 \in had PROVE p \in had
    <3> SUFFICES ASSUME p \notin had PROVE FALSE
      OBVIOUS
    <3>1. PICK t \in arrived : p \in t.first..t.last
      BY <2>5, <2>6
    <3>2. p = n /\ t.first <= n /\ n <= t.last
      BY <2>3, <2>4, <2>6, <3>1
    <3>3. SeqNum(t) \in DOMAIN segments
      BY <2>2, <2>4, <3>2 DEF Neat, Behind
    <3>4. PICK u \in arrived : SeqNum(t) = SeqNum(u) /\ n <= u.first
      BY <2>2, <3>3 DEF Neat, Ahead
    <3>5. u.first = t.first
      BY <2>4, <3>4, SameData
    <3>6. SeqNum(t) = SeqAt(n)
      BY <2>4, <3>2, <3>4, <3>5
    <3> QED  BY <2>2, <3>3, <3>6
  <2>7. segments = << >> => had = got
    <3> SUFFICES ASSUME segments = << >> PROVE had = got
      OBVIOUS
    <3>1. ASSUME NEW p \in had PROVE p \in got
      <4>1. p \in Places /\ a <= p /\ p < n /\ p \in Nat
        BY <2>3, <2>4, <3>1, Sizes DEF Places
      <4>2. PICK t \in arrived : t.first <= p /\ p <= t.last
        BY <2>2, <4>1 DEF Neat, Covered
      <4> QED  BY <2>4, <2>5, <4>1, <4>2
    <3>2. ASSUME NEW p \in got PROVE p \in had
      <4>1. PICK t \in arrived : p \in t.first..t.last
        BY <2>5, <3>2
      <4>2. SeqNum(t) \notin DOMAIN segments
        OBVIOUS
      <4>3. a <= t.first /\ t.last < n
        BY <2>2, <4>2 DEF Neat, Behind
      <4> QED  BY <2>3, <2>4, <4>1, <4>3
    <3> QED  BY <3>1, <3>2
  <2>8. had = got => segments = << >>
    <3> SUFFICES ASSUME had = got PROVE segments = << >>
      OBVIOUS
    <3>1. ASSUME NEW q \in DOMAIN segments PROVE FALSE
      <4>1. PICK t \in arrived : n <= t.first
        BY <2>2 DEF Neat, Ahead
      <4>2. t.first \in got
        BY <2>4, <2>5
      <4> QED  BY <2>3, <2>4, <4>1, <4>2
    <3>2. DOMAIN segments = {} /\ segments = [q \in DOMAIN segments |-> segments[q]]
      BY <3>1 DEF SInv, HeldInv, HeldRuns
    <3> QED  BY <3>2
  <2> QED  BY <2>6, <2>7, <2>8 DEF IsComplete
<1> QED  BY <1>1, <1>2

\* Of a stream that is cut once no byte that can be delivered waits, and
\* is_complete tells the end exactly (reassembly.rs:48-104, 119-122).
THEOREM NoByteWaits == SegmentsSpec => []NothingWaits
<1> QED  BY InvNothingWaits, SegmentsInvariant, PTL

LEMMA InvMarksOldData == SInv => MarksOldData
<1> SUFFICES ASSUME SInv, NEW s \in Segments
             PROVE  /\ s \in arrived => IsRetransmission(s)
                    /\ Unwrapped(arrived \cup {s}) /\ arrived # {} =>
                         /\ IsRetransmission(s) <=> \E t \in arrived : s.last <= t.last
                         /\ Old(s) => IsRetransmission(s)
  BY DEF MarksOldData
<1>0. NoSeq \notin Nat /\ arrived \subseteq Segments
  BY ReassemblyAssumption DEF SInv, FlagsInv
<1>1. ASSUME s \in arrived PROVE IsRetransmission(s)
  BY <1>0, <1>1 DEF SInv, MarkInv, IsRetransmission
<1>2. ASSUME Unwrapped(arrived \cup {s}), arrived # {}
      PROVE  /\ IsRetransmission(s) <=> \E t \in arrived : s.last <= t.last
             /\ Old(s) => IsRetransmission(s)
  <2>1. ASSUME NEW t \in arrived \cup {s}
        PROVE  SeqEnd(t) = Isn + t.last /\ t.first \in Nat /\ t.last \in Nat
    <3>0. t \in Segments /\ SeqNum(t) >= Isn
      BY <1>0, <1>2 DEF Unwrapped
    <3>1. /\ t.first \in Nat /\ t.last \in Nat /\ t.first >= 1 /\ t.first <= t.last
          /\ t.first <= StreamLen
      BY <3>0, Sizes DEF Segments, Bytes
    <3>2. t.first \in Places /\ SeqNum(t) = SeqAt(t.first) /\ Len(DataOf(t)) = (t.last + 1) - t.first
      BY <3>0, DataIs
    <3>3. SeqNum(t) = IF Isn + t.first - 1 < Modulus THEN Isn + t.first - 1
                      ELSE Isn + t.first - 1 - Modulus
      BY <3>2, SeqAtIs
    <3>4. SeqNum(t) = Isn + t.first - 1
      BY <3>0, <3>1, <3>3, Sizes
    <3> QED  BY <3>1, <3>2, <3>4, Sizes DEF SeqEnd
  <2>2. /\ maxSeq \in Nat /\ \A t \in arrived : SeqEnd(t) <= maxSeq
        /\ \E t \in arrived : SeqEnd(t) = maxSeq
    BY <1>2 DEF SInv, MarkInv
  <2>3. IsRetransmission(s) <=> SeqEnd(s) <= maxSeq
    BY <1>0, <2>2 DEF IsRetransmission
  <2>4. IsRetransmission(s) <=> \E t \in arrived : s.last <= t.last
    <3>1. ASSUME SeqEnd(s) <= maxSeq PROVE \E t \in arrived : s.last <= t.last
      <4>1. PICK t \in arrived : SeqEnd(t) = maxSeq
        BY <2>2
      <4>2. s.last <= t.last
        BY <2>1, <3>1, <4>1, Sizes
      <4> QED  BY <4>2
    <3>2. ASSUME NEW t \in arrived, s.last <= t.last PROVE SeqEnd(s) <= maxSeq
      <4>1. SeqEnd(s) <= SeqEnd(t) /\ SeqEnd(s) \in Nat /\ SeqEnd(t) \in Nat
        BY <2>1, <3>2, Sizes
      <4> QED  BY <2>2, <4>1
    <3> QED  BY <2>3, <3>1, <3>2
  <2>5. ASSUME Old(s) PROVE \E t \in arrived : s.last <= t.last
    <3>1. base # NoSeq
      BY <1>2 DEF SInv, PlaceInv
    <3>2. PICK a \in Places, m \in Places, n \in Places : Placed(a, m, n)
      BY <3>1 DEF SInv, PlaceInv
    <3>3. Expected(s) = SeqAt(n)
      BY <3>1, <3>2 DEF Expected, Placed
    <3>4. s.last + 1 <= n
      BY <2>5, <3>3, FreshIs
    <3>5. PICK t \in arrived : n <= t.last + 1
      BY <3>2 DEF Placed
    <3>6. s.last <= t.last
      BY <2>1, <3>4, <3>5, Sizes DEF Places
    <3> QED  BY <3>6
  <2> QED  BY <2>4, <2>5
<1> QED  BY <1>1, <1>2

\* Data that came before is marked, and before the sequence numbers wrap nothing
\* else is (FlowTracker::update, tracker.rs:91-103).
THEOREM OldDataIsMarked == SegmentsSpec => []MarksOldData
<1> QED  BY InvMarksOldData, SegmentsInvariant, PTL
=============================================================================
