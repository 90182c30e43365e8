------------------------------- MODULE Decode -------------------------------
(***************************************************************************)
(* The decoder chain (decode/mod.rs and the decoders of each header): a    *)
(* captured frame is taken apart header by header, each decoder naming the *)
(* next one and where it starts, until one refuses, names none, or the     *)
(* payload of the transport is reached, in which the application decoders  *)
(* are tried in an order that depends on the ports.                        *)
(*                                                                         *)
(* A frame is described by its headers, with their real lengths in bytes;  *)
(* only its first `captured' bytes are there (the snap length).  What the  *)
(* application decoders do with their bytes is the subject of Parsers.     *)
(***************************************************************************)
EXTENDS Integers, Sequences, FiniteSetsExt, TLC

CONSTANTS
  Frames,    \* the frames on the wire
  Needs(_),  \* how much of an application message its decoder needs to see
  None       \* an absent value

\* The kinds of messages behind a transport.
Messages == {"dns", "quic", "client_hello", "handshake", "http2", "http", "ftp", "none"}

\* A frame is described by what is in it: the network header is the one that the
\* EtherType announces, if it announces any, or for raw IP the one of its version;
\* and it holds the whole of its message, though the capture may not.
ASSUME FramesAssumption ==
  /\ \A f \in Frames :
       /\ f.link \in {"ethernet", "raw", "other"}
       /\ f.net \in {"ipv4", "ipv6", "arp", "other"}
       /\ f.ethertype \in {f.net, "other"}
       /\ f.link = "raw" =>
            f.net # "arp" /\ (f.version = 4 => f.net = "ipv4") /\ (f.version = 6 => f.net = "ipv6")
       /\ f.protocol \in {"tcp", "udp", "icmp", "icmpv6", "other"}
       /\ {f.version, f.ihl, f.dataOffset, f.size, f.padding} \subseteq Nat
       /\ f.message \in Messages
       /\ f.message # "none" => f.size > 0 /\ Needs(f.message) <= f.size
       /\ f.message = "ftp" => f.pass
  /\ \A m \in Messages : Needs(m) \in Nat
  /\ None \notin {"ethernet", "ipv4", "ipv6", "arp", "tcp", "udp", "icmp", "icmpv6",
                 "application"}

VARIABLES
  frame,    \* the frame on the wire
  captured, \* how many bytes of it were captured
  what,     \* next_decode, or None
  offset,   \* where that header starts
  layers    \* the layers so far

vars == <<frame, captured, what, offset, layers>>

Transports == {"tcp", "udp"}

\* The smallest length of each header.
Minimum ==
  [ethernet |-> 14, arp |-> 28, ipv4 |-> 20, ipv6 |-> 40, tcp |-> 20, udp |-> 8,
   icmp |-> 8, icmpv6 |-> 8]

\* The bytes on the wire: the headers, with options in frame.ihl and
\* frame.dataOffset, the message, and the padding of a short frame.
WireHeaders ==
  (IF frame.link = "ethernet" THEN <<"ethernet">> ELSE << >>)
    \o (IF frame.net = "other" THEN << >> ELSE <<frame.net>>)
    \o (IF frame.net \in {"ipv4", "ipv6"} /\ frame.protocol # "other"
        THEN <<frame.protocol>> ELSE << >>)
OnWire(kind) ==
  CASE kind = "ipv4" -> 4 * frame.ihl
    [] kind = "tcp"  -> 4 * frame.dataOffset
    [] OTHER         -> Minimum[kind]
\* Where the first i of them end.
WireEnd(i) ==
  LET end[n \in 0..i] == IF n = 0 THEN 0 ELSE end[n - 1] + OnWire(WireHeaders[n])
  IN  end[i]
WireLength == WireEnd(Len(WireHeaders)) + frame.size + frame.padding

\* The fields of a layer that filters see, by the paths of extract_field.
Number(n)  == [type |-> "integer", is |-> n]
Address(a) == [type |-> "ip", is |-> a]
Text(s)    == [type |-> "string", is |-> s]
Values(kind) ==
  CASE kind \in {"ipv4", "ipv6"} ->
         "ip.src" :> Address(frame.src) @@ "ip.dst" :> Address(frame.dst)
    [] kind = "arp" ->
         "arp.sender.ip" :> Address(frame.src) @@ "arp.target.ip" :> Address(frame.dst)
    [] kind = "tcp" ->
         "tcp.srcport" :> Number(frame.sport) @@ "tcp.dstport" :> Number(frame.dport)
    [] kind = "udp" ->
         "udp.srcport" :> Number(frame.sport) @@ "udp.dstport" :> Number(frame.dport)
    [] kind = "icmp" ->
         "icmp.type" :> Number(frame.type) @@ "icmp.code" :> Number(frame.code)
    [] kind = "dns" -> "dns.qname" :> Text(frame.name)
    [] kind = "client_hello" ->
         "tls.sni" :> (IF frame.name = None THEN None ELSE Text(frame.name))
    [] OTHER -> << >>

Layer(kind, from, to) ==
  [kind |-> kind, from |-> from, to |-> to, values |-> Values(kind)]

-----------------------------------------------------------------------------
\* decode_layers: the first decoder, by the link type and, for raw IP, the
\* version in the first byte.
Initial ==
  CASE frame.link = "ethernet" -> "ethernet"
    [] frame.link = "raw" /\ captured > 0 /\ frame.version = 4 -> "ipv4"
    [] frame.link = "raw" /\ captured > 0 /\ frame.version = 6 -> "ipv6"
    [] OTHER -> None

Init ==
  /\ frame \in Frames
  /\ captured \in 0..WireLength
  /\ what = Initial
  /\ offset = 0
  /\ layers = << >>

Remaining == captured - offset

\* The length a header gives itself, and what each decoder insists on.
Length_NoOptions(kind) == Minimum[kind]
Length(kind) ==
  CASE kind = "ipv4" -> 4 * frame.ihl
    [] kind = "tcp"  -> 4 * frame.dataOffset
    [] OTHER         -> Minimum[kind]
Accepts(kind) ==
  /\ Remaining >= Minimum[kind]
  /\ kind = "ipv4" => frame.version = 4 /\ frame.ihl >= 5
  /\ kind = "ipv6" => frame.version = 6
  /\ kind = "tcp"  => frame.dataOffset >= 5
  /\ Remaining >= Length(kind)

\* A decoder takes its header and names the next one, or refuses.
Header(kind, next) ==
  /\ what = kind
  /\ IF Accepts(kind)
     THEN /\ layers' = Append(layers, Layer(kind, offset, offset + Length(kind)))
          /\ offset' = offset + Length(kind)
          /\ what' = next
     ELSE what' = None /\ UNCHANGED <<offset, layers>>
  /\ UNCHANGED <<frame, captured>>

Among(kind, kinds) == IF kind \in kinds THEN kind ELSE None

DecodeEthernet == Header("ethernet", Among(frame.ethertype, {"ipv4", "ipv6", "arp"}))
DecodeIpv4     == Header("ipv4", Among(frame.protocol, {"icmp", "tcp", "udp"}))
DecodeIpv6     == Header("ipv6", Among(frame.protocol, {"icmpv6", "tcp", "udp"}))
DecodeArp      == Header("arp", None)
DecodeIcmp     == Header("icmp", None)
DecodeIcmpv6   == Header("icmpv6", None)

\* There is a payload when bytes follow the header: what the length fields of
\* the IP header say is not considered.
Payload(kind) == IF Remaining > Length(kind) THEN "application" ELSE None
DecodeTcp == Header("tcp", Payload("tcp"))
DecodeUdp == Header("udp", Payload("udp"))

\* The application decoders that are tried: DNS alone on its port, QUIC alone
\* over UDP, the others over TCP.  They see the captured bytes only.
Tried ==
  IF "53" \in {frame.sport, frame.dport} THEN {"dns"}
  ELSE IF frame.protocol = "udp" THEN {"quic"}
  ELSE {"client_hello", "handshake", "http2", "http"}

DecodeApplication ==
  /\ what = "application"
  /\ layers' =
       layers
         \o (IF frame.message \in Tried /\ Remaining >= Needs(frame.message)
             THEN <<Layer(frame.message, offset, captured)>> ELSE << >>)
         \o <<Layer("payload", offset, captured)>>
  /\ what' = None
  /\ UNCHANGED <<frame, captured, offset>>

Next ==
  \/ DecodeEthernet \/ DecodeArp \/ DecodeIpv4 \/ DecodeIpv6
  \/ DecodeTcp \/ DecodeUdp \/ DecodeIcmp \/ DecodeIcmpv6
  \/ DecodeApplication

Spec == Init /\ [][Next]_vars

-----------------------------------------------------------------------------
\* compute_summary: the protocol of the last layer that has a name, and the
\* addresses of the network layer, or of the link layer when there is none.
Kinds(ls) == {ls[i].kind : i \in DOMAIN ls}
Has(kind) == kind \in Kinds(layers)
Named     == {i \in DOMAIN layers : layers[i].kind \notin {"ethernet", "payload"}}
Protocol  == IF Named = {} THEN None ELSE layers[Max(Named)].kind
Ends ==
  IF Kinds(layers) \cap {"ipv4", "ipv6", "arp"} # {} THEN <<frame.src, frame.dst>>
  ELSE IF Has("ethernet") THEN <<"mac", "mac">>
  ELSE <<None, None>>

\* analyze: what is said of credentials in clear text, and of HTTP on an
\* unusual port; nothing of traffic that is known to be encrypted.
CommonHttpPorts == {"80", "8080", "8000", "8888", "3000"}
Ports == IF Kinds(layers) \cap Transports # {} THEN {frame.sport, frame.dport} ELSE {}
Anomaly_PortFirst ==
  IF Kinds(layers) \cap {"client_hello", "handshake", "quic"} # {} THEN None
  ELSE IF Has("http") /\ Ports \cap CommonHttpPorts = {} THEN "unusual port"
  ELSE IF Has("http") /\ frame.basicAuth THEN "credential"
  ELSE IF "21" \in Ports /\ Has("payload") /\ frame.pass THEN "credential"
  ELSE None
Anomaly ==
  IF Kinds(layers) \cap {"client_hello", "handshake", "quic"} # {} THEN None
  ELSE IF Has("http") /\ frame.basicAuth THEN "credential"
  ELSE IF Has("http") /\ Ports \cap CommonHttpPorts = {} THEN "unusual port"
  ELSE IF "21" \in Ports /\ Has("payload") /\ frame.pass THEN "credential"
  ELSE None

-----------------------------------------------------------------------------
\* The headers of the frame that a reader of the wire would see: those that are
\* whole within the capture, well formed, and announced by the one before.
WellFormed(kind) ==
  CASE kind = "ipv4" -> frame.version = 4 /\ frame.ihl >= 5
    [] kind = "ipv6" -> frame.version = 6
    [] kind = "tcp"  -> frame.dataOffset >= 5
    [] OTHER         -> TRUE
Announced(i) ==
  CASE WireHeaders[i] = "ethernet" -> TRUE
    [] WireHeaders[i] = frame.net -> frame.link = "raw" \/ frame.ethertype = frame.net
    [] WireHeaders[i] = "icmp"    -> frame.net = "ipv4"
    [] WireHeaders[i] = "icmpv6"  -> frame.net = "ipv6"
    [] OTHER                      -> TRUE
Seen(i) ==
  /\ frame.link # "other"
  /\ \A j \in 1..i :
       WireEnd(j) <= captured /\ WellFormed(WireHeaders[j]) /\ Announced(j)
Sees(kind) == \E i \in DOMAIN WireHeaders : WireHeaders[i] = kind /\ Seen(i)

HeaderKinds == DOMAIN Minimum

\* The headers come first, each where it lies on the wire and within the capture;
\* behind them at most one message that is recognised and the payload, which are
\* the rest of the capture (decode_layers, decode/mod.rs:450-526).
Tiled ==
  \E n \in 0..Len(layers) :
    /\ \A i \in 1..n :
         /\ layers[i].kind \in HeaderKinds
         /\ layers[i].from = WireEnd(i - 1)
         /\ layers[i].to = WireEnd(i)
         /\ layers[i].to <= captured
    /\ Len(layers) <= n + 2
    /\ \A i \in (n + 1)..Len(layers) :
         /\ layers[i].kind \notin HeaderKinds
         /\ layers[i].from = WireEnd(n)
         /\ layers[i].to = captured

\* However short the snap length, exactly the headers that were captured whole
\* are decoded, and nothing is made up of the rest.
SnapLength ==
  what = None =>
    Kinds(layers) \cap HeaderKinds =
      {WireHeaders[i] : i \in {j \in DOMAIN WireHeaders : Seen(j)}}

\* The layers are the headers captured, neither more nor fewer, each in its
\* place (decode_layers, decode/mod.rs:450-526).
LayersFit == Tiled /\ SnapLength

\* What was recognised of the frame: the message behind the transport, if that
\* is looked for and enough of it was captured, or else the last header seen.
Innermost ==
  LET seen == {i \in DOMAIN WireHeaders : Seen(i)}
  IN  IF seen = {} THEN None ELSE WireHeaders[Max(seen)]
Recognised ==
  LET message == captured - WireEnd(Len(WireHeaders))
  IN  /\ Innermost \in Transports /\ frame.message \in Tried
      /\ message > 0 /\ message >= Needs(frame.message)

\* The protocol and the addresses are those of the frame, as far as it was
\* captured (compute_summary, decode/mod.rs:528-673).
ColumnsShow ==
  what = None =>
    /\ Protocol = IF Recognised THEN frame.message
                  ELSE IF Innermost = "ethernet" THEN None ELSE Innermost
    /\ Ends = IF Sees("ipv4") \/ Sees("ipv6") \/ Sees("arp") THEN <<frame.src, frame.dst>>
              ELSE IF Sees("ethernet") THEN <<"mac", "mac">> ELSE <<None, None>>

\* Credentials in clear text that were captured whole are pointed out, on
\* whatever port, except on the port of DNS, where nothing else is looked for
\* (analyze, analysis/anomaly.rs:31-88).
CredentialsShow ==
  /\ what = None /\ captured = WireLength /\ Sees("tcp")
  /\ "53" \notin {frame.sport, frame.dport}
  => /\ frame.message = "http" /\ frame.basicAuth => Anomaly = "credential"
     /\ frame.message = "ftp" /\ "21" \in {frame.sport, frame.dport} =>
          Anomaly = "credential"

\* The line of a packet says what the packet is: its protocol, its addresses,
\* and an anomaly that is not hidden by a lesser one (compute_summary,
\* decode/mod.rs:528-681; analyze, analysis/anomaly.rs:31-88).
SummaryShows == ColumnsShow /\ CredentialsShow
=============================================================================
