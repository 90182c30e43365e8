------------------------------ MODULE MCDisplay ------------------------------
(***************************************************************************)
(* Frames over Ethernet and raw IP, with and without options and padding,  *)
(* whole and malformed, each cut at every length; and filters typed        *)
(* against two of them.                                                    *)
(***************************************************************************)
EXTENDS Display

Ipv4Tcp ==
  [link |-> "ethernet", ethertype |-> "ipv4", net |-> "ipv4", version |-> 4,
   ihl |-> 5, src |-> "a", dst |-> "b", protocol |-> "tcp", dataOffset |-> 5,
   sport |-> "40000", dport |-> "443", type |-> "0", code |-> "0",
   message |-> "none", size |-> 0, padding |-> 0, name |-> None,
   basicAuth |-> FALSE, pass |-> FALSE]

Hello    == [Ipv4Tcp EXCEPT !.message = "client_hello", !.size = 4, !.name = "n"]
NoName   == [Hello EXCEPT !.name = None]
Server   == [Ipv4Tcp EXCEPT !.message = "handshake", !.size = 4, !.dataOffset = 6]
Options  == [Ipv4Tcp EXCEPT !.ihl = 6, !.padding = 6]
Http     == [Ipv4Tcp EXCEPT !.message = "http", !.size = 4, !.dport = "80"]
Basic    == [Http EXCEPT !.basicAuth = TRUE, !.dport = "81"]
Http2    == [Http EXCEPT !.message = "http2", !.link = "raw"]
Ftp      == [Ipv4Tcp EXCEPT !.message = "ftp", !.size = 4, !.dport = "21", !.pass = TRUE]
DnsQuery == [Ipv4Tcp EXCEPT !.protocol = "udp", !.message = "dns", !.size = 4,
                            !.dport = "53", !.name = "n"]
DnsOverTcp == [DnsQuery EXCEPT !.protocol = "tcp", !.message = "none"]
Quic     == [DnsQuery EXCEPT !.message = "quic", !.dport = "443", !.net = "ipv6",
                             !.ethertype = "ipv6", !.version = 6,
                             !.src = "a6", !.dst = "b6"]
Ping     == [Ipv4Tcp EXCEPT !.protocol = "icmp", !.type = "8"]
Ping6    == [Quic EXCEPT !.protocol = "icmpv6", !.size = 0, !.message = "none"]
Arp      == [Ipv4Tcp EXCEPT !.net = "arp", !.ethertype = "arp", !.padding = 4]

Odd ==
  {[Ipv4Tcp EXCEPT !.ihl = 4], [Ipv4Tcp EXCEPT !.dataOffset = 4],
   [Ipv4Tcp EXCEPT !.version = 0], [Quic EXCEPT !.version = 0],
   [Ipv4Tcp EXCEPT !.protocol = "other"], [Ping EXCEPT !.protocol = "icmpv6"],
   [Ping6 EXCEPT !.protocol = "icmp"], [Ipv4Tcp EXCEPT !.ethertype = "other"],
   [Ipv4Tcp EXCEPT !.link = "other"], [Quic EXCEPT !.link = "raw"],
   [Ipv4Tcp EXCEPT !.link = "raw", !.version = 0]}

MCFrames ==
  {Ipv4Tcp, Hello, NoName, Server, Options, Http, Basic, Http2, Ftp, DnsQuery,
   DnsOverTcp, Quic, Ping, Ping6, Arp} \cup Odd
MCSamples == {Hello, DnsQuery}

MCNeeds(message) == IF message = "http" THEN 2 ELSE 3

MCFields == {"ip.src", "tcp.port", "udp.dstport", "arp.target.ip", "icmp.type",
             "tls.sni", "no.field"}
MCValueOf(word) ==
  CASE word \in {"a", "b"}                -> Address(word)
    [] word \in {"443", "53", "8", "0"}   -> Number(word)
    [] OTHER                              -> Text(word)
MCHolds(string, pattern) == string = pattern

MCJoints == {<<"(">>, <<")">>, <<"not">>, <<"and">>, <<"or">>}
MCAtoms ==
  {<<"tls">>, <<"ip">>, <<"tcp">>, <<"arp">>, <<"dns">>, <<"icmpv6">>,
   <<"ip.src", "==", "a">>, <<"tcp.port", "==", "443">>, <<"tcp.port", "!=", "443">>,
   <<"udp.dstport", "!=", "53">>, <<"arp.target.ip", "==", "b">>,
   <<"icmp.type", "==", "8">>, <<"tls.sni", "contains", "n">>,
   <<"no.field", "!=", "a">>}
MCOperands == {<<"tls">>, <<"ip">>, <<"tcp.port", "!=", "443">>}
=============================================================================
