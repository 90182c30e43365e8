--------------------------- MODULE MCAttribution ---------------------------
(***************************************************************************)
(* A TCP and a UDP socket on one end, as HTTP/3 has them, one on another   *)
(* port and one on the wildcard address, and packets from and to them.     *)
(* Of three versions of the executable, the first and the third have the   *)
(* same time and size, as a restored backup has.                           *)
(***************************************************************************)
EXTENDS Attribution, TLC

CONSTANTS p1, p2

MCPids == {p1, p2}

Socket(proto, addr, port) == [proto |-> proto, addr |-> addr, port |-> port]
MCSockets ==
  {Socket("tcp", "host", 443), Socket("udp", "host", 443),
   Socket("udp", "any", 53), Socket("tcp", "host", 80)}

Packet(proto, src, sport, dst, dport) ==
  [proto |-> proto, src |-> src, sport |-> sport, dst |-> dst, dport |-> dport]
MCPackets ==
  {Packet("tcp", "host", 443, "peer", 80), Packet("tcp", "peer", 80, "host", 443),
   Packet("udp", "host", 443, "peer", 443), Packet("udp", "host", 53, "peer", 53)}

MCStamp(v) == CASE v = "v1" -> 1 [] v = "v2" -> 2 [] OTHER -> 1

MCSymmetry == Permutations(MCPids)
=============================================================================
