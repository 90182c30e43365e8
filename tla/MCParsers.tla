----------------------------- MODULE MCParsers -----------------------------
(***************************************************************************)
(* Inputs small enough to try all of, with the values that lengths,        *)
(* pointers and types can take near the limits that the parsers look at.   *)
(***************************************************************************)
EXTENDS Parsers

HpackOnly == {"hpack"}
MCFormats == {"name", "dns", "record", "alpn", "sni", "certs", "extensions", "hello",
            "quic", "http", "int", "h2", "hpack", "ja"}

\* The header of a DNS message with so many questions, answers and authorities.
DnsHeader(q, a, n) == <<0, 7, 0, 0, 0, q, 0, a, 0, n, 0, 0>>

MCStarts(k) ==
  CASE k = "name"   -> {<<9>>}
    [] k = "dns"    -> {DnsHeader(1, 1, 1), DnsHeader(2, 0, 0)}
    [] k = "record" -> {<<22, 3, 3, 0>>, <<23, 3, 3, 0>>}
    [] k = "hello"  -> {[i \in 1..34 |-> 0]}
    [] k = "quic"   -> {<<192, 0, 0, 0, 1>>, <<64, 0, 0, 0, 1>>}
    [] OTHER        -> {<< >>}

\* One question and one record take the positions 12 to 27, or one more when the
\* name of the record is a pointer to the question.
DnsPieces(at) ==
  CASE at = 14       -> {1}
    [] at = 17       -> {0, 192}
    [] at = 18       -> {0, 12}
    [] at = 19       -> {0, 1, 6, 16}
    [] at = 20       -> {0, 5}
    [] at \in 27..28 -> {0, 2, 4}
    [] at = 29       -> {0, 1}
    [] OTHER         -> {0}

\* Strings of one byte, one of 27, one that is not UTF-8 and one that is coded.
Plain(says, n) ==
  [says |-> says, valid |-> n, parts |-> 0, bad |-> 0, huffman |-> FALSE, coded |-> 0]
Broken == [Plain("x", 0) EXCEPT !.parts = 1, !.bad = 1]
Huffman == [Plain("h", 2) EXCEPT !.huffman = TRUE, !.coded = 1]
Add(name, value) == [op |-> "add", index |-> 0, name |-> name, value |-> value]
A == Add(Plain("a", 1), Plain("a", 1))
Frame(type, flags) == [op |-> "frame", type |-> type, flags |-> flags]
\* An entry of A takes 34 bytes: a table of 68 holds two, one of 94 one with B.
HpackPieces(at) ==
  {A, Add(Plain("b", 1), Plain("b", 27))}
    \cup {[op |-> "resize", size |-> n] : n \in {0, 68, 94}}
    \cup {p \in {Add(Plain("a", 1), Broken), Add(Plain("a", 1), Huffman),
                 [A EXCEPT !.index = 1], [A EXCEPT !.op = "literal", !.index = 2],
                 [op |-> "indexed", index |-> 0], [op |-> "indexed", index |-> 1],
                 Frame("headers", {}), Frame("headers", {"PADDED"}), Frame("data", {}),
                 Frame("continuation", {})} : at > 0}

\* Labels and pointers on top of each other, and three pointers in a row.
NamePieces(at) ==
  CASE at \in {4, 6} -> {0, 1, 2, at, 192}
    [] at = 7        -> {0}
    [] OTHER         -> {0, 1, 2, 192}

MCPieces(k, at) ==
  CASE k = "name" -> NamePieces(at)
    [] k = "dns"  -> DnsPieces(at)
    [] k = "record" ->
         IF at = 4 THEN {0, 4, 5} ELSE IF at = 5 THEN {1, 2}
         ELSE IF at = 8 THEN {0, 1, 2} ELSE {0}
    [] k \in {"alpn", "quic"} -> {0, 1, 2, 21}
    [] k = "hello"            -> IF at > 40 THEN {0, 1} ELSE {0, 1, 2}
    [] k = "sni"              -> {0, 1, 2}
    [] k = "certs"            -> {0, 1, 4}
    [] k = "extensions"       ->
         IF at = 1 THEN {0, 10, 11, 13, 16, 43} ELSE IF at = 3 THEN 0..6
         ELSE IF at \in {0, 2} THEN {0} ELSE IF at \in {7, 8} THEN {0, 1} ELSE {0, 1, 2}
    [] k = "http" -> {RequestLine, StatusLine, "host a", "host b", "chunked", "other", ""}
    [] k = "int"  -> IF at = 5 THEN {0, 1, 128} ELSE {1, 31, 127, 128, 255}
    [] k = "h2"   -> IF at \in {0, 1, 5, 6, 7} THEN {0}
                     ELSE IF at = 4 THEN {0, 8, 32} ELSE {0, 1}
    [] k = "hpack" -> HpackPieces(at)
    [] k = "ja" -> {0, 16, 10, 2570, 4866}

MCMaxLen(k) ==
  CASE k = "name" -> 8
    [] k = "dns" -> 40
    [] k \in {"record", "h2"} -> 12
    [] k \in {"sni", "certs"} -> 8
    [] k = "extensions" -> 10
    [] k = "hello" -> 43
    [] k = "quic" -> 11
    [] k \in {"alpn", "int"} -> 6
    [] k = "hpack" -> 4
    [] OTHER -> 5
=============================================================================
