------------------------------ MODULE Parsers ------------------------------
(***************************************************************************)
(* The parsers of application messages (decode/dns.rs, tls.rs, quic.rs,    *)
(* http.rs, http2.rs, ja.rs) over input that grows by one piece at a time, *)
(* as a capture that is cut ever later does.  A piece is a byte, or for    *)
(* http a line, for hpack a header representation or where the next frame  *)
(* begins, and for ja a value of the lists of a hello.                     *)
(*                                                                         *)
(* Positions count from 0, as in the code.  Bytes are read by At alone,    *)
(* which has no value behind the end: a read out of bounds, a panic in the *)
(* code, would be an error of every run.                                   *)
(***************************************************************************)
EXTENDS Integers, Sequences, SequencesExt, FiniteSetsExt

CONSTANTS
  Formats,      \* what is parsed
  Starts(_),    \* the inputs that each kind starts with
  Pieces(_, _), \* what may come at a position of it
  MaxLen(_),    \* bound: how long it grows
  MaxJumps,     \* pointers followed in one name (128)
  Nothing       \* an absent value

Byte == 0..255
Word == 0..65535
\* A string of a literal: what it says, how many of its bytes are well-formed
\* UTF-8, in how many parts the others lie and how many they are, and whether it
\* is Huffman coded, in how many bytes.
HeaderText ==
  {s \in [says : STRING, valid : Nat, parts : Nat, bad : Nat, huffman : BOOLEAN, coded : Nat] :
     s.parts <= s.bad /\ s.bad <= 3 * s.parts}
\* What header blocks are made of, and the frames behind the first one.  Index 0
\* is a name of its own, which one of the static table is to both sides; n is the
\* n-th entry of the dynamic table.
Representation ==
  [op : {"add", "literal"}, index : Nat, name : HeaderText, value : HeaderText]
    \cup [op : {"indexed"}, index : Nat]
    \cup [op : {"resize"}, size : Nat]
    \cup [op : {"frame"}, type : {"headers", "continuation", "data"},
          flags : SUBSET {"PADDED", "PRIORITY"}]
Alphabet(k) ==
  CASE k = "http"  -> STRING
    [] k = "hpack" -> Representation
    [] k = "ja"    -> Word
    [] OTHER       -> Byte

ASSUME ParsersAssumption ==
  /\ MaxJumps \in Nat /\ Nothing \notin Nat
  /\ \A k \in Formats :
       /\ MaxLen(k) \in Nat /\ Starts(k) \subseteq Seq(Alphabet(k))
       /\ \A at \in 0..MaxLen(k) : Pieces(k, at) \subseteq Alphabet(k)

VARIABLES
  kind, \* the parser
  data  \* its input so far

parsed == <<kind, data>>

ParsersInit == kind \in Formats /\ data \in Starts(kind)

Grow(piece) ==
  /\ Len(data) < MaxLen(kind)
  /\ data' = Append(data, piece)
  /\ UNCHANGED kind

End == Len(data) >= MaxLen(kind) /\ UNCHANGED parsed

ParsersNext == (\E piece \in Pieces(kind, Len(data)) : Grow(piece)) \/ End

ParsersSpec == ParsersInit /\ [][ParsersNext]_parsed

At(d, i)          == d[i + 1]
U16(d, i)         == 256 * At(d, i) + At(d, i + 1)
U24(d, i)         == 65536 * At(d, i) + U16(d, i + 1)
Slice(d, from, to) == SubSeq(d, from + 1, to)
From(d, i)        == SubSeq(d, i + 1, Len(d))
Least(a, b)       == IF a < b THEN a ELSE b

\* Entries that follow each other from a position on, each with a length, until
\* one is not whole: what they are, and where they end.  size[p] is what the
\* entry at p takes, or Nothing.
Take(d, end, size, run) ==
  LET next == run.at + size[run.at]
  IN IF run.at >= end THEN run
     ELSE IF size[run.at] = Nothing THEN run
     ELSE IF next > end THEN run
     ELSE [at |-> next, got |-> Append(run.got, Slice(d, run.at, next))]
Run(d, start, end, size) ==
  LET run[i \in 0..end] ==
        IF i = 0 THEN [at |-> start, got |-> << >>] ELSE Take(d, end, size, run[i - 1])
  IN  run[end]
Entries(d, start, end, size) == Run(d, start, end, size).got

-----------------------------------------------------------------------------
\* parse_dns_name: labels until a zero byte or a pointer, which is relative to
\* the start of the message and whose name is joined on.  A pointer to the root
\* behind a label leaves an empty label.
Refused         == [ok |-> FALSE, name |-> << >>, end |-> 0]
NameRead(name, end) == [ok |-> TRUE, name |-> name, end |-> end]

LabelSize(d) ==
  [p \in Nat |-> IF At(d, p) \in 1..191 THEN 1 + At(d, p) ELSE Nothing]
Pointer(d, p) == U16(d, p) % 16384

\* pointed gives the names at the positions that a pointer may lead to.
DnsName_FromStart(d, pos, base, pointed) ==
  LET run    == Run(d, pos, Len(d), LabelSize(d))
      labels == [i \in DOMAIN run.got |-> Tail(run.got[i])]
      part   == pointed[Pointer(d, run.at)]
  IN IF run.at >= Len(d) THEN Refused
     ELSE IF At(d, run.at) = 0 THEN NameRead(labels, run.at + 1)
     ELSE IF At(d, run.at) < 192 \/ run.at + 1 >= Len(d) THEN Refused
     ELSE IF ~part.ok THEN Refused
     ELSE NameRead(labels \o part.name, run.at + 2)
DnsName(d, pos, base, pointed) ==
  LET run    == Run(d, pos, Len(d), LabelSize(d))
      labels == [i \in DOMAIN run.got |-> Tail(run.got[i])]
      part   == pointed[base + Pointer(d, run.at)]
      rest   == IF labels # << >> /\ part.name = << >> THEN << << >> >> ELSE part.name
  IN IF run.at >= Len(d) THEN Refused
     ELSE IF At(d, run.at) = 0 THEN NameRead(labels, run.at + 1)
     ELSE IF At(d, run.at) < 192 \/ run.at + 1 >= Len(d) THEN Refused
     ELSE IF ~part.ok THEN Refused
     ELSE NameRead(labels \o rest, run.at + 2)

\* The names at all positions, by the number of pointers that may be followed.
Names(d, base) ==
  LET names[n \in 0..(MaxJumps + 1)] ==
        IF n = 0 THEN [pos \in Nat |-> Refused]
        ELSE [pos \in Nat |-> DnsName(d, pos, base, names[n - 1])]
  IN  names[MaxJumps + 1]
Name(d, pos, base) == Names(d, base)[pos]

\* parse_rdata, by the type of the record; data that is not of its form is kept
\* as it is.
TextSize(d) == [p \in Nat |-> 1 + At(d, p)]
SoaNames(d, pos, base) ==
  LET m == Name(d, pos, base)
      r == Name(d, m.end, base)
  IN IF m.ok /\ r.ok /\ r.end + 20 <= Len(d) THEN <<m.name, r.name>> ELSE Nothing
NameAt(d, pos, base, raw) ==
  IF Name(d, pos, base).ok THEN <<"name", Name(d, pos, base).name>> ELSE raw
Rdata(d, pos, n, base, type) ==
  LET bytes == Slice(d, pos, pos + n)
      raw   == <<"raw", bytes>>
  IN CASE (type = 1 /\ n = 4) \/ (type = 28 /\ n = 16) ->
            <<"address", bytes>>
       [] type \in {2, 5, 12}    -> NameAt(d, pos, base, raw)
       [] type = 15 /\ n >= 3    -> NameAt(d, pos + 2, base, raw)
       [] type = 33 /\ n >= 6    -> NameAt(d, pos + 6, base, raw)
       [] type = 16              -> <<"texts", Entries(bytes, 0, n, TextSize(bytes))>>
       [] type = 6 /\ SoaNames(d, pos, base) # Nothing ->
            <<"soa", SoaNames(d, pos, base)>>
       [] OTHER                  -> raw

\* parse_rr: a record and where it ends, or none.
NoRecord == [ok |-> FALSE]
Record(d, pos, base) ==
  LET name  == Name(d, pos, base)
      fixed == name.end
  IN IF ~name.ok THEN NoRecord
     ELSE IF fixed + 10 > Len(d) THEN NoRecord
     ELSE IF fixed + 10 + U16(d, fixed + 8) > Len(d) THEN NoRecord
     ELSE [ok    |-> TRUE,
           name  |-> name.name,
           type  |-> U16(d, fixed),
           rdata |-> Rdata(d, fixed + 10, U16(d, fixed + 8), base, U16(d, fixed)),
           end   |-> fixed + 10 + U16(d, fixed + 8)]

\* parse_records: up to count of them; the first that is not whole ends it.
TakeRecord(d, base, got) ==
  LET next == Record(d, got.end, base)
  IN IF ~next.ok THEN got
     ELSE [records |-> Append(got.records, next), end |-> next.end]
Records(d, pos, base, count) ==
  LET got[i \in 0..count] ==
        IF i = 0 THEN [records |-> << >>, end |-> pos] ELSE TakeRecord(d, base, got[i - 1])
  IN  got[count]

\* The questions.  A name that is refused refuses the message; a question cut
\* behind its name ends them.
TakeQuestion_KeepsCut(d, base, got) ==
  LET name == Name(d, got.end, base)
  IN IF ~got.open THEN got
     ELSE IF ~name.ok THEN [got EXCEPT !.ok = FALSE, !.open = FALSE]
     ELSE IF name.end + 4 > Len(d)
     THEN [got EXCEPT !.open = FALSE, !.end = name.end,
                      !.questions = Append(@, <<name.name, 0>>)]
     ELSE [got EXCEPT !.questions = Append(@, <<name.name, U16(d, name.end)>>),
                      !.end = name.end + 4]
TakeQuestion(d, base, got) ==
  LET name == Name(d, got.end, base)
  IN IF ~got.open THEN got
     ELSE IF ~name.ok THEN [got EXCEPT !.ok = FALSE, !.open = FALSE]
     ELSE IF name.end + 4 > Len(d) THEN [got EXCEPT !.open = FALSE, !.end = name.end]
     ELSE [got EXCEPT !.questions = Append(@, <<name.name, U16(d, name.end)>>),
                      !.end = name.end + 4]
Questions(d, pos, base, count) ==
  LET got[i \in 0..count] ==
        IF i = 0 THEN [ok |-> TRUE, open |-> TRUE, questions |-> << >>, end |-> pos]
        ELSE TakeQuestion(d, base, got[i - 1])
  IN  got[count]

\* try_decode_dns, of a message that starts at an offset.
Dns(d, o) ==
  IF Len(d) < o + 12 THEN Nothing
  ELSE IF U16(d, o + 4) > 100 \/ \E i \in {6, 8, 10} : U16(d, o + i) > 4096 THEN Nothing
  ELSE LET q == Questions(d, o + 12, o, U16(d, o + 4))
           a == Records(d, q.end, o, U16(d, o + 6))
           n == Records(d, a.end, o, U16(d, o + 8))
           x == Records(d, n.end, o, U16(d, o + 10))
       IN IF ~q.ok \/ q.questions = << >> THEN Nothing
          ELSE [questions |-> q.questions, answers |-> a.records,
                authorities |-> n.records, additionals |-> x.records, end |-> x.end]
DnsComplete(d, o) ==
  LET m == Dns(d, o)
  IN /\ m # Nothing
     /\ Len(m.questions) = U16(d, o + 4) /\ Len(m.answers) = U16(d, o + 6)
     /\ Len(m.authorities) = U16(d, o + 8) /\ Len(m.additionals) = U16(d, o + 10)

-----------------------------------------------------------------------------
\* parse_tls_record: the type and body of the handshake message.  The length of
\* the message is compared with the capture and not with the record.
TlsRecord(d) ==
  IF Len(d) < 6 THEN Nothing
  ELSE IF At(d, 0) # 22 \/ U16(d, 3) < 4 \/ Len(d) < 5 + U16(d, 3) THEN Nothing
  ELSE IF 9 + U24(d, 6) > Len(d) THEN Nothing
  ELSE [type |-> At(d, 5), body |-> Slice(d, 9, 9 + U24(d, 6))]

\* Lists of numbers behind their length in bytes: parse_u16s and the rest.
U16s(d, bytes) ==
  [i \in 1..(Least(bytes, Len(d)) \div 2) |-> U16(d, 2 * (i - 1))]
List2(e) == IF Len(e) < 2 THEN << >> ELSE U16s(From(e, 2), U16(e, 0))
List1(e) == IF e = << >> THEN << >> ELSE U16s(From(e, 1), At(e, 0))
Bytes1(e) == IF e = << >> THEN << >> ELSE Slice(e, 1, Least(1 + At(e, 0), Len(e)))

\* parse_alpn.
AlpnSize(d) == [p \in Nat |-> 1 + At(d, p)]
Alpn(e) ==
  IF Len(e) < 2 THEN << >>
  ELSE LET es == Entries(e, 2, Len(e), AlpnSize(e)) IN [i \in DOMAIN es |-> Tail(es[i])]

\* parse_sni: the first host name, unless an entry before it is cut.
SniSize(d) == [p \in Nat |-> IF p + 3 > Len(d) THEN Nothing ELSE 3 + U16(d, p + 1)]
Sni(e) ==
  LET es    == Entries(e, 2, Len(e), SniSize(e))
      hosts == {i \in DOMAIN es : At(es[i], 0) = 0}
  IN IF Len(e) < 5 \/ hosts = {} THEN Nothing ELSE From(es[Min(hosts)], 3)

\* count_certs.
CertSize(d) == [p \in Nat |-> IF p + 3 > Len(d) THEN Nothing ELSE 3 + U24(d, p)]
CertEnd(b) == Least(3 + U24(b, 0), Len(b))
Certs(b) ==
  IF Len(b) < 3 THEN << >>
  ELSE LET certs == Slice(b, 0, CertEnd(b))
       IN Entries(certs, 3, CertEnd(b), CertSize(certs))

\* parse_extensions.  Of two extensions of a type the later one counts.
ExtSize(d) == [p \in Nat |-> IF p + 4 > Len(d) THEN Nothing ELSE 4 + U16(d, p + 2)]
Extensions(e) == Entries(e, 0, Len(e), ExtSize(e))
ExtType(x) == U16(x, 0)
ExtOf(es, type) ==
  LET of == {i \in DOMAIN es : ExtType(es[i]) = type}
  IN IF of = {} THEN << >> ELSE From(es[Max(of)], 4)
ExtData(es) ==
  [types |-> [i \in DOMAIN es |-> ExtType(es[i])],
   sni |-> Sni(ExtOf(es, 0)), alpn |-> Alpn(ExtOf(es, 16)), groups |-> List2(ExtOf(es, 10)),
   formats |-> Bytes1(ExtOf(es, 11)), sigs |-> List2(ExtOf(es, 13)),
   versions |-> List1(ExtOf(es, 43))]

\* try_decode_tls_client_hello, from the session id on (byte 34 of the body).
Minimal == [ciphers |-> << >>, extensions |-> << >>]
ClientHello(b) ==
  IF Len(b) < 35 THEN Minimal
  ELSE LET p == 35 + At(b, 34)
       IN IF p + 2 > Len(b) THEN Minimal
          ELSE IF p + 2 + U16(b, p) > Len(b) THEN Minimal
          ELSE LET c == p + 2 + U16(b, p)
               IN IF c >= Len(b) THEN Minimal
                  ELSE LET x == c + 1 + At(b, c)
                       IN [ciphers    |-> U16s(From(b, p + 2), U16(b, p)),
                           extensions |->
                             IF x + 2 > Len(b) THEN << >>
                             ELSE Extensions(Slice(b, x + 2, Least(x + 2 + U16(b, x), Len(b))))]

\* parse_server_hello, from the same byte on.
ServerHello(b) ==
  IF Len(b) < 35 THEN [cipher |-> 0, extensions |-> << >>]
  ELSE LET p == 35 + At(b, 34)
       IN IF p + 2 > Len(b) THEN [cipher |-> 0, extensions |-> << >>]
          ELSE [cipher     |-> U16(b, p),
                extensions |->
                  IF p + 5 > Len(b) THEN << >>
                  ELSE Extensions(Slice(b, p + 5, Least(p + 5 + U16(b, p + 3), Len(b))))]

-----------------------------------------------------------------------------
\* try_decode_quic and read_cid: the connection ids of a long header.
Cid(d, p) ==
  IF p >= Len(d) THEN Nothing
  ELSE IF At(d, p) > 20 \/ p + 1 + At(d, p) > Len(d) THEN Nothing
  ELSE Slice(d, p + 1, p + 1 + At(d, p))
QuicHeader(d) ==
  IF Len(d) < 6 THEN Nothing
  ELSE IF At(d, 0) < 128 \/ Cid(d, 5) = Nothing THEN Nothing
  ELSE IF Cid(d, 6 + Len(Cid(d, 5))) = Nothing THEN Nothing
  ELSE [dcid |-> Cid(d, 5), scid |-> Cid(d, 6 + Len(Cid(d, 5)))]

\* try_decode_http: the lines of a head, up to the empty one.
RequestLine == "request"
StatusLine  == "status"
HttpHead(lines) ==
  LET blank == {i \in DOMAIN lines : lines[i] = ""}
      head  == IF blank = {} THEN lines ELSE SubSeq(lines, 1, Min(blank) - 1)
      hosts == {i \in 2..Len(head) : head[i] \in {"host a", "host b"}}
  IN IF head = << >> THEN Nothing
     ELSE IF head[1] \notin {RequestLine, StatusLine} THEN Nothing
     ELSE [request |-> head[1] = RequestLine,
           host    |-> IF hosts = {} THEN Nothing ELSE head[Max(hosts)],
           chunked |-> \E i \in 2..Len(head) : head[i] = "chunked"]

-----------------------------------------------------------------------------
\* decode_int, with a prefix of some bits: the value and where it ends, or none.
Power(n) ==
  LET power[i \in 0..n] == IF i = 0 THEN 1 ELSE 2 * power[i - 1] IN power[n]
\* What the bytes of a continuation add: seven bits each, the lowest first.
Added(bytes) ==
  LET sum[i \in 0..Len(bytes)] ==
        IF i = 0 THEN 0 ELSE sum[i - 1] + (bytes[i] % 128) * Power(7 * (i - 1))
  IN  sum[Len(bytes)]
\* Up to five bytes, of which the last has no flag.
Continued(d, pos, value) ==
  LET lasts == {i \in 1..Least(5, Len(d) - pos) : At(d, pos + i - 1) < 128}
  IN IF lasts = {} THEN Nothing
     ELSE <<value + Added(Slice(d, pos, pos + Min(lasts))), pos + Min(lasts)>>
HpackInt(d, pos, bits) ==
  IF pos >= Len(d) THEN Nothing
  ELSE LET mask == Power(bits) - 1
       IN IF At(d, pos) % (mask + 1) < mask THEN <<At(d, pos) % (mask + 1), pos + 1>>
          ELSE Continued(d, pos + 1, mask)

\* try_decode_http2 behind the preface: the frames, and the header block of one
\* that is neither padded nor prioritised.
FrameSize(d) == [p \in Nat |-> IF p + 9 > Len(d) THEN Nothing ELSE 9 + U24(d, p)]
H2Frames(d) ==
  LET fs == Entries(d, 0, Len(d), FrameSize(d)) IN SubSeq(fs, 1, Least(Len(fs), 128))
Flag(f, bit) == (At(f, 4) \div bit) % 2 = 1
HeaderBlock(f) ==
  IF At(f, 3) = 1 /\ ~Flag(f, 8) /\ ~Flag(f, 32) THEN From(f, 9) ELSE << >>

\* Hpack::insert and evict: entries leave from the back until the table fits.
\* SizeOf is what the newest ones take together.
SizeOf(entries, n) ==
  LET sum[i \in 0..Len(entries)] == IF i = 0 THEN 0 ELSE sum[i - 1] + entries[i].size
  IN  sum[n]
Fitting(entries, max) == {n \in 0..Len(entries) : SizeOf(entries, n) <= max}
Evicted(t) ==
  [t EXCEPT !.entries = SubSeq(@, 1, Max(Fitting(@, t.max)))]

\* decode_str: a Huffman coded string becomes a placeholder that tells the number
\* of its bytes, and each ill-formed part of another one a character of 3 bytes.
Digits(n) == 1 + Cardinality({i \in 1..7 : n >= 10 ^ i})
Stored(s) ==
  IF s.huffman THEN [says |-> Nothing, size |-> 11 + Digits(s.coded)]
  ELSE [says |-> IF s.parts = 0 THEN s.says ELSE Nothing, size |-> s.valid + 3 * s.parts]
\* What the peer takes it to be.
Sent(s) == [says |-> s.says, size |-> s.valid + s.bad]

\* The entry that a literal adds.
Entry(t, r, name, value) ==
  LET named == IF r.index = 0 THEN name ELSE t.entries[r.index].name
  IN [name |-> named, value |-> value, size |-> named.size + value.size + 32]

\* Which header blocks try_decode_http2 decodes, of the 128 frames it reads.
Read(t, r) == t.frames < 128 /\ r.type = "headers" /\ r.flags = {}
\* An index that the table has.
Known(t, r) == r.index \in (IF r.op = "indexed" THEN 1 ELSE 0)..Len(t.entries)

\* What a frame, and Hpack::decode of a representation, makes of the table.  With
\* a literal of an unknown name, or the index 0, the rest of its block is lost.
Decoded(t, r) ==
  IF r.op = "frame" THEN [t EXCEPT !.frames = @ + 1, !.on = Read(t, r)]
  ELSE IF ~t.on THEN t
  ELSE IF r.op = "resize" THEN Evicted([t EXCEPT !.max = r.size])
  ELSE IF ~Known(t, r) THEN [t EXCEPT !.on = r.op = "indexed" /\ r.index # 0]
  ELSE IF r.op = "add"
  THEN Evicted([t EXCEPT !.entries = <<Entry(t, r, Stored(r.name), Stored(r.value))>> \o @])
  ELSE t
NewTable == [entries |-> << >>, max |-> 4096, frames |-> 1, on |-> TRUE]
Table(reps) ==
  LET table[i \in 0..Len(reps)] ==
        IF i = 0 THEN NewTable ELSE Decoded(table[i - 1], reps[i])
  IN  table[Len(reps)]

-----------------------------------------------------------------------------
\* is_grease, and what the fingerprints take from the ciphers and the extensions.
IsGrease(v) == v \div 256 = v % 256 /\ v % 16 = 10
Grease == {v \in Word : IsGrease(v)}
Without(vs, dropped) ==
  LET rest[i \in 0..Len(vs)] ==
        IF i = 0 THEN << >>
        ELSE IF vs[i] \in dropped THEN rest[i - 1] ELSE Append(rest[i - 1], vs[i])
  IN  rest[Len(vs)]
WithoutGrease(vs) == Without(vs, Grease)
\* At a place of a sorted list stands the least value that as many do not exceed.
Sorted(vs) ==
  [i \in DOMAIN vs |->
     Min({v \in Range(vs) : Cardinality({j \in DOMAIN vs : vs[j] <= v}) >= i})]
Ja3(ciphers, exts, groups) ==
  <<WithoutGrease(ciphers), WithoutGrease(exts), WithoutGrease(groups)>>
\* The highest version of the extension for them, or the one of the hello itself.
BestVersion(versions) ==
  LET known == Range(WithoutGrease(versions)) IN IF known = {} THEN Nothing ELSE Max(known)
\* The signature algorithms are taken as they are.
Ja4_ExtsInOrder(versions, ciphers, exts, sigs) ==
  [version |-> BestVersion(versions),
   counts  |-> <<Least(Len(WithoutGrease(ciphers)), 99), Least(Len(WithoutGrease(exts)), 99)>>,
   ciphers |-> Sorted(WithoutGrease(ciphers)),
   exts    |-> Without(WithoutGrease(exts), {0, 16}),
   sigs    |-> sigs]
Ja4(versions, ciphers, exts, sigs) ==
  [version |-> BestVersion(versions),
   counts  |-> <<Least(Len(WithoutGrease(ciphers)), 99), Least(Len(WithoutGrease(exts)), 99)>>,
   ciphers |-> Sorted(WithoutGrease(ciphers)),
   exts    |-> Sorted(Without(WithoutGrease(exts), {0, 16})),
   sigs    |-> sigs]

-----------------------------------------------------------------------------
\* What a name stands for, one byte that counts after the other: what follows is
\* what stands behind a label, or where a pointer leads to.
Unread == [ok |-> FALSE, labels |-> << >>, jumps |-> 0, end |-> 0]
Onward(d, p, base, meant) ==
  LET n     == At(d, p)
      next  == meant[p + 1 + n]
      there == meant[base + Pointer(d, p)]
  IN IF p >= Len(d) THEN Unread
     ELSE IF n = 0 THEN [Unread EXCEPT !.ok = TRUE, !.end = p + 1]
     ELSE IF n < 192
     THEN IF next.ok THEN [next EXCEPT !.labels = <<Slice(d, p + 1, p + 1 + n)>> \o @]
          ELSE Unread
     ELSE IF p + 1 >= Len(d) THEN Unread
     ELSE [there EXCEPT !.jumps = @ + 1, !.end = p + 2]
\* No name with so many pointers takes more steps.
Meant(d, start, base) ==
  LET steps == (MaxJumps + 1) * (Len(d) + 1)
      meant[n \in 0..steps] ==
        IF n = 0 THEN [p \in Nat |-> Unread]
        ELSE [p \in Nat |-> Onward(d, p, base, meant[n - 1])]
  IN  meant[steps][start]
Rooted(name) == name # << >> /\ Last(name) = << >>
Unrooted(name) == IF Rooted(name) THEN Front(name) ELSE name

\* A compressed name is read exactly when following its labels and pointers,
\* however they are entangled, comes to an end inside the message and no more
\* pointers than allowed are on the way; it is the labels on the way, and the
\* reader goes on behind the first pointer (parse_dns_name, decode/dns.rs:217-277).
NamesResolve ==
  kind = "name" =>
    LET got   == Name(data, 1, 1)
        meant == Meant(data, 1, 1)
    IN /\ got.ok <=> meant.ok /\ meant.jumps <= MaxJumps
       /\ got.ok => Unrooted(got.name) = meant.labels /\ got.end = meant.end

\* Where the lists of entries begin, and what they are put together from.
Behind(bytes, from, what) ==
  /\ Len(what) <= Len(bytes) - from
  /\ Slice(bytes, from, from + Len(what)) = what
Coded(names) == FlattenSeq([i \in DOMAIN names |-> <<Len(names[i])>> \o names[i]])
Pairs(vs) == FlattenSeq([i \in DOMAIN vs |-> <<vs[i] \div 256, vs[i] % 256>>])
\* An integer of several bytes, worth more and more the further back they stand.
IntOf(d, bits) ==
  LET last == Min({i \in 2..Len(d) : d[i] < 128} \cup {Len(d)})
      worth[n \in 0..(last - 1)] ==
        IF n = 0 THEN 0 ELSE (d[last - n + 1] % 128) + 128 * worth[n - 1]
  IN  Power(bits) - 1 + worth[last - 1]

\* What was read, written down again, is the input: lists whose entries may be
\* empty, cut or longer than what holds them, connection ids, and integers of
\* any number of bytes (parse_alpn and parse_extensions, decode/tls.rs:232-293;
\* read_cid, decode/quic.rs:47-56; decode_int, decode/http2.rs:169-190).
ReadsBack ==
  CASE kind = "alpn" ->
         /\ Behind(data, 2, Coded(Alpn(data))) \/ Len(data) < 2
         /\ LET rest == From(data, 2 + Len(Coded(Alpn(data))))
            IN rest # << >> => Len(rest) < 1 + Head(rest)
    [] kind = "sni" ->
         Sni(data) # Nothing =>
           \E p \in 2..Len(data) :
             Behind(data, p, <<0, Len(Sni(data)) \div 256, Len(Sni(data)) % 256>> \o Sni(data))
    [] kind = "certs" ->
         Len(data) >= 3 => Len(FlattenSeq(Certs(data))) <= U24(data, 0)
    [] kind = "extensions" ->
         /\ Behind(data, 0, FlattenSeq(Extensions(data)))
         /\ LET x == ExtData(Extensions(data))
            IN /\ Behind(ExtOf(Extensions(data), 10), 2, Pairs(x.groups)) \/ x.groups = << >>
               /\ Behind(ExtOf(Extensions(data), 43), 1, Pairs(x.versions)) \/ x.versions = << >>
               /\ Behind(ExtOf(Extensions(data), 11), 1, x.formats) \/ x.formats = << >>
    [] kind = "hello" ->
         LET c == ClientHello(data)
         IN c # Minimal =>
              /\ Behind(data, 37 + At(data, 34), Pairs(c.ciphers))
              /\ \E p \in 37..Len(data) : Behind(data, p, FlattenSeq(c.extensions))
              /\ \E p \in 37..Len(data) :
                   Behind(data, p, FlattenSeq(ServerHello(data).extensions))
    [] kind = "h2" ->
         /\ Behind(data, 0, FlattenSeq(H2Frames(data)))
         /\ \A i \in DOMAIN H2Frames(data) :
              LET f == H2Frames(data)[i]
              IN HeaderBlock(f) # << >> => Len(HeaderBlock(f)) = U24(f, 0)
    [] kind = "quic" ->
         QuicHeader(data) # Nothing =>
           Behind(data, 5, Coded(<<QuicHeader(data).dcid, QuicHeader(data).scid>>))
    [] kind = "int" ->
         LET got == HpackInt(data, 0, 5)
         IN got # Nothing /\ Head(data) % 32 = 31 => got[1] = IntOf(data, 5)
    [] OTHER -> TRUE

\* What each parser makes of its input, and whether that was all there.
\* (Data that is a name may reach behind its record, as the code reads it.)
WithNames == {2, 5, 6, 12, 15, 33}
Key(record) ==
  <<record.name, record.type, IF record.type \in WithNames THEN Nothing ELSE record.rdata>>
Keys(records) == [i \in DOMAIN records |-> Key(records[i])]
Result(d) ==
  CASE kind = "name"   -> Name(d, 1, 1)
    [] kind = "dns"    -> LET m == Dns(d, 0)
                          IN <<m.questions, Keys(m.answers), Keys(m.authorities),
                               Keys(m.additionals), m.end>>
    [] kind = "record" -> TlsRecord(d)
    [] kind = "quic"   -> QuicHeader(d)
    [] kind = "http"   -> HttpHead(d)
    [] kind = "int"    -> HpackInt(d, 0, 5)
    [] OTHER           -> Nothing
Complete(d) ==
  CASE kind = "name" -> Name(d, 1, 1).ok
    [] kind = "dns"  -> DnsComplete(d, 0)
    [] kind = "http" -> \E i \in DOMAIN d : d[i] = ""
    [] kind \in {"record", "quic", "int"} -> Result(d) # Nothing
    [] OTHER -> FALSE

\* A message that is there as a whole is not read differently when more of the
\* stream follows it.
CompleteIsStable == kind = kind' /\ Complete(data) => Result(data') = Result(data)

\* As more of a DNS message arrives, no record changes or leaves its section,
\* and no section is begun before the one in front of it is whole
\* (try_decode_dns and parse_records, decode/dns.rs:53-88).
SectionsGrow ==
  kind = "dns" /\ Dns(data, 0) # Nothing /\ Dns(data', 0) # Nothing
    => LET was == Dns(data, 0)
           is  == Dns(data', 0)
       IN /\ IsPrefix(was.questions, is.questions)
          /\ IsPrefix(Keys(was.answers), Keys(is.answers))
          /\ IsPrefix(Keys(was.authorities), Keys(is.authorities))
          /\ was.authorities # << >> => Len(was.answers) = U16(data, 6)

\* More of a message, or what follows it, never takes back what was read of it
\* (the decoders are given what has been captured or reassembled so far).
ReadsOn == [][CompleteIsStable /\ SectionsGrow]_parsed

\* The table of a peer, which makes room before it inserts, over the true sizes,
\* and whose header blocks go on in every kind of frame that carries them.
PeerInserted(t, e) ==
  LET room == {n \in 0..Len(t.entries) : SizeOf(t.entries, n) + e.size <= t.max}
  IN [t EXCEPT !.entries = IF room = {} THEN << >> ELSE <<e>> \o SubSeq(@, 1, Max(room))]
PeerDecoded(t, r) ==
  IF r.op = "frame" THEN [t EXCEPT !.frames = @ + 1, !.on = r.type # "data"]
  ELSE IF ~t.on THEN t
  ELSE IF r.op = "resize" THEN Evicted([t EXCEPT !.max = r.size])
  ELSE IF r.op = "add" /\ Known(t, r)
  THEN PeerInserted(t, Entry(t, r, Sent(r.name), Sent(r.value)))
  ELSE t
\* The peer's table before the first piece and behind each.
PeerTables(reps) ==
  LET table[i \in 0..Len(reps)] ==
        IF i = 0 THEN NewTable ELSE PeerDecoded(table[i - 1], reps[i])
  IN  table
PeerTable(reps) == PeerTables(reps)[Len(reps)]

\* The peer refers to entries that it has; every header block is one that is
\* decoded; no string is Huffman coded; none is ill-formed UTF-8.
Literal(r) == r.op \in {"add", "literal"}
KeepsToIndexes(reps) ==
  \A i \in DOMAIN reps :
    Literal(reps[i]) \/ reps[i].op = "indexed" => Known(PeerTables(reps)[i - 1], reps[i])
AllRead(reps) ==
  \A i \in DOMAIN reps :
    reps[i].op = "frame" /\ reps[i].type # "data" => Read(PeerTables(reps)[i - 1], reps[i])
NoHuffman(reps) ==
  \A i \in DOMAIN reps : Literal(reps[i]) => ~reps[i].name.huffman /\ ~reps[i].value.huffman
AllUtf8(reps) ==
  \A i \in DOMAIN reps : Literal(reps[i]) => reps[i].name.parts = 0 /\ reps[i].value.parts = 0

\* For a peer that keeps to its own table, the dynamic table is that peer's, so
\* that an index means the same to both, as long as three things hold: its header
\* blocks come in HEADERS frames without padding or priority, among the first 128
\* frames, since no others are decoded; no literal is Huffman coded; and every
\* literal is UTF-8, since what is stored and counted is the text that a lossy
\* conversion makes (Hpack, decode/http2.rs:83-167).
TablesAgree ==
  kind = "hpack" /\ KeepsToIndexes(data) /\ AllRead(data) /\ NoHuffman(data) /\ AllUtf8(data)
    => Table(data) = PeerTable(data)

\* "Indexed and non-Huffman literals decode fully" (decode/http2.rs:5-6): an index
\* that means an entry to a peer which keeps to its table, and sends no Huffman
\* code, means one to the decoder.
IndexesDecode ==
  kind = "hpack" /\ KeepsToIndexes(data) /\ NoHuffman(data)
    => Len(Table(data).entries) = Len(PeerTable(data).entries)

\* What is read is what the sender wrote, where reading needs the rest of the
\* message (names), its lengths (lists), or all messages before it (HPACK).
ReadRight == NamesResolve /\ ReadsBack /\ TablesAgree

\* Swapping two ciphers or two extensions does not change JA4, which sorts them,
\* and a GREASE value among the ciphers, the extensions, the groups or the
\* versions changes neither fingerprint (ja3_string and ja4, decode/ja.rs:20-111).
\* One among the signature algorithms does change JA4, which takes them as they
\* are (ja.rs:100-107), against ja.rs:2.
FingerprintsHold ==
  kind = "ja" =>
    LET ja4 == Ja4(data, data, data, data)
    IN /\ \A i \in 1..(Len(data) - 1) :
            LET swapped == [data EXCEPT ![i] = data[i + 1], ![i + 1] = data[i]]
            IN Ja4(data, swapped, data, data) = ja4 /\ Ja4(data, data, swapped, data) = ja4
       /\ \A i \in DOMAIN data :
            IsGrease(data[i]) =>
              LET without == RemoveAt(data, i)
              IN /\ Ja3(without, without, without) = Ja3(data, data, data)
                 /\ Ja4(without, without, without, data) = ja4
=============================================================================
