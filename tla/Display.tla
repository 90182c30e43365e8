------------------------------ MODULE Display ------------------------------
(***************************************************************************)
(* A packet is decoded, and then a display filter is typed and applied to  *)
(* it: Decode and Filter together, and what they promise about the frame   *)
(* on the wire.                                                            *)
(***************************************************************************)
EXTENDS Decode, SequencesExt

CONSTANTS
  Fields, ValueOf(_), Holds(_, _), \* of Filter
  Joints,    \* phrases that join: parentheses, not, and, or
  Atoms,     \* phrases that are a filter of their own
  Operands,  \* bound: those that longer filters are typed from
  Samples,   \* bound: the frames that filters are typed against
  MaxText    \* bound: phrases of the filter

VARIABLE text  \* the phrases typed

F == INSTANCE Filter

DisplayInit == Init /\ text = << >>

Words(phrases) == FlattenSeq(phrases)

\* Phrases after which the text may still become a filter: an operand is due at
\* the start and behind a joint that is not ")".
OperandDue(t) == t = << >> \/ (Last(t) \in Joints /\ Last(t) # <<")">>)
Depth(t) ==
  FoldLeft(LAMBDA n, p : IF p = <<"(">> THEN n + 1 ELSE IF p = <<")">> THEN n - 1 ELSE n,
           0, t)
MayFollow(p, t) ==
  IF OperandDue(t) THEN p \in Operands \cup {<<"(">>, <<"not">>}
  ELSE p \in {<<"and">>, <<"or">>} \/ (p = <<")">> /\ Depth(t) > 0)
Viable(t) == \A i \in DOMAIN t : MayFollow(t[i], SubSeq(t, 1, i - 1))

\* The bar is typed in; bounded to texts that were viable before the last phrase.
Type(phrase) ==
  /\ what = None /\ frame \in Samples /\ captured = WireLength
  /\ Len(text) < MaxText
  /\ Viable(text)
  /\ text' = Append(text, phrase)
  /\ UNCHANGED vars

Done == what = None /\ UNCHANGED <<vars, text>>

DisplayNext ==
  \/ Next /\ UNCHANGED text
  \/ \E phrase \in Joints \cup Operands : Type(phrase)
  \/ Done

DisplaySpec == DisplayInit /\ [][DisplayNext]_<<vars, text>>

-----------------------------------------------------------------------------
\* A packet passes the filter that its own protocol column names: the summary
\* and the filter take the same view of the layers (compute_summary,
\* decode/mod.rs:528-673; has_protocol, filter/eval.rs:33-52).
Atom(protocol) ==
  IF protocol \in {"client_hello", "handshake"} THEN "tls" ELSE protocol
SummaryPasses ==
  Atom(Protocol) \in F!Protocols =>
    F!EvalFilter(F!ParseFilter(<<Atom(Protocol)>>), layers)

\* What a phrase says of the frame, read off the wire.
Is(op, a, b) == IF op = "==" THEN a = b ELSE a # b
Says(phrase) ==
  LET field == Head(phrase)
      op    == phrase[2]
      value == phrase[3]
  IN CASE phrase = <<"tls">> ->
            \/ Has("client_hello")
            \/ Has("handshake")
       [] phrase = <<"ip">> -> Sees("ipv4") \/ Sees("ipv6")
       [] Len(phrase) = 1 -> Sees(field) \/ (field \notin DOMAIN Minimum /\ Has(field))
       [] field = "ip.src" ->
            (Sees("ipv4") \/ Sees("ipv6")) /\ Is(op, frame.src, value)
       [] field = "tcp.port" ->
            Sees("tcp") /\ (Is(op, frame.sport, value) \/ Is(op, frame.dport, value))
       [] field = "udp.dstport" -> Sees("udp") /\ Is(op, frame.dport, value)
       [] field = "arp.target.ip" -> Sees("arp") /\ Is(op, frame.dst, value)
       [] field = "icmp.type" -> Sees("icmp") /\ Is(op, frame.type, value)
       [] field = "tls.sni" ->
            Has("client_hello") /\ frame.name # None /\ Holds(frame.name, value)
       [] OTHER -> FALSE

\* A filter of one phrase selects the packets of which it is true on the wire,
\* a packet without the field never, not even by != (eval_filter,
\* filter/eval.rs:6-31, 54-135).  Addresses of IPv6 cannot be written: they are
\* read as strings, which no address equals.
FilterSelects ==
  what = None =>
    \A a \in Atoms : F!EvalFilter(F!ParseFilter(a), layers) <=> Says(a)

\* The meaning of a filter by its last operator outside parentheses: or binds
\* weaker than and, and weaker than not.
Outside(t, joint) ==
  {i \in DOMAIN t : t[i] = joint /\ Depth(SubSeq(t, 1, i)) = 0}
RECURSIVE Means(_)
Means(t) ==
  LET last(joint) == CHOOSE i \in Outside(t, joint) : \A j \in Outside(t, joint) : j <= i
      before(i)   == SubSeq(t, 1, i - 1)
      after(i)    == SubSeq(t, i + 1, Len(t))
  IN IF Outside(t, <<"or">>) # {}
     THEN Means(before(last(<<"or">>))) \/ Means(after(last(<<"or">>)))
     ELSE IF Outside(t, <<"and">>) # {}
     THEN Means(before(last(<<"and">>))) /\ Means(after(last(<<"and">>)))
     ELSE IF Head(t) = <<"not">> THEN ~Means(Tail(t))
     ELSE IF Head(t) = <<"(">> THEN Means(SubSeq(t, 2, Len(t) - 1))
     ELSE Says(Head(t))

\* A text is accepted exactly when it is a filter, and then selects what it
\* means: the usual precedence, parentheses, and nothing left over
\* (parse_filter, filter/parser.rs:13-68).
IsFilter(t) == Viable(t) /\ ~OperandDue(t) /\ Depth(t) = 0
ParsesByPrecedence ==
  LET e == F!ParseFilter(Words(text))
  IN IF IsFilter(text) THEN e # None /\ (F!EvalFilter(e, layers) <=> Means(text))
     ELSE e = None

\* A filter selects the packets that its words describe, each phrase by itself
\* and put together by precedence, and with them the packet whose own summary
\* shows the protocol it asks for (filter/parser.rs:13-68, filter/eval.rs:6-52).
FilterHolds == SummaryPasses /\ FilterSelects /\ ParsesByPrecedence
=============================================================================
