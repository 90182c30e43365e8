------------------------------- MODULE Filter -------------------------------
(***************************************************************************)
(* Display filters (filter/ast.rs, parser.rs, eval.rs): the recursive      *)
(* descent parser over words, and the evaluation of an expression over the *)
(* layers of a packet.                                                     *)
(*                                                                         *)
(* A text is a sequence of words.  A layer is a record with its kind and   *)
(* the values of its fields by their paths.                                *)
(***************************************************************************)
EXTENDS Integers, Sequences

CONSTANTS
  Fields,      \* words that are identifiers with a dot between them
  ValueOf(_),  \* filter_value: an address, an integer or a string
  Holds(_, _), \* str::contains: does a string contain a pattern
  None         \* an absent value

Protocols == {"icmpv6", "icmp", "ipv6", "ipv4", "eth", "tcp", "udp", "arp", "dns",
              "tls", "ip"}

Failed == [ok |-> FALSE, expr |-> None, rest |-> << >>]
Parsed(e, rest) == [ok |-> TRUE, expr |-> e, rest |-> rest]

HeadIn(words, set) == words # << >> /\ Head(words) \in set

\* The first words are a field, one of ops, and a value: any word but ")".
IsPhrase(words, ops) ==
  /\ Len(words) >= 3
  /\ words[1] \in Fields /\ words[2] \in ops /\ words[3] # ")"

Contains(words) ==
  Parsed([op |-> "contains", field |-> words[1], value |-> words[3]],
         SubSeq(words, 4, Len(words)))

Comparison(words) ==
  Parsed([op |-> words[2], field |-> words[1], value |-> ValueOf(words[3])],
         SubSeq(words, 4, Len(words)))

Present(words) == Parsed([op |-> "present", protocol |-> Head(words)], Tail(words))

RECURSIVE Expr(_), Ors(_, _), AndTerm(_), Ands(_, _), Unary(_)

Atom(words) ==
  LET inner == IF HeadIn(words, {"("}) THEN Expr(Tail(words)) ELSE Failed
  IN IF inner.ok /\ HeadIn(inner.rest, {")"}) THEN Parsed(inner.expr, Tail(inner.rest))
     ELSE IF IsPhrase(words, {"contains"}) THEN Contains(words)
     ELSE IF IsPhrase(words, {"==", "!="}) THEN Comparison(words)
     ELSE IF HeadIn(words, Protocols) THEN Present(words)
     ELSE Failed

Unary_Greedy(words) ==
  LET inner == IF HeadIn(words, {"not", "!"}) THEN AndTerm(Tail(words)) ELSE Failed
  IN IF inner.ok THEN Parsed([op |-> "not", arg |-> inner.expr], inner.rest)
     ELSE Atom(words)
Unary(words) ==
  LET inner == IF HeadIn(words, {"not", "!"}) THEN Unary(Tail(words)) ELSE Failed
  IN IF inner.ok THEN Parsed([op |-> "not", arg |-> inner.expr], inner.rest)
     ELSE Atom(words)

\* many0, folded from the left: as many terms as follow; what cannot be parsed
\* is left in the rest.
Ands(left, words) ==
  LET right == IF HeadIn(words, {"&&", "and"}) THEN Unary(Tail(words)) ELSE Failed
  IN IF right.ok
     THEN Ands([op |-> "and", left |-> left, right |-> right.expr], right.rest)
     ELSE Parsed(left, words)
AndTerm(words) ==
  LET first == Unary(words) IN IF first.ok THEN Ands(first.expr, first.rest) ELSE Failed

Ors(left, words) ==
  LET right == IF HeadIn(words, {"||", "or"}) THEN AndTerm(Tail(words)) ELSE Failed
  IN IF right.ok
     THEN Ors([op |-> "or", left |-> left, right |-> right.expr], right.rest)
     ELSE Parsed(left, words)
Expr(words) ==
  LET first == AndTerm(words) IN IF first.ok THEN Ors(first.expr, first.rest) ELSE Failed

\* parse_filter: the whole text is one expression.
ParseFilter(words) ==
  LET e == Expr(words) IN IF e.ok /\ e.rest = << >> THEN e.expr ELSE None

-----------------------------------------------------------------------------
\* The layers that a protocol atom stands for.
LayersOf(protocol) ==
  CASE protocol = "eth" -> {"ethernet"}
    [] protocol = "ip"  -> {"ipv4", "ipv6"}
    [] protocol = "tls" -> {"client_hello", "handshake"}
    [] OTHER            -> {protocol}

HasProtocol(protocol, layers) ==
  \E i \in DOMAIN layers : layers[i].kind \in LayersOf(protocol)

\* The value of a field in the first layer that has it, which may be none.
ExtractField(field, layers) ==
  LET having == {i \in DOMAIN layers : field \in DOMAIN layers[i].values}
  IN IF having = {} THEN None
     ELSE layers[CHOOSE i \in having : \A j \in having : i <= j].values[field]

Compare(left, op, right) == IF op = "==" THEN left = right ELSE left # right

\* tcp.port and udp.port stand for either port.
PortFields(field) ==
  IF field = "tcp.port" THEN {"tcp.srcport", "tcp.dstport"}
  ELSE {"udp.srcport", "udp.dstport"}
MatchPortEither(field, layers, op, value) ==
  \E f \in PortFields(field) :
    ExtractField(f, layers) # None /\ Compare(ExtractField(f, layers), op, value)

RECURSIVE EvalFilter(_, _)
EvalFilter(e, layers) ==
  CASE e.op = "present"  -> HasProtocol(e.protocol, layers)
    [] e.op = "and"      -> EvalFilter(e.left, layers) /\ EvalFilter(e.right, layers)
    [] e.op = "or"       -> EvalFilter(e.left, layers) \/ EvalFilter(e.right, layers)
    [] e.op = "not"      -> ~EvalFilter(e.arg, layers)
    [] e.op = "contains" ->
         LET v == ExtractField(e.field, layers)
         IN v # None /\ v.type = "string" /\ Holds(v.is, e.value)
    [] OTHER ->
         IF e.field \in {"tcp.port", "udp.port"}
         THEN MatchPortEither(e.field, layers, e.op, e.value)
         ELSE LET v == ExtractField(e.field, layers)
              IN v # None /\ Compare(v, e.op, e.value)
=============================================================================
