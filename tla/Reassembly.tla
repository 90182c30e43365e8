----------------------------- MODULE Reassembly -----------------------------
(***************************************************************************)
(* The reassembly of one direction of a TCP stream (flow/reassembly.rs)    *)
(* from segments that arrive in any order, repeated, overlapping or not at *)
(* all.  Sequence numbers wrap at Modulus (2^32 in the code) and are        *)
(* compared in half of that circle.  The byte at position i of the stream  *)
(* is i itself, so a byte out of its place shows.                          *)
(***************************************************************************)
EXTENDS Integers, Sequences, FiniteSets, Functions

CONSTANTS
  Modulus,     \* sequence numbers are taken modulo this
  Isn,        \* sequence number of the first byte of the stream
  StreamLen,  \* bound: bytes of the stream
  Cap,        \* MAX_STREAM_BUFFER
  NoSeq        \* an absent value

ASSUME ReassemblyAssumption ==
  /\ Modulus \in Nat \ {0}
  /\ Isn \in 0..(Modulus - 1)
  /\ StreamLen \in Nat /\ 2 * StreamLen < Modulus
  /\ Cap \in Nat
  /\ NoSeq \notin Int

VARIABLES
  pending,   \* contiguous bytes not drained yet
  segments,  \* later segments: a function from sequence numbers to bytes
  base,      \* sequence number of the first segment seen, or NoSeq
  nextSeq,   \* the next contiguous sequence number
  total,     \* total_buffered
  fin,       \* a FIN was seen
  capped,    \* the cap was reached
  drained,   \* history: the bytes drained so far
  arrived    \* history: the segments that arrived

reassembly == <<pending, segments, base, nextSeq, total, fin, capped, drained, arrived>>

-----------------------------------------------------------------------------
Seqs  == 0..(Modulus - 1)
Bytes == 1..StreamLen

\* A segment: the bytes from first to last.  An empty one is returned as it
\* comes (insert_segment's first test) and changes nothing.
Segments == {s \in [first : Bytes, last : Bytes] : s.first <= s.last}

\* wrapping_add, and the serial-number order.
Advance(seq, n) == (seq + n) % Modulus
SeqLt(a, b)     == 2 * ((a - b) % Modulus) >= Modulus

SeqNum(s)  == Advance(Isn, s.first - 1)
DataOf(s) == [i \in 1..(s.last - s.first + 1) |-> s.first + i - 1]

ReassemblyInit ==
  /\ pending = << >>
  /\ segments = << >>
  /\ base = NoSeq
  /\ nextSeq = 0
  /\ total = 0
  /\ fin = FALSE
  /\ capped = FALSE
  /\ drained = << >>
  /\ arrived = {}

\* The first segment anchors the stream.
Expected(s) == IF base = NoSeq THEN SeqNum(s) ELSE nextSeq

\* The segment lies before what is expected next.
Old(s) == ~SeqLt(Expected(s), Advance(SeqNum(s), Len(DataOf(s))))

\* What is left of it without the bytes before that.
Fresh_Whole(s) ==
  [seq |-> IF SeqLt(SeqNum(s), Expected(s)) THEN Expected(s) ELSE SeqNum(s),
   data |-> DataOf(s)]
Fresh(s) ==
  IF SeqLt(SeqNum(s), Expected(s))
  THEN [seq |-> Expected(s),
        data |-> SubSeq(DataOf(s), 1 + ((Expected(s) - SeqNum(s)) % Modulus), Len(DataOf(s)))]
  ELSE [seq |-> SeqNum(s), data |-> DataOf(s)]

Fits(s) == ~capped /\ total + Len(Fresh(s).data) <= Cap

\* A buffer state after n more buffered segments that have become adjacent
\* moved behind the contiguous bytes, or as many as there are.
Move(b) ==
  IF b.next \in DOMAIN b.segments
  THEN LET data == b.segments[b.next]
       IN [pending  |-> b.pending \o data,
           next     |-> Advance(b.next, Len(data)),
           segments |-> Restrict(b.segments, DOMAIN b.segments \ {b.next})]
  ELSE b
Pulled_Once(b) == Move(b)
Pulled(b) ==
  LET after[n \in Nat] == IF n = 0 THEN b ELSE Move(after[n - 1])
  IN after[Cardinality(DOMAIN b.segments)]

-----------------------------------------------------------------------------
\* insert_segment, by what it returns.
Arrive(s) ==
  /\ base' = IF base = NoSeq THEN SeqNum(s) ELSE base
  /\ arrived' = arrived \cup {s}
  /\ UNCHANGED <<fin, drained>>

\* Duplicate: all of it was delivered, or came before the anchor.
Ignore(s) ==
  /\ Old(s)
  /\ Arrive(s)
  /\ UNCHANGED <<pending, segments, nextSeq, total, capped>>

\* Capped: from here on nothing is stored.
Refuse(s) ==
  /\ ~Old(s)
  /\ ~Fits(s)
  /\ Arrive(s)
  /\ nextSeq' = Expected(s)
  /\ capped' = TRUE
  /\ UNCHANGED <<pending, segments, total>>

\* Contiguous: it is appended, with the buffered segments it makes adjacent.
Deliver(s) ==
  LET f == Fresh(s)
      b == Pulled([pending  |-> pending \o f.data,
                   next     |-> Advance(Expected(s), Len(f.data)),
                   segments |-> segments])
  IN /\ ~Old(s)
     /\ Fits(s)
     /\ f.seq = Expected(s)
     /\ Arrive(s)
     /\ pending' = b.pending
     /\ nextSeq' = b.next
     /\ segments' = b.segments
     /\ total' = total + Len(f.data)
     /\ UNCHANGED capped

\* Gap: it is buffered, unless a segment with its sequence number is
\* (Duplicate).
Hold(s) ==
  LET f == Fresh(s)
  IN /\ ~Old(s)
     /\ Fits(s)
     /\ f.seq # Expected(s)
     /\ Arrive(s)
     /\ IF f.seq \in DOMAIN segments
        THEN UNCHANGED <<segments, total>>
        ELSE /\ segments' = [q \in DOMAIN segments \cup {f.seq} |->
                               IF q = f.seq THEN f.data ELSE segments[q]]
             /\ total' = total + Len(f.data)
     /\ UNCHANGED <<pending, nextSeq, capped>>

TryDrain ==
  /\ pending # << >>
  /\ drained' = drained \o pending
  /\ total' = total - Len(pending)
  /\ pending' = << >>
  /\ UNCHANGED <<segments, base, nextSeq, fin, capped, arrived>>

MarkFin ==
  /\ fin' = TRUE
  /\ UNCHANGED <<pending, segments, base, nextSeq, total, capped, drained, arrived>>

ReassemblyNext ==
  \/ \E s \in Segments : Ignore(s) \/ Refuse(s) \/ Deliver(s) \/ Hold(s)
  \/ TryDrain
  \/ MarkFin

ReassemblySpec == ReassemblyInit /\ [][ReassemblyNext]_reassembly

\* is_complete.
IsComplete == fin /\ segments = << >>

-----------------------------------------------------------------------------
\* Every variable has its type; sequence numbers stay inside their width.
TypeOK ==
  /\ pending \in Seq(Bytes) /\ drained \in Seq(Bytes)
  /\ DOMAIN segments \subseteq Seqs
  /\ \A q \in DOMAIN segments : segments[q] \in Seq(Bytes) \ {<< >>}
  /\ base \in Seqs \cup {NoSeq}
  /\ nextSeq \in Seqs
  /\ total \in Nat
  /\ fin \in BOOLEAN /\ capped \in BOOLEAN
  /\ arrived \subseteq Segments

Delivered == drained \o pending

\* What is delivered is the stream from its anchor on, without a gap, a
\* repetition or a byte out of place, whatever arrives and wherever the
\* numbers wrap (insert_segment, reassembly.rs:48-104).
InOrder ==
  \A i \in DOMAIN Delivered : Advance(Isn, Delivered[i] - 1) = Advance(base, i - 1)

\* The bytes that wait behind a gap.
Buffered(ss) == UNION {{q} \X DOMAIN ss[q] : q \in DOMAIN ss}

\* The count that the cap is compared with is the number of bytes held, and it
\* never exceeds the cap (reassembly.rs:76-96, 107-113).
Accounted ==
  /\ total = Len(pending) + Cardinality(Buffered(segments))
  /\ total <= Cap

\* The buffer between two segments: the stream as far as it was delivered, and
\* the rest of it counted (ReassemblyBuffer, reassembly.rs:48-113).
StreamExact == TypeOK /\ InOrder /\ Accounted

\* A stream is cut into segments once: of two that arrived, they are the same
\* or have no byte in common, and none came before the anchor.
Positions(s) == s.first .. s.last
CleanCut ==
  /\ \A s, t \in arrived : s = t \/ Positions(s) \cap Positions(t) = {}
  /\ \A s \in arrived : ~SeqLt(SeqNum(s), base)

\* Of a stream whose segments are reordered and repeated but never cut anew,
\* every byte that can be delivered is, and is_complete says exactly that no
\* byte that arrived waits behind a gap.
NothingWaits ==
  CleanCut /\ ~capped =>
    LET got == UNION {Positions(s) : s \in arrived}
        had == {Delivered[i] : i \in DOMAIN Delivered}
    IN /\ \A p \in got : (p - 1 \in had => p \in had)
       /\ IsComplete <=> fin /\ had = got
=============================================================================
