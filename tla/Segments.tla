------------------------------ MODULE Segments ------------------------------
(***************************************************************************)
(* One direction of a TCP flow as its two readers see it: the flow tracker *)
(* marks retransmissions as the packets come (flow/tracker.rs), and a      *)
(* stream that is followed is put together from the same segments          *)
(* (flow/reassembly.rs).                                                   *)
(***************************************************************************)
EXTENDS Reassembly

VARIABLE maxSeq  \* max_seq_low or max_seq_high: a sequence number, or NoSeq

tracked == <<reassembly, maxSeq>>

\* The end of a segment for the tracker, which adds in 64 bits and does not
\* wrap, unlike Advance.
SeqEnd(s) == SeqNum(s) + Len(DataOf(s))

IsRetransmission_Strictly(s) == IF maxSeq = NoSeq THEN FALSE ELSE SeqEnd(s) < maxSeq
IsRetransmission(s) == IF maxSeq = NoSeq THEN FALSE ELSE SeqEnd(s) <= maxSeq

\* The tracker's part of FlowTracker::update.
Mark(s) == maxSeq' = IF IsRetransmission(s) THEN maxSeq ELSE SeqEnd(s)

SegmentsInit == ReassemblyInit /\ maxSeq = NoSeq

SegmentsNext ==
  \/ \E s \in Segments : (Ignore(s) \/ Refuse(s) \/ Deliver(s) \/ Hold(s)) /\ Mark(s)
  \/ (TryDrain \/ MarkFin) /\ UNCHANGED maxSeq

SegmentsSpec == SegmentsInit /\ [][SegmentsNext]_tracked

\* No segment starts behind the wrap of the sequence numbers.
Unwrapped(ss) == \A s \in ss : SeqNum(s) >= Isn

\* A segment that came before is marked when it comes again, always.  Before the
\* numbers wrap, a segment is marked exactly when it ends no later than something
\* that came, and so is every segment that the followed stream drops as a
\* duplicate; what arrives late is marked too.  Behind the wrap even new data is
\* marked (tracker.rs:91-103).
MarksOldData ==
  \A s \in Segments :
    /\ s \in arrived => IsRetransmission(s)
    /\ Unwrapped(arrived \cup {s}) /\ arrived # {} =>
         /\ IsRetransmission(s) <=> \E t \in arrived : s.last <= t.last
         /\ Old(s) => IsRetransmission(s)
=============================================================================
