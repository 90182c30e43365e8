----------------------------- MODULE MCDecoding -----------------------------
(***************************************************************************)
(* Everything between the bytes of a capture and what is shown of them.  A *)
(* behaviour takes one frame apart and filters it (MCDisplay), or gives    *)
(* one of the message parsers a growing input (MCParsers), or follows one  *)
(* direction of a stream (Segments).                                       *)
(***************************************************************************)
EXTENDS MCDisplay, MCParsers, Segments

NoMessage == kind = "none" /\ data = << >>
NoFrame ==
  /\ frame = Arp /\ captured = 0 /\ what = None /\ offset = 0 /\ layers = << >>
  /\ text = << >>

MCInit ==
  \/ DisplayInit /\ NoMessage /\ SegmentsInit
  \/ ParsersInit /\ NoFrame /\ SegmentsInit
  \/ kind = "stream" /\ data = << >> /\ NoFrame /\ SegmentsInit

MCNext ==
  \/ kind = "none" /\ DisplayNext /\ UNCHANGED <<parsed, tracked>>
  \/ kind \in Formats /\ ParsersNext /\ UNCHANGED <<vars, text, tracked>>
  \/ kind = "stream" /\ SegmentsNext /\ UNCHANGED <<vars, text, parsed>>

MCSpec == MCInit /\ [][MCNext]_<<vars, text, parsed, tracked>>
=============================================================================
