---------------------------- MODULE MCCaptureView ----------------------------
(***************************************************************************)
(* The capture view over the segments of one conversation and datagrams,   *)
(* with a filter that is typed and one that is recalled by its name.       *)
(***************************************************************************)
EXTENDS CaptureView

MCKinds == {"segment", "datagram"}
MCConversation(k) == IF k = "datagram" THEN None ELSE "conversation"

MCFilters == {"tcp", "udp"}
MCMatches(f, k) == (f = "tcp") <=> (k # "datagram")
MCParse(text) ==
  IF text = <<"t">> THEN "tcp" ELSE IF text = <<":", "t">> THEN "udp" ELSE None

MCPatterns == {{"segment"}}
MCChars == {"t", ":", "wide"}
MCWidth(c) == IF c = "wide" THEN 2 ELSE 1
=============================================================================
