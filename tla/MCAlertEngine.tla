--------------------------- MODULE MCAlertEngine ---------------------------
(***************************************************************************)
(* Small instances of AlertEngine.                                         *)
(***************************************************************************)
EXTENDS AlertEngine

CONSTANTS org, h1, h2

\* Two remote ends of one organisation in two countries; the second has no
\* ASN entry.
TwoEnds ==
  {[ip |-> "ip1", label |-> org, country |-> "A", asn |-> "as1"],
   [ip |-> "ip2", label |-> org, country |-> "B", asn |-> None]}

\* One end that enrichment knows only by its name.
OneEnd == {[ip |-> "ip1", label |-> org, country |-> None, asn |-> None]}

Hash(h, status) ==
  [kind |-> "sha256", value |-> h, team |-> None, signing |-> None,
   status |-> status]

\* A program before and after its file changed.
TwoHashes == {Hash(h1, Valid), Hash(h2, Valid)}

\* The same, and the file while it cannot be read (identity.rs, unreadable).
WithUnreadable == TwoHashes \cup {Hash("", Unreadable)}
=============================================================================
