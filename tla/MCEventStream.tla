--------------------------- MODULE MCEventStream ---------------------------
(***************************************************************************)
(* Two families of behaviours of one instance of EventStream.  In the      *)
(* first, the worker alone, with three flows and a store error; in the     *)
(* second, an inspector that attaches to a worker with a single flow.      *)
(***************************************************************************)
EXTENDS EventStream

CONSTANTS k1, k2, k3

\* A flow with its local end low, one with it high, and one between two ends
\* of the host itself.
MixedEnds == [k \in Keys |-> IF k = k1 THEN {"low"} ELSE IF k = k2 THEN {"high"} ELSE {"low", "high"}]

VARIABLE family

Alone == family = "worker" /\ Worker /\ UNCHANGED viewVars
Small == DOMAIN metas' \subseteq {k1} /\ Total' <= 2 /\ errors' = 0

MCInit == Init /\ family \in {"worker", "view"}
MCNext == (Alone \/ (family = "view" /\ Next /\ Small)) /\ UNCHANGED family
MCSpec ==
  /\ MCInit /\ [][MCNext]_<<vars, family>>
  /\ WF_vars(family = "view" /\ wpc # "recv" /\ Produce /\ Small)
  /\ WF_vars(family = "view" /\ Attach) /\ WF_vars(family = "view" /\ Subscribe)
  /\ WF_vars(family = "view" /\ Forward) /\ WF_vars(family = "view" /\ Drain)
  /\ WF_vars(family = "view" /\ Install)
=============================================================================
