---------------------------- MODULE MCFlowWorker ----------------------------
(***************************************************************************)
(* Small instances of FlowWorker.                                          *)
(***************************************************************************)
EXTENDS FlowWorker

CONSTANTS k1, k2, k3

OneKey == {k1}

\* A flow with its local end low, one with it high, and one between two ends
\* of the host itself.
MixedEnds == [k \in Keys |-> IF k = k1 THEN {"low"} ELSE IF k = k2 THEN {"high"} ELSE {"low", "high"}]
=============================================================================
