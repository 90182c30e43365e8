-------------------------- MODULE NoveltyContract --------------------------
(***************************************************************************)
(* What the alert engine promises of one novelty (a process, or a label, a *)
(* country or an ASN of a process), free of tables and statements.  The    *)
(* first sighting decides: it goes into the baseline in silence, or it is  *)
(* detected; a detected novelty is reported, or lost to a fault and then   *)
(* part of the baseline.  Both ends are final.                             *)
(***************************************************************************)
CONSTANT Novelty

VARIABLES active,  \* the baseline is active
          status   \* of each novelty

Init ==
  /\ active = FALSE
  /\ status = [n \in Novelty |-> "unseen"]

Activate ==
  /\ ~active
  /\ \A n \in Novelty : status[n] \in {"unseen", "baseline"}
  /\ active' = TRUE
  /\ UNCHANGED status

Move(n, from, to) ==
  /\ status[n] = from
  /\ status' = [status EXCEPT ![n] = to]
  /\ UNCHANGED active

Learn(n) == Move(n, "unseen", "baseline")

\* One alert is in the making at a time.
Detect(n) ==
  /\ active
  /\ \A m \in Novelty : status[m] # "pending"
  /\ Move(n, "unseen", "pending")

Report(n) == Move(n, "pending", "alerted")

Lose(n) == Move(n, "pending", "baseline")

Next ==
  \/ Activate
  \/ \E n \in Novelty : Learn(n) \/ Detect(n) \/ Report(n) \/ Lose(n)

Spec == Init /\ [][Next]_<<active, status>>
=============================================================================
