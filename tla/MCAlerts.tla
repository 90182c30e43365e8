------------------------------ MODULE MCAlerts ------------------------------
(***************************************************************************)
(* Two families of behaviours of one instance.  In the first, known ends   *)
(* of one organisation in two countries, and a death of the daemon, but no *)
(* spike and no statement that fails; in the second, an end without a      *)
(* country, a binary that changes, spikes, and a statement that fails.     *)
(***************************************************************************)
EXTENDS MCAlertEngine

VARIABLE family

MCObs == TwoEnds \cup OneEnd

Concerns(e, ends) == e # None => e.obs \in ends
InFamily ==
  /\ family = "novelty" =>
       /\ Concerns(ev', TwoEnds) /\ (ev' # None => ev'.ident = None)
       /\ (due' # None => due'[1] # "volume")
       /\ faults'.fails = 0
  /\ family = "identity" => Concerns(ev', OneEnd) /\ faults'.crashes = 0

MCInit == Init /\ family \in {"novelty", "identity"}
MCNext == Next /\ InFamily /\ UNCHANGED family
MCSpec ==
  /\ MCInit /\ [][MCNext]_<<vars, family>>
  /\ WF_vars(Worker /\ InFamily)
  /\ WF_vars(Arrive /\ InFamily)
  /\ SF_vars(Arrive /\ now' > now /\ InFamily)
=============================================================================
