------------------------------ MODULE MCDaemon ------------------------------
(***************************************************************************)
(* Two families of behaviours of one instance of Daemon.  In the first, a  *)
(* single daemon with two clients, a channel that fills, and a failure; in *)
(* the second, two daemons, one of which may be killed, without traffic.   *)
(***************************************************************************)
EXTENDS Daemon

CONSTANTS d1, d2, c1, c2

VARIABLE family

InFamily ==
  /\ family = "one" => main'[d2] = "new" /\ ~stop'[d2] /\ killed' = {}
  /\ family = "two" => fails' = 0 /\ packets' = 0 /\ \A c \in Clients : client'[c].state = "idle"

\* The second daemon is never started.
Alone == family = "one" /\ main[d1] = "exited" /\ UNCHANGED <<vars, family>>

MCInit == Init /\ family \in {"one", "two"}
MCNext == (Next /\ InFamily /\ UNCHANGED family) \/ Alone
MCSpec ==
  /\ MCInit /\ [][MCNext]_<<vars, family>>
  /\ \A d \in Daemons :
       /\ WF_vars(Main(d) /\ InFamily)
       /\ WF_vars(Capture(d) /\ InFamily)
       /\ WF_vars(Server(d) /\ InFamily)
  /\ \A c \in Clients : WF_vars(Handler(c) /\ InFamily)
=============================================================================
