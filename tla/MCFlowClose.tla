----------------------------- MODULE MCFlowClose -----------------------------
(***************************************************************************)
(* FlowWorker under TCP conversations that follow the protocol: each end   *)
(* sends a FIN once, the FIN that comes second is acknowledged by the      *)
(* other end, and a connection is over with that acknowledgement or with a *)
(* RST.  The next packet of its 5-tuple opens a new one.                   *)
(***************************************************************************)
EXTENDS MCFlowWorker

VARIABLE tcp  \* of each key: [state, end], the end that sent the first FIN

closeVars == <<workerVars, tcp>>

\* What the peers of k may put on the wire, and the conversation after it.
TcpStep(k, dir, kind) ==
  LET c == tcp[k]
      to(state, end) == tcp' = [tcp EXCEPT ![k] = [state |-> state, end |-> end]]
  IN \/ kind = "data" /\ c.state \in {"none", "over"} /\ to("open", None)
     \/ kind = "data" /\ c.state = "open" /\ UNCHANGED tcp
     \/ kind = "fin" /\ c.state = "open" /\ to("half", dir)
     \/ kind = "data" /\ c.state = "half" /\ dir # c.end /\ UNCHANGED tcp
     \/ kind = "fin" /\ c.state = "half" /\ dir # c.end /\ to("closing", c.end)
     \/ kind = "data" /\ c.state = "closing" /\ dir = c.end /\ to("over", None)
     \/ kind = "rst" /\ c.state \in {"open", "half"} /\ to("over", None)

CloseInit == WorkerInit /\ tcp = [k \in Keys |-> [state |-> "none", end |-> None]]

CloseNext ==
  \/ \E k \in Keys, dir \in Dirs, kind \in Kinds :
        ReceivePacket(k, dir, kind) /\ TcpStep(k, dir, kind)
  \/ wpc # "recv" /\ Worker /\ UNCHANGED tcp
  \/ Idle /\ UNCHANGED tcp

CloseSpec == CloseInit /\ [][CloseNext]_closeVars

\* "Live (currently active) connection table" (server.rs:15): between two
\* packets, a TCP connection that is over is not in it.
LiveIsActive == Quiet => \A k \in DOMAIN live : tcp[k].state # "over"
=============================================================================
