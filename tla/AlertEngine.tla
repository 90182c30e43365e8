---------------------------- MODULE AlertEngine ----------------------------
(***************************************************************************)
(* The alert engine (alert/detectors.rs, alert/baseline.rs) over the       *)
(* SQLite store (store/mod.rs), as the daemon's worker drives it           *)
(* (monitor/correlate.rs).                                                 *)
(*                                                                         *)
(* evaluate_full runs once per packet that belongs to a flow.  Every store *)
(* call in it is an autocommit of its own, so the unit of a step here is   *)
(* one statement: pc names the next one, and between any two of them a     *)
(* statement may fail (the ? operator abandons the evaluation) or the      *)
(* daemon may die.  The store survives both; the alerts collected so far   *)
(* and the rest of the evaluation do not.                                  *)
(***************************************************************************)
EXTENDS Identity, Integers, FiniteSets

CONSTANTS
  Exe,            \* processes.exe_path: the executables seen on the host
  NoProc,         \* the socket's owner was not found
  Obs,            \* what enrichment may say of a remote end: a set of records
                  \* [ip, label, country, asn]
  Idents,         \* the identities an executable may have (Identity.tla)
  None,           \* an absent value
  Window,         \* learning_window, in ticks of the packets' clock
  Cooldown,       \* cooldown, in ticks
  Interval,       \* volume_interval, in ticks
  MinSamples,     \* volume_min_samples
  MaxTime,        \* bound: the last packet timestamp
  MaxFails,       \* bound: statements that return an error
  MaxCrashes      \* bound: deaths of the daemon

\* The novelty tables, by the signal each one drives: processes (2),
\* process_labels (1), process_countries and process_asns (3).
Signals == {"egress", "label", "country", "asn"}

\* The statements after ensure_started, and the one that follows each.
Following == [dest |-> "egress", egress |-> "identity",
              identity |-> "current", current |-> "label", label |-> "pair",
              pair |-> "country", country |-> "asn", asn |-> "volume",
              volume |-> "return"]

\* What an alert of each signal may be about, besides the process.
Values == [egress   |-> {None},
           label    |-> {o.label : o \in Obs},
           country  |-> {o.country : o \in Obs} \ {None},
           asn      |-> {o.asn : o \in Obs} \ {None},
           identity |-> {i.value : i \in Idents},
           volume   |-> {None}]
Keys == UNION {{s} \X Exe \X Values[s] : s \in DOMAIN Values}

\* FlowEvent, as far as the detectors read it.
Events == [exe : Exe \cup {NoProc}, outbound : BOOLEAN,
           ident : Idents \cup {None}, obs : Obs]

Times == 0..MaxTime
Ips   == {o.ip : o \in Obs}

\* The cooldown is positive (AlertConfig::default): with none, one evaluation
\* could insert a row twice, which a set of alerts does not tell apart.
ASSUME TimeAssumption ==
  /\ Window \in Nat
  /\ Cooldown \in Nat \ {0}
  /\ Interval \in Nat
  /\ MinSamples \in Nat
  /\ MaxTime \in Nat
  /\ MaxFails \in Nat
  /\ MaxCrashes \in Nat

ASSUME NoneAssumption ==
  /\ None \notin {"learning", "active"} \cup Nat \cup Idents \cup Events \cup Keys
  /\ NoProc \notin Exe

VARIABLES
  meta,       \* table meta: the learning window
  seen,       \* the novelty tables: what is recorded of each process
  cur,        \* processes.cur_identity_id, joined with binary_identities
  rows,       \* table binary_identities
  dests,      \* table destinations
  pairs,      \* table process_dest_pairs
  vol,        \* table volume_stats
  alerts,     \* table alerts
  now,        \* timestamp of the last packet
  pc,         \* the next statement of the evaluation, "idle" between two
  ev,         \* the FlowEvent being evaluated
  due,        \* dedup key of the alert about to be inserted, or None
  out,        \* the alerts Vec of the evaluation
  announced,  \* alerts broadcast on the bus and handed to the notifier
  faults      \* [fails, crashes] so far

store == <<meta, seen, cur, rows, dests, pairs, vol, alerts>>
vars  == <<store, now, pc, ev, due, out, announced, faults>>

-----------------------------------------------------------------------------
\* The dedup key of an alert: Alert.dedup_key.
Key(signal, exe, value) == <<signal, exe, value>>

\* What the event shows in a signal's table; label is stable_label.
Shown(signal) ==
  [egress |-> None, label |-> ev.obs.label, country |-> ev.obs.country,
   asn |-> ev.obs.asn][signal]

Active == meta.state = "active"

Init ==
  /\ meta = [state |-> None, started |-> None, ends |-> None]
  /\ seen = [s \in Signals |-> {}]
  /\ cur = [e \in Exe |-> None]
  /\ rows = [e \in Exe |-> {}]
  /\ dests = {}
  /\ pairs = {}
  /\ vol = [e \in Exe |-> None]
  /\ alerts = {}
  /\ now = 0
  /\ pc = "idle"
  /\ ev = None
  /\ due = None
  /\ out = {}
  /\ announced = {}
  /\ faults = [fails |-> 0, crashes |-> 0]

-----------------------------------------------------------------------------
\* A packet of a flow reaches handle_update.  An executable without a path has
\* no identity, and without a process there is none either.
Arrive ==
  /\ pc = "idle"
  /\ \E t \in now..MaxTime, e \in Events :
        /\ e.exe = NoProc => e.ident = None
        /\ now' = t
        /\ ev' = e
  /\ pc' = "start"
  /\ UNCHANGED <<store, due, out, announced, faults>>

\* The learning window is over, as far as its recorded end says.
WindowOver_NoEnd == meta.ends = None \/ now >= meta.ends
WindowOver_OnTheDot == meta.ends # None /\ now = meta.ends
WindowOver == meta.ends # None /\ now >= meta.ends

\* ensure_started, one meta_set at a time.
Start ==
  /\ pc = "start"
  /\ IF meta.state = None
     THEN meta' = [meta EXCEPT !.state = "learning"] /\ pc' = "started"
     ELSE UNCHANGED meta /\ pc' = "promote"
  /\ UNCHANGED <<seen, cur, rows, dests, pairs, vol, alerts, now, ev, due, out,
                 announced, faults>>

SetStarted ==
  /\ pc = "started"
  /\ meta' = [meta EXCEPT !.started = now]
  /\ pc' = "ends"
  /\ UNCHANGED <<seen, cur, rows, dests, pairs, vol, alerts, now, ev, due, out,
                 announced, faults>>

SetEnds ==
  /\ pc = "ends"
  /\ meta' = [meta EXCEPT !.ends = now + Window]
  /\ pc' = "promote"
  /\ UNCHANGED <<seen, cur, rows, dests, pairs, vol, alerts, now, ev, due, out,
                 announced, faults>>

Promote ==
  /\ pc = "promote"
  /\ meta' = IF meta.state = "learning" /\ WindowOver
             THEN [meta EXCEPT !.state = "active"]
             ELSE meta
  /\ pc' = "dest"
  /\ UNCHANGED <<seen, cur, rows, dests, pairs, vol, alerts, now, ev, due, out,
                 announced, faults>>

\* upsert_destination (record_name writes a log nothing here reads).  Without
\* a process the evaluation is over.
Upserted == dests \cup {ev.obs.ip}

Destination ==
  /\ pc = "dest"
  /\ dests' = Upserted
  /\ pc' = IF ev.exe = NoProc THEN "return" ELSE Following[pc]
  /\ UNCHANGED <<meta, seen, cur, rows, pairs, vol, alerts, now, ev, due, out,
                 announced, faults>>

Shows(signal) == signal = "egress" \/ Shown(signal) # None
Entry(signal) == <<ev.exe, Shown(signal)>>

\* The INSERT OR IGNORE of a novelty table, and whether it inserted a row.
Noted_LearningOnly(signal) ==
  IF Active THEN seen ELSE [seen EXCEPT ![signal] = @ \cup {Entry(signal)}]
Noted(signal) == [seen EXCEPT ![signal] = @ \cup {Entry(signal)}]

Fresh_Replace(signal) == Entry(signal) \in Exe \X Values[signal]
Fresh(signal) == Entry(signal) \notin seen[signal]

\* upsert_process, note_label, note_country and note_asn: record what the
\* event shows and, on an active baseline, raise the first sighting of it by
\* an outbound flow.  An event without a country or an ASN shows nothing.
Note(signal) ==
  /\ pc = signal
  /\ due = None
  /\ seen' = IF Shows(signal) THEN Noted(signal) ELSE seen
  /\ due' = IF Shows(signal) /\ Fresh(signal) /\ Active /\ ev.outbound
            THEN Key(signal, ev.exe, Shown(signal))
            ELSE None
  /\ pc' = Following[pc]
  /\ UNCHANGED <<meta, cur, rows, dests, pairs, vol, alerts, now, ev, out,
                 announced, faults>>

\* The row of binary_identities with the event's kind and value: INSERT OR
\* IGNORE keeps the first one recorded, with its team, signing id and status.
SameIdentity_Kind == {i \in rows[ev.exe] : i.kind = ev.ident.kind}
SameIdentity == {i \in rows[ev.exe] : i.kind = ev.ident.kind /\ i.value = ev.ident.value}

\* record_identity, its INSERT OR IGNORE.
RecordIdentity ==
  /\ pc = "identity"
  /\ due = None
  /\ rows' = IF ev.ident # None /\ SameIdentity = {}
             THEN [rows EXCEPT ![ev.exe] = @ \cup {ev.ident}]
             ELSE rows
  /\ pc' = Following[pc]
  /\ UNCHANGED <<meta, seen, cur, dests, pairs, vol, alerts, now, ev, due, out,
                 announced, faults>>

CurrentIdentity == cur[ev.exe]

\* record_identity, its UPDATE of cur_identity_id, and the comparison with the
\* identity current_identity read before it.
SetCurrent ==
  /\ pc = "current"
  /\ due = None
  /\ IF ev.ident = None
     THEN UNCHANGED <<cur, due>>
     ELSE /\ \E row \in SameIdentity : cur' = [cur EXCEPT ![ev.exe] = row]
          /\ due' = IF /\ Active /\ ev.outbound
                       /\ CurrentIdentity # None /\ ChangedSince(CurrentIdentity, ev.ident)
                    THEN Key("identity", ev.exe, ev.ident.value)
                    ELSE None
  /\ pc' = Following[pc]
  /\ UNCHANGED <<meta, seen, rows, dests, pairs, vol, alerts, now, ev, out,
                 announced, faults>>

\* touch_pair, between note_label and the alert for a new label.
TouchPair ==
  /\ pc = "pair"
  /\ pairs' = pairs \cup {<<ev.exe, ev.obs.ip>>}
  /\ pc' = Following[pc]
  /\ UNCHANGED <<meta, seen, cur, rows, dests, vol, alerts, now, ev, due, out,
                 announced, faults>>

\* The volume row of the executable, or the one update_volume would begin.
VolumeStat == IF vol[ev.exe] = None THEN [start |-> now, samples |-> 0]
                                    ELSE vol[ev.exe]

\* update_volume: a packet after the end of the interval closes it.
Closes == now - VolumeStat.start >= Interval
Updated ==
  IF Closes THEN [start |-> now, samples |-> VolumeStat.samples + 1]
            ELSE VolumeStat

\* Whether a closed interval is a spike (above the floor, and enough
\* deviations above the mean) is arithmetic this module leaves open.
Volume ==
  /\ pc = "volume"
  /\ due = None
  /\ vol' = [vol EXCEPT ![ev.exe] = Updated]
  /\ \E spike \in BOOLEAN :
       due' = IF Closes /\ Active /\ Updated.samples >= MinSamples /\ spike
              THEN Key("volume", ev.exe, None)
              ELSE None
  /\ pc' = Following[pc]
  /\ UNCHANGED <<meta, seen, cur, rows, dests, pairs, alerts, now, ev, out,
                 announced, faults>>

\* An alert with the same key in the last Cooldown ticks suppresses this one.
Suppressed_Volatile(key) == \E a \in out : a.key = key /\ now - a.ts < Cooldown
Suppressed(key) == \E a \in alerts : a.key = key /\ now - a.ts < Cooldown

\* emit and insert_alert.
Emit ==
  LET alert == [key |-> due, ts |-> now, dest |-> ev.obs.ip]
  IN /\ due # None
     /\ pc # "pair"
     /\ due' = None
     /\ IF Suppressed(due)
        THEN UNCHANGED <<alerts, out>>
        ELSE alerts' = alerts \cup {alert} /\ out' = out \cup {alert}
     /\ UNCHANGED <<meta, seen, cur, rows, dests, pairs, vol, now, pc, ev,
                    announced, faults>>

\* evaluate_full returned Ok: the worker broadcasts and notifies its alerts.
Return_KeepsVec ==
  /\ pc = "return"
  /\ due = None
  /\ announced' = announced \cup out
  /\ ev' = None
  /\ pc' = "idle"
  /\ UNCHANGED <<store, now, due, out, faults>>

Return ==
  /\ pc = "return"
  /\ due = None
  /\ announced' = announced \cup out
  /\ out' = {}
  /\ ev' = None
  /\ pc' = "idle"
  /\ UNCHANGED <<store, now, due, faults>>

-----------------------------------------------------------------------------
Abandon_KeepsEvent == pc' = "idle" /\ ev' = ev /\ due' = None /\ out' = {}
Abandon == pc' = "idle" /\ ev' = None /\ due' = None /\ out' = {}

\* A statement returned an error: ? abandons the evaluation and handle_update
\* drops the outcome, with the alerts it held.
Fail ==
  /\ pc # "idle"
  /\ pc # "return" \/ due # None
  /\ faults.fails < MaxFails
  /\ faults' = [faults EXCEPT !.fails = @ + 1]
  /\ Abandon
  /\ UNCHANGED <<store, now, announced>>

\* The daemon dies during an evaluation and is started again on its store.
Crash ==
  /\ pc # "idle"
  /\ faults.crashes < MaxCrashes
  /\ faults' = [faults EXCEPT !.crashes = @ + 1]
  /\ Abandon
  /\ UNCHANGED <<store, now, announced>>

Worker ==
  \/ Start \/ SetStarted \/ SetEnds \/ Promote \/ Destination
  \/ \E s \in Signals : Note(s)
  \/ RecordIdentity \/ SetCurrent \/ TouchPair \/ Volume \/ Emit \/ Return

Next == Arrive \/ Worker \/ Fail \/ Crash

Spec == Init /\ [][Next]_vars

\* The worker runs whenever it has a packet, packets keep arriving and their
\* timestamps advance.
FairSpec ==
  /\ Spec
  /\ WF_vars(Worker)
  /\ WF_vars(Arrive)
  /\ SF_vars(Arrive /\ now' > now)
-----------------------------------------------------------------------------
AlertRows == [key : Keys, ts : Times, dest : Ips]

\* Every variable has its type, and an evaluation has an event exactly between
\* Arrive and Return (one FlowEvent per evaluate_full call).
TypeOK ==
  /\ meta \in [state : {None, "learning", "active"}, started : Times \cup {None},
               ends : Nat \cup {None}]
  /\ DOMAIN seen = Signals
  /\ \A s \in Signals : seen[s] \subseteq Exe \X Values[s]
  /\ cur \in [Exe -> Idents \cup {None}]
  /\ rows \in [Exe -> SUBSET Idents]
  /\ dests \subseteq Ips
  /\ pairs \subseteq Exe \X Ips
  /\ vol \in [Exe -> [start : Times, samples : Nat] \cup {None}]
  /\ alerts \subseteq AlertRows
  /\ now \in Times
  /\ pc \in {"idle", "start", "started", "ends", "promote", "return",
            "dest", "egress", "identity", "current", "label", "pair",
            "country", "asn", "volume"}
  /\ ev \in Events \cup {None}
  /\ ev = None <=> pc = "idle"
  /\ pc \in DOMAIN Following \ {"dest"} => ev.exe # NoProc
  /\ due \in Keys \cup {None}
  /\ due # None => ev # None
  /\ out \subseteq AlertRows
  /\ announced \subseteq AlertRows
  /\ faults \in [fails : 0..MaxFails, crashes : 0..MaxCrashes]

\* The learning window is silent, and it is one window: whatever fails or
\* restarts, no alert is ever older than the first recorded start of the
\* window plus its length (ensure_started, baseline.rs:10-29).
LearningSilence ==
  \A a \in alerts :
     /\ meta.state = "active"
     /\ meta.started # None /\ meta.ends # None
     /\ meta.ends = meta.started + Window
     /\ a.ts >= meta.ends

\* Two alerts with one dedup key are at least a cooldown apart, across
\* restarts: the cooldown is durable (insert_alert, store/mod.rs:376-405).
CooldownSpacing ==
  \A a, b \in alerts : a.key = b.key /\ a.ts < b.ts => b.ts - a.ts >= Cooldown

\* A process, a label, a country or an ASN is new once: it raises at most one
\* alert in the lifetime of the store, however often the daemon dies between
\* recording it and alerting on it (detectors.rs:131-260).
NoveltyAlertsOnce ==
  \A a, b \in alerts : a.key = b.key /\ a.key[1] \in Signals => a = b

\* An alert row never precedes its evidence: the process, the destination and
\* the novelty or identity it reports are committed before it, so a crash at
\* any statement leaves no alert about something the store does not know.
AlertEvidence ==
  \A a \in alerts :
     LET signal == a.key[1]
         exe == a.key[2]
     IN /\ a.dest \in dests
        /\ <<exe, None>> \in seen["egress"]
        /\ signal \in Signals => <<exe, a.key[3]>> \in seen[signal]
        /\ signal = "identity" => \E i \in rows[exe] : i.value = a.key[3]

\* What reaches the bus and the notifier is durable and reaches them once; and
\* as long as no statement fails and the daemon does not die, every alert row
\* is announced or about to be (correlate.rs:153-166).
AnnouncedAlerts ==
  /\ out \subseteq alerts
  /\ announced \subseteq alerts
  /\ out \cap announced = {}
  /\ faults = [fails |-> 0, crashes |-> 0] => alerts = announced \cup out

\* The current identity of a process is one of its own rows, and every pair
\* joins a recorded process with a recorded destination (the foreign keys of
\* schema.rs hold at every statement, not only at the end of an evaluation).
References ==
  /\ \A e \in Exe : cur[e] # None => cur[e] \in rows[e]
  /\ \A p \in pairs : p[2] \in dests /\ <<p[1], None>> \in seen["egress"]
  /\ \A s \in Signals : \A p \in seen[s] : <<p[1], None>> \in seen["egress"]

\* The store can be read at any moment and after any crash: every row that
\* refers to another one finds it.
StoreConsistent == AlertEvidence /\ References

\* A learning window whose end is recorded ends, across errors and restarts:
\* packets keep arriving, and the first one that is late enough makes the
\* baseline active (baseline.rs:21-27).  The clock stops at MaxTime, so the
\* window has to end before that.
WindowEnds ==
  (meta.ends # None /\ meta.ends <= MaxTime) ~> Active

\* The same of every window that was opened: baseline.rs:7-9 says that its
\* times are persisted, so that a restart resumes the same window.
OpenedWindowEnds ==
  (meta.state = "learning" /\ now + Window < MaxTime) ~> Active

\* Each novelty follows the contract of NoveltyContract.
Novelties == {k \in Keys : k[1] \in Signals}

statusOf ==
  [k \in Novelties |->
     IF \E a \in alerts : a.key = k THEN "alerted"
     ELSE IF due = k THEN "pending"
     ELSE IF <<k[2], k[3]>> \in seen[k[1]] THEN "baseline"
     ELSE "unseen"]

Contract == INSTANCE NoveltyContract WITH
              Novelty <- Novelties, active <- Active, status <- statusOf

\* The engine implements the contract: a novelty is absorbed, or detected and
\* then reported or lost, and nothing else ever happens to it.
ImplementsContract == Contract!Spec
=============================================================================
