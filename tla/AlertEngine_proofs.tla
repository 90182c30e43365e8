------------------------- MODULE AlertEngine_proofs -------------------------
(***************************************************************************)
(* Proofs about AlertEngine, for every set of executables, observations    *)
(* and identities, every window and cooldown, and any number of faults.    *)
(***************************************************************************)
EXTENDS AlertEngine, TLAPS

\* The statement that follows a statement is one of evaluate_full's.
LEMMA FollowingType ==
  ASSUME NEW p \in {"dest", "egress", "identity", "current", "label", "pair",
                    "country", "asn", "volume"}
  PROVE  Following[p] \in {"egress", "identity", "current", "label", "pair",
                           "country", "asn", "volume", "return"}
BY DEF Following

\* The values of a signal, spelled out.
LEMMA KeyType ==
  ASSUME NEW s \in DOMAIN Values, NEW e \in Exe, NEW v \in Values[s]
  PROVE  <<s, e, v>> \in Keys
BY DEF Keys

LEMMA SignalValues ==
  /\ Signals \subseteq DOMAIN Values
  /\ "identity" \in DOMAIN Values
  /\ "volume" \in DOMAIN Values
BY DEF Signals, Values

\* What an event shows in a novelty table is a value of that table.
LEMMA ShownType ==
  ASSUME NEW s \in Signals, ev \in Events, ev.exe # NoProc, Shows(s)
  PROVE  /\ Shown(s) \in Values[s]
         /\ Entry(s) \in Exe \X Values[s]
         /\ Key(s, ev.exe, Shown(s)) \in Keys
<1>1. ev.obs \in Obs /\ ev.exe \in Exe
  BY DEF Events
<1>2. Shown(s) \in Values[s]
  BY <1>1 DEF Shown, Values, Shows, Signals
<1> QED BY <1>1, <1>2, KeyType, SignalValues DEF Entry, Key

-----------------------------------------------------------------------------
LEMMA TypeInit == Init => TypeOK
BY TimeAssumption DEF Init, TypeOK, Times, Following

\* One step per action; the variables an action leaves alone keep their type.
LEMMA TypeNext == TypeOK /\ [Next]_vars => TypeOK'
<1> SUFFICES ASSUME TypeOK, [Next]_vars PROVE TypeOK'
  OBVIOUS
<1> USE DEF TypeOK
<1>1. CASE Arrive
  BY <1>1, NoneAssumption DEF Arrive, Times, store, Following
<1>2. CASE Start
  BY <1>2 DEF Start, store, Following
<1>3. CASE SetStarted
  BY <1>3 DEF SetStarted, store, Following
<1>4. CASE SetEnds
  BY <1>4, TimeAssumption DEF SetEnds, store, Following, Times
<1>5. CASE Promote
  BY <1>5 DEF Promote, store, Following
<1>6. CASE Destination
  BY <1>6, NoneAssumption DEF Destination, Upserted, Following, Ips, Events
<1>7. ASSUME NEW s \in Signals, Note(s) PROVE TypeOK'
  BY <1>7, ShownType, FollowingType, NoneAssumption DEF Note, Noted, Fresh, Following, Signals
<1>8. CASE RecordIdentity
  BY <1>8 DEF RecordIdentity, SameIdentity, Following, Events
<1>9. CASE SetCurrent
  <2>1. ev \in Events /\ ev.exe \in Exe
    BY <1>9, NoneAssumption DEF SetCurrent, Following, Events
  <2>2. due' \in Keys \cup {None}
    <3>1. CASE ev.ident = None
      BY <1>9, <3>1 DEF SetCurrent
    <3>2. CASE ev.ident # None
      <4>1. ev.ident.value \in Values["identity"]
        BY <2>1, <3>2 DEF Events, Values
      <4> QED BY <1>9, <2>1, <3>2, <4>1, KeyType, SignalValues DEF SetCurrent, Key
    <3> QED BY <3>1, <3>2
  <2>3. cur' \in [Exe -> Idents \cup {None}]
    BY <1>9, <2>1 DEF SetCurrent, SameIdentity
  <2> QED BY <1>9, <2>1, <2>2, <2>3 DEF SetCurrent, Following
<1>10. CASE TouchPair
  BY <1>10 DEF TouchPair, Following, Events, Ips
<1>11. CASE Volume
  <2>1. ev \in Events /\ ev.exe \in Exe
    BY <1>11, NoneAssumption DEF Volume, Following, Events
  <2>2. due' \in Keys \cup {None}
    <3>1. Key("volume", ev.exe, None) \in Keys
      BY <2>1, KeyType, SignalValues DEF Key, Values
    <3> QED BY <1>11, <3>1 DEF Volume
  <2>3. vol' \in [Exe -> [start : Times, samples : Nat] \cup {None}]
    <3>1. VolumeStat \in [start : Times, samples : Nat]
      BY <2>1, NoneAssumption DEF VolumeStat
    <3>2. Updated \in [start : Times, samples : Nat]
      BY <3>1 DEF Updated
    <3> QED BY <1>11, <2>1, <3>2 DEF Volume
  <2> QED BY <1>11, <2>1, <2>2, <2>3 DEF Volume, Following
<1>12. CASE Emit
  <2>1. [key |-> due, ts |-> now, dest |-> ev.obs.ip] \in AlertRows
    BY <1>12 DEF Emit, AlertRows, Ips, Events
  <2>2. alerts' \subseteq AlertRows /\ out' \subseteq AlertRows
    BY <1>12, <2>1 DEF Emit
  <2> QED BY <1>12, <2>2 DEF Emit
<1>13. CASE Return
  BY <1>13 DEF Return, Following, store
<1>14. CASE Fail
  BY <1>14, TimeAssumption DEF Fail, Abandon, Following, store
<1>15. CASE Crash
  BY <1>15, TimeAssumption DEF Crash, Abandon, Following, store
<1>16. CASE UNCHANGED vars
  BY <1>16 DEF vars, store
<1> QED
  BY <1>1, <1>2, <1>3, <1>4, <1>5, <1>6, <1>7, <1>8, <1>9, <1>10, <1>11,
     <1>12, <1>13, <1>14, <1>15, <1>16 DEF Next, Worker

\* The type invariant: in particular, an event is in evaluation exactly while
\* the worker is inside evaluate_full, and a process's statements run only for
\* an attributed one.
THEOREM TypeCorrect == Spec => []TypeOK
BY TypeInit, TypeNext, PTL DEF Spec

-----------------------------------------------------------------------------
(***************************************************************************)
(* The inductive invariant.  LearningSilence needs to know how far         *)
(* ensure_started got: between its three meta_set calls there is no end    *)
(* yet, and an end is always the recorded start plus the window.           *)
(* CooldownSpacing needs that no alert lies in the future of the clock;    *)
(* NoveltyAlertsOnce that a key about to be raised, or raised, is already  *)
(* in its novelty table, so that no later event can find it fresh.         *)
(***************************************************************************)
WindowInv ==
  /\ meta.state = None => meta.started = None /\ meta.ends = None
  /\ meta.ends # None => meta.started # None /\ meta.ends = meta.started + Window
  /\ pc = "started" => meta.state = "learning" /\ meta.ends = None
  /\ pc = "ends" => /\ meta.state = "learning" /\ meta.ends = None
                    /\ meta.started = now
  /\ Active => meta.ends # None /\ now >= meta.ends
  /\ due # None => Active
  /\ LearningSilence

CooldownInv ==
  /\ \A a \in alerts : a.ts <= now
  /\ CooldownSpacing

Known(key) == key[1] \in Signals => <<key[2], key[3]>> \in seen[key[1]]

NoveltyInv ==
  /\ \A a \in alerts : Known(a.key)
  /\ due # None => Known(due)
  /\ due # None /\ due[1] \in Signals => \A a \in alerts : a.key # due
  /\ NoveltyAlertsOnce

IInv == TypeOK /\ WindowInv /\ CooldownInv /\ NoveltyInv

LEMMA IInvInit == Init => IInv
BY TypeInit, NoneAssumption DEF Init, IInv, WindowInv, CooldownInv, NoveltyInv, LearningSilence,
   CooldownSpacing, NoveltyAlertsOnce, Active

\* The steps that leave the window, the clock, the alerts, the tables of
\* novelties and the pending alert alone, or drop the pending alert.
LEMMA Quiet ==
  ASSUME IInv, TypeOK',
         UNCHANGED <<meta, now, alerts, seen>>,
         due' = due \/ due' = None,
         pc' \notin {"started", "ends"}
  PROVE  IInv'
BY DEF IInv, WindowInv, CooldownInv, NoveltyInv, LearningSilence,
   CooldownSpacing, NoveltyAlertsOnce, Active, Known

\* A statement other than a novelty's that may raise a recurring alert.
LEMMA Recurring ==
  ASSUME IInv, TypeOK',
         UNCHANGED <<meta, now, alerts, seen>>,
         due' # None => due'[1] \notin Signals /\ Active,
         pc' \notin {"started", "ends"}
  PROVE  IInv'
BY DEF IInv, WindowInv, CooldownInv, NoveltyInv, LearningSilence,
   CooldownSpacing, NoveltyAlertsOnce, Active, Known

\* The statements of ensure_started.
LEMMA WindowStep ==
  ASSUME IInv, TypeOK', Start \/ SetStarted \/ SetEnds \/ Promote
  PROVE  WindowInv'
<1> USE DEF IInv, WindowInv, LearningSilence, Active, TypeOK
<1>1. CASE Start
  BY <1>1 DEF Start
<1>2. CASE SetStarted
  BY <1>2, NoneAssumption DEF SetStarted, Times
<1>3. CASE SetEnds
  BY <1>3, TimeAssumption, NoneAssumption DEF SetEnds, Times
<1>4. CASE Promote
  BY <1>4, NoneAssumption DEF Promote, WindowOver, Times
<1> QED BY <1>1, <1>2, <1>3, <1>4

LEMMA IInvNext == IInv /\ [Next]_vars => IInv'
<1> SUFFICES ASSUME IInv, [Next]_vars PROVE IInv'
  OBVIOUS
<1>0. TypeOK'
  BY TypeNext DEF IInv
<1>1. CASE Arrive
  <2>1. now' \in Nat /\ now' >= now /\ now \in Nat
    BY <1>1 DEF Arrive, IInv, TypeOK, Times
  <2>2. \A a \in alerts : a.ts \in Nat
    BY DEF IInv, TypeOK, AlertRows, Times
  <2>3. meta.ends # None => meta.ends \in Nat
    BY DEF IInv, TypeOK
  <2> QED BY <1>0, <1>1, <2>1, <2>2, <2>3 DEF Arrive, IInv, WindowInv, CooldownInv,
       NoveltyInv, LearningSilence, CooldownSpacing, NoveltyAlertsOnce, Active,
       Known, store
<1>2. CASE Start \/ SetStarted \/ SetEnds \/ Promote
  <2>1. CooldownInv' /\ NoveltyInv'
    BY <1>2 DEF Start, SetStarted, SetEnds, Promote, IInv, CooldownInv,
       NoveltyInv, CooldownSpacing, NoveltyAlertsOnce, Known
  <2> QED BY <1>0, <1>2, <2>1, WindowStep DEF IInv
<1>3. CASE Destination
  BY <1>0, <1>3, Quiet DEF Destination, Following
<1>4. ASSUME NEW s \in Signals, Note(s) PROVE IInv'
  <2>1. WindowInv' /\ CooldownInv'
    BY <1>4 DEF Note, IInv, WindowInv, CooldownInv, LearningSilence,
       CooldownSpacing, Active, Following, Signals
  <2>2. \A t \in Signals : seen[t] \subseteq seen'[t]
    BY <1>4 DEF Note, Noted, IInv, TypeOK
  <2>3. \A a \in alerts' : Known(a.key)'
    BY <1>4, <2>2 DEF Note, IInv, NoveltyInv, Known
  <2>4. ASSUME due' # None
        PROVE  Known(due)' /\ \A a \in alerts' : a.key # due'
    <3>1. /\ due' = <<s, ev.exe, Shown(s)>>
          /\ <<ev.exe, Shown(s)>> \notin seen[s]
          /\ <<ev.exe, Shown(s)>> \in seen'[s]
      BY <1>4, <2>4 DEF Note, Key, Fresh, Entry, Noted, IInv, TypeOK
    <3>2. \A a \in alerts : a.key # due'
      BY <3>1 DEF IInv, NoveltyInv, Known
    <3> QED BY <1>4, <3>1, <3>2 DEF Note, Known
  <2>5. NoveltyAlertsOnce'
    BY <1>4 DEF Note, IInv, NoveltyInv, NoveltyAlertsOnce
  <2> QED BY <1>0, <2>1, <2>3, <2>4, <2>5 DEF IInv, NoveltyInv
<1>5. CASE RecordIdentity
  BY <1>0, <1>5, Quiet DEF RecordIdentity, Following
<1>6. CASE SetCurrent
  <2>1. due' # None => due'[1] \notin Signals /\ Active
    BY <1>6 DEF SetCurrent, Key, Signals
  <2>2. UNCHANGED <<meta, now, alerts, seen>> /\ pc' = "label"
    BY <1>6 DEF SetCurrent, Following
  <2> QED BY <1>0, <2>1, <2>2, Recurring
<1>7. CASE TouchPair
  BY <1>0, <1>7, Quiet DEF TouchPair, Following
<1>8. CASE Volume
  BY <1>0, <1>8, Recurring DEF Volume, Following, Key, Signals
<1>9. CASE Emit
  <2> DEFINE alert == [key |-> due, ts |-> now, dest |-> ev.obs.ip]
  <2>1. CASE Suppressed(due)
    BY <1>0, <1>9, <2>1, Quiet DEF Emit, IInv, WindowInv
  <2>2. CASE ~Suppressed(due)
    <3>1. alerts' = alerts \cup {alert}
      BY <1>9, <2>2 DEF Emit
    <3>2. now \in Nat /\ \A a \in alerts : a.ts \in Nat
      BY DEF IInv, TypeOK, AlertRows, Times
    <3>3. WindowInv'
      BY <1>9, <3>1 DEF Emit, IInv, WindowInv, LearningSilence, Active
    <3>4. CooldownInv'
      <4>1. \A a \in alerts : a.key = due => now - a.ts >= Cooldown
        BY <2>2, <3>2, TimeAssumption DEF Suppressed
      <4> QED BY <1>9, <3>1, <3>2, <4>1 DEF Emit, IInv, CooldownInv, CooldownSpacing
    <3>5. NoveltyInv'
      BY <1>9, <3>1 DEF Emit, IInv, NoveltyInv, NoveltyAlertsOnce, Known
    <3> QED BY <1>0, <3>3, <3>4, <3>5 DEF IInv
  <2> QED BY <2>1, <2>2
<1>10. CASE Return \/ Fail \/ Crash
  BY <1>0, <1>10, Quiet DEF Return, Fail, Crash, Abandon, store
<1>11. CASE UNCHANGED vars
  BY <1>0, <1>11 DEF vars, store, IInv, WindowInv, CooldownInv, NoveltyInv,
     LearningSilence, CooldownSpacing, NoveltyAlertsOnce, Active, Known
<1> QED
  BY <1>1, <1>2, <1>3, <1>4, <1>5, <1>6, <1>7, <1>8, <1>9, <1>10, <1>11
  DEF Next, Worker

LEMMA Inductive == Spec => []IInv
BY IInvInit, IInvNext, PTL DEF Spec

\* No alert during the learning window, whose end is where its recorded start
\* puts it, whatever fails or restarts.
THEOREM SilentWhileLearning == Spec => []LearningSilence
<1>1. IInv => LearningSilence
  BY DEF IInv, WindowInv
<1> QED BY <1>1, Inductive, PTL

\* Alerts with one dedup key are a cooldown apart, across any number of
\* restarts.
THEOREM CooldownHolds == Spec => []CooldownSpacing
<1>1. IInv => CooldownSpacing
  BY DEF IInv, CooldownInv
<1> QED BY <1>1, Inductive, PTL

\* A novelty raises one alert at most in the lifetime of the store.
THEOREM NoveltiesOnce == Spec => []NoveltyAlertsOnce
<1>1. IInv => NoveltyAlertsOnce
  BY DEF IInv, NoveltyInv
<1> QED BY <1>1, Inductive, PTL

-----------------------------------------------------------------------------
(***************************************************************************)
(* The evidence.  An evaluation commits the destination, then the process, *)
(* and only then what may raise an alert; so what the statements behind    *)
(* them are about to write, and the alert that is due, already have what   *)
(* they refer to.                                                          *)
(***************************************************************************)
Recorded(exe) == <<exe, None>> \in seen["egress"]

EvidenceInv ==
  /\ pc \in {"egress", "identity", "current", "label", "pair", "country", "asn", "volume"}
       => ev.obs.ip \in dests
  /\ pc \in {"identity", "current", "label", "pair", "country", "asn", "volume"}
       => Recorded(ev.exe)
  /\ due # None => /\ ev.obs.ip \in dests
                   /\ Recorded(due[2])
                   /\ due[1] = "identity" => \E i \in rows[due[2]] : i.value = due[3]
  /\ StoreConsistent

LEMMA EvidenceInit == Init => EvidenceInv
BY NoneAssumption DEF Init, EvidenceInv, StoreConsistent, AlertEvidence, References, Signals

\* The steps that leave the tables alone; they may drop the alert that is due,
\* and may move on only behind what they have in common.
LEMMA SameTables ==
  ASSUME EvidenceInv, UNCHANGED <<seen, cur, rows, dests, pairs, alerts>>,
         \/ UNCHANGED ev /\ pc \in DOMAIN Following \ {"dest", "egress"}
              /\ pc' \in {"identity", "current", "label", "pair", "country",
                          "asn", "volume", "return"}
         \/ pc' \in {"idle", "start", "started", "ends", "promote", "dest"},
         due' = None \/ (UNCHANGED <<due, ev>>)
  PROVE  EvidenceInv'
BY DEF EvidenceInv, StoreConsistent, AlertEvidence, References, Recorded, Following
LEMMA EvidenceNext == IInv /\ EvidenceInv /\ [Next]_vars => EvidenceInv'
<1> SUFFICES ASSUME IInv, EvidenceInv, [Next]_vars PROVE EvidenceInv'
  OBVIOUS
<1>0. TypeOK
  BY DEF IInv
<1>1. CASE Arrive
  BY <1>1, NoneAssumption DEF Arrive, store, EvidenceInv, StoreConsistent, AlertEvidence,
     References, IInv, TypeOK
<1>2. CASE Start \/ SetStarted \/ SetEnds \/ Promote
  BY <1>2, SameTables DEF Start, SetStarted, SetEnds, Promote
<1>3. CASE Destination
  BY <1>0, <1>3 DEF Destination, Upserted, Following, EvidenceInv, StoreConsistent,
     AlertEvidence, References, Recorded, TypeOK
<1>4. ASSUME NEW s \in Signals, Note(s) PROVE EvidenceInv'
  <2>1. pc = s /\ pc' = Following[s] /\ ev.exe \in Exe
    BY <1>0, <1>4 DEF Note, Following, Signals, TypeOK, Events
  <2>2. \A t \in Signals : seen[t] \subseteq seen'[t]
    BY <1>0, <1>4 DEF Note, Noted, TypeOK
  <2>3. Recorded(ev.exe)'
    <3>1. CASE s = "egress"
      BY <1>0, <1>4, <3>1 DEF Note, Noted, Shows, Entry, Shown, Recorded, TypeOK
    <3>2. CASE s # "egress"
      BY <1>4, <2>1, <2>2, <3>2 DEF Note, EvidenceInv, Recorded, Signals
    <3> QED BY <3>1, <3>2
  <2>4. due' # None => due'[1] # "identity" /\ due'[2] = ev.exe
    BY <1>4 DEF Note, Key, Signals
  <2>5. AlertEvidence'
    BY <1>4, <2>2 DEF Note, EvidenceInv, StoreConsistent, AlertEvidence, Signals
  <2>6. References'
    <3>1. \A t \in Signals : \A p \in seen'[t] : p \in seen[t] \/ p[1] = ev.exe
      BY <1>0, <1>4 DEF Note, Noted, Entry, TypeOK
    <3>2. \A t \in Signals : \A p \in seen'[t] : <<p[1], None>> \in seen'["egress"]
      <4>1. <<ev.exe, None>> \in seen'["egress"] /\ "egress" \in Signals
        BY <1>4, <2>3 DEF Note, Recorded, Signals
      <4> QED BY <2>2, <3>1, <4>1 DEF EvidenceInv, StoreConsistent, References
    <3> QED BY <1>4, <2>2, <3>2 DEF Note, EvidenceInv, StoreConsistent, References, Signals
  <2>7. ev.obs.ip \in dests /\ UNCHANGED <<ev, dests>>
    BY <1>4, <2>1 DEF Note, EvidenceInv, Signals
  <2> QED BY <2>1, <2>3, <2>4, <2>5, <2>6, <2>7 DEF EvidenceInv, StoreConsistent, Recorded
<1>5. CASE RecordIdentity
  <2>1. UNCHANGED <<seen, cur, dests, pairs, alerts, ev, due>> /\ due = None /\ pc' = "current"
    BY <1>5 DEF RecordIdentity, Following
  <2>2. \A e \in Exe : rows[e] \subseteq rows'[e]
    BY <1>0, <1>5 DEF RecordIdentity, TypeOK
  <2>3. \A a \in alerts : a.key[2] \in Exe
    BY <1>0 DEF TypeOK, AlertRows, Keys
  <2>4. AlertEvidence' /\ References'
    BY <2>1, <2>2, <2>3 DEF EvidenceInv, StoreConsistent, AlertEvidence, References
  <2> QED BY <1>5, <2>1, <2>4 DEF RecordIdentity, EvidenceInv, StoreConsistent, Recorded
<1>6. CASE SetCurrent
  <2>1. /\ UNCHANGED <<seen, rows, dests, pairs, alerts, ev>>
        /\ pc = "current" /\ pc' = "label" /\ due = None
    BY <1>6 DEF SetCurrent, Following
  <2>2. \A e \in Exe : cur'[e] # None => cur'[e] \in rows[e]
    <3>1. CASE ev.ident = None
      BY <1>6, <3>1 DEF SetCurrent, EvidenceInv, StoreConsistent, References
    <3>2. CASE ev.ident # None
      BY <1>0, <1>6, <3>2 DEF SetCurrent, SameIdentity, EvidenceInv, StoreConsistent,
         References, TypeOK
    <3> QED BY <3>1, <3>2
  <2>3. AlertEvidence' /\ References'
    BY <2>1, <2>2 DEF EvidenceInv, StoreConsistent, AlertEvidence, References
  <2>4. due' # None => due' = Key("identity", ev.exe, ev.ident.value)
                       /\ \E i \in rows[ev.exe] : i.value = ev.ident.value
    BY <1>6, <2>1 DEF SetCurrent, SameIdentity
  <2> QED BY <2>1, <2>3, <2>4 DEF EvidenceInv, StoreConsistent, Recorded, Key
<1>7. CASE TouchPair
  <2> DEFINE pair == <<ev.exe, ev.obs.ip>>
  <2>1. pair[2] \in dests /\ <<pair[1], None>> \in seen["egress"]
    BY <1>7 DEF TouchPair, EvidenceInv, Recorded
  <2>2. pairs' = pairs \cup {pair} /\ pc' = "country"
    BY <1>7 DEF TouchPair, Following
  <2>3. AlertEvidence'
    BY <1>7 DEF TouchPair, EvidenceInv, StoreConsistent, AlertEvidence
  <2>4. References'
    <3>1. \A p \in pairs' : p[2] \in dests /\ <<p[1], None>> \in seen["egress"]
      BY <2>1, <2>2 DEF EvidenceInv, StoreConsistent, References
    <3> QED BY <1>7, <3>1 DEF TouchPair, EvidenceInv, StoreConsistent, References
  <2> QED BY <1>7, <2>2, <2>3, <2>4 DEF TouchPair, EvidenceInv, StoreConsistent, Recorded
<1>8. CASE Volume
  <2>1. /\ UNCHANGED <<seen, cur, rows, dests, pairs, alerts, ev>>
        /\ pc = "volume" /\ pc' = "return"
        /\ due' # None => due' = <<"volume", ev.exe, None>>
    BY <1>8 DEF Volume, Following, Key
  <2> QED BY <2>1 DEF EvidenceInv, StoreConsistent, AlertEvidence, References, Recorded
<1>9. CASE Emit
  <2> DEFINE alert == [key |-> due, ts |-> now, dest |-> ev.obs.ip]
  <2>1. UNCHANGED <<seen, cur, rows, dests, pairs, ev, pc>> /\ due # None /\ due' = None
    BY <1>9 DEF Emit
  <2>2. alerts' \subseteq alerts \cup {alert}
    BY <1>9 DEF Emit
  <2>3. /\ alert.dest \in dests
        /\ <<alert.key[2], None>> \in seen["egress"]
        /\ alert.key[1] \in Signals => <<alert.key[2], alert.key[3]>> \in seen[alert.key[1]]
        /\ alert.key[1] = "identity" => \E i \in rows[alert.key[2]] : i.value = alert.key[3]
    BY <2>1 DEF EvidenceInv, IInv, NoveltyInv, Known, Recorded
  <2>4. AlertEvidence'
    BY <2>1, <2>2, <2>3 DEF EvidenceInv, StoreConsistent, AlertEvidence
  <2>5. References'
    BY <2>1 DEF EvidenceInv, StoreConsistent, References
  <2> QED BY <2>1, <2>4, <2>5 DEF EvidenceInv, StoreConsistent, Recorded
<1>10. CASE Return \/ Fail \/ Crash
  BY <1>10, SameTables DEF Return, Fail, Crash, Abandon, store
<1>11. CASE UNCHANGED vars
  BY <1>11 DEF vars, store, EvidenceInv, StoreConsistent, AlertEvidence, References, Recorded
<1> QED
  BY <1>1, <1>2, <1>3, <1>4, <1>5, <1>6, <1>7, <1>8, <1>9, <1>10, <1>11
  DEF Next, Worker

\* The store can be read at any moment and after any crash: an alert never
\* precedes its evidence, and every row finds the rows it refers to, whatever
\* statement of evaluate_full the daemon fails or dies at.
THEOREM ConsistentStore == Spec => []StoreConsistent
<1>1. EvidenceInv => StoreConsistent
  BY DEF EvidenceInv
<1> QED BY <1>1, Inductive, EvidenceInit, EvidenceNext, PTL DEF Spec
-----------------------------------------------------------------------------
(***************************************************************************)
(* What is announced.  The insert that fills the Vec of an evaluation is   *)
(* the one that the cooldown lets through, so it is a row nobody has been  *)
(* told of: were it announced, it would be there and suppress itself.      *)
(***************************************************************************)
LEMMA AnnouncedInit == Init => AnnouncedAlerts
BY DEF Init, AnnouncedAlerts

LEMMA AnnouncedNext == TypeOK /\ AnnouncedAlerts /\ [Next]_vars => AnnouncedAlerts'
<1> SUFFICES ASSUME TypeOK, AnnouncedAlerts, [Next]_vars PROVE AnnouncedAlerts'
  OBVIOUS
<1>1. CASE UNCHANGED <<alerts, out, announced, faults>>
  BY <1>1 DEF AnnouncedAlerts
<1>2. CASE Emit
  <2> DEFINE alert == [key |-> due, ts |-> now, dest |-> ev.obs.ip]
  <2>1. ASSUME ~Suppressed(due) PROVE alert \notin alerts
    BY <2>1, TimeAssumption DEF Suppressed, TypeOK, Times
  <2> QED BY <1>2, <2>1 DEF Emit, AnnouncedAlerts
<1>3. CASE Return
  BY <1>3 DEF Return, store, AnnouncedAlerts
<1>4. CASE Fail \/ Crash
  <2>1. faults' # [fails |-> 0, crashes |-> 0]
    BY <1>4 DEF Fail, Crash, TypeOK
  <2> QED BY <1>4, <2>1 DEF Fail, Crash, Abandon, store, AnnouncedAlerts
<1> QED
  BY <1>1, <1>2, <1>3, <1>4 DEF Next, Worker, Arrive, Start, SetStarted, SetEnds, Promote,
     Destination, Note, RecordIdentity, SetCurrent, TouchPair, Volume, store, vars

\* Every alert on the bus is durable and is announced once; as long as nothing
\* fails, every alert row is announced or in the Vec of the evaluation at hand.
THEOREM AnnouncedOnce == Spec => []AnnouncedAlerts
BY TypeCorrect, AnnouncedInit, AnnouncedNext, PTL DEF Spec
-----------------------------------------------------------------------------
(***************************************************************************)
(* The refinement of NoveltyContract.  Under IInv a pending novelty is the *)
(* alert that is due, has no row yet and is in its table already; so what  *)
(* happens to it is read off what happens to due, alerts and seen.         *)
(***************************************************************************)
LEMMA StatusOfNovelty ==
  ASSUME IInv, NEW k \in Novelties
  PROVE  /\ statusOf[k] = "alerted" <=> \E a \in alerts : a.key = k
         /\ statusOf[k] = "pending" <=> due = k
         /\ statusOf[k] = "unseen" <=> <<k[2], k[3]>> \notin seen[k[1]]
<1>1. k \in Keys /\ k[1] \in Signals /\ k # None
  BY NoneAssumption DEF Novelties
<1>2. \A a \in alerts : a.key = k => due # k /\ <<k[2], k[3]>> \in seen[k[1]]
  BY <1>1 DEF IInv, NoveltyInv, Known
<1>3. due = k => <<k[2], k[3]>> \in seen[k[1]]
  BY <1>1 DEF IInv, NoveltyInv, Known
<1> QED BY <1>2, <1>3 DEF statusOf

\* Steps that touch no novelty.
LEMMA Stutters ==
  ASSUME UNCHANGED alerts, \A t \in Signals : seen'[t] = seen[t], Active' = Active,
         due' = due \/ (due \notin Novelties /\ due' \notin Novelties)
  PROVE  UNCHANGED <<Active, statusOf>>
BY DEF statusOf, Novelties

\* Steps that move one novelty.
LEMMA Moves ==
  ASSUME NEW n \in Novelties, NEW from, NEW to, UNCHANGED Active,
         statusOf[n] = from, statusOf'[n] = to,
         \A k \in Novelties \ {n} : statusOf'[k] = statusOf[k]
  PROVE  Contract!Move(n, from, to)
<1>1. /\ statusOf = [k \in Novelties |-> statusOf[k]]
      /\ statusOf' = [k \in Novelties |-> statusOf'[k]]
  BY DEF statusOf
<1>2. statusOf' = [statusOf EXCEPT ![n] = to]
  BY <1>1
<1> QED BY <1>2 DEF Contract!Move

LEMMA ContractInit == Init => Contract!Init
<1> SUFFICES ASSUME Init PROVE Contract!Init
  OBVIOUS
<1>1. Active = FALSE
  BY NoneAssumption DEF Init, Active
<1>2. ASSUME NEW k \in Novelties PROVE statusOf[k] = "unseen"
  BY <1>2, NoneAssumption DEF Init, statusOf, Novelties
<1>3. statusOf = [k \in Novelties |-> "unseen"]
  BY <1>2 DEF statusOf
<1> QED BY <1>1, <1>3 DEF Contract!Init

\* A novelty statement: the novelty is learnt, or detected, or known already.
LEMMA ContractNote ==
  ASSUME IInv, IInv', NEW s \in Signals, Note(s)
  PROVE  Contract!Next \/ UNCHANGED <<Active, statusOf>>
<1> DEFINE n == Key(s, ev.exe, Shown(s))
<1>1. /\ due = None /\ UNCHANGED <<meta, alerts>> /\ Active' = Active
      /\ None \notin Novelties
  BY NoneAssumption DEF Note, Active, Novelties
<1>2. CASE ~(Shows(s) /\ Fresh(s))
  <2>1. due' = None
    BY <1>2 DEF Note
  <2>2. \A t \in Signals : seen'[t] = seen[t]
    BY <1>2 DEF Note, Noted, Fresh, IInv, TypeOK
  <2> QED BY <1>1, <2>1, <2>2, Stutters
<1>3. CASE Shows(s) /\ Fresh(s)
  <2>1. ev \in Events /\ ev.exe # NoProc
    BY DEF Note, Following, Signals, IInv, TypeOK
  <2>2. n \in Novelties /\ n = <<s, ev.exe, Shown(s)>>
    BY <1>3, <2>1, ShownType DEF Novelties, Key
  <2>3. <<ev.exe, Shown(s)>> \notin seen[s] /\ <<ev.exe, Shown(s)>> \in seen'[s]
    BY <1>3 DEF Note, Noted, Fresh, Entry, IInv, TypeOK
  <2>4. statusOf[n] = "unseen"
    BY <2>2, <2>3, StatusOfNovelty
  <2>5. due' = n \/ due' = None
    BY DEF Note
  <2>6. ASSUME NEW k \in Novelties \ {n} PROVE statusOf'[k] = statusOf[k]
    <3>1. ~(k[1] = s /\ k[2] = ev.exe /\ k[3] = Shown(s))
      <4>1. PICK t \in DOMAIN Values : k \in {t} \X Exe \X Values[t]
        BY DEF Novelties, Keys
      <4> QED BY <2>2, <4>1
    <3>2. <<k[2], k[3]>> \in seen'[k[1]] <=> <<k[2], k[3]>> \in seen[k[1]]
      BY <1>3, <3>1 DEF Note, Noted, Entry, IInv, TypeOK, Novelties
    <3> QED BY <1>1, <2>5, <3>2 DEF statusOf
  <2>7. CASE due' = None
    <3>1. statusOf'[n] = "baseline"
      BY <1>1, <2>2, <2>3, <2>4, <2>7, StatusOfNovelty DEF statusOf
    <3> QED BY <1>1, <2>2, <2>4, <2>6, <3>1, Moves DEF Contract!Next, Contract!Learn
  <2>8. CASE due' = n
    <3>1. statusOf'[n] = "pending"
      BY <1>1, <2>2, <2>4, <2>8, StatusOfNovelty DEF statusOf
    <3>2. Active
      BY <1>1, <2>2, <2>8 DEF Note
    <3>3. \A m \in Novelties : statusOf[m] # "pending"
      BY <1>1, StatusOfNovelty
    <3> QED BY <1>1, <2>2, <2>4, <2>6, <3>1, <3>2, <3>3, Moves DEF Contract!Next, Contract!Detect
  <2> QED BY <2>5, <2>7, <2>8
<1> QED BY <1>2, <1>3

\* insert_alert: a novelty that is due has no row yet, so the cooldown cannot
\* swallow it.
LEMMA ContractEmit ==
  ASSUME IInv, IInv', Emit
  PROVE  Contract!Next \/ UNCHANGED <<Active, statusOf>>
<1>1. due' = None /\ UNCHANGED <<meta, seen>> /\ Active' = Active /\ None \notin Novelties
  BY NoneAssumption DEF Emit, Active, Novelties
<1>2. CASE due \in Novelties
  <2>1. \A a \in alerts : a.key # due
    BY <1>2 DEF Emit, IInv, NoveltyInv, Novelties
  <2>2. alerts' = alerts \cup {[key |-> due, ts |-> now, dest |-> ev.obs.ip]}
    BY <2>1 DEF Emit, Suppressed
  <2>3. \A k \in Novelties : (\E a \in alerts' : a.key = k) <=> k = due \/ \E a \in alerts : a.key = k
    <3> DEFINE alert == [key |-> due, ts |-> now, dest |-> ev.obs.ip]
    <3>1. alert.key = due /\ alerts' = alerts \cup {alert}
      BY <2>2
    <3> HIDE DEF alert
    <3> QED BY <3>1
  <2>4. statusOf[due] = "pending" /\ statusOf'[due] = "alerted"
    BY <1>2, <2>1, <2>3 DEF statusOf
  <2>5. \A k \in Novelties \ {due} : statusOf'[k] = statusOf[k]
    BY <1>1, <2>3 DEF statusOf
  <2> QED BY <1>1, <1>2, <2>4, <2>5, Moves DEF Contract!Next, Contract!Report
<1>3. CASE due \notin Novelties
  <2>1. \A k \in Novelties : (\E a \in alerts' : a.key = k) <=> \E a \in alerts : a.key = k
    BY <1>3 DEF Emit
  <2>2. statusOf' = statusOf
    BY <1>1, <1>3, <2>1 DEF statusOf
  <2> QED BY <1>1, <2>2
<1> QED BY <1>2, <1>3

\* An error or a death drops the alert that is due: its novelty stays recorded.
LEMMA ContractAbandon ==
  ASSUME IInv, Fail \/ Crash
  PROVE  Contract!Next \/ UNCHANGED <<Active, statusOf>>
<1>1. /\ due' = None /\ UNCHANGED <<meta, seen, alerts>> /\ Active' = Active
      /\ None \notin Novelties
  BY NoneAssumption DEF Fail, Crash, Abandon, store, Active, Novelties
<1>2. CASE due \in Novelties
  <2>1. \A a \in alerts : a.key # due
    BY <1>1, <1>2 DEF IInv, NoveltyInv, Novelties
  <2>2. <<due[2], due[3]>> \in seen[due[1]]
    BY <1>1, <1>2 DEF IInv, NoveltyInv, Known, Novelties
  <2>3. statusOf[due] = "pending" /\ statusOf'[due] = "baseline"
    BY <1>1, <1>2, <2>1, <2>2 DEF statusOf
  <2>4. \A k \in Novelties \ {due} : statusOf'[k] = statusOf[k]
    BY <1>1 DEF statusOf
  <2> QED BY <1>1, <1>2, <2>3, <2>4, Moves DEF Contract!Next, Contract!Lose
<1>3. CASE due \notin Novelties
  BY <1>1, <1>3, Stutters
<1> QED BY <1>2, <1>3

LEMMA ContractPromote ==
  ASSUME IInv, Promote
  PROVE  Contract!Next \/ UNCHANGED <<Active, statusOf>>
<1>1. UNCHANGED <<seen, alerts, due>>
  BY DEF Promote
<1>2. UNCHANGED statusOf
  BY <1>1 DEF statusOf
<1>3. CASE Active' = Active
  BY <1>2, <1>3
<1>4. CASE Active' # Active
  <2>1. ~Active /\ Active'
    BY <1>4 DEF Promote, Active
  <2>2. due = None /\ alerts = {}
    BY <2>1 DEF IInv, WindowInv, LearningSilence, Active
  <2>3. \A k \in Novelties : statusOf[k] \in {"unseen", "baseline"}
    BY <2>2, NoneAssumption DEF statusOf, Novelties
  <2> QED BY <1>2, <2>1, <2>3 DEF Contract!Next, Contract!Activate
<1> QED BY <1>3, <1>4

LEMMA ContractNext ==
  IInv /\ IInv' /\ [Next]_vars => [Contract!Next]_<<Active, statusOf>>
<1> SUFFICES ASSUME IInv, IInv', [Next]_vars
             PROVE  Contract!Next \/ UNCHANGED <<Active, statusOf>>
  OBVIOUS
<1>1. CASE Arrive \/ SetStarted \/ SetEnds \/ Destination \/ RecordIdentity \/ TouchPair
           \/ Return \/ UNCHANGED vars
  BY <1>1, Stutters DEF Arrive, SetStarted, SetEnds, Destination, RecordIdentity, TouchPair,
     Return, vars, store, Active, IInv, TypeOK
<1>2. CASE Start
  BY <1>2, Stutters, NoneAssumption DEF Start, Active, IInv, TypeOK
<1>3. CASE SetCurrent \/ Volume
  <2>1. due = None /\ (due' = None \/ due'[1] \in {"identity", "volume"})
    BY <1>3 DEF SetCurrent, Volume, Key
  <2>2. due \notin Novelties /\ due' \notin Novelties
    BY <2>1, NoneAssumption DEF Novelties, Signals
  <2> QED BY <1>3, <2>2, Stutters DEF SetCurrent, Volume, Active
<1> QED
  BY <1>1, <1>2, <1>3, ContractPromote, ContractNote, ContractEmit, ContractAbandon
  DEF Next, Worker

\* The engine implements the contract: a novelty is absorbed in silence, or
\* detected on an active baseline and then reported or lost to a fault, and
\* nothing ever happens to it again (detectors.rs:131-260).
THEOREM ContractImplemented == Spec => ImplementsContract
BY Inductive, ContractInit, ContractNext, PTL DEF Spec, ImplementsContract, Contract!Spec
=============================================================================
