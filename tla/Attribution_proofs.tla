-------------------------- MODULE Attribution_proofs --------------------------
(***************************************************************************)
(* Proofs about Attribution, for any processes, sockets, packets, versions *)
(* of the executable, refresh interval and size of the identity cache.     *)
(***************************************************************************)
EXTENDS Attribution, SequenceTheorems, TLAPS

Stamps  == {Stamp(v) : v \in Versions}
Entries == [key : Stamps, identity : Versions \cup {Unreadable}]

(***************************************************************************)
(* Inodes are not used twice, and a socket that was always alone on its    *)
(* end is.                                                                 *)
(***************************************************************************)
SocketsInv ==
  /\ inode \in Nat
  /\ sockets \subseteq
       [kind : Sockets, inode : 1..inode, pid : Pids, since : 0..clock, alone : BOOLEAN]
  /\ \A s, t \in sockets : s.inode = t.inode => s = t
  /\ \A s, t \in sockets : s.alone /\ EndOf(s.kind) = EndOf(t.kind) => s = t

(***************************************************************************)
(* An inode of the cache is of a socket on the end it is cached for, where *)
(* it is of an open one at all; and the cache has every lone socket of its *)
(* protocol that is older than it.                                         *)
(***************************************************************************)
Knows(c) ==
  /\ \A e \in DOMAIN c.entries : \A s \in sockets :
       s.inode = c.entries[e] => EndOf(s.kind) = e
  /\ \A s \in sockets :
       s.alone /\ s.kind.proto = c.proto /\ s.since < c.at =>
         /\ EndOf(s.kind) \in DOMAIN c.entries
         /\ c.entries[EndOf(s.kind)] = s.inode
CacheInv == Knows(cache)

(***************************************************************************)
(* What is cached for a key has that time and size, but for the torn ones. *)
(***************************************************************************)
Fits(e) == e.identity = Unreadable \/ e.key \in torn \/ Stamp(e.identity) = e.key
IdsInv ==
  /\ idCache \in Seq(Entries)
  /\ \A i \in DOMAIN idCache : Fits(idCache[i])

(***************************************************************************)
(* While the contents are read, the key is that of the file, unless it was *)
(* replaced since.                                                         *)
(***************************************************************************)
StepInv ==
  /\ replaced \in Nat
  /\ pc \in {Idle} \cup [at : {"identify"}, deleted : BOOLEAN]
            \cup [at : {"hash"}, key : Stamps, stamp : Stamps, from : 0..replaced]
  /\ pc.at = "hash" =>
       /\ pc.stamp = pc.key
       /\ pc.from = replaced => pc.key = Stamp(file)

AInv == TypeOK /\ SocketsInv /\ CacheInv /\ IdsInv /\ StepInv

-----------------------------------------------------------------------------
\* Touching a key of the cache removes its entry and keeps the others in order.
LEMMA TouchedRemoves ==
  ASSUME TypeOK, IdsInv, NEW k
  PROVE  /\ Touched(k) \in Seq(Entries)
         /\ Len(Touched(k)) = IF Cached(k) = {} THEN Len(idCache) ELSE Len(idCache) - 1
         /\ \A i \in DOMAIN Touched(k) : Touched(k)[i].key # k /\ Fits(Touched(k)[i])
         /\ \A i, j \in DOMAIN Touched(k) :
              Touched(k)[i].key = Touched(k)[j].key => i = j
<1>1. CASE Cached(k) = {}
  BY <1>1 DEF Touched, Cached, TypeOK, IdsInv
<1>2. CASE Cached(k) # {}
  <2>1. PICK n : n = CHOOSE i \in Cached(k) : TRUE
    OBVIOUS
  <2>2. n \in 1 .. Len(idCache) /\ idCache[n].key = k
    BY <1>2, <2>1 DEF Cached, IdsInv
  <2>3. \A i \in 1 .. Len(idCache) : i # n => idCache[i].key # k
    BY <2>2 DEF TypeOK, IdsInv
  <2> DEFINE before == SubSeq(idCache, 1, n - 1)
             after  == SubSeq(idCache, n + 1, Len(idCache))
  <2>4. \A i \in 1 .. Len(idCache) : idCache[i] \in Entries
    BY DEF IdsInv
  <2>0. Len(idCache) \in Nat
    BY DEF IdsInv
  <2>5. /\ before \in Seq(Entries) /\ Len(before) = n - 1
        /\ \A i \in 1 .. n - 1 : before[i] = idCache[i]
    <3>1. \A i \in 1 .. n - 1 : idCache[i] \in Entries
      BY <2>0, <2>2, <2>4
    <3> QED  BY <3>1, <2>0, <2>2, SubSeqProperties
  <2>6. /\ after \in Seq(Entries) /\ Len(after) = Len(idCache) - n
        /\ \A i \in 1 .. Len(idCache) - n : after[i] = idCache[i + n]
    <3>1. \A i \in n + 1 .. Len(idCache) : idCache[i] \in Entries
      BY <2>0, <2>2, <2>4
    <3> QED  BY <3>1, <2>0, <2>2, SubSeqProperties
  <2>7. Touched(k) = before \o after
    BY <1>2, <2>1 DEF Touched, RemoveAt
  <2> HIDE DEF before, after
  <2>8. /\ Touched(k) \in Seq(Entries)
        /\ Len(Touched(k)) = Len(idCache) - 1
        /\ \A i \in 1 .. Len(idCache) - 1 :
             Touched(k)[i] = IF i < n THEN idCache[i] ELSE idCache[i + 1]
    <3> DEFINE r == before \o after
    <3>1. /\ r \in Seq(Entries) /\ Len(r) = Len(before) + Len(after)
          /\ \A i \in 1 .. Len(before) + Len(after) :
               r[i] = IF i <= Len(before) THEN before[i] ELSE after[i - Len(before)]
      BY <2>5, <2>6, ConcatProperties
    <3> HIDE DEF r
    <3>2. Len(r) = Len(idCache) - 1
      BY <3>1, <2>0, <2>2, <2>5, <2>6
    <3>3. ASSUME NEW i \in 1 .. Len(idCache) - 1
          PROVE  r[i] = IF i < n THEN idCache[i] ELSE idCache[i + 1]
      <4>1. CASE i < n
        BY SMTT(20), <4>1, <3>1, <2>0, <2>2, <2>5, <2>6
      <4>2. CASE ~(i < n)
        <5>1. i - (n - 1) \in 1 .. Len(idCache) - n /\ i - (n - 1) + n = i + 1
          BY <4>2, <2>0, <2>2
        <5>2. after[i - (n - 1)] = idCache[i + 1]
          BY <5>1, <2>6
        <5>3. Len(before) = n - 1 /\ i \in 1 .. Len(before) + Len(after) /\ ~(i <= n - 1)
          BY <4>2, <2>0, <2>2, <2>5, <2>6
        <5>4. r[i] = after[i - (n - 1)]
          BY <5>3, <3>1
        <5> QED  BY <4>2, <5>2, <5>4
      <4> QED  BY <4>1, <4>2
    <3>4. Touched(k) = r
      BY <2>7 DEF r
    <3> QED  BY <3>1, <3>2, <3>3, <3>4
  <2>9. DOMAIN Touched(k) = 1 .. Len(idCache) - 1
    BY <2>8
  <2>10. ASSUME NEW i \in DOMAIN Touched(k)
         PROVE  Touched(k)[i].key # k /\ Fits(Touched(k)[i])
    <3>1. PICK m \in 1 .. Len(idCache) : m # n /\ Touched(k)[i] = idCache[m]
      BY <2>0, <2>2, <2>8, <2>9
    <3> QED  BY <3>1, <2>3 DEF IdsInv
  <2>11. ASSUME NEW i \in DOMAIN Touched(k), NEW j \in DOMAIN Touched(k),
                Touched(k)[i].key = Touched(k)[j].key
         PROVE  i = j
    <3>1. i \in 1 .. Len(idCache) - 1 /\ j \in 1 .. Len(idCache) - 1
      BY <2>9
    <3> DEFINE Of(x) == IF x < n THEN x ELSE x + 1
    <3>2. /\ Of(i) \in 1 .. Len(idCache) /\ Of(j) \in 1 .. Len(idCache)
          /\ Of(i) = Of(j) => i = j
      BY <3>1, <2>0, <2>2
    <3>3. Touched(k)[i] = idCache[Of(i)] /\ Touched(k)[j] = idCache[Of(j)]
      BY <3>1, <2>8
    <3> HIDE DEF Of
    <3>4. DOMAIN idCache = 1 .. Len(idCache)
      BY DEF IdsInv
    <3> QED  BY <2>11, <3>2, <3>3, <3>4 DEF TypeOK
  <2> QED  BY <1>2, <2>8, <2>10, <2>11
<1> QED  BY <1>1, <1>2

\* A cache that appends an entry for a touched key is as it must be.
LEMMA AppendedFits ==
  ASSUME NEW q \in Seq(Entries), NEW e \in Entries, NEW T, Len(q) < CacheSize,
         CacheSize \in Nat,
         \A i \in DOMAIN q :
           \/ q[i].identity = Unreadable \/ q[i].key \in T
           \/ Stamp(q[i].identity) = q[i].key,
         e.identity = Unreadable \/ e.key \in T \/ Stamp(e.identity) = e.key,
         \A i \in DOMAIN q : q[i].key # e.key,
         \A i, j \in DOMAIN q : q[i].key = q[j].key => i = j
  PROVE  /\ Append(q, e) \in Seq(Entries)
         /\ Len(Append(q, e)) <= CacheSize
         /\ \A i \in DOMAIN Append(q, e) :
              LET r == Append(q, e)
              IN \/ r[i].identity = Unreadable \/ r[i].key \in T
                 \/ Stamp(r[i].identity) = r[i].key
         /\ \A i, j \in DOMAIN Append(q, e) :
              Append(q, e)[i].key = Append(q, e)[j].key => i = j
<1> DEFINE r == Append(q, e)
<1>1. /\ r \in Seq(Entries) /\ Len(r) = Len(q) + 1 /\ DOMAIN r = 1 .. Len(q) + 1
      /\ \A i \in 1 .. Len(q) : r[i] = q[i]
      /\ r[Len(q) + 1] = e /\ Len(q) \in Nat /\ DOMAIN q = 1 .. Len(q)
  BY AppendProperties
<1> HIDE DEF r
<1>2. /\ \A i \in DOMAIN r : \/ r[i].identity = Unreadable \/ r[i].key \in T
                             \/ Stamp(r[i].identity) = r[i].key
      /\ \A i, j \in DOMAIN r : r[i].key = r[j].key => i = j
  <2>1. \A i \in DOMAIN r : i \in DOMAIN q \/ i = Len(q) + 1
    BY <1>1
  <2> QED  BY <1>1, <2>1
<1> QED  BY <1>1, <1>2 DEF r

-----------------------------------------------------------------------------
LEMMA InitInv == Init => AInv
<1> USE AttributionAssumption
<1> SUFFICES ASSUME Init PROVE AInv
  OBVIOUS
<1>1. TypeOK
  BY DEF Init, TypeOK, Range, Idle
<1>2. SocketsInv /\ CacheInv
  BY DEF Init, SocketsInv, CacheInv, Knows
<1>3. IdsInv
  BY EmptySeq DEF Init, IdsInv
<1>4. StepInv
  BY DEF Init, StepInv, Idle
<1> QED  BY <1>1, <1>2, <1>3, <1>4 DEF AInv

-----------------------------------------------------------------------------
\* What a lookup uses, the cache or what it reads, is as the cache must be.
LEMMA CachesWell ==
  ASSUME AInv, NEW proto, NEW c \in Caches(proto)
  PROVE  /\ c.at \in (0 - 2 * Interval)..clock
         /\ Range(c.entries) \subseteq 1..inode
         /\ Knows(c)
         /\ Stale => c.proto = proto /\ c.at = clock
         /\ ~Stale => c = cache
<1> USE AttributionAssumption
<1>1. CASE ~Stale
  BY <1>1 DEF Caches, AInv, TypeOK, CacheInv
<1>2. CASE Stale
  <2> DEFINE of   == {s \in sockets : s.kind.proto = proto}
             ends == {EndOf(s.kind) : s \in of}
  <2>1. PICK f \in Reading(proto) : c = [entries |-> f, at |-> clock, proto |-> proto]
    BY <1>2 DEF Caches
  <2>2. /\ f \in [ends -> {s.inode : s \in of}]
        /\ \A e \in ends : \E s \in of : s.inode = f[e] /\ EndOf(s.kind) = e
    BY DEF Reading
  <2>3. Range(f) \subseteq 1..inode
    BY <2>2 DEF Range, AInv, SocketsInv
  <2>4. Knows(c)
    <3>1. ASSUME NEW e \in DOMAIN f, NEW s \in sockets, s.inode = f[e]
          PROVE  EndOf(s.kind) = e
      <4>1. PICK t \in of : t.inode = f[e] /\ EndOf(t.kind) = e
        BY <2>2
      <4> QED  BY <3>1, <4>1 DEF AInv, SocketsInv
    <3>2. ASSUME NEW s \in sockets, s.alone, s.kind.proto = proto
          PROVE  EndOf(s.kind) \in DOMAIN f /\ f[EndOf(s.kind)] = s.inode
      <4>1. EndOf(s.kind) \in ends
        BY <3>2
      <4>2. PICK t \in of : t.inode = f[EndOf(s.kind)] /\ EndOf(t.kind) = EndOf(s.kind)
        BY <2>2, <4>1
      <4>3. t = s
        BY <3>2, <4>2 DEF AInv, SocketsInv
      <4> QED  BY <4>1, <4>2, <4>3, <2>2
    <3> QED  BY <2>1, <3>1, <3>2 DEF Knows
  <2>5. clock \in Nat
    BY DEF AInv, TypeOK
  <2> QED  BY <1>2, <2>1, <2>3, <2>4, <2>5
<1> QED  BY <1>1, <1>2

\* The host changes the sockets, but what the cache knows of them stays true.
LEMMA HostKeeps == AInv /\ Host => AInv'
<1> USE AttributionAssumption
<1> SUFFICES ASSUME AInv, Host PROVE AInv'
  OBVIOUS
<1>0. UNCHANGED <<cache, idCache, torn, pc>> /\ clock \in Nat /\ inode \in Nat
  BY DEF Host, AInv, TypeOK, SocketsInv
<1>1. CASE Tick
  BY <1>0, <1>1 DEF Tick, AInv, TypeOK, SocketsInv, CacheInv, Knows, IdsInv, Fits, StepInv
<1>2. ASSUME NEW pid \in Pids, NEW kind \in Sockets, Open(pid, kind) PROVE AInv'
  <2> DEFINE shares(s) == EndOf(s.kind) = EndOf(kind)
             kept(s)   == [s EXCEPT !.alone = @ /\ ~shares(s)]
             new       == [kind |-> kind, inode |-> inode + 1, pid |-> pid, since |-> clock,
                           alone |-> \A s \in sockets : ~shares(s)]
  <2>1. /\ inode' = inode + 1 /\ sockets' = {kept(s) : s \in sockets} \cup {new}
        /\ UNCHANGED <<clock, file, replaced, deleted>>
    BY <1>2 DEF Open
  <2>2. \A s \in sockets :
          /\ kept(s).kind = s.kind /\ kept(s).inode = s.inode /\ kept(s).pid = s.pid
          /\ kept(s).since = s.since /\ kept(s).alone = (s.alone /\ ~shares(s))
          /\ kept(s) \in [kind : Sockets, inode : 1..inode', pid : Pids,
                          since : 0..clock, alone : BOOLEAN]
          /\ s.inode \in 1..inode
    <3> TAKE s \in sockets
    <3>1. s \in [kind : Sockets, inode : 1..inode, pid : Pids, since : 0..clock,
                alone : BOOLEAN]
      BY DEF AInv, SocketsInv
    <3> DEFINE b == s.alone /\ ~shares(s)
    <3>2. b \in BOOLEAN
      OBVIOUS
    <3>3. kept(s) = [s EXCEPT !.alone = b]
      OBVIOUS
    <3>4. s.inode \in 1..inode'
      BY <1>0, <2>1, <3>1
    <3>5. /\ kept(s).kind = s.kind /\ kept(s).inode = s.inode /\ kept(s).pid = s.pid
          /\ kept(s).since = s.since /\ kept(s).alone = b
      BY <3>1
    <3> HIDE DEF b
    <3>6. kept(s) \in [kind : Sockets, inode : 1..inode', pid : Pids,
                      since : 0..clock, alone : BOOLEAN]
      BY <3>1, <3>2, <3>3, <3>4
    <3> QED  BY <3>1, <3>5, <3>6 DEF b
  <2>3. /\ new.kind = kind /\ new.inode = inode + 1 /\ new.since = clock
        /\ new.alone = (\A s \in sockets : ~shares(s))
        /\ new \in [kind : Sockets, inode : 1..inode', pid : Pids,
                    since : 0..clock, alone : BOOLEAN]
    BY <2>1, <1>0
  <2> HIDE DEF kept, new
  <2>4. SocketsInv'
    <3>1. sockets' \subseteq [kind : Sockets, inode : 1..inode', pid : Pids,
                             since : 0..clock', alone : BOOLEAN]
      BY <2>1, <2>2, <2>3
    <3>2. ASSUME NEW s \in sockets', NEW t \in sockets', s.inode = t.inode
          PROVE  s = t
      BY <3>2, <1>0, <2>1, <2>2, <2>3 DEF AInv, SocketsInv
    <3>3. ASSUME NEW s \in sockets', NEW t \in sockets', s.alone,
                 EndOf(s.kind) = EndOf(t.kind)
          PROVE  s = t
      <4>1. CASE s = new /\ t = new
        BY <4>1
      <4>2. CASE s = new /\ t # new
        <5>1. PICK y \in sockets : t = kept(y)
          BY <4>2, <2>1
        <5>2. ~shares(y)
          BY <4>2, <3>3, <2>3
        <5>3. EndOf(t.kind) = EndOf(y.kind) /\ EndOf(s.kind) = EndOf(kind)
          BY <4>2, <5>1, <2>2, <2>3
        <5> QED  BY <5>2, <5>3, <3>3
      <4>3. CASE s # new /\ t = new
        BY <4>3, <3>3, <2>1, <2>2, <2>3
      <4>4. CASE s # new /\ t # new
        <5>1. PICK x \in sockets, y \in sockets : s = kept(x) /\ t = kept(y)
          BY <4>4, <2>1
        <5> QED  BY <5>1, <3>3, <2>2 DEF AInv, SocketsInv
      <4> QED  BY <4>1, <4>2, <4>3, <4>4
    <3> QED  BY <1>0, <2>1, <3>1, <3>2, <3>3 DEF SocketsInv
  <2>5. CacheInv'
    <3>1. ASSUME NEW e \in DOMAIN cache.entries, NEW s \in sockets',
                 s.inode = cache.entries[e]
          PROVE  EndOf(s.kind) = e
      BY <3>1, <1>0, <2>1, <2>2, <2>3 DEF AInv, TypeOK, Range, CacheInv, Knows
    <3>2. ASSUME NEW s \in sockets', s.alone, s.kind.proto = cache.proto, s.since < cache.at
          PROVE  /\ EndOf(s.kind) \in DOMAIN cache.entries
                 /\ cache.entries[EndOf(s.kind)] = s.inode
      BY SMTT(20), <3>2, <1>0, <2>1, <2>2, <2>3 DEF AInv, TypeOK, CacheInv, Knows
    <3> QED  BY <1>0, <3>1, <3>2 DEF CacheInv, Knows
  <2>6. TypeOK' /\ IdsInv' /\ StepInv'
    BY <1>0, <2>1 DEF AInv, TypeOK, IdsInv, Fits, StepInv
  <2> QED  BY <2>4, <2>5, <2>6 DEF AInv
<1>3. ASSUME NEW s \in sockets, Close(s) PROVE AInv'
  BY <1>0, <1>3 DEF Close, AInv, TypeOK, SocketsInv, CacheInv, Knows, IdsInv, Fits, StepInv
<1>4. ASSUME NEW v \in Versions, Replace(v) PROVE AInv'
  <2>1. TypeOK' /\ SocketsInv' /\ CacheInv' /\ IdsInv'
    BY <1>0, <1>4 DEF Replace, AInv, TypeOK, SocketsInv, CacheInv, Knows, IdsInv, Fits
  <2>2. StepInv'
    BY <1>0, <1>4 DEF Replace, AInv, StepInv, Idle
  <2> QED  BY <2>1, <2>2 DEF AInv
<1>5. ASSUME NEW pid \in Pids, Restart(pid) PROVE AInv'
  BY <1>0, <1>5 DEF Restart, AInv, TypeOK, SocketsInv, CacheInv, Knows, IdsInv, Fits, StepInv
<1> QED  BY <1>1, <1>2, <1>3, <1>4, <1>5 DEF Host
-----------------------------------------------------------------------------
\* The cache of identities stays as it must be when an entry is put in it.
IdsFit(q, T) ==
  /\ q \in Seq(Entries) /\ Len(q) <= CacheSize
  /\ \A i \in DOMAIN q : \/ q[i].identity = Unreadable \/ q[i].key \in T
                         \/ Stamp(q[i].identity) = q[i].key
  /\ \A i, j \in DOMAIN q : q[i].key = q[j].key => i = j

LEMMA HitFits ==
  ASSUME AInv, NEW k, NEW i \in Cached(k)
  PROVE  IdsFit(Append(Touched(k), idCache[i]), torn)
<1> USE AttributionAssumption
<1>1. idCache[i] \in Entries /\ idCache[i].key = k /\ Fits(idCache[i])
  BY DEF Cached, AInv, IdsInv
<1>2. /\ Touched(k) \in Seq(Entries) /\ Len(Touched(k)) < CacheSize
      /\ \A j \in DOMAIN Touched(k) : Touched(k)[j].key # k /\ Fits(Touched(k)[j])
      /\ \A j, l \in DOMAIN Touched(k) : Touched(k)[j].key = Touched(k)[l].key => j = l
  <2>1. Len(idCache) \in Nat /\ Len(idCache) <= CacheSize
    BY DEF AInv, TypeOK, IdsInv
  <2> QED  BY <2>1, TouchedRemoves DEF AInv
<1> DEFINE q == Touched(k)
           e == idCache[i]
<1> HIDE DEF q, e
<1> QED  BY <1>1, <1>2, AppendedFits DEF IdsFit, Fits, q, e

\* The oldest entry makes room where there is none.
LEMMA PutFits ==
  ASSUME AInv, NEW k \in Stamps, NEW identity \in Versions \cup {Unreadable}, NEW T,
         torn \ {k} \subseteq T,
         identity = Unreadable \/ k \in T \/ Stamp(identity) = k
  PROVE  IdsFit(Put(k, identity), T)
<1> USE AttributionAssumption
<1> DEFINE kept == Touched(k)
           q    == IF Len(kept) = CacheSize THEN Tail(kept) ELSE kept
           e    == [key |-> k, identity |-> identity]
<1>1. /\ kept \in Seq(Entries) /\ Len(kept) <= CacheSize
      /\ \A j \in DOMAIN kept : kept[j].key # k /\ Fits(kept[j])
      /\ \A j, l \in DOMAIN kept : kept[j].key = kept[l].key => j = l
  <2>1. Len(idCache) \in Nat /\ Len(idCache) <= CacheSize
    BY DEF AInv, TypeOK, IdsInv
  <2> QED  BY <2>1, TouchedRemoves DEF AInv
<1> HIDE DEF kept
<1>2. /\ q \in Seq(Entries) /\ Len(q) < CacheSize
      /\ \A j \in DOMAIN q : q[j].key # k /\ Fits(q[j])
      /\ \A j, l \in DOMAIN q : q[j].key = q[l].key => j = l
  <2>1. CASE Len(kept) = CacheSize
    <3>1. kept # << >>
      BY <1>1, <2>1, EmptySeq
    <3> DEFINE r == Tail(kept)
    <3>2. /\ r \in Seq(Entries) /\ Len(r) = Len(kept) - 1
          /\ \A j \in 1 .. Len(r) : r[j] = kept[j + 1]
      BY <1>1, <3>1, HeadTailProperties
    <3> HIDE DEF r
    <3>3. /\ DOMAIN r = 1 .. Len(kept) - 1 /\ DOMAIN kept = 1 .. Len(kept)
          /\ Len(kept) \in Nat
      BY <1>1, <3>2
    <3>4. \A j \in DOMAIN r : j + 1 \in DOMAIN kept /\ r[j] = kept[j + 1]
      BY <3>2, <3>3
    <3>5. /\ \A j \in DOMAIN r : r[j].key # k /\ Fits(r[j])
          /\ \A j, l \in DOMAIN r : r[j].key = r[l].key => j = l
      <4>1. \A j \in DOMAIN r : r[j].key # k /\ Fits(r[j])
        BY <1>1, <3>4
      <4>2. ASSUME NEW j \in DOMAIN r, NEW l \in DOMAIN r, r[j].key = r[l].key
            PROVE  j = l
        <5>1. j + 1 = l + 1
          BY <1>1, <3>4, <4>2
        <5> QED  BY <5>1, <3>3
      <4> QED  BY <4>1, <4>2
    <3>6. q = r /\ Len(r) < CacheSize
      BY <2>1, <3>2, <3>3 DEF r
    <3> QED  BY <3>2, <3>5, <3>6
  <2>2. CASE Len(kept) # CacheSize
    <3>1. q = kept /\ Len(kept) \in Nat
      BY <1>1, <2>2
    <3> QED  BY <1>1, <2>2, <3>1
  <2> QED  BY <2>1, <2>2
<1>3. e \in Entries /\ e.key = k /\ e.identity = identity
  BY DEF Entries
<1>4. Put(k, identity) = Append(q, e)
  BY DEF Put, kept
<1> HIDE DEF q, e
<1>5. \A j \in DOMAIN q : \/ q[j].identity = Unreadable \/ q[j].key \in T
                         \/ Stamp(q[j].identity) = q[j].key
  BY <1>2 DEF Fits
<1>6. CacheSize \in Nat
  OBVIOUS
<1>7. IdsFit(Append(q, e), T)
  BY <1>2, <1>3, <1>5, <1>6, AppendedFits DEF IdsFit
<1> QED  BY <1>4, <1>7
-----------------------------------------------------------------------------
LEMMA ProgramKeeps == AInv /\ Program => AInv'
<1> USE AttributionAssumption
<1> SUFFICES ASSUME AInv, Program PROVE AInv'
  OBVIOUS
<1>0. UNCHANGED env
  BY DEF Program, Lookup, IdentifyDeleted, IdentifyHit, IdentifyMiss, Hash
<1>1. SocketsInv'
  BY <1>0 DEF AInv, SocketsInv, env
<1>2. ASSUME NEW p \in Packets, NEW asker \in {"worker", "decode"}, Lookup(p, asker)
      PROVE  AInv'
  <2>1. PICK c \in Caches(p.proto) : cache' = c
    BY <1>2 DEF Lookup
  <2>2. /\ pc' \in {Idle} \cup [at : {"identify"}, deleted : BOOLEAN]
        /\ UNCHANGED <<idCache, torn>>
    BY <1>2 DEF Lookup
  <2>3. pc'.at \in {"idle", "identify"}
    BY <2>2 DEF Idle
  <2>4. TypeOK' /\ CacheInv'
    BY <1>0, <2>1, <2>2, <2>3, CachesWell DEF AInv, TypeOK, CacheInv, Knows, env
  <2>5. IdsInv'
    BY <2>2 DEF AInv, IdsInv, Fits
  <2>6. StepInv'
    BY <1>0, <2>2, <2>3 DEF AInv, StepInv, env
  <2> QED  BY <1>1, <2>4, <2>5, <2>6 DEF AInv
<1>3. CASE IdentifyDeleted
  BY <1>0, <1>1, <1>3
  DEF IdentifyDeleted, Identified, AInv, TypeOK, CacheInv, Knows, IdsInv, Fits, StepInv, Idle, env
<1>4. CASE IdentifyHit
  <2>1. UNCHANGED <<cache, torn>> /\ pc' = Idle /\ IdsFit(idCache', torn)
    BY <1>4, HitFits DEF IdentifyHit, Identified
  <2>2. TypeOK' /\ CacheInv' /\ IdsInv' /\ StepInv'
    BY <1>0, <2>1
    DEF AInv, TypeOK, CacheInv, Knows, IdsInv, IdsFit, Fits, StepInv, Idle, env
  <2> QED  BY <1>1, <2>2 DEF AInv
<1>5. CASE IdentifyMiss
  <2>1. /\ UNCHANGED <<cache, idCache, torn>>
        /\ pc' = [at |-> "hash", key |-> Stamp(file), stamp |-> Stamp(file), from |-> replaced]
    BY <1>5 DEF IdentifyMiss, Key
  <2>2. file \in Versions /\ replaced \in Nat
    BY DEF AInv, TypeOK, StepInv
  <2>3. TypeOK' /\ CacheInv' /\ IdsInv'
    BY <1>0, <2>1 DEF AInv, TypeOK, CacheInv, Knows, IdsInv, Fits, env
  <2>4. StepInv'
    BY <1>0, <2>1, <2>2 DEF StepInv, Stamps, env
  <2> QED  BY <1>1, <2>3, <2>4 DEF AInv
<1>6. CASE Hash
  <2>1. PICK value \in {file, Unreadable} : idCache' = Put(pc.key, value)
    BY <1>6 DEF Hash
  <2>2. /\ pc.key \in Stamps /\ value \in Versions \cup {Unreadable}
        /\ pc.from = replaced => pc.key = Stamp(file)
    BY <1>6 DEF Hash, AInv, TypeOK, StepInv, Idle
  <2>3. /\ UNCHANGED cache /\ pc' = Idle
        /\ torn' = IF replaced # pc.from THEN torn \cup {pc.key} ELSE torn \ {pc.key}
    BY <1>6 DEF Hash, Identified
  <2>4. IdsFit(idCache', torn')
    <3>1. torn \ {pc.key} \subseteq torn'
      BY <2>3
    <3>2. value = Unreadable \/ pc.key \in torn' \/ Stamp(value) = pc.key
      BY <2>1, <2>2, <2>3
    <3> QED  BY <2>1, <2>2, <3>1, <3>2, PutFits
  <2>5. TypeOK' /\ CacheInv' /\ IdsInv' /\ StepInv'
    BY <1>0, <2>3, <2>4
    DEF AInv, TypeOK, CacheInv, Knows, IdsInv, IdsFit, Fits, StepInv, Idle, env
  <2> QED  BY <1>1, <2>5 DEF AInv
<1> QED  BY <1>2, <1>3, <1>4, <1>5, <1>6 DEF Program

\* The parts of AInv hold together in every reachable state: the owners, the two
\* caches and the lookup in progress are consistent (process/linux.rs, identity.rs).
THEOREM AttributionInvariant == Spec => []AInv
<1>1. AInv /\ [Next]_vars => AInv'
  <2> SUFFICES ASSUME AInv, [Next]_vars PROVE AInv'
    OBVIOUS
  <2>1. CASE UNCHANGED vars
    BY <2>1 DEF vars, env, AInv, TypeOK, SocketsInv, CacheInv, Knows, IdsInv, Fits, StepInv
  <2> QED  BY <2>1, HostKeeps, ProgramKeeps DEF Next
<1> QED  BY <1>1, InitInv, PTL DEF Spec

\* The inodes of the socket cache were given to a socket, and the cache of
\* identities has no key twice and no more than it may (cache_put, identity.rs).
THEOREM AttributionTyped == Spec => []TypeOK
<1> QED  BY AttributionInvariant, PTL DEF AInv

-----------------------------------------------------------------------------
\* The owner that a cache names has the end, and has it for sure when he was
\* alone on it and the cache knows of him.
LEMMA OwnerHasEnd ==
  ASSUME SocketsInv, NEW c, Knows(c), NEW end, Owner(c, end) # None
  PROVE  \E s \in sockets : s.pid = Owner(c, end) /\ EndOf(s.kind) = end
BY DEF Owner, Knows

LEMMA KnownOwner ==
  ASSUME SocketsInv, NEW c, NEW s \in sockets, EndOf(s.kind) \in DOMAIN c.entries,
         c.entries[EndOf(s.kind)] = s.inode
  PROVE  Owner(c, EndOf(s.kind)) = s.pid
<1> DEFINE of == {t \in sockets :
                    EndOf(s.kind) \in DOMAIN c.entries /\ t.inode = c.entries[EndOf(s.kind)]}
<1>1. of = {s}
  BY DEF SocketsInv
<1>2. (CHOOSE t \in of : TRUE) = s
  BY <1>1
<1> QED  BY <1>1, <1>2 DEF Owner

\* The questions are answered in their order.
LEMMA FirstComesFirst ==
  ASSUME NEW c, NEW ends, DOMAIN ends \in {{1}, {1, 2}}
  PROVE  /\ FirstOwner(c, ends) # None =>
              \E i \in DOMAIN ends : /\ Owner(c, ends[i]) # None
                                    /\ FirstOwner(c, ends) = Owner(c, ends[i])
         /\ Owner(c, ends[1]) # None => FirstOwner(c, ends) = Owner(c, ends[1])
<1> DEFINE hits == {i \in DOMAIN ends : Owner(c, ends[i]) # None}
<1>1. hits # {} => Min(hits) \in hits /\ \A i \in hits : Min(hits) <= i
  <2> SUFFICES ASSUME hits # {} PROVE \E x \in hits : \A y \in hits : x <= y
    BY DEF Min
  <2>1. CASE 1 \in hits
    <3>1. \A y \in hits : 1 <= y
      OBVIOUS
    <3> QED  BY <2>1, <3>1
  <2>2. CASE 1 \notin hits
    <3>1. hits = {2}
      BY <2>2
    <3> QED  BY <3>1
  <2> QED  BY <2>1, <2>2
<1>2. FirstOwner(c, ends) = IF hits = {} THEN None ELSE Owner(c, ends[Min(hits)])
  BY DEF FirstOwner
<1>3. 1 \in hits => Min(hits) = 1
  <2> DEFINE n == Min(hits)
  <2>1. 1 \in hits => n \in {1, 2} /\ n <= 1
    BY <1>1
  <2> HIDE DEF n
  <2>2. 1 \in hits => n = 1
    BY <2>1
  <2> QED  BY <2>2 DEF n
<1>4. 1 \in DOMAIN ends
  OBVIOUS
<1> HIDE DEF hits
<1>5. Owner(c, ends[1]) # None => 1 \in hits
  BY <1>4 DEF hits
<1>6. Owner(c, ends[1]) # None => FirstOwner(c, ends) = Owner(c, ends[1])
  BY <1>2, <1>3, <1>5
<1>7. hits # {} => Min(hits) \in DOMAIN ends /\ Owner(c, ends[Min(hits)]) # None
  BY <1>1 DEF hits
<1> QED  BY <1>2, <1>6, <1>7

\* A lookup names an owner of an end it was asked for, and the one there is once
\* the cache has had the time to see it: LooksUpRight
\* (lookup_socket_proc_linux, process/linux.rs:19-54).
THEOREM AskedAndFound == Spec => LooksUpRight
<1> USE AttributionAssumption
<1>1. AInv /\ [Next]_vars => [NamesAnOwner /\ FoundInTime]_vars
  <2> SUFFICES ASSUME AInv, Next PROVE NamesAnOwner /\ FoundInTime
    OBVIOUS
  <2>1. CASE Host
    BY <2>1 DEF Host, NamesAnOwner, FoundInTime, LookedUp
  <2>2. CASE IdentifyDeleted \/ IdentifyHit \/ IdentifyMiss \/ Hash
    BY <2>2 DEF IdentifyDeleted, IdentifyHit, IdentifyMiss, Hash, Idle,
                NamesAnOwner, FoundInTime, LookedUp
  <2>3. ASSUME NEW p \in Packets, NEW asker \in {"worker", "decode"}, Lookup(p, asker)
        PROVE  NamesAnOwner /\ FoundInTime
    <3>1. PICK c \in Caches(p.proto), ends \in {WorkerAsks(p), DecodeAsks(p)} :
            /\ cache' = c
            /\ found' = [proto |-> p.proto, ends |-> ends, pid |-> FirstOwner(c, ends)]
      BY <2>3 DEF Lookup
    <3>2. DOMAIN ends \in {{1}, {1, 2}}
      BY DEF WorkerAsks, DecodeAsks
    <3>3. SocketsInv /\ Knows(c) /\ clock \in Nat /\ cache.at \in Int
      BY CachesWell DEF AInv, TypeOK
    <3>4. NamesAnOwner
      <4> SUFFICES ASSUME FirstOwner(c, ends) # None
                   PROVE  \E s \in sockets :
                            /\ s.pid = FirstOwner(c, ends)
                            /\ \E i \in DOMAIN ends : EndOf(s.kind) = ends[i]
        BY <3>1 DEF NamesAnOwner
      <4>1. PICK i \in DOMAIN ends : /\ Owner(c, ends[i]) # None
                                    /\ FirstOwner(c, ends) = Owner(c, ends[i])
        BY <3>2, FirstComesFirst
      <4> QED  BY <4>1, <3>3, OwnerHasEnd
    <3>5. FoundInTime
      <4> SUFFICES ASSUME NEW s \in sockets, ends[1] = EndOf(s.kind),
                          p.proto = s.kind.proto, c.proto = s.kind.proto,
                          clock - s.since > Interval, s.alone
                   PROVE  FirstOwner(c, ends) = s.pid
        BY <3>1 DEF FoundInTime
      <4>1. s.since \in Nat /\ s.pid \in Pids
        BY <3>3 DEF SocketsInv
      <4>2. s.since < c.at
        BY <3>3, <4>1, CachesWell DEF Stale
      <4>3. Owner(c, ends[1]) = s.pid
        BY <3>3, <4>2, KnownOwner DEF Knows
      <4> QED  BY <3>2, <4>1, <4>3, FirstComesFirst
    <3> QED  BY <3>4, <3>5
  <2> QED  BY <2>1, <2>2, <2>3 DEF Next, Program
<1> QED  BY <1>1, AttributionInvariant, PTL DEF Spec, LooksUpRight

\* The identity given for a file fits the time and size it had, unless the file
\* was replaced while it was first read: IdentityFits
\* (BinaryIdentity::identify, identity.rs:50-62).
THEOREM IdentityIsOfTheFile == Spec => IdentityFits
<1> DEFINE Fit == pc # Idle /\ found' # None =>
                    \/ found'.value = Unreadable
                    \/ found'.key \in torn'
                    \/ Stamp(found'.value) = found'.stamp
<1>1. AInv /\ [Next]_vars => [Fit]_vars
  <2> SUFFICES ASSUME AInv, Next PROVE Fit
    OBVIOUS
  <2>1. CASE Host
    BY <2>1 DEF Host
  <2>2. CASE \E p \in Packets, asker \in {"worker", "decode"} : Lookup(p, asker)
    BY <2>2 DEF Lookup
  <2>3. CASE IdentifyDeleted
    BY <2>3 DEF IdentifyDeleted, Identified
  <2>4. CASE IdentifyHit
    <3>1. PICK i \in Cached(Key(file)) :
            found' = [value |-> idCache[i].identity, stamp |-> Stamp(file), key |-> Key(file)]
      BY <2>4 DEF IdentifyHit, Identified
    <3>2. Fits(idCache[i]) /\ idCache[i].key = Stamp(file) /\ torn' = torn
      BY <2>4 DEF IdentifyHit, Cached, Key, AInv, IdsInv
    <3> QED  BY <3>1, <3>2 DEF Fits, Key
  <2>5. CASE IdentifyMiss
    BY <2>5 DEF IdentifyMiss
  <2>6. CASE Hash
    <3>1. PICK value \in {file, Unreadable} :
            found' = [value |-> value, stamp |-> pc.stamp, key |-> pc.key]
      BY <2>6 DEF Hash, Identified
    <3>2. CASE replaced = pc.from
      BY <2>6, <3>1, <3>2 DEF Hash, AInv, StepInv
    <3>3. CASE replaced # pc.from
      BY <2>6, <3>1, <3>3 DEF Hash
    <3> QED  BY <3>2, <3>3
  <2> QED  BY <2>1, <2>2, <2>3, <2>4, <2>5, <2>6 DEF Next, Program
<1> QED  BY <1>1, AttributionInvariant, PTL DEF Spec, IdentityFits
=============================================================================
