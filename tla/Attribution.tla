---------------------------- MODULE Attribution ----------------------------
(***************************************************************************)
(* From a packet to a process and its binary: the socket cache over        *)
(* /proc/net (process/linux.rs), its two callers, the worker of the daemon *)
(* (monitor/correlate.rs) and the decode thread (main.rs), and the         *)
(* identity of the executable with its cache (identity.rs).                *)
(*                                                                         *)
(* Meanwhile processes open and close sockets and are restarted, and       *)
(* executables are replaced.  A packet may be looked up long after it was  *)
(* captured, so any packet may be looked up in any state.                  *)
(***************************************************************************)
EXTENDS Integers, Sequences, SequencesExt, FiniteSetsExt, Functions

CONSTANTS
  Pids,        \* processes, each running the one executable
  Sockets,     \* the kinds of sockets opened: [proto, addr, port]
  Packets,     \* packets looked up: [proto, src, sport, dst, dport]
  LocalAddrs,  \* addresses of the host
  Versions,    \* contents the executable may have
  Stamp(_),    \* time and size of the file with those contents
  Interval,    \* REFRESH_INTERVAL, in ticks
  CacheSize,   \* identities that are cached (1024)
  MaxTime,     \* bound: the clock
  MaxSockets,  \* bound: sockets opened
  MaxReplaced, \* bound: replacements of the executable
  None         \* an absent value

ASSUME AttributionAssumption ==
  /\ Interval \in Nat /\ CacheSize \in Nat \ {0} /\ MaxTime \in Nat /\ MaxSockets \in Nat
  /\ None \notin Pids

VARIABLES
  clock,    \* time, in ticks
  inode,    \* the last inode given to a socket
  sockets,  \* the open sockets: their kind, inode, owner, age, and (history)
            \* whether they were always alone on their end
  cache,    \* ProcNetCache: entries, last_refresh, and what was read for it
  file,     \* the contents of the executable
  replaced, \* how often they were replaced
  deleted,  \* processes that run a file that was replaced since
  idCache,  \* identities by path, time and size, least recently used first
  torn,     \* history: keys filled while the file was replaced
  pc,       \* the lookup in progress
  found     \* history: what the last step, if it was the program's, found

env      == <<clock, inode, sockets, file, replaced, deleted>>
vars     == <<env, cache, idCache, torn, pc, found>>

Unreadable == "unreadable"
Idle       == [at |-> "idle"]

EndOf(kind) == <<kind.addr, kind.port>>

Init ==
  /\ clock = 0 /\ inode = 0 /\ sockets = {}
  /\ cache = [entries |-> << >>, at |-> 0 - 2 * Interval, proto |-> None]
  /\ file \in Versions /\ replaced = 0 /\ deleted = {}
  /\ idCache = << >> /\ torn = {}
  /\ pc = Idle
  /\ found = None

-----------------------------------------------------------------------------
\* The host.
Tick ==
  /\ clock < MaxTime
  /\ clock' = clock + 1
  /\ UNCHANGED <<inode, sockets, file, replaced, deleted>>

Open(pid, kind) ==
  /\ inode < MaxSockets
  /\ inode' = inode + 1
  /\ LET shares(s) == EndOf(s.kind) = EndOf(kind)
     IN sockets' =
          {[s EXCEPT !.alone = @ /\ ~shares(s)] : s \in sockets}
            \cup {[kind |-> kind, inode |-> inode + 1, pid |-> pid, since |-> clock,
                   alone |-> \A s \in sockets : ~shares(s)]}
  /\ UNCHANGED <<clock, file, replaced, deleted>>

Close(s) ==
  /\ sockets' = sockets \ {s}
  /\ UNCHANGED <<clock, inode, file, replaced, deleted>>

\* A new file takes the place of the executable; what runs keeps the old one,
\* whose link then reads "... (deleted)".
Replace(v) ==
  /\ replaced < MaxReplaced
  /\ v # file
  /\ file' = v
  /\ replaced' = replaced + 1
  /\ deleted' = Pids
  /\ UNCHANGED <<clock, inode, sockets>>

Restart(pid) ==
  /\ pid \in deleted
  /\ deleted' = deleted \ {pid}
  /\ sockets' = {s \in sockets : s.pid # pid}
  /\ UNCHANGED <<clock, inode, file, replaced>>

-----------------------------------------------------------------------------
\* lookup_socket_proc_linux.  A refresh reads the files of one protocol, where
\* the last line of an end counts; the entries of the other are gone.
Stale == clock - cache.at > Interval
Reading(proto) ==
  LET of == {s \in sockets : s.kind.proto = proto}
      ends == {EndOf(s.kind) : s \in of}
  IN {f \in [ends -> {s.inode : s \in of}] :
        \A e \in ends : \E s \in of : s.inode = f[e] /\ EndOf(s.kind) = e}
Caches(proto) ==
  IF Stale THEN {[entries |-> f, at |-> clock, proto |-> proto] : f \in Reading(proto)}
  ELSE {cache}

\* The owner of an entry, if its socket is still open (find_pid_for_inode).
Owner(c, end) ==
  LET of == {s \in sockets : end \in DOMAIN c.entries /\ s.inode = c.entries[end]}
  IN IF of = {} THEN None ELSE (CHOOSE s \in of : TRUE).pid

\* The worker asks for the local end of a packet: its source, unless only its
\* destination is local.  The decode thread asks for the source address, with
\* the port of the source and then with that of the destination.
LocalEnd(p) ==
  IF p.dst \in LocalAddrs /\ p.src \notin LocalAddrs
  THEN <<p.dst, p.dport>> ELSE <<p.src, p.sport>>
WorkerAsks(p) == <<LocalEnd(p)>>
DecodeAsks(p) == <<<<p.src, p.sport>>, <<p.src, p.dport>>>>

\* The second question comes at once, and finds the cache fresh.
FirstOwner(c, ends) ==
  LET hits == {i \in DOMAIN ends : Owner(c, ends[i]) # None}
  IN IF hits = {} THEN None ELSE Owner(c, ends[Min(hits)])

Lookup_Sliding(p, asker) ==
  /\ pc = Idle
  /\ \E c \in Caches(p.proto) :
       LET ends == IF asker = "worker" THEN WorkerAsks(p) ELSE DecodeAsks(p)
           pid  == FirstOwner(c, ends)
       IN /\ cache' = [c EXCEPT !.at = clock]
          /\ found' = [proto |-> p.proto, ends |-> ends, pid |-> pid]
          /\ pc' = IF asker = "worker" /\ pid # None
                   THEN [at |-> "identify", deleted |-> pid \in deleted]
                   ELSE Idle
  /\ UNCHANGED <<env, idCache, torn>>
Lookup(p, asker) ==
  /\ pc = Idle
  /\ \E c \in Caches(p.proto) :
       LET ends == IF asker = "worker" THEN WorkerAsks(p) ELSE DecodeAsks(p)
           pid  == FirstOwner(c, ends)
       IN /\ cache' = c
          /\ found' = [proto |-> p.proto, ends |-> ends, pid |-> pid]
          /\ pc' = IF asker = "worker" /\ pid # None
                   THEN [at |-> "identify", deleted |-> pid \in deleted]
                   ELSE Idle
  /\ UNCHANGED <<env, idCache, torn>>

-----------------------------------------------------------------------------
\* BinaryIdentity::identify: the metadata first, then a hit of the cache, or
\* the contents, which may be others by then or may not be readable.
Key_PathOnly(v) == "path"
Key(v) == Stamp(v)
Cached(k) == {i \in DOMAIN idCache : idCache[i].key = k}
Touched(k) ==
  IF Cached(k) = {} THEN idCache ELSE RemoveAt(idCache, CHOOSE i \in Cached(k) : TRUE)
Put_NoEviction(k, identity) ==
  Append(Touched(k), [key |-> k, identity |-> identity])
Put(k, identity) ==
  LET kept == Touched(k)
  IN Append(IF Len(kept) = CacheSize THEN Tail(kept) ELSE kept,
            [key |-> k, identity |-> identity])
Identified(identity) ==
  /\ found' = identity
  /\ pc' = Idle

\* The link to a file that was deleted when the process was found names none: it
\* has no metadata, and cannot be read; nothing is cached.
IdentifyDeleted ==
  /\ pc.at = "identify" /\ pc.deleted
  /\ Identified([value |-> Unreadable, stamp |-> None, key |-> None])
  /\ UNCHANGED <<env, cache, idCache, torn>>

IdentifyHit ==
  /\ pc.at = "identify" /\ ~pc.deleted
  /\ \E i \in Cached(Key(file)) :
       /\ Identified([value |-> idCache[i].identity, stamp |-> Stamp(file), key |-> Key(file)])
       /\ idCache' = Append(Touched(Key(file)), idCache[i])
  /\ UNCHANGED <<env, cache, torn>>

IdentifyMiss ==
  /\ pc.at = "identify" /\ ~pc.deleted
  /\ Cached(Key(file)) = {}
  /\ pc' = [at |-> "hash", key |-> Key(file), stamp |-> Stamp(file), from |-> replaced]
  /\ found' = None
  /\ UNCHANGED <<env, cache, idCache, torn>>

Hash ==
  /\ pc.at = "hash"
  /\ \E value \in {file, Unreadable} :
       /\ idCache' = Put(pc.key, value)
       /\ Identified([value |-> value, stamp |-> pc.stamp, key |-> pc.key])
  /\ torn' = IF replaced # pc.from THEN torn \cup {pc.key} ELSE torn \ {pc.key}
  /\ UNCHANGED <<env, cache>>

Host ==
  /\ \/ Tick
     \/ \E pid \in Pids, k \in Sockets : Open(pid, k)
     \/ \E s \in sockets : Close(s)
     \/ \E v \in Versions : Replace(v)
     \/ \E pid \in Pids : Restart(pid)
  /\ found' = None
  /\ UNCHANGED <<cache, idCache, torn, pc>>

Program ==
  \/ \E p \in Packets, asker \in {"worker", "decode"} : Lookup(p, asker)
  \/ IdentifyDeleted \/ IdentifyHit \/ IdentifyMiss \/ Hash

Next == Host \/ Program

Spec == Init /\ [][Next]_vars

-----------------------------------------------------------------------------
\* The entries of the cache are inodes that were given, and the identity cache
\* holds no key twice and no more than it may.
TypeOK ==
  /\ clock \in 0..MaxTime /\ cache.at \in (0 - 2 * Interval)..clock
  /\ Range(cache.entries) \subseteq 1..inode
  /\ file \in Versions /\ deleted \subseteq Pids
  /\ Len(idCache) <= CacheSize
  /\ \A i, j \in DOMAIN idCache : idCache[i].key = idCache[j].key => i = j
  /\ pc.at \in {"idle", "identify", "hash"}

LookedUp == pc = Idle /\ found' # None

\* Who is named holds, at that moment, a socket on an end that was asked for,
\* though perhaps one of the other protocol: the cache may be stale, but the
\* inode it yields is looked for among the open ones, and inodes are not used
\* twice (find_pid_for_inode, process/linux.rs:100-133).
NamesAnOwner ==
  LookedUp /\ found'.pid # None
    => \E s \in sockets :
         s.pid = found'.pid /\ \E i \in DOMAIN found'.ends : EndOf(s.kind) = found'.ends[i]

\* A socket that has been open for longer than the refresh interval, and that was
\* always alone on its end, is found, if the cache was read for its protocol.  It is the
\* proviso that fails when lookups for the other protocol come first after
\* every interval (process/linux.rs:32-46).
FoundInTime ==
  \A s \in sockets :
    /\ LookedUp
    /\ found'.ends[1] = EndOf(s.kind) /\ found'.proto = s.kind.proto
    /\ cache'.proto = s.kind.proto
    /\ clock - s.since > Interval
    /\ s.alone
    => found'.pid = s.pid

\* A lookup names an owner of the end, and the one there is once the cache has
\* had the time to see it (lookup_socket_proc_linux, process/linux.rs:19-54).
LooksUpRight == [][NamesAnOwner /\ FoundInTime]_vars

\* The identity given for a file is of contents with the time and the size that
\* the file had when it was asked for, or it could not be read, unless the
\* file was replaced while the identity was first read: the time and size are
\* taken before the contents (BinaryIdentity::identify, identity.rs:50-62).
IdentityFits ==
  [][pc # Idle /\ found' # None =>
       \/ found'.value = Unreadable
       \/ found'.key \in torn'
       \/ Stamp(found'.value) = found'.stamp]_vars
=============================================================================
