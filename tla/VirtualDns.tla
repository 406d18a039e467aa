----------------------------- MODULE VirtualDns -----------------------------
(***************************************************************************)
(* The virtual DNS of the Android VPN (src-vpn/src/virtual_dns.rs): an LRU *)
(* list of leased addresses, the entry of each, the inverse map from names *)
(* and the place where the next scan for a free address starts.            *)
(*                                                                         *)
(* Every handler holds the mutex around VirtualDns from its first to its   *)
(* last access (vpn.rs:40 and vpn.rs:92-96), so it is one action.  It      *)
(* reads the clock more than once, and time passes in between: now' is     *)
(* the later reading.                                                      *)
(***************************************************************************)
EXTENDS Integers, Sequences, Functions

CONSTANTS
  Names,           \* the names applications ask for, without the final dot
  PoolSize,        \* usable addresses: network address up to the one before broadcast
  MappingTimeout,  \* MAPPING_TIMEOUT
  HandlerTime,     \* bound: ticks between the clock readings of one handler
  MaxTime          \* bound on the clock

ASSUME PoolAssumption == PoolSize \in Nat \ {0}
ASSUME TimeAssumption == MappingTimeout \in Nat /\ HandlerTime \in Nat /\ MaxTime \in Nat
ASSUME NamesAssumption == Names # {}

VARIABLES
  now,       \* Instant::now()
  lru,       \* keys of lru_cache, least recently used first
  entry,     \* values of lru_cache
  nameToIp,  \* name_to_ip
  nextAddr,  \* next_addr
  reply      \* the result of the last query

dnsState == <<lru, entry, nameToIp, nextAddr>>
vars == <<now, lru, entry, nameToIp, nextAddr, reply>>

Addr == 0 .. PoolSize - 1
NoIp == -1
Entry(name, from) == [name |-> name, expiry |-> from + MappingTimeout]

\* HashMap::insert.
Insert(map, key, value) ==
  [k \in DOMAIN map \cup {key} |-> IF k = key THEN value ELSE map[k]]

Listed(s) == {s[i] : i \in 1 .. Len(s)}

\* VirtualDns::new.
New(list, entries, names, next) ==
  list = << >> /\ entries = << >> /\ names = << >> /\ next = 0

Init ==
  /\ New(lru, entry, nameToIp, nextAddr)
  /\ now = 0
  /\ reply \in [name : Names, ip : {NoIp}]

-----------------------------------------------------------------------------
\* A later reading of the clock within one handler.
Later == {t \in now .. now + HandlerTime : t <= MaxTime}

Expired(ip) == now > entry[ip].expiry

\* Mutant: one entry at most is purged per query.
PurgeOneAtMost(n) ==
  /\ n <= 1
  /\ \A i \in 1 .. n : Expired(lru[i])
  /\ n = 0 /\ Len(lru) > 0 => ~Expired(lru[1])

\* The purge loop removes entries from the front until the first unexpired.
PurgeStopsAt(n) ==
  /\ \A i \in 1 .. n : Expired(lru[i])
  /\ n < Len(lru) => ~Expired(lru[n + 1])

Dropped(n) == {lru[i] : i \in 1 .. n}
KeptLru(n) == SubSeq(lru, n + 1, Len(lru))
KeptEntry(n) == Restrict(entry, DOMAIN entry \ Dropped(n))
KeptNames(n) ==
  Restrict(nameToIp, DOMAIN nameToIp \ {entry[ip].name : ip \in Dropped(n)})

\* Mutant: a cache that does not reorder on access.
KeepOrder(s, i) == s

\* LruCache::get and get_mut make the key the most recently used one.
ToBack(s, i) ==
  [j \in 1 .. Len(s) |-> IF j < i THEN s[j] ELSE IF j < Len(s) THEN s[j + 1] ELSE s[i]]

\* How many increments, with the wrap before broadcast, lead from a to b.
Ahead(a, b) == IF a <= b THEN b - a ELSE b - a + PoolSize

\* The scan from nextAddr stops at the first vacant address.
FirstVacant(ip, busy) ==
  /\ ip \in Addr \ busy
  /\ \A other \in Addr \ busy : Ahead(nextAddr, ip) <= Ahead(nextAddr, other)

-----------------------------------------------------------------------------
\* Mutant: a name that is found is not touched.
QueryHitNoTouch(name, n) ==
  /\ PurgeStopsAt(n)
  /\ name \in DOMAIN KeptNames(n)
  /\ lru' = KeptLru(n)
  /\ entry' = KeptEntry(n)
  /\ nameToIp' = KeptNames(n)
  /\ reply' = [name |-> name, ip |-> nameToIp[name]]
  /\ UNCHANGED <<now, nextAddr>>

\* find_or_allocate_ip on a name that still has its address: touch_ip.
QueryHit(name, n) ==
  /\ PurgeStopsAt(n)
  /\ name \in DOMAIN KeptNames(n)
  /\ LET ip == nameToIp[name] IN \E i \in 1 .. Len(KeptLru(n)), later \in Later :
       /\ KeptLru(n)[i] = ip
       /\ now' = later
       /\ lru' = ToBack(KeptLru(n), i)
       /\ entry' = [KeptEntry(n) EXCEPT ![ip].expiry = later + MappingTimeout]
       /\ nameToIp' = KeptNames(n)
       /\ reply' = [name |-> name, ip |-> ip]
  /\ UNCHANGED nextAddr

\* find_or_allocate_ip on a new name, with a vacant address in the pool.
QueryAllocate(name, n) ==
  /\ PurgeStopsAt(n)
  /\ name \notin DOMAIN KeptNames(n)
  /\ \E ip \in Addr, later \in Later :
       /\ FirstVacant(ip, DOMAIN KeptEntry(n))
       /\ now' = later
       /\ lru' = Append(KeptLru(n), ip)
       /\ entry' = Insert(KeptEntry(n), ip, Entry(name, later))
       /\ nameToIp' = Insert(KeptNames(n), name, ip)
       /\ nextAddr' = ip
       /\ reply' = [name |-> name, ip |-> ip]

\* The scan came back to where it started: "Virtual IP space for DNS exhausted".
QueryExhausted(name, n) ==
  /\ PurgeStopsAt(n)
  /\ name \notin DOMAIN KeptNames(n)
  /\ Addr \subseteq DOMAIN KeptEntry(n)
  /\ lru' = KeptLru(n)
  /\ entry' = KeptEntry(n)
  /\ nameToIp' = KeptNames(n)
  /\ reply' = [name |-> name, ip |-> NoIp]
  /\ UNCHANGED <<now, nextAddr>>

Query(name) == \E n \in 0 .. Len(lru) :
  \/ QueryHit(name, n)
  \/ QueryAllocate(name, n)
  \/ QueryExhausted(name, n)

\* touch_ip, then resolve_ip, under one lock: TCP accept in start_run_vpn.
\* Nothing changes for an address that has no entry.
TouchAndResolve(ip) ==
  /\ \E i \in 1 .. Len(lru) :
       /\ lru[i] = ip
       /\ lru' = ToBack(lru, i)
       /\ entry' = [entry EXCEPT ![ip].expiry = now + MappingTimeout]
  /\ UNCHANGED <<now, nameToIp, nextAddr, reply>>

Tick == now < MaxTime /\ now' = now + 1 /\ UNCHANGED <<dnsState, reply>>

\* The VPN is stopped and started again: VirtualDns::new.
Restart == New(lru', entry', nameToIp', nextAddr') /\ UNCHANGED <<now, reply>>

Next ==
  \/ \E name \in Names : Query(name)
  \/ \E ip \in Addr : TouchAndResolve(ip)
  \/ Tick
  \/ Restart

Spec == Init /\ [][Next]_vars

-----------------------------------------------------------------------------
TypeOK ==
  /\ now \in Nat
  /\ lru \in Seq(Addr)
  /\ DOMAIN entry \subseteq Addr
  /\ entry \in [DOMAIN entry -> [name : Names, expiry : Nat]]
  /\ DOMAIN nameToIp \subseteq Names
  /\ nameToIp \in [DOMAIN nameToIp -> Addr]
  /\ nextAddr \in Addr
  /\ reply \in [name : Names, ip : Addr \cup {NoIp}]

\* The LRU list holds every leased address exactly once.
ListMatchesEntries ==
  /\ Listed(lru) = DOMAIN entry
  /\ \A i, j \in 1 .. Len(lru) : lru[i] = lru[j] => i = j

\* The two maps of VirtualDns, kept apart by hand on insert and on purge,
\* stay inverse to each other: no two names share an address and no name has
\* an address the cache has forgotten.
MapsAgree ==
  /\ \A ip \in DOMAIN entry : entry[ip].name \in DOMAIN nameToIp /\ nameToIp[entry[ip].name] = ip
  /\ \A name \in DOMAIN nameToIp : nameToIp[name] \in DOMAIN entry /\ entry[nameToIp[name]].name = name

\* "The entry has not expired and all following entries are newer"
\* (virtual_dns.rs:119): the purge may stop at the first unexpired entry.
OldestFirst ==
  \A i, j \in 1 .. Len(lru) : i <= j => entry[lru[i]].expiry <= entry[lru[j]].expiry

\* A mapping never outlives MAPPING_TIMEOUT from the present.
ExpiryBounded == \A ip \in DOMAIN entry : entry[ip].expiry <= now + MappingTimeout

Consistent == ListMatchesEntries /\ MapsAgree /\ OldestFirst /\ ExpiryBounded

\* An address is never handed to another name while its mapping is alive: a
\* step that renames it finds the old mapping expired.
NoEarlyReuse ==
  [][\A ip \in DOMAIN entry \cap DOMAIN entry' :
       entry'[ip].name # entry[ip].name => now > entry[ip].expiry]_vars

Leases(entries) ==
  [ip \in DOMAIN entries |-> [name |-> entries[ip].name, until |-> entries[ip].expiry]]

\* What an application may rely on, AddressLease, is what VirtualDns does.
Lease == INSTANCE AddressLease WITH
  Term <- MappingTimeout,
  clock <- now,
  lease <- Leases(entry)

LeaseSpec == Lease!Spec
=============================================================================
